--------------------------- MODULE SnapshotdProofs ---------------------------
(***************************************************************************)
(* What TLAPS proves of Snapshotd, and of SnapshotClients composed with it, *)
(* for every value of their constants.                                      *)
(***************************************************************************)
EXTENDS SnapshotClients, FiniteSetTheorems, TLAPS

USE DEF params, files, locals, zpool, engine, stream, ghosts, bounds, vars

\* The actions, one by one: what a proof about Next has to go through.
LEMMA NextCases ==
  ASSUME [Next]_vars
  PROVE  \/ Boot \/ ReadRequest \/ MissRequest \/ SchemaPass \/ ReadConfig
         \/ MissConfig \/ Probe \/ CompareLag \/ AlignSequences \/ ZfsSnapshot
         \/ ZfsFails \/ TagSnapshot \/ PublishVerdict \/ RestartEngine
         \/ StampSnapshot \/ ListVictims \/ DestroyOldest \/ PruneDone
         \/ Crash \/ Tick \/ Stream
         \/ \E s \in SnapId : Branch(s) \/ Unbranch(s)
         \/ \E c \in Configs : Configure(c)
         \/ \E n \in Nonces : RequestSnapshot(n)
         \/ UNCHANGED vars
  BY DEF Next, Daemon, TakeSnapshot, Prune, Surroundings

-----------------------------------------------------------------------------
(* Types *)

LEMMA ParamsTyped == TypeOK /\ [Next]_vars => ParamsOK'
<1> SUFFICES ASSUME TypeOK, [Next]_vars PROVE ParamsOK'
  OBVIOUS
<1> USE DEF TypeOK, ParamsOK, DaemonOK
<1>1. CASE UNCHANGED params
  BY <1>1
<1>2. CASE PublishVerdict
  BY <1>2 DEF PublishVerdict
<1>3. ASSUME NEW c \in Configs, Configure(c) PROVE ParamsOK'
  BY <1>3 DEF Configure
<1>4. ASSUME NEW n \in Nonces, RequestSnapshot(n) PROVE ParamsOK'
  BY <1>4 DEF RequestSnapshot
<1> QED
  BY <1>1, <1>2, <1>3, <1>4, NextCases
  DEF Boot, ReadRequest, MissRequest, SchemaPass, ReadConfig, MissConfig,
      Probe, CompareLag, AlignSequences, ZfsSnapshot, ZfsFails, TagSnapshot,
      RestartEngine, StampSnapshot, ListVictims, DestroyOldest, PruneDone,
      Crash, Tick, Stream, PublisherWrites, TargetApplies, CopyDone, Branch,
      Unbranch

LEMMA FilesTyped == TypeOK /\ [Next]_vars => FilesOK'
<1> SUFFICES ASSUME TypeOK, [Next]_vars PROVE FilesOK'
  OBVIOUS
<1> USE ConstantsOK DEF TypeOK, ParamsOK, FilesOK, NoClock
<1>1. CASE UNCHANGED files
  BY <1>1
<1>2. CASE Boot
  BY <1>2 DEF Boot
<1>3. CASE ReadRequest
  BY <1>3 DEF ReadRequest
<1>4. CASE Probe \/ CompareLag
  BY <1>4 DEF Probe, CompareLag, CaughtUp, Behind, StartedClock
<1>5. CASE StampSnapshot
  BY <1>5 DEF StampSnapshot
<1>6. CASE Tick
  BY <1>6 DEF Tick, Older
<1> QED
  BY <1>1, <1>2, <1>3, <1>4, <1>5, <1>6, NextCases
  DEF MissRequest, SchemaPass, ReadConfig, MissConfig, AlignSequences,
      ZfsSnapshot, ZfsFails, TagSnapshot, PublishVerdict, RestartEngine,
      ListVictims, DestroyOldest, PruneDone, Crash, Stream, PublisherWrites,
      TargetApplies, CopyDone, Branch, Unbranch, Configure, RequestSnapshot

LEMMA DaemonTyped == TypeOK /\ [Next]_vars => DaemonOK'
<1> SUFFICES ASSUME TypeOK, [Next]_vars PROVE DaemonOK'
  OBVIOUS
<1> USE DEF TypeOK, DaemonOK, PCs
<1>1. CASE UNCHANGED <<pc, locals>>
  BY <1>1
<1>2. CASE ReadConfig
  BY <1>2, ConstantsOK DEF ReadConfig, ParamsOK
<1>3. CASE Probe \/ CompareLag
  BY <1>3 DEF Probe, CompareLag, CaughtUp, Behind, StartedClock, StreamOK
<1>4. CASE ListVictims \/ DestroyOldest
  BY <1>4 DEF ListVictims, DestroyOldest, OlderThanNewest, PoolOK
<1>5. CASE Crash
  BY <1>5 DEF Crash
<1>6. CASE UNCHANGED locals /\ pc' \in PCs
  BY <1>6
<1>7. CASE ReadRequest
  BY <1>7 DEF ReadRequest
<1> QED
  BY <1>1, <1>2, <1>3, <1>4, <1>5, <1>6, <1>7, NextCases
  DEF Boot, MissRequest, SchemaPass, MissConfig, AlignSequences, ZfsSnapshot,
      ZfsFails, AfterTake, TagSnapshot, PublishVerdict, RestartEngine,
      StampSnapshot, PruneDone, Tick, Stream, PublisherWrites, TargetApplies,
      CopyDone, Branch, Unbranch, Configure, RequestSnapshot

LEMMA PoolTyped == TypeOK /\ [Next]_vars => PoolOK'
<1> SUFFICES ASSUME TypeOK, [Next]_vars PROVE PoolOK'
  OBVIOUS
<1> USE ConstantsOK DEF TypeOK, PoolOK, SnapId
<1>1. CASE UNCHANGED <<zpool, engine>>
  BY <1>1
<1>2. CASE ZfsSnapshot
  BY <1>2 DEF ZfsSnapshot
<1>3. CASE TagSnapshot
  BY <1>3 DEF TagSnapshot, DaemonOK
<1>4. CASE RestartEngine
  BY <1>4 DEF RestartEngine
<1>5. CASE DestroyOldest
  BY <1>5 DEF DestroyOldest
<1>6. ASSUME NEW s \in SnapId, Branch(s) \/ Unbranch(s) PROVE PoolOK'
  BY <1>6 DEF Branch, Unbranch
<1> QED
  BY <1>1, <1>2, <1>3, <1>4, <1>5, <1>6, NextCases
  DEF Boot, ReadRequest, MissRequest, SchemaPass, ReadConfig, MissConfig,
      Probe, CompareLag, AlignSequences, ZfsFails, PublishVerdict,
      StampSnapshot, ListVictims, PruneDone, Crash, Tick, Stream,
      PublisherWrites, TargetApplies, CopyDone, Configure, RequestSnapshot

LEMMA StreamTyped == TypeOK /\ [Next]_vars => StreamOK'
<1> SUFFICES ASSUME TypeOK, [Next]_vars PROVE StreamOK'
  OBVIOUS
<1> USE ConstantsOK DEF TypeOK, StreamOK
<1>1. CASE UNCHANGED stream
  BY <1>1
<1>2. CASE SchemaPass
  BY <1>2 DEF SchemaPass
<1>3. CASE AlignSequences
  BY <1>3 DEF AlignSequences
<1>4. CASE Stream
  BY <1>4 DEF Stream, PublisherWrites, TargetApplies, CopyDone
<1> QED
  BY <1>1, <1>2, <1>3, <1>4, NextCases
  DEF Boot, ReadRequest, MissRequest, ReadConfig, MissConfig, Probe,
      CompareLag, ZfsSnapshot, ZfsFails, TagSnapshot, PublishVerdict,
      RestartEngine, StampSnapshot, ListVictims, DestroyOldest, PruneDone,
      Crash, Tick, Branch, Unbranch, Configure, RequestSnapshot

LEMMA HistoryTyped == TypeOK /\ [Next]_vars => HistoryOK'
<1> SUFFICES ASSUME TypeOK, [Next]_vars PROVE HistoryOK'
  OBVIOUS
<1> USE ConstantsOK DEF TypeOK, HistoryOK
<1>1. CASE UNCHANGED <<ghosts, bounds>>
  BY <1>1
<1>2. CASE Boot
  BY <1>2 DEF Boot
<1>3. CASE Probe \/ CompareLag
  BY <1>3 DEF Probe, CompareLag, CaughtUp, Behind, StartedClock, StreamOK
<1>4. CASE ZfsSnapshot
  BY <1>4 DEF ZfsSnapshot, Converged, FilesOK
<1>5. CASE ZfsFails
  BY <1>5 DEF ZfsFails
<1>6. CASE Crash \/ Tick
  BY <1>6 DEF Crash, Tick, Older
<1>7. ASSUME NEW n \in Nonces, RequestSnapshot(n) PROVE HistoryOK'
  BY <1>7 DEF RequestSnapshot
<1> QED
  BY <1>1, <1>2, <1>3, <1>4, <1>5, <1>6, <1>7, NextCases
  DEF ReadRequest, MissRequest, SchemaPass, ReadConfig, MissConfig,
      AlignSequences, TagSnapshot, PublishVerdict, RestartEngine,
      StampSnapshot, ListVictims, DestroyOldest, PruneDone, Stream,
      PublisherWrites, TargetApplies, CopyDone, Branch, Unbranch, Configure

LEMMA FlagsTyped == TypeOK /\ [Next]_vars => FlagsOK'
<1> SUFFICES ASSUME TypeOK, [Next]_vars PROVE FlagsOK'
  OBVIOUS
<1> USE DEF TypeOK, FlagsOK
<1>1. CASE UNCHANGED copying
  BY <1>1
<1>2. CASE Boot \/ ZfsSnapshot
  BY <1>2 DEF Boot, ZfsSnapshot
<1>3. CASE SchemaPass
  BY <1>3 DEF SchemaPass
<1>4. CASE Probe
  BY <1>4 DEF Probe, CaughtUp, Behind, StartedClock
<1>5. CASE CompareLag
  BY <1>5 DEF CompareLag, CaughtUp, Behind, StartedClock
<1>6. CASE Stream
  BY <1>6 DEF Stream, PublisherWrites, TargetApplies, CopyDone
<1> QED
  BY <1>1, <1>2, <1>3, <1>4, <1>5, <1>6, NextCases
  DEF ReadRequest, MissRequest, ReadConfig, MissConfig, AlignSequences,
      ZfsFails, TagSnapshot, PublishVerdict, RestartEngine, StampSnapshot,
      ListVictims, DestroyOldest, PruneDone, Crash, Tick, Branch, Unbranch,
      Configure, RequestSnapshot

LEMMA InitTyped == Init => TypeOK
<1> SUFFICES ASSUME Init PROVE TypeOK
  OBVIOUS
<1> USE ConstantsOK DEF Init
<1>1. ParamsOK  BY DEF ParamsOK
<1>2. FilesOK   BY DEF FilesOK, NoClock
<1>3. DaemonOK  BY DEF DaemonOK, PCs
<1>4. PoolOK    BY DEF PoolOK
<1>5. StreamOK  BY DEF StreamOK
<1>6. HistoryOK BY DEF HistoryOK
<1>7. FlagsOK   BY DEF FlagsOK
<1> QED
  BY <1>1, <1>2, <1>3, <1>4, <1>5, <1>6, <1>7 DEF TypeOK

\* Every variable keeps its type.
THEOREM TypeCorrect == Spec => []TypeOK
<1>1. TypeOK /\ [Next]_vars => TypeOK'
  BY ParamsTyped, FilesTyped, DaemonTyped, PoolTyped, StreamTyped,
     HistoryTyped, FlagsTyped DEF TypeOK
<1> QED
  BY InitTyped, <1>1, PTL DEF Spec

-----------------------------------------------------------------------------
(* Pruning *)

\* The victims are older snapshots of the pool, each with enough newer ones
\* above it, and only the prune loop has any.
PruneInv ==
  /\ \A s \in pool : s <= taken
  /\ NewestSurvives
  /\ victims \subseteq pool
  /\ \A v \in victims : v < taken /\ Cardinality({t \in pool : t > v}) >= retain
  /\ victims # {} => pc = "destroy"

LEMMA PruneInvInit == Init => PruneInv
  BY DEF Init, PruneInv, NewestSurvives

\* A snapshot with a newer one above it in the pool is not the newest.
LEMMA SurplusIsOlder ==
  ASSUME TypeOK, PruneInv, retain >= 1,
         NEW v \in OlderThanNewest(pool, retain)
  PROVE  v \in pool /\ v < taken
<1>1. v \in pool /\ Cardinality({t \in pool : t > v}) >= 1
  <2>1. v \in pool /\ Cardinality({t \in pool : t > v}) >= retain
    BY DEF OlderThanNewest
  <2>2. IsFiniteSet(pool)
    <3>1. IsFiniteSet(SnapId) /\ pool \subseteq SnapId
      BY FS_Interval, ConstantsOK DEF TypeOK, PoolOK, SnapId
    <3> QED
      BY <3>1, FS_Subset
  <2>3. Cardinality({t \in pool : t > v}) \in Nat
    BY <2>2, FS_Subset, FS_CardinalityType
  <2> QED
    BY <2>1, <2>3 DEF TypeOK, DaemonOK
<1>2. {t \in pool : t > v} # {}
  BY <1>1, FS_EmptySet
<1>3. PICK t \in pool : t > v
  BY <1>2
<1> QED
  BY <1>1, <1>3 DEF PruneInv, TypeOK, PoolOK, SnapId

LEMMA PruneInvStep == TypeOK /\ PruneInv /\ [Next]_vars => PruneInv'
<1> SUFFICES ASSUME TypeOK, PruneInv, [Next]_vars PROVE PruneInv'
  OBVIOUS
<1> USE ConstantsOK DEF TypeOK, PoolOK, DaemonOK, PruneInv, NewestSurvives
<1>1. CASE UNCHANGED <<pool, taken, victims, retain>> /\ pc' = pc
  BY <1>1
<1>2. CASE UNCHANGED <<pool, taken, victims>> /\ victims = {}
  BY <1>2
<1>3. CASE ZfsSnapshot
  BY <1>3 DEF ZfsSnapshot, SnapId
<1>4. CASE ListVictims
  <2>1. CASE retain >= 1
    <3>1. /\ UNCHANGED <<pool, taken, retain>> /\ pc' = "destroy"
          /\ victims' = OlderThanNewest(pool, retain)
      BY <1>4, <2>1 DEF ListVictims
    <3>2. \A v \in victims' : v \in pool /\ v < taken
      BY <2>1, <3>1, SurplusIsOlder
    <3>3. \A v \in victims' : Cardinality({t \in pool : t > v}) >= retain
      BY <3>1 DEF OlderThanNewest
    <3> QED
      BY <3>1, <3>2, <3>3
  <2>2. CASE ~ (retain >= 1)
    BY <1>4, <2>2 DEF ListVictims
  <2> QED
    BY <2>1, <2>2
<1>5. CASE DestroyOldest
  <2>1. PICK s \in victims :
          /\ \A t \in victims : s <= t
          /\ victims' = victims \ {s}
          /\ pool' = pool \ {s} \/ pool' = pool
    BY <1>5 DEF DestroyOldest
  <2>2. UNCHANGED <<taken, retain, pc>>
    BY <1>5 DEF DestroyOldest
  <2>3. ASSUME NEW v \in victims'
        PROVE  {t \in pool' : t > v} = {t \in pool : t > v}
    BY <2>1 DEF SnapId
  <2>4. \A v \in victims' : v < taken' /\ Cardinality({t \in pool' : t > v}) >= retain'
    BY <2>1, <2>2, <2>3
  <2>5. pool' \subseteq pool /\ victims' \subseteq pool' /\ victims' \subseteq victims
    BY <2>1
  <2>6. taken \in pool => taken \in pool'
    <3>1. s < taken
      BY <2>1
    <3> QED
      BY <2>1, <3>1 DEF SnapId
  <2> QED
    BY <2>2, <2>4, <2>5, <2>6
<1>6. CASE Crash
  BY <1>6 DEF Crash
<1>7. CASE pc # "destroy" /\ UNCHANGED <<pool, taken, victims>>
  BY <1>7
<1> QED
  BY <1>1, <1>2, <1>3, <1>4, <1>5, <1>6, <1>7, NextCases
  DEF Boot, ReadRequest, MissRequest, SchemaPass, ReadConfig, MissConfig,
      Probe, CompareLag, AlignSequences, ZfsFails, TagSnapshot,
      PublishVerdict, RestartEngine, StampSnapshot, PruneDone, Tick, Stream,
      PublisherWrites, TargetApplies, CopyDone, Branch, Unbranch, Configure,
      RequestSnapshot

LEMMA PruneInvariant == Spec => []PruneInv
  BY PruneInvInit, PruneInvStep, TypeCorrect, PTL DEF Spec

\* However retain is set, and however often the daemon dies, pruning leaves the
\* newest snapshot in the pool.
THEOREM NewestAlwaysSurvives == Spec => []NewestSurvives
<1>1. PruneInv => NewestSurvives
  BY DEF PruneInv
<1> QED
  BY <1>1, PruneInvariant, PTL

\* Each destroy leaves at least retain newer snapshots standing, and spares
\* what a clone or a branch depends on.
THEOREM OnlySurplusIsDestroyed == Spec => DestroysOnlySurplus
<1>1. TypeOK /\ PruneInv /\ [Next]_vars
        => [\A s \in pool \ pool' :
              s \notin inUse /\ Cardinality({t \in pool : t > s}) >= retain]_vars
  <2> SUFFICES ASSUME TypeOK, PruneInv, [Next]_vars, NEW s \in pool \ pool'
               PROVE  s \notin inUse /\ Cardinality({t \in pool : t > s}) >= retain
    OBVIOUS
  <2>1. CASE DestroyOldest
    BY <2>1 DEF DestroyOldest, PruneInv
  <2>2. CASE ZfsSnapshot
    BY <2>2 DEF ZfsSnapshot
  <2> QED
    BY <2>1, <2>2, NextCases
    DEF Boot, ReadRequest, MissRequest, SchemaPass, ReadConfig, MissConfig,
        Probe, CompareLag, AlignSequences, ZfsFails, TagSnapshot,
        PublishVerdict, RestartEngine, StampSnapshot, ListVictims, PruneDone,
        Crash, Tick, Stream, PublisherWrites, TargetApplies, CopyDone, Branch,
        Unbranch, Configure, RequestSnapshot
<1> QED
  BY <1>1, TypeCorrect, PruneInvariant, PTL DEF Spec, DestroysOnlySurplus

-----------------------------------------------------------------------------
(* Requests *)

Served(n) == \E s \in 1 .. taken : cause[s] = n
Serving == pc \in {"probe", "lag", "align", "zfs"} /\ mode = "requested"

\* A nonce waiting to be seen, or being served, has not been served.
RequestInv ==
  /\ request \in issued \cup {NoNonce}
  /\ lastRequest \in issued \cup {NoNonce}
  /\ \A s \in 1 .. taken : cause[s] \in issued \cup {Scheduled}
  /\ SeesRequest => ~ Served(request)
  /\ Serving => lastRequest \in issued /\ ~ Served(lastRequest)
  /\ OnePerRequest

LEMMA RequestInvInit == Init => RequestInv
  BY DEF Init, RequestInv, SeesRequest, Served, Serving, OnePerRequest

LEMMA RequestInvStep ==
  ASSUME "seed" \notin Faults
  PROVE  TypeOK /\ RequestInv /\ [Next]_vars => RequestInv'
<1> SUFFICES ASSUME TypeOK, RequestInv, [Next]_vars PROVE RequestInv'
  OBVIOUS
<1> USE DEF RequestInv
<1>1. CASE UNCHANGED <<request, lastRequest, issued, cause, taken>>
           /\ (Serving' => Serving)
  BY <1>1 DEF SeesRequest, Served, OnePerRequest
<1>2. CASE Boot
  BY <1>2 DEF Boot, SeesRequest, Served, Serving, OnePerRequest
<1>3. CASE ReadRequest
  BY <1>3 DEF ReadRequest, SeesRequest, Served, Serving, OnePerRequest
<1>4. CASE ZfsSnapshot
  <2>1. /\ taken' = taken + 1 /\ taken + 1 \in SnapId
        /\ cause' = [cause EXCEPT ![taken + 1] =
                       IF mode = "requested" THEN lastRequest ELSE Scheduled]
        /\ UNCHANGED <<request, lastRequest, issued>>
        /\ pc = "zfs" /\ pc' = "tag"
    BY <1>4, ConstantsOK DEF ZfsSnapshot, TypeOK, PoolOK, SnapId
  <2>2. cause'[taken + 1] = IF mode = "requested" THEN lastRequest ELSE Scheduled
    BY <2>1 DEF TypeOK, HistoryOK
  <2>3. \A s \in 1 .. taken : cause'[s] = cause[s] /\ s # taken + 1
    BY <2>1 DEF TypeOK, HistoryOK, PoolOK, SnapId
  <2>4. \A s \in 1 .. taken' : s \in 1 .. taken \/ s = taken + 1
    BY <2>1 DEF TypeOK, PoolOK
  <2>5. mode = "requested" => lastRequest \in issued /\ ~ Served(lastRequest)
    BY <2>1 DEF Serving
  <2>6. \A s \in 1 .. taken' : cause'[s] \in issued' \cup {Scheduled}
    BY <2>1, <2>2, <2>3, <2>4, <2>5
  <2>7. SeesRequest' => ~ Served(request)'
    <3>1. SeesRequest' = SeesRequest
      BY <2>1 DEF SeesRequest
    <3>2. ASSUME SeesRequest
          PROVE  cause'[taken + 1] # request
      BY <2>2, <3>2, ConstantsOK DEF SeesRequest, Scheduled, TypeOK, ParamsOK
    <3> QED
      BY <2>1, <2>3, <2>4, <3>1, <3>2 DEF Served
  <2>8. OnePerRequest'
    <3> SUFFICES ASSUME NEW s \in 1 .. taken', NEW t \in 1 .. taken', s # t,
                        cause'[s] = cause'[t], cause'[s] # Scheduled
                 PROVE  FALSE
      BY DEF OnePerRequest
    <3>1. CASE s \in 1 .. taken /\ t \in 1 .. taken
      BY <2>3, <3>1 DEF OnePerRequest
    <3>2. CASE s = taken + 1 /\ t \in 1 .. taken
      BY <2>2, <2>3, <2>5, <3>2 DEF Served
    <3>3. CASE s \in 1 .. taken /\ t = taken + 1
      BY <2>2, <2>3, <2>5, <3>3 DEF Served
    <3> QED
      BY <2>4, <3>1, <3>2, <3>3
  <2>9. ~ Serving'
    BY <2>1 DEF Serving
  <2> QED
    BY <2>1, <2>6, <2>7, <2>8, <2>9
<1>5. ASSUME NEW n \in Nonces, RequestSnapshot(n) PROVE RequestInv'
  <2>1. n \notin issued /\ request' = n /\ issued' = issued \cup {n}
        /\ UNCHANGED <<lastRequest, cause, taken, pc, mode>>
    BY <1>5 DEF RequestSnapshot
  <2>2. ~ Served(n)
    BY <2>1, ConstantsOK DEF Served, Scheduled
  <2> QED
    BY <2>1, <2>2 DEF SeesRequest, Served, Serving, OnePerRequest
<1>6. CASE Probe \/ CompareLag
  BY <1>1, <1>6 DEF Probe, CompareLag, CaughtUp, Behind, StartedClock, Serving
<1>7. CASE ReadConfig
  BY <1>1, <1>7 DEF ReadConfig, Serving
<1>8. CASE AlignSequences \/ ZfsFails \/ Crash
  BY <1>1, <1>8 DEF AlignSequences, ZfsFails, AfterTake, Crash, Serving
<1>9. CASE TagSnapshot \/ PublishVerdict \/ RestartEngine \/ StampSnapshot
  BY <1>1, <1>9 DEF TagSnapshot, PublishVerdict, RestartEngine, StampSnapshot,
                    AfterTake, Serving
<1>10. CASE ListVictims \/ DestroyOldest \/ PruneDone
  BY <1>1, <1>10 DEF ListVictims, DestroyOldest, PruneDone, Serving
<1>11. CASE MissRequest \/ MissConfig \/ SchemaPass \/ Tick \/ Stream
  BY <1>1, <1>11 DEF MissRequest, MissConfig, SchemaPass, Tick, Stream,
                     PublisherWrites, TargetApplies, CopyDone, Serving
<1>12. ASSUME NEW s \in SnapId, Branch(s) \/ Unbranch(s) PROVE RequestInv'
  BY <1>1, <1>12 DEF Branch, Unbranch, Serving
<1>13. ASSUME NEW c \in Configs, Configure(c) PROVE RequestInv'
  BY <1>1, <1>13 DEF Configure, Serving
<1>14. CASE UNCHANGED vars
  BY <1>1, <1>14 DEF Serving
<1> QED
  BY <1>2, <1>3, <1>4, <1>5, <1>6, <1>7, <1>8, <1>9, <1>10, <1>11, <1>12,
     <1>13, <1>14, NextCases

\* While the boot can read the parameter it seeds its state from, a request is
\* served by at most one snapshot, whenever the daemon dies and restarts.
THEOREM RequestsServedOnce ==
  ASSUME "seed" \notin Faults
  PROVE  Spec => []OnePerRequest
<1>1. RequestInv => OnePerRequest
  BY DEF RequestInv
<1> QED
  BY <1>1, RequestInvInit, RequestInvStep, TypeCorrect, PTL DEF Spec

-----------------------------------------------------------------------------
(* Verdicts *)

\* From the moment the verdict is reached, no copy can start and the target
\* only gains rows.
VerdictInv ==
  /\ pc = "lag" => subLsn <= applied /\ ~ copying
  /\ pc \in {"align", "zfs"} /\ verdict = "yes" => Converged
  /\ pc = "tag" => taken \in SnapId /\ (verdict = "yes" => whole[taken])
  /\ \A s \in SnapId : s > taken => tag[s] = "unset"
  /\ ConvergedTagIsTrue

LEMMA VerdictInvInit == Init => VerdictInv
  BY DEF Init, VerdictInv, ConvergedTagIsTrue

LEMMA VerdictInvStep ==
  ASSUME {"urls", "subscription"} \cap Faults = {}
  PROVE  TypeOK /\ VerdictInv /\ [Next]_vars => VerdictInv'
<1> SUFFICES ASSUME TypeOK, VerdictInv, [Next]_vars PROVE VerdictInv'
  OBVIOUS
<1> USE ConstantsOK DEF VerdictInv, ConvergedTagIsTrue, Converged
<1>1. CASE UNCHANGED <<taken, tag, whole>>
           /\ pc' \notin {"lag", "align", "zfs", "tag"}
  BY <1>1
<1>2. CASE UNCHANGED <<pc, subLsn, copying, applied, verdict, asOf, taken, tag, whole>>
  BY <1>2
<1>3. CASE Probe
  BY <1>3 DEF Probe, CaughtUp, Behind, StartedClock, TypeOK, StreamOK
<1>4. CASE CompareLag
  BY <1>4 DEF CompareLag, CaughtUp, Behind, StartedClock, TypeOK, StreamOK, DaemonOK
<1>5. CASE AlignSequences
  BY <1>5 DEF AlignSequences
<1>6. CASE ZfsSnapshot
  <2>1. /\ pc = "zfs" /\ pc' = "tag" /\ verdict' = verdict /\ tag' = tag
        /\ taken' = taken + 1 /\ taken' \in SnapId
        /\ whole' = [whole EXCEPT ![taken + 1] = Converged]
    BY <1>6 DEF ZfsSnapshot, TypeOK, PoolOK, SnapId
  <2>2. verdict = "yes" => whole'[taken']
    BY <2>1 DEF TypeOK, HistoryOK
  <2>3. \A s \in SnapId : tag[s] = "yes" => s # taken + 1 /\ whole[s]
    BY <2>1 DEF TypeOK, PoolOK, SnapId
  <2>4. \A s \in SnapId : tag'[s] = "yes" => whole'[s]
    BY <2>1, <2>3 DEF TypeOK, HistoryOK
  <2>5. \A s \in SnapId : s > taken' => tag'[s] = "unset"
    BY <2>1 DEF TypeOK, PoolOK, SnapId
  <2> QED
    BY <2>1, <2>2, <2>4, <2>5
<1>7. CASE TagSnapshot
  BY <1>7 DEF TagSnapshot, TypeOK, PoolOK, SnapId
<1>8. CASE Stream
  BY <1>8 DEF Stream, PublisherWrites, TargetApplies, CopyDone, TypeOK,
              StreamOK, HistoryOK, DaemonOK
<1>9. CASE ZfsFails \/ StampSnapshot
  BY <1>1, <1>9 DEF ZfsFails, StampSnapshot, AfterTake
<1>10. CASE SchemaPass
  BY <1>1, <1>10 DEF SchemaPass
<1> QED
  BY <1>1, <1>2, <1>3, <1>4, <1>5, <1>6, <1>7, <1>8, <1>9, <1>10, NextCases
  DEF Boot, ReadRequest, MissRequest, ReadConfig, MissConfig, PublishVerdict,
      RestartEngine, ListVictims, DestroyOldest, PruneDone, Crash, Tick,
      Branch, Unbranch, Configure, RequestSnapshot

\* While the URL parameters can be read and a subscription exists, a snapshot tagged converged holds all
\* it was meant to hold, wherever the stream and the daemon stand in between.
THEOREM ConvergedTagsAreTrue ==
  ASSUME {"urls", "subscription"} \cap Faults = {}
  PROVE  Spec => []ConvergedTagIsTrue
<1>1. VerdictInv => ConvergedTagIsTrue
  BY DEF VerdictInv
<1> QED
  BY <1>1, VerdictInvInit, VerdictInvStep, TypeCorrect, PTL DEF Spec

-----------------------------------------------------------------------------
(* The schedule's patience *)

\* The wait is never older than the life of the daemon that waits.
ClockInv == pc # "down" => clock <= uptime

LEMMA ClockInvStep == TypeOK /\ ClockInv /\ [Next]_vars => ClockInv'
<1> SUFFICES ASSUME TypeOK, ClockInv, [Next]_vars PROVE ClockInv'
  OBVIOUS
<1> USE ConstantsOK DEF ClockInv, TypeOK, FilesOK, HistoryOK, NoClock
<1>1. CASE UNCHANGED <<clock, uptime>> /\ pc # "down"
  BY <1>1
<1>2. CASE Boot
  BY <1>2 DEF Boot
<1>3. CASE Probe \/ CompareLag
  BY <1>3 DEF Probe, CompareLag, CaughtUp, Behind, StartedClock
<1>4. CASE Tick
  BY <1>4 DEF Tick, Older
<1>5. CASE Crash
  BY <1>5 DEF Crash
<1>6. CASE UNCHANGED <<clock, uptime, pc>>
  BY <1>6
<1>7. CASE StampSnapshot
  BY <1>1, <1>7 DEF StampSnapshot
<1>8. CASE ZfsSnapshot \/ ZfsFails
  BY <1>1, <1>8 DEF ZfsSnapshot, ZfsFails
<1> QED
  BY <1>1, <1>2, <1>3, <1>4, <1>5, <1>6, <1>7, <1>8, NextCases
  DEF ReadRequest, MissRequest, SchemaPass, ReadConfig, MissConfig,
      AlignSequences, TagSnapshot, PublishVerdict, RestartEngine, ListVictims,
      DestroyOldest, PruneDone, Stream, PublisherWrites, TargetApplies,
      CopyDone, Branch, Unbranch, Configure, RequestSnapshot

\* The schedule gives up on a stream only in a life of the daemon that has
\* lasted the full wait, whatever wait a previous life left on disk.
THEOREM GivesUpOnlyInItsOwnLife == Spec => GivesUpInItsOwnLife
<1>1. Init => ClockInv
  BY DEF Init, ClockInv
<1>2. TypeOK /\ ClockInv /\ [Next]_vars => [GivesUp => uptime >= MaxWait]_vars
  <2> SUFFICES ASSUME TypeOK, ClockInv, [Next]_vars, GivesUp
               PROVE  uptime >= MaxWait
    OBVIOUS
  <2>1. Probe \/ CompareLag
    BY NextCases
    DEF GivesUp, Boot, ReadRequest, MissRequest, SchemaPass, ReadConfig,
        MissConfig, AlignSequences, ZfsSnapshot, ZfsFails, TagSnapshot,
        PublishVerdict, RestartEngine, StampSnapshot, ListVictims,
        DestroyOldest, PruneDone, Crash, Tick, Stream, PublisherWrites,
        TargetApplies, CopyDone, Branch, Unbranch, Configure, RequestSnapshot
  <2>2. clock >= MaxWait
    BY <2>1, ConstantsOK
    DEF GivesUp, Probe, CompareLag, CaughtUp, Behind, StartedClock, TypeOK,
        FilesOK, NoClock
  <2> QED
    BY <2>2, ConstantsOK
    DEF GivesUp, ClockInv, TypeOK, FilesOK, HistoryOK, NoClock
<1> QED
  BY <1>1, <1>2, ClockInvStep, TypeCorrect, PTL DEF Spec, GivesUpInItsOwnLife

-----------------------------------------------------------------------------
(* The clients: fresh branches *)

USE DEF clientVars, allVars

\* Every snapshot of A that L does not show is newer than all that L shows.
Newer(A, L) == \A s \in A \ L, l \in L : s > l

\* What the engine lists has a newest member, and the pool has grown only past
\* it, past what any client has seen too; the engine of a client about to branch
\* lists a snapshot newer than all that client saw.
FreshInv ==
  /\ \A s \in listing : s <= taken
  /\ listing # {} => \E m \in listing : \A s \in listing : m >= s
  /\ Newer(pool, listing)
  /\ \A c \in Nonces :
       /\ before[c] \subseteq {s \in SnapId : s <= taken}
       /\ Newer(pool \cup listing, before[c])
       /\ cpc[c] = "branch" => \E s \in listing : \A l \in before[c] : s > l
       /\ cpc[c] \in {"idle", "put", "poll", "branch"} => base[c] = 0
  /\ cpc \in [Nonces -> {"idle", "put", "poll", "branch", "done", "failed"}]
  /\ before \in [Nonces -> SUBSET SnapId]
  /\ base \in [Nonces -> {0} \cup SnapId]
  /\ FreshIsNewer

\* What the composed invariants say of the daemon's part.
HostInv == TypeOK /\ PruneInv

LEMMA NewestListed ==
  ASSUME FreshInv, listing # {}
  PROVE  Max(listing) \in listing /\ \A s \in listing : Max(listing) >= s
  BY DEF FreshInv, Max

\* A step of the composed system is a step of the daemon's specification.
LEMMA AllNextIsNext ==
  ASSUME HostInv, FreshInv, [AllNext]_allVars
  PROVE  [Next]_vars
<1>1. CASE Host
  BY <1>1 DEF Host, Next, Surroundings
<1>2. ASSUME NEW c \in Nonces, Put(c) PROVE [Next]_vars
  BY <1>2 DEF Put, Next
<1>3. ASSUME NEW c \in Nonces, CreateBranch(c) PROVE [Next]_vars
  <2>1. listing # {} /\ Max(listing) \in listing /\ listing \subseteq SnapId
    BY <1>3, NewestListed DEF CreateBranch, FreshInv, HostInv, TypeOK, PoolOK
  <2>2. CASE Max(listing) \in pool /\ Max(listing) \notin inUse /\ inUse' # inUse
    <3>1. Branch(Max(listing))
      BY <1>3, <2>1, <2>2 DEF CreateBranch, Branch
    <3> QED
      BY <2>1, <3>1 DEF Next, Surroundings
  <2>3. CASE ~ (Max(listing) \in pool /\ Max(listing) \notin inUse /\ inUse' # inUse)
    <3>1. inUse' = inUse
      BY <1>3, <2>3 DEF CreateBranch
    <3> QED
      BY <1>3, <3>1 DEF CreateBranch
  <2> QED
    BY <2>2, <2>3
<1>4. ASSUME NEW c \in Nonces, Begin(c) \/ Poll(c) \/ GiveUp(c) PROVE [Next]_vars
  BY <1>4 DEF Begin, Poll, GiveUp
<1>5. CASE UNCHANGED allVars
  BY <1>5
<1> QED
  BY <1>1, <1>2, <1>3, <1>4, <1>5 DEF AllNext, Client

LEMMA HostInvStep ==
  HostInv /\ FreshInv /\ [AllNext]_allVars => HostInv'
<1> SUFFICES ASSUME HostInv, FreshInv, [AllNext]_allVars PROVE HostInv'
  OBVIOUS
<1>1. [Next]_vars
  BY AllNextIsNext
<1>2. TypeOK'
  BY <1>1, ParamsTyped, FilesTyped, DaemonTyped, PoolTyped, StreamTyped,
     HistoryTyped, FlagsTyped DEF HostInv, TypeOK
<1>3. PruneInv'
  BY <1>1, PruneInvStep DEF HostInv
<1> QED
  BY <1>2, <1>3 DEF HostInv

LEMMA FreshInvInit == AllInit => FreshInv
  BY DEF AllInit, Init, ClientInit, FreshInv, Newer, FreshIsNewer

\* The daemon's steps, the clients standing still.
LEMMA FreshInvHost ==
  ASSUME HostInv, FreshInv, Host
  PROVE  FreshInv'
<1> USE ConstantsOK DEF HostInv, TypeOK, PoolOK, Newer, FreshIsNewer
<1>0. UNCHANGED clientVars /\ [Next]_vars
  BY AllNextIsNext DEF AllNext, Host
<1>1. CASE UNCHANGED <<pool, taken, listing>>
  BY <1>0, <1>1 DEF FreshInv
<1>2. CASE ZfsSnapshot
  <2>1. /\ taken' = taken + 1 /\ pool' = pool \cup {taken + 1}
        /\ listing' = listing /\ taken \in Nat
    BY <1>2 DEF ZfsSnapshot
  <2>2. \A s \in listing : s <= taken /\ s \in Nat
    BY DEF FreshInv, SnapId
  <2>3. Newer(pool, listing)'
    BY <2>1, <2>2 DEF FreshInv
  <2>4. ASSUME NEW c \in Nonces
        PROVE  /\ before'[c] \subseteq {s \in SnapId : s <= taken'}
               /\ Newer(pool' \cup listing', before'[c])
    BY <1>0, <2>1, <2>2 DEF FreshInv, SnapId
  <2>5. \A s \in listing' : s <= taken'
    BY <2>1, <2>2
  <2> QED
    BY <1>0, <2>1, <2>3, <2>4, <2>5 DEF FreshInv
<1>3. CASE RestartEngine
  <2>1. UNCHANGED <<pool, taken>> /\ listing' \in {pool, listing}
    BY <1>3 DEF RestartEngine
  <2>2. CASE listing' = listing
    BY <1>1, <2>1, <2>2
  <2>3. CASE listing' = pool
    <3>1. /\ \A s \in listing' : s <= taken /\ s \in SnapId
          /\ taken > 0 => taken \in listing'
      BY <2>3 DEF PruneInv, NewestSurvives
    <3>2. listing' # {} => \E m \in listing' : \A s \in listing' : m >= s
      BY <3>1 DEF SnapId
    <3>3. Newer(pool, listing)'
      BY <2>1, <2>3
    <3>4. ASSUME NEW c \in Nonces
          PROVE  /\ Newer(pool' \cup listing', before'[c])
                 /\ cpc'[c] = "branch" =>
                      \E s \in listing' : \A l \in before'[c] : s > l
      <4>1. Newer(pool' \cup listing', before'[c])
        BY <1>0, <2>1, <2>3 DEF FreshInv
      <4>2. ASSUME cpc[c] = "branch"
            PROVE  \E s \in listing' : \A l \in before'[c] : s > l
        <5>1. PICK s \in listing : \A l \in before[c] : s > l
          BY <4>2 DEF FreshInv
        <5>2. s <= taken /\ taken \in Nat /\ s \in 1 .. MaxSnaps
          BY <5>1 DEF FreshInv, SnapId
        <5>3. \A l \in before[c] : taken > l
          BY <5>1, <5>2 DEF FreshInv, SnapId
        <5>4. taken \in listing'
          BY <3>1, <5>2
        <5> QED
          BY <1>0, <5>3, <5>4
      <4> QED
        BY <1>0, <4>1, <4>2
    <3>5. \A s \in listing' : s <= taken'
      BY <2>1, <3>1
    <3> QED
      BY <1>0, <2>1, <3>2, <3>3, <3>4, <3>5 DEF FreshInv
  <2> QED
    BY <2>1, <2>2, <2>3
<1>4. CASE DestroyOldest
  <2>1. pool' \subseteq pool /\ UNCHANGED <<taken, listing>>
    BY <1>4 DEF DestroyOldest
  <2> QED
    BY <1>0, <2>1 DEF FreshInv
<1> QED
  BY <1>0, <1>1, <1>2, <1>3, <1>4, NextCases
  DEF Boot, ReadRequest, MissRequest, SchemaPass, ReadConfig, MissConfig,
      Probe, CompareLag, AlignSequences, ZfsFails, TagSnapshot, PublishVerdict,
      StampSnapshot, ListVictims, PruneDone, Crash, Tick, Stream,
      PublisherWrites, TargetApplies, CopyDone, Branch, Unbranch, Configure,
      RequestSnapshot

\* A client's steps: the pool and the listing stand still.
LEMMA FreshInvClient ==
  ASSUME HostInv, FreshInv, NEW c \in Nonces, Client(c)
  PROVE  FreshInv'
<1> USE ConstantsOK DEF HostInv, TypeOK, PoolOK, Newer, FreshIsNewer
<1>0. UNCHANGED <<pool, listing, taken>>
  BY DEF Client, Begin, Put, Poll, CreateBranch, GiveUp, RequestSnapshot
<1>1. CASE Begin(c)
  BY <1>0, <1>1 DEF Begin, FreshInv
<1>2. CASE Put(c) \/ GiveUp(c)
  BY <1>0, <1>2 DEF Put, GiveUp, FreshInv
<1>3. CASE Poll(c)
  <2>1. \E s \in listing : \A l \in before[c] : s > l
    BY <1>3 DEF Poll, FreshInv
  <2> QED
    BY <1>0, <1>3, <2>1 DEF Poll, FreshInv
<1>4. CASE CreateBranch(c)
  <2>1. PICK s \in listing : \A l \in before[c] : s > l
    BY <1>4 DEF CreateBranch, FreshInv
  <2>2. Max(listing) \in listing /\ Max(listing) >= s
    BY <2>1, NewestListed
  <2>3. \A l \in before[c] : Max(listing) > l
    <3> SUFFICES ASSUME NEW l \in before[c] PROVE Max(listing) > l
      OBVIOUS
    <3>1. l \in SnapId /\ s > l
      BY <2>1 DEF FreshInv
    <3>2. Max(listing) \in SnapId /\ s \in SnapId
      BY <2>1, <2>2
    <3> QED
      BY <2>2, <3>1, <3>2 DEF SnapId
  <2>4. /\ before' = before
        /\ \/ /\ base' = [base EXCEPT ![c] = Max(listing)]
              /\ cpc' = [cpc EXCEPT ![c] = "done"]
           \/ /\ base' = base
              /\ \/ cpc' = [cpc EXCEPT ![c] = "failed"]
                 \/ cpc' = [cpc EXCEPT ![c] = "done"]
    BY <1>4 DEF CreateBranch
  <2>5. base' \in [Nonces -> {0} \cup SnapId]
    BY <2>2, <2>4 DEF FreshInv
  <2>6. FreshIsNewer'
    BY <2>2, <2>3, <2>4 DEF FreshInv
  <2> QED
    BY <1>0, <2>4, <2>5, <2>6 DEF FreshInv
<1> QED
  BY <1>1, <1>2, <1>3, <1>4 DEF Client

LEMMA FreshInvStep ==
  HostInv /\ FreshInv /\ [AllNext]_allVars => FreshInv'
<1>1. ASSUME HostInv, FreshInv, UNCHANGED allVars PROVE FreshInv'
  BY <1>1 DEF FreshInv, Newer, FreshIsNewer
<1> QED
  BY <1>1, FreshInvHost, FreshInvClient DEF AllNext

LEMMA ComposedInvariant == AllSpec => [](HostInv /\ FreshInv)
<1>1. AllInit => HostInv /\ FreshInv
  BY InitTyped, PruneInvInit, FreshInvInit DEF AllInit, HostInv
<1>2. HostInv /\ FreshInv /\ [AllNext]_allVars => (HostInv /\ FreshInv)'
  BY HostInvStep, FreshInvStep
<1>3. AllSpec => AllInit /\ [][AllNext]_allVars
  BY PTL DEF AllSpec
<1> QED
  BY <1>1, <1>2, <1>3, PTL

\* Composed with any number of clients the daemon still keeps its own
\* specification: what is proved of Spec holds beside them.
THEOREM ComposedImplementsDaemon == AllSpec => Spec
<1>1. HostInv /\ FreshInv /\ [AllNext]_allVars => [Next]_vars
  BY AllNextIsNext
<1>2. AllSpec => AllInit /\ [][AllNext]_allVars
  BY PTL DEF AllSpec
<1>3. AllInit => Init
  BY DEF AllInit
<1> QED
  BY <1>1, <1>2, <1>3, ComposedInvariant, PTL DEF Spec

\* A branch made with --fresh stands on a snapshot newer than all its caller
\* saw listed, whichever calls fail, whoever else asks, and however often the
\* daemon dies in between.
THEOREM FreshBranchesAreNewer == AllSpec => []FreshIsNewer
<1>1. FreshInv => FreshIsNewer
  BY DEF FreshInv
<1> QED
  BY <1>1, ComposedInvariant, PTL

-----------------------------------------------------------------------------
(* The clients: the listing and the pool *)

\* While the daemon has not died: a snapshot the engine does not list yet is the
\* one being taken, so that nothing is pruned before the newest is listed.
ListedInv ==
  crashes = 0 =>
    /\ pc \notin {"tag", "publish", "rescan"} /\ taken > 0 => taken \in listing
    /\ \A m \in listing : (\A s \in listing : m >= s) => m \in pool

LEMMA ListedInvStep ==
  ASSUME "rescan" \notin Faults
  PROVE  HostInv /\ ListedInv /\ [Next]_vars => ListedInv'
<1> SUFFICES ASSUME HostInv, ListedInv, [Next]_vars, crashes' = 0
             PROVE  ListedInv'
  BY DEF ListedInv
<1>0. crashes = 0 /\ ~ Crash
  <2>1. crashes' \in {crashes, crashes + 1} /\ (Crash => crashes' = crashes + 1)
    BY NextCases
    DEF Boot, ReadRequest, MissRequest, SchemaPass, ReadConfig, MissConfig,
        Probe, CompareLag, AlignSequences, ZfsSnapshot, ZfsFails, TagSnapshot,
        PublishVerdict, RestartEngine, StampSnapshot, ListVictims,
        DestroyOldest, PruneDone, Crash, Tick, Stream, PublisherWrites,
        TargetApplies, CopyDone, Branch, Unbranch, Configure, RequestSnapshot
  <2> QED
    BY <2>1 DEF HostInv, TypeOK, HistoryOK
<1> USE <1>0, ConstantsOK DEF ListedInv
<1>1. CASE /\ UNCHANGED <<pool, taken, listing>>
           /\ pc \in {"tag", "publish", "rescan"}
                => pc' \in {"tag", "publish", "rescan"}
  BY <1>1
<1>2. CASE ZfsSnapshot
  BY <1>2 DEF ZfsSnapshot
<1>3. CASE RestartEngine
  <2>1. taken > 0 => taken \in pool
    BY DEF HostInv, PruneInv, NewestSurvives
  <2> QED
    BY <1>3, <2>1 DEF RestartEngine
<1>4. CASE DestroyOldest
  <2>1. PICK v \in victims : pool' = pool \ {v} \/ pool' = pool
    BY <1>4 DEF DestroyOldest
  <2>2. /\ UNCHANGED <<taken, listing, pc>> /\ pc = "destroy"
        /\ listing \subseteq SnapId /\ taken \in Nat
    BY <1>4 DEF DestroyOldest, HostInv, TypeOK, PoolOK
  <2>3. v < taken /\ v \in SnapId
    BY DEF HostInv, PruneInv, TypeOK, DaemonOK
  <2>4. taken > 0 /\ taken \in listing
    BY <2>2, <2>3 DEF SnapId
  <2>5. \A m \in listing : (\A s \in listing : m >= s) => m \in pool'
    BY <2>1, <2>2, <2>3, <2>4 DEF SnapId
  <2> QED
    BY <2>2, <2>4, <2>5
<1>5. CASE StampSnapshot \/ ZfsFails
  BY <1>1, <1>5 DEF StampSnapshot, ZfsFails
<1> QED
  BY <1>1, <1>2, <1>3, <1>4, <1>5, NextCases
  DEF Boot, ReadRequest, MissRequest, SchemaPass, ReadConfig, MissConfig,
      Probe, CompareLag, CaughtUp, Behind, AlignSequences, TagSnapshot,
      PublishVerdict, ListVictims, PruneDone, Tick, Stream, PublisherWrites,
      TargetApplies, CopyDone, Branch, Unbranch, Configure, RequestSnapshot

\* As long as the daemon has not died, and docker restart works, a branch can be
\* made at any moment.  A crash between zfs snapshot and docker restart can leave
\* the engine listing only what the next pruning destroys.
THEOREM NewestListedAlwaysExists ==
  ASSUME "rescan" \notin Faults
  PROVE  AllSpec => [](crashes = 0 => NewestListedExists)
<1>1. AllInit => ListedInv
  BY DEF AllInit, Init, ListedInv
<1>2. HostInv /\ FreshInv /\ ListedInv /\ [AllNext]_allVars => ListedInv'
  BY AllNextIsNext, ListedInvStep
<1>3. FreshInv /\ ListedInv => (crashes = 0 => NewestListedExists)
  BY NewestListed DEF ListedInv, NewestListedExists
<1>4. AllSpec => AllInit /\ [][AllNext]_allVars
  BY PTL DEF AllSpec
<1> QED
  BY <1>1, <1>2, <1>3, <1>4, ComposedInvariant, PTL

\* While the daemon has not died, the one snapshot without a tag is the one it
\* is about to tag, and the engine does not list it.
TaggedInv ==
  crashes = 0 =>
    \A s \in pool \cup listing :
      \/ tag[s] # "unset"
      \/ pc = "tag" /\ s = taken /\ s \notin listing

LEMMA TaggedInvStep ==
  ASSUME "tag" \notin Faults
  PROVE  HostInv /\ FreshInv /\ TaggedInv /\ [Next]_vars => TaggedInv'
<1> SUFFICES ASSUME HostInv, FreshInv, TaggedInv, [Next]_vars PROVE TaggedInv'
  OBVIOUS
<1> USE ConstantsOK DEF TaggedInv, HostInv, TypeOK, PoolOK, DaemonOK, HistoryOK
<1>1. CASE UNCHANGED <<crashes, pool, listing, tag>> /\ pc # "tag"
  BY <1>1
<1>2. CASE UNCHANGED <<crashes, pool, listing, taken, tag, pc>>
  BY <1>2
<1>3. CASE ZfsSnapshot
  BY <1>3 DEF ZfsSnapshot, FreshInv, SnapId
<1>4. CASE TagSnapshot
  BY <1>4 DEF TagSnapshot, SnapId
<1>5. CASE RestartEngine
  BY <1>5 DEF RestartEngine
<1>6. CASE DestroyOldest
  BY <1>6 DEF DestroyOldest
<1>7. CASE Crash
  BY <1>7 DEF Crash
<1> QED
  BY <1>1, <1>2, <1>3, <1>4, <1>5, <1>6, <1>7, NextCases
  DEF Boot, ReadRequest, MissRequest, SchemaPass, ReadConfig, MissConfig,
      Probe, CompareLag, CaughtUp, Behind, AlignSequences, ZfsFails,
      PublishVerdict, StampSnapshot, ListVictims, PruneDone, Tick, Stream,
      PublisherWrites, TargetApplies, CopyDone, Branch, Unbranch, Configure,
      RequestSnapshot

\* As long as the daemon has not died, and zfs set works, no client sees a
\* snapshot before its verdict is recorded on it.
THEOREM ListedAreTagged ==
  ASSUME "tag" \notin Faults
  PROVE  AllSpec => [](crashes = 0 => ListedIsTagged)
<1>1. AllInit => TaggedInv
  BY DEF AllInit, Init, TaggedInv
<1>2. HostInv /\ FreshInv /\ TaggedInv /\ [AllNext]_allVars => TaggedInv'
  BY AllNextIsNext, TaggedInvStep
<1>3. TaggedInv => (crashes = 0 => ListedIsTagged)
  BY DEF TaggedInv, ListedIsTagged
<1>4. AllSpec => AllInit /\ [][AllNext]_allVars
  BY PTL DEF AllSpec
<1> QED
  BY <1>1, <1>2, <1>3, <1>4, ComposedInvariant, PTL
=============================================================================

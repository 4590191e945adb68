------------------------------ MODULE Snapshotd ------------------------------
(***************************************************************************)
(* The snapshot half of tendb-snapshotd, the daemon on the engine host:     *)
(* its boot, its polling loop, take_snapshot with the convergence check,    *)
(* and retention pruning; around it the parameter store it polls, the zfs   *)
(* pool it writes, the engine that lists the pool, the replication stream   *)
(* that feeds the sync target, and the passage of time.                     *)
(*                                                                          *)
(* The schema half of the loop is one action here (SchemaPass): all it can  *)
(* do to a snapshot is to start table copies.  SchemaSync models it.        *)
(***************************************************************************)
EXTENDS Integers, FiniteSets

CONSTANTS
  Nonces,          \* the nonces clients write to snapshots/request
  NoNonce,         \* an empty parameter, an empty state file
  Configs,         \* the values of snapshots/config: [interval, retain]
  NoConfig,        \* snapshots/config was never written
  Lag,             \* CONVERGE_LAG_BYTES, in rows
  MaxWait,         \* CONVERGE_MAX_WAIT_SECONDS, in ticks
  MaxAge,          \* no interval is longer, in ticks
  Faults,          \* the calls that may fail, a subset of FaultKinds
  MaxSnaps,        \* bound: snapshots taken in a behaviour
  MaxRows,         \* bound: rows the publisher writes
  MaxCrashes       \* bound: crashes of the daemon

FaultKinds == {"seed", "param", "urls", "subscription", "query", "align",
               "zfs", "tag", "publish", "rescan"}

ASSUME ConstantsOK ==
  /\ {NoNonce, "scheduled"} \cap Nonces = {}
  /\ NoNonce # "scheduled"
  /\ Configs \subseteq [interval : 0 .. MaxAge, retain : Nat]
  /\ NoConfig \notin Configs
  /\ Faults \subseteq FaultKinds
  /\ Lag \in Nat
  /\ MaxWait \in Nat \ {0}
  /\ MaxAge \in Nat
  /\ MaxSnaps \in Nat
  /\ MaxRows \in Nat
  /\ MaxCrashes \in Nat

VARIABLES
  \* the parameter store
  request,         \* snapshots/request
  config,          \* snapshots/config
  lastConverged,   \* snapshots/last-converged
  \* the files in STATE_DIR
  lastRequest,     \* last-request
  clock,           \* age of converge-waiting-since in ticks, NoClock if absent
  age,             \* age of last-snapshot-at in ticks, capped at MaxAge
  \* the daemon process
  pc,              \* where the loop is
  mode,            \* take_snapshot's argument
  verdict,         \* take_snapshot's "converged"
  subLsn,          \* stream_converged's sub_lsn
  retain,          \* the loop's "retain"
  victims,         \* what prune_snapshots listed and has not yet tried
  \* the zfs pool and the engine
  pool,            \* the pool's @snapshot_* snapshots, numbered by creation
  taken,           \* how many were ever created
  tag,             \* tendb:converged of each
  listing,         \* the snapshots the engine lists
  inUse,           \* the snapshots that clones or branches depend on
  \* the stream
  published,       \* rows the publisher has written
  applied,         \* rows the sync target has applied
  copying,         \* a table copy is in progress
  sequences,       \* the row the sync target's sequences stand at
  \* history, read by no action of the program
  issued,          \* the nonces ever written
  cause,           \* what each snapshot was taken for
  whole,           \* whether each held all it was meant to hold
  asOf,            \* rows published when the verdict was reached
  uptime,          \* age of the daemon's life in ticks, capped at MaxWait
  crashes

params == <<request, config, lastConverged>>
files  == <<lastRequest, clock, age>>
locals == <<mode, verdict, subLsn, retain, victims>>
zpool  == <<pool, taken, tag>>
engine == <<listing, inUse>>
stream == <<published, applied, copying, sequences>>
ghosts == <<cause, whole, asOf, uptime>>
bounds == <<issued, crashes>>
vars   == <<params, files, pc, locals, zpool, engine, stream, ghosts, bounds>>

SnapId    == 1 .. MaxSnaps
NoClock   == -1
Scheduled == "scheduled"
PCs == {"down", "request", "probe", "lag", "align", "zfs", "tag", "publish",
        "rescan", "stamp", "schema", "config", "prune", "destroy", "autosync"}

-----------------------------------------------------------------------------
Init ==
  /\ request = NoNonce /\ config \in Configs \cup {NoConfig}
  /\ lastConverged = "none"
  /\ lastRequest = NoNonce /\ clock = NoClock /\ age = MaxAge
  /\ pc = "down" /\ mode = "requested" /\ verdict = "no"
  /\ subLsn = 0 /\ retain = 0 /\ victims = {}
  /\ pool = {} /\ taken = 0 /\ tag = [s \in SnapId |-> "unset"]
  /\ listing = {} /\ inUse = {}
  /\ published = 0 /\ applied = 0 /\ copying = FALSE /\ sequences = 0
  /\ issued = {} /\ cause = [s \in SnapId |-> Scheduled]
  /\ whole = [s \in SnapId |-> TRUE] /\ asOf = 0
  /\ uptime = 0 /\ crashes = 0

-----------------------------------------------------------------------------
(* The daemon: boot and polls *)

\* A bug: the deadline of a previous life is kept.
BootKeepingClock ==
  /\ pc = "down"
  /\ lastRequest' = request
  /\ uptime' = 0 /\ asOf' = 0
  /\ pc' = "request"
  /\ UNCHANGED <<params, age, clock, locals, zpool, engine, stream, cause, whole, bounds>>

\* The nonce state is seeded from the parameter, so that a request made while
\* the daemon was down is not served; a read that fails seeds it with nothing.
Boot ==
  /\ pc = "down"
  /\ \/ lastRequest' = request
     \/ "seed" \in Faults /\ lastRequest' = NoNonce
  /\ clock' = NoClock
  /\ uptime' = 0 /\ asOf' = 0
  /\ pc' = "request"
  /\ UNCHANGED <<params, age, locals, zpool, engine, stream, cause, whole, bounds>>

\* A bug: any nonce is new.
SeesAnyRequest == request # NoNonce

\* A bug: a nonce is new only after another one.
SeesNextRequest == lastRequest # NoNonce /\ request # lastRequest

SeesRequest == request \notin {NoNonce, lastRequest}

\* nonce_changed, with the nonce recorded before it is served.
ReadRequest ==
  /\ pc = "request"
  /\ IF SeesRequest
     THEN lastRequest' = request /\ mode' = "requested" /\ pc' = "probe"
     ELSE pc' = "schema" /\ UNCHANGED <<lastRequest, mode>>
  /\ UNCHANGED <<params, clock, age, verdict, subLsn, retain, victims,
                 zpool, engine, stream, ghosts, bounds>>

MissRequest ==
  /\ pc = "request" /\ "param" \in Faults
  /\ pc' = "schema"
  /\ UNCHANGED <<params, files, locals, zpool, engine, stream, ghosts, bounds>>

\* sync_schema, on a nonce or every AUTOSYNC_SECONDS: a REFRESH PUBLICATION in
\* it starts copying the tables it adds.
SchemaPass ==
  /\ \/ pc = "schema" /\ pc' = "config"
     \/ pc = "autosync" /\ pc' = "request"
  /\ copying' \in {copying, TRUE}
  /\ UNCHANGED <<params, files, locals, zpool, engine, published, applied,
                 sequences, ghosts, bounds>>

Due(c) == c # NoConfig /\ c.interval > 0 /\ age >= c.interval

ReadConfig ==
  /\ pc = "config"
  /\ IF config = NoConfig
     THEN pc' = "autosync" /\ UNCHANGED <<retain, mode>>
     ELSE /\ retain' = config.retain
          /\ IF Due(config)
             THEN pc' = "probe" /\ mode' = "scheduled"
             ELSE pc' = "prune" /\ UNCHANGED mode
  /\ UNCHANGED <<params, files, verdict, subLsn, victims, zpool, engine,
                 stream, ghosts, bounds>>

MissConfig ==
  /\ pc = "config" /\ "param" \in Faults
  /\ pc' = "autosync"
  /\ UNCHANGED <<params, files, locals, zpool, engine, stream, ghosts, bounds>>

-----------------------------------------------------------------------------
(* The daemon: take_snapshot *)

\* stream_converged said yes.
CaughtUp ==
  /\ verdict' = "yes" /\ clock' = NoClock /\ pc' = "align"
  /\ asOf' = published

\* A bug: each look at a stream that is behind starts the wait again.
RestartedClock == 0

StartedClock == IF clock = NoClock THEN 0 ELSE clock

\* It said no: a request goes ahead; the schedule waits on its clock.
Behind ==
  /\ UNCHANGED asOf
  /\ CASE mode = "requested" ->
            /\ verdict' = "no" /\ pc' = "align"
            /\ UNCHANGED clock
       [] mode = "scheduled" /\ clock < MaxWait ->
            /\ clock' = StartedClock
            /\ pc' = "prune"
            /\ UNCHANGED verdict
       [] OTHER ->
            /\ verdict' = "no" /\ clock' = NoClock /\ pc' = "align"

\* A bug: tables still in copy are not asked about.
ProbeIgnoringCopies ==
  /\ pc = "probe" /\ pc' = "lag"
  /\ subLsn' = applied
  /\ UNCHANGED <<params, files, mode, verdict, retain, victims, zpool, engine,
                 stream, ghosts, bounds>>

\* The subscriber's queries, which fail closed, after two things that do not: an
\* unread URL means "not a streaming deployment", and where the subscription is
\* gone there is "nothing to wait for".
Probe ==
  /\ pc = "probe"
  /\ \/ {"urls", "subscription"} \cap Faults # {} /\ CaughtUp /\ UNCHANGED subLsn
     \/ (copying \/ "query" \in Faults) /\ Behind /\ UNCHANGED subLsn
     \/ ~copying /\ subLsn' = applied /\ pc' = "lag"
        /\ UNCHANGED <<verdict, clock, asOf>>
  /\ UNCHANGED <<params, lastRequest, age, mode, retain, victims, zpool, engine,
                 stream, cause, whole, uptime, bounds>>

\* The publisher's query: how far its log is past what was just read.
CompareLag ==
  /\ pc = "lag"
  /\ \/ published - subLsn <= Lag /\ CaughtUp
     \/ published - subLsn > Lag /\ Behind
     \/ "query" \in Faults /\ Behind
  /\ subLsn' = 0
  /\ UNCHANGED <<params, lastRequest, age, mode, retain, victims, zpool,
                 engine, stream, cause, whole, uptime, bounds>>

AlignSequences ==
  /\ pc = "align"
  /\ \/ sequences' = applied
     \/ "align" \in Faults /\ UNCHANGED sequences
  /\ pc' = "zfs"
  /\ UNCHANGED <<params, files, locals, zpool, engine, published, applied,
                 copying, ghosts, bounds>>

\* Where the loop goes on once take_snapshot returns.
AfterTake == IF mode = "requested" THEN "schema" ELSE "prune"

\* What the verdict "yes" promises of the rows a snapshot holds.
Converged == ~copying /\ applied + Lag >= asOf

ZfsSnapshot ==
  /\ pc = "zfs" /\ taken < MaxSnaps
  /\ taken' = taken + 1
  /\ pool' = pool \cup {taken + 1}
  /\ cause' = [cause EXCEPT ![taken + 1] =
                 IF mode = "requested" THEN lastRequest ELSE Scheduled]
  /\ whole' = [whole EXCEPT ![taken + 1] = Converged]
  /\ asOf' = 0
  /\ pc' = "tag"
  /\ UNCHANGED <<params, files, locals, tag, engine, stream, uptime, bounds>>

ZfsFails ==
  /\ pc = "zfs" /\ ("zfs" \in Faults \/ taken = MaxSnaps)
  /\ pc' = AfterTake /\ asOf' = 0
  /\ UNCHANGED <<params, files, locals, zpool, engine, stream, cause, whole,
                 uptime, bounds>>

\* A bug: the tag repeats the verdict published before.
TagWithLastPublished ==
  /\ pc = "tag" /\ pc' = "publish"
  /\ tag' = [tag EXCEPT ![taken] = lastConverged]
  /\ UNCHANGED <<params, files, locals, pool, taken, engine, stream, ghosts, bounds>>

\* A bug: a snapshot of a stream that was behind is left untagged.
TagOnlyConverged ==
  /\ pc = "tag" /\ pc' = "publish"
  /\ tag' = IF verdict = "yes" THEN [tag EXCEPT ![taken] = "yes"] ELSE tag
  /\ UNCHANGED <<params, files, locals, pool, taken, engine, stream, ghosts, bounds>>

TagSnapshot ==
  /\ pc = "tag"
  /\ \/ tag' = [tag EXCEPT ![taken] = verdict]
     \/ "tag" \in Faults /\ UNCHANGED tag
  /\ pc' = "publish"
  /\ UNCHANGED <<params, files, locals, pool, taken, engine, stream, ghosts, bounds>>

PublishVerdict ==
  /\ pc = "publish"
  /\ \/ lastConverged' = verdict
     \/ "publish" \in Faults /\ UNCHANGED lastConverged
  /\ pc' = "rescan"
  /\ UNCHANGED <<request, config, files, locals, zpool, engine, stream, ghosts, bounds>>

\* A bug: the engine is restarted for converged snapshots only.
RestartForConverged ==
  /\ pc = "rescan" /\ pc' = "stamp"
  /\ listing' = IF verdict = "yes" THEN pool ELSE listing
  /\ UNCHANGED <<params, files, locals, zpool, inUse, stream, ghosts, bounds>>

\* docker restart: the engine lists the pool when it starts.
RestartEngine ==
  /\ pc = "rescan"
  /\ \/ listing' = pool
     \/ "rescan" \in Faults /\ UNCHANGED listing
  /\ pc' = "stamp"
  /\ UNCHANGED <<params, files, locals, zpool, inUse, stream, ghosts, bounds>>

StampSnapshot ==
  /\ pc = "stamp"
  /\ age' = 0
  /\ pc' = AfterTake
  /\ UNCHANGED <<params, lastRequest, clock, locals, zpool, engine, stream,
                 ghosts, bounds>>

-----------------------------------------------------------------------------
(* The daemon: prune_snapshots *)

\* A bug: one snapshot less is kept.
OlderThanAllBut(P, n) == {s \in P : Cardinality({t \in P : t > s}) >= n - 1}

\* A bug: sorted the other way round.
NewerThanOldest(P, n) == {s \in P : Cardinality({t \in P : t < s}) >= n}

\* The snapshots of P that are not among its newest n.
OlderThanNewest(P, n) == {s \in P : Cardinality({t \in P : t > s}) >= n}

ListVictims ==
  /\ pc = "prune"
  /\ IF retain >= 1
     THEN victims' = OlderThanNewest(pool, retain) /\ pc' = "destroy"
     ELSE pc' = "autosync" /\ UNCHANGED victims
  /\ UNCHANGED <<params, files, mode, verdict, subLsn, retain, zpool, engine,
                 stream, ghosts, bounds>>

\* zfs destroy refuses a snapshot with dependents, and the loop goes on.
DestroyOldest ==
  /\ pc = "destroy"
  /\ \E s \in victims :
       /\ \A t \in victims : s <= t
       /\ victims' = victims \ {s}
       /\ \/ s \notin inUse /\ pool' = pool \ {s}
          \/ (s \in inUse \/ "zfs" \in Faults) /\ UNCHANGED pool
  /\ UNCHANGED <<params, files, pc, mode, verdict, subLsn, retain, taken, tag,
                 engine, stream, ghosts, bounds>>

PruneDone ==
  /\ pc = "destroy" /\ victims = {}
  /\ pc' = "autosync"
  /\ UNCHANGED <<params, files, locals, zpool, engine, stream, ghosts, bounds>>

-----------------------------------------------------------------------------
(* The daemon's surroundings *)

\* The process dies; its variables go, its files and the parameters stay.
Crash ==
  /\ pc # "down" /\ crashes < MaxCrashes
  /\ crashes' = crashes + 1
  /\ pc' = "down" /\ mode' = "requested" /\ verdict' = "no"
  /\ subLsn' = 0 /\ retain' = 0 /\ victims' = {}
  /\ UNCHANGED <<params, files, zpool, engine, stream, ghosts, issued>>

Older(a, cap) == IF a = NoClock \/ a = cap THEN a ELSE a + 1

Tick ==
  /\ age' = Older(age, MaxAge)
  /\ clock' = Older(clock, MaxWait)
  /\ uptime' = Older(uptime, MaxWait)
  /\ UNCHANGED <<params, lastRequest, pc, locals, zpool, engine, stream, cause,
                 whole, asOf, bounds>>

PublisherWrites ==
  /\ published < MaxRows
  /\ published' = published + 1
  /\ UNCHANGED <<params, files, pc, locals, zpool, engine, applied, copying,
                 sequences, ghosts, bounds>>

TargetApplies ==
  /\ applied < published
  /\ applied' = applied + 1
  /\ UNCHANGED <<params, files, pc, locals, zpool, engine, published, copying,
                 sequences, ghosts, bounds>>

CopyDone ==
  /\ copying /\ copying' = FALSE
  /\ UNCHANGED <<params, files, pc, locals, zpool, engine, published, applied,
                 sequences, ghosts, bounds>>

\* A clone or a branch is made on a snapshot the engine lists, if it exists.
Branch(s) ==
  /\ s \in (listing \cap pool) \ inUse
  /\ inUse' = inUse \cup {s}
  /\ UNCHANGED <<params, files, pc, locals, zpool, listing, stream, ghosts, bounds>>

Unbranch(s) ==
  /\ s \in inUse
  /\ inUse' = inUse \ {s}
  /\ UNCHANGED <<params, files, pc, locals, zpool, listing, stream, ghosts, bounds>>

Configure(c) ==
  /\ config # c /\ config' = c
  /\ UNCHANGED <<request, lastConverged, files, pc, locals, zpool, engine,
                 stream, ghosts, bounds>>

\* requestSnapshot: a nonce nobody has used replaces whatever was there.
RequestSnapshot(n) ==
  /\ n \notin issued
  /\ issued' = issued \cup {n}
  /\ request' = n
  /\ UNCHANGED <<config, lastConverged, files, pc, locals, zpool, engine,
                 stream, ghosts, crashes>>

-----------------------------------------------------------------------------
TakeSnapshot ==
  \/ Probe \/ CompareLag \/ AlignSequences \/ ZfsSnapshot \/ ZfsFails
  \/ TagSnapshot \/ PublishVerdict \/ RestartEngine \/ StampSnapshot

Prune == ListVictims \/ DestroyOldest \/ PruneDone

Daemon ==
  \/ Boot \/ ReadRequest \/ MissRequest \/ SchemaPass
  \/ ReadConfig \/ MissConfig \/ TakeSnapshot \/ Prune

Stream == PublisherWrites \/ TargetApplies \/ CopyDone

Surroundings ==
  \/ Crash \/ Tick \/ Stream
  \/ \E s \in SnapId : Branch(s) \/ Unbranch(s)
  \/ \E c \in Configs : Configure(c)

Next == Daemon \/ Surroundings \/ \E n \in Nonces : RequestSnapshot(n)

Spec == Init /\ [][Next]_vars

\* systemd restarts the loop and every call in it returns; time passes; the
\* parameter store answers again and again, though it may fail in between.
Fairness ==
  /\ WF_vars(Daemon)
  /\ WF_vars(Tick)
  /\ SF_vars(ReadRequest)
  /\ SF_vars(ReadConfig)

FairSpec == Spec /\ Fairness

-----------------------------------------------------------------------------
ParamsOK ==
  /\ request \in Nonces \cup {NoNonce}
  /\ config \in Configs \cup {NoConfig}
  /\ lastConverged \in {"none", "yes", "no"}

FilesOK ==
  /\ lastRequest \in Nonces \cup {NoNonce}
  /\ clock \in {NoClock} \cup (0 .. MaxWait)
  /\ age \in 0 .. MaxAge

DaemonOK ==
  /\ pc \in PCs
  /\ mode \in {"requested", "scheduled"}
  /\ verdict \in {"yes", "no"}
  /\ subLsn \in Nat
  /\ retain \in Nat
  /\ victims \subseteq SnapId

PoolOK ==
  /\ pool \subseteq SnapId
  /\ taken \in 0 .. MaxSnaps
  /\ tag \in [SnapId -> {"unset", "yes", "no"}]
  /\ listing \subseteq SnapId
  /\ inUse \subseteq SnapId

StreamOK ==
  /\ published \in 0 .. MaxRows
  /\ applied \in 0 .. published
  /\ sequences \in 0 .. MaxRows

HistoryOK ==
  /\ issued \subseteq Nonces
  /\ cause \in [SnapId -> Nonces \cup {NoNonce, Scheduled}]
  /\ whole \in [SnapId -> BOOLEAN]
  /\ asOf \in Nat
  /\ uptime \in 0 .. MaxWait
  /\ crashes \in 0 .. MaxCrashes

FlagsOK == copying \in BOOLEAN

TypeOK ==
  /\ ParamsOK /\ FilesOK /\ DaemonOK /\ PoolOK
  /\ StreamOK /\ HistoryOK /\ FlagsOK

\* Pruning never takes the pool's newest snapshot, whatever the operator sets
\* retain to while the loop runs: new branches always have a base to start on
\* (prune_snapshots and its guard, tendb-snapshotd.sh:147-160).
NewestSurvives == taken > 0 => taken \in pool

\* A snapshot is destroyed only when nothing depends on it and at least retain
\* newer ones stand at that moment, though the list of victims was made before
\* the first destroy and snapshots are branched in between.
DestroysOnlySurplus ==
  [][\A s \in pool \ pool' :
       s \notin inUse /\ Cardinality({t \in pool : t > s}) >= retain]_vars

\* A snapshot tagged tendb:converged=yes was cut with no table copy running and
\* within the lag of all the publisher had written when the verdict was reached:
\* no branch tool takes a torn base for a clean one (take_snapshot:102-145).
ConvergedTagIsTrue == \A s \in SnapId : tag[s] = "yes" => whole[s]

\* One request is served by at most one snapshot, across crashes at any step:
\* the nonce is recorded before it is served and seeded again at boot
\* (nonce_changed:386-394 and the boot:398).
OnePerRequest ==
  \A s, t \in 1 .. taken : s # t /\ cause[s] = cause[t] => cause[s] = Scheduled

\* The schedule goes ahead on a stream that is behind.
GivesUp ==
  /\ mode = "scheduled" /\ pc \in {"probe", "lag"}
  /\ pc' = "align" /\ verdict' = "no"

\* The schedule gives up on the stream only in a life of the daemon that has
\* lasted the full wait: a deadline from a previous life never counts (:400).
GivesUpInItsOwnLife == [][GivesUp => uptime >= MaxWait]_vars

\* However long the stream stays behind, a snapshot the schedule owes is
\* attempted, unless the operator changes the schedule.
ScheduleIsKept ==
  \A c \in Configs :
    config = c /\ Due(c) ~> pc = "zfs" \/ config # c \/ ~Due(c)

\* No request stays unseen: the loop records it unless a newer one replaces it.
RequestsAreSeen ==
  \A n \in Nonces : request = n ~> lastRequest = n \/ request # n
=============================================================================

--------------------------- MODULE CheckupProofs ----------------------------
(***************************************************************************)
(* Proofs about Checkup: that every finding was true at some moment of the  *)
(* checkup, that what stands all along is found, and that the console's hop *)
(* names the first that it knows of the findings, whatever changes and      *)
(* whichever calls fail meanwhile, and however many do.                     *)
(***************************************************************************)
EXTENDS Checkup, TLAPS

Labels     == {"idle", "healthz", "status", "capacity", "snapshots", "ends", "done"}
Severities == [Codes -> 0 .. 2]

Worlds ==
  [healthy : BOOLEAN, alerts : BOOLEAN, disk : 0 .. 2, clones : 0 .. Capacity,
   dumpAge : Hours, snapAge : Hours \cup {None},
   publisher : BOOLEAN, slots : Seq(Slot),
   subscriber : BOOLEAN, subscription : Subscriptions,
   errors : BOOLEAN, silent : BOOLEAN, source : Schemas, target : Schemas]

EngineStatus == [alerts : BOOLEAN, disk : 0 .. 2, clones : 0 .. Capacity, dumpAge : Hours]

Pictures ==
  [healthy : BOOLEAN, status : EngineStatus \cup {None}, capacity : BOOLEAN,
   snapAge : Hours \cup {None}, publisher : PublisherStatus \cup {None, Down},
   subscriber : SubscriberStatus \cup {None, Down}]

TypeOK ==
  /\ ends \subseteq {"publisher", "subscriber"}
  /\ world \in Worlds
  /\ pc \in Labels
  /\ picture \in Pictures
  /\ found \in Severities /\ held \in Severities /\ ever \in Severities

\* What is read first is not read before.
ReadInOrder ==
  /\ pc = "healthz" => ~picture.healthy
  /\ pc \in {"healthz", "status"} => picture.snapAge = None

\* While a checkup runs: what is the matter now has been noted, and so has what
\* the rules make of the readings taken so far, the clones that the port pool's
\* size will be held against among them.  (Until /healthz is called the picture
\* says that the engine is down, which nobody has found yet.)
EverInv ==
  Busy =>
    /\ \A c \in Codes : Matter(world)[c] <= ever[c]
    /\ \A c \in Codes \ {"schema-drift"} :
         Evaluate(picture)[c] <= ever[c] \/ (c = "engine-unreachable" /\ pc = "healthz")
    /\ picture.status # None => CapacitySeverity(picture.status.clones) <= ever["clone-capacity"]

\* No reading bears on a code yet.
Unasked(p, c) ==
  \/ c \in EngineCodes /\ p.status = None
  \/ c = "clone-capacity" /\ ~p.capacity
  \/ c = "data-stale" /\ Streaming /\ p.snapAge = None
  \/ c \in PublisherCodes \cup {"replication-publisher"} /\ ~Read(p, "publisher")
  \/ c \in SubscriberCodes \cup {"replication-subscriber"} /\ ~Read(p, "subscriber")

\* The schemas read are the ones of now.
SchemasStand ==
  /\ Read(picture, "publisher") => picture.publisher.schema \in {None, world.source}
  /\ Read(picture, "subscriber") => picture.subscriber.schema \in {None, world.target}

\* While a checkup runs: what has stood since it began still stands, and the
\* readings taken so far show it; a drift that stands has both schemas with it.
HeldInv ==
  Busy =>
    /\ \A c \in Codes : held[c] <= Matter(world)[c]
    /\ \A c \in Codes \ {"schema-drift"} : held[c] <= Evaluate(picture)[c] \/ Unasked(picture, c)
    /\ picture.status # None => held["clone-capacity"] <= CapacitySeverity(picture.status.clones)
    /\ held["schema-drift"] # 0 => SchemasStand

\* Once it is done the findings are what the rules make of the picture.
DoneInv == pc = "done" => found = Evaluate(picture)

\* What a reading makes of a code: the finding is as before, or as the world is,
\* or not to be had, or the one of the clones counted earlier, or the failure
\* itself.
Shows(c) ==
  \/ /\ Evaluate(picture')[c] = Evaluate(picture)[c]
     /\ Unasked(picture, c) => Unasked(picture', c)
     /\ ~(c = "engine-unreachable" /\ pc = "healthz")
  \/ Evaluate(picture')[c] = Matter(world)[c]
  \/ Evaluate(picture')[c] = 0 /\ Unasked(picture', c)
  \/ /\ c = "clone-capacity" /\ picture.status # None
     /\ Evaluate(picture')[c] = CapacitySeverity(picture.status.clones)
  \/ Evaluate(picture')[c] = 2 /\ ever'[c] = 2

-----------------------------------------------------------------------------
(***************************************************************************)
(* Lemmas about the rules.                                                  *)
(***************************************************************************)
\* Every code belongs to one part.
LEMMA CodeParts ==
  ASSUME NEW c \in Codes
  PROVE  \/ c \in EngineCodes \/ c \in PublisherCodes \/ c \in SubscriberCodes
         \/ c \in Reachability \/ c = "schema-drift"
BY DEF Codes

\* A severity is one of three numbers, and so is the one of the port pool.
LEMMA SeverityIs ==
  /\ \A cond, n : Severity(cond, n) \in {0, n}
  /\ \A n : CapacitySeverity(n) \in 0 .. 2
BY DEF Severity, CapacitySeverity

\* What most slots retain is within what one may retain.
LEMMA RetainedIs ==
  ASSUME NEW slots \in Seq(Slot)
  PROVE  Retained(slots) = IF \E s \in Range(slots) : s.retained = 2 THEN 2
                           ELSE Severity(\E s \in Range(slots) : s.retained = 1, 1)
PROOF
<1> DEFINE known == {s.retained : s \in Range(slots)} \ {None}
<1>1. Range(slots) \subseteq Slot
  BY DEF Range
<1>2. known \subseteq 0 .. 2
  BY <1>1 DEF Slot
<1>3. 0 # None /\ 1 # None /\ 2 # None
  BY CheckupConstantsOK
<1>4. \A n : n \in known <=> n # None /\ \E s \in Range(slots) : s.retained = n
  OBVIOUS
<1>5. Retained(slots) = IF known = {} THEN 0 ELSE CHOOSE n \in known : \A m \in known : m <= n
  BY DEF Retained
<1> HIDE DEF known
<1>6. CASE known = {}
  BY <1>3, <1>4, <1>5, <1>6 DEF Severity
<1>7. CASE known # {}
  <2> DEFINE most == CHOOSE n \in known : \A m \in known : m <= n
  <2>1. \E n \in known : \A m \in known : m <= n
    <3>1. CASE 2 \in known
      BY <1>2, <3>1
    <3>2. CASE 2 \notin known /\ 1 \in known
      <4>1. \A m \in known : m <= 1
        BY <1>2, <3>2
      <4> QED
        BY <3>2, <4>1
    <3>3. CASE 2 \notin known /\ 1 \notin known
      <4>1. \A m \in known : m = 0
        BY <1>2, <3>3
      <4>2. 0 \in known
        BY <1>7, <4>1
      <4> QED
        BY <4>1, <4>2
    <3> QED
      BY <3>1, <3>2, <3>3
  <2>2. most \in known /\ \A m \in known : m <= most
    BY <2>1
  <2>3. Retained(slots) = most
    BY <1>5, <1>7
  <2> HIDE DEF most
  <2>4. most = IF 2 \in known THEN 2 ELSE IF 1 \in known THEN 1 ELSE 0
    BY <1>2, <2>2
  <2> QED
    BY <1>3, <1>4, <2>3, <2>4 DEF Severity
<1> QED
  BY <1>6, <1>7

\* The rules for the slots find what the matter with them is.
LEMMA SlotRulesMatch ==
  ASSUME NEW w \in Worlds, NEW c \in PublisherCodes
  PROVE  SlotRules(w.slots)[c] = OfPublisher(w, c)
PROOF
<1> DEFINE slots == w.slots
<1>1. slots \in Seq(Slot)
  BY DEF Worlds
<1>2. (Range(slots) # {}) <=> slots # <<>>
  <2>1. CASE slots = <<>>
    <3>1. DOMAIN slots = {}
      BY <2>1
    <3> QED
      BY <2>1, <3>1 DEF Range
  <2>2. CASE slots # <<>>
    <3>1. 1 \in DOMAIN slots
      BY <1>1, <2>2
    <3> QED
      BY <2>2, <3>1 DEF Range
  <2> QED
    BY <2>1, <2>2
<1>3. (\A s \in Range(slots) : ~s.active) <=> ~HasActive(slots)
  BY DEF Range, HasActive
<1>4. Retained(slots) = IF \E s \in Range(slots) : s.retained = 2 THEN 2
                        ELSE Severity(\E s \in Range(slots) : s.retained = 1, 1)
  BY <1>1, RetainedIs
<1>5. (\A s \in Range(slots) : s.wal # "lost") <=> ~\E s \in Range(slots) : s.wal = "lost"
  OBVIOUS
<1> HIDE DEF slots
<1>6. CASE c = "slot-inactive"
  BY <1>2, <1>3, <1>6 DEF SlotRules, OfPublisher, PublisherCodes, slots
<1>7. CASE c = "replication-lag"
  BY <1>7 DEF SlotRules, OfPublisher, PublisherCodes
<1>8. CASE c = "slot-invalidated"
  BY <1>8 DEF SlotRules, OfPublisher, PublisherCodes
<1>9. CASE c = "slot-at-risk"
  BY <1>5, <1>9 DEF SlotRules, OfPublisher, PublisherCodes, slots
<1>10. CASE c = "wal-retained"
  BY <1>4, <1>10 DEF SlotRules, OfPublisher, PublisherCodes, slots
<1> QED
  BY <1>6, <1>7, <1>8, <1>9, <1>10 DEF PublisherCodes

\* The rules for the subscription find what the matter with it is.
LEMMA SubscriptionRulesMatch ==
  ASSUME NEW w \in Worlds, NEW schema, NEW c \in SubscriberCodes
  PROVE  SubscriptionRules([subscription |-> w.subscription, errors |-> w.errors,
                            silent |-> w.silent, schema |-> schema])[c] = OfSubscriber(w, c)
BY DEF SubscriptionRules, OfSubscriber, SubscriberCodes, Worlds, Subscriptions, Severity

\* Two schemas differ exactly if diffSchemas lists a table.
LEMMA DriftRuleMatches ==
  ASSUME NEW s, NEW t
  PROVE  DriftRule(s, t) = Severity(Differ(s, t), 1)
PROOF
<1> DEFINE drift == SchemaDiff(s, t)
<1>1. (\E part \in DOMAIN drift : drift[part] # {}) <=>
        \/ drift.missing # {} \/ drift.orphaned # {}
        \/ drift.mismatched # {} \/ drift.indexesDiffer # {}
  BY DEF SchemaDiff
<1>2. (\/ drift.missing # {} \/ drift.orphaned # {}
       \/ drift.mismatched # {} \/ drift.indexesDiffer # {}) <=> Differ(s, t)
  BY DEF SchemaDiff, Differ
<1> QED
  BY <1>1, <1>2 DEF DriftRule, Severity

\* What the findings about each part are drawn from.
LEMMA EvaluateAt ==
  ASSUME NEW p
  PROVE  /\ Evaluate(p)["engine-unreachable"] = Severity(~p.healthy, 2)
         /\ Evaluate(p)["replication-publisher"] = Severity(p.publisher = Down, 2)
         /\ Evaluate(p)["replication-subscriber"] = Severity(p.subscriber = Down, 2)
         /\ \A c \in EngineCodes : Evaluate(p)[c] = EngineRules(p)[c]
         /\ \A c \in PublisherCodes : Evaluate(p)[c] =
              IF Read(p, "publisher") THEN SlotRules(p.publisher.slots)[c] ELSE 0
         /\ \A c \in SubscriberCodes : Evaluate(p)[c] =
              IF Read(p, "subscriber") THEN SubscriptionRules(p.subscriber)[c] ELSE 0
         /\ Evaluate(p)["schema-drift"] =
              IF Read(p, "publisher") /\ Read(p, "subscriber")
              THEN DriftRule(p.publisher.schema, p.subscriber.schema) ELSE 0
PROOF
<1> USE DEF Codes, EngineCodes, PublisherCodes, SubscriberCodes, Reachability
<1>1. Evaluate(p)["engine-unreachable"] = Severity(~p.healthy, 2)
  BY DEF Evaluate, Finding
<1>2. Evaluate(p)["replication-publisher"] = Severity(p.publisher = Down, 2)
  BY DEF Evaluate, Finding
<1>3. Evaluate(p)["replication-subscriber"] = Severity(p.subscriber = Down, 2)
  BY DEF Evaluate, Finding
<1>4. ASSUME NEW c \in EngineCodes PROVE Evaluate(p)[c] = EngineRules(p)[c]
  BY DEF Evaluate, Finding
<1>5. ASSUME NEW c \in PublisherCodes
      PROVE  Evaluate(p)[c] = IF Read(p, "publisher") THEN SlotRules(p.publisher.slots)[c] ELSE 0
  BY DEF Evaluate, Finding
<1>6. ASSUME NEW c \in SubscriberCodes
      PROVE  Evaluate(p)[c] = IF Read(p, "subscriber")
                              THEN SubscriptionRules(p.subscriber)[c] ELSE 0
  BY DEF Evaluate, Finding
<1>7. Evaluate(p)["schema-drift"] =
        IF Read(p, "publisher") /\ Read(p, "subscriber")
        THEN DriftRule(p.publisher.schema, p.subscriber.schema) ELSE 0
  BY DEF Evaluate, Finding
<1> QED
  BY <1>1, <1>2, <1>3, <1>4, <1>5, <1>6, <1>7

\* What the matter is with each part.
LEMMA MatterAt ==
  ASSUME NEW w \in Worlds
  PROVE  /\ Matter(w)["engine-unreachable"] = Severity(~w.healthy, 2)
         /\ Matter(w)["replication-publisher"] =
              IF "publisher" \in ends THEN Severity(~w.publisher, 2) ELSE 0
         /\ Matter(w)["replication-subscriber"] =
              IF "subscriber" \in ends THEN Severity(~w.subscriber, 2) ELSE 0
         /\ \A c \in EngineCodes : Matter(w)[c] = OfEngine(w, c)
         /\ \A c \in PublisherCodes : Matter(w)[c] =
              IF "publisher" \in ends THEN SlotRules(w.slots)[c] ELSE 0
         /\ \A c \in SubscriberCodes : Matter(w)[c] =
              IF "subscriber" \in ends THEN OfSubscriber(w, c) ELSE 0
         /\ Matter(w)["schema-drift"] =
              Severity({"publisher", "subscriber"} \subseteq ends /\ Differ(w.source, w.target), 1)
PROOF
<1> USE DEF Codes, EngineCodes, PublisherCodes, SubscriberCodes, Reachability
<1>1. Matter(w)["engine-unreachable"] = Severity(~w.healthy, 2)
  BY DEF Matter, Condition, OfEngine
<1>2. Matter(w)["replication-publisher"] =
        IF "publisher" \in ends THEN Severity(~w.publisher, 2) ELSE 0
  BY DEF Matter, Condition, OfPublisher
<1>3. Matter(w)["replication-subscriber"] =
        IF "subscriber" \in ends THEN Severity(~w.subscriber, 2) ELSE 0
  BY DEF Matter, Condition, OfSubscriber
<1>4. ASSUME NEW c \in EngineCodes PROVE Matter(w)[c] = OfEngine(w, c)
  BY DEF Matter, Condition
<1>5. ASSUME NEW c \in PublisherCodes
      PROVE  Matter(w)[c] = IF "publisher" \in ends THEN SlotRules(w.slots)[c] ELSE 0
  <2>1. Matter(w)[c] = IF "publisher" \in ends THEN OfPublisher(w, c) ELSE 0
    BY <1>5 DEF Matter, Condition
  <2> QED
    BY <1>5, <2>1, SlotRulesMatch
<1>6. ASSUME NEW c \in SubscriberCodes
      PROVE  Matter(w)[c] = IF "subscriber" \in ends THEN OfSubscriber(w, c) ELSE 0
  BY DEF Matter, Condition
<1>7. Matter(w)["schema-drift"] =
        Severity({"publisher", "subscriber"} \subseteq ends /\ Differ(w.source, w.target), 1)
  BY DEF Matter, Condition
<1> QED
  BY <1>1, <1>2, <1>3, <1>4, <1>5, <1>6, <1>7

\* Slots and a subscription yield severities.
LEMMA RulesAreSeverities ==
  /\ \A slots \in Seq(Slot), c \in PublisherCodes : SlotRules(slots)[c] \in 0 .. 2
  /\ \A s, c : c \in SubscriberCodes => SubscriptionRules(s)[c] \in 0 .. 2
  /\ \A w \in Worlds, c \in EngineCodes : OfEngine(w, c) \in 0 .. 2
  /\ \A w, c : c \in SubscriberCodes => OfSubscriber(w, c) \in 0 .. 2
PROOF
<1>1. ASSUME NEW slots \in Seq(Slot), NEW c \in PublisherCodes
      PROVE  SlotRules(slots)[c] \in 0 .. 2
  <2>1. Retained(slots) \in 0 .. 2
    BY RetainedIs DEF Severity
  <2> QED
    BY <2>1 DEF SlotRules, PublisherCodes, Severity
<1>2. ASSUME NEW s, NEW c \in SubscriberCodes
      PROVE  SubscriptionRules(s)[c] \in 0 .. 2
  BY DEF SubscriptionRules, SubscriberCodes, Severity
<1>3. ASSUME NEW w \in Worlds, NEW c \in EngineCodes
      PROVE  OfEngine(w, c) \in 0 .. 2
  BY SeverityIs DEF OfEngine, EngineCodes, Severity, Worlds
<1>4. ASSUME NEW w, NEW c \in SubscriberCodes
      PROVE  OfSubscriber(w, c) \in 0 .. 2
  BY DEF OfSubscriber, SubscriberCodes, Severity
<1> QED
  BY <1>1, <1>2, <1>3, <1>4

LEMMA MatterType ==
  ASSUME NEW w \in Worlds
  PROVE  Matter(w) \in Severities
PROOF
<1>1. ASSUME NEW c \in Codes PROVE Matter(w)[c] \in 0 .. 2
  <2>1. w.slots \in Seq(Slot)
    BY DEF Worlds
  <2>2. CASE c \in EngineCodes
    BY <2>2, MatterAt, RulesAreSeverities
  <2>3. CASE c \in PublisherCodes
    BY <2>1, <2>3, MatterAt, RulesAreSeverities
  <2>4. CASE c \in SubscriberCodes
    BY <2>4, MatterAt, RulesAreSeverities
  <2>5. CASE c \in Reachability \cup {"schema-drift"}
    BY <2>5, MatterAt, SeverityIs DEF Reachability
  <2> QED
    BY <1>1, <2>2, <2>3, <2>4, <2>5, CodeParts
<1>2. Matter(w) = [c \in Codes |-> Matter(w)[c]]
  BY DEF Matter
<1> QED
  BY <1>1, <1>2 DEF Severities

LEMMA EvaluateType ==
  ASSUME NEW p \in Pictures
  PROVE  Evaluate(p) \in Severities
PROOF
<1>1. ASSUME NEW c \in Codes PROVE Evaluate(p)[c] \in 0 .. 2
  <2>1. Read(p, "publisher") => p.publisher.slots \in Seq(Slot)
    BY DEF Read, Pictures, PublisherStatus
  <2>2. CASE c \in EngineCodes
    <3>1. p.status # None => p.status \in EngineStatus
      BY DEF Pictures
    <3>2. EngineRules(p)[c] \in 0 .. 2
      BY <2>2, <3>1, SeverityIs DEF EngineRules, EngineCodes, EngineStatus, Severity
    <3> QED
      BY <2>2, <3>2, EvaluateAt
  <2>3. CASE c \in PublisherCodes
    BY <2>1, <2>3, EvaluateAt, RulesAreSeverities
  <2>4. CASE c \in SubscriberCodes
    BY <2>4, EvaluateAt, RulesAreSeverities
  <2>5. CASE c \in Reachability
    BY <2>5, EvaluateAt, SeverityIs DEF Reachability
  <2>6. CASE c = "schema-drift"
    <3>1. \A s, t : DriftRule(s, t) \in {0, 1}
      BY DriftRuleMatches, SeverityIs
    <3> QED
      BY <2>6, <3>1, EvaluateAt
  <2> QED
    BY <1>1, <2>2, <2>3, <2>4, <2>5, <2>6, CodeParts
<1>2. Evaluate(p) = [c \in Codes |-> Evaluate(p)[c]]
  BY DEF Evaluate
<1> QED
  BY <1>1, <1>2 DEF Severities

\* Which ends are configured stays as it is, and so does what follows from it.
LEMMA ConfiguredFrame ==
  ASSUME ends' = ends
  PROVE  /\ Matter(world)' = Matter(world')
         /\ Evaluate(picture)' = Evaluate(picture')
         /\ \A c : Unasked(picture, c)' <=> Unasked(picture', c)
PROOF
<1>1. Streaming' <=> Streaming
  BY DEF Streaming
<1>2. StaleHours' = StaleHours
  BY <1>1 DEF StaleHours
<1>3. Matter(world)' = Matter(world')
  BY <1>1, <1>2 DEF Matter, Condition, OfEngine, OfPublisher, OfSubscriber
<1>4. EngineRules(picture)' = EngineRules(picture')
  BY <1>1, <1>2 DEF EngineRules
<1>5. Evaluate(picture)' = Evaluate(picture')
  BY <1>4 DEF Evaluate, Finding
<1>6. \A c : Unasked(picture, c)' <=> Unasked(picture', c)
  BY <1>1 DEF Unasked
<1> QED
  BY <1>3, <1>5, <1>6

-----------------------------------------------------------------------------
(***************************************************************************)
(* Types.                                                                   *)
(***************************************************************************)
LEMMA WellIsAWorld == Well \in Worlds
PROOF
<1>1. (CHOOSE f \in Prints : TRUE) \in Prints
  BY CheckupConstantsOK
<1>2. [table |-> [x \in Tables |-> CHOOSE f \in Prints : TRUE],
       index |-> [x \in Tables |-> None]] \in Schemas
  BY <1>1 DEF Schemas
<1>3. <<[active |-> TRUE, lags |-> FALSE, retained |-> 0, wal |-> "reserved"]>> \in Seq(Slot)
  BY DEF Slot
<1>4. 0 \in 0 .. Capacity
  BY CheckupConstantsOK
<1> QED
  BY <1>2, <1>3, <1>4 DEF Well, Worlds, Hours, Subscriptions

\* A change of one part leaves a world.
LEMMA ChangeIsAWorld ==
  ASSUME NEW w \in Worlds, NEW f \in DOMAIN Fields, NEW v \in Fields[f]
  PROVE  [w EXCEPT ![f] = v] \in Worlds
PROOF
<1>1. CASE f = "slots"
  <2>1. v \in BoundedSeq(Slots, MaxSlots)
    BY <1>1 DEF Fields
  <2>2. PICK m \in 0 .. MaxSlots : v \in [1 .. m -> Slots]
    BY <2>1 DEF BoundedSeq, SeqOf
  <2>3. v \in Seq(Slot)
    BY <2>2, CheckupConstantsOK
  <2> QED
    BY <1>1, <2>3 DEF Worlds
<1>2. CASE f = "healthy"
  BY <1>2 DEF Fields, Worlds
<1>3. CASE f = "alerts"
  BY <1>3 DEF Fields, Worlds
<1>4. CASE f = "disk"
  BY <1>4 DEF Fields, Worlds
<1>5. CASE f = "clones"
  BY <1>5 DEF Fields, Worlds
<1>6. CASE f = "dumpAge"
  BY <1>6 DEF Fields, Worlds
<1>7. CASE f = "snapAge"
  BY <1>7 DEF Fields, Worlds
<1>8. CASE f = "publisher"
  BY <1>8 DEF Fields, Worlds
<1>9. CASE f = "subscriber"
  BY <1>9 DEF Fields, Worlds
<1>10. CASE f = "subscription"
  BY <1>10 DEF Fields, Worlds
<1>11. CASE f = "errors"
  BY <1>11 DEF Fields, Worlds
<1>12. CASE f = "silent"
  BY <1>12 DEF Fields, Worlds
<1>13. CASE f = "source"
  BY <1>13 DEF Fields, Worlds
<1>14. CASE f = "target"
  BY <1>14 DEF Fields, Worlds
<1> QED
  BY <1>1, <1>2, <1>3, <1>4, <1>5, <1>6, <1>7, <1>8,
     <1>9, <1>10, <1>11, <1>12, <1>13, <1>14 DEF Fields

\* No call makes a history forget, and each has its answer or leaves the
\* picture as it was.
LEMMA CallHasAnAnswerOrNone ==
  ASSUME NEW there, NEW code \in Codes \cup {None}, NEW answer,
         ever \in Severities, Call(there, code, answer)
  PROVE  /\ (there /\ picture' = answer) \/ picture' = picture
         /\ ever' \in Severities
         /\ \A c \in Codes : ever[c] <= ever'[c]
BY DEF Call, Answered, Trouble, Severities

\* What a call to an end leaves: the end is down, or has given its stream, or
\* its schema as well.
LEMMA PublisherReplies ==
  ASSUME QueryPublisher
  PROVE  /\ "publisher" \in ends /\ pc = "ends"
         /\ UNCHANGED <<ends, world, pc, found, held>>
         /\ \/ /\ ever' = ever /\ ~world.publisher
               /\ picture' = [picture EXCEPT !["publisher"] = Down]
            \/ /\ ever' = [ever EXCEPT !["replication-publisher"] = 2]
               /\ picture' = [picture EXCEPT !["publisher"] = Down]
            \/ /\ ever' = ever /\ world.publisher /\ picture.publisher = None
               /\ picture' = [picture EXCEPT !["publisher"] =
                                [slots |-> world.slots, schema |-> None]]
            \/ /\ ever' = ever /\ world.publisher /\ picture.publisher \notin {None, Down}
               /\ picture' = [picture EXCEPT !["publisher"] =
                                [picture["publisher"] EXCEPT !.schema = world.source]]
PROOF
<1>1. "replication-publisher" # None
  BY CheckupConstantsOK DEF Codes, Reachability
<1>2. /\ "publisher" \in ends /\ pc = "ends" /\ picture["publisher"] # Down
      /\ UNCHANGED <<ends, world, pc, found, held>>
  BY DEF QueryPublisher, Replies
<1>3. \/ ~world["publisher"] /\ Answered /\ picture' = [picture EXCEPT !["publisher"] = Down]
      \/ /\ world["publisher"] /\ Trouble("replication-publisher")
         /\ picture' = [picture EXCEPT !["publisher"] = Down]
      \/ /\ world["publisher"] /\ Answered /\ picture["publisher"] = None
         /\ picture' = [picture EXCEPT !["publisher"] =
                          [slots |-> world.slots, schema |-> None]]
      \/ /\ world["publisher"] /\ Answered /\ picture["publisher"] # None
         /\ picture' = [picture EXCEPT !["publisher"] =
                          [picture["publisher"] EXCEPT !.schema = world.source]]
  BY DEF QueryPublisher, Replies
<1>4. Answered => ever' = ever
  BY DEF Answered
<1>5. Trouble("replication-publisher") => ever' = [ever EXCEPT !["replication-publisher"] = 2]
  BY <1>1 DEF Trouble
<1> QED
  BY <1>2, <1>3, <1>4, <1>5

LEMMA SubscriberReplies ==
  ASSUME QuerySubscriber
  PROVE  /\ "subscriber" \in ends /\ pc = "ends"
         /\ UNCHANGED <<ends, world, pc, found, held>>
         /\ \/ /\ ever' = ever /\ ~world.subscriber
               /\ picture' = [picture EXCEPT !["subscriber"] = Down]
            \/ /\ ever' = [ever EXCEPT !["replication-subscriber"] = 2]
               /\ picture' = [picture EXCEPT !["subscriber"] = Down]
            \/ /\ ever' = ever /\ world.subscriber /\ picture.subscriber = None
               /\ picture' = [picture EXCEPT !["subscriber"] =
                                [subscription |-> world.subscription, errors |-> world.errors,
                                 silent |-> world.silent, schema |-> None]]
            \/ /\ ever' = ever /\ world.subscriber /\ picture.subscriber \notin {None, Down}
               /\ picture' = [picture EXCEPT !["subscriber"] =
                                [picture["subscriber"] EXCEPT !.schema = world.target]]
PROOF
<1>1. "replication-subscriber" # None
  BY CheckupConstantsOK DEF Codes, Reachability
<1>2. /\ "subscriber" \in ends /\ pc = "ends" /\ picture["subscriber"] # Down
      /\ UNCHANGED <<ends, world, pc, found, held>>
  BY DEF QuerySubscriber, Replies
<1>3. \/ ~world["subscriber"] /\ Answered /\ picture' = [picture EXCEPT !["subscriber"] = Down]
      \/ /\ world["subscriber"] /\ Trouble("replication-subscriber")
         /\ picture' = [picture EXCEPT !["subscriber"] = Down]
      \/ /\ world["subscriber"] /\ Answered /\ picture["subscriber"] = None
         /\ picture' = [picture EXCEPT !["subscriber"] =
                          [subscription |-> world.subscription, errors |-> world.errors,
                           silent |-> world.silent, schema |-> None]]
      \/ /\ world["subscriber"] /\ Answered /\ picture["subscriber"] # None
         /\ picture' = [picture EXCEPT !["subscriber"] =
                          [picture["subscriber"] EXCEPT !.schema = world.target]]
  BY DEF QuerySubscriber, Replies
<1>4. Answered => ever' = ever
  BY DEF Answered
<1>5. Trouble("replication-subscriber") => ever' = [ever EXCEPT !["replication-subscriber"] = 2]
  BY <1>1 DEF Trouble
<1> QED
  BY <1>2, <1>3, <1>4, <1>5

LEMMA RepliesAreTyped ==
  ASSUME TypeOK, QueryPublisher \/ QuerySubscriber
  PROVE  picture' \in Pictures /\ ever' \in Severities
PROOF
<1>1. picture \in Pictures /\ world \in Worlds /\ ever \in Severities
  BY DEF TypeOK
<1>2. world.slots \in Seq(Slot) /\ world.source \in Schemas /\ world.target \in Schemas
  BY <1>1 DEF Worlds
<1>3. CASE QueryPublisher
  <2>1. [slots |-> world.slots, schema |-> None] \in PublisherStatus
    BY <1>2 DEF PublisherStatus
  <2>2. ASSUME picture.publisher \notin {None, Down}
        PROVE  [picture["publisher"] EXCEPT !.schema = world.source] \in PublisherStatus
    <3>1. picture["publisher"] \in PublisherStatus
      BY <1>1, <2>2 DEF Pictures
    <3> QED
      BY <1>2, <3>1 DEF PublisherStatus
  <2>3. \A x \in PublisherStatus \cup {Down} : [picture EXCEPT !["publisher"] = x] \in Pictures
    BY <1>1 DEF Pictures
  <2>4. picture' \in Pictures
    BY <1>3, <2>1, <2>2, <2>3, PublisherReplies
  <2>5. ever' \in Severities
    BY <1>1, <1>3, PublisherReplies DEF Severities
  <2> QED
    BY <2>4, <2>5
<1>4. CASE QuerySubscriber
  <2>1. [subscription |-> world.subscription, errors |-> world.errors,
         silent |-> world.silent, schema |-> None] \in SubscriberStatus
    BY <1>1 DEF SubscriberStatus, Worlds
  <2>2. ASSUME picture.subscriber \notin {None, Down}
        PROVE  [picture["subscriber"] EXCEPT !.schema = world.target] \in SubscriberStatus
    <3>1. picture["subscriber"] \in SubscriberStatus
      BY <1>1, <2>2 DEF Pictures
    <3> QED
      BY <1>2, <3>1 DEF SubscriberStatus
  <2>3. \A x \in SubscriberStatus \cup {Down} : [picture EXCEPT !["subscriber"] = x] \in Pictures
    BY <1>1 DEF Pictures
  <2>4. picture' \in Pictures
    BY <1>4, <2>1, <2>2, <2>3, SubscriberReplies
  <2>5. ever' \in Severities
    BY <1>1, <1>4, SubscriberReplies DEF Severities
  <2> QED
    BY <2>4, <2>5
<1> QED
  BY <1>3, <1>4

LEMMA MilderAndWorse ==
  ASSUME NEW f \in Severities, NEW g \in Severities
  PROVE  /\ Milder(f, g) \in Severities /\ Worse(f, g) \in Severities
         /\ \A c \in Codes : /\ Milder(f, g)[c] <= f[c] /\ Milder(f, g)[c] <= g[c]
                             /\ f[c] <= Worse(f, g)[c] /\ g[c] <= Worse(f, g)[c]
BY DEF Milder, Worse, Severities

\* What a change leaves of the histories: what stood still stands, and nothing
\* is forgotten.
LEMMA ChangeNoted ==
  ASSUME TypeOK, NEW f \in DOMAIN Fields, Change(f)
  PROVE  /\ UNCHANGED <<ends, pc, picture, found>>
         /\ world' \in Worlds /\ held' \in Severities /\ ever' \in Severities
         /\ f \notin {"source", "target"} => UNCHANGED <<world.source, world.target>>
         /\ Busy => \A c \in Codes : /\ held'[c] <= held[c] /\ held'[c] <= Matter(world')[c]
                                     /\ ever[c] <= ever'[c] /\ Matter(world')[c] <= ever'[c]
         /\ Busy /\ f \in {"source", "target"} => held'["schema-drift"] = 0
         /\ ~Busy => UNCHANGED <<held, ever>>
PROOF
<1>1. world \in Worlds /\ held \in Severities /\ ever \in Severities
  BY DEF TypeOK
<1>2. PICK v \in Fields[f] : world' = [world EXCEPT ![f] = v]
  BY DEF Change
<1>3. world' \in Worlds
  BY <1>1, <1>2, ChangeIsAWorld
<1>4. f \notin {"source", "target"} => UNCHANGED <<world.source, world.target>>
  BY <1>1, <1>2 DEF Worlds
<1>5. Matter(world') \in Severities
  BY <1>3, MatterType
<1>6. UNCHANGED <<ends, pc, picture, found>>
  BY DEF Change
<1>7. CASE ~Busy
  <2>1. UNCHANGED <<held, ever>>
    BY <1>7 DEF Change
  <2> QED
    BY <1>1, <1>3, <1>4, <1>6, <1>7, <2>1
<1>8. CASE Busy
  <2> DEFINE h == IF f \in {"source", "target"}
                  THEN [held EXCEPT !["schema-drift"] = 0] ELSE held
  <2>1. held' = Milder(h, Matter(world')) /\ ever' = Worse(ever, Matter(world'))
    BY <1>8 DEF Change
  <2>2. h \in Severities /\ \A c \in Codes : h[c] <= held[c]
    <3>1. CASE f \in {"source", "target"}
      <4>1. h = [held EXCEPT !["schema-drift"] = 0]
        BY <3>1
      <4> HIDE DEF h
      <4>2. h = [c \in Codes |-> IF c = "schema-drift" THEN 0 ELSE held[c]]
        BY <1>1, <4>1 DEF Severities
      <4>3. h \in Severities
        BY <1>1, <4>2 DEF Severities
      <4>4. ASSUME NEW c \in Codes PROVE h[c] <= held[c]
        BY <1>1, <4>1 DEF Severities
      <4> QED
        BY <4>3, <4>4
    <3>2. CASE f \notin {"source", "target"}
      <4>1. h = held
        BY <3>2
      <4> HIDE DEF h
      <4> QED
        BY <1>1, <4>1 DEF Severities
    <3> QED
      BY <3>1, <3>2
  <2>3. f \in {"source", "target"} => h["schema-drift"] = 0
    BY <1>1 DEF Severities, Codes
  <2> HIDE DEF h
  <2>4. /\ held' \in Severities /\ ever' \in Severities
        /\ \A c \in Codes : /\ held'[c] <= h[c] /\ held'[c] <= Matter(world')[c]
                            /\ ever[c] <= ever'[c] /\ Matter(world')[c] <= ever'[c]
    BY <1>1, <1>5, <2>1, <2>2, MilderAndWorse
  <2>5. \A c \in Codes : held'[c] <= held[c]
    BY <1>1, <2>2, <2>4 DEF Severities
  <2>6. f \in {"source", "target"} => held'["schema-drift"] = 0
    <3>1. "schema-drift" \in Codes
      BY DEF Codes
    <3> QED
      BY <2>3, <2>4, <3>1 DEF Severities
  <2> QED
    BY <1>3, <1>4, <1>6, <1>8, <2>4, <2>5, <2>6
<1> QED
  BY <1>7, <1>8

LEMMA TypeInit == Init => TypeOK
PROOF
<1>1. Quiet \in Severities
  BY DEF Quiet, Severities
<1>2. Unread \in Pictures
  BY DEF Unread, Pictures
<1> QED
  BY <1>1, <1>2, WellIsAWorld DEF Init, TypeOK, Labels

LEMMA TypeStep == TypeOK /\ [Next]_vars => TypeOK'
PROOF
<1> SUFFICES ASSUME TypeOK, [Next]_vars PROVE TypeOK'
  OBVIOUS
<1>1. world \in Worlds /\ picture \in Pictures /\ ever \in Severities
  BY DEF TypeOK
<1>2. ASSUME NEW f \in DOMAIN Fields, Change(f) PROVE TypeOK'
  BY <1>2, ChangeNoted DEF TypeOK
<1>3. CASE Begin
  <2>1. Matter(world) \in Severities /\ Quiet \in Severities
    BY <1>1, MatterType DEF Quiet, Severities
  <2>2. Unread \in Pictures
    BY DEF Unread, Pictures
  <2> QED
    BY <1>3, <2>1, <2>2 DEF Begin, TypeOK, Goto, Labels
<1>4. CASE Healthz
  <2>1. [picture EXCEPT !.healthy = TRUE] \in Pictures
    BY <1>1 DEF Pictures
  <2>2. picture' \in Pictures /\ ever' \in Severities
    BY <1>1, <1>4, <2>1, CallHasAnAnswerOrNone DEF Healthz, Codes, Reachability
  <2>3. pc' \in Labels
    BY <1>4 DEF Healthz, Goto, Labels
  <2> QED
    BY <1>4, <2>2, <2>3 DEF Healthz, TypeOK
<1>5. CASE Status
  <2> DEFINE s == [alerts |-> world.alerts, disk |-> world.disk, clones |-> world.clones,
                   dumpAge |-> world.dumpAge]
  <2>1. s \in EngineStatus
    BY <1>1 DEF Worlds, EngineStatus
  <2>2. Call(world.healthy, None, [picture EXCEPT !.status = s])
    BY <1>5 DEF Status
  <2> HIDE DEF s
  <2>3. [picture EXCEPT !.status = s] \in Pictures
    BY <1>1, <2>1 DEF Pictures
  <2>4. picture' \in Pictures /\ ever' \in Severities
    BY <1>1, <2>2, <2>3, CallHasAnAnswerOrNone
  <2> QED
    BY <1>5, <2>4 DEF Status, Goto, TypeOK, Labels
<1>6. CASE ClonePortCapacity
  <2>1. [picture EXCEPT !.capacity = TRUE] \in Pictures
    BY <1>1 DEF Pictures
  <2>2. picture' \in Pictures /\ ever' \in Severities
    BY <1>1, <1>6, <2>1, CallHasAnAnswerOrNone DEF ClonePortCapacity
  <2> QED
    BY <1>6, <2>2 DEF ClonePortCapacity, Goto, TypeOK, Labels
<1>7. CASE ListSnapshots
  <2>1. [picture EXCEPT !.snapAge = world.snapAge] \in Pictures
    BY <1>1 DEF Pictures, Worlds
  <2>2. picture' \in Pictures /\ ever' \in Severities
    BY <1>1, <1>7, <2>1, CallHasAnAnswerOrNone DEF ListSnapshots
  <2> QED
    BY <1>7, <2>2 DEF ListSnapshots, Goto, TypeOK, Labels
<1>8. CASE QueryPublisher
  BY <1>8, RepliesAreTyped, PublisherReplies DEF TypeOK
<1>9. CASE QuerySubscriber
  BY <1>9, RepliesAreTyped, SubscriberReplies DEF TypeOK
<1>10. CASE Conclude
  BY <1>1, <1>10, EvaluateType DEF Conclude, Goto, TypeOK, Labels
<1>11. CASE UNCHANGED vars
  BY <1>11 DEF vars, TypeOK
<1> QED
  BY <1>2, <1>3, <1>4, <1>5, <1>6, <1>7, <1>8, <1>9, <1>10, <1>11 DEF Next

-----------------------------------------------------------------------------
(***************************************************************************)
(* What each reading shows.                                                 *)
(***************************************************************************)
\* A part of the picture that stays as it was is judged as it was.
LEMMA EvaluateFrame ==
  ASSUME NEW p, NEW q, NEW c \in Codes
  PROVE  /\ /\ c = "engine-unreachable" /\ q.healthy = p.healthy
            => Evaluate(q)[c] = Evaluate(p)[c] /\ (Unasked(p, c) => Unasked(q, c))
         /\ /\ c \in EngineCodes /\ q.status = p.status
            /\ c = "clone-capacity" => q.capacity = p.capacity
            /\ c = "data-stale" => q.snapAge = p.snapAge
            => Evaluate(q)[c] = Evaluate(p)[c] /\ (Unasked(p, c) => Unasked(q, c))
         /\ /\ c \in PublisherCodes \cup {"replication-publisher"}
            /\ q.publisher = p.publisher
            => Evaluate(q)[c] = Evaluate(p)[c] /\ (Unasked(p, c) => Unasked(q, c))
         /\ /\ c \in SubscriberCodes \cup {"replication-subscriber"}
            /\ q.subscriber = p.subscriber
            => Evaluate(q)[c] = Evaluate(p)[c] /\ (Unasked(p, c) => Unasked(q, c))
PROOF
<1>1. ASSUME c = "engine-unreachable", q.healthy = p.healthy
      PROVE  Evaluate(q)[c] = Evaluate(p)[c] /\ (Unasked(p, c) => Unasked(q, c))
  BY <1>1, EvaluateAt DEF Unasked, EngineCodes, PublisherCodes, SubscriberCodes
<1>2. ASSUME c \in EngineCodes, q.status = p.status,
             c = "clone-capacity" => q.capacity = p.capacity,
             c = "data-stale" => q.snapAge = p.snapAge
      PROVE  Evaluate(q)[c] = Evaluate(p)[c] /\ (Unasked(p, c) => Unasked(q, c))
  <2>1. EngineRules(q)[c] = EngineRules(p)[c]
    BY <1>2 DEF EngineRules, EngineCodes
  <2>2. Unasked(p, c) => Unasked(q, c)
    BY <1>2 DEF Unasked, EngineCodes, PublisherCodes, SubscriberCodes
  <2> QED
    BY <1>2, <2>1, <2>2, EvaluateAt
<1>3. ASSUME c \in PublisherCodes \cup {"replication-publisher"}, q.publisher = p.publisher
      PROVE  Evaluate(q)[c] = Evaluate(p)[c] /\ (Unasked(p, c) => Unasked(q, c))
  <2>1. Read(q, "publisher") <=> Read(p, "publisher")
    BY <1>3 DEF Read
  <2>2. Unasked(p, c) => Unasked(q, c)
    BY <1>3, <2>1 DEF Unasked, EngineCodes, PublisherCodes, SubscriberCodes
  <2>3. CASE c \in PublisherCodes
    <3>1. \A x \in {p, q} : Evaluate(x)[c] =
            IF Read(x, "publisher") THEN SlotRules(x.publisher.slots)[c] ELSE 0
      BY <2>3, EvaluateAt, Zenon
    <3> QED
      BY <1>3, <2>1, <2>2, <3>1
  <2>4. CASE c = "replication-publisher"
    <3>1. \A x \in {p, q} : Evaluate(x)[c] = Severity(x.publisher = Down, 2)
      BY <2>4, EvaluateAt
    <3> QED
      BY <1>3, <2>2, <3>1
  <2> QED
    BY <1>3, <2>3, <2>4
<1>4. ASSUME c \in SubscriberCodes \cup {"replication-subscriber"}, q.subscriber = p.subscriber
      PROVE  Evaluate(q)[c] = Evaluate(p)[c] /\ (Unasked(p, c) => Unasked(q, c))
  <2>1. Read(q, "subscriber") <=> Read(p, "subscriber")
    BY <1>4 DEF Read
  <2>2. Unasked(p, c) => Unasked(q, c)
    BY <1>4, <2>1 DEF Unasked, EngineCodes, PublisherCodes, SubscriberCodes
  <2>3. CASE c \in SubscriberCodes
    <3>1. \A x \in {p, q} : Evaluate(x)[c] =
            IF Read(x, "subscriber") THEN SubscriptionRules(x.subscriber)[c] ELSE 0
      BY <2>3, EvaluateAt, Zenon
    <3> QED
      BY <1>4, <2>1, <2>2, <3>1
  <2>4. CASE c = "replication-subscriber"
    <3>1. \A x \in {p, q} : Evaluate(x)[c] = Severity(x.subscriber = Down, 2)
      BY <2>4, EvaluateAt
    <3> QED
      BY <1>4, <2>2, <3>1
  <2> QED
    BY <1>4, <2>3, <2>4
<1> QED
  BY <1>1, <1>2, <1>3, <1>4

LEMMA HealthzShows ==
  ASSUME TypeOK, ReadInOrder, Healthz, NEW c \in Codes \ {"schema-drift"}
  PROVE  Shows(c)
PROOF
<1>1. picture \in Pictures /\ world \in Worlds /\ ever \in Severities /\ ~picture.healthy
  BY DEF TypeOK, ReadInOrder, Healthz
<1>2. \/ world.healthy /\ picture' = [picture EXCEPT !.healthy = TRUE]
      \/ ~world.healthy /\ picture' = picture
      \/ picture' = picture /\ ever' = [ever EXCEPT !["engine-unreachable"] = 2]
  BY CheckupConstantsOK DEF Healthz, Call, Trouble, Codes, Reachability
<1>3. CASE c = "engine-unreachable"
  <2>1. Evaluate(picture')[c] = Severity(~picture'.healthy, 2)
    BY <1>3, EvaluateAt
  <2>2. Matter(world)[c] = Severity(~world.healthy, 2)
    BY <1>1, <1>3, MatterAt
  <2>3. ever' = [ever EXCEPT !["engine-unreachable"] = 2] => ever'[c] = 2
    BY <1>1, <1>3 DEF Severities
  <2>4. picture' = [picture EXCEPT !.healthy = TRUE] => picture'.healthy
    BY <1>1 DEF Pictures
  <2> QED
    BY <1>1, <1>2, <2>1, <2>2, <2>3, <2>4 DEF Shows, Severity
<1>4. CASE c # "engine-unreachable"
  <2>1. /\ picture'.status = picture.status /\ picture'.capacity = picture.capacity
        /\ picture'.snapAge = picture.snapAge /\ picture'.publisher = picture.publisher
        /\ picture'.subscriber = picture.subscriber
    BY <1>1, <1>2 DEF Pictures
  <2>2. Evaluate(picture')[c] = Evaluate(picture)[c] /\ (Unasked(picture, c) => Unasked(picture', c))
    BY <1>4, <2>1, EvaluateFrame, CodeParts DEF Reachability
  <2> QED
    BY <1>4, <2>2 DEF Shows
<1> QED
  BY <1>3, <1>4

LEMMA StatusShows ==
  ASSUME TypeOK, ReadInOrder, Status, NEW c \in Codes \ {"schema-drift"}
  PROVE  Shows(c)
PROOF
<1> DEFINE s == [alerts |-> world.alerts, disk |-> world.disk, clones |-> world.clones,
                 dumpAge |-> world.dumpAge]
           answer == [picture EXCEPT !.status = s]
<1>1. /\ picture \in Pictures /\ world \in Worlds /\ ever \in Severities
      /\ pc = "status" /\ picture.snapAge = None
  BY DEF TypeOK, ReadInOrder, Status
<1>2. picture' = answer \/ picture' = picture
  <2>1. Call(world.healthy, None, answer)
    BY DEF Status
  <2> QED
    BY <1>1, <2>1, CallHasAnAnswerOrNone
<1>3. /\ answer.status = s /\ answer.healthy = picture.healthy
      /\ answer.capacity = picture.capacity /\ answer.snapAge = None
      /\ answer.publisher = picture.publisher /\ answer.subscriber = picture.subscriber
  BY <1>1 DEF Pictures
<1> HIDE DEF answer
<1>4. CASE picture' = picture
  BY <1>1, <1>4 DEF Shows
<1>5. CASE picture' = answer /\ c \notin EngineCodes
  <2>1. /\ picture'.healthy = picture.healthy /\ picture'.publisher = picture.publisher
        /\ picture'.subscriber = picture.subscriber
    BY <1>3, <1>5
  <2>2. Evaluate(picture')[c] = Evaluate(picture)[c] /\ (Unasked(picture, c) => Unasked(picture', c))
    BY <1>5, <2>1, EvaluateFrame, CodeParts DEF Reachability
  <2> QED
    BY <1>1, <2>2 DEF Shows
<1>6. CASE picture' = answer /\ c \in EngineCodes
  <2>1. Evaluate(picture')[c] = EngineRules(picture')[c] /\ Matter(world)[c] = OfEngine(world, c)
    BY <1>1, <1>6, EvaluateAt, MatterAt
  <2>2. CASE s = None
    <3>1. EngineRules(picture')[c] = 0 /\ Unasked(picture', c)
      BY <1>3, <1>6, <2>2 DEF EngineRules, Unasked
    <3> QED
      BY <2>1, <3>1 DEF Shows
  <2>3. CASE s # None /\ c \in {"sync-alerts", "disk-usage"}
    <3>1. EngineRules(picture')[c] = OfEngine(world, c)
      BY <1>3, <1>6, <2>3 DEF EngineRules, OfEngine, EngineCodes
    <3> QED
      BY <2>1, <3>1 DEF Shows
  <2>4. CASE s # None /\ c = "data-stale"
    <3>1. CASE Streaming
      <4>1. EngineRules(picture')[c] = 0 /\ Unasked(picture', c)
        BY <1>3, <1>6, <2>4, <3>1 DEF EngineRules, EngineCodes, Unasked, Severity
      <4> QED
        BY <2>1, <4>1 DEF Shows
    <3>2. CASE ~Streaming
      <4>1. EngineRules(picture')[c] = OfEngine(world, c)
        BY <1>3, <1>6, <2>4, <3>2 DEF EngineRules, OfEngine, EngineCodes
      <4> QED
        BY <2>1, <4>1 DEF Shows
    <3> QED
      BY <3>1, <3>2
  <2>5. CASE s # None /\ c = "clone-capacity"
    <3>1. CASE picture.capacity
      <4>0. s.clones = world.clones
        OBVIOUS
      <4> HIDE DEF s
      <4>1. /\ picture'.status # None /\ picture'.capacity
            /\ picture'.status.clones = world.clones
        BY <1>3, <1>6, <2>5, <3>1, <4>0
      <4>2. EngineRules(picture')[c] = CapacitySeverity(world.clones)
        BY <2>5, <4>1 DEF EngineRules, EngineCodes
      <4>3. OfEngine(world, c) = CapacitySeverity(world.clones)
        BY <2>5 DEF OfEngine
      <4> QED
        BY <2>1, <4>2, <4>3 DEF Shows
    <3>2. CASE ~picture.capacity
      <4>1. EngineRules(picture')[c] = 0 /\ Unasked(picture', c)
        BY <1>3, <1>6, <2>5, <3>2 DEF EngineRules, EngineCodes, Unasked
      <4> QED
        BY <2>1, <4>1 DEF Shows
    <3> QED
      BY <3>1, <3>2
  <2> QED
    BY <1>6, <2>2, <2>3, <2>4, <2>5 DEF EngineCodes
<1> QED
  BY <1>2, <1>4, <1>5, <1>6

LEMMA CapacityShows ==
  ASSUME TypeOK, ClonePortCapacity, NEW c \in Codes \ {"schema-drift"}
  PROVE  Shows(c)
PROOF
<1> DEFINE answer == [picture EXCEPT !.capacity = TRUE]
<1>1. picture \in Pictures /\ world \in Worlds /\ ever \in Severities /\ pc = "capacity"
  BY DEF TypeOK, ClonePortCapacity
<1>2. picture' = answer \/ picture' = picture
  <2>1. Call(TRUE, None, answer)
    BY DEF ClonePortCapacity
  <2> QED
    BY <1>1, <2>1, CallHasAnAnswerOrNone
<1>3. /\ answer.status = picture.status /\ answer.healthy = picture.healthy
      /\ answer.capacity /\ answer.snapAge = picture.snapAge
      /\ answer.publisher = picture.publisher /\ answer.subscriber = picture.subscriber
  BY <1>1 DEF Pictures
<1> HIDE DEF answer
<1>4. CASE picture' = picture
  BY <1>1, <1>4 DEF Shows
<1>5. CASE picture' = answer /\ c # "clone-capacity"
  <2>1. /\ picture'.healthy = picture.healthy /\ picture'.publisher = picture.publisher
        /\ picture'.subscriber = picture.subscriber /\ picture'.status = picture.status
        /\ picture'.snapAge = picture.snapAge
    BY <1>3, <1>5
  <2>2. Evaluate(picture')[c] = Evaluate(picture)[c] /\ (Unasked(picture, c) => Unasked(picture', c))
    BY <1>5, <2>1, EvaluateFrame, CodeParts DEF Reachability
  <2> QED
    BY <1>1, <2>2 DEF Shows
<1>6. CASE picture' = answer /\ c = "clone-capacity"
  <2>1. Evaluate(picture')[c] = EngineRules(picture')[c]
    BY <1>6, EvaluateAt DEF EngineCodes
  <2>2. CASE picture.status = None
    <3>1. EngineRules(picture')[c] = 0 /\ Unasked(picture', c)
      BY <1>3, <1>6, <2>2 DEF EngineRules, EngineCodes, Unasked
    <3> QED
      BY <2>1, <3>1 DEF Shows
  <2>3. CASE picture.status # None
    <3>1. EngineRules(picture')[c] = CapacitySeverity(picture.status.clones)
      BY <1>3, <1>6, <2>3 DEF EngineRules, EngineCodes
    <3> QED
      BY <1>6, <2>1, <2>3, <3>1 DEF Shows
  <2> QED
    BY <2>2, <2>3
<1> QED
  BY <1>2, <1>4, <1>5, <1>6

LEMMA SnapshotsShow ==
  ASSUME TypeOK, ListSnapshots, NEW c \in Codes \ {"schema-drift"}
  PROVE  Shows(c)
PROOF
<1> DEFINE answer == [picture EXCEPT !.snapAge = world.snapAge]
<1>1. picture \in Pictures /\ world \in Worlds /\ ever \in Severities /\ pc = "snapshots"
  BY DEF TypeOK, ListSnapshots
<1>2. picture' = answer \/ picture' = picture
  <2>1. Call(world.healthy, None, answer)
    BY DEF ListSnapshots
  <2> QED
    BY <1>1, <2>1, CallHasAnAnswerOrNone
<1>3. /\ answer.status = picture.status /\ answer.healthy = picture.healthy
      /\ answer.capacity = picture.capacity /\ answer.snapAge = world.snapAge
      /\ answer.publisher = picture.publisher /\ answer.subscriber = picture.subscriber
  BY <1>1 DEF Pictures
<1> HIDE DEF answer
<1>4. CASE picture' = picture
  BY <1>1, <1>4 DEF Shows
<1>5. CASE picture' = answer /\ c # "data-stale"
  <2>1. /\ picture'.healthy = picture.healthy /\ picture'.publisher = picture.publisher
        /\ picture'.subscriber = picture.subscriber /\ picture'.status = picture.status
        /\ picture'.capacity = picture.capacity
    BY <1>3, <1>5
  <2>2. Evaluate(picture')[c] = Evaluate(picture)[c] /\ (Unasked(picture, c) => Unasked(picture', c))
    BY <1>5, <2>1, EvaluateFrame, CodeParts DEF Reachability
  <2> QED
    BY <1>1, <2>2 DEF Shows
<1>6. CASE picture' = answer /\ c = "data-stale"
  <2>1. /\ Evaluate(picture')[c] = EngineRules(picture')[c]
        /\ Evaluate(picture)[c] = EngineRules(picture)[c]
        /\ Matter(world)[c] = OfEngine(world, c)
    BY <1>1, <1>6, EvaluateAt, MatterAt DEF EngineCodes
  <2>2. CASE picture.status = None
    <3>1. EngineRules(picture')[c] = 0 /\ Unasked(picture', c)
      BY <1>3, <1>6, <2>2 DEF EngineRules, EngineCodes, Unasked
    <3> QED
      BY <2>1, <3>1 DEF Shows
  <2>3. CASE picture.status # None /\ Streaming
    <3>1. EngineRules(picture')[c] = OfEngine(world, c)
      BY <1>3, <1>6, <2>3 DEF EngineRules, OfEngine, EngineCodes
    <3> QED
      BY <2>1, <3>1 DEF Shows
  <2>4. CASE picture.status # None /\ ~Streaming
    <3>1. EngineRules(picture')[c] = EngineRules(picture)[c]
      BY <1>3, <1>6, <2>4 DEF EngineRules, EngineCodes
    <3>2. Unasked(picture, c) => Unasked(picture', c)
      BY <1>3, <1>6, <2>4 DEF Unasked, EngineCodes, PublisherCodes, SubscriberCodes
    <3> QED
      BY <1>1, <2>1, <3>1, <3>2 DEF Shows
  <2> QED
    BY <2>2, <2>3, <2>4
<1> QED
  BY <1>2, <1>4, <1>5, <1>6

LEMMA PublisherShows ==
  ASSUME TypeOK, QueryPublisher, NEW c \in Codes \ {"schema-drift"}
  PROVE  Shows(c)
PROOF
<1> DEFINE read == picture.publisher
           down == [picture EXCEPT !["publisher"] = Down]
           stream == [slots |-> world.slots, schema |-> None]
           first == [picture EXCEPT !["publisher"] = stream]
           both == [picture["publisher"] EXCEPT !.schema = world.source]
           second == [picture EXCEPT !["publisher"] = both]
<1>1. picture \in Pictures /\ world \in Worlds /\ ever \in Severities /\ pc = "ends"
  BY PublisherReplies DEF TypeOK
<1>2. "publisher" \in ends
  BY PublisherReplies
<1>3. \/ picture' = down /\ (~world.publisher \/ ever' = [ever EXCEPT !["replication-publisher"] = 2])
      \/ picture' = first /\ world.publisher
      \/ picture' = second /\ world.publisher /\ read \notin {None, Down}
  BY PublisherReplies
<1>4. stream # Down
  <2>1. stream \in PublisherStatus
    BY <1>1 DEF PublisherStatus, Worlds
  <2> QED
    BY <2>1, CheckupConstantsOK
<1>5. read \notin {None, Down} => both # Down /\ both.slots = read.slots
  <2>1. SUFFICES ASSUME read \notin {None, Down} PROVE both # Down /\ both.slots = read.slots
    OBVIOUS
  <2>2. read \in PublisherStatus
    BY <1>1, <2>1 DEF Pictures
  <2>3. world.source \in Schemas
    BY <1>1 DEF Worlds
  <2>4. both \in PublisherStatus /\ both.slots = read.slots
    BY <2>2, <2>3 DEF PublisherStatus
  <2> QED
    BY <2>4, CheckupConstantsOK
<1>6. /\ down.publisher = Down /\ first.publisher = stream /\ second.publisher = both
      /\ \A q \in {down, first, second} :
           /\ q.healthy = picture.healthy /\ q.status = picture.status
           /\ q.capacity = picture.capacity /\ q.snapAge = picture.snapAge
           /\ q.subscriber = picture.subscriber
  BY <1>1 DEF Pictures
<1> HIDE DEF down, first, second, both
<1>7. picture' \in {down, first, second}
  BY <1>3
<1>8. CASE c \notin PublisherCodes \cup {"replication-publisher"}
  <2>1. /\ picture'.healthy = picture.healthy /\ picture'.status = picture.status
        /\ picture'.capacity = picture.capacity /\ picture'.snapAge = picture.snapAge
        /\ picture'.subscriber = picture.subscriber
    BY <1>6, <1>7
  <2>2. Evaluate(picture')[c] = Evaluate(picture)[c] /\ (Unasked(picture, c) => Unasked(picture', c))
    BY <1>8, <2>1, EvaluateFrame, CodeParts DEF Reachability
  <2> QED
    BY <1>1, <2>2 DEF Shows
<1>9. CASE c = "replication-publisher"
  <2>1. /\ Evaluate(picture')[c] = Severity(picture'.publisher = Down, 2)
        /\ Matter(world)[c] = Severity(~world.publisher, 2)
    BY <1>1, <1>2, <1>9, EvaluateAt, MatterAt
  <2>2. CASE picture' = down
    <3>1. Evaluate(picture')[c] = 2
      BY <1>6, <2>1, <2>2 DEF Severity
    <3>2. ~world.publisher => Matter(world)[c] = 2
      BY <2>1 DEF Severity
    <3>3. ever' = [ever EXCEPT !["replication-publisher"] = 2] => ever'[c] = 2
      BY <1>1, <1>9 DEF Severities
    <3>4. world.publisher => ever' = [ever EXCEPT !["replication-publisher"] = 2]
      <4>1. picture'.publisher = Down
        BY <1>6, <2>2
      <4>2. picture' # first
        BY <1>4, <1>6, <4>1
      <4>3. ~(picture' = second /\ read \notin {None, Down})
        BY <1>5, <1>6, <4>1
      <4> QED
        BY <1>3, <4>2, <4>3
    <3> QED
      BY <3>1, <3>2, <3>3, <3>4 DEF Shows
  <2>3. CASE picture'.publisher # Down
    <3>1. world.publisher
      BY <1>3, <1>6, <2>3
    <3> QED
      BY <2>1, <2>3, <3>1 DEF Shows, Severity
  <2> QED
    BY <1>3, <1>4, <1>5, <1>6, <2>2, <2>3
<1>10. CASE c \in PublisherCodes
  <2>1. Evaluate(picture')[c] = IF Read(picture', "publisher")
                                THEN SlotRules(picture'.publisher.slots)[c] ELSE 0
    BY <1>10, EvaluateAt
  <2>2. CASE ~Read(picture', "publisher")
    BY <1>10, <2>1, <2>2 DEF Shows, Unasked
  <2>3. CASE Read(picture', "publisher") /\ picture' = first
    <3>1. Matter(world)[c] = SlotRules(world.slots)[c]
      BY <1>1, <1>2, <1>10, MatterAt
    <3>2. Evaluate(picture')[c] = SlotRules(world.slots)[c]
      BY <1>1, <1>6, <1>10, <2>1, <2>3
    <3> QED
      BY <3>1, <3>2 DEF Shows
  <2>4. CASE Read(picture', "publisher") /\ picture' = second /\ read \notin {None, Down}
    <3>1. Read(picture, "publisher")
      BY <2>4 DEF Read
    <3>2. Evaluate(picture)[c] = SlotRules(picture.publisher.slots)[c]
      BY <1>10, <3>1, EvaluateAt
    <3>3. SlotRules(picture'.publisher.slots)[c] = SlotRules(picture.publisher.slots)[c]
      BY <1>5, <1>6, <2>4
    <3>4. Evaluate(picture')[c] = Evaluate(picture)[c]
      BY <2>1, <2>4, <3>2, <3>3
    <3>5. ~Unasked(picture, c)
      BY <1>10, <3>1 DEF Unasked, EngineCodes, PublisherCodes, SubscriberCodes
    <3> QED
      BY <1>1, <3>4, <3>5 DEF Shows
  <2>5. picture' = down => ~Read(picture', "publisher")
    BY <1>6 DEF Read
  <2> QED
    BY <1>3, <2>2, <2>3, <2>4, <2>5
<1> QED
  BY <1>8, <1>9, <1>10


LEMMA SubscriberShows ==
  ASSUME TypeOK, QuerySubscriber, NEW c \in Codes \ {"schema-drift"}
  PROVE  Shows(c)
PROOF
<1> DEFINE read == picture.subscriber
           down == [picture EXCEPT !["subscriber"] = Down]
           stream == [subscription |-> world.subscription, errors |-> world.errors,
                      silent |-> world.silent, schema |-> None]
           first == [picture EXCEPT !["subscriber"] = stream]
           both == [picture["subscriber"] EXCEPT !.schema = world.target]
           second == [picture EXCEPT !["subscriber"] = both]
<1>1. picture \in Pictures /\ world \in Worlds /\ ever \in Severities /\ pc = "ends"
  BY SubscriberReplies DEF TypeOK
<1>2. "subscriber" \in ends
  BY SubscriberReplies
<1>3. \/ picture' = down /\ (~world.subscriber \/ ever' = [ever EXCEPT !["replication-subscriber"] = 2])
      \/ picture' = first /\ world.subscriber
      \/ picture' = second /\ world.subscriber /\ read \notin {None, Down}
  BY SubscriberReplies
<1>4. stream # Down
  <2>1. stream \in SubscriberStatus
    BY <1>1 DEF SubscriberStatus, Worlds
  <2> QED
    BY <2>1, CheckupConstantsOK
<1>5. read \notin {None, Down} => both # Down /\ both.subscription = read.subscription
               /\ both.errors = read.errors /\ both.silent = read.silent
  <2>1. SUFFICES ASSUME read \notin {None, Down} PROVE both # Down /\ both.subscription = read.subscription
               /\ both.errors = read.errors /\ both.silent = read.silent
    OBVIOUS
  <2>2. read \in SubscriberStatus
    BY <1>1, <2>1 DEF Pictures
  <2>3. world.target \in Schemas
    BY <1>1 DEF Worlds
  <2>4. both \in SubscriberStatus /\ both.subscription = read.subscription
               /\ both.errors = read.errors /\ both.silent = read.silent
    BY <2>2, <2>3 DEF SubscriberStatus
  <2> QED
    BY <2>4, CheckupConstantsOK
<1>6. /\ down.subscriber = Down /\ first.subscriber = stream /\ second.subscriber = both
      /\ \A q \in {down, first, second} :
           /\ q.healthy = picture.healthy /\ q.status = picture.status
           /\ q.capacity = picture.capacity /\ q.snapAge = picture.snapAge
           /\ q.publisher = picture.publisher
  BY <1>1 DEF Pictures
<1> HIDE DEF down, first, second, both
<1>7. picture' \in {down, first, second}
  BY <1>3
<1>8. CASE c \notin SubscriberCodes \cup {"replication-subscriber"}
  <2>1. /\ picture'.healthy = picture.healthy /\ picture'.status = picture.status
        /\ picture'.capacity = picture.capacity /\ picture'.snapAge = picture.snapAge
        /\ picture'.publisher = picture.publisher
    BY <1>6, <1>7
  <2>2. Evaluate(picture')[c] = Evaluate(picture)[c] /\ (Unasked(picture, c) => Unasked(picture', c))
    BY <1>8, <2>1, EvaluateFrame, CodeParts DEF Reachability
  <2> QED
    BY <1>1, <2>2 DEF Shows
<1>9. CASE c = "replication-subscriber"
  <2>1. /\ Evaluate(picture')[c] = Severity(picture'.subscriber = Down, 2)
        /\ Matter(world)[c] = Severity(~world.subscriber, 2)
    BY <1>1, <1>2, <1>9, EvaluateAt, MatterAt
  <2>2. CASE picture' = down
    <3>1. Evaluate(picture')[c] = 2
      BY <1>6, <2>1, <2>2 DEF Severity
    <3>2. ~world.subscriber => Matter(world)[c] = 2
      BY <2>1 DEF Severity
    <3>3. ever' = [ever EXCEPT !["replication-subscriber"] = 2] => ever'[c] = 2
      BY <1>1, <1>9 DEF Severities
    <3>4. world.subscriber => ever' = [ever EXCEPT !["replication-subscriber"] = 2]
      <4>1. picture'.subscriber = Down
        BY <1>6, <2>2
      <4>2. picture' # first
        BY <1>4, <1>6, <4>1
      <4>3. ~(picture' = second /\ read \notin {None, Down})
        BY <1>5, <1>6, <4>1
      <4> QED
        BY <1>3, <4>2, <4>3
    <3> QED
      BY <3>1, <3>2, <3>3, <3>4 DEF Shows
  <2>3. CASE picture'.subscriber # Down
    <3>1. world.subscriber
      BY <1>3, <1>6, <2>3
    <3> QED
      BY <2>1, <2>3, <3>1 DEF Shows, Severity
  <2> QED
    BY <1>3, <1>4, <1>5, <1>6, <2>2, <2>3
<1>10. CASE c \in SubscriberCodes
  <2>1. Evaluate(picture')[c] = IF Read(picture', "subscriber")
                                THEN SubscriptionRules(picture'.subscriber)[c] ELSE 0
    BY <1>10, EvaluateAt
  <2>2. CASE ~Read(picture', "subscriber")
    BY <1>10, <2>1, <2>2 DEF Shows, Unasked
  <2>3. CASE Read(picture', "subscriber") /\ picture' = first
    <3>1. Matter(world)[c] = OfSubscriber(world, c)
      BY <1>1, <1>2, <1>10, MatterAt
    <3>2. Evaluate(picture')[c] = OfSubscriber(world, c)
      BY <1>1, <1>6, <1>10, <2>1, <2>3, SubscriptionRulesMatch
    <3> QED
      BY <3>1, <3>2 DEF Shows
  <2>4. CASE Read(picture', "subscriber") /\ picture' = second /\ read \notin {None, Down}
    <3>1. Read(picture, "subscriber")
      BY <2>4 DEF Read
    <3>2. Evaluate(picture)[c] = SubscriptionRules(picture.subscriber)[c]
      BY <1>10, <3>1, EvaluateAt
    <3>3. SubscriptionRules(picture'.subscriber)[c] = SubscriptionRules(picture.subscriber)[c]
      <4>1. /\ picture'.subscriber.subscription = picture.subscriber.subscription
            /\ picture'.subscriber.errors = picture.subscriber.errors
            /\ picture'.subscriber.silent = picture.subscriber.silent
        BY <1>5, <1>6, <2>4
      <4> QED
        BY <4>1 DEF SubscriptionRules
    <3>4. Evaluate(picture')[c] = Evaluate(picture)[c]
      BY <2>1, <2>4, <3>2, <3>3
    <3>5. ~Unasked(picture, c)
      BY <1>10, <3>1 DEF Unasked, EngineCodes, PublisherCodes, SubscriberCodes
    <3> QED
      BY <1>1, <3>4, <3>5 DEF Shows
  <2>5. picture' = down => ~Read(picture', "subscriber")
    BY <1>6 DEF Read
  <2> QED
    BY <1>3, <2>2, <2>3, <2>4, <2>5
<1> QED
  BY <1>8, <1>9, <1>10

-----------------------------------------------------------------------------
(***************************************************************************)
(* The invariants.                                                          *)
(***************************************************************************)
Reading ==
  \/ Healthz \/ Status \/ ClonePortCapacity \/ ListSnapshots
  \/ QueryPublisher \/ QuerySubscriber

\* A reading changes nothing but the picture, and forgets nothing.
LEMMA ReadingFrame ==
  ASSUME TypeOK, Reading
  PROVE  /\ UNCHANGED <<ends, world, found, held>>
         /\ Busy /\ Busy' /\ pc' # "healthz"
         /\ ever' \in Severities /\ \A c \in Codes : ever[c] <= ever'[c]
PROOF
<1>1. ever \in Severities
  BY DEF TypeOK
<1>2. CASE Healthz
  <2>1. "engine-unreachable" \in Codes
    BY DEF Codes, Reachability
  <2>2. ever' \in Severities /\ \A c \in Codes : ever[c] <= ever'[c]
    BY <1>1, <1>2, <2>1, CallHasAnAnswerOrNone DEF Healthz
  <2> QED
    BY <1>2, <2>2 DEF Healthz, Goto, Busy
<1>3. CASE Status
  <2>1. ever' \in Severities /\ \A c \in Codes : ever[c] <= ever'[c]
    BY <1>1, <1>3, CallHasAnAnswerOrNone DEF Status
  <2> QED
    BY <1>3, <2>1 DEF Status, Goto, Busy
<1>4. CASE ClonePortCapacity
  <2>1. ever' \in Severities /\ \A c \in Codes : ever[c] <= ever'[c]
    BY <1>1, <1>4, CallHasAnAnswerOrNone DEF ClonePortCapacity
  <2> QED
    BY <1>4, <2>1 DEF ClonePortCapacity, Goto, Busy
<1>5. CASE ListSnapshots
  <2>1. ever' \in Severities /\ \A c \in Codes : ever[c] <= ever'[c]
    BY <1>1, <1>5, CallHasAnAnswerOrNone DEF ListSnapshots
  <2> QED
    BY <1>5, <2>1 DEF ListSnapshots, Goto, Busy
<1>6. CASE QueryPublisher
  <2>1. ever' = ever \/ ever' = [ever EXCEPT !["replication-publisher"] = 2]
    BY <1>6, PublisherReplies
  <2>2. ever' \in Severities /\ \A c \in Codes : ever[c] <= ever'[c]
    BY <1>1, <2>1 DEF Severities
  <2> QED
    BY <1>6, <2>2, PublisherReplies DEF Busy
<1>7. CASE QuerySubscriber
  <2>1. ever' = ever \/ ever' = [ever EXCEPT !["replication-subscriber"] = 2]
    BY <1>7, SubscriberReplies
  <2>2. ever' \in Severities /\ \A c \in Codes : ever[c] <= ever'[c]
    BY <1>1, <2>1 DEF Severities
  <2> QED
    BY <1>7, <2>2, SubscriberReplies DEF Busy
<1> QED
  BY <1>2, <1>3, <1>4, <1>5, <1>6, <1>7 DEF Reading

LEMMA ReadingShows ==
  ASSUME TypeOK, ReadInOrder, Reading, NEW c \in Codes \ {"schema-drift"}
  PROVE  Shows(c)
BY HealthzShows, StatusShows, CapacityShows, SnapshotsShow, PublisherShows, SubscriberShows
   DEF Reading

\* The status stays, or is the one of now; a call to an end leaves it.
LEMMA ReadingOfStatus ==
  ASSUME TypeOK, Reading
  PROVE  picture'.status = picture.status \/ picture'.status.clones = world.clones
PROOF
<1>1. picture \in Pictures /\ ever \in Severities
  BY DEF TypeOK
<1>2. CASE Healthz
  <2>1. picture' = [picture EXCEPT !.healthy = TRUE] \/ picture' = picture
    BY <1>2 DEF Healthz, Call
  <2> QED
    BY <1>1, <2>1 DEF Pictures
<1>3. CASE Status
  <2> DEFINE s == [alerts |-> world.alerts, disk |-> world.disk, clones |-> world.clones,
                   dumpAge |-> world.dumpAge]
  <2>1. picture' = [picture EXCEPT !.status = s] \/ picture' = picture
    BY <1>3 DEF Status, Call
  <2>2. s.clones = world.clones
    OBVIOUS
  <2> HIDE DEF s
  <2> QED
    BY <1>1, <2>1, <2>2 DEF Pictures
<1>4. CASE ClonePortCapacity
  <2>1. picture' = [picture EXCEPT !.capacity = TRUE] \/ picture' = picture
    BY <1>4 DEF ClonePortCapacity, Call
  <2> QED
    BY <1>1, <2>1 DEF Pictures
<1>5. CASE ListSnapshots
  <2>1. picture' = [picture EXCEPT !.snapAge = world.snapAge] \/ picture' = picture
    BY <1>5 DEF ListSnapshots, Call
  <2> QED
    BY <1>1, <2>1 DEF Pictures
<1>6. CASE QueryPublisher
  BY <1>1, <1>6, PublisherReplies DEF Pictures
<1>7. CASE QuerySubscriber
  BY <1>1, <1>7, SubscriberReplies DEF Pictures
<1> QED
  BY <1>2, <1>3, <1>4, <1>5, <1>6, <1>7 DEF Reading

\* The schemas read stay, or are the ones of now.
LEMMA ReadingOfSchemas ==
  ASSUME TypeOK, Reading, SchemasStand
  PROVE  SchemasStand'
PROOF
<1>1. picture \in Pictures /\ world' = world
  BY ReadingFrame DEF TypeOK
<1>2. CASE picture'.publisher = picture.publisher /\ picture'.subscriber = picture.subscriber
  BY <1>1, <1>2 DEF SchemasStand, Read
<1>3. CASE Healthz
  <2>1. picture' = [picture EXCEPT !.healthy = TRUE] \/ picture' = picture
    BY <1>3 DEF Healthz, Call
  <2> QED
    BY <1>1, <1>2, <2>1 DEF Pictures
<1>4. CASE Status
  <2> DEFINE s == [alerts |-> world.alerts, disk |-> world.disk, clones |-> world.clones,
                   dumpAge |-> world.dumpAge]
  <2>1. picture' = [picture EXCEPT !.status = s] \/ picture' = picture
    BY <1>4 DEF Status, Call
  <2> HIDE DEF s
  <2> QED
    BY <1>1, <1>2, <2>1 DEF Pictures
<1>5. CASE ClonePortCapacity
  <2>1. picture' = [picture EXCEPT !.capacity = TRUE] \/ picture' = picture
    BY <1>5 DEF ClonePortCapacity, Call
  <2> QED
    BY <1>1, <1>2, <2>1 DEF Pictures
<1>6. CASE ListSnapshots
  <2>1. picture' = [picture EXCEPT !.snapAge = world.snapAge] \/ picture' = picture
    BY <1>6 DEF ListSnapshots, Call
  <2> QED
    BY <1>1, <1>2, <2>1 DEF Pictures
<1>7. CASE QueryPublisher
  <2>1. picture'.subscriber = picture.subscriber
    BY <1>1, <1>7, PublisherReplies DEF Pictures
  <2>2. picture'.publisher # Down => picture'.publisher.schema \in {None, world.source}
    <3> DEFINE both == [picture["publisher"] EXCEPT !.schema = world.source]
    <3>1. ASSUME picture.publisher \notin {None, Down} PROVE both.schema = world.source
      BY <1>1, <3>1 DEF Pictures, PublisherStatus
    <3>2. \/ picture'.publisher = Down
          \/ picture'.publisher = [slots |-> world.slots, schema |-> None]
          \/ picture'.publisher = both /\ picture.publisher \notin {None, Down}
      BY <1>1, <1>7, PublisherReplies DEF Pictures
    <3> HIDE DEF both
    <3> QED
      BY <3>1, <3>2
  <2> QED
    BY <1>1, <2>1, <2>2 DEF SchemasStand, Read
<1>8. CASE QuerySubscriber
  <2>1. picture'.publisher = picture.publisher
    BY <1>1, <1>8, SubscriberReplies DEF Pictures
  <2>2. picture'.subscriber # Down => picture'.subscriber.schema \in {None, world.target}
    <3> DEFINE both == [picture["subscriber"] EXCEPT !.schema = world.target]
               stream == [subscription |-> world.subscription, errors |-> world.errors,
                          silent |-> world.silent, schema |-> None]
    <3>1. ASSUME picture.subscriber \notin {None, Down} PROVE both.schema = world.target
      BY <1>1, <3>1 DEF Pictures, SubscriberStatus
    <3>2. \/ picture'.subscriber = Down
          \/ picture'.subscriber = stream
          \/ picture'.subscriber = both /\ picture.subscriber \notin {None, Down}
      BY <1>1, <1>8, SubscriberReplies DEF Pictures
    <3>3. stream.schema = None
      OBVIOUS
    <3> HIDE DEF both, stream
    <3> QED
      BY <3>1, <3>2, <3>3
  <2> QED
    BY <1>1, <2>1, <2>2 DEF SchemasStand, Read
<1> QED
  BY <1>3, <1>4, <1>5, <1>6, <1>7, <1>8 DEF Reading

LEMMA OrderStep == TypeOK /\ ReadInOrder /\ [Next]_vars => ReadInOrder'
PROOF
<1> SUFFICES ASSUME TypeOK, ReadInOrder, [Next]_vars PROVE ReadInOrder'
  OBVIOUS
<1>1. picture \in Pictures
  BY DEF TypeOK
<1>2. ASSUME NEW f \in DOMAIN Fields, Change(f) PROVE ReadInOrder'
  BY <1>2 DEF Change, ReadInOrder
<1>3. CASE Begin
  BY <1>3 DEF Begin, Goto, Unread, ReadInOrder
<1>4. CASE Healthz
  <2>1. picture' = [picture EXCEPT !.healthy = TRUE] \/ picture' = picture
    BY <1>4 DEF Healthz, Call
  <2>2. picture.snapAge = None
    BY <1>4 DEF Healthz, ReadInOrder
  <2>3. picture'.snapAge = None
    BY <1>1, <2>1, <2>2 DEF Pictures
  <2>4. pc' # "healthz"
    BY <1>4 DEF Healthz, Goto
  <2> QED
    BY <2>3, <2>4 DEF ReadInOrder
<1>5. CASE Status \/ ClonePortCapacity \/ ListSnapshots
  BY <1>5 DEF Status, ClonePortCapacity, ListSnapshots, Goto, ReadInOrder
<1>6. CASE QueryPublisher \/ QuerySubscriber
  <2>1. pc' = "ends"
    BY <1>6, PublisherReplies, SubscriberReplies
  <2> QED
    BY <2>1 DEF ReadInOrder
<1>7. CASE Conclude
  BY <1>7 DEF Conclude, Goto, ReadInOrder
<1>8. CASE UNCHANGED vars
  BY <1>8 DEF vars, ReadInOrder
<1> QED
  BY <1>2, <1>3, <1>4, <1>5, <1>6, <1>7, <1>8 DEF Next

\* Before anything is read, there is nothing to find but that.
LEMMA NothingRead ==
  /\ \A c \in Codes \ {"schema-drift", "engine-unreachable"} :
       Evaluate(Unread)[c] = 0 /\ Unasked(Unread, c)
  /\ Evaluate(Unread)["engine-unreachable"] = 2
PROOF
<1>1. ASSUME NEW c \in EngineCodes PROVE Evaluate(Unread)[c] = 0 /\ Unasked(Unread, c)
  BY EvaluateAt DEF Unread, EngineRules, Unasked
<1>2. ASSUME NEW c \in PublisherCodes \cup {"replication-publisher"}
      PROVE  Evaluate(Unread)[c] = 0 /\ Unasked(Unread, c)
  <2>1. ~Read(Unread, "publisher") /\ Unread.publisher # Down
    BY CheckupConstantsOK DEF Unread, Read
  <2> QED
    BY <2>1, EvaluateAt DEF Unasked, Severity
<1>3. ASSUME NEW c \in SubscriberCodes \cup {"replication-subscriber"}
      PROVE  Evaluate(Unread)[c] = 0 /\ Unasked(Unread, c)
  <2>1. ~Read(Unread, "subscriber") /\ Unread.subscriber # Down
    BY CheckupConstantsOK DEF Unread, Read
  <2> QED
    BY <2>1, EvaluateAt DEF Unasked, Severity
<1>4. Evaluate(Unread)["engine-unreachable"] = 2
  BY EvaluateAt DEF Unread, Severity
<1> QED
  BY <1>1, <1>2, <1>3, <1>4 DEF Codes, Reachability

LEMMA EverStep == TypeOK /\ TypeOK' /\ ReadInOrder /\ EverInv /\ [Next]_vars => EverInv'
PROOF
<1> SUFFICES ASSUME TypeOK, TypeOK', ReadInOrder, EverInv, [Next]_vars PROVE EverInv'
  OBVIOUS
<1>1. /\ world \in Worlds /\ picture \in Pictures /\ ever \in Severities
      /\ world' \in Worlds /\ picture' \in Pictures /\ ever' \in Severities
  BY DEF TypeOK
<1>2. /\ Matter(world) \in Severities /\ Matter(world') \in Severities
      /\ Evaluate(picture) \in Severities /\ Evaluate(picture') \in Severities
  BY <1>1, MatterType, EvaluateType
<1>3. \A n : CapacitySeverity(n) \in 0 .. 2
  BY SeverityIs
<1>4. ASSUME ends' = ends,
             \A c \in Codes : Matter(world')[c] <= ever'[c],
             \A c \in Codes \ {"schema-drift"} :
               Evaluate(picture')[c] <= ever'[c] \/ (c = "engine-unreachable" /\ pc' = "healthz"),
             picture'.status # None =>
               CapacitySeverity(picture'.status.clones) <= ever'["clone-capacity"]
      PROVE  EverInv'
  BY <1>4, ConfiguredFrame DEF EverInv
<1>5. ASSUME NEW f \in DOMAIN Fields, Change(f) PROVE EverInv'
  <2>1. CASE ~Busy
    BY <1>5, <2>1, ChangeNoted DEF EverInv, Busy
  <2>2. CASE Busy
    <3>1. /\ \A c \in Codes : ever[c] <= ever'[c] /\ Matter(world')[c] <= ever'[c]
          /\ UNCHANGED <<ends, pc, picture>>
      BY <1>5, <2>2, ChangeNoted
    <3>2. \A c \in Codes \ {"schema-drift"} :
            Evaluate(picture')[c] <= ever'[c] \/ (c = "engine-unreachable" /\ pc' = "healthz")
      BY <1>1, <1>2, <2>2, <3>1 DEF EverInv, Severities
    <3>3. picture'.status # None =>
            CapacitySeverity(picture'.status.clones) <= ever'["clone-capacity"]
      BY <1>1, <1>3, <2>2, <3>1 DEF EverInv, Severities, Codes, EngineCodes
    <3> QED
      BY <1>4, <3>1, <3>2, <3>3
  <2> QED
    BY <2>1, <2>2
<1>6. CASE Begin
  <2>1. /\ ends' = ends /\ picture' = Unread /\ ever' = Matter(world) /\ world' = world
        /\ pc' = "healthz"
    BY <1>6 DEF Begin, Goto
  <2>2. \A c \in Codes : Matter(world')[c] <= ever'[c]
    BY <1>2, <2>1 DEF Severities
  <2>3. \A c \in Codes \ {"schema-drift"} :
          Evaluate(picture')[c] <= ever'[c] \/ (c = "engine-unreachable" /\ pc' = "healthz")
    BY <1>1, <2>1, NothingRead DEF Severities
  <2>4. picture'.status = None
    BY <2>1 DEF Unread
  <2> QED
    BY <1>4, <2>1, <2>2, <2>3, <2>4
<1>7. CASE Reading
  <2>1. /\ UNCHANGED <<ends, world>> /\ Busy /\ pc' # "healthz"
        /\ \A c \in Codes : ever[c] <= ever'[c]
    BY <1>7, ReadingFrame
  <2>2. /\ \A c \in Codes : Matter(world)[c] <= ever[c]
        /\ picture.status # None => CapacitySeverity(picture.status.clones) <= ever["clone-capacity"]
    BY <2>1 DEF EverInv
  <2>3. "clone-capacity" \in Codes
    BY DEF Codes, EngineCodes
  <2>4. \A c \in Codes : Matter(world')[c] <= ever'[c]
    BY <1>1, <1>2, <2>1, <2>2 DEF Severities
  <2>5. ASSUME NEW c \in Codes \ {"schema-drift"} PROVE Evaluate(picture')[c] <= ever'[c]
    <3>1. /\ Matter(world)[c] \in 0 .. 2 /\ ever[c] \in 0 .. 2 /\ ever'[c] \in 0 .. 2
          /\ Evaluate(picture)[c] \in 0 .. 2
      BY <1>1, <1>2 DEF Severities
    <3>2. Shows(c)
      BY <1>7, ReadingShows
    <3>3. Evaluate(picture)[c] <= ever[c] \/ (c = "engine-unreachable" /\ pc = "healthz")
      BY <2>1 DEF EverInv
    <3> QED
      BY <1>3, <2>1, <2>2, <3>1, <3>2, <3>3 DEF Shows
  <2>6. picture'.status # None =>
          CapacitySeverity(picture'.status.clones) <= ever'["clone-capacity"]
    <3>1. Matter(world)["clone-capacity"] = CapacitySeverity(world.clones)
      BY <1>1, MatterAt DEF EngineCodes, OfEngine
    <3>2. ever["clone-capacity"] \in 0 .. 2 /\ ever'["clone-capacity"] \in 0 .. 2
      BY <1>1, <2>3 DEF Severities
    <3>3. CASE picture'.status = picture.status
      BY <1>3, <2>1, <2>2, <2>3, <3>2, <3>3
    <3>4. CASE picture'.status.clones = world.clones
      BY <1>3, <2>1, <2>2, <2>3, <3>1, <3>2, <3>4
    <3> QED
      BY <1>7, <3>3, <3>4, ReadingOfStatus
  <2> QED
    BY <1>4, <2>1, <2>4, <2>5, <2>6
<1>8. CASE Conclude
  BY <1>8 DEF Conclude, Goto, EverInv, Busy
<1>9. CASE UNCHANGED vars
  <2>1. /\ ends' = ends /\ pc' = pc /\ world' = world /\ picture' = picture /\ ever' = ever
    BY <1>9 DEF vars
  <2>2. Busy' => Busy
    BY <2>1 DEF Busy
  <2>3. CASE Busy
    BY <1>4, <2>1, <2>3 DEF EverInv
  <2> QED
    BY <2>2, <2>3 DEF EverInv
<1> QED
  BY <1>5, <1>6, <1>7, <1>8, <1>9 DEF Next, Reading

LEMMA HeldStep == TypeOK /\ TypeOK' /\ ReadInOrder /\ HeldInv /\ [Next]_vars => HeldInv'
PROOF
<1> SUFFICES ASSUME TypeOK, TypeOK', ReadInOrder, HeldInv, [Next]_vars PROVE HeldInv'
  OBVIOUS
<1>1. /\ world \in Worlds /\ picture \in Pictures /\ held \in Severities
      /\ world' \in Worlds /\ picture' \in Pictures /\ held' \in Severities
  BY DEF TypeOK
<1>2. /\ Matter(world) \in Severities /\ Matter(world') \in Severities
      /\ Evaluate(picture) \in Severities /\ Evaluate(picture') \in Severities
  BY <1>1, MatterType, EvaluateType
<1>3. \A n : CapacitySeverity(n) \in 0 .. 2
  BY SeverityIs
<1>4. ASSUME ends' = ends,
             \A c \in Codes : held'[c] <= Matter(world')[c],
             \A c \in Codes \ {"schema-drift"} :
               held'[c] <= Evaluate(picture')[c] \/ Unasked(picture', c),
             picture'.status # None =>
               held'["clone-capacity"] <= CapacitySeverity(picture'.status.clones),
             held'["schema-drift"] # 0 => SchemasStand'
      PROVE  HeldInv'
  BY <1>4, ConfiguredFrame DEF HeldInv
<1>5. ASSUME NEW f \in DOMAIN Fields, Change(f) PROVE HeldInv'
  <2>1. CASE ~Busy
    BY <1>5, <2>1, ChangeNoted DEF HeldInv, Busy
  <2>2. CASE Busy
    <3>1. /\ \A c \in Codes : held'[c] <= held[c] /\ held'[c] <= Matter(world')[c]
          /\ UNCHANGED <<ends, pc, picture>>
      BY <1>5, <2>2, ChangeNoted
    <3>2. \A c \in Codes \ {"schema-drift"} :
            held'[c] <= Evaluate(picture')[c] \/ Unasked(picture', c)
      BY <1>1, <1>2, <2>2, <3>1 DEF HeldInv, Severities
    <3>3. picture'.status # None =>
            held'["clone-capacity"] <= CapacitySeverity(picture'.status.clones)
      BY <1>1, <1>3, <2>2, <3>1 DEF HeldInv, Severities, Codes, EngineCodes
    <3>4. ASSUME held'["schema-drift"] # 0 PROVE SchemasStand'
      <4>1. f \notin {"source", "target"} /\ UNCHANGED <<world.source, world.target>>
        BY <1>5, <2>2, <3>4, ChangeNoted
      <4>2. held["schema-drift"] # 0
        <5>1. "schema-drift" \in Codes
          BY DEF Codes
        <5> QED
          BY <1>1, <3>1, <3>4, <5>1 DEF Severities
      <4>3. SchemasStand
        BY <2>2, <4>2 DEF HeldInv
      <4> QED
        BY <3>1, <4>1, <4>3 DEF SchemasStand, Read
    <3> QED
      BY <1>4, <3>1, <3>2, <3>3, <3>4
  <2> QED
    BY <2>1, <2>2
<1>6. CASE Begin
  <2>1. /\ ends' = ends /\ picture' = Unread /\ held' = Matter(world) /\ world' = world
    BY <1>6 DEF Begin
  <2>2. \A c \in Codes : held'[c] <= Matter(world')[c]
    BY <1>2, <2>1 DEF Severities
  <2>3. \A c \in Codes \ {"schema-drift"} :
          held'[c] <= Evaluate(picture')[c] \/ Unasked(picture', c)
    BY <1>1, <2>1, NothingRead DEF Severities
  <2>4. picture'.status = None
    BY <2>1 DEF Unread
  <2>5. SchemasStand'
    BY <2>1 DEF Unread, SchemasStand, Read
  <2> QED
    BY <1>4, <2>1, <2>2, <2>3, <2>4, <2>5
<1>7. CASE Reading
  <2>1. UNCHANGED <<ends, world, held>> /\ Busy
    BY <1>7, ReadingFrame
  <2>2. /\ \A c \in Codes : held[c] <= Matter(world)[c]
        /\ picture.status # None => held["clone-capacity"] <= CapacitySeverity(picture.status.clones)
    BY <2>1 DEF HeldInv
  <2>3. "clone-capacity" \in Codes
    BY DEF Codes, EngineCodes
  <2>4. ASSUME NEW c \in Codes \ {"schema-drift"}
        PROVE  held'[c] <= Evaluate(picture')[c] \/ Unasked(picture', c)
    <3>1. held[c] \in 0 .. 2 /\ Matter(world)[c] \in 0 .. 2
      BY <1>1, <1>2 DEF Severities
    <3>2. Shows(c)
      BY <1>7, ReadingShows
    <3>3. held[c] <= Evaluate(picture)[c] \/ Unasked(picture, c)
      BY <2>1 DEF HeldInv
    <3> QED
      BY <2>1, <2>2, <3>1, <3>2, <3>3 DEF Shows
  <2>5. picture'.status # None =>
          held'["clone-capacity"] <= CapacitySeverity(picture'.status.clones)
    <3>1. Matter(world)["clone-capacity"] = CapacitySeverity(world.clones)
      BY <1>1, MatterAt DEF EngineCodes, OfEngine
    <3>2. CASE picture'.status = picture.status
      BY <2>1, <2>2, <3>2
    <3>3. CASE picture'.status.clones = world.clones
      BY <2>1, <2>2, <2>3, <3>1, <3>3
    <3> QED
      BY <1>7, <3>2, <3>3, ReadingOfStatus
  <2>6. held'["schema-drift"] # 0 => SchemasStand'
    BY <1>7, <2>1, ReadingOfSchemas DEF HeldInv
  <2>7. \A c \in Codes : held'[c] <= Matter(world')[c]
    BY <2>1, <2>2
  <2> QED
    BY <1>4, <2>1, <2>4, <2>5, <2>6, <2>7
<1>8. CASE Conclude
  BY <1>8 DEF Conclude, Goto, HeldInv, Busy
<1>9. CASE UNCHANGED vars
  <2>1. /\ ends' = ends /\ pc' = pc /\ world' = world /\ picture' = picture /\ held' = held
    BY <1>9 DEF vars
  <2>2. Busy' => Busy
    BY <2>1 DEF Busy
  <2>3. SchemasStand => SchemasStand'
    BY <2>1 DEF SchemasStand, Read
  <2>4. CASE Busy
    BY <1>4, <2>1, <2>3, <2>4 DEF HeldInv
  <2> QED
    BY <2>2, <2>4 DEF HeldInv
<1> QED
  BY <1>5, <1>6, <1>7, <1>8, <1>9 DEF Next, Reading

\* When the checkup concludes, whatever stood is found or was not to be read.
LEMMA ConcludeFindsWhatStood ==
  ASSUME TypeOK, HeldInv, Conclude
  PROVE  StandingTroubleIsFound'
PROOF
<1>1. /\ world \in Worlds /\ picture \in Pictures /\ held \in Severities
      /\ ends \subseteq {"publisher", "subscriber"}
  BY DEF TypeOK
<1>2. /\ UNCHANGED <<ends, world, picture, held>> /\ found' = Evaluate(picture) /\ Busy
      /\ \A e \in ends : picture[e] # None /\ (Read(picture, e) => picture[e].schema # None)
  BY DEF Conclude, Busy
<1>3. Matter(world) \in Severities /\ Evaluate(picture) \in Severities
  BY <1>1, MatterType, EvaluateType
<1>4. picture.publisher = Down => found'["replication-publisher"] = 2
  BY <1>2, EvaluateAt DEF Severity
<1>5. picture.subscriber = Down => found'["replication-subscriber"] = 2
  BY <1>2, EvaluateAt DEF Severity
<1>6. Streaming' <=> Streaming
  BY <1>2 DEF Streaming
<1>7. ASSUME NEW c \in Codes PROVE held'[c] <= found'[c] \/ Skipped(c)'
  <2>1. /\ held[c] \in 0 .. 2 /\ found'[c] \in 0 .. 2 /\ Matter(world)[c] \in 0 .. 2
        /\ held[c] <= Matter(world)[c]
    BY <1>1, <1>2, <1>3 DEF HeldInv, Severities
  <2>2. c # "schema-drift" => held[c] <= found'[c] \/ Unasked(picture, c)
    BY <1>2 DEF HeldInv
  <2>3. CASE c \in EngineCodes
    <3>1. Unasked(picture, c) => Skipped(c)'
      BY <1>2, <1>6, <2>3 DEF Unasked, Skipped, EngineCodes, PublisherCodes, SubscriberCodes
    <3> QED
      BY <1>2, <2>2, <2>3, <3>1 DEF EngineCodes
  <2>4. CASE c \in PublisherCodes \cup {"replication-publisher"}
    <3>1. CASE "publisher" \notin ends
      <4>1. Matter(world)[c] = 0
        BY <1>1, <2>4, <3>1, MatterAt
      <4> QED
        BY <1>2, <2>1, <4>1
    <3>2. CASE "publisher" \in ends /\ picture.publisher = Down
      <4>1. Skipped(c)' \/ c = "replication-publisher"
        BY <1>4, <2>4, <3>2 DEF Skipped
      <4> QED
        BY <1>2, <1>4, <2>1, <3>2, <4>1
    <3>3. CASE Read(picture, "publisher")
      <4>1. ~Unasked(picture, c) /\ c # "schema-drift"
        BY <2>4, <3>3 DEF Unasked, EngineCodes, PublisherCodes, SubscriberCodes
      <4> QED
        BY <1>2, <2>2, <4>1
    <3> QED
      BY <1>2, <3>1, <3>2, <3>3 DEF Read
  <2>5. CASE c \in SubscriberCodes \cup {"replication-subscriber"}
    <3>1. CASE "subscriber" \notin ends
      <4>1. Matter(world)[c] = 0
        BY <1>1, <2>5, <3>1, MatterAt
      <4> QED
        BY <1>2, <2>1, <4>1
    <3>2. CASE "subscriber" \in ends /\ picture.subscriber = Down
      <4>1. Skipped(c)' \/ c = "replication-subscriber"
        BY <1>5, <2>5, <3>2 DEF Skipped
      <4> QED
        BY <1>2, <1>5, <2>1, <3>2, <4>1
    <3>3. CASE Read(picture, "subscriber")
      <4>1. ~Unasked(picture, c) /\ c # "schema-drift"
        BY <2>5, <3>3 DEF Unasked, EngineCodes, PublisherCodes, SubscriberCodes
      <4> QED
        BY <1>2, <2>2, <4>1
    <3> QED
      BY <1>2, <3>1, <3>2, <3>3 DEF Read
  <2>6. CASE c = "engine-unreachable"
    <3>1. ~Unasked(picture, c)
      BY <2>6 DEF Unasked, EngineCodes, PublisherCodes, SubscriberCodes
    <3> QED
      BY <1>2, <2>2, <2>6, <3>1
  <2>7. CASE c = "schema-drift"
    <3>1. Matter(world)[c] =
            Severity({"publisher", "subscriber"} \subseteq ends
                       /\ Differ(world.source, world.target), 1)
      BY <1>1, <2>7, MatterAt
    <3>2. CASE ~({"publisher", "subscriber"} \subseteq ends)
      BY <1>2, <2>1, <3>1, <3>2 DEF Severity
    <3>3. CASE picture.publisher = Down \/ picture.subscriber = Down
      BY <1>4, <1>5, <2>7, <3>3 DEF Skipped
    <3>4. CASE {"publisher", "subscriber"} \subseteq ends
                 /\ Read(picture, "publisher") /\ Read(picture, "subscriber")
      <4>1. CASE held[c] = 0
        BY <1>2, <2>1, <4>1
      <4>2. CASE held[c] # 0
        <5>1. SchemasStand
          BY <1>2, <2>7, <4>2 DEF HeldInv
        <5>2. picture.publisher.schema = world.source /\ picture.subscriber.schema = world.target
          BY <1>2, <3>4, <5>1 DEF SchemasStand
        <5>3. found'[c] = DriftRule(world.source, world.target)
          BY <1>2, <2>7, <3>4, <5>2, EvaluateAt
        <5>4. found'[c] = Matter(world)[c]
          BY <3>1, <3>4, <5>3, DriftRuleMatches DEF Severity
        <5> QED
          BY <1>2, <2>1, <5>4
      <4> QED
        BY <4>1, <4>2
    <3> QED
      BY <1>2, <3>2, <3>3, <3>4 DEF Read
  <2> QED
    BY <2>3, <2>4, <2>5, <2>6, <2>7, CodeParts DEF Reachability
<1> QED
  BY <1>7 DEF StandingTroubleIsFound

\* From any readings, the hop names the first signal that a finding stands for.
LEMMA HopNames ==
  ASSUME NEW p \in Pictures
  PROVE  /\ HopOf(p) = "publisher unreachable" <=> Evaluate(p)["replication-publisher"] # 0
         /\ HopOf(p) = "subscriber unreachable" <=>
              /\ Evaluate(p)["replication-subscriber"] # 0
              /\ Evaluate(p)["replication-publisher"] = 0
         /\ HopOf(p) = "subscription disabled" <=>
              /\ Evaluate(p)["subscription-disabled"] # 0
              /\ Evaluate(p)["replication-publisher"] = 0
              /\ Evaluate(p)["replication-subscriber"] = 0
         /\ HopOf(p) = "replication errors" <=>
              /\ Evaluate(p)["replication-errors"] # 0
              /\ Evaluate(p)["replication-publisher"] = 0
              /\ Evaluate(p)["replication-subscriber"] = 0
              /\ Evaluate(p)["subscription-disabled"] = 0
         /\ HopOf(p) # "no subscription" =>
              (HopOf(p) = "slot inactive" <=>
                 /\ Evaluate(p)["slot-inactive"] # 0
                 /\ Evaluate(p)["replication-publisher"] = 0
                 /\ Evaluate(p)["replication-subscriber"] = 0
                 /\ Evaluate(p)["subscription-disabled"] = 0
                 /\ Evaluate(p)["replication-errors"] = 0)
PROOF
<1> DEFINE slots == IF Read(p, "publisher") THEN p.publisher.slots ELSE <<>>
           sub   == IF Read(p, "subscriber") THEN p.subscriber.subscription ELSE None
           inactive == slots # <<>> /\ ~HasActive(slots)
           errors   == sub \in {"disabled", "enabled"} /\ p.subscriber.errors
<1>1. sub \in Subscriptions \cup {None}
  BY DEF Read, Pictures, SubscriberStatus
<1>2. None \notin Subscriptions
  BY CheckupConstantsOK
<1>3. /\ Evaluate(p)["replication-publisher"] = 0 <=> p.publisher # Down
      /\ Evaluate(p)["replication-subscriber"] = 0 <=> p.subscriber # Down
  BY EvaluateAt DEF Severity
<1>4. Evaluate(p)["subscription-disabled"] = 0 <=> sub # "disabled"
  <2>1. CASE Read(p, "subscriber")
    <3>1. sub = p.subscriber.subscription /\ sub \in Subscriptions
      BY <2>1 DEF Read, Pictures, SubscriberStatus
    <3> HIDE DEF sub
    <3>2. Evaluate(p)["subscription-disabled"] = Severity(sub # "none" /\ sub # "enabled", 2)
      BY <2>1, <3>1, EvaluateAt DEF SubscriptionRules, SubscriberCodes
    <3> QED
      BY <3>1, <3>2 DEF Subscriptions, Severity
  <2>2. CASE ~Read(p, "subscriber")
    <3>1. sub # "disabled"
      BY <1>2, <2>2 DEF Subscriptions
    <3> QED
      BY <2>2, <3>1, EvaluateAt DEF SubscriberCodes
  <2> QED
    BY <2>1, <2>2
<1>5. Evaluate(p)["replication-errors"] = 0 <=> ~errors
  <2>1. CASE Read(p, "subscriber")
    <3>1. sub = p.subscriber.subscription /\ sub \in Subscriptions
      BY <2>1 DEF Read, Pictures, SubscriberStatus
    <3> HIDE DEF sub
    <3>2. Evaluate(p)["replication-errors"] = Severity(sub # "none" /\ p.subscriber.errors, 1)
      BY <2>1, <3>1, EvaluateAt DEF SubscriptionRules, SubscriberCodes
    <3> QED
      BY <3>1, <3>2 DEF Subscriptions, Severity
  <2>2. CASE ~Read(p, "subscriber")
    <3>1. ~errors
      BY <1>2, <2>2 DEF Subscriptions
    <3> QED
      BY <2>2, <3>1, EvaluateAt DEF SubscriberCodes
  <2> QED
    BY <2>1, <2>2
<1>6. Evaluate(p)["slot-inactive"] = 0 <=> ~inactive
  <2>1. CASE Read(p, "publisher")
    BY <2>1, EvaluateAt DEF SlotRules, PublisherCodes, Severity
  <2>2. CASE ~Read(p, "publisher")
    BY <2>2, EvaluateAt DEF PublisherCodes
  <2> QED
    BY <2>1, <2>2
<1>7. HopOf(p) = IF p.publisher = Down THEN "publisher unreachable"
                 ELSE IF p.subscriber = Down THEN "subscriber unreachable"
                 ELSE IF sub = "none" THEN "no subscription"
                 ELSE IF sub = "disabled" THEN "subscription disabled"
                 ELSE IF sub # None /\ p.subscriber.errors THEN "replication errors"
                 ELSE IF inactive THEN "slot inactive"
                 ELSE IF p.publisher # None /\ slots = <<>> THEN "no replication slot"
                 ELSE "streaming"
  BY DEF HopOf
<1>8. p.subscriber = Down => sub = None
  BY DEF Read
<1> HIDE DEF slots, sub, inactive
<1>9. CASE p.publisher = Down
  BY <1>3, <1>7, <1>9
<1>10. CASE p.publisher # Down /\ p.subscriber = Down
  BY <1>3, <1>7, <1>10
<1>11. CASE p.publisher # Down /\ p.subscriber # Down
  <2>1. CASE sub = "none"
    <3>1. ~errors
      BY <2>1
    <3> HIDE DEF errors
    <3>2. HopOf(p) = "no subscription"
      BY <1>7, <1>11, <2>1
    <3> QED
      BY <1>3, <1>4, <1>5, <1>11, <2>1, <3>1, <3>2
  <2>2. CASE sub = "disabled"
    <3> HIDE DEF errors
    <3>1. HopOf(p) = "subscription disabled"
      BY <1>7, <1>11, <2>2
    <3> QED
      BY <1>3, <1>4, <1>11, <2>2, <3>1
  <2>3. CASE sub \in {"enabled", None}
    <3>1. sub # "none" /\ sub # "disabled"
      BY <1>2, <2>3 DEF Subscriptions
    <3>2. sub # None /\ p.subscriber.errors <=> errors
      BY <1>1, <1>2, <3>1 DEF Subscriptions
    <3> HIDE DEF errors
    <3> QED
      BY <1>3, <1>4, <1>5, <1>6, <1>7, <1>11, <3>1, <3>2
  <2> QED
    BY <1>1, <2>1, <2>2, <2>3 DEF Subscriptions
<1> QED
  BY <1>9, <1>10, <1>11

Inv ==
  /\ TypeOK /\ ReadInOrder
  /\ EverInv /\ HeldInv
  /\ DoneInv /\ FindingsWereTrue /\ StandingTroubleIsFound

LEMMA InvInit == Init => Inv
PROOF
<1> SUFFICES ASSUME Init PROVE Inv
  OBVIOUS
<1>1. ~Busy /\ pc = "idle"
  BY DEF Init, Busy
<1> QED
  BY <1>1, TypeInit DEF Inv, ReadInOrder, EverInv, HeldInv, DoneInv, FindingsWereTrue,
     StandingTroubleIsFound

LEMMA InvStep == Inv /\ [Next]_vars => Inv'
PROOF
<1> SUFFICES ASSUME Inv, [Next]_vars PROVE Inv'
  OBVIOUS
<1>1. TypeOK' /\ ReadInOrder' /\ EverInv' /\ HeldInv'
  BY TypeStep, OrderStep, EverStep, HeldStep DEF Inv
<1> DEFINE Done == DoneInv /\ FindingsWereTrue /\ StandingTroubleIsFound
<1> SUFFICES Done'
  BY <1>1 DEF Inv
<1>2. pc' # "done" => Done'
  BY DEF DoneInv, FindingsWereTrue, StandingTroubleIsFound
<1> HIDE DEF Done
<1>3. ASSUME UNCHANGED <<ends, pc, picture, found>>, ~Busy => UNCHANGED <<held, ever>>
      PROVE  Done'
  <2>1. CASE pc = "done"
    <3>1. UNCHANGED <<held, ever>>
      BY <1>3, <2>1 DEF Busy
    <3>2. Evaluate(picture)' = Evaluate(picture)
      BY <1>3, ConfiguredFrame
    <3>3. \A c : Skipped(c)' <=> Skipped(c)
      BY <1>3 DEF Skipped, Streaming
    <3> QED
      BY <1>3, <3>1, <3>2, <3>3 DEF Done, Inv, DoneInv, FindingsWereTrue, StandingTroubleIsFound
  <2>2. CASE pc # "done"
    BY <1>2, <1>3, <2>2
  <2> QED
    BY <2>1, <2>2
<1>4. ASSUME NEW f \in DOMAIN Fields, Change(f) PROVE Done'
  <2>1. UNCHANGED <<ends, pc, picture, found>> /\ (~Busy => UNCHANGED <<held, ever>>)
    BY <1>4, ChangeNoted DEF Inv
  <2> QED
    BY <1>3, <2>1
<1>5. CASE Begin
  BY <1>2, <1>5 DEF Begin, Goto
<1>6. CASE Reading
  <2>1. pc' # "done"
    BY <1>6, ReadingFrame DEF Inv, Busy
  <2> QED
    BY <1>2, <2>1
<1>7. CASE Conclude
  <2>1. /\ UNCHANGED <<ends, picture, ever>> /\ found' = Evaluate(picture)
        /\ Busy /\ pc # "healthz"
    BY <1>7 DEF Conclude, Busy
  <2>2. DoneInv'
    BY <2>1, ConfiguredFrame DEF DoneInv
  <2>3. FindingsWereTrue'
    BY <2>1 DEF FindingsWereTrue, Inv, EverInv
  <2>4. StandingTroubleIsFound'
    BY <1>7, ConcludeFindsWhatStood DEF Inv
  <2> QED
    BY <2>2, <2>3, <2>4 DEF Done
<1>8. CASE UNCHANGED vars
  <2>1. UNCHANGED <<ends, pc, picture, found>> /\ UNCHANGED <<held, ever>>
    BY <1>8 DEF vars
  <2> QED
    BY <1>3, <2>1
<1> QED
  BY <1>4, <1>5, <1>6, <1>7, <1>8 DEF Next, Reading

LEMMA InvHolds == Spec => []Inv
PROOF
<1>1. Init => Inv
  BY InvInit
<1>2. Inv /\ [Next]_vars => Inv'
  BY InvStep
<1> QED
  BY <1>1, <1>2, PTL DEF Spec

-----------------------------------------------------------------------------
(***************************************************************************)
(* The theorems.                                                            *)
(***************************************************************************)
\* Nothing is found that was not the matter, as severely, at some moment of the
\* checkup, whatever changes between one read and the next and whichever calls
\* fail (checkup.ts:119-364).
THEOREM FindingsAreTrue == Spec => []FindingsWereTrue
PROOF
<1>1. Inv => FindingsWereTrue
  BY DEF Inv
<1> QED
  BY <1>1, InvHolds, PTL

\* What is the matter from the beginning of a checkup to its end is found, and
\* as severe as it is, unless its source could not be read (checkup.ts:119-410).
THEOREM StandingTroubleIsReported == Spec => []StandingTroubleIsFound
PROOF
<1>1. Inv => StandingTroubleIsFound
  BY DEF Inv
<1> QED
  BY <1>1, InvHolds, PTL

\* From the readings of a checkup the console's hop names the first of five
\* findings that the checkup makes, and none that it does not make: an end
\* unreachable, the subscription disabled, errors, and no slot in use unless the
\* subscription is missing.  Of the other findings about the slots the hop says
\* nothing (lib/replication.ts:27-79, checkup.ts:213-285).
THEOREM HopNamesTheWorstSignal == Spec => []HopNamesTheWorst
PROOF
<1>1. Inv => HopNamesTheWorst
  <2> SUFFICES ASSUME Inv, pc = "done" PROVE HopNamesTheWorst
    BY DEF HopNamesTheWorst
  <2>1. picture \in Pictures /\ found = Evaluate(picture)
    BY DEF Inv, TypeOK, DoneInv
  <2> QED
    BY <2>1, HopNames DEF HopNamesTheWorst, Names
<1> QED
  BY <1>1, InvHolds, PTL
=============================================================================

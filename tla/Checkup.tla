------------------------------ MODULE Checkup -------------------------------
(***************************************************************************)
(* A health checkup (monitor/checkup.ts, console/replication.ts): one read  *)
(* after another of an engine and of the two ends of a replication stream,  *)
(* all of which change meanwhile, and the findings drawn from what was      *)
(* read.  The hop that the console draws between the two ends comes from    *)
(* such readings too (lib/replication.ts).                                  *)
(*                                                                          *)
(* A severity is 0 (no finding), 1 (warning) or 2 (critical), and findings  *)
(* are a function from codes to severities.  A quantity with thresholds is  *)
(* the number of thresholds it is beyond.                                   *)
(***************************************************************************)
EXTENDS Integers, SequencesExt

CONSTANTS
  Tables, Prints,    \* tables of the source, and fingerprints of one
  Slots,             \* the replication slots that occur
  MaxSlots,          \* bound: slots on the publisher
  Capacity,          \* clones the port pool has room for
  None, Down,
  MaxChanges,        \* bound: changes of the world
  MaxTroubles        \* bound: calls that fail

Slot == [active : BOOLEAN, lags : BOOLEAN, retained : 0 .. 2 \cup {None},
         wal : {"reserved", "unreserved", "lost"}]

Hours         == {1, 3, 30}
Subscriptions == {"none", "disabled", "enabled"}
Schemas == [table : [Tables -> Prints \cup {None}], index : [Tables -> Prints \cup {None}]]

\* What is read of the two ends of the stream.
PublisherStatus  == [slots : Seq(Slot), schema : Schemas \cup {None}]
SubscriberStatus == [subscription : Subscriptions, errors : BOOLEAN, silent : BOOLEAN,
                     schema : Schemas \cup {None}]

\* The codes of the findings, by what they are about.
EngineCodes     == {"sync-alerts", "data-stale", "disk-usage", "clone-capacity"}
PublisherCodes  == {"slot-inactive", "replication-lag", "slot-invalidated",
                    "slot-at-risk", "wal-retained"}
SubscriberCodes == {"subscription-disabled", "replication-errors", "replication-stale"}
Reachability    == {"engine-unreachable", "replication-publisher", "replication-subscriber"}
Codes == EngineCodes \cup PublisherCodes \cup SubscriberCodes \cup Reachability
           \cup {"schema-drift"}

ASSUME CheckupConstantsOK ==
  /\ Slots \subseteq Slot
  /\ \A s \in Slots : s.wal = "lost" => ~s.active /\ s.retained = None
  /\ Prints # {}
  /\ None # Down /\ None \notin Nat \cup Subscriptions \cup Codes
  /\ Down \notin PublisherStatus \cup SubscriberStatus
  /\ {Capacity, MaxSlots, MaxChanges, MaxTroubles} \subseteq Nat

VARIABLES
  ends,         \* the ends of the stream whose URLs are configured
  world,        \* the engine and the stream, as they are
  pc,           \* what the checkup reads next
  picture,      \* what it has read
  found,        \* its findings
  held,         \* history: what has been the matter ever since it began
  ever,         \* history: the worst that was the matter since it began
  changes, troubles

vars == <<ends, world, pc, picture, found, held, ever, changes, troubles>>

\* What each part of the world may be.
Fields ==
  [healthy |-> BOOLEAN, alerts |-> BOOLEAN, disk |-> 0 .. 2, clones |-> 0 .. Capacity,
   dumpAge |-> Hours, snapAge |-> Hours \cup {None},
   publisher |-> BOOLEAN, slots |-> BoundedSeq(Slots, MaxSlots),
   subscriber |-> BOOLEAN, subscription |-> Subscriptions,
   errors |-> BOOLEAN, silent |-> BOOLEAN, source |-> Schemas, target |-> Schemas]

Streaming  == ends # {}
StaleHours == IF Streaming THEN 2 ELSE 26

CapacitySeverity(clones) ==
  IF Capacity = 0 THEN 0
  ELSE IF clones >= Capacity THEN 2
  ELSE IF 10 * clones >= 8 * Capacity THEN 1 ELSE 0

-----------------------------------------------------------------------------
(***************************************************************************)
(* What there is to find.                                                   *)
(***************************************************************************)
Severity(condition, severity) == IF condition THEN severity ELSE 0

\* A table on one side only, or unlike, or with other indexes.
Differ(s, t) ==
  \E x \in Tables : \/ s.table[x] # t.table[x]
                    \/ s.table[x] # None /\ s.index[x] # t.index[x]

HasActive(slots) == \E i \in DOMAIN slots : slots[i].active

\* The first slot in use lags.
ActiveLags(slots) ==
  \E i \in DOMAIN slots : /\ slots[i].active /\ slots[i].lags
                          /\ \A j \in 1 .. i - 1 : ~slots[j].active

Quiet == [c \in Codes |-> 0]

OfEngine(w, c) ==
  LET age == IF Streaming THEN w.snapAge ELSE w.dumpAge
  IN CASE c = "engine-unreachable" -> Severity(~w.healthy, 2)
       [] c = "sync-alerts"        -> Severity(w.alerts, 1)
       [] c = "data-stale"         -> Severity(age # None /\ age > StaleHours, 1)
       [] c = "disk-usage"         -> w.disk
       [] c = "clone-capacity"     -> CapacitySeverity(w.clones)

OfPublisher(w, c) ==
  LET slots == Range(w.slots)
  IN CASE c = "replication-publisher" -> Severity(~w.publisher, 2)
       [] c = "slot-inactive"    -> Severity(slots # {} /\ \A s \in slots : ~s.active, 1)
       [] c = "replication-lag"  -> Severity(ActiveLags(w.slots), 1)
       [] c = "slot-invalidated" -> Severity(\E s \in slots : s.wal = "lost", 2)
       [] c = "slot-at-risk"     -> Severity(/\ \E s \in slots : s.wal = "unreserved"
                                             /\ \A s \in slots : s.wal # "lost", 2)
       [] c = "wal-retained"     -> IF \E s \in slots : s.retained = 2 THEN 2
                                    ELSE Severity(\E s \in slots : s.retained = 1, 1)

OfSubscriber(w, c) ==
  LET subscribed == w.subscription # "none"
  IN CASE c = "replication-subscriber" -> Severity(~w.subscriber, 2)
       [] c = "subscription-disabled"  -> Severity(w.subscription = "disabled", 2)
       [] c = "replication-errors"     -> Severity(subscribed /\ w.errors, 1)
       [] c = "replication-stale"      -> Severity(subscribed /\ w.silent, 1)

Condition(w, c) ==
  CASE c \in EngineCodes \cup {"engine-unreachable"} -> OfEngine(w, c)
    [] c \in PublisherCodes \cup {"replication-publisher"} ->
         IF "publisher" \in ends THEN OfPublisher(w, c) ELSE 0
    [] c \in SubscriberCodes \cup {"replication-subscriber"} ->
         IF "subscriber" \in ends THEN OfSubscriber(w, c) ELSE 0
    [] c = "schema-drift" ->
         Severity({"publisher", "subscriber"} \subseteq ends /\ Differ(w.source, w.target), 1)

Matter(w) == [c \in Codes |-> Condition(w, c)]

Worse(f, g)  == [c \in Codes |-> IF f[c] > g[c] THEN f[c] ELSE g[c]]
Milder(f, g) == [c \in Codes |-> IF f[c] < g[c] THEN f[c] ELSE g[c]]

-----------------------------------------------------------------------------
(***************************************************************************)
(* The rules, on what was read.  An end that could not be read is Down,     *)
(* and what was not read, or is not configured, None.                       *)
(***************************************************************************)
Read(p, end) == p[end] \notin {None, Down}

\* A bug: in streaming mode too the clock is the pool's own.
EngineRulesByPoolClock(p) ==
  LET rule(c) ==
        CASE c = "sync-alerts"    -> Severity(p.status.alerts, 1)
          [] c = "data-stale"     -> Severity(p.status.dumpAge > StaleHours, 1)
          [] c = "disk-usage"     -> p.status.disk
          [] c = "clone-capacity" -> IF p.capacity THEN CapacitySeverity(p.status.clones) ELSE 0
  IN [c \in EngineCodes |-> IF p.status = None THEN 0 ELSE rule(c)]

\* All but reachability waits for the status.  The newest snapshot is the clock
\* of a streaming deployment; without one, or a listing, the rule is skipped.
EngineRules(p) ==
  LET age == IF Streaming THEN p.snapAge ELSE p.status.dumpAge
      rule(c) ==
        CASE c = "sync-alerts"    -> Severity(p.status.alerts, 1)
          [] c = "data-stale"     -> Severity(age # None /\ age > StaleHours, 1)
          [] c = "disk-usage"     -> p.status.disk
          [] c = "clone-capacity" -> IF p.capacity THEN CapacitySeverity(p.status.clones) ELSE 0
  IN [c \in EngineCodes |-> IF p.status = None THEN 0 ELSE rule(c)]

\* The most that any slot retains.
Retained(slots) ==
  LET known == {s.retained : s \in Range(slots)} \ {None}
  IN IF known = {} THEN 0 ELSE CHOOSE n \in known : \A m \in known : m <= n

\* A bug: a slot at risk hides one that is lost.
SlotRulesRiskFirst(slots) ==
  LET invalidated == \E s \in Range(slots) : s.wal = "lost"
      atRisk      == \E s \in Range(slots) : s.wal = "unreserved"
  IN [c \in PublisherCodes |->
       CASE c = "slot-inactive"    -> Severity(slots # <<>> /\ ~HasActive(slots), 1)
         [] c = "replication-lag"  -> Severity(ActiveLags(slots), 1)
         [] c = "slot-invalidated" -> Severity(~atRisk /\ invalidated, 2)
         [] c = "slot-at-risk"     -> Severity(atRisk, 2)
         [] c = "wal-retained"     -> Retained(slots)]

SlotRules(slots) ==
  LET invalidated == \E s \in Range(slots) : s.wal = "lost"
      atRisk      == \E s \in Range(slots) : s.wal = "unreserved"
  IN [c \in PublisherCodes |->
       CASE c = "slot-inactive"    -> Severity(slots # <<>> /\ ~HasActive(slots), 1)
         [] c = "replication-lag"  -> Severity(ActiveLags(slots), 1)
         [] c = "slot-invalidated" -> Severity(invalidated, 2)
         [] c = "slot-at-risk"     -> Severity(~invalidated /\ atRisk, 2)
         [] c = "wal-retained"     -> Retained(slots)]

\* Of the subscription the subscriber lists first, the only one in the model.
SubscriptionRules(s) ==
  LET subscribed == s.subscription # "none"
  IN [c \in SubscriberCodes |->
       CASE c = "subscription-disabled" -> Severity(subscribed /\ s.subscription # "enabled", 2)
         [] c = "replication-errors"    -> Severity(subscribed /\ s.errors, 1)
         [] c = "replication-stale"     -> Severity(subscribed /\ s.silent, 1)]

\* diffSchemas
SchemaDiff(pub, sub) ==
  LET on(s) == {x \in Tables : s.table[x] # None}
  IN [missing       |-> on(pub) \ on(sub),
      orphaned      |-> on(sub) \ on(pub),
      mismatched    |-> {x \in on(pub) \cap on(sub) : pub.table[x] # sub.table[x]},
      indexesDiffer |-> {x \in on(pub) \cap on(sub) : pub.index[x] # sub.index[x]}]

DriftRule(pub, sub) ==
  LET drift == SchemaDiff(pub, sub)
  IN Severity(\E part \in DOMAIN drift : drift[part] # {}, 1)

Finding(p, c) ==
  CASE c = "engine-unreachable"     -> Severity(~p.healthy, 2)
    [] c = "replication-publisher"  -> Severity(p.publisher = Down, 2)
    [] c = "replication-subscriber" -> Severity(p.subscriber = Down, 2)
    [] c \in EngineCodes     -> EngineRules(p)[c]
    [] c \in PublisherCodes  ->
         IF Read(p, "publisher") THEN SlotRules(p.publisher.slots)[c] ELSE 0
    [] c \in SubscriberCodes ->
         IF Read(p, "subscriber") THEN SubscriptionRules(p.subscriber)[c] ELSE 0
    [] c = "schema-drift"    ->
         IF Read(p, "publisher") /\ Read(p, "subscriber")
         THEN DriftRule(p.publisher.schema, p.subscriber.schema) ELSE 0

Evaluate(p) == [c \in Codes |-> Finding(p, c)]

\* A bug: the slots are looked at before the subscription.
HopOfSlotsFirst(p) ==
  LET slots == IF Read(p, "publisher") THEN p.publisher.slots ELSE <<>>
      sub   == IF Read(p, "subscriber") THEN p.subscriber.subscription ELSE None
  IN IF p.publisher = Down THEN "publisher unreachable"
     ELSE IF p.subscriber = Down THEN "subscriber unreachable"
     ELSE IF slots # <<>> /\ ~HasActive(slots) THEN "slot inactive"
     ELSE IF sub = "none" THEN "no subscription"
     ELSE IF sub = "disabled" THEN "subscription disabled"
     ELSE IF sub # None /\ p.subscriber.errors THEN "replication errors"
     ELSE IF p.publisher # None /\ slots = <<>> THEN "no replication slot"
     ELSE "streaming"

\* summarizeStreamHop
HopOf(p) ==
  LET slots == IF Read(p, "publisher") THEN p.publisher.slots ELSE <<>>
      sub   == IF Read(p, "subscriber") THEN p.subscriber.subscription ELSE None
  IN IF p.publisher = Down THEN "publisher unreachable"
     ELSE IF p.subscriber = Down THEN "subscriber unreachable"
     ELSE IF sub = "none" THEN "no subscription"
     ELSE IF sub = "disabled" THEN "subscription disabled"
     ELSE IF sub # None /\ p.subscriber.errors THEN "replication errors"
     ELSE IF slots # <<>> /\ ~HasActive(slots) THEN "slot inactive"
     ELSE IF p.publisher # None /\ slots = <<>> THEN "no replication slot"
     ELSE "streaming"

-----------------------------------------------------------------------------
Well ==
  LET schema == [table |-> [x \in Tables |-> CHOOSE f \in Prints : TRUE],
                 index |-> [x \in Tables |-> None]]
      slot   == [active |-> TRUE, lags |-> FALSE, retained |-> 0, wal |-> "reserved"]
  IN [healthy |-> TRUE, alerts |-> FALSE, disk |-> 0, clones |-> 0,
      dumpAge |-> 1, snapAge |-> 1, publisher |-> TRUE, slots |-> <<slot>>,
      subscriber |-> TRUE, subscription |-> "enabled",
      errors |-> FALSE, silent |-> FALSE, source |-> schema, target |-> schema]

Unread == [healthy |-> FALSE, status |-> None, capacity |-> FALSE, snapAge |-> None,
           publisher |-> None, subscriber |-> None]

Init ==
  /\ ends \in SUBSET {"publisher", "subscriber"}
  /\ world = Well
  /\ pc = "idle"
  /\ picture = Unread
  /\ found = Quiet /\ held = Quiet /\ ever = Quiet
  /\ changes = 0 /\ troubles = 0

Goto(label) == pc' = label
Busy == pc \notin {"idle", "done"}

(***************************************************************************)
(* The world changes in one respect.  A drift is only held against the      *)
(* checkup while both schemas stay as they are: it reads them apart.        *)
(***************************************************************************)
Change(f) ==
  /\ changes < MaxChanges /\ changes' = changes + 1
  /\ \E v \in Fields[f] \ {world[f]} : world' = [world EXCEPT ![f] = v]
  /\ IF Busy
     THEN /\ held' = Milder(IF f \in {"source", "target"}
                            THEN [held EXCEPT !["schema-drift"] = 0] ELSE held, Matter(world'))
          /\ ever' = Worse(ever, Matter(world'))
     ELSE UNCHANGED <<held, ever>>
  /\ UNCHANGED <<ends, pc, picture, found, troubles>>

-----------------------------------------------------------------------------
(***************************************************************************)
(* runCheckup.                                                              *)
(***************************************************************************)
Begin ==
  /\ ~Busy
  /\ picture' = Unread
  /\ found' = Quiet
  /\ held' = Matter(world) /\ ever' = Matter(world)
  /\ Goto("healthz")
  /\ UNCHANGED <<ends, world, changes, troubles>>

\* A call that fails, of an engine or an end that is there: it is as good as
\* gone for that call.
Trouble(code) ==
  /\ troubles < MaxTroubles /\ troubles' = troubles + 1
  /\ ever' = IF code = None THEN ever ELSE [ever EXCEPT ![code] = 2]

Answered == UNCHANGED <<troubles, ever>>

\* Its answer, or none.
Call(there, code, answer) ==
  \/ there /\ Answered /\ picture' = answer
  \/ ~there /\ Answered /\ UNCHANGED picture
  \/ there /\ Trouble(code) /\ UNCHANGED picture

Healthz ==
  /\ pc = "healthz"
  /\ Call(world.healthy, "engine-unreachable", [picture EXCEPT !.healthy = TRUE])
  /\ Goto(IF picture'.healthy THEN "status" ELSE "ends")
  /\ UNCHANGED <<ends, world, found, held, changes>>

Status ==
  /\ pc = "status"
  /\ Call(world.healthy, None, [picture EXCEPT !.status =
       [alerts |-> world.alerts, disk |-> world.disk, clones |-> world.clones,
        dumpAge |-> world.dumpAge]])
  /\ Goto("capacity")
  /\ UNCHANGED <<ends, world, found, held, changes>>

\* The port pool is read from the parameter store, not from the engine.
ClonePortCapacity ==
  /\ pc = "capacity"
  /\ Call(TRUE, None, [picture EXCEPT !.capacity = TRUE])
  /\ Goto("snapshots")
  /\ UNCHANGED <<ends, world, found, held, changes>>

ListSnapshots ==
  /\ pc = "snapshots"
  /\ Call(world.healthy, None, [picture EXCEPT !.snapAge = world.snapAge])
  /\ Goto("ends")
  /\ UNCHANGED <<ends, world, found, held, changes>>

\* An end is asked for its stream, then for its schema (the columns and the
\* indexes, read as one); one that fails to answer either is down.
Replies(end, unreachable, stream) ==
  LET read == picture[end]
      schema == IF end = "publisher" THEN world.source ELSE world.target
      after(x) == [picture EXCEPT ![end] = x]
  IN /\ pc = "ends" /\ end \in ends
     /\ read # Down
     /\ Read(picture, end) => read.schema = None
     /\ \/ ~world[end] /\ Answered /\ picture' = after(Down)
        \/ world[end] /\ Trouble(unreachable) /\ picture' = after(Down)
        \/ /\ world[end] /\ Answered
           /\ picture' = after(IF read = None THEN stream ELSE [read EXCEPT !.schema = schema])
     /\ UNCHANGED <<ends, world, pc, found, held, changes>>

QueryPublisher ==
  Replies("publisher", "replication-publisher",
          [slots |-> world.slots, schema |-> None])

QuerySubscriber ==
  Replies("subscriber", "replication-subscriber",
          [subscription |-> world.subscription, errors |-> world.errors,
           silent |-> world.silent, schema |-> None])

Conclude ==
  /\ pc = "ends"
  /\ \A e \in ends : picture[e] # None /\ (Read(picture, e) => picture[e].schema # None)
  /\ found' = Evaluate(picture)
  /\ Goto("done")
  /\ UNCHANGED <<ends, world, picture, held, ever, changes, troubles>>

Next ==
  \/ \E f \in DOMAIN Fields : Change(f)
  \/ Begin \/ Healthz \/ Status \/ ClonePortCapacity \/ ListSnapshots
  \/ QueryPublisher \/ QuerySubscriber \/ Conclude

Spec == Init /\ [][Next]_vars

-----------------------------------------------------------------------------
(***************************************************************************)
(* Properties.                                                              *)
(***************************************************************************)
\* A rule is skipped because its source is down, which is a finding itself, or
\* because a call to a healthy engine failed.
Skipped(c) ==
  \/ c \in EngineCodes /\ found["engine-unreachable"] = 2
  \/ c \in EngineCodes /\ picture.status = None
  \/ c = "clone-capacity" /\ ~picture.capacity
  \/ c = "data-stale" /\ Streaming /\ picture.snapAge = None
  \/ c \in PublisherCodes \cup {"schema-drift"} /\ found["replication-publisher"] = 2
  \/ c \in SubscriberCodes \cup {"schema-drift"} /\ found["replication-subscriber"] = 2

\* What is the matter from the beginning of a checkup to its end is found, and
\* as severe as it is, however the rest changes meanwhile and in whichever order
\* the two ends answer, unless its source could not be read
\* (checkup.ts:119-410).
StandingTroubleIsFound ==
  pc = "done" => \A c \in Codes : held[c] <= found[c] \/ Skipped(c)

\* Nothing is found that was not the matter, as severely, at some moment of the
\* checkup; a drift is a comparison of two moments (checkup.ts:119-364).
FindingsWereTrue ==
  pc = "done" => \A c \in Codes \ {"schema-drift"} : found[c] <= ever[c]

\* The hop has a word for a finding exactly if it is made and no worse one is.
Names(label, code, worse) ==
  HopOf(picture) = label <=> found[code] # 0 /\ \A c \in worse : found[c] = 0

\* From the same readings "worst signal wins": the console's hop names the first
\* of these that the checkup finds, and none that it does not; a missing
\* subscription goes before a slot not in use.  The hop knows no more: of a slot
\* that is lost, at risk, lags or retains too much it says nothing
\* (lib/replication.ts:27-79).
HopNamesTheWorst ==
  pc = "done" /\ Streaming =>
    LET down    == {"replication-publisher", "replication-subscriber"}
        stopped == down \cup {"subscription-disabled"}
    IN /\ Names("publisher unreachable", "replication-publisher", {})
       /\ Names("subscriber unreachable", "replication-subscriber", {"replication-publisher"})
       /\ Names("subscription disabled", "subscription-disabled", down)
       /\ Names("replication errors", "replication-errors", stopped)
       /\ HopOf(picture) # "no subscription" =>
            Names("slot inactive", "slot-inactive", stopped \cup {"replication-errors"})
=============================================================================

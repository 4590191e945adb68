----------------------------- MODULE AlertLoop -----------------------------
(***************************************************************************)
(* The console's alert loop: a checkup each minute, the debounce of an      *)
(* unreachable engine, the difference between what was seen and what is     *)
(* found, the event feed, its file under TENDB_STATE_DIR, and the posts to  *)
(* Slack.  Nothing keeps a tick from starting while an earlier one awaits a *)
(* probe, a write or a post, so several may be in flight; the console may   *)
(* be stopped or killed at any moment and starts again from its file.       *)
(*                                                                          *)
(* A severity is 0 (no finding), 1 (warning) or 2 (critical).  A checkup is *)
(* a function from codes to severities, and an event a code with the        *)
(* severity it rose to, or 0 when it recovered.                             *)
(***************************************************************************)
EXTENDS Integers, SequencesExt

CONSTANTS
  Unreachable,     \* the code engine-unreachable
  EngineCodes,     \* the codes read from the engine's status
  OtherCodes,      \* the codes read from the replication endpoints
  Severities,      \* the severities those two kinds of finding may have
  Threshold,       \* debounceUnreachable's threshold
  Cap,             \* HISTORY_CAP
  Ticks,           \* bound: the ticks that may be in flight at once
  NoState,         \* no file, no tmp file, nothing written yet
  Torn,            \* a file that does not parse
  MaxChanges,      \* bound: changes of the world's findings
  MaxStops,        \* bound: kills and orderly stops of the console
  MaxTroubles      \* bound: calls that fail and ticks that begin beside another

Codes == {Unreachable} \cup EngineCodes \cup OtherCodes

\* close() saves beside the ticks.
Slots == Ticks \cup {"close"}

ASSUME ConstantsOK ==
  /\ Unreachable \notin EngineCodes \cup OtherCodes
  /\ EngineCodes \cap OtherCodes = {}
  /\ IsFiniteSet(EngineCodes) /\ IsFiniteSet(OtherCodes)
  /\ Severities \subseteq 1 .. 2
  /\ Threshold \in Nat \ {0}
  /\ Cap \in Nat \ {0}
  /\ "close" \notin Ticks
  /\ MaxChanges \in Nat
  /\ MaxStops \in Nat
  /\ MaxTroubles \in Nat
  /\ \A x \in {NoState, Torn} :
       x \notin [seen : [Codes -> 0 .. 2],
                history : Seq([code : Codes, severity : 0 .. 2])]

VARIABLES
  world,           \* what a checkup of a reachable engine would find now
  up,              \* the console process: "up", "closing" or "down"
  pc,              \* where each slot is
  found,           \* the checkup each slot holds
  core,            \* the {seen, history} each slot is saving
  news,            \* the events each slot has still to post
  seen,            \* alertSeen, and the findings of lastCheckup
  history,         \* alertHistory
  streak,          \* unreachable.streak, counted up to Threshold
  lastCore,        \* alertStore.lastCore
  file,            \* <stateDir>/alerts.json
  tmp,             \* alerts.json.tmp-<pid>, the same name for every save
  heard,           \* Slack: the last event posted for each code
  told,            \* history: the worst severity posted in each code's spell
  replayed,        \* history: codes announced twice in one spell
  mishaps,         \* history: what went wrong so far
  changes, stops, troubles

process == <<up, pc, found, core, news, seen, history, streak, lastCore>>
disk    == <<file, tmp>>
slack   == <<heard, told, replayed>>
vars    == <<world, process, disk, slack, mishaps, changes, stops, troubles>>

Quiet   == [c \in Codes |-> 0]
Worlds  == {w \in [Codes -> 0 .. 2] :
              /\ w[Unreachable] \in {0, 2}
              /\ \A c \in Codes \ {Unreachable} : w[c] \in {0} \cup Severities}
Min2(m, n) == IF m < n THEN m ELSE n

Init ==
  /\ world = Quiet
  /\ up = "down"
  /\ pc = [t \in Slots |-> "idle"]
  /\ found = [t \in Slots |-> Quiet]
  /\ core = [t \in Slots |-> NoState]
  /\ news = [t \in Slots |-> <<>>]
  /\ seen = Quiet
  /\ history = <<>>
  /\ streak = 0
  /\ lastCore = NoState
  /\ file = NoState
  /\ tmp = NoState
  /\ heard = Quiet
  /\ told = Quiet
  /\ replayed = {}
  /\ mishaps = {}
  /\ changes = 0
  /\ stops = 0
  /\ troubles = 0

Goto(t, label) == pc' = [pc EXCEPT ![t] = label]

Trouble(kind) ==
  /\ troubles < MaxTroubles
  /\ troubles' = troubles + 1
  /\ mishaps' = mishaps \cup {kind}

\* Slot t gets going, beside another or alone.
Enter(t) ==
  IF \E u \in Slots \ {t} : pc[u] # "idle"
  THEN Trouble("overlap")
  ELSE UNCHANGED <<mishaps, troubles>>

-----------------------------------------------------------------------------
(***************************************************************************)
(* The loop.                                                                *)
(***************************************************************************)
\* What runCheckup finds.  The rules on the engine's status are skipped when
\* there is no status, and there is none when /healthz did not answer.
Checkup ==
  [c \in Codes |->
     IF c \in EngineCodes /\ world[Unreachable] > 0 THEN 0 ELSE world[c]]

\* A bug: only the feed is restored.
ListenForgettingSeen ==
  /\ up = "down"
  /\ up' = "up"
  /\ IF file \in {NoState, Torn}
     THEN UNCHANGED <<history, lastCore>>
     ELSE history' = file.history /\ lastCore' = file
  /\ UNCHANGED <<world, pc, found, core, news, seen, streak, disk, slack,
                 mishaps, changes, stops, troubles>>

\* listen(): the feed is restored before the first tick.
Listen ==
  /\ up = "down"
  /\ up' = "up"
  /\ IF file \in {NoState, Torn}
     THEN UNCHANGED <<seen, history, lastCore>>
     ELSE /\ seen' = file.seen
          /\ history' = file.history
          /\ lastCore' = file
  /\ UNCHANGED <<world, pc, found, core, news, streak, disk, slack,
                 mishaps, changes, stops, troubles>>

\* A tick of the timer: the checkup is read now and comes back later.
Begin(t) ==
  /\ up = "up"
  /\ pc[t] = "idle"
  /\ found' = [found EXCEPT ![t] = Checkup]
  /\ Goto(t, "checked")
  /\ Enter(t)
  /\ UNCHANGED <<world, up, core, news, seen, history, streak, lastCore,
                 disk, slack, changes, stops>>

CheckFails(t) ==
  /\ pc[t] = "checked"
  /\ troubles < MaxTroubles
  /\ troubles' = troubles + 1
  /\ found' = [found EXCEPT ![t] = Quiet]
  /\ Goto(t, "idle")
  /\ UNCHANGED <<world, up, core, news, seen, history, streak, lastCore,
                 disk, slack, mishaps, changes, stops>>

NextStreak(f) ==
  IF f[Unreachable] = 0 THEN 0 ELSE Min2(streak + 1, Threshold)

\* debounceUnreachable, given the streak after this checkup.
Debounced(f, n) ==
  IF n < Threshold THEN [f EXCEPT ![Unreachable] = 0] ELSE f

\* A bug: a warning that becomes critical is not announced.
AlertsOnNewCodes(now) == {c \in Codes : seen[c] = 0 /\ now[c] > 0}

\* diffFindings: alerts for what appeared or rose, recoveries for what went.
Alerts(now)     == {c \in Codes : now[c] > seen[c]}
Recovers(now)   == {c \in Codes : seen[c] > 0 /\ now[c] = 0}
EventsOf(C, now) ==
  SetToSeq({[code |-> c, severity |-> now[c]] : c \in C})
Diff(now)       == EventsOf(Alerts(now), now) \o EventsOf(Recovers(now), now)

LastOf(s, n) == SubSeq(s, Len(s) - Min2(Len(s), n) + 1, Len(s))

State(s, h) == [seen |-> s, history |-> LastOf(h, Cap)]

AfterSave(events) == IF events = <<>> THEN "idle" ELSE "post"

\* A bug: a tick without events returns before it saves.
StartSaveOfEvents(t, s, h, events) ==
  IF events = <<>>
  THEN Goto(t, "idle") /\ UNCHANGED core
  ELSE Goto(t, "write") /\ core' = [core EXCEPT ![t] = State(s, h)]

\* The first, synchronous part of alertStore.save: a state that was the last
\* one written is not written again.
StartSave(t, s, h, events) ==
  IF State(s, h) = lastCore
  THEN /\ Goto(t, AfterSave(events))
       /\ UNCHANGED core
  ELSE /\ Goto(t, "write")
       /\ core' = [core EXCEPT ![t] = State(s, h)]

\* The tick after its checkup came back, down to the await in save.
Apply(t) ==
  LET n   == NextStreak(found[t])
      now == Debounced(found[t], n)
      h   == LastOf(history \o Diff(now), Cap)
  IN /\ t \in Ticks
     /\ pc[t] = "checked"
     /\ streak' = n
     /\ seen' = now
     /\ history' = h
     /\ news' = [news EXCEPT ![t] = Diff(now)]
     /\ found' = [found EXCEPT ![t] = Quiet]
     /\ StartSave(t, now, h, Diff(now))
     /\ UNCHANGED <<world, up, lastCore, disk, slack, mishaps, changes, stops,
                    troubles>>

Write(t) ==
  /\ pc[t] = "write"
  /\ tmp' = core[t]
  /\ Goto(t, "rename")
  /\ UNCHANGED <<world, up, found, core, news, seen, history, streak, lastCore,
                 file, slack, mishaps, changes, stops, troubles>>

\* The rename finds no file when another save has already moved it.
Rename(t) ==
  /\ pc[t] = "rename"
  /\ IF tmp = NoState
     THEN UNCHANGED <<disk, lastCore>>
     ELSE /\ file' = tmp
          /\ tmp' = NoState
          /\ lastCore' = core[t]
  /\ core' = [core EXCEPT ![t] = NoState]
  /\ Goto(t, AfterSave(news[t]))
  /\ UNCHANGED <<world, up, found, news, seen, history, streak, slack,
                 mishaps, changes, stops, troubles>>

\* A bug: lastCore is set whether or not the write succeeds.
SaveFailsUnnoticed(t) ==
  /\ pc[t] \in {"write", "rename"}
  /\ Trouble("save")
  /\ lastCore' = core[t]
  /\ core' = [core EXCEPT ![t] = NoState]
  /\ Goto(t, AfterSave(news[t]))
  /\ UNCHANGED <<world, up, found, news, seen, history, streak, disk, slack,
                 changes, stops>>

\* mkdir, writeFile or rename fails, and the save gives up in silence.
SaveFails(t) ==
  /\ pc[t] \in {"write", "rename"}
  /\ Trouble("save")
  /\ IF pc[t] = "write" THEN tmp' \in {tmp, Torn} ELSE UNCHANGED tmp
  /\ core' = [core EXCEPT ![t] = NoState]
  /\ Goto(t, AfterSave(news[t]))
  /\ UNCHANGED <<world, up, found, news, seen, history, streak, lastCore,
                 file, slack, changes, stops>>

\* The tick goes on to its next event, or ends.
Advance(t, left) ==
  /\ news' = [news EXCEPT ![t] = left]
  /\ Goto(t, AfterSave(left))

\* Slack hears an event.  told never exceeds what the world shows now: an alert
\* that comes after its finding cleared announces no spell.
Hears(e) ==
  /\ heard' = [heard EXCEPT ![e.code] = e.severity]
  /\ told' = [told EXCEPT ![e.code] =
       IF e.severity > @ THEN Min2(e.severity, world[e.code]) ELSE @]
  /\ replayed' = IF e.severity > 0 /\ e.severity <= told[e.code]
                 THEN replayed \cup {e.code} ELSE replayed

\* A bug: only a tick's first event is posted.
PostFirst(t) ==
  /\ pc[t] = "post"
  /\ Hears(Head(news[t]))
  /\ Advance(t, <<>>)
  /\ UNCHANGED <<world, up, found, core, seen, history, streak, lastCore,
                 disk, mishaps, changes, stops, troubles>>

Post(t) ==
  /\ pc[t] = "post"
  /\ Hears(Head(news[t]))
  /\ Advance(t, Tail(news[t]))
  /\ UNCHANGED <<world, up, found, core, seen, history, streak, lastCore,
                 disk, mishaps, changes, stops, troubles>>

\* A post fails and is not tried again, or the webhook cannot be read and the
\* tick's events are dropped.
PostFails(t) ==
  /\ pc[t] = "post"
  /\ Trouble("slack")
  /\ \E left \in {Tail(news[t]), <<>>} : Advance(t, left)
  /\ UNCHANGED <<world, up, found, core, seen, history, streak, lastCore,
                 disk, slack, changes, stops>>

-----------------------------------------------------------------------------
(***************************************************************************)
(* The console's life, and the world it watches.                            *)
(***************************************************************************)
\* close(): no further ticks, one last save; those in flight go on.
Close ==
  /\ up = "up"
  /\ stops < MaxStops
  /\ stops' = stops + 1
  /\ up' = "closing"
  /\ StartSave("close", seen, history, <<>>)
  /\ Enter("close")
  /\ UNCHANGED <<world, found, news, seen, history, streak, lastCore,
                 disk, slack, changes>>

\* The process is gone, with all it held.  A new one has a tmp name of its own.
Gone ==
  /\ up' = "down"
  /\ pc' = [t \in Slots |-> "idle"]
  /\ found' = [t \in Slots |-> Quiet]
  /\ core' = [t \in Slots |-> NoState]
  /\ news' = [t \in Slots |-> <<>>]
  /\ seen' = Quiet
  /\ history' = <<>>
  /\ streak' = 0
  /\ lastCore' = NoState
  /\ tmp' = NoState
  /\ mishaps' = IF \E t \in Slots : news[t] # <<>>
                THEN mishaps \cup {"lost"} ELSE mishaps
  /\ UNCHANGED <<world, file, slack, changes, troubles>>

Exit ==
  /\ up = "closing"
  /\ pc["close"] = "idle"
  /\ Gone
  /\ UNCHANGED stops

Kill ==
  /\ up = "up"
  /\ stops < MaxStops
  /\ stops' = stops + 1
  /\ Gone

\* A finding appears, rises, falls or clears.
Change ==
  /\ changes < MaxChanges
  /\ changes' = changes + 1
  /\ \E w \in Worlds, c \in Codes :
       /\ w[c] # world[c]
       /\ \A d \in Codes \ {c} : w[d] = world[d]
       /\ world' = w
  /\ told' = [c \in Codes |-> Min2(told[c], world'[c])]
  /\ UNCHANGED <<process, disk, heard, replayed, mishaps, stops, troubles>>

Save(t) == Write(t) \/ Rename(t) \/ SaveFails(t)
Step(t) == CheckFails(t) \/ Apply(t) \/ Save(t) \/ Post(t) \/ PostFails(t)

Next ==
  \/ Listen \/ Close \/ Exit \/ Kill \/ Change
  \/ \E t \in Ticks : Begin(t)
  \/ \E t \in Slots : Step(t)

\* The timer goes on firing, every call comes back, and a console that stopped
\* is started again.
Fairness ==
  /\ WF_vars(Listen)
  /\ WF_vars(Exit)
  /\ WF_vars(\E t \in Ticks : Begin(t))
  /\ \A t \in Slots : WF_vars(Step(t))

Spec == Init /\ [][Next]_vars
FairSpec == Spec /\ Fairness

-----------------------------------------------------------------------------
(***************************************************************************)
(* Properties.                                                              *)
(***************************************************************************)
\* The feed's i-th event is its last word on that event's code.
IsLastWord(h, i) == \A j \in i + 1 .. Len(h) : h[j].code # h[i].code

\* Between two recoveries of a code there is an alert.
AlertsBetween(h) ==
  \A i, j \in DOMAIN h :
    /\ i < j /\ h[i].code = h[j].code
    /\ h[i].severity = 0 /\ h[j].severity = 0
    => \E k \in i + 1 .. j - 1 : h[k].code = h[i].code /\ h[k].severity > 0

FeedMatches(s, h) ==
  /\ \A i \in DOMAIN h :
       IsLastWord(h, i) =>
         /\ (s[h[i].code] > 0) <=> (h[i].severity > 0)
         /\ s[h[i].code] <= h[i].severity
  /\ AlertsBetween(h)

\* The event feed and the map of seen findings tell one story, in memory and in
\* the file, whatever ticks overlap, saves fail and restarts fall between: a
\* code is seen exactly when the feed's last word on it is an alert, and no
\* code recovers twice in a row (server.ts:158-175, alert-store.ts:36-77).
FeedMatchesSeen ==
  /\ FeedMatches(seen, history)
  /\ file \in {NoState, Torn} \/ FeedMatches(file.seen, file.history)

\* Unless ticks overlapped, what the store takes for the last state written is
\* what the file holds: a save it skips as unchanged loses nothing
\* (alert-store.ts:26, 62, 73).
SkippedSaveIsOnDisk ==
  up = "up" /\ lastCore # NoState /\ "overlap" \notin mishaps
    => file = lastCore

\* A finding that does not come from the engine is announced once however often
\* the console is restarted or killed, unless a save failed or ticks overlapped
\* (server.ts:111-117 restores, :175-180 saves before it posts).
ToldOnce ==
  mishaps \cap {"overlap", "save"} = {} => replayed \cap OtherCodes = {}

\* With no tick in flight and nothing gone wrong, Slack's last word on a code is
\* the feed's (server.ts:175-180).
SlackMatchesFeed ==
  up = "up" /\ (\A t \in Ticks : pc[t] = "idle") /\ mishaps = {} =>
    \A i \in DOMAIN history :
      IsLastWord(history, i) => heard[history[i].code] = history[i].severity

\* Once findings and console stay as they are, the feed and, unless ticks
\* overlapped, the file come to show what the checkups find (server.ts:151-184;
\* alert-store.ts:76 "retried").
FeedCatchesUp ==
  <>[](/\ seen = Checkup
       /\ "overlap" \in mishaps \/ file = State(seen, history))
=============================================================================

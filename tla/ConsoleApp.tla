----------------------------- MODULE ConsoleApp -----------------------------
(***************************************************************************)
(* The console's single-page application (cli/console/src): one tab, its    *)
(* screens, the views it polls from the backend, and the calls its buttons  *)
(* start.  Calls and polls are answered late, in any order or not at all,   *)
(* while the user goes on clicking and others change the same engine.       *)
(*                                                                          *)
(* The engine status and the branch listing, polled and invalidated         *)
(* together, are one view here; the listing of snapshots, which no call     *)
(* rests on while a newer one can be had, is any earlier one.               *)
(***************************************************************************)
EXTENDS Naturals, Sequences, SequencesExt

CONSTANTS
  Branches, Root,
  Live,            \* the branch served from the sync target, or None
  Statements,
  Calls,           \* slots for calls in flight
  None,
  Limit,           \* HISTORY_LIMIT
  MaxClicks,       \* bound: things the user does
  MaxChanges,      \* bound: changes of clones by others
  MaxSnaps,        \* bound: snapshots of the pool
  MaxTroubles      \* bound: calls, polls and waits that fail

ASSUME AppConstantsOK ==
  /\ Root \in Branches /\ Live \in {Root, None} /\ None \notin Branches
  /\ Limit \in Nat \ {0}
  /\ {MaxClicks, MaxChanges, MaxSnaps, MaxTroubles} \subseteq Nat

VARIABLES
  clones,          \* the engine: branches with a clone in state OK
  changes,         \* the engine: changes of clones so far
  snaps,           \* the engine: snapshots listed, numbered from 1
  status,          \* the view of clones, of which change it is, and if it has data
  errored,         \* the last poll of the status failed
  fetching,        \* the poll in flight, and what it has read
  screen,
  visit,           \* screens mounted so far
  dialog,          \* the confirmation or form that is open
  stored,          \* localStorage: the working branch
  history,         \* localStorage: statements run, newest first
  call,            \* the calls in flight
  owed,            \* history: the change the user was last told of
  clicks, troubles

engine   == <<clones, changes, snaps>>
views    == <<status, errored, fetching>>
page     == <<screen, visit, dialog>>
storage  == <<stored, history>>
bounds   == <<clicks, troubles>>
vars     == <<engine, views, page, storage, call, owed, bounds>>

NoFetch == [at |-> "none"]
Asked   == [at |-> "asked"]

Init ==
  /\ clones \in SUBSET (Branches \ {Live})
  /\ changes = 0
  /\ snaps \in 0 .. 1
  /\ status = [ready |-> {}, asOf |-> 0, loaded |-> FALSE]
  /\ errored = FALSE
  /\ fetching = Asked
  /\ screen = "branches"
  /\ visit = 0
  /\ dialog = None
  /\ stored = None
  /\ history = <<>>
  /\ call = [c \in Calls |-> None]
  /\ owed = 0
  /\ clicks = 0
  /\ troubles = 0

Clicks  == clicks < MaxClicks /\ clicks' = clicks + 1 /\ UNCHANGED troubles
Trouble == troubles < MaxTroubles /\ troubles' = troubles + 1 /\ UNCHANGED clicks

InFlight      == {c \in Calls : call[c] # None}
Pending(kind) == {c \in InFlight : call[c].kind = kind /\ call[c].visit = visit}

\* What useSelectedBranch offers, and the branch in play.
Offered  == status.ready \cup ({Live} \ {None})
Selected == IF stored \in Offered THEN stored ELSE None

-----------------------------------------------------------------------------
(***************************************************************************)
(* Views: polled, and read anew when a mutation has changed something.      *)
(***************************************************************************)
Poll ==
  /\ fetching = NoFetch
  /\ fetching' = Asked
  /\ UNCHANGED <<engine, status, errored, page, storage, call, owed, bounds>>

Read ==
  /\ fetching = Asked
  /\ fetching' = [at |-> "read", ready |-> clones, asOf |-> changes]
  /\ UNCHANGED <<engine, status, errored, page, storage, call, owed, bounds>>

\* A selection that is not offered any more is replaced by the first offer.
Reselect(offered) ==
  IF stored \in offered \/ offered = {} THEN UNCHANGED stored
  ELSE stored' \in offered /\ (Root \in offered => stored' = Root)

Land ==
  /\ fetching.at = "read"
  /\ fetching' = NoFetch
  /\ status' = [ready |-> fetching.ready, asOf |-> fetching.asOf, loaded |-> TRUE]
  /\ errored' = FALSE
  /\ Reselect(fetching.ready \cup ({Live} \ {None}))
  /\ UNCHANGED <<engine, page, history, call, owed, bounds>>

\* A poll that fails leaves what it would have replaced.
PollFails ==
  /\ fetching # NoFetch
  /\ Trouble
  /\ fetching' = NoFetch
  /\ errored' = TRUE
  /\ UNCHANGED <<engine, status, page, storage, call, owed>>

\* A bug: a poll in flight is trusted to bring the news.
RefreshJoining == fetching' = IF fetching = NoFetch THEN Asked ELSE fetching

\* The first poll, which has nothing to fall back on, is not dropped for another.
Joins == ~status.loaded /\ fetching # NoFetch

\* A poll in flight is dropped and the view is asked for once more.
Refresh == fetching' = IF Joins THEN fetching ELSE Asked

-----------------------------------------------------------------------------
(***************************************************************************)
(* What the user does.                                                      *)
(***************************************************************************)
Call(c, kind, b, at, sql) ==
  /\ call[c] = None
  /\ call' = [call EXCEPT ![c] =
       [kind |-> kind, branch |-> b, at |-> at, visit |-> visit, sql |-> sql,
        base |-> None, asOf |-> 0, before |-> 0, clicked |-> IF at = "listing" THEN snaps ELSE 0,
        blind |-> FALSE]]

\* A dialog of this visit whose call is pending cannot be left.
Busy == dialog # None /\ Pending(dialog.kind) # {}

\* Another screen.  The one that is left keeps neither its dialog nor its wait
\* for a snapshot; a statement in flight keeps the history it has last seen.
Navigate(s) ==
  /\ Clicks
  /\ s # screen
  /\ screen' = s
  /\ visit' = visit + 1
  /\ dialog' = None
  /\ call' = [c \in Calls |->
       IF c \notin InFlight THEN None
       ELSE IF call[c].kind = "snapshot" /\ call[c].at = "watching" THEN None
       ELSE IF call[c].kind = "query" /\ call[c].base = None
       THEN [call[c] EXCEPT !.base = history] ELSE call[c]]
  /\ UNCHANGED <<engine, views, storage, owed>>

\* Create clone, on the row of a branch without one; while the first poll is in
\* flight there are no rows.
EnsureClone(c, b) ==
  /\ Clicks
  /\ screen = "branches" /\ dialog = None
  /\ ~Joins /\ b \notin Offered
  /\ \A d \in Pending("ensure") : call[d].branch # b
  /\ Call(c, "ensure", b, "sent", None)
  /\ UNCHANGED <<engine, views, page, storage, owed>>

\* Reset or delete on a row, or New branch.
Open(kind, b) ==
  /\ Clicks
  /\ screen = "branches" /\ dialog = None
  /\ \/ kind = "reset" /\ b \in status.ready \ {Live}
     \/ kind = "delete" /\ b \in status.ready \ {Live, Root}
     \/ kind = "create" /\ b # Live
  /\ dialog' = [kind |-> kind, branch |-> b]
  /\ UNCHANGED <<engine, views, screen, visit, storage, call, owed>>

\* A bug: the dialog can be left while its call is pending.
CancelAnyTime ==
  /\ Clicks
  /\ dialog # None
  /\ dialog' = None
  /\ UNCHANGED <<engine, views, screen, visit, storage, call, owed>>

Cancel ==
  /\ Clicks
  /\ dialog # None /\ ~Busy
  /\ dialog' = None
  /\ UNCHANGED <<engine, views, screen, visit, storage, call, owed>>

\* The dialog's call; a branch may be asked to start from a fresh snapshot.
Confirm(c) ==
  /\ Clicks
  /\ dialog # None /\ ~Busy
  /\ dialog.branch # None
  /\ \/ Call(c, dialog.kind, dialog.branch, "sent", None)
     \/ /\ dialog.kind = "create" /\ Live # None
        /\ Call(c, "create", dialog.branch, "listing", None)
  /\ UNCHANGED <<engine, views, page, storage, owed>>

SnapshotNow(c) ==
  /\ Clicks
  /\ screen = "snapshots" /\ Live # None
  /\ Pending("snapshot") = {}
  /\ Call(c, "snapshot", Root, "listing", None)
  /\ UNCHANGED <<engine, views, page, storage, owed>>

Select(b) ==
  /\ Clicks
  /\ b \in Offered \ {stored}
  /\ dialog = None
  /\ stored' = b
  /\ UNCHANGED <<engine, views, page, history, call, owed>>

Execute(c, sql) ==
  /\ Clicks
  /\ screen = "sql"
  /\ Selected # None
  /\ Pending("query") = {}
  /\ Call(c, "query", Selected, "sent", sql)
  /\ UNCHANGED <<engine, views, page, storage, owed>>

ClearHistory ==
  /\ Clicks
  /\ screen = "sql" /\ history # <<>>
  /\ history' = <<>>
  /\ UNCHANGED <<engine, views, page, stored, call, owed>>

-----------------------------------------------------------------------------
(***************************************************************************)
(* A fresh snapshot: list, ask for one, and watch the listing for a new one.*)
(***************************************************************************)
\* A bug: what is on the page is taken for the listing.
ListBeforeFromPage(c) ==
  /\ c \in InFlight /\ call[c].at = "listing"
  /\ \E listed \in 0 .. snaps :
       call' = [call EXCEPT ![c].at = "asking", ![c].before = listed]
  /\ UNCHANGED <<engine, views, page, storage, owed, bounds>>

\* A listing that fails leaves the page's, or none: then any snapshot is new.
ListBefore(c) ==
  /\ c \in InFlight /\ call[c].at = "listing"
  /\ \/ /\ call' = [call EXCEPT ![c].at = "asking", ![c].before = snaps]
        /\ UNCHANGED bounds
     \/ /\ Trouble
        /\ \E listed \in IF call[c].kind = "snapshot" THEN 0 .. snaps ELSE {0} :
             call' = [call EXCEPT ![c].at = "asking", ![c].before = listed,
                                  ![c].blind = TRUE]
  /\ UNCHANGED <<engine, views, page, storage, owed>>

\* A screen that was left does not watch.
AskSnapshot(c) ==
  /\ c \in InFlight /\ call[c].at = "asking"
  /\ \/ /\ call' = [call EXCEPT ![c] =
              IF call[c].kind = "snapshot" /\ call[c].visit # visit THEN None
              ELSE [call[c] EXCEPT !.at = "watching"]]
        /\ UNCHANGED bounds
     \/ Trouble /\ call' = [call EXCEPT ![c] = None]
  /\ UNCHANGED <<engine, views, page, storage, owed>>

\* A new one is listed, or the deadline passes.
Watch(c) ==
  /\ c \in InFlight /\ call[c].at = "watching"
  /\ \/ /\ snaps > call[c].before
        /\ call' = [call EXCEPT ![c].at = "fresh"]
        /\ UNCHANGED bounds
     \/ Trouble /\ call' = [call EXCEPT ![c] = None]
  /\ UNCHANGED <<engine, views, page, storage, owed>>

\* The user is told, or the branch is created.
UseFresh(c) ==
  /\ c \in InFlight /\ call[c].at = "fresh"
  /\ \/ /\ call[c].kind = "snapshot"
        /\ call' = [call EXCEPT ![c] = None]
        /\ Refresh
     \/ /\ call[c].kind = "create"
        /\ call' = [call EXCEPT ![c].at = "sent"]
        /\ UNCHANGED fetching
  /\ UNCHANGED <<engine, status, errored, page, storage, owed, bounds>>

-----------------------------------------------------------------------------
(***************************************************************************)
(* The backend serves a call, and the tab gets the answer.                  *)
(***************************************************************************)
Serve(c) ==
  /\ c \in InFlight /\ call[c].at = "sent"
  /\ \/ /\ call[c].kind \in {"ensure", "create"}
        /\ clones' = clones \cup {call[c].branch}
     \/ /\ call[c].kind = "reset" /\ call[c].branch \in clones
        /\ UNCHANGED clones
     \/ /\ call[c].kind = "delete"
        /\ clones' = clones \ {call[c].branch}
  /\ changes' = changes + 1
  /\ call' = [call EXCEPT ![c].at = "done", ![c].asOf = changes']
  /\ UNCHANGED <<snaps, views, page, storage, owed, bounds>>

\* reset and delete close the dialog of their visit, whatever it shows; one that
\* has created a branch shows how to connect, and nothing to confirm.
Settle(c, kinds) ==
  dialog' = IF call[c].visit # visit \/ call[c].kind \notin kinds THEN dialog
            ELSE IF call[c].kind = "create" THEN [dialog EXCEPT !.branch = None]
            ELSE None

\* A bug: the newest entry is dropped whatever it is.
RecordReplacing(c) ==
  LET known == IF call[c].base = None THEN history ELSE call[c].base
      entry == [sql |-> call[c].sql, branch |-> call[c].branch]
  IN <<entry>> \o (IF known # <<>> THEN Tail(known) ELSE known)

\* The statement goes on top of the history its screen has last seen, unless it
\* is there; the oldest ones beyond the limit go.
Record(c) ==
  LET known == IF call[c].base = None THEN history ELSE call[c].base
      entry == [sql |-> call[c].sql, branch |-> call[c].branch]
      rest  == IF known # <<>> /\ Head(known) = entry THEN Tail(known) ELSE known
      all   == <<entry>> \o rest
  IN SubSeq(all, 1, IF Len(all) < Limit THEN Len(all) ELSE Limit)

\* What the first poll has read by then is all that it will show.
Answer(c) ==
  /\ c \in InFlight /\ call[c].at = "done"
  /\ call' = [call EXCEPT ![c] = None]
  /\ Settle(c, {"reset", "delete", "create"})
  /\ Refresh
  /\ owed' = IF call[c].asOf <= owed \/ (Joins /\ fetching # Asked) THEN owed
             ELSE call[c].asOf
  /\ UNCHANGED <<engine, status, errored, screen, visit, storage, bounds>>

\* A result, or the error of the statement: both are remembered.
ShowResult(c) ==
  /\ c \in InFlight /\ call[c].kind = "query"
  /\ call' = [call EXCEPT ![c] = None]
  /\ history' = Record(c)
  /\ UNCHANGED <<engine, views, page, stored, owed, bounds>>

\* The user is told of the failure; nothing is read again.
Fail(c) ==
  /\ c \in InFlight /\ call[c].at = "sent"
  /\ Trouble
  /\ call' = [call EXCEPT ![c] = None]
  /\ Settle(c, {"reset", "delete"})
  /\ UNCHANGED <<engine, views, screen, visit, storage, owed>>

-----------------------------------------------------------------------------
(***************************************************************************)
(* Others.                                                                  *)
(***************************************************************************)
Elsewhere(b) ==
  /\ changes < MaxChanges
  /\ changes' = changes + 1
  /\ clones' = IF b \in clones THEN clones \ {b} ELSE clones \cup {b}
  /\ UNCHANGED <<snaps, views, page, storage, call, owed, bounds>>

PoolGrows ==
  /\ snaps < MaxSnaps
  /\ snaps' = snaps + 1
  /\ UNCHANGED <<clones, changes, views, page, storage, call, owed, bounds>>

Screens == {"branches", "snapshots", "sql"}

Next ==
  \/ Poll \/ Read \/ Land \/ PollFails
  \/ \E s \in Screens : Navigate(s)
  \/ \E b \in Branches : Select(b)
  \/ \E b \in Branches \ {Live} : Elsewhere(b)
  \/ \E b \in Branches, kind \in {"reset", "delete", "create"} : Open(kind, b)
  \/ \E c \in Calls : Confirm(c) \/ SnapshotNow(c)
  \/ \E c \in Calls, b \in Branches : EnsureClone(c, b)
  \/ \E c \in Calls, sql \in Statements : Execute(c, sql)
  \/ \E c \in Calls : ListBefore(c) \/ AskSnapshot(c) \/ Watch(c) \/ UseFresh(c)
  \/ \E c \in Calls : Serve(c) \/ Answer(c) \/ ShowResult(c) \/ Fail(c)
  \/ Cancel \/ ClearHistory \/ PoolGrows

Spec == Init /\ [][Next]_vars

-----------------------------------------------------------------------------
(***************************************************************************)
(* Properties.                                                              *)
(***************************************************************************)
\* Once the views are at rest they show every change the user was told of: a
\* poll that had read before the change does not land after it, except the first
\* one, which is not cancelled (queries.ts:170-178).
RefreshShowsChange ==
  fetching = NoFetch /\ ~errored => status.asOf >= owed

\* A dialog that has started a call stays until that call is answered, and an
\* answer closes no other dialog, whatever is clicked meanwhile
\* (Branches.tsx:74-92, 210-230, Dialog.tsx:50-57).
DialogWaitsForItsAnswer ==
  [][\A c \in InFlight :
       /\ call[c].visit = visit /\ visit' = visit
       /\ dialog # None /\ dialog' # dialog
       /\ \/ call[c].kind = dialog.kind
          \/ call'[c] = None
       => /\ call[c].kind = dialog.kind /\ call[c].branch = dialog.branch
          /\ call'[c] = None]_vars

\* "Fresh" means newer than the click, for the screen's button and for a new
\* branch alike, unless the first listing failed
\* (NewBranchDialog.tsx:34-64, Snapshots.tsx:57-79).
FreshMeansNew ==
  \A c \in InFlight :
    call[c].at = "fresh" => snaps > call[c].clicked \/ call[c].blind

\* A statement leaves the history when it is cleared or full, not because
\* another was run beside it, unless its screen was left while it ran
\* (SqlEditor.tsx:34-50).
HistoryKeepsStatements ==
  [][\A e \in ToSet(history) \ ToSet(history') :
       \/ history' = <<>> \/ Len(history) = Limit
       \/ \E c \in InFlight : call[c].base # None /\ call'[c] = None]_vars
=============================================================================

-------------------------- MODULE ConsoleAppProofs --------------------------
(***************************************************************************)
(* What TLAPS proves of ConsoleApp, for every value of its constants: any   *)
(* number of branches and of calls in flight, and any length of history.    *)
(***************************************************************************)
EXTENDS ConsoleApp, SequenceTheorems, TLAPS

USE DEF engine, views, page, storage, bounds, vars

\* The actions, one by one: what a proof about Next has to go through.
LEMMA NextCases ==
  ASSUME [Next]_vars
  PROVE  \/ Poll \/ Read \/ Land \/ PollFails
         \/ \E s \in Screens : Navigate(s)
         \/ \E b \in Branches : Select(b) \/ Elsewhere(b)
         \/ \E b \in Branches, kind \in {"reset", "delete", "create"} : Open(kind, b)
         \/ \E c \in Calls : Confirm(c) \/ SnapshotNow(c)
         \/ \E c \in Calls, b \in Branches : EnsureClone(c, b)
         \/ \E c \in Calls, sql \in Statements : Execute(c, sql)
         \/ \E c \in Calls : ListBefore(c) \/ AskSnapshot(c) \/ Watch(c) \/ UseFresh(c)
         \/ \E c \in Calls : Serve(c) \/ Answer(c) \/ ShowResult(c) \/ Fail(c)
         \/ Cancel \/ ClearHistory \/ PoolGrows
         \/ UNCHANGED vars
  BY DEF Next

-----------------------------------------------------------------------------
(* Types *)

DialogKinds == {"reset", "delete", "create"}
Kinds  == DialogKinds \cup {"ensure", "snapshot", "query"}
Stages == {"sent", "listing", "asking", "watching", "fresh", "done"}
Entry  == [sql : Statements \cup {None}, branch : Branches]
ACall  == [kind : Kinds, branch : Branches, at : Stages, visit : Nat,
           sql : Statements \cup {None}, base : Seq(Entry) \cup {None},
           asOf : Nat, before : Nat, clicked : Nat, blind : BOOLEAN]

TypeOK ==
  /\ clones \subseteq Branches
  /\ changes \in Nat
  /\ snaps \in Nat
  /\ status \in [ready : SUBSET Branches, asOf : Nat, loaded : BOOLEAN]
  /\ fetching \in {NoFetch, Asked} \cup [at : {"read"}, ready : SUBSET Branches, asOf : Nat]
  /\ visit \in Nat
  /\ dialog \in [kind : DialogKinds, branch : Branches \cup {None}] \cup {None}
  /\ history \in Seq(Entry) /\ Len(history) <= Limit
  /\ call \in [Calls -> ACall \cup {None}]
  /\ owed \in Nat

Becomes(c, r) == call' = [call EXCEPT ![c] = r]

\* A call just started.
LEMMA NewCall ==
  ASSUME TypeOK, NEW c \in Calls, NEW kind \in Kinds, NEW b \in Branches,
         NEW at \in {"sent", "listing"}, NEW sql \in Statements \cup {None},
         Call(c, kind, b, at, sql)
  PROVE  \E r \in ACall :
           /\ Becomes(c, r)
           /\ call[c] = None
           /\ r.kind = kind /\ r.branch = b /\ r.at = at /\ r.visit = visit
           /\ r.asOf = 0 /\ r.base = None
           /\ r.clicked = IF at = "listing" THEN snaps ELSE 0
<1> DEFINE r == [kind |-> kind, branch |-> b, at |-> at, visit |-> visit, sql |-> sql,
                 base |-> None, asOf |-> 0, before |-> 0,
                 clicked |-> IF at = "listing" THEN snaps ELSE 0, blind |-> FALSE]
<1>1. r \in ACall
  BY Zenon DEF ACall, Stages, TypeOK
<1>2. Becomes(c, r) /\ call[c] = None
  BY DEF Call, Becomes
<1> QED
  BY <1>1, <1>2

\* The statement on top of the history its screen has last seen.
Known(c) == IF call[c].base = None THEN history ELSE call[c].base
NewEntry(c) == [sql |-> call[c].sql, branch |-> call[c].branch]

LEMMA RecordIs ==
  ASSUME TypeOK, NEW c \in InFlight
  PROVE  /\ Record(c) \in Seq(Entry) /\ Len(Record(c)) <= Limit
         /\ Len(Known(c)) < Limit => ToSet(Known(c)) \subseteq ToSet(Record(c))
<1> DEFINE known == Known(c)
           entry == NewEntry(c)
           rest  == IF known # <<>> /\ Head(known) = entry THEN Tail(known) ELSE known
           all   == <<entry>> \o rest
           n     == IF Len(all) < Limit THEN Len(all) ELSE Limit
<1>1. call[c] \in ACall /\ Limit \in Nat \ {0}
  BY AppConstantsOK DEF InFlight, TypeOK
<1>2. known \in Seq(Entry) /\ entry \in Entry
  BY <1>1 DEF Known, NewEntry, ACall, Entry, TypeOK
<1>3. Record(c) = SubSeq(all, 1, n)
  BY DEF Record, Known, NewEntry
<1> HIDE DEF known, entry
<1>4. /\ rest \in Seq(Entry) /\ Len(rest) \in Nat
      /\ Len(rest) <= Len(known) /\ Len(known) \in Nat
  BY <1>2, HeadTailProperties
<1> HIDE DEF rest
<1>5. /\ all \in Seq(Entry) /\ Len(all) = 1 + Len(rest) /\ Len(all) \in Nat
      /\ all[1] = entry
      /\ \A j \in 1 .. Len(rest) : all[j + 1] = rest[j]
  <2>1. <<entry>> \in Seq(Entry) /\ Len(<<entry>>) = 1 /\ <<entry>>[1] = entry
    BY <1>2
  <2>2. /\ all \in Seq(Entry) /\ Len(all) = 1 + Len(rest)
        /\ \A j \in 1 .. Len(all) : all[j] = IF j <= 1 THEN <<entry>>[j] ELSE rest[j - 1]
    BY <1>4, <2>1, ConcatProperties
  <2> QED
    BY <1>4, <2>1, <2>2
<1> HIDE DEF all
<1>6. n \in Nat /\ n <= Len(all) /\ n <= Limit /\ 1 <= n /\ (Len(all) <= Limit => n = Len(all))
  BY <1>1, <1>4, <1>5
<1> HIDE DEF n
<1>7. /\ Record(c) \in Seq(Entry) /\ Len(Record(c)) = n
      /\ \A j \in 1 .. n : Record(c)[j] = all[j]
  <2>1. \A j \in 1 .. n : all[j] \in Entry
    BY <1>5, <1>6, ElementOfSeq
  <2>2. /\ SubSeq(all, 1, n) \in Seq(Entry)
        /\ Len(SubSeq(all, 1, n)) = IF 1 <= n THEN n - 1 + 1 ELSE 0
        /\ \A j \in 1 .. n - 1 + 1 : SubSeq(all, 1, n)[j] = all[1 + j - 1]
    BY <1>6, <2>1, SubSeqProperties
  <2> QED
    BY <1>3, <1>6, <2>2
<1>8. ASSUME Len(known) < Limit, NEW e \in ToSet(known)
      PROVE  e \in ToSet(Record(c))
  <2>1. n = Len(all)
    BY <1>1, <1>4, <1>5, <1>6, <1>8
  <2>2. DOMAIN Record(c) = 1 .. Len(all)
    BY <1>7, <2>1
  <2>3. PICK k \in 1 .. Len(known) : e = known[k]
    BY <1>2, <1>8 DEF ToSet
  <2>4. CASE rest = known
    <3>1. k + 1 \in 1 .. Len(all) /\ Record(c)[k + 1] = e
      BY <1>4, <1>5, <1>7, <2>1, <2>3, <2>4
    <3> QED
      BY <2>2, <3>1 DEF ToSet
  <2>5. CASE known # <<>> /\ Head(known) = entry /\ rest = Tail(known)
    <3>1. /\ known[1] = entry /\ Len(rest) = Len(known) - 1
          /\ \A j \in 1 .. Len(rest) : rest[j] = known[j + 1]
      BY <1>2, <2>5, HeadTailProperties
    <3>2. k \in 1 .. Len(all) /\ all[k] = e
      <4>1. CASE k = 1
        BY <1>4, <1>5, <2>3, <3>1, <4>1
      <4>2. CASE k # 1
        <5>1. k - 1 \in 1 .. Len(rest) /\ (k - 1) + 1 = k
          BY <1>4, <2>3, <3>1, <4>2
        <5>2. all[(k - 1) + 1] = rest[k - 1] /\ rest[k - 1] = known[(k - 1) + 1]
          BY <1>5, <3>1, <5>1
        <5>3. k \in 1 .. Len(all)
          BY <1>4, <1>5, <2>3, <3>1
        <5> QED
          BY <2>3, <5>1, <5>2, <5>3
      <4> QED
        BY <4>1, <4>2
    <3> QED
      BY <1>7, <2>1, <2>2, <3>2 DEF ToSet
  <2> QED
    BY <2>4, <2>5 DEF rest
<1> QED
  BY <1>6, <1>7, <1>8 DEF known

\* What a stage of a call leaves of it.
LEMMA CallStep ==
  ASSUME TypeOK, NEW c \in Calls, NEW r \in ACall \cup {None}, Becomes(c, r)
  PROVE  /\ call' \in [Calls -> ACall \cup {None}]
         /\ call'[c] = r
         /\ \A d \in Calls : d # c => call'[d] = call[d]
  BY DEF TypeOK, Becomes

\* Any stage of a call but its end.
Moved(r, s) ==
  /\ s \in ACall
  /\ s.kind = r.kind /\ s.branch = r.branch /\ s.visit = r.visit
  /\ s.base = r.base /\ s.clicked = r.clicked

LEMMA ListBeforeIs ==
  ASSUME TypeOK, NEW c \in Calls, ListBefore(c)
  PROVE  \E s \in ACall :
           /\ c \in InFlight /\ Moved(call[c], s) /\ Becomes(c, s)
           /\ call[c].at = "listing" /\ s.at = "asking" /\ s.asOf = call[c].asOf
           /\ s.before = snaps \/ s.blind
<1>1. c \in InFlight /\ call[c] \in ACall /\ call[c].at = "listing" /\ snaps \in Nat
  BY DEF ListBefore, InFlight, TypeOK
<1>2. CASE call' = [call EXCEPT ![c].at = "asking", ![c].before = snaps]
  <2> DEFINE s == [call[c] EXCEPT !.at = "asking", !.before = snaps]
  <2>1. Becomes(c, s)
    BY <1>2 DEF Becomes
  <2>2. Moved(call[c], s) /\ s.at = "asking" /\ s.before = snaps /\ s.asOf = call[c].asOf
    BY <1>1 DEF Moved, ACall, Stages
  <2>3. s \in ACall
    BY <2>2 DEF Moved
  <2> HIDE DEF s
  <2> QED
    BY <1>1, <2>1, <2>2, <2>3
<1>3. CASE \E listed \in Nat :
             call' = [call EXCEPT ![c].at = "asking", ![c].before = listed, ![c].blind = TRUE]
  <2>1. PICK n \in Nat :
          call' = [call EXCEPT ![c].at = "asking", ![c].before = n, ![c].blind = TRUE]
    BY <1>3
  <2> DEFINE s == [call[c] EXCEPT !.at = "asking", !.before = n, !.blind = TRUE]
  <2>2. Becomes(c, s)
    BY <2>1 DEF Becomes
  <2>3. Moved(call[c], s) /\ s.at = "asking" /\ s.blind /\ s.asOf = call[c].asOf
    BY <1>1 DEF Moved, ACall, Stages
  <2>4. s \in ACall
    BY <2>3 DEF Moved
  <2> HIDE DEF s
  <2> QED
    BY <1>1, <2>2, <2>3, <2>4
<1>4. \A listed \in (IF call[c].kind = "snapshot" THEN 0 .. snaps ELSE {0}) : listed \in Nat
  BY <1>1
<1> QED
  BY <1>2, <1>3, <1>4 DEF ListBefore

LEMMA AskSnapshotIs ==
  ASSUME TypeOK, NEW c \in Calls, AskSnapshot(c)
  PROVE  \E s \in ACall \cup {None} :
           /\ c \in InFlight /\ Becomes(c, s)
           /\ call[c].at = "asking"
           /\ s # None =>
                /\ s \in ACall /\ Moved(call[c], s)
                /\ s.at = "watching" /\ s.asOf = call[c].asOf
                /\ s.before = call[c].before /\ s.blind = call[c].blind
<1>1. c \in InFlight /\ call[c] \in ACall /\ call[c].at = "asking"
  BY DEF AskSnapshot, InFlight, TypeOK
<1> DEFINE s == [call[c] EXCEPT !.at = "watching"]
<1>2. Moved(call[c], s) /\ s.at = "watching" /\ s.asOf = call[c].asOf
      /\ s.before = call[c].before /\ s.blind = call[c].blind
  BY <1>1 DEF Moved, ACall, Stages
<1>3. Becomes(c, None) \/ Becomes(c, s)
  BY DEF AskSnapshot, Becomes
<1>4. s \in ACall
  BY <1>2 DEF Moved
<1> HIDE DEF s
<1> QED
  BY <1>1, <1>2, <1>3, <1>4

LEMMA WatchIs ==
  ASSUME TypeOK, NEW c \in Calls, Watch(c)
  PROVE  \E s \in ACall \cup {None} :
           /\ c \in InFlight /\ Becomes(c, s)
           /\ call[c].at = "watching"
           /\ s # None =>
                /\ s \in ACall /\ Moved(call[c], s)
                /\ s.at = "fresh" /\ s.asOf = call[c].asOf
                /\ snaps > call[c].before /\ s.blind = call[c].blind
<1>1. c \in InFlight /\ call[c] \in ACall /\ call[c].at = "watching"
  BY DEF Watch, InFlight, TypeOK
<1> DEFINE s == [call[c] EXCEPT !.at = "fresh"]
<1>2. Moved(call[c], s) /\ s.at = "fresh" /\ s.asOf = call[c].asOf
      /\ s.blind = call[c].blind
  BY <1>1 DEF Moved, ACall, Stages
<1>3. \/ Becomes(c, None)
      \/ Becomes(c, s) /\ snaps > call[c].before
  BY DEF Watch, Becomes
<1>4. s \in ACall
  BY <1>2 DEF Moved
<1> HIDE DEF s
<1> QED
  BY <1>1, <1>2, <1>3, <1>4

LEMMA UseFreshIs ==
  ASSUME TypeOK, NEW c \in Calls, UseFresh(c)
  PROVE  \E s \in ACall \cup {None} :
           /\ c \in InFlight /\ Becomes(c, s)
           /\ s # None =>
                /\ s \in ACall /\ Moved(call[c], s)
                /\ s.at = "sent" /\ s.asOf = call[c].asOf
<1>1. c \in InFlight /\ call[c] \in ACall
  BY DEF UseFresh, InFlight, TypeOK
<1> DEFINE s == [call[c] EXCEPT !.at = "sent"]
<1>2. Moved(call[c], s) /\ s.at = "sent" /\ s.asOf = call[c].asOf
  BY <1>1 DEF Moved, ACall, Stages
<1>3. Becomes(c, None) \/ Becomes(c, s)
  BY DEF UseFresh, Becomes
<1>4. s \in ACall
  BY <1>2 DEF Moved
<1> HIDE DEF s
<1> QED
  BY <1>1, <1>2, <1>3, <1>4

LEMMA ServeIs ==
  ASSUME TypeOK, NEW c \in Calls, Serve(c)
  PROVE  /\ changes' = changes + 1
         /\ clones' \subseteq Branches
         /\ \E s \in ACall :
              /\ c \in InFlight /\ Becomes(c, s)
              /\ Moved(call[c], s) /\ s.at = "done" /\ s.asOf = changes'
<1>1. c \in InFlight /\ call[c] \in ACall /\ changes' = changes + 1 /\ changes' \in Nat
  BY DEF Serve, InFlight, TypeOK
<1> DEFINE s == [call[c] EXCEPT !.at = "done", !.asOf = changes']
<1>2. Moved(call[c], s) /\ s.at = "done" /\ s.asOf = changes'
  BY <1>1 DEF Moved, ACall, Stages
<1>3. Becomes(c, s)
  BY DEF Serve, Becomes
<1>4. clones' \subseteq Branches
  <2>1. call[c].branch \in Branches
    BY <1>1 DEF ACall
  <2> QED
    BY <2>1 DEF Serve, TypeOK
<1>5. s \in ACall
  BY <1>2 DEF Moved
<1> HIDE DEF s
<1> QED
  BY <1>1, <1>2, <1>3, <1>4, <1>5

LEMMA NavigateIs ==
  ASSUME TypeOK, NEW c \in Calls, NEW screenful, Navigate(screenful)
  PROVE  /\ visit' = visit + 1 /\ dialog' = None
         /\ call' \in [Calls -> ACall \cup {None}]
         /\ c \in InFlight' =>
              /\ c \in InFlight /\ call'[c].branch = call[c].branch
              /\ call'[c].kind = call[c].kind /\ call'[c].at = call[c].at
              /\ call'[c].visit = call[c].visit /\ call'[c].clicked = call[c].clicked
              /\ call'[c].before = call[c].before /\ call'[c].blind = call[c].blind
              /\ call'[c].asOf = call[c].asOf
<1> DEFINE After(d) == IF d \notin InFlight THEN None
                       ELSE IF call[d].kind = "snapshot" /\ call[d].at = "watching" THEN None
                       ELSE IF call[d].kind = "query" /\ call[d].base = None
                       THEN [call[d] EXCEPT !.base = history] ELSE call[d]
<1>1. visit' = visit + 1 /\ dialog' = None /\ call' = [d \in Calls |-> After(d)]
  BY DEF Navigate
<1>2. ASSUME NEW d \in Calls, d \in InFlight
      PROVE  LET s == [call[d] EXCEPT !.base = history]
             IN /\ s \in ACall
                /\ s.kind = call[d].kind /\ s.branch = call[d].branch /\ s.at = call[d].at
                /\ s.visit = call[d].visit /\ s.clicked = call[d].clicked
                /\ s.before = call[d].before /\ s.blind = call[d].blind
                /\ s.asOf = call[d].asOf
  BY <1>2 DEF InFlight, TypeOK, ACall
<1>3. \A d \in Calls : After(d) \in ACall \cup {None}
  <2> SUFFICES ASSUME NEW d \in Calls, d \in InFlight PROVE After(d) \in ACall \cup {None}
    OBVIOUS
  <2>1. call[d] \in ACall
    BY DEF InFlight, TypeOK
  <2> QED
    BY <1>2, <2>1
<1>4. c \in InFlight' => c \in InFlight /\ call'[c] = After(c) /\ After(c) # None
  BY <1>1 DEF InFlight
<1>5. ASSUME c \in InFlight'
      PROVE  \/ call'[c] = call[c]
             \/ call'[c] = [call[c] EXCEPT !.base = history]
  BY <1>4, <1>5
<1> QED
  BY <1>1, <1>2, <1>3, <1>4, <1>5

\* What the user starts.
Starts(c) ==
  \/ Confirm(c) \/ SnapshotNow(c)
  \/ \E b \in Branches : EnsureClone(c, b)
  \/ \E sql \in Statements : Execute(c, sql)

LEMMA StartsIs ==
  ASSUME TypeOK, NEW c \in Calls, Starts(c)
  PROVE  /\ UNCHANGED <<engine, views, page, storage, owed>>
         /\ \E r \in ACall :
              /\ Becomes(c, r) /\ call[c] = None
              /\ r.visit = visit /\ r.asOf = 0 /\ r.base = None
              /\ r.at = "sent" \/ (r.at = "listing" /\ r.clicked = snaps)
              /\ r.kind \in DialogKinds =>
                   /\ Confirm(c) /\ dialog # None /\ ~Busy
                   /\ r.kind = dialog.kind /\ r.branch = dialog.branch
<1>1. CASE Confirm(c)
  <2>1. /\ dialog # None /\ ~Busy
        /\ dialog.kind \in Kinds /\ dialog.branch \in Branches
    BY <1>1 DEF Confirm, TypeOK, Kinds
  <2>2. \E at \in {"sent", "listing"} : Call(c, dialog.kind, dialog.branch, at, None)
    BY <1>1 DEF Confirm
  <2>3. \E r \in ACall :
          /\ Becomes(c, r) /\ call[c] = None
          /\ r.kind = dialog.kind /\ r.branch = dialog.branch
          /\ r.visit = visit /\ r.asOf = 0 /\ r.base = None
          /\ r.at = "sent" \/ (r.at = "listing" /\ r.clicked = snaps)
    BY <2>1, <2>2, NewCall
  <2>4. UNCHANGED <<engine, views, page, storage, owed>>
    BY <1>1 DEF Confirm
  <2> QED
    BY <1>1, <2>1, <2>3, <2>4
<1>2. CASE SnapshotNow(c)
  <2>1. "snapshot" \in Kinds /\ "snapshot" \notin DialogKinds /\ Root \in Branches
    BY AppConstantsOK DEF Kinds, DialogKinds
  <2>2. Call(c, "snapshot", Root, "listing", None)
        /\ UNCHANGED <<engine, views, page, storage, owed>>
    BY <1>2 DEF SnapshotNow
  <2> QED
    BY <2>1, <2>2, NewCall
<1>3. ASSUME NEW b \in Branches, EnsureClone(c, b)
      PROVE  /\ UNCHANGED <<engine, views, page, storage, owed>>
             /\ \E r \in ACall :
                  /\ Becomes(c, r) /\ call[c] = None
                  /\ r.visit = visit /\ r.asOf = 0 /\ r.base = None
                  /\ r.at = "sent" /\ r.kind \notin DialogKinds
  <2>1. "ensure" \in Kinds /\ "ensure" \notin DialogKinds
    BY DEF Kinds, DialogKinds
  <2>2. Call(c, "ensure", b, "sent", None)
        /\ UNCHANGED <<engine, views, page, storage, owed>>
    BY <1>3 DEF EnsureClone
  <2> QED
    BY <2>1, <2>2, NewCall
<1>4. ASSUME NEW sql \in Statements, Execute(c, sql)
      PROVE  /\ UNCHANGED <<engine, views, page, storage, owed>>
             /\ \E r \in ACall :
                  /\ Becomes(c, r) /\ call[c] = None
                  /\ r.visit = visit /\ r.asOf = 0 /\ r.base = None
                  /\ r.at = "sent" /\ r.kind \notin DialogKinds
  <2>1. "query" \in Kinds /\ "query" \notin DialogKinds
    BY DEF Kinds, DialogKinds
  <2>2. Selected \in Branches
    BY <1>4, AppConstantsOK DEF Execute, Selected, Offered, TypeOK
  <2>3. Call(c, "query", Selected, "sent", sql)
        /\ UNCHANGED <<engine, views, page, storage, owed>>
    BY <1>4 DEF Execute
  <2> QED
    BY <2>1, <2>2, <2>3, NewCall
<1> QED
  BY <1>1, <1>2, <1>3, <1>4 DEF Starts

\* What ends a call.
Ends(c) == Answer(c) \/ ShowResult(c) \/ Fail(c)

LEMMA EndsIs ==
  ASSUME NEW c, Ends(c)
  PROVE  c \in InFlight /\ Becomes(c, None) /\ visit' = visit
  BY DEF Ends, Answer, ShowResult, Fail, Becomes

\* The steps that leave the calls alone.
Aside ==
  \/ Poll \/ Read \/ Land \/ PollFails
  \/ \E b \in Branches : Select(b) \/ Elsewhere(b)
  \/ \E b \in Branches, kind \in DialogKinds : Open(kind, b)
  \/ Cancel \/ ClearHistory \/ PoolGrows
  \/ UNCHANGED vars

LEMMA AsideIs == ASSUME Aside PROVE UNCHANGED <<call, visit>>
  BY DEF Aside, Poll, Read, Land, PollFails, Select, Elsewhere, Open, Cancel,
         ClearHistory, PoolGrows

LEMMA StepCases ==
  ASSUME [Next]_vars
  PROVE  \/ Aside
         \/ \E s \in Screens : Navigate(s)
         \/ \E c \in Calls : \/ Starts(c) \/ Ends(c) \/ ListBefore(c)
                             \/ AskSnapshot(c) \/ Watch(c) \/ UseFresh(c)
                             \/ Serve(c)
  BY NextCases DEF Aside, Starts, Ends, DialogKinds

LEMMA CallsTyped ==
  ASSUME TypeOK, [Next]_vars
  PROVE  call' \in [Calls -> ACall \cup {None}]
<1>1. CASE Aside
  BY <1>1, AsideIs DEF TypeOK
<1>2. ASSUME NEW s \in Screens, Navigate(s) PROVE call' \in [Calls -> ACall \cup {None}]
  <2>1. CASE Calls = {}
    BY <1>2, <2>1 DEF Navigate
  <2>2. ASSUME NEW c \in Calls PROVE call' \in [Calls -> ACall \cup {None}]
    BY <1>2, NavigateIs
  <2> QED
    BY <2>1, <2>2
<1>3. ASSUME NEW c \in Calls,
             \/ Starts(c) \/ Ends(c) \/ ListBefore(c) \/ AskSnapshot(c)
             \/ Watch(c) \/ UseFresh(c) \/ Serve(c)
      PROVE  \E r \in ACall \cup {None} : Becomes(c, r)
  BY <1>3, StartsIs, EndsIs, ListBeforeIs, AskSnapshotIs, WatchIs, UseFreshIs,
     ServeIs
<1> QED
  BY <1>1, <1>2, <1>3, CallStep, StepCases

\* A call of this visit that a dialog has started.
Awaited(c) == c \in InFlight /\ call[c].visit = visit /\ call[c].kind \in DialogKinds

\* Its dialog is open, and there is one such call at most.
DialogInv ==
  /\ \A c \in InFlight : call[c].visit <= visit
  /\ \A c \in Calls : Awaited(c) =>
       dialog # None /\ dialog.kind = call[c].kind /\ dialog.branch = call[c].branch
  /\ \A c, d \in Calls : Awaited(c) /\ Awaited(d) => c = d

LEMMA TypeInit == Init => TypeOK
<1> SUFFICES ASSUME Init PROVE TypeOK
  OBVIOUS
<1>1. history \in Seq(Entry) /\ Len(history) <= Limit
  BY AppConstantsOK DEF Init
<1>2. clones \subseteq Branches /\ snaps \in Nat
  BY DEF Init
<1> QED
  BY <1>1, <1>2 DEF Init, TypeOK

LEMMA TypeStep == TypeOK /\ DialogInv /\ [Next]_vars => TypeOK'
<1> SUFFICES ASSUME TypeOK, DialogInv, [Next]_vars PROVE TypeOK'
  OBVIOUS
<1>1. clones' \subseteq Branches /\ changes' \in Nat /\ snaps' \in Nat
  <2>1. ASSUME NEW c \in Calls, Serve(c) 
        PROVE  clones' \subseteq Branches /\ changes' \in Nat /\ snaps' \in Nat
    <3>1. clones' \subseteq Branches /\ changes' = changes + 1
      BY <2>1, ServeIs
    <3>2. snaps' = snaps
      BY <2>1 DEF Serve
    <3> QED
      BY <3>1, <3>2 DEF TypeOK
  <2>2. ASSUME NEW b \in Branches, Elsewhere(b)
        PROVE  clones' \subseteq Branches /\ changes' \in Nat /\ snaps' \in Nat
    BY <2>2 DEF Elsewhere, TypeOK
  <2>3. CASE PoolGrows
    BY <2>3 DEF PoolGrows, TypeOK
  <2>4. CASE UNCHANGED engine
    BY <2>4 DEF TypeOK
  <2> QED
    BY <2>1, <2>2, <2>3, <2>4, NextCases
    DEF Poll, Read, Land, PollFails, Navigate, Select, Open, Confirm, SnapshotNow,
        EnsureClone, Execute, ListBefore, AskSnapshot, Watch, UseFresh, Answer,
        ShowResult, Fail, Cancel, ClearHistory
<1>2. status' \in [ready : SUBSET Branches, asOf : Nat, loaded : BOOLEAN]
  <2>1. CASE Land
    BY <2>1 DEF Land, TypeOK, NoFetch, Asked
  <2>2. CASE UNCHANGED status
    BY <2>2 DEF TypeOK
  <2> QED
    BY <2>1, <2>2, NextCases
    DEF Poll, Read, PollFails, Navigate, Select, Elsewhere, Open, Confirm,
        SnapshotNow, EnsureClone, Execute, ListBefore, AskSnapshot, Watch,
        UseFresh, Serve, Answer, ShowResult, Fail, Cancel, ClearHistory, PoolGrows
<1>3. fetching' \in {NoFetch, Asked} \cup [at : {"read"}, ready : SUBSET Branches, asOf : Nat]
  <2>1. CASE Read
    BY <2>1 DEF Read, TypeOK
  <2>2. CASE fetching' \in {NoFetch, Asked} \/ UNCHANGED fetching
    BY <2>2 DEF TypeOK
  <2> QED
    BY <2>1, <2>2, NextCases
    DEF Poll, Land, PollFails, Navigate, Select, Elsewhere, Open, Confirm,
        SnapshotNow, EnsureClone, Execute, ListBefore, AskSnapshot, Watch,
        UseFresh, Serve, Answer, ShowResult, Fail, Cancel, ClearHistory,
        PoolGrows, Refresh
<1>4. visit' \in Nat
  <2>1. CASE visit' = visit + 1 \/ UNCHANGED visit
    BY <2>1 DEF TypeOK
  <2> QED
    BY <2>1, NextCases
    DEF Poll, Read, Land, PollFails, Navigate, Select, Elsewhere, Open, Confirm,
        SnapshotNow, EnsureClone, Execute, ListBefore, AskSnapshot, Watch,
        UseFresh, Serve, Answer, ShowResult, Fail, Cancel, ClearHistory, PoolGrows
<1>5. dialog' \in [kind : DialogKinds, branch : Branches \cup {None}] \cup {None}
  <2>1. ASSUME NEW c \in Calls, Answer(c)
        PROVE  dialog' \in [kind : DialogKinds, branch : Branches \cup {None}] \cup {None}
    <3>1. Settle(c, DialogKinds) /\ c \in InFlight
      BY <2>1 DEF Answer, DialogKinds
    <3>2. CASE Awaited(c)
      <4>1. dialog \in [kind : DialogKinds, branch : Branches \cup {None}]
        BY <3>2 DEF DialogInv, TypeOK
      <4>2. dialog' \in {None, [dialog EXCEPT !.branch = None]}
        BY <3>1, <3>2 DEF Settle, Awaited
      <4> QED
        BY <4>1, <4>2
    <3>3. CASE ~ Awaited(c)
      BY <3>1, <3>3 DEF Settle, Awaited, TypeOK
    <3> QED
      BY <3>2, <3>3
  <2>2. ASSUME NEW c \in Calls, Fail(c) PROVE dialog' \in {None, dialog}
    BY <2>2 DEF Fail, Settle
  <2>3. ASSUME NEW b \in Branches, NEW kind \in DialogKinds, Open(kind, b)
        PROVE  dialog' \in [kind : DialogKinds, branch : Branches \cup {None}]
    BY <2>3 DEF Open
  <2>4. CASE dialog' = None \/ UNCHANGED dialog
    BY <2>4 DEF TypeOK
  <2> QED
    BY <2>1, <2>2, <2>3, <2>4, NextCases, ZenonT(40)
    DEF Poll, Read, Land, PollFails, Navigate, Select, Elsewhere, Confirm,
        SnapshotNow, EnsureClone, Execute, ListBefore, AskSnapshot, Watch,
        UseFresh, Serve, ShowResult, Cancel, ClearHistory, PoolGrows,
        DialogKinds, TypeOK
<1>6. history' \in Seq(Entry) /\ Len(history') <= Limit
  <2>1. ASSUME NEW c \in Calls, ShowResult(c)
        PROVE  history' \in Seq(Entry) /\ Len(history') <= Limit
    BY <2>1, RecordIs DEF ShowResult
  <2>2. CASE history' = <<>>
    BY <2>2, AppConstantsOK
  <2>3. CASE UNCHANGED history
    BY <2>3 DEF TypeOK
  <2> QED
    BY <2>1, <2>2, <2>3, NextCases
    DEF Poll, Read, Land, PollFails, Navigate, Select, Elsewhere, Open, Confirm,
        SnapshotNow, EnsureClone, Execute, ListBefore, AskSnapshot, Watch,
        UseFresh, Serve, Answer, Fail, Cancel, ClearHistory, PoolGrows
<1>7. owed' \in Nat
  <2>1. ASSUME NEW c \in Calls, Answer(c) PROVE owed' \in Nat
    <3>1. call[c] \in ACall
      BY <2>1 DEF Answer, InFlight, TypeOK
    <3>2. call[c].asOf \in Nat
      BY <3>1 DEF ACall
    <3> QED
      BY <2>1, <3>2 DEF Answer, TypeOK
  <2>2. CASE UNCHANGED owed
    BY <2>2 DEF TypeOK
  <2> QED
    BY <2>1, <2>2, NextCases
    DEF Poll, Read, Land, PollFails, Navigate, Select, Elsewhere, Open, Confirm,
        SnapshotNow, EnsureClone, Execute, ListBefore, AskSnapshot, Watch,
        UseFresh, Serve, ShowResult, Fail, Cancel, ClearHistory, PoolGrows
<1>8. call' \in [Calls -> ACall \cup {None}]
  BY CallsTyped
<1> QED
  BY <1>1, <1>2, <1>3, <1>4, <1>5, <1>6, <1>7, <1>8 DEF TypeOK

-----------------------------------------------------------------------------
(* The dialog *)

LEMMA DialogInit == Init => DialogInv
  BY DEF Init, DialogInv, Awaited, InFlight

LEMMA DialogStep == TypeOK /\ DialogInv /\ [Next]_vars => DialogInv'
<1> SUFFICES ASSUME TypeOK, DialogInv, [Next]_vars PROVE DialogInv'
  OBVIOUS
<1>a. visit \in Nat /\ \A c \in InFlight : c \in Calls /\ call[c] \in ACall
  BY DEF InFlight, TypeOK
\* A step that moves a call on, and keeps its place.
<1>b. ASSUME NEW c \in InFlight, NEW s \in ACall \cup {None},
             Becomes(c, s), s # None => s \in ACall /\ Moved(call[c], s),
             UNCHANGED <<visit, dialog>>
      PROVE  DialogInv'
  <2>1. \A d \in InFlight' :
          d \in InFlight /\ call'[d].kind = call[d].kind
          /\ call'[d].visit = call[d].visit /\ call'[d].branch = call[d].branch
    BY <1>a, <1>b, CallStep DEF InFlight, Moved
  <2>2. \A d \in Calls : Awaited(d)' => Awaited(d) /\ call'[d].kind = call[d].kind
                                        /\ call'[d].branch = call[d].branch
    BY <1>b, <2>1 DEF Awaited
  <2> QED
    BY <1>b, <2>1, <2>2 DEF DialogInv
<1>1. CASE Aside
  <2>1. UNCHANGED <<call, visit>> /\ InFlight' = InFlight
        /\ \A c \in Calls : Awaited(c)' = Awaited(c)
    BY <1>1, AsideIs DEF InFlight, Awaited
  <2>2. dialog # None => dialog' = dialog \/ \A c \in Calls : ~ Awaited(c)
    <3>1. CASE Cancel
      BY <3>1 DEF Cancel, Busy, Pending, DialogInv, Awaited
    <3>2. CASE \E b \in Branches, kind \in DialogKinds : Open(kind, b)
      BY <3>2 DEF Open
    <3>3. CASE UNCHANGED dialog
      BY <3>3
    <3> QED
      BY <1>1, <3>1, <3>2, <3>3
      DEF Aside, Poll, Read, Land, PollFails, Select, Elsewhere, ClearHistory,
          PoolGrows
  <2> QED
    BY <2>1, <2>2 DEF DialogInv
<1>2. ASSUME NEW s \in Screens, Navigate(s) PROVE DialogInv'
  <2>1. ASSUME NEW c \in InFlight'
        PROVE  c \in InFlight /\ call'[c].visit = call[c].visit
    <3>1. c \in Calls
      BY <2>1 DEF InFlight
    <3> QED
      BY <1>2, <2>1, <3>1, NavigateIs
  <2>2. ASSUME NEW c \in InFlight'
        PROVE  call'[c].visit <= visit' /\ call'[c].visit # visit'
    <3>1. c \in InFlight /\ visit' = visit + 1
      BY <1>2, <2>1, <2>2, NavigateIs DEF InFlight
    <3>2. call[c].visit <= visit /\ call[c].visit \in Nat
      BY <1>a, <3>1 DEF DialogInv, ACall
    <3> QED
      BY <1>a, <2>1, <2>2, <3>1, <3>2
  <2> QED
    BY <2>2 DEF DialogInv, Awaited
<1>3. ASSUME NEW c \in Calls, Starts(c) PROVE DialogInv'
  <2>1. PICK r \in ACall :
          /\ Becomes(c, r) /\ call[c] = None
          /\ r.visit = visit
          /\ r.kind \in DialogKinds =>
               /\ dialog # None /\ ~Busy
               /\ r.kind = dialog.kind /\ r.branch = dialog.branch
    BY <1>3, StartsIs
  <2>2. UNCHANGED <<visit, dialog>>
    BY <1>3, StartsIs
  <2>3. call'[c] = r /\ \A d \in Calls : d # c => call'[d] = call[d]
    BY <2>1, CallStep
  <2>4. r.kind \in DialogKinds => \A d \in Calls : ~ Awaited(d)
    BY <2>1 DEF Busy, Pending, DialogInv, Awaited
  <2>5. \A d \in Calls : Awaited(d)' =>
          \/ d = c /\ r.kind \in DialogKinds
          \/ d # c /\ Awaited(d)
    BY <2>2, <2>3 DEF Awaited, InFlight
  <2>6. \A d \in InFlight' : call'[d].visit <= visit'
    <3> SUFFICES ASSUME NEW d \in InFlight' PROVE call'[d].visit <= visit'
      OBVIOUS
    <3>1. CASE d = c
      BY <1>a, <2>1, <2>2, <2>3, <3>1
    <3>2. CASE d # c
      BY <2>2, <2>3, <3>2 DEF InFlight, DialogInv
    <3> QED
      BY <3>1, <3>2
  <2>7. \A d \in Calls : Awaited(d)' =>
          dialog' # None /\ dialog'.kind = call'[d].kind
          /\ dialog'.branch = call'[d].branch
    BY <2>1, <2>2, <2>3, <2>5 DEF DialogInv
  <2>8. \A d, e \in Calls : Awaited(d)' /\ Awaited(e)' => d = e
    BY <2>4, <2>5 DEF DialogInv
  <2> QED
    BY <2>6, <2>7, <2>8 DEF DialogInv
<1>4. ASSUME NEW c \in Calls,
             ListBefore(c) \/ AskSnapshot(c) \/ Watch(c) \/ UseFresh(c) \/ Serve(c)
      PROVE  DialogInv'
  <2>1. UNCHANGED <<visit, dialog>>
    BY <1>4 DEF ListBefore, AskSnapshot, Watch, UseFresh, Serve
  <2>2. \E s \in ACall \cup {None} :
          /\ c \in InFlight /\ Becomes(c, s)
          /\ s # None => s \in ACall /\ Moved(call[c], s)
    BY <1>4, ListBeforeIs, AskSnapshotIs, WatchIs, UseFreshIs, ServeIs
  <2> QED
    BY <1>b, <2>1, <2>2
<1>5. ASSUME NEW c \in Calls, Ends(c) PROVE DialogInv'
  <2>1. c \in InFlight /\ Becomes(c, None) /\ visit' = visit
    BY <1>5, EndsIs
  <2>2. CASE dialog' = dialog
    BY <1>b, <2>1, <2>2
  <2>3. CASE dialog' # dialog
    <3>1. Awaited(c)
      BY <1>5, <2>3 DEF Ends, Answer, ShowResult, Fail, Settle, Awaited, DialogKinds
    <3>2. /\ call'[c] = None
          /\ \A d \in Calls : d # c => call'[d] = call[d]
      BY <2>1, CallStep
    <3>3. \A d \in Calls : ~ Awaited(d)'
      BY <2>1, <3>1, <3>2 DEF Awaited, InFlight, DialogInv
    <3>4. \A d \in InFlight' : call'[d].visit <= visit'
      BY <2>1, <3>2 DEF InFlight, DialogInv
    <3> QED
      BY <3>3, <3>4 DEF DialogInv
  <2> QED
    BY <2>2, <2>3
<1> QED
  BY <1>1, <1>2, <1>3, <1>4, <1>5, StepCases

LEMMA DialogInvariant == Spec => [](TypeOK /\ DialogInv)
  BY TypeInit, TypeStep, DialogInit, DialogStep, PTL DEF Spec

\* A dialog that has started a call stays until that call is answered, and an
\* answer closes no other dialog, whatever is clicked meanwhile
\* (Branches.tsx:74-92, 210-230, Dialog.tsx:50-57).
THEOREM DialogsWait == Spec => DialogWaitsForItsAnswer
<1>1. ASSUME TypeOK, DialogInv, [Next]_vars,
             NEW c \in InFlight, call[c].visit = visit, visit' = visit,
             dialog # None, dialog' # dialog,
             call[c].kind = dialog.kind \/ call'[c] = None
      PROVE  /\ call[c].kind = dialog.kind /\ call[c].branch = dialog.branch
             /\ call'[c] = None
  <2>a. c \in Calls /\ call[c] # None /\ visit \in Nat
    BY <1>1 DEF InFlight, TypeOK
  <2>1. CASE Aside
    <3>1. call' = call
      BY <1>1, <2>1, AsideIs
    <3>2. Cancel
      BY <1>1, <2>1 DEF Aside, Poll, Read, Land, PollFails, Select, Elsewhere, Open,
                        ClearHistory, PoolGrows
    <3> QED
      BY <1>1, <2>a, <3>1, <3>2 DEF Cancel, Busy, Pending
  <2>2. CASE \E s \in Screens : Navigate(s)
    BY <1>1, <2>2, <2>a DEF Navigate
  <2>3. ASSUME NEW d \in Calls, Starts(d) PROVE FALSE
    BY <1>1, <2>3, StartsIs
  <2>4. ASSUME NEW d \in Calls,
               ListBefore(d) \/ AskSnapshot(d) \/ Watch(d) \/ UseFresh(d) \/ Serve(d)
        PROVE  FALSE
    BY <1>1, <2>4 DEF ListBefore, AskSnapshot, Watch, UseFresh, Serve
  <2>5. ASSUME NEW d \in Calls, Ends(d)
        PROVE  /\ call[c].kind = dialog.kind /\ call[c].branch = dialog.branch
               /\ call'[c] = None
    <3>1. Awaited(d)
      BY <1>1, <2>5 DEF Ends, Answer, ShowResult, Fail, Settle, Awaited, DialogKinds
    <3>2. call'[d] = None /\ \A e \in Calls : e # d => call'[e] = call[e]
      BY <1>1, <2>5, EndsIs, CallStep
    <3>3. dialog.kind = call[d].kind
      BY <1>1, <3>1 DEF DialogInv
    <3>4. c = d
      <4>1. CASE call'[c] = None
        BY <1>1, <2>a, <3>2, <4>1
      <4>2. CASE call[c].kind = dialog.kind
        <5>1. Awaited(c)
          BY <1>1, <3>1, <3>3, <4>2 DEF Awaited
        <5> QED
          BY <1>1, <2>a, <3>1, <5>1 DEF DialogInv
      <4> QED
        BY <1>1, <4>1, <4>2
    <3> QED
      BY <1>1, <3>1, <3>2, <3>4 DEF DialogInv
  <2> QED
    BY <1>1, <2>1, <2>2, <2>3, <2>4, <2>5, StepCases
<1>2. TypeOK /\ DialogInv /\ [Next]_vars =>
        [\A c \in InFlight :
           /\ call[c].visit = visit /\ visit' = visit
           /\ dialog # None /\ dialog' # dialog
           /\ \/ call[c].kind = dialog.kind
              \/ call'[c] = None
           => /\ call[c].kind = dialog.kind /\ call[c].branch = dialog.branch
              /\ call'[c] = None]_vars
  BY <1>1
<1> QED
  BY <1>2, DialogInvariant, PTL DEF Spec, DialogWaitsForItsAnswer

-----------------------------------------------------------------------------
(* The views *)

\* No one was told of a change that has not happened, and what a poll has read
\* shows all that anyone was told of: a poll that had not is dropped.
ViewsInv ==
  /\ owed <= changes
  /\ \A c \in InFlight : call[c].asOf <= changes
  /\ fetching.at = "read" => fetching.asOf >= owed
  /\ RefreshShowsChange

LEMMA ViewsInit == Init => ViewsInv
  BY DEF Init, ViewsInv, InFlight, RefreshShowsChange, Asked, NoFetch

\* What a step does to the calls' knowledge of the engine.
LEMMA CallsAsOf ==
  ASSUME TypeOK, ViewsInv, [Next]_vars
  PROVE  changes' \in Nat /\ changes <= changes'
         /\ \A c \in InFlight' : call'[c].asOf <= changes'
<1>a. changes \in Nat /\ \A c \in InFlight : c \in Calls /\ call[c].asOf \in Nat
  BY DEF InFlight, TypeOK, ACall
<1>1. changes' \in Nat /\ changes <= changes'
  <2>1. CASE changes' = changes \/ changes' = changes + 1
    BY <1>a, <2>1
  <2> QED
    BY <2>1, NextCases
    DEF Poll, Read, Land, PollFails, Navigate, Select, Elsewhere, Open, Confirm,
        SnapshotNow, EnsureClone, Execute, ListBefore, AskSnapshot, Watch,
        UseFresh, Serve, Answer, ShowResult, Fail, Cancel, ClearHistory, PoolGrows
<1>2. \A c \in InFlight : call[c].asOf <= changes'
  BY <1>a, <1>1 DEF ViewsInv
<1>3. ASSUME NEW c \in Calls, NEW s \in ACall \cup {None}, Becomes(c, s),
             s # None => s.asOf <= changes'
      PROVE  \A d \in InFlight' : call'[d].asOf <= changes'
  <2> SUFFICES ASSUME NEW d \in InFlight' PROVE call'[d].asOf <= changes'
    OBVIOUS
  <2>1. d \in Calls /\ call'[d] # None
    BY DEF InFlight
  <2>2. call'[c] = s /\ (d # c => call'[d] = call[d])
    BY <1>3, <2>1, CallStep
  <2>3. CASE d = c
    BY <1>3, <2>1, <2>2, <2>3
  <2>4. CASE d # c
    BY <1>2, <2>1, <2>2, <2>4 DEF InFlight
  <2> QED
    BY <2>3, <2>4
<1>4. ASSUME Aside
      PROVE  \A d \in InFlight' : call'[d].asOf <= changes'
  <2>1. call' = call /\ InFlight' = InFlight
    BY <1>4, AsideIs DEF InFlight
  <2> QED
    BY <1>2, <2>1
<1>5. ASSUME NEW s \in Screens, Navigate(s)
      PROVE  \A d \in InFlight' : call'[d].asOf <= changes'
  <2> SUFFICES ASSUME NEW d \in InFlight' PROVE call'[d].asOf <= changes'
    OBVIOUS
  <2>1. d \in Calls
    BY DEF InFlight
  <2>2. d \in InFlight /\ call'[d].asOf = call[d].asOf
    BY <1>5, <2>1, NavigateIs
  <2> QED
    BY <1>2, <2>2
<1>6. ASSUME NEW c \in Calls, Starts(c)
      PROVE  \A d \in InFlight' : call'[d].asOf <= changes'
  <2>1. \E r \in ACall : Becomes(c, r) /\ r.asOf = 0
    BY <1>6, StartsIs
  <2> QED
    BY <1>1, <1>3, <2>1
<1>7. ASSUME NEW c \in Calls, Ends(c)
      PROVE  \A d \in InFlight' : call'[d].asOf <= changes'
  BY <1>3, <1>7, EndsIs
<1>8. ASSUME NEW c \in Calls,
             ListBefore(c) \/ AskSnapshot(c) \/ Watch(c) \/ UseFresh(c) \/ Serve(c)
      PROVE  \A d \in InFlight' : call'[d].asOf <= changes'
  <2>1. CASE Serve(c)
    <3>1. \E s \in ACall : Becomes(c, s) /\ s.asOf = changes'
      BY <2>1, ServeIs
    <3> QED
      BY <1>1, <1>3, <3>1
  <2>2. CASE ListBefore(c) \/ AskSnapshot(c) \/ Watch(c) \/ UseFresh(c)
    <3>1. \E s \in ACall \cup {None} :
            c \in InFlight /\ Becomes(c, s) /\ (s # None => s.asOf = call[c].asOf)
      BY <2>2, ListBeforeIs, AskSnapshotIs, WatchIs, UseFreshIs
    <3> QED
      BY <1>2, <1>3, <3>1
  <2> QED
    BY <1>8, <2>1, <2>2
<1> QED
  BY <1>1, <1>4, <1>5, <1>6, <1>7, <1>8, StepCases

LEMMA ViewsStep == TypeOK /\ ViewsInv /\ [Next]_vars => ViewsInv'
<1> SUFFICES ASSUME TypeOK, ViewsInv, [Next]_vars PROVE ViewsInv'
  OBVIOUS
<1>a. /\ owed \in Nat /\ changes \in Nat /\ owed <= changes
      /\ fetching.at = "read" => fetching.asOf >= owed
      /\ fetching = NoFetch /\ ~errored => status.asOf >= owed
      /\ NoFetch.at # "read" /\ Asked.at # "read" /\ Asked # NoFetch
  BY DEF ViewsInv, TypeOK, RefreshShowsChange, NoFetch, Asked
<1>b. /\ changes' \in Nat /\ changes <= changes'
      /\ \A c \in InFlight' : call'[c].asOf <= changes'
  BY CallsAsOf
<1>c. ASSUME /\ owed' <= changes'
             /\ fetching'.at = "read" => fetching'.asOf >= owed'
             /\ fetching' = NoFetch /\ ~errored' => status'.asOf >= owed'
      PROVE  ViewsInv'
  BY <1>b, <1>c DEF ViewsInv, RefreshShowsChange
<1>1. CASE Poll
  BY <1>1, <1>a, <1>b, <1>c DEF Poll
<1>2. CASE Read
  <2>1. /\ fetching' = [at |-> "read", ready |-> clones, asOf |-> changes]
        /\ UNCHANGED <<owed, changes>>
    BY <1>2 DEF Read
  <2>2. fetching' # NoFetch
    BY <2>1 DEF NoFetch
  <2> QED
    BY <1>a, <1>c, <2>1, <2>2
<1>3. CASE Land
  <2>1. /\ fetching' = NoFetch /\ status'.asOf = fetching.asOf
        /\ fetching.at = "read" /\ UNCHANGED <<owed, changes>>
    BY <1>3 DEF Land
  <2> QED
    BY <1>a, <1>c, <2>1
<1>4. CASE PollFails
  <2>1. fetching' = NoFetch /\ errored' = TRUE /\ UNCHANGED <<owed, changes>>
    BY <1>4 DEF PollFails
  <2> QED
    BY <1>a, <1>c, <2>1
<1>5. ASSUME NEW c \in Calls, Answer(c) PROVE ViewsInv'
  <2>1. /\ c \in InFlight /\ changes' = changes
        /\ fetching' = IF Joins THEN fetching ELSE Asked
        /\ owed' = IF call[c].asOf <= owed \/ (Joins /\ fetching # Asked) THEN owed
                   ELSE call[c].asOf
    BY <1>5 DEF Answer, Refresh
  <2>2. call[c].asOf <= changes /\ call[c].asOf \in Nat
    BY <2>1 DEF ViewsInv, InFlight, TypeOK, ACall
  <2>3. CASE fetching' = Asked
    BY <1>a, <1>c, <2>1, <2>2, <2>3
  <2>4. CASE Joins /\ fetching # Asked
    <3>1. fetching' = fetching /\ owed' = owed /\ fetching # NoFetch
      BY <2>1, <2>4 DEF Joins
    <3> QED
      BY <1>a, <1>c, <2>1, <3>1
  <2> QED
    BY <2>1, <2>3, <2>4
<1>6. ASSUME NEW c \in Calls, UseFresh(c) PROVE ViewsInv'
  <2>1. /\ fetching' \in {fetching, Asked}
        /\ UNCHANGED <<owed, changes, status, errored>>
    BY <1>6 DEF UseFresh, Refresh
  <2> QED
    BY <1>a, <1>c, <2>1
<1>7. CASE UNCHANGED <<owed, fetching, status, errored>>
  BY <1>a, <1>b, <1>c, <1>7
<1> QED
  BY <1>1, <1>2, <1>3, <1>4, <1>5, <1>6, <1>7, NextCases
  DEF Navigate, Select, Elsewhere, Open, Confirm, SnapshotNow, EnsureClone,
      Execute, ListBefore, AskSnapshot, Watch, Serve, ShowResult, Fail, Cancel,
      ClearHistory, PoolGrows

\* Once the views are at rest they show every change the user was told of: a
\* poll that had read before the change does not land after it, except the first
\* one, which is not cancelled (queries.ts:170-178).
THEOREM RefreshesShowChanges == Spec => []RefreshShowsChange
<1>1. Spec => []ViewsInv
  BY ViewsInit, ViewsStep, DialogInvariant, PTL DEF Spec
<1>2. ViewsInv => RefreshShowsChange
  BY DEF ViewsInv
<1> QED
  BY <1>1, <1>2, PTL

-----------------------------------------------------------------------------
(* Fresh snapshots *)

\* What a call knows of the listing at each stage, against what was listed when
\* the user clicked.
Fresh(r, n) ==
  /\ r.at = "listing" => r.clicked <= n
  /\ r.at \in {"asking", "watching"} => r.clicked <= r.before \/ r.blind
  /\ r.at = "fresh" => r.clicked < n \/ r.blind

ClickInv == \A c \in InFlight : Fresh(call[c], snaps)

LEMMA ClickInit == Init => ClickInv
  BY DEF Init, ClickInv, InFlight

LEMMA ClickStep == TypeOK /\ ClickInv /\ [Next]_vars => ClickInv'
<1> SUFFICES ASSUME TypeOK, ClickInv, [Next]_vars PROVE ClickInv'
  OBVIOUS
<1>a. \A c \in InFlight : c \in Calls /\ call[c] \in ACall /\ Fresh(call[c], snaps)
  BY DEF InFlight, TypeOK, ClickInv
<1>b. snaps \in Nat /\ snaps' \in Nat /\ snaps <= snaps'
  <2>1. CASE snaps' = snaps \/ snaps' = snaps + 1
    BY <2>1 DEF TypeOK
  <2> QED
    BY <2>1, NextCases
    DEF Poll, Read, Land, PollFails, Navigate, Select, Elsewhere, Open, Confirm,
        SnapshotNow, EnsureClone, Execute, ListBefore, AskSnapshot, Watch,
        UseFresh, Serve, Answer, ShowResult, Fail, Cancel, ClearHistory, PoolGrows
<1>c. \A c \in InFlight : Fresh(call[c], snaps')
  BY <1>a, <1>b DEF Fresh, ACall
<1>d. ASSUME NEW c \in Calls, NEW s \in ACall \cup {None}, Becomes(c, s),
             s # None => Fresh(s, snaps')
      PROVE  ClickInv'
  <2> SUFFICES ASSUME NEW d \in InFlight' PROVE Fresh(call'[d], snaps')
    BY DEF ClickInv
  <2>1. CASE d = c
    BY <1>d, <2>1, CallStep DEF InFlight
  <2>2. CASE d # c
    <3>1. d \in InFlight /\ call'[d] = call[d]
      BY <1>d, <2>2, CallStep DEF InFlight
    <3> QED
      BY <1>c, <3>1
  <2> QED
    BY <2>1, <2>2
<1>1. CASE Aside
  BY <1>1, <1>c, AsideIs DEF ClickInv, InFlight
<1>2. ASSUME NEW s \in Screens, Navigate(s) PROVE ClickInv'
  <2> SUFFICES ASSUME NEW d \in InFlight' PROVE Fresh(call'[d], snaps')
    BY DEF ClickInv
  <2>1. d \in Calls
    BY DEF InFlight
  <2>2. /\ d \in InFlight
        /\ call'[d].at = call[d].at /\ call'[d].clicked = call[d].clicked
        /\ call'[d].before = call[d].before /\ call'[d].blind = call[d].blind
    BY <1>2, <2>1, NavigateIs
  <2> QED
    BY <1>c, <2>2 DEF Fresh
<1>3. ASSUME NEW c \in Calls, Starts(c) PROVE ClickInv'
  <2>1. PICK r \in ACall : Becomes(c, r)
                           /\ (r.at = "sent" \/ (r.at = "listing" /\ r.clicked = snaps))
    BY <1>3, StartsIs
  <2>2. Fresh(r, snaps')
    BY <1>b, <2>1 DEF Fresh
  <2> QED
    BY <1>d, <2>1, <2>2
<1>4. ASSUME NEW c \in Calls, Ends(c) PROVE ClickInv'
  BY <1>4, <1>d, EndsIs
<1>5. ASSUME NEW c \in Calls, ListBefore(c) PROVE ClickInv'
  <2>1. PICK s \in ACall :
          /\ c \in InFlight /\ Moved(call[c], s) /\ Becomes(c, s)
          /\ call[c].at = "listing" /\ s.at = "asking"
          /\ s.before = snaps \/ s.blind
    BY <1>5, ListBeforeIs
  <2>2. s.clicked <= snaps
    BY <1>a, <2>1 DEF Fresh, Moved
  <2>3. s.clicked <= s.before \/ s.blind
    <3>1. CASE s.before = snaps
      BY <2>2, <3>1
    <3>2. CASE s.blind
      BY <3>2
    <3> QED
      BY <2>1, <3>1, <3>2
  <2>4. Fresh(s, snaps')
    BY <2>1, <2>3 DEF Fresh
  <2> QED
    BY <1>d, <2>1, <2>4
<1>6. ASSUME NEW c \in Calls, AskSnapshot(c) PROVE ClickInv'
  <2>1. PICK s \in ACall \cup {None} :
          /\ c \in InFlight /\ Becomes(c, s) /\ call[c].at = "asking"
          /\ s # None => /\ Moved(call[c], s) /\ s.at = "watching"
                         /\ s.before = call[c].before /\ s.blind = call[c].blind
    BY <1>6, AskSnapshotIs
  <2>2. s # None => Fresh(s, snaps')
    BY <1>a, <2>1 DEF Fresh, Moved
  <2> QED
    BY <1>d, <2>1, <2>2
<1>7. ASSUME NEW c \in Calls, Watch(c) PROVE ClickInv'
  <2>1. PICK s \in ACall \cup {None} :
          /\ c \in InFlight /\ Becomes(c, s) /\ call[c].at = "watching"
          /\ s # None => /\ Moved(call[c], s) /\ s.at = "fresh"
                         /\ snaps > call[c].before /\ s.blind = call[c].blind
    BY <1>7, WatchIs
  <2>2. s # None => Fresh(s, snaps')
    <3> SUFFICES ASSUME s # None PROVE Fresh(s, snaps')
      OBVIOUS
    <3>1. call[c].clicked <= call[c].before \/ call[c].blind
      BY <1>a, <2>1 DEF Fresh
    <3>2. CASE call[c].blind
      BY <2>1, <3>2 DEF Fresh
    <3>3. CASE call[c].clicked <= call[c].before
      <4>1. s.clicked = call[c].clicked /\ s.clicked \in Nat /\ call[c].before \in Nat
        BY <1>a, <2>1 DEF Moved, ACall
      <4>2. s.clicked < snaps'
        BY <1>b, <2>1, <3>3, <4>1
      <4> QED
        BY <2>1, <4>2 DEF Fresh
    <3> QED
      BY <3>1, <3>2, <3>3
  <2> QED
    BY <1>d, <2>1, <2>2
<1>8. ASSUME NEW c \in Calls, UseFresh(c) \/ Serve(c) PROVE ClickInv'
  <2>1. PICK s \in ACall \cup {None} :
          Becomes(c, s) /\ (s # None => s.at \in {"sent", "done"})
    BY <1>8, UseFreshIs, ServeIs
  <2>2. s # None => Fresh(s, snaps')
    BY <2>1 DEF Fresh
  <2> QED
    BY <1>d, <2>1, <2>2
<1> QED
  BY <1>1, <1>2, <1>3, <1>4, <1>5, <1>6, <1>7, <1>8, StepCases

\* "Fresh" means newer than the click, for the screen's button and for a new
\* branch alike, unless the first listing failed
\* (NewBranchDialog.tsx:34-64, Snapshots.tsx:57-79).
THEOREM FreshSnapshotsAreNew == Spec => []FreshMeansNew
<1>1. Spec => []ClickInv
  BY ClickInit, ClickStep, DialogInvariant, PTL DEF Spec
<1>2. TypeOK /\ ClickInv => FreshMeansNew
  <2> SUFFICES ASSUME TypeOK, ClickInv, NEW c \in InFlight, call[c].at = "fresh"
               PROVE  snaps > call[c].clicked \/ call[c].blind
    BY DEF FreshMeansNew
  <2>1. call[c].clicked < snaps \/ call[c].blind
    BY DEF ClickInv, Fresh
  <2>2. call[c].clicked \in Nat /\ snaps \in Nat
    BY DEF TypeOK, InFlight, ACall
  <2> QED
    BY <2>1, <2>2
<1> QED
  BY <1>1, <1>2, DialogInvariant, PTL

-----------------------------------------------------------------------------
(* The history of statements *)

\* A statement leaves the history when it is cleared or full, not because
\* another was run beside it, unless its screen was left while it ran
\* (SqlEditor.tsx:34-50).
THEOREM HistoriesKeep == Spec => HistoryKeepsStatements
<1>1. ASSUME TypeOK, [Next]_vars, NEW e \in ToSet(history) \ ToSet(history')
      PROVE  \/ history' = <<>> \/ Len(history) = Limit
             \/ \E c \in InFlight : call[c].base # None /\ call'[c] = None
  <2>1. CASE history' = history
    BY <1>1, <2>1
  <2>2. CASE ClearHistory
    BY <2>2 DEF ClearHistory
  <2>3. ASSUME NEW c \in Calls, ShowResult(c)
        PROVE  \/ Len(history) = Limit
               \/ \E d \in InFlight : call[d].base # None /\ call'[d] = None
    <3>1. c \in InFlight /\ history' = Record(c) /\ call'[c] = None
      BY <1>1, <2>3 DEF ShowResult, InFlight, TypeOK
    <3>2. CASE call[c].base # None
      BY <3>1, <3>2
    <3>3. CASE call[c].base = None
      <4>1. Known(c) = history
        BY <3>3 DEF Known
      <4>2. ~ (Len(history) < Limit)
        BY <1>1, <3>1, <4>1, RecordIs
      <4>3. Len(history) <= Limit /\ Len(history) \in Nat /\ Limit \in Nat
        BY <1>1, AppConstantsOK DEF TypeOK
      <4> QED
        BY <4>2, <4>3
    <3> QED
      BY <3>2, <3>3
  <2> QED
    BY <1>1, <2>1, <2>2, <2>3, NextCases
    DEF Poll, Read, Land, PollFails, Navigate, Select, Elsewhere, Open, Confirm,
        SnapshotNow, EnsureClone, Execute, ListBefore, AskSnapshot, Watch,
        UseFresh, Serve, Answer, Fail, Cancel, PoolGrows
<1>2. TypeOK /\ [Next]_vars =>
        [\A e \in ToSet(history) \ ToSet(history') :
           \/ history' = <<>> \/ Len(history) = Limit
           \/ \E c \in InFlight : call[c].base # None /\ call'[c] = None]_vars
  BY <1>1
<1> QED
  BY <1>2, DialogInvariant, PTL DEF Spec, HistoryKeepsStatements
=============================================================================

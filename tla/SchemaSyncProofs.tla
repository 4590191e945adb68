--------------------------- MODULE SchemaSyncProofs ---------------------------
(***************************************************************************)
(* What TLAPS proves of SchemaSync, for every value of its constants.       *)
(***************************************************************************)
EXTENDS SchemaSync, TLAPS

USE DEF databases, files, locals, params, bounds, vars

\* The actions, one by one: what a proof about Next has to go through.
LEMMA NextCases ==
  ASSUME [Next]_vars
  PROVE  \/ Boot \/ ReadRequest \/ AutoSync \/ ListTables \/ ListTablesFails
         \/ CreateTable \/ DropTable \/ ListColumns \/ AddColumn
         \/ MarkFallback \/ PruneMarks \/ DropColumn \/ SyncIndexes
         \/ Refresh \/ Answer \/ Crash \/ PublisherDDL \/ Backfill
         \/ \E n \in Nonces : RequestSync(n)
         \/ \E b \in BOOLEAN : SetAutoSync(b)
         \/ UNCHANGED vars
  BY DEF Next, Daemon

-----------------------------------------------------------------------------
(* Databases *)

\* Adding a column, or setting one's nullability, touches no other column.
LEMMA SetColumn ==
  ASSUME NEW db, NEW k \in Tables \X Columns, NEW nn, k[1] \in DOMAIN db
  PROVE  /\ DOMAIN Set(db, k, nn) = DOMAIN db
         /\ Keys(Set(db, k, nn)) = Keys(db) \cup {k}
         /\ IsNotNull(Set(db, k, nn), k) <=> nn
         /\ \A l \in Keys(db) : l # k =>
              (IsNotNull(Set(db, k, nn), l) <=> IsNotNull(db, l))
<1> DEFINE new == Set(db, k, nn)
<1>1. /\ DOMAIN new = DOMAIN db
      /\ \A t \in DOMAIN db : t # k[1] => new[t] = db[t]
      /\ new[k[1]] = With(db[k[1]], k[2], nn)
  BY DEF Set, With
<1>2. /\ DOMAIN new[k[1]] = DOMAIN db[k[1]] \cup {k[2]}
      /\ new[k[1]][k[2]] = nn
      /\ \A c \in DOMAIN db[k[1]] : c # k[2] => new[k[1]][c] = db[k[1]][c]
  BY <1>1 DEF With
<1> HIDE DEF new
<1>3. Keys(new) = Keys(db) \cup {k}
  BY <1>1, <1>2 DEF Keys
<1>4. IsNotNull(new, k) <=> nn
  BY <1>2, <1>3 DEF IsNotNull
<1>5. ASSUME NEW l \in Keys(db), l # k
      PROVE  IsNotNull(new, l) <=> IsNotNull(db, l)
  <2>1. l[1] # k[1] \/ l[2] # k[2]
    BY <1>5 DEF Keys
  <2>2. new[l[1]][l[2]] = db[l[1]][l[2]]
    BY <1>1, <1>2, <2>1, <1>5 DEF Keys
  <2> QED
    BY <1>3, <2>2, <1>5 DEF IsNotNull
<1> QED
  BY <1>1, <1>3, <1>4, <1>5 DEF new

\* Dropping a column touches no other column.
LEMMA DropKey ==
  ASSUME NEW db, NEW k \in Keys(db)
  PROVE  /\ Keys(Dropped(db, k)) = Keys(db) \ {k}
         /\ \A l \in Keys(db) : l # k =>
              (IsNotNull(Dropped(db, k), l) <=> IsNotNull(db, l))
<1> DEFINE new == Dropped(db, k)
<1>1. /\ DOMAIN new = DOMAIN db
      /\ \A t \in DOMAIN db : t # k[1] => new[t] = db[t]
      /\ new[k[1]] = Without(db[k[1]], k[2])
  BY DEF Dropped, With, Keys
<1>2. /\ DOMAIN new[k[1]] = DOMAIN db[k[1]] \ {k[2]}
      /\ \A c \in DOMAIN db[k[1]] : c # k[2] => new[k[1]][c] = db[k[1]][c]
  BY <1>1 DEF Without
<1> HIDE DEF new
<1>3. Keys(new) = Keys(db) \ {k}
  BY <1>1, <1>2 DEF Keys
<1>4. ASSUME NEW l \in Keys(db), l # k
      PROVE  IsNotNull(new, l) <=> IsNotNull(db, l)
  <2>1. l[1] # k[1] \/ l[2] # k[2]
    BY <1>4 DEF Keys
  <2>2. new[l[1]][l[2]] = db[l[1]][l[2]]
    BY <1>1, <1>2, <2>1, <1>4 DEF Keys
  <2> QED
    BY <1>3, <2>2, <1>4 DEF IsNotNull
<1> QED
  BY <1>3, <1>4 DEF new

\* Creating a table, or dropping one, touches no other table.
LEMMA NewTable ==
  ASSUME NEW db, NEW t, NEW cols, t \notin DOMAIN db
  PROVE  /\ Keys(db) \subseteq Keys(With(db, t, cols))
         /\ \A l \in Keys(db) : IsNotNull(With(db, t, cols), l) <=> IsNotNull(db, l)
  BY DEF Keys, IsNotNull, With

LEMMA DropTableKeys ==
  ASSUME NEW db, NEW t
  PROVE  /\ Keys(Without(db, t)) = {l \in Keys(db) : l[1] # t}
         /\ \A l \in Keys(db) : l[1] # t =>
              (IsNotNull(Without(db, t), l) <=> IsNotNull(db, l))
  BY DEF Keys, IsNotNull, Without

\* One key is the first of a list.
LEMMA FirstIsUnique ==
  ASSUME NEW K, K \subseteq Tables \X Columns,
         NEW k \in K, NEW l \in K, IsFirst(k, K), IsFirst(l, K)
  PROVE  k = l
<1>1. k[1] \in Nat /\ k[2] \in Nat /\ l[1] \in Nat /\ l[2] \in Nat
  BY ConstantsOK
<1>2. k[1] = l[1] /\ k[2] = l[2]
  BY <1>1 DEF IsFirst
<1> QED
  BY <1>2

-----------------------------------------------------------------------------
(* A pass over the tables and columns *)

\* The lists a pass works down are what the databases still lack, or still have
\* too much; what it has worked down is there, or the pass has failed.
PassInv ==
  /\ pc = "create" => todo \cap DOMAIN sub = {}
  /\ pc \in {"add", "mark"} =>
       /\ todo \subseteq Keys(pubDefs)
       /\ failed \/ Keys(pubDefs) \ todo \subseteq Keys(sub)
  /\ pc = "add" => todo \cap Keys(sub) = {}
  /\ pc = "mark" => \E k \in todo : IsFirst(k, todo) /\ todo \cap Keys(sub) = {k}
  /\ drops \cap Keys(pubDefs) = {}
  /\ pc = "dropcol" => todo \subseteq drops
  /\ pc \in {"dropcol", "index", "refresh"} =>
       failed \/ Keys(pubDefs) \subseteq Keys(sub)

LEMMA PassInvInit == Init => PassInv
  BY DEF Init, PassInv

LEMMA PassInvStep == PassInv /\ [Next]_vars => PassInv'
<1> SUFFICES ASSUME PassInv, [Next]_vars PROVE PassInv'
  OBVIOUS
<1> USE DEF PassInv
<1>1. CASE UNCHANGED <<sub, todo, pubDefs, drops, failed, pc>>
  BY <1>1
<1>2. CASE /\ drops' \cap Keys(pubDefs') = {}
           /\ pc' \in {"down", "poll", "tables", "answer"}
  BY <1>2
<1>3. CASE Boot \/ ReadRequest \/ AutoSync \/ Answer
  BY <1>2, <1>3 DEF Boot, ReadRequest, AutoSync, Answer
<1>4. CASE Crash \/ ListTablesFails \/ Refresh
  <2>1. drops' = {} /\ pc' \in {"down", "poll", "answer"}
    BY <1>4 DEF Crash, ListTablesFails, Refresh, Finish
  <2> QED
    BY <1>2, <2>1
<1>5. CASE ListTables
  BY <1>5 DEF ListTables
<1>6. CASE CreateTable
  BY <1>6 DEF CreateTable, With
<1>7. CASE DropTable
  BY <1>7 DEF DropTable, Without
<1>8. CASE ListColumns
  <2>1. CASE pc' = "add"
    <3>1. /\ pubDefs' = pub /\ sub' = sub
          /\ todo' = Keys(pub) \ Keys(sub)
          /\ drops' \cap Keys(pub) = {}
      BY <1>8, <2>1 DEF ListColumns, KeysOfFirstOnly, IfFull
    <3> QED
      BY <2>1, <3>1
  <2>2. CASE pc' # "add"
    BY <1>8, <2>2 DEF ListColumns
  <2> QED
    BY <2>1, <2>2
<1>9. CASE AddColumn
  <2>1. PICK k \in todo :
          /\ IsFirst(k, todo)
          /\ AddAsListed(k) \/ AddNullable(k) \/ AddFails(k)
    BY <1>9 DEF AddColumn
  <2>2. pc = "add" /\ UNCHANGED <<pubDefs, drops>> /\ k \in Tables \X Columns
    BY <1>9, <2>1 DEF AddColumn, Keys
  <2>3. CASE AddAsListed(k)
    <3>1. Keys(sub') = Keys(sub) \cup {k}
      BY <2>2, <2>3, SetColumn DEF AddAsListed
    <3> QED
      BY <2>2, <2>3, <3>1 DEF AddAsListed
  <2>4. CASE AddNullable(k)
    <3>1. Keys(sub') = Keys(sub) \cup {k}
      BY <2>2, <2>4, SetColumn DEF AddNullable
    <3>2. pc' = "mark" /\ todo' = todo /\ failed' = failed
      BY <2>4 DEF AddNullable
    <3>3. todo \cap Keys(sub') = {k}
      BY <2>1, <2>2, <3>1
    <3>4. failed' \/ Keys(pubDefs') \ todo' \subseteq Keys(sub')
      BY <2>2, <3>1, <3>2
    <3> QED
      BY <2>1, <2>2, <3>2, <3>3, <3>4
  <2>5. CASE AddFails(k)
    BY <2>2, <2>5 DEF AddFails
  <2> QED
    BY <2>1, <2>3, <2>4, <2>5
<1>10. CASE MarkFallback
  <2>1. PICK k \in todo : IsFirst(k, todo) /\ todo \cap Keys(sub) = {k}
    BY <1>10 DEF MarkFallback
  <2>2. PICK l \in todo : IsFirst(l, todo) /\ todo' = todo \ {l}
    BY <1>10 DEF MarkFallback
  <2>3. todo \subseteq Tables \X Columns
    BY <1>10 DEF MarkFallback, Keys
  <2>4. k = l
    BY <2>1, <2>2, <2>3, FirstIsUnique
  <2> QED
    BY <1>10, <2>1, <2>2, <2>4 DEF MarkFallback
<1>11. CASE PruneMarks
  BY <1>11 DEF PruneMarks, Spared
<1>12. CASE DropColumn
  <2>1. CASE todo = {}
    BY <1>12, <2>1 DEF DropColumn
  <2>2. CASE todo # {}
    <3>1. PICK k \in todo :
            /\ todo' = todo \ {k}
            /\ \/ k \in Keys(sub) /\ sub' = Dropped(sub, k) /\ failed' = failed
               \/ failed' = TRUE /\ sub' = sub
      BY <1>12, <2>2 DEF DropColumn
    <3>2. pc = "dropcol" /\ UNCHANGED <<pubDefs, drops, pc>>
      BY <1>12, <2>2 DEF DropColumn
    <3>3. Keys(sub') \in {Keys(sub), Keys(sub) \ {k}}
      BY <3>1, DropKey
    <3>4. k \notin Keys(pubDefs)
      BY <3>1, <3>2
    <3>5. failed' \/ Keys(pubDefs) \subseteq Keys(sub')
      BY <3>1, <3>2, <3>3, <3>4
    <3> QED
      BY <3>1, <3>2, <3>5
  <2> QED
    BY <2>1, <2>2
<1>13. CASE SyncIndexes
  BY <1>13 DEF SyncIndexes
<1>14. CASE Backfill
  <2>1. PICK k \in Keys(sub) : sub' = Set(sub, k, TRUE)
    BY <1>14 DEF Backfill
  <2>2. k \in Tables \X Columns /\ k[1] \in DOMAIN sub
    BY DEF Keys
  <2>3. Keys(sub') = Keys(sub) /\ DOMAIN sub' = DOMAIN sub
    <3>1. Keys(sub') = Keys(sub) \cup {k} /\ DOMAIN sub' = DOMAIN sub
      BY <2>1, <2>2, SetColumn, Zenon
    <3> QED
      BY <3>1
  <2> QED
    BY <1>14, <2>3 DEF Backfill
<1> QED
  BY <1>1, <1>3, <1>4, <1>5, <1>6, <1>7, <1>8, <1>9, <1>10, <1>11, <1>12,
     <1>13, <1>14, NextCases DEF PublisherDDL, RequestSync, SetAutoSync

LEMMA PassInvariant == Spec => []PassInv
  BY PassInvInit, PassInvStep, PTL DEF Spec

\* Whatever fails in a pass, whoever changes the publisher meanwhile: a pass that
\* ends without an error has brought every column it listed to the target.
THEOREM SuccessIsHealed == Spec => SuccessMeansHealed
<1>1. PassInv /\ [Next]_vars => [Succeeds => Keys(pubDefs) \subseteq Keys(sub)]_vars
  <2> SUFFICES ASSUME PassInv, [Next]_vars, Succeeds
               PROVE  Keys(pubDefs) \subseteq Keys(sub)
    OBVIOUS
  <2>1. Refresh
    BY NextCases
    DEF Succeeds, Boot, ReadRequest, AutoSync, ListTables, ListTablesFails,
        CreateTable, DropTable, ListColumns, AddColumn, MarkFallback,
        PruneMarks, DropColumn, SyncIndexes, Answer, Crash, PublisherDDL,
        Backfill, RequestSync, SetAutoSync
  <2>2. ~ failed
    BY <2>1 DEF Succeeds, Refresh
  <2> QED
    BY <2>2 DEF Succeeds, PassInv
<1> QED
  BY <1>1, PassInvariant, PTL DEF Spec, SuccessMeansHealed

-----------------------------------------------------------------------------
(* What is dropped *)

\* Only a full pass has anything to drop, and it serves a nonce that is not
\* answered yet; a nonce that waits to be seen is not answered either.
AskInv ==
  /\ issued \subseteq Nonces
  /\ {request, lastRequest, result.nonce} \subseteq issued \cup {NoNonce}
  /\ request \notin {NoNonce, lastRequest} => result.nonce # request
  /\ mode = "full" /\ pc \notin {"down", "poll"} =>
       lastRequest \in issued /\ result.nonce # lastRequest
  /\ orphaned # {} => mode = "full" /\ pc = "create"
  /\ drops # {} => mode = "full" /\ pc \in {"add", "mark", "dropcol", "index", "refresh"}

LEMMA AskInvInit == Init => AskInv
  BY DEF Init, AskInv

LEMMA AskInvStep ==
  ASSUME "seed" \notin Faults
  PROVE  AskInv /\ [Next]_vars => AskInv'
<1> SUFFICES ASSUME AskInv, [Next]_vars PROVE AskInv'
  OBVIOUS
<1> USE ConstantsOK DEF AskInv
<1>1. CASE UNCHANGED <<issued, request, lastRequest, result, mode, pc, orphaned, drops>>
  BY <1>1
<1>2. CASE Boot \/ ReadRequest \/ AutoSync
  BY <1>2 DEF Boot, ReadRequest, AutoSync
<1>3. CASE ListTables
  BY <1>3 DEF ListTables, IfFull
<1>4. CASE ListTablesFails \/ Refresh
  BY <1>4 DEF ListTablesFails, Refresh, Finish
<1>5. CASE CreateTable \/ DropTable
  BY <1>5 DEF CreateTable, DropTable
<1>6. CASE ListColumns
  BY <1>6 DEF ListColumns, IfFull
<1>7. CASE AddColumn
  <2>1. /\ UNCHANGED <<issued, request, lastRequest, result, mode, orphaned, drops>>
        /\ pc = "add" /\ pc' \in {"add", "mark"}
    BY <1>7 DEF AddColumn, AddAsListed, AddNullable, AddFails
  <2> QED
    BY <2>1
<1>8. CASE MarkFallback \/ PruneMarks \/ DropColumn \/ SyncIndexes
  <2>1. /\ UNCHANGED <<issued, request, lastRequest, result, mode, orphaned, drops>>
        /\ pc \in {"mark", "add", "dropcol", "index"}
        /\ pc' \in {"add", "dropcol", "index", "refresh"}
    BY <1>8 DEF MarkFallback, PruneMarks, DropColumn, SyncIndexes
  <2> QED
    BY <2>1
<1>9. CASE Answer
  <2>1. /\ UNCHANGED <<issued, request, lastRequest, mode, orphaned, drops>>
        /\ pc = "answer" /\ pc' = "poll"
    BY <1>9 DEF Answer
  <2>2. result'.nonce \in {lastRequest, result.nonce}
    <3>1. \/ result' = [nonce |-> lastRequest, ok |-> ~failed]
          \/ result' = result
      BY <1>9, Zenon DEF Answer
    <3>2. ASSUME result' = [nonce |-> lastRequest, ok |-> ~failed]
          PROVE  result'.nonce = lastRequest
      BY <3>2, Zenon
    <3> QED
      BY <3>1, <3>2, Zenon
  <2> QED
    BY <2>1, <2>2
<1>10. CASE Crash
  BY <1>10 DEF Crash
<1>11. ASSUME NEW n \in Nonces, RequestSync(n) PROVE AskInv'
  BY <1>11 DEF RequestSync
<1> QED
  BY <1>1, <1>2, <1>3, <1>4, <1>5, <1>6, <1>7, <1>8, <1>9, <1>10, <1>11,
     NextCases DEF PublisherDDL, Backfill, SetAutoSync

\* While the boot can read the parameter it seeds its state from: what the
\* target has and the publisher has not goes only in a full pass that serves an
\* unanswered request, whatever crashes and fails in between.
THEOREM DropsAreAskedFor ==
  ASSUME "seed" \notin Faults
  PROVE  Spec => DropsAreAsked
<1>1. PassInv /\ AskInv /\ [Next]_vars
        => [~(Keys(sub) \subseteq Keys(sub'))
              => /\ mode = "full" /\ lastRequest \in issued
                 /\ result.nonce # lastRequest]_vars
  <2> SUFFICES ASSUME PassInv, AskInv, [Next]_vars, ~ (Keys(sub) \subseteq Keys(sub'))
               PROVE  mode = "full" /\ lastRequest \in issued /\ result.nonce # lastRequest
    OBVIOUS
  <2>1. CASE DropTable
    BY <2>1 DEF DropTable, AskInv
  <2>2. CASE DropColumn
    BY <2>2 DEF DropColumn, PassInv, AskInv
  <2>3. CASE CreateTable
    <3>1. PICK t \in todo : sub' = sub \/ sub' = With(sub, t, pub[t])
      BY <2>3 DEF CreateTable
    <3>2. t \notin DOMAIN sub
      BY <2>3, <3>1 DEF CreateTable, PassInv
    <3> QED
      BY <3>1, <3>2, NewTable
  <2>4. CASE AddColumn
    <3>1. PICK k \in todo : AddAsListed(k) \/ AddNullable(k) \/ AddFails(k)
      BY <2>4 DEF AddColumn
    <3>2. k \in Tables \X Columns
      BY <2>4, <3>1 DEF AddColumn, PassInv, Keys
    <3>3. CASE AddAsListed(k)
      BY <3>2, <3>3, SetColumn DEF AddAsListed
    <3>4. CASE AddNullable(k)
      <4>1. k[1] \in DOMAIN sub /\ sub' = Set(sub, k, FALSE)
        BY <3>4 DEF AddNullable
      <4>2. Keys(sub') = Keys(sub) \cup {k}
        BY <3>2, <4>1, SetColumn, Zenon
      <4> QED
        BY <4>2
    <3>5. CASE AddFails(k)
      BY <3>5 DEF AddFails
    <3> QED
      BY <3>1, <3>3, <3>4, <3>5
  <2>5. CASE Backfill
    <3>1. PICK k \in Keys(sub) : sub' = Set(sub, k, TRUE)
      BY <2>5 DEF Backfill
    <3>2. k \in Tables \X Columns /\ k[1] \in DOMAIN sub
      BY DEF Keys
    <3>3. Keys(sub') = Keys(sub) \cup {k}
      BY <3>1, <3>2, SetColumn, Zenon
    <3> QED
      BY <3>3
  <2> QED
    BY <2>1, <2>2, <2>3, <2>4, <2>5, NextCases
    DEF Boot, ReadRequest, AutoSync, ListTables, ListTablesFails, ListColumns,
        MarkFallback, PruneMarks, SyncIndexes, Refresh, Answer, Crash,
        PublisherDDL, RequestSync, SetAutoSync
<1> QED
  BY <1>1, PassInvariant, AskInvInit, AskInvStep, PTL DEF Spec, DropsAreAsked

-----------------------------------------------------------------------------
(* What is spared *)

\* Every fallback is still short of a NOT NULL that this pass has listed too,
\* and, but for the one about to be marked, is marked.
GuardInv ==
  /\ crashes \in Nat
  /\ \A m \in fellBack : Unresolved(m, pub, sub)
  /\ pc \in {"add", "mark", "dropcol"} => \A m \in fellBack : IsNotNull(pubDefs, m)
  /\ crashes = 0 =>
       /\ pc # "mark" => fellBack \subseteq marks
       /\ pc = "mark" =>
            \A k \in todo : IsFirst(k, todo) => fellBack \subseteq marks \cup {k}
       /\ pc = "dropcol" => \A k \in todo, m \in fellBack : k[1] # m[1]

LEMMA GuardInvInit == Init => GuardInv
  BY DEF Init, GuardInv

\* The pass over the columns to add.
LEMMA GuardInvAdds ==
  ASSUME PassInv, GuardInv, AddColumn
  PROVE  GuardInv'
<1> USE DEF GuardInv, Unresolved
<1>1. PICK k \in todo :
        /\ IsFirst(k, todo)
        /\ AddAsListed(k) \/ AddNullable(k) \/ AddFails(k)
  BY DEF AddColumn
<1>2. /\ pc = "add" /\ UNCHANGED <<pub, pubDefs, marks, crashes>>
      /\ todo \subseteq Tables \X Columns /\ todo \cap Keys(sub) = {}
  BY DEF AddColumn, PassInv, Keys
<1>3. k \in Tables \X Columns /\ k \notin fellBack
  BY <1>1, <1>2
<1>4. CASE AddAsListed(k)
  <2>1. /\ k[1] \in DOMAIN sub /\ sub' = Set(sub, k, IsNotNull(pubDefs, k))
        /\ UNCHANGED <<pc, fellBack>>
    BY <1>4 DEF AddAsListed
  <2>2. /\ Keys(sub') = Keys(sub) \cup {k}
        /\ \A l \in Keys(sub) : l # k => (IsNotNull(sub', l) <=> IsNotNull(sub, l))
    BY <1>3, <2>1, SetColumn, Zenon
  <2> QED
    BY <1>2, <1>3, <2>1, <2>2
<1>5. CASE AddNullable(k)
  <2>1. /\ k[1] \in DOMAIN sub /\ sub' = Set(sub, k, FALSE)
        /\ IsNotNull(pubDefs, k) /\ pc' = "mark" /\ todo' = todo
        /\ fellBack' = {m \in fellBack \cup {k} : Unresolved(m, pub, sub')}
    BY <1>5 DEF AddNullable
  <2>2. ASSUME NEW l \in todo', IsFirst(l, todo')
        PROVE  l = k
    BY <1>1, <1>2, <2>1, <2>2, FirstIsUnique
  <2>3. crashes = 0 => fellBack' \subseteq marks \cup {k}
    BY <1>2, <2>1
  <2>4. \A m \in fellBack' : IsNotNull(pubDefs, m) /\ Unresolved(m, pub, sub')
    BY <1>2, <2>1
  <2> QED
    BY <1>2, <2>1, <2>2, <2>3, <2>4
<1>6. CASE AddFails(k)
  BY <1>2, <1>6 DEF AddFails
<1> QED
  BY <1>1, <1>4, <1>5, <1>6

LEMMA GuardInvStep ==
  ASSUME "relist" \notin Faults
  PROVE  PassInv /\ GuardInv /\ [Next]_vars => GuardInv'
<1> SUFFICES ASSUME PassInv, GuardInv, [Next]_vars PROVE GuardInv'
  OBVIOUS
<1> USE DEF GuardInv, Unresolved
<1>1. CASE UNCHANGED <<pub, sub, pubDefs, fellBack, marks, todo, pc, crashes>>
  BY <1>1
<1>2. CASE /\ UNCHANGED <<pub, sub, fellBack, marks, crashes>>
           /\ pc # "mark" /\ pc' \notin {"add", "mark", "dropcol"}
  BY <1>2
<1>3. CASE Boot \/ ReadRequest \/ AutoSync \/ ListTables \/ SyncIndexes \/ Answer
  BY <1>2, <1>3 DEF Boot, ReadRequest, AutoSync, ListTables, SyncIndexes, Answer
<1>4. CASE ListTablesFails \/ Refresh
  BY <1>2, <1>4 DEF ListTablesFails, Refresh, Finish
<1>5. CASE CreateTable
  <2>1. PICK t \in todo : sub' = sub \/ sub' = With(sub, t, pub[t])
    BY <1>5 DEF CreateTable
  <2>2. t \notin DOMAIN sub
    BY <1>5, <2>1 DEF CreateTable, PassInv
  <2>3. /\ Keys(sub) \subseteq Keys(sub')
        /\ \A l \in Keys(sub) : IsNotNull(sub', l) <=> IsNotNull(sub, l)
    BY <2>1, <2>2, NewTable
  <2>4. pc = "create" /\ UNCHANGED <<pub, pubDefs, fellBack, marks, pc, crashes>>
    BY <1>5 DEF CreateTable
  <2> QED
    BY <2>3, <2>4
<1>6. CASE DropTable
  <2>1. PICK t \in orphaned :
          \/ /\ sub' = Without(sub, t)
             /\ fellBack' = {k \in fellBack : k[1] # t}
          \/ UNCHANGED <<sub, fellBack>>
    BY <1>6 DEF DropTable
  <2>2. pc = "create" /\ UNCHANGED <<pub, pubDefs, marks, pc, crashes>>
    BY <1>6 DEF DropTable
  <2>3. fellBack' \subseteq fellBack
    BY <2>1
  <2>4. \A m \in fellBack' : Unresolved(m, pub, sub')
    BY <2>1, DropTableKeys
  <2> QED
    BY <2>2, <2>3, <2>4
<1>7. CASE ListColumns
  <2>1. UNCHANGED <<pub, sub, fellBack, marks, crashes>> /\ pc = "create"
    BY <1>7 DEF ListColumns
  <2>2. pc' = "index" \/ (pc' = "add" /\ pubDefs' = pub)
    BY <1>7, Zenon DEF ListColumns
  <2> QED
    BY <2>1, <2>2
<1>8. CASE MarkFallback
  <2>1. PICK k \in todo : IsFirst(k, todo) /\ marks' = marks \cup {k}
    BY <1>8 DEF MarkFallback
  <2>2. /\ pc = "mark" /\ pc' = "add"
        /\ UNCHANGED <<pub, sub, pubDefs, fellBack, crashes>>
    BY <1>8 DEF MarkFallback
  <2> QED
    BY <2>1, <2>2
<1>9. CASE PruneMarks
  <2>1. /\ UNCHANGED <<pub, sub, pubDefs, fellBack, crashes>> /\ pc = "add"
    BY <1>9 DEF PruneMarks
  <2>2. CASE drops = {}
    BY <1>2, <1>9, <2>2 DEF PruneMarks
  <2>3. CASE drops # {}
    <3>1. /\ marks' = {k \in marks : Unresolved(k, pubDefs, sub)}
          /\ todo' = Spared(drops, marks') /\ pc' = "dropcol"
      BY <1>9, <2>3 DEF PruneMarks
    <3>2. crashes = 0 => fellBack \subseteq marks'
      BY <2>1, <3>1
    <3>3. crashes = 0 => \A k \in todo', m \in fellBack : k[1] # m[1]
      BY <3>1, <3>2 DEF Spared
    <3> QED
      BY <2>1, <3>1, <3>2, <3>3
  <2> QED
    BY <2>2, <2>3
<1>10. CASE DropColumn
  <2>1. CASE todo = {}
    BY <1>2, <1>10, <2>1 DEF DropColumn
  <2>2. CASE todo # {}
    <3>1. PICK k \in todo :
            /\ todo' = todo \ {k}
            /\ \/ /\ k \in Keys(sub) /\ sub' = Dropped(sub, k)
                  /\ fellBack' = fellBack \ {k}
               \/ UNCHANGED <<sub, fellBack>>
      BY <1>10, <2>2 DEF DropColumn
    <3>2. pc = "dropcol" /\ UNCHANGED <<pub, pubDefs, marks, pc, crashes>>
      BY <1>10, <2>2 DEF DropColumn
    <3>3. fellBack' \subseteq fellBack /\ \A m \in fellBack' : Unresolved(m, pub, sub')
      BY <3>1, DropKey
    <3> QED
      BY <3>1, <3>2, <3>3
  <2> QED
    BY <2>1, <2>2
<1>11. CASE Crash
  BY <1>11 DEF Crash
<1>12. CASE PublisherDDL
  BY <1>12 DEF PublisherDDL
<1>13. CASE Backfill
  <2>1. PICK k \in fellBack :
          /\ k \in Keys(sub) /\ sub' = Set(sub, k, TRUE)
          /\ fellBack' = fellBack \ {k}
    BY <1>13 DEF Backfill
  <2>2. k \in Tables \X Columns /\ k[1] \in DOMAIN sub
    BY <2>1 DEF Keys
  <2>3. /\ Keys(sub') = Keys(sub) \cup {k}
        /\ \A l \in Keys(sub) : l # k => (IsNotNull(sub', l) <=> IsNotNull(sub, l))
    BY <2>1, <2>2, SetColumn, Zenon
  <2>4. UNCHANGED <<pub, pubDefs, marks, todo, pc, crashes>>
    BY <1>13 DEF Backfill
  <2>5. fellBack' \subseteq fellBack /\ \A m \in fellBack' : Unresolved(m, pub, sub')
    BY <2>1, <2>3
  <2> QED
    BY <2>4, <2>5
<1> QED
  BY <1>1, <1>3, <1>4, <1>5, <1>6, <1>7, <1>8, <1>9, <1>10, <1>11, <1>12,
     <1>13, NextCases, GuardInvAdds DEF RequestSync, SetAutoSync

\* While the target can be listed again before the drops, and the daemon has not
\* died: no column is dropped from a table with an unresolved fallback, however
\* many passes, failures and changes at the publisher lie in between.
THEOREM GuardAlwaysHolds ==
  ASSUME "relist" \notin Faults
  PROVE  Spec => GuardHolds
<1>1. PassInv /\ GuardInv /\ [Next]_vars => [crashes = 0 => SparesOrphans]_vars
  <2> SUFFICES ASSUME PassInv, GuardInv, [Next]_vars, crashes = 0, pc = "dropcol",
                      NEW k \in Keys(sub) \ Keys(sub'), NEW m \in fellBack
               PROVE  m[1] # k[1]
    BY DEF SparesOrphans
  <2>1. CASE DropColumn
    <3>1. PICK l \in todo : sub' = sub \/ (l \in Keys(sub) /\ sub' = Dropped(sub, l))
      BY <2>1 DEF DropColumn
    <3>2. k = l
      BY <3>1, DropKey
    <3> QED
      BY <3>1, <3>2 DEF GuardInv
  <2>2. CASE Backfill
    <3>1. PICK l \in Keys(sub) : sub' = Set(sub, l, TRUE)
      BY <2>2 DEF Backfill
    <3>2. l \in Tables \X Columns /\ l[1] \in DOMAIN sub
      BY DEF Keys
    <3>3. Keys(sub') = Keys(sub) \cup {l}
      BY <3>1, <3>2, SetColumn, Zenon
    <3> QED
      BY <3>3
  <2> QED
    BY <2>1, <2>2, NextCases
    DEF Boot, ReadRequest, AutoSync, ListTables, ListTablesFails, CreateTable,
        DropTable, ListColumns, AddColumn, MarkFallback, PruneMarks,
        SyncIndexes, Refresh, Answer, Crash, PublisherDDL, RequestSync,
        SetAutoSync
<1> QED
  BY <1>1, PassInvariant, GuardInvInit, GuardInvStep, PTL DEF Spec, GuardHolds
=============================================================================

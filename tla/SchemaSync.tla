----------------------------- MODULE SchemaSync -----------------------------
(***************************************************************************)
(* The schema half of tendb-snapshotd: sync_schema, which brings the sync   *)
(* target's tables and columns to the publisher's, and the request nonce    *)
(* and result through which "tendb schema sync" drives it.  Around it, the  *)
(* publisher's own DDL, an operator who repairs a column by hand, and the   *)
(* daemon's crashes.  Indexes are left out: of sync_indexes only its failure *)
(* counts here.                                                             *)
(*                                                                          *)
(* A database is a function from its tables to their columns, and those a   *)
(* function from columns to whether they are NOT NULL; tables and columns   *)
(* are numbers, whose order is the byte order the daemon works its lists in. *)
(***************************************************************************)
EXTENDS Integers, FiniteSets

CONSTANTS
  Tables, Columns,   \* sets of numbers
  Nonces,            \* the nonces clients write to schema/sync-request
  NoNonce,           \* an empty parameter, an empty state file
  Faults,            \* the calls that may fail, a subset of FaultKinds
  MaxDDL,            \* bound: changes of the publisher's schema
  MaxCrashes         \* bound: crashes of the daemon

FaultKinds == {"seed", "param", "list", "create", "drop", "add", "relist",
               "index", "subscription", "refresh", "answer"}

ASSUME ConstantsOK ==
  /\ Tables \subseteq Nat /\ Columns \subseteq Nat \ {0}
  /\ NoNonce \notin Nonces
  /\ Faults \subseteq FaultKinds
  /\ MaxDDL \in Nat /\ MaxCrashes \in Nat

VARIABLES
  \* the databases
  pub,          \* the publisher's tables
  sub,          \* the sync target's
  member,       \* the tables of the subscription (pg_subscription_rel)
  \* parameters and files
  request,      \* schema/sync-request
  result,       \* schema/sync-result
  autoSync,     \* schema/config
  lastRequest,  \* last-sync-request
  marks,        \* nullable-fallbacks, pairs of a table and a column
  \* the daemon
  pc, mode,
  todo,         \* what the loop at pc has not come to yet
  orphaned,     \* tables this pass found on the target only
  refresh,      \* this pass found tables on one side only
  pubDefs,      \* the publisher's columns as this pass listed them
  subDefs,      \* the target's columns as this pass listed them
  drops,        \* the columns this pass found on the target only
  failed,       \* SYNC_ERROR is set
  \* history
  fellBack,     \* the columns a NULLABLE fallback added, not resolved since
  issued, ddl, crashes

databases == <<pub, sub, member>>
files     == <<lastRequest, marks>>
locals    == <<mode, todo, orphaned, refresh, pubDefs, subDefs, drops, failed>>
params    == <<request, result, autoSync>>
bounds    == <<issued, ddl, crashes>>
vars      == <<databases, params, files, pc, locals, fellBack, bounds>>

-----------------------------------------------------------------------------
(* Databases *)

NoTables == [t \in {} |-> <<>>]
Keys(db) == {k \in Tables \X Columns : k[1] \in DOMAIN db /\ k[2] \in DOMAIN db[k[1]]}

\* A bug: the two sides of comm swapped.
KeysOfSecondOnly(P, S) == Keys(S) \ Keys(P)

KeysOfFirstOnly(P, S) == Keys(P) \ Keys(S)
IsNotNull(db, k) == k \in Keys(db) /\ db[k[1]][k[2]]

Without(f, x) == [y \in DOMAIN f \ {x} |-> f[y]]
With(f, x, v) == [y \in DOMAIN f \cup {x} |-> IF y = x THEN v ELSE f[y]]
Set(db, k, nn) == With(db, k[1], With(db[k[1]], k[2], nn))
Dropped(db, k) == With(db, k[1], Without(db[k[1]], k[2]))

\* The first of the keys in the order sort gives them.
IsFirst(k, K) == \A l \in K : k[1] < l[1] \/ (k[1] = l[1] /\ k[2] <= l[2])

\* A column that was added NULLABLE is still short of the publisher's NOT NULL.
Unresolved(k, P, S) ==
  IsNotNull(P, k) /\ k \in Keys(S) /\ ~IsNotNull(S, k)

\* A bug: only the marked column itself is held.
SparedByColumn(K, M) == K \ M

\* The keys of K whose table has no mark in M.
Spared(K, M) == {k \in K : k[1] \notin {m[1] : m \in M}}

-----------------------------------------------------------------------------
FirstColumn == CHOOSE c \in Columns : \A d \in Columns : c <= d
OneColumn == [c \in {FirstColumn} |-> TRUE]

Init ==
  /\ \E T \in SUBSET Tables : pub = [t \in T |-> OneColumn]
  /\ sub = pub /\ member = DOMAIN pub
  /\ request = NoNonce /\ lastRequest = NoNonce
  /\ result = [nonce |-> NoNonce, ok |-> TRUE]
  /\ autoSync = FALSE
  /\ marks = {} /\ fellBack = {}
  /\ pc = "down" /\ mode = "additive" /\ todo = {} /\ orphaned = {}
  /\ refresh = FALSE /\ pubDefs = NoTables /\ subDefs = NoTables
  /\ drops = {} /\ failed = FALSE
  /\ issued = {} /\ ddl = 0 /\ crashes = 0

-----------------------------------------------------------------------------
(* The loop *)

Boot ==
  /\ pc = "down"
  /\ \/ lastRequest' = request
     \/ "seed" \in Faults /\ lastRequest' = NoNonce
  /\ pc' = "poll"
  /\ UNCHANGED <<databases, params, marks, locals, fellBack, bounds>>

\* nonce_changed, and sync_schema full on the nonce it recorded.
ReadRequest ==
  /\ pc = "poll" /\ request \notin {NoNonce, lastRequest}
  /\ lastRequest' = request
  /\ mode' = "full" /\ failed' = FALSE /\ pc' = "tables"
  /\ UNCHANGED <<databases, params, marks, todo, orphaned, refresh, pubDefs,
                 subDefs, drops, fellBack, bounds>>

\* Every AUTOSYNC_SECONDS, when the poll before it found no new nonce, or could
\* not read it.
AutoSync ==
  /\ pc = "poll" /\ autoSync
  /\ request \in {NoNonce, lastRequest} \/ "param" \in Faults
  /\ mode' = "additive" /\ failed' = FALSE /\ pc' = "tables"
  /\ UNCHANGED <<databases, params, files, todo, orphaned, refresh, pubDefs,
                 subDefs, drops, fellBack, bounds>>

-----------------------------------------------------------------------------
(* sync_schema: tables *)

\* A bug: the mode is not looked at.
AnyMode(X) == X

\* What a pass may drop.
IfFull(X) == IF mode = "full" THEN X ELSE {}

\* A bug: only a pass that succeeds is answered.
FinishAnsweringSuccess ==
  /\ pc' = IF mode = "full" /\ ~failed' THEN "answer" ELSE "poll"
  /\ todo' = {} /\ orphaned' = {} /\ refresh' = FALSE
  /\ pubDefs' = NoTables /\ subDefs' = NoTables /\ drops' = {}

\* The pass ends: the nonce is answered, and its variables are gone.
Finish ==
  /\ pc' = IF mode = "full" THEN "answer" ELSE "poll"
  /\ todo' = {} /\ orphaned' = {} /\ refresh' = FALSE
  /\ pubDefs' = NoTables /\ subDefs' = NoTables /\ drops' = {}

ListTables ==
  /\ pc = "tables"
  /\ todo' = DOMAIN pub \ DOMAIN sub
  /\ orphaned' = IfFull(DOMAIN sub \ DOMAIN pub)
  /\ refresh' = (todo' # {} \/ orphaned' # {})
  /\ pc' = "create"
  /\ UNCHANGED <<databases, params, files, mode, pubDefs, subDefs, drops,
                 failed, fellBack, bounds>>

\* A side cannot be reached, or its URL is not configured or not read: the pass
\* returns at once.
ListTablesFails ==
  /\ pc = "tables" /\ "list" \in Faults
  /\ failed' = TRUE /\ Finish
  /\ UNCHANGED <<databases, params, files, mode, fellBack, bounds>>

\* pg_dump reads the table as it is now.  Of its failures the pipeline reports
\* the last table's only, and psql goes on after a statement the target rejects.
CreateTable ==
  /\ pc = "create"
  /\ \E t \in todo :
       /\ \A u \in todo : t <= u
       /\ todo' = todo \ {t}
       /\ \/ /\ t \in DOMAIN pub
             /\ sub' = With(sub, t, pub[t])
             /\ UNCHANGED failed
          \/ /\ t \notin DOMAIN pub
             /\ failed' = (failed \/ todo = {t})
             /\ UNCHANGED sub
          \/ /\ "create" \in Faults
             /\ failed' \in {failed, TRUE}
             /\ UNCHANGED sub
  /\ UNCHANGED <<pub, member, params, files, pc, mode, orphaned, refresh,
                 pubDefs, subDefs, drops, fellBack, bounds>>

\* In full mode; what cannot be dropped is passed over.
DropTable ==
  /\ pc = "create" /\ todo = {}
  /\ \E t \in orphaned :
       /\ \A u \in orphaned : t <= u
       /\ orphaned' = orphaned \ {t}
       /\ \/ /\ sub' = Without(sub, t)
             /\ member' = member \ {t}
             /\ fellBack' = {k \in fellBack : k[1] # t}
          \/ /\ "drop" \in Faults
             /\ UNCHANGED <<sub, member, fellBack>>
  /\ UNCHANGED <<pub, params, files, pc, mode, todo, refresh, pubDefs, subDefs,
                 drops, failed, bounds>>

-----------------------------------------------------------------------------
(* sync_schema: columns *)

\* Order of the two listings: the publisher's first; the target is the
\* daemon's own, so one step does for both.
ListColumns ==
  /\ pc = "create" /\ todo = {} /\ orphaned = {}
  /\ \/ /\ pubDefs' = pub /\ subDefs' = sub
        /\ todo' = KeysOfFirstOnly(pub, sub)
        /\ drops' = IfFull(Keys(sub) \ Keys(pub))
        /\ pc' = "add"
        /\ UNCHANGED failed
     \/ /\ "list" \in Faults
        /\ failed' = TRUE /\ pc' = "index"
        /\ UNCHANGED <<todo, drops, pubDefs, subDefs>>
  /\ UNCHANGED <<databases, params, files, mode, orphaned, refresh, fellBack, bounds>>

AddAsListed(k) ==
  /\ k[1] \in DOMAIN sub
  /\ sub' = Set(sub, k, IsNotNull(pubDefs, k))
  /\ todo' = todo \ {k}
  /\ UNCHANGED <<pc, failed, fellBack>>

\* NOT NULL is rejected because the table has rows; the column is added
\* NULLABLE, and the daemon goes on to mark it.
AddNullable(k) ==
  /\ k[1] \in DOMAIN sub /\ IsNotNull(pubDefs, k)
  /\ sub' = Set(sub, k, FALSE)
  /\ fellBack' = {m \in fellBack \cup {k} : Unresolved(m, pub, sub')}
  /\ pc' = "mark"
  /\ UNCHANGED <<todo, failed>>

\* A bug: the failure stays in the subshell.
AddFailsQuietly(k) ==
  /\ k[1] \notin DOMAIN sub \/ "add" \in Faults
  /\ todo' = todo \ {k}
  /\ UNCHANGED <<sub, pc, failed, fellBack>>

AddFails(k) ==
  /\ k[1] \notin DOMAIN sub \/ "add" \in Faults
  /\ failed' = TRUE
  /\ todo' = todo \ {k}
  /\ UNCHANGED <<sub, pc, fellBack>>

AddColumn ==
  /\ pc = "add"
  /\ \E k \in todo :
       /\ IsFirst(k, todo)
       /\ AddAsListed(k) \/ AddNullable(k) \/ AddFails(k)
  /\ UNCHANGED <<pub, member, params, files, mode, orphaned, refresh,
                 pubDefs, subDefs, drops, bounds>>

MarkFallback ==
  /\ pc = "mark"
  /\ \E k \in todo :
       /\ IsFirst(k, todo)
       /\ marks' = marks \cup {k}
       /\ todo' = todo \ {k}
  /\ pc' = "add"
  /\ UNCHANGED <<databases, params, lastRequest, mode, orphaned, refresh,
                 pubDefs, subDefs, drops, failed, fellBack, bounds>>

\* In full mode, with columns to drop: the target is listed again, or the stale
\* list stands in for it, and the marks it does not bear out are forgotten.
PruneMarks ==
  /\ pc = "add" /\ todo = {}
  /\ IF drops = {}
     THEN pc' = "index" /\ UNCHANGED <<marks, todo>>
     ELSE /\ \/ marks' = {k \in marks : Unresolved(k, pubDefs, sub)}
             \/ "relist" \in Faults
                /\ marks' = {k \in marks : Unresolved(k, pubDefs, subDefs)}
          /\ todo' = Spared(drops, marks')
          /\ pc' = "dropcol"
  /\ UNCHANGED <<databases, params, lastRequest, mode, orphaned, refresh,
                 pubDefs, subDefs, drops, failed, fellBack, bounds>>

DropColumn ==
  /\ pc = "dropcol"
  /\ IF todo = {}
     THEN pc' = "index" /\ UNCHANGED <<sub, todo, failed, fellBack>>
     ELSE \E k \in todo :
            /\ IsFirst(k, todo)
            /\ todo' = todo \ {k}
            /\ \/ /\ k \in Keys(sub)
                  /\ sub' = Dropped(sub, k)
                  /\ fellBack' = fellBack \ {k}
                  /\ UNCHANGED failed
               \/ /\ k \notin Keys(sub) \/ "drop" \in Faults
                  /\ failed' = TRUE
                  /\ UNCHANGED <<sub, fellBack>>
            /\ UNCHANGED pc
  /\ UNCHANGED <<pub, member, params, files, mode, orphaned, refresh,
                 pubDefs, subDefs, drops, bounds>>

-----------------------------------------------------------------------------
(* sync_schema: indexes, the subscription, the answer *)

SyncIndexes ==
  /\ pc = "index" /\ pc' = "refresh"
  /\ \/ UNCHANGED failed
     \/ "index" \in Faults /\ failed' = TRUE
  /\ UNCHANGED <<databases, params, files, mode, todo, orphaned, refresh,
                 pubDefs, subDefs, drops, fellBack, bounds>>

\* REFRESH PUBLICATION, only when this pass found tables on one side only, and
\* skipped without a word when no subscription is read; it errors while a
\* published table is absent downstream.
Refresh ==
  /\ pc = "refresh"
  /\ \/ (refresh => "subscription" \in Faults) /\ UNCHANGED <<member, failed>>
     \/ /\ refresh /\ DOMAIN pub \subseteq DOMAIN sub
        /\ member' = DOMAIN pub
        /\ UNCHANGED failed
     \/ /\ refresh
        /\ ~(DOMAIN pub \subseteq DOMAIN sub) \/ "refresh" \in Faults
        /\ failed' = TRUE
        /\ UNCHANGED member
  /\ Finish
  /\ UNCHANGED <<pub, sub, params, files, mode, fellBack, bounds>>

\* report_sync_result, on the nonce the state file holds.
Answer ==
  /\ pc = "answer"
  /\ \/ result' = [nonce |-> lastRequest, ok |-> ~failed]
     \/ "answer" \in Faults /\ UNCHANGED result
  /\ pc' = "poll"
  /\ UNCHANGED <<databases, request, autoSync, files, locals, fellBack, bounds>>

-----------------------------------------------------------------------------
(* Surroundings *)

Crash ==
  /\ pc # "down" /\ crashes < MaxCrashes
  /\ crashes' = crashes + 1
  /\ pc' = "down" /\ failed' = FALSE
  /\ mode' = "additive" /\ todo' = {} /\ orphaned' = {} /\ refresh' = FALSE
  /\ pubDefs' = NoTables /\ subDefs' = NoTables /\ drops' = {}
  /\ UNCHANGED <<databases, params, files, fellBack, issued, ddl>>

RequestSync(n) ==
  /\ n \notin issued /\ issued' = issued \cup {n}
  /\ request' = n
  /\ UNCHANGED <<databases, result, autoSync, files, pc, locals, fellBack, ddl, crashes>>

SetAutoSync(b) ==
  /\ autoSync # b /\ autoSync' = b
  /\ UNCHANGED <<databases, request, result, files, pc, locals, fellBack, bounds>>

\* The publisher creates or drops a table, adds, renames or drops a column, or
\* changes one's nullability.
PublisherDDL ==
  /\ ddl < MaxDDL /\ ddl' = ddl + 1
  /\ \/ \E t \in Tables \ DOMAIN pub : pub' = With(pub, t, OneColumn)
     \/ \E t \in DOMAIN pub : pub' = Without(pub, t)
     \/ \E t \in DOMAIN pub, c \in Columns, nn \in BOOLEAN :
          c \notin DOMAIN pub[t] /\ pub' = Set(pub, <<t, c>>, nn)
     \/ \E k \in Keys(pub), d \in Columns :
          /\ d \notin DOMAIN pub[k[1]]
          /\ pub' = Set(Dropped(pub, k), <<k[1], d>>, IsNotNull(pub, k))
     \/ \E k \in Keys(pub) : pub' \in {Dropped(pub, k), Set(pub, k, ~IsNotNull(pub, k))}
  /\ fellBack' = {k \in fellBack : Unresolved(k, pub', sub)}
  /\ UNCHANGED <<sub, member, params, files, pc, locals, issued, crashes>>

\* An operator backfills a column on the target and sets it NOT NULL.
Backfill ==
  /\ \E k \in fellBack :
       /\ k \in Keys(sub)
       /\ sub' = Set(sub, k, TRUE)
       /\ fellBack' = fellBack \ {k}
  /\ UNCHANGED <<pub, member, params, files, pc, locals, bounds>>

Daemon ==
  \/ Boot \/ ReadRequest \/ AutoSync
  \/ ListTables \/ ListTablesFails \/ CreateTable \/ DropTable
  \/ ListColumns \/ AddColumn \/ MarkFallback \/ PruneMarks \/ DropColumn
  \/ SyncIndexes \/ Refresh \/ Answer

Next ==
  \/ Daemon \/ Crash \/ PublisherDDL \/ Backfill
  \/ \E n \in Nonces : RequestSync(n)
  \/ \E b \in BOOLEAN : SetAutoSync(b)

Spec == Init /\ [][Next]_vars

ColumnsListed == ListColumns /\ pc' = "add"
TableCreated == CreateTable /\ sub' # sub
ColumnAdded == AddColumn /\ sub' # sub

\* systemd restarts the loop and every call in it returns; a call that is made
\* again and again works in the end.
Fairness ==
  /\ WF_vars(Daemon)
  /\ SF_vars(ListTables) /\ SF_vars(ColumnsListed)
  /\ SF_vars(TableCreated) /\ SF_vars(ColumnAdded)

FairSpec == Spec /\ Fairness

-----------------------------------------------------------------------------
\* Whatever the sync target holds and the publisher no longer does stays until a
\* client asks for a full sync, and goes only in the pass that serves that
\* request, never in one replayed after it was answered ("creates ...; never
\* drops", tendb-snapshotd.sh:16-18; the boot's seeding, :397-399).
DropsAreAsked ==
  [][~(Keys(sub) \subseteq Keys(sub'))
       => /\ mode = "full" /\ lastRequest \in issued
          /\ result.nonce # lastRequest]_vars

Succeeds == pc = "refresh" /\ pc' \in {"poll", "answer"} /\ ~failed'

\* A pass that ends without an error has brought every column of every table it
\* listed on the publisher to the target, though the pipeline that creates
\* tables hides failures and each loop runs in a subshell that cannot set
\* SYNC_ERROR itself (sync_columns:220-244, sync_schema:345-356).
SuccessMeansHealed ==
  [][Succeeds => Keys(pubDefs) \subseteq Keys(sub)]_vars

\* The drop pass spares the columns of a table that took a NULLABLE fallback
\* which is not resolved: one of them may hold what an upstream rename left.
SparesOrphans ==
  pc = "dropcol" =>
    \A k \in Keys(sub) \ Keys(sub'), m \in fellBack : m[1] # k[1]

\* That guard outlasts passes, the publisher's later DDL and a target listed
\* again in the middle of a pass, as long as the daemon has not crashed
\* (sync_columns:246-278).
GuardHolds == [][crashes = 0 => SparesOrphans]_vars

\* With autoSync on, a table or a column the publisher gains comes to the target
\* without anyone asking, unless it goes again ("additive-only heal", :16-18).
AutoHeals ==
  \A k \in Tables \X Columns :
    autoSync /\ k \in Keys(pub) \ Keys(sub)
      ~> k \in Keys(sub) \/ k \notin Keys(pub) \/ ~autoSync

\* A request whose sync has begun is answered, whatever fails in it, unless the
\* daemon crashes ("Always answer the nonce", :412-413).
SyncIsAnswered ==
  \A n \in Nonces :
    lastRequest = n /\ pc = "tables" /\ mode = "full" ~> result.nonce = n \/ pc = "down"
=============================================================================

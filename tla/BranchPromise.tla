--------------------------- MODULE BranchPromise ---------------------------
(***************************************************************************)
(* What the branch commands of the SDK and the CLI promise about one branch *)
(* database, whatever the engine does in between: a command that succeeds   *)
(* has seen, while it was pending, what its name says, and nobody makes,    *)
(* takes down or removes a database that no pending command speaks of.      *)
(***************************************************************************)
CONSTANTS
  Callers,
  Commands,
  Makers,          \* the commands that may make the database and its branch
  Removers,        \* the commands that may remove the branch
  NoCommand

VARIABLES
  db,              \* "absent", "unready" or "ready"
  branch,          \* whether the branch exists
  ask,             \* the command each caller waits for
  been,            \* what was so at some moment since it asked
  success          \* whether its last command has succeeded

state == <<db, branch, ask, been, success>>

Facts == {"absent", "ready", "unbranched"}

FactsOf(d, b) ==
  {f \in Facts : \/ f = "absent" /\ d = "absent"
                 \/ f = "ready" /\ d = "ready"
                 \/ f = "unbranched" /\ ~b}

Init ==
  /\ db = "absent"
  /\ branch = FALSE
  /\ ask = [c \in Callers |-> NoCommand]
  /\ been = [c \in Callers |-> {}]
  /\ success = [c \in Callers |-> FALSE]

Pending(C) == \E c \in Callers : ask[c] \in C

\* Everyone who waits sees the database as it is now.
Watch(d, b) ==
  been' = [c \in Callers |->
             IF ask[c] = NoCommand THEN {} ELSE been[c] \cup FactsOf(d, b)]

Ask(c) ==
  /\ ask[c] = NoCommand
  /\ \E o \in Commands : ask' = [ask EXCEPT ![c] = o]
  /\ been' = [been EXCEPT ![c] = FactsOf(db, branch)]
  /\ success' = [success EXCEPT ![c] = FALSE]
  /\ UNCHANGED <<db, branch>>

\* A command makes the database on its branch, takes it down, makes or removes
\* the branch; what is being made or taken down settles by itself.
Make ==
  /\ db = "absent" /\ branch
  /\ Pending(Makers \cup {"reset"})
  /\ db' = "unready"
  /\ UNCHANGED <<branch, ask, success>>
  /\ Watch(db', branch)

TakeDown ==
  /\ db = "ready"
  /\ Pending(Commands)
  /\ db' = "unready"
  /\ UNCHANGED <<branch, ask, success>>
  /\ Watch(db', branch)

Settle ==
  /\ db = "unready"
  /\ db' \in {"absent", "ready"}
  /\ UNCHANGED <<branch, ask, success>>
  /\ Watch(db', branch)

MakeBranch ==
  /\ ~branch
  /\ Pending(Makers)
  /\ branch' = TRUE
  /\ UNCHANGED <<db, ask, success>>
  /\ Watch(db, TRUE)

RemoveBranch ==
  /\ branch
  /\ Pending(Removers)
  /\ branch' = FALSE
  /\ UNCHANGED <<db, ask, success>>
  /\ Watch(db, FALSE)

\* What a success says.  A reset's database is ready now and was absent since
\* it was asked for, so it is a new one.
Granted(c) ==
  CASE ask[c] = "ensure" -> db = "ready"
    [] ask[c] = "reset"  -> db = "ready" /\ "absent" \in been[c]
    [] ask[c] = "delete" -> {"absent", "unbranched"} \subseteq been[c]
    [] OTHER             -> "ready" \in been[c]

Answer(c) ==
  /\ ask[c] # NoCommand
  /\ \E ok \in BOOLEAN :
       /\ ok => Granted(c)
       /\ success' = [success EXCEPT ![c] = ok]
  /\ ask' = [ask EXCEPT ![c] = NoCommand]
  /\ been' = [been EXCEPT ![c] = {}]
  /\ UNCHANGED <<db, branch>>

Next ==
  \/ Make \/ TakeDown \/ Settle \/ MakeBranch \/ RemoveBranch
  \/ \E c \in Callers : Ask(c) \/ Answer(c)

Spec == Init /\ [][Next]_state
=============================================================================

------------------------------ MODULE Branches ------------------------------
(***************************************************************************)
(* The branch commands of the SDK and the CLI (dblab/workflows.ts,          *)
(* migrate.ts, sdk.ts): several callers, without any lock, against one      *)
(* branch of the engine and its clone, which have the same name.  Every     *)
(* call to the engine is a step.  A call may fail, with or without having   *)
(* had its effect; every wait has a deadline.                               *)
(*                                                                          *)
(* The commands: "ensure" (branches create, ci ensure), "reset", "delete",  *)
(* "run" (migrate on a named branch, or one to keep), "scratch" (migrate    *)
(* without a branch) and "with" (withBranch).                               *)
(***************************************************************************)
EXTENDS Naturals

CONSTANTS
  Callers,
  Commands,        \* the commands they give
  NoCommand,
  MaxTroubles      \* bound: calls that fail, clones that fail, waits given up

Makers    == {"ensure", "run", "scratch", "with"}
Removers  == {"delete", "scratch", "with"}
Ephemeral == {"scratch", "with"}

ASSUME BranchConstantsOK ==
  /\ NoCommand \notin Commands
  /\ Commands \subseteq Makers \cup Removers \cup {"reset"}
  /\ MaxTroubles \in Nat

VARIABLES
  clone,           \* the clone's status.code, or "none"
  branch,          \* whether the branch exists
  snapshots,       \* whether the engine has its first snapshot
  pc,              \* the call each caller makes next
  command,         \* the command it serves, or NoCommand
  tidying,         \* in the finally block of migrate or withBranch
  outcome,         \* of the last command: "ok", "failed" or "error"
  been,            \* history: what was so at some moment of the command
  alone,           \* history: no other command and no trouble beside it
  troubles

engine  == <<clone, branch, snapshots>>
caller  == <<pc, command, tidying, outcome>>
vars    == <<engine, caller, been, alone, troubles>>

PCs == {"idle", "getClone", "deleteClone", "waitGone", "waitSnapshot",
        "listBranches", "createBranch", "createClone", "waitOk", "open", "exec",
        "deleteBranch", "return", "throw"}

Facts == {"absent", "ready", "unbranched"}

FactsOf(c, b) ==
  {f \in Facts : \/ f = "absent" /\ c = "none"
                 \/ f = "ready" /\ c = "OK"
                 \/ f = "unbranched" /\ ~b}

Init ==
  /\ clone = "none"
  /\ branch = FALSE
  /\ snapshots \in BOOLEAN
  /\ pc = [c \in Callers |-> "idle"]
  /\ command = [c \in Callers |-> NoCommand]
  /\ tidying = [c \in Callers |-> FALSE]
  /\ outcome = [c \in Callers |-> "error"]
  /\ been = [c \in Callers |-> {}]
  /\ alone = [c \in Callers |-> FALSE]
  /\ troubles = 0

Goto(c, label) == pc' = [pc EXCEPT ![c] = label]

\* Every pending command sees the engine as a step leaves it.
Watch ==
  been' = [c \in Callers |->
             IF pc[c] = "idle" THEN {} ELSE been[c] \cup FactsOf(clone', branch')]

Trouble ==
  /\ troubles < MaxTroubles
  /\ troubles' = troubles + 1
  /\ alone' = [c \in Callers |-> FALSE]

NoTrouble == UNCHANGED <<alone, troubles>>

-----------------------------------------------------------------------------
(***************************************************************************)
(* How a command begins, goes on and ends.                                  *)
(***************************************************************************)
Give(c) ==
  /\ pc[c] = "idle"
  /\ \E o \in Commands :
       /\ command' = [command EXCEPT ![c] = o]
       /\ Goto(c, IF o = "delete" THEN "deleteClone" ELSE "getClone")
  /\ outcome' = [outcome EXCEPT ![c] = "error"]
  /\ been' = [been EXCEPT ![c] = FactsOf(clone, branch)]
  /\ alone' = [d \in Callers |-> d = c /\ \A e \in Callers : pc[e] = "idle"]
  /\ UNCHANGED <<engine, tidying, troubles>>

\* A reply that leaves the engine as it is.
Reads(c, label) ==
  /\ Goto(c, label)
  /\ UNCHANGED <<engine, command, tidying, outcome, been>>

Answer(c, result) ==
  /\ Goto(c, "idle")
  /\ command' = [command EXCEPT ![c] = NoCommand]
  /\ tidying' = [tidying EXCEPT ![c] = FALSE]
  /\ outcome' = [outcome EXCEPT ![c] = result]
  /\ been' = [been EXCEPT ![c] = {}]
  /\ UNCHANGED engine

\* The finally block of migrate and withBranch.
Tidy(c, result) ==
  /\ Goto(c, "deleteClone")
  /\ tidying' = [tidying EXCEPT ![c] = TRUE]
  /\ outcome' = [outcome EXCEPT ![c] = result]
  /\ UNCHANGED <<engine, command, been>>

\* An error.  It is swallowed while tidying; migrate's try begins with the
\* opening of the branch, withBranch's only after it.
Throws(c) ==
  IF command[c] = "scratch" /\ pc[c] \in {"open", "exec"}
  THEN Tidy(c, "error")
  ELSE Answer(c, outcome[c])

\* The branch has its clone: the command returns, or goes on.
Ready(c) ==
  IF command[c] \in {"ensure", "reset"} THEN Answer(c, "ok") ELSE Reads(c, "open")

\* What the engine does at a call.  A clone needs its branch, and no clone of
\* its name beside it.
Engine(call) ==
  /\ clone' = CASE call = "deleteClone" /\ clone # "none" -> "DELETING"
                [] call = "createClone" /\ clone = "none" /\ branch -> "CREATING"
                [] OTHER -> clone
  /\ branch' = CASE call = "createBranch" -> TRUE
                 [] call = "deleteBranch" -> FALSE
                 [] OTHER -> branch
  /\ UNCHANGED snapshots

Calls(c, label) ==
  /\ Engine(pc[c])
  /\ Goto(c, label)
  /\ Watch
  /\ UNCHANGED <<command, tidying, outcome>>

-----------------------------------------------------------------------------
(***************************************************************************)
(* The calls.                                                               *)
(***************************************************************************)
\* A bug: a clone that is not OK is left where it is.
LookKeepingWedged(c) ==
  /\ pc[c] = "getClone"
  /\ \/ clone = "none" /\ command[c] = "reset" /\ Throws(c)
     \/ clone # "OK" /\ command[c] # "reset" /\ Reads(c, "waitSnapshot")
     \/ clone = "OK" /\ command[c] # "reset" /\ Ready(c)
     \/ clone # "none" /\ command[c] = "reset" /\ Reads(c, "deleteClone")
  /\ NoTrouble

\* A bug: reset takes a running clone for its result, as ensure does.
LookReusing(c) ==
  /\ pc[c] = "getClone"
  /\ \/ clone = "none" /\ command[c] = "reset" /\ Throws(c)
     \/ clone = "none" /\ command[c] # "reset" /\ Reads(c, "waitSnapshot")
     \/ clone = "OK" /\ Ready(c)
     \/ clone \notin {"none", "OK"} /\ Reads(c, "deleteClone")
  /\ NoTrouble

Look(c) ==
  /\ pc[c] = "getClone"
  /\ \/ clone = "none" /\ command[c] = "reset" /\ Throws(c)
     \/ clone = "none" /\ command[c] # "reset" /\ Reads(c, "waitSnapshot")
     \/ clone = "OK" /\ command[c] # "reset" /\ Ready(c)
     \/ clone # "none" /\ (clone # "OK" \/ command[c] = "reset")
                       /\ Reads(c, "deleteClone")
  /\ NoTrouble

\* Already gone counts as success.
DeleteClone(c) ==
  /\ pc[c] = "deleteClone"
  /\ Calls(c, "waitGone")
  /\ NoTrouble

WaitGone(c) ==
  /\ pc[c] = "waitGone"
  /\ clone = "none"
  /\ Reads(c, IF tidying[c] \/ command[c] = "delete" THEN "deleteBranch"
              ELSE IF command[c] = "reset" THEN "createClone"
              ELSE "waitSnapshot")
  /\ NoTrouble

WaitSnapshot(c) ==
  /\ pc[c] = "waitSnapshot"
  /\ snapshots
  /\ Reads(c, "listBranches")
  /\ NoTrouble

ListBranches(c) ==
  /\ pc[c] = "listBranches"
  /\ Reads(c, IF branch THEN "createClone" ELSE "createBranch")
  /\ NoTrouble

CreateBranch(c) ==
  /\ pc[c] = "createBranch"
  /\ IF branch THEN Throws(c) ELSE Calls(c, "createClone")
  /\ NoTrouble

CreateClone(c) ==
  /\ pc[c] = "createClone"
  /\ IF branch /\ clone = "none" THEN Calls(c, "waitOk") ELSE Throws(c)
  /\ NoTrouble

WaitOk(c) ==
  /\ pc[c] = "waitOk"
  /\ \/ clone = "OK" /\ Ready(c)
     \/ clone \in {"none", "FATAL"} /\ Throws(c)
  /\ NoTrouble

\* openBranchUrl asks for the clone's address, whatever state the clone is in.
Open(c) ==
  /\ pc[c] = "open"
  /\ IF clone = "none" THEN Throws(c) ELSE Reads(c, "exec")
  /\ NoTrouble

\* A bug: only a run that went well is cleaned up.
ExecTidyingSuccess(c) ==
  /\ pc[c] = "exec"
  /\ \E result \in {"ok", "failed"} :
       IF command[c] \in Ephemeral /\ result = "ok"
       THEN Tidy(c, result) ELSE Answer(c, result)
  /\ NoTrouble

\* The command, or withBranch's function, ends one way or the other.
Exec(c) ==
  /\ pc[c] = "exec"
  /\ \E result \in {"ok", "failed"} :
       IF command[c] \in Ephemeral THEN Tidy(c, result) ELSE Answer(c, result)
  /\ NoTrouble

\* A branch that still has a clone is removed with it out of sight, or refused.
DeleteBranch(c) ==
  /\ pc[c] = "deleteBranch"
  /\ \/ Calls(c, "return")
     \/ branch /\ clone # "none" /\ Throws(c)
  /\ NoTrouble

Return(c) ==
  /\ pc[c] = "return"
  /\ Answer(c, IF tidying[c] THEN outcome[c] ELSE "ok")
  /\ NoTrouble

-----------------------------------------------------------------------------
(***************************************************************************)
(* Failures, deadlines and the engine.                                      *)
(***************************************************************************)
Effectful == {"deleteClone", "createBranch", "createClone", "deleteBranch"}

\* A call fails without effect: no connection, an error of the engine, no clone
\* port left, no tunnel.  waitForFirstSnapshot polls on.
CallFails(c) ==
  /\ pc[c] \notin {"idle", "return", "throw", "waitSnapshot"}
  /\ Throws(c)
  /\ Trouble

\* The engine acts, and the reply is lost.
ReplyLost(c) ==
  /\ pc[c] \in Effectful
  /\ Calls(c, "throw")
  /\ Trouble

Throw(c) ==
  /\ pc[c] = "throw"
  /\ Throws(c)
  /\ NoTrouble

\* A bug: the wait for a clone to go has no end.
GiveUpOnClonesOnly(c) ==
  /\ \/ pc[c] = "waitSnapshot" /\ ~snapshots
     \/ pc[c] = "waitOk" /\ clone \in {"CREATING", "DELETING"}
  /\ Throws(c)
  /\ alone' = [alone EXCEPT ![c] = FALSE]
  /\ UNCHANGED troubles

\* A deadline passes.
GiveUp(c) ==
  /\ \/ pc[c] = "waitGone" /\ clone # "none"
     \/ pc[c] = "waitSnapshot" /\ ~snapshots
     \/ pc[c] = "waitOk" /\ clone \in {"CREATING", "DELETING"}
  /\ Throws(c)
  /\ alone' = [alone EXCEPT ![c] = FALSE]
  /\ UNCHANGED troubles

\* The engine finishes what it was asked for.
Becomes(from, to) ==
  /\ clone = from
  /\ clone' = to
  /\ UNCHANGED <<branch, snapshots, caller>>
  /\ Watch

Settle == (Becomes("CREATING", "OK") \/ Becomes("DELETING", "none")) /\ NoTrouble

Spoil == Becomes("CREATING", "FATAL") /\ Trouble

FirstSnapshot ==
  /\ ~snapshots
  /\ snapshots' = TRUE
  /\ UNCHANGED <<clone, branch, caller, been>>
  /\ NoTrouble

Step(c) ==
  \/ Look(c) \/ DeleteClone(c) \/ WaitGone(c) \/ WaitSnapshot(c)
  \/ ListBranches(c) \/ CreateBranch(c) \/ CreateClone(c) \/ WaitOk(c)
  \/ Open(c) \/ Exec(c) \/ DeleteBranch(c) \/ Return(c) \/ Throw(c)
  \/ CallFails(c) \/ ReplyLost(c) \/ GiveUp(c)

Next ==
  \/ Settle \/ Spoil \/ FirstSnapshot
  \/ \E c \in Callers : Give(c) \/ Step(c)

\* A call returns, a poll comes round and a deadline passes; the engine owes
\* nothing, and nobody need give a command.
Fairness == \A c \in Callers : WF_vars(Step(c))

Spec     == Init /\ [][Next]_vars
FairSpec == Spec /\ Fairness

-----------------------------------------------------------------------------
(***************************************************************************)
(* Properties.                                                              *)
(***************************************************************************)
\* What a caller of the commands sees of it.
Database == CASE clone = "none" -> "absent"
              [] clone = "OK"   -> "ready"
              [] OTHER          -> "unready"

Succeeded == [c \in Callers |-> command[c] = NoCommand /\ outcome[c] # "error"]

Promise == INSTANCE BranchPromise WITH
             db <- Database, ask <- command, success <- Succeeded

\* Whatever other callers do, calls fail or deadlines pass, a command that
\* succeeds has kept its promise: an ensured database is ready, a reset one is
\* ready and new, a deleted one was gone and its branch removed, a migration ran
\* on one that was ready (workflows.ts:79-143, migrate.ts:91-112).
KeepsPromise == Promise!Spec

\* The call of c ends in this step, with this result.
Ends(c, results) == pc[c] # "idle" /\ pc'[c] = "idle" /\ outcome'[c] \in results

\* An ensure that no other command and no failing call came beside works, in
\* whatever state earlier commands left clone and branch: a wedged clone is
\* recreated, a branch without a clone gets one (workflows.ts:76-77).
EnsureRepairs ==
  [][\A c \in Callers : Ends(c, {"error"}) /\ alone'[c] => command[c] = "reset"]_vars

\* When a scratch migration or a withBranch ran its command, well or not, and
\* nothing came beside it, neither clone nor branch is left (migrate.ts:106-111,
\* sdk.ts:270-273).
NothingIsLeft ==
  [][\A c \in Callers :
       Ends(c, {"ok", "failed"}) /\ alone'[c] /\ command[c] \in Ephemeral
         => clone = "none" /\ ~branch]_vars

\* Every command ends, whatever state the engine is stuck in (workflows.ts:42,
\* 53, 69).
EveryCommandEnds == \A c \in Callers : pc[c] # "idle" ~> pc[c] = "idle"

\* A scratch migration leaves neither clone nor branch, even if it fails
\* (cli.md:306, migrate.ts:89).
ScratchStartsPristine ==
  [][\A c \in Callers : Ends(c, {"ok", "failed", "error"}) /\ command[c] = "scratch"
       => clone = "none" /\ ~branch]_vars
=============================================================================

--------------------------- MODULE BranchesProofs ---------------------------
(***************************************************************************)
(* What TLAPS proves of Branches, for every value of its constants: the     *)
(* commands implement BranchPromise, and a command that nothing came beside *)
(* repairs what it finds and leaves nothing that it should not.             *)
(***************************************************************************)
EXTENDS Branches, TLAPS

USE DEF engine, caller, vars

-----------------------------------------------------------------------------
(* The inductive invariant *)

TypeOK ==
  /\ clone \in {"none", "CREATING", "OK", "DELETING", "FATAL"}
  /\ branch \in BOOLEAN
  /\ pc \in [Callers -> PCs]
  /\ command \in [Callers -> Commands \cup {NoCommand}]
  /\ tidying \in [Callers -> BOOLEAN]
  /\ outcome \in [Callers -> {"ok", "failed", "error"}]
  /\ been \in [Callers -> SUBSET Facts]

\* A pending command has seen the engine as it is now.
Watched(at, seen) ==
  IF at = "idle" THEN seen = {} ELSE FactsOf(clone, branch) \subseteq seen

\* Which command a call may serve.
Serves(at, o, tidy) ==
  /\ at = "idle" <=> o = NoCommand
  /\ at \in {"waitSnapshot", "listBranches", "createBranch"} => o \in Makers /\ ~tidy
  /\ at \in {"getClone", "createClone", "waitOk"} => o \in Makers \cup {"reset"} /\ ~tidy
  /\ at \in {"open", "exec"} => o \in Makers \ {"ensure"} /\ ~tidy
  /\ at \in {"deleteBranch", "return"} => o = "delete" \/ tidy
  /\ tidy => at # "idle" /\ o \in Ephemeral

\* What a command has seen by the time it makes a call.
HasSeen(at, o, seen) ==
  /\ at \in {"createClone", "waitOk"} /\ o = "reset" => "absent" \in seen
  /\ at \in {"open", "exec"} => "ready" \in seen
  /\ at \in {"deleteBranch", "return"} => "absent" \in seen
  /\ at = "return" => "unbranched" \in seen

\* A pending command with a result has run, and only its tidying is left.
HasRun(at, tidy, result, seen) ==
  at # "idle" /\ result # "error" => tidy /\ "ready" \in seen

CallerOK(c) ==
  /\ Watched(pc[c], been[c])
  /\ Serves(pc[c], command[c], tidying[c])
  /\ HasSeen(pc[c], command[c], been[c])
  /\ HasRun(pc[c], tidying[c], outcome[c], been[c])

Inv == TypeOK /\ \A c \in Callers : CallerOK(c)

USE DEF Watched, Serves, HasSeen, HasRun, CallerOK

LEMMA InitOK == Init => Inv
<1> SUFFICES ASSUME Init PROVE Inv
  OBVIOUS
<1>1. TypeOK
  BY DEF Init, TypeOK, PCs
<1>2. \A c \in Callers : CallerOK(c)
  BY DEF Init
<1> QED
  BY <1>1, <1>2 DEF Inv

LEMMA InitPromised == Init => Promise!Init
  BY DEF Init, Promise!Init, Database, Succeeded

-----------------------------------------------------------------------------
(* Steps, by their shape: each keeps the invariant and the promise *)

Good == Inv' /\ [Promise!Next]_(Promise!state)

LEMMA ReadsGood ==
  ASSUME Inv, NEW c \in Callers, NEW label \in PCs \ {"idle"}, pc[c] # "idle",
         Reads(c, label),
         Serves(label, command[c], tidying[c]),
         HasSeen(label, command[c], been[c])
  PROVE  Good
<1>1. Inv'
  BY DEF Inv, TypeOK, Reads, Goto, FactsOf
<1>2. UNCHANGED Promise!state
  BY DEF Reads, Promise!state, Database, Succeeded
<1> QED
  BY <1>1, <1>2 DEF Good

LEMMA AnswerGood ==
  ASSUME Inv, NEW c \in Callers, pc[c] # "idle",
         NEW result \in {"ok", "failed", "error"}, Answer(c, result),
         result # "error" => Promise!Granted(c)
  PROVE  Good
<1>1. Inv'
  BY BranchConstantsOK DEF Inv, TypeOK, Answer, Goto, FactsOf, PCs, Ephemeral
<1>2. Promise!Answer(c)
  <2>1. command[c] # NoCommand
    BY DEF Inv
  <2>2. Succeeded' = [Succeeded EXCEPT ![c] = (result # "error")]
    BY DEF Answer, Succeeded, Inv, TypeOK
  <2>3. UNCHANGED <<Database, branch>>
    BY DEF Answer, Database
  <2> QED
    BY <2>1, <2>2, <2>3 DEF Answer, Promise!Answer
<1> QED
  BY <1>1, <1>2 DEF Good, Promise!Next

LEMMA TidyGood ==
  ASSUME Inv, NEW c \in Callers, pc[c] \in {"open", "exec"}, command[c] \in Ephemeral,
         NEW result \in {"ok", "failed", "error"}, Tidy(c, result)
  PROVE  Good
<1>1. Inv'
  BY DEF Inv, TypeOK, Tidy, Goto, FactsOf, PCs, Ephemeral
<1>2. UNCHANGED Promise!state
  BY DEF Tidy, Promise!state, Database, Succeeded, Inv, TypeOK
<1> QED
  BY <1>1, <1>2 DEF Good

LEMMA ThrowsGood ==
  ASSUME Inv, NEW c \in Callers, pc[c] # "idle", Throws(c)
  PROVE  Good
<1>1. CASE command[c] = "scratch" /\ pc[c] \in {"open", "exec"}
  BY <1>1, TidyGood DEF Throws, Ephemeral
<1>2. CASE Answer(c, outcome[c])
  <2>1. outcome[c] \in {"ok", "failed", "error"}
    BY DEF Inv, TypeOK
  <2>2. ASSUME outcome[c] # "error" PROVE Promise!Granted(c)
    BY <2>2 DEF Inv, Promise!Granted, Ephemeral
  <2> QED
    BY <1>2, <2>1, <2>2, AnswerGood
<1> QED
  BY <1>1, <1>2 DEF Throws

LEMMA ReadyGood ==
  ASSUME Inv, NEW c \in Callers, clone = "OK", Ready(c),
         \/ pc[c] = "getClone" /\ command[c] # "reset"
         \/ pc[c] = "waitOk"
  PROVE  Good
<1>1. "ready" \in been[c]
  BY DEF Inv, FactsOf, Facts
<1>2. CASE command[c] \in {"ensure", "reset"}
  <2>1. Promise!Granted(c)
    BY <1>2 DEF Promise!Granted, Database, Inv
  <2> QED
    BY <1>2, <2>1, AnswerGood DEF Ready
<1>3. CASE command[c] \notin {"ensure", "reset"}
  <2>1. Serves("open", command[c], tidying[c])
    BY <1>3 DEF Inv
  <2>2. Reads(c, "open")
    BY <1>3 DEF Ready
  <2> QED
    BY <1>1, <2>1, <2>2, ReadsGood DEF PCs
<1> QED
  BY <1>2, <1>3

-----------------------------------------------------------------------------
(* Steps that change the engine, and are watched *)

LEMMA FactsAgree ==
  /\ Promise!FactsOf(Database, branch) = FactsOf(clone, branch)
  /\ Promise!FactsOf(Database', branch') = FactsOf(clone', branch')
  BY DEF Promise!FactsOf, FactsOf, Promise!Facts, Facts, Database


\* Every caller sees the engine as it becomes, and forgets nothing.
LEMMA Watching ==
  ASSUME Inv, Watch
  PROVE  /\ been' \in [Callers -> SUBSET Facts]
         /\ \A c \in Callers :
              /\ been[c] \subseteq been'[c]
              /\ pc[c] = "idle" => been'[c] = {}
              /\ pc[c] # "idle" => FactsOf(clone', branch') \subseteq been'[c]
  BY DEF Inv, TypeOK, Watch, FactsOf

\* In the promise's terms.
LEMMA WatchingPromised ==
  ASSUME Inv, Watch, UNCHANGED <<command, outcome>>
  PROVE  /\ Promise!Watch(Database', branch')
         /\ UNCHANGED Succeeded
         /\ UNCHANGED <<Database, branch>> => UNCHANGED been
<1>1. Promise!Watch(Database', branch')
  BY FactsAgree DEF Inv, Watch, Promise!Watch
<1>2. UNCHANGED Succeeded
  BY DEF Succeeded
<1>3. ASSUME UNCHANGED <<Database, branch>> PROVE UNCHANGED been
  <2>1. FactsOf(clone', branch') = FactsOf(clone, branch)
    BY <1>3, FactsAgree
  <2>2. \A c \in Callers : been'[c] = been[c]
    BY <2>1 DEF Watch, Inv
  <2> QED
    BY <2>2, Watching DEF Inv, TypeOK
<1> QED
  BY <1>1, <1>2, <1>3

\* A step of the engine and of nobody else.
LEMMA EngineGood ==
  ASSUME Inv, UNCHANGED caller, UNCHANGED <<branch, snapshots>>, Watch,
         \/ clone = "CREATING" /\ clone' \in {"OK", "FATAL"}
         \/ clone = "DELETING" /\ clone' = "none"
  PROVE  Good
<1>1. Inv'
  BY Watching DEF Inv, TypeOK
<1>2. [Promise!Next]_(Promise!state)
  <2>1. CASE clone' = "FATAL"
    <3>1. UNCHANGED Database
      BY <2>1 DEF Database
    <3> QED
      BY <3>1, WatchingPromised DEF Promise!state
  <2>2. CASE clone' # "FATAL"
    <3>1. Promise!Settle
      BY <2>2, WatchingPromised DEF Promise!Settle, Database
    <3> QED
      BY <3>1 DEF Promise!Next
  <2> QED
    BY <2>1, <2>2
<1> QED
  BY <1>1, <1>2 DEF Good

\* What a call does to the engine is a step of the promise.
LEMMA CallsPromised ==
  ASSUME Inv, NEW c \in Callers, NEW label, Calls(c, label), pc[c] \in Effectful
  PROVE  [Promise!Next]_(Promise!state)
<1> USE WatchingPromised DEF Calls, Engine
<1>0. command[c] \in Commands
  BY DEF Inv, TypeOK, Effectful
<1>1. CASE UNCHANGED <<Database, branch>>
  BY <1>1 DEF Promise!state
<1>2. CASE pc[c] = "deleteClone" /\ clone = "OK"
  <2>1. Promise!TakeDown
    BY <1>0, <1>2, BranchConstantsOK DEF Promise!TakeDown, Promise!Pending, Database
  <2> QED
    BY <2>1 DEF Promise!Next
<1>3. CASE pc[c] = "createClone" /\ clone = "none" /\ branch
  <2>1. Promise!Make
    BY <1>3 DEF Promise!Make, Promise!Pending, Database, Inv
  <2> QED
    BY <2>1 DEF Promise!Next
<1>4. CASE pc[c] = "createBranch" /\ ~branch
  <2>1. Promise!MakeBranch
    BY <1>4 DEF Promise!MakeBranch, Promise!Pending, Database, Inv
  <2> QED
    BY <2>1 DEF Promise!Next
<1>5. CASE pc[c] = "deleteBranch" /\ branch
  <2>1. Promise!RemoveBranch
    BY <1>5 DEF Promise!RemoveBranch, Promise!Pending, Database, Inv, Removers, Ephemeral
  <2> QED
    BY <2>1 DEF Promise!Next
<1>6. CASE pc[c] = "deleteClone" /\ clone # "OK"
  BY <1>1, <1>6 DEF Database
<1> QED
  BY <1>1, <1>2, <1>3, <1>4, <1>5, <1>6 DEF Effectful, Database, Inv, TypeOK

LEMMA CallsGood ==
  ASSUME Inv, NEW c \in Callers, NEW label \in PCs \ {"idle"}, Calls(c, label),
         pc[c] \in Effectful,
         Serves(label, command[c], tidying[c]),
         HasSeen(label, command[c], been'[c])
  PROVE  Good
<1>1. Inv'
  <2>1. TypeOK'
    BY Watching DEF Inv, TypeOK, Calls, Engine, Goto
  <2>2. \A d \in Callers : CallerOK(d)'
    BY Watching, ZenonT(40) DEF Inv, TypeOK, Calls, Engine, Goto, Effectful
  <2> QED
    BY <2>1, <2>2 DEF Inv
<1> QED
  BY <1>1, CallsPromised DEF Good

-----------------------------------------------------------------------------
(* Every action *)

LEMMA GiveGood ==
  ASSUME Inv, NEW c \in Callers, Give(c)
  PROVE  Good
<1>1. PICK o \in Commands : /\ command' = [command EXCEPT ![c] = o]
                            /\ Goto(c, IF o = "delete" THEN "deleteClone" ELSE "getClone")
  BY DEF Give
<1>2. o # NoCommand /\ o \in Makers \cup Removers \cup {"reset"}
  BY BranchConstantsOK
<1>3. Inv'
  <2>1. TypeOK'
    BY <1>1 DEF Give, Goto, Inv, TypeOK, PCs, FactsOf
  <2>2. \A d \in Callers : CallerOK(d)'
    BY <1>1, <1>2 DEF Give, Goto, Inv, TypeOK, Makers, Removers
  <2> QED
    BY <2>1, <2>2 DEF Inv
<1>4. Promise!Ask(c)
  <2>1. command[c] = NoCommand
    BY DEF Give, Inv
  <2>2. Succeeded' = [Succeeded EXCEPT ![c] = FALSE]
    BY <1>1, <1>2 DEF Give, Succeeded, Inv, TypeOK
  <2> QED
    BY <1>1, <2>1, <2>2, FactsAgree DEF Give, Promise!Ask, Database
<1> QED
  BY <1>3, <1>4 DEF Good, Promise!Next

\* The calls that only read.
LEMMA LooksGood ==
  ASSUME Inv, NEW c \in Callers, Look(c) \/ WaitGone(c) \/ WaitSnapshot(c) \/ ListBranches(c)
  PROVE  Good
<1> DEFINE Fits(label) == /\ label \in PCs \ {"idle"}
                          /\ Serves(label, command[c], tidying[c])
                          /\ HasSeen(label, command[c], been[c])
<1>0. ASSUME NEW label, Fits(label), Reads(c, label), pc[c] # "idle" PROVE Good
  BY <1>0, ReadsGood
<1> HIDE DEF Fits
<1>1. CASE Look(c)
  <2>1. CASE Throws(c)
    BY <1>1, <2>1, ThrowsGood DEF Look
  <2>2. CASE clone = "OK" /\ command[c] # "reset" /\ Ready(c)
    BY <1>1, <2>2, ReadyGood DEF Look
  <2>3. CASE command[c] # "reset" /\ Reads(c, "waitSnapshot")
    <3>1. Fits("waitSnapshot")
      BY <1>1, <2>3 DEF Look, Fits, Inv, PCs
    <3> QED
      BY <1>0, <1>1, <2>3, <3>1 DEF Look
  <2>4. CASE Reads(c, "deleteClone")
    <3>1. Fits("deleteClone")
      BY <1>1 DEF Look, Fits, Inv, PCs
    <3> QED
      BY <1>0, <1>1, <2>4, <3>1 DEF Look
  <2> QED
    BY <1>1, <2>1, <2>2, <2>3, <2>4 DEF Look
<1>2. CASE WaitGone(c)
  <2>1. "absent" \in been[c]
    BY <1>2 DEF WaitGone, Inv, FactsOf, Facts
  <2>2. command[c] \in Makers \cup Removers \cup {"reset"}
    BY <1>2, BranchConstantsOK DEF WaitGone, Inv, TypeOK
  <2>3. /\ tidying[c] \/ command[c] = "delete" => Fits("deleteBranch")
        /\ ~tidying[c] /\ command[c] = "reset" => Fits("createClone")
        /\ ~tidying[c] /\ command[c] \notin {"delete", "reset"} => Fits("waitSnapshot")
    BY <1>2, <2>1, <2>2 DEF WaitGone, Fits, Inv, PCs, Makers, Removers
  <2> QED
    BY <1>0, <1>2, <2>3 DEF WaitGone
<1>3. CASE WaitSnapshot(c)
  <2>1. Fits("listBranches")
    BY <1>3 DEF WaitSnapshot, Fits, Inv, PCs
  <2> QED
    BY <1>0, <1>3, <2>1 DEF WaitSnapshot
<1>4. CASE ListBranches(c)
  <2>1. Fits("createClone") /\ Fits("createBranch")
    BY <1>4 DEF ListBranches, Fits, Inv, PCs, Makers
  <2> QED
    BY <1>0, <1>4, <2>1 DEF ListBranches
<1> QED
  BY <1>1, <1>2, <1>3, <1>4

\* The calls that change the engine.
LEMMA EffectsGood ==
  ASSUME Inv, NEW c \in Callers,
         DeleteClone(c) \/ CreateBranch(c) \/ CreateClone(c) \/ DeleteBranch(c)
  PROVE  Good
<1>1. CASE Throws(c)
  BY <1>1, ThrowsGood DEF DeleteClone, CreateBranch, CreateClone, DeleteBranch
<1>2. CASE pc[c] = "deleteClone" /\ Calls(c, "waitGone")
  BY <1>2, CallsGood DEF Inv, Effectful, PCs
<1>3. CASE pc[c] = "createBranch" /\ Calls(c, "createClone")
  BY <1>3, CallsGood DEF Inv, Effectful, PCs, Makers
<1>4. CASE pc[c] = "createClone" /\ Calls(c, "waitOk")
  <2>1. been[c] \subseteq been'[c]
    BY <1>4, Watching DEF Calls
  <2> QED
    BY <1>4, <2>1, CallsGood DEF Inv, Effectful, PCs
<1>5. CASE pc[c] = "deleteBranch" /\ Calls(c, "return")
  <2>1. been[c] \subseteq been'[c] /\ FactsOf(clone', branch') \subseteq been'[c]
    BY <1>5, Watching DEF Calls
  <2>2. "unbranched" \in been'[c]
    BY <1>5, <2>1 DEF Calls, Engine, FactsOf, Facts
  <2> QED
    BY <1>5, <2>1, <2>2, CallsGood DEF Inv, Effectful, PCs
<1> QED
  BY <1>1, <1>2, <1>3, <1>4, <1>5
  DEF DeleteClone, CreateBranch, CreateClone, DeleteBranch

\* The clone that is waited for, and what is done with it.
LEMMA UsesGood ==
  ASSUME Inv, NEW c \in Callers, WaitOk(c) \/ Open(c) \/ Exec(c) \/ Return(c)
  PROVE  Good
<1>1. CASE WaitOk(c)
  BY <1>1, ReadyGood, ThrowsGood DEF WaitOk
<1>2. CASE Open(c)
  <2>1. Serves("exec", command[c], tidying[c]) /\ HasSeen("exec", command[c], been[c])
    BY <1>2 DEF Open, Inv
  <2> QED
    BY <1>2, <2>1, ReadsGood, ThrowsGood DEF Open, PCs
<1>3. CASE Exec(c)
  <2>1. PICK result \in {"ok", "failed"} :
          IF command[c] \in Ephemeral THEN Tidy(c, result) ELSE Answer(c, result)
    BY <1>3 DEF Exec
  <2>2. CASE command[c] \in Ephemeral
    BY <1>3, <2>1, <2>2, TidyGood DEF Exec
  <2>3. CASE command[c] \notin Ephemeral
    <3>1. Promise!Granted(c)
      BY <1>3, <2>3 DEF Exec, Promise!Granted, Inv, Makers, Ephemeral
    <3> QED
      BY <1>3, <2>1, <2>3, <3>1, AnswerGood DEF Exec
  <2> QED
    BY <2>2, <2>3
<1>4. CASE Return(c)
  <2> DEFINE result == IF tidying[c] THEN outcome[c] ELSE "ok"
  <2>1. result \in {"ok", "failed", "error"}
    BY DEF Inv, TypeOK
  <2>2. ASSUME result # "error" PROVE Promise!Granted(c)
    BY <1>4, <2>2 DEF Return, Promise!Granted, Inv, Ephemeral
  <2> QED
    BY <1>4, <2>1, <2>2, AnswerGood DEF Return
<1> QED
  BY <1>1, <1>2, <1>3, <1>4

LEMMA TroublesGood ==
  ASSUME Inv, NEW c \in Callers, CallFails(c) \/ ReplyLost(c) \/ Throw(c) \/ GiveUp(c)
  PROVE  Good
<1>1. CASE Throws(c) /\ pc[c] # "idle"
  BY <1>1, ThrowsGood
<1>2. CASE ReplyLost(c)
  BY <1>2, CallsGood DEF ReplyLost, Inv, PCs, Effectful
<1> QED
  BY <1>1, <1>2 DEF CallFails, Throw, GiveUp

LEMMA NextGood ==
  ASSUME Inv, [Next]_vars
  PROVE  Good
<1>1. CASE Settle \/ Spoil
  BY <1>1, EngineGood DEF Settle, Spoil, Becomes
<1>2. CASE FirstSnapshot \/ UNCHANGED vars
  <2>1. UNCHANGED <<clone, branch, caller, been>>
    BY <1>2 DEF FirstSnapshot
  <2>2. Inv'
    BY <2>1 DEF Inv, TypeOK, FactsOf
  <2>3. UNCHANGED Promise!state
    BY <2>1 DEF Promise!state, Database, Succeeded
  <2> QED
    BY <2>2, <2>3 DEF Good
<1>3. ASSUME NEW c \in Callers, Give(c) \/ Step(c) PROVE Good
  BY <1>3, GiveGood, LooksGood, EffectsGood, UsesGood, TroublesGood DEF Step
<1> QED
  BY <1>1, <1>2, <1>3 DEF Next

-----------------------------------------------------------------------------
(* The theorem *)

\* Whatever other callers do, calls fail or deadlines pass, a branch command
\* that succeeds has kept its promise, and nobody touches a database that no
\* pending command speaks of (workflows.ts:79-143, migrate.ts:91-112).
THEOREM CommandsKeepTheirPromise == Spec => KeepsPromise
<1>1. Inv /\ [Next]_vars => Inv' /\ [Promise!Next]_(Promise!state)
  BY NextGood DEF Good
<1> QED
  BY InitOK, InitPromised, <1>1, PTL DEF Spec, KeepsPromise, Promise!Spec

-----------------------------------------------------------------------------
(* Commands that nothing came beside *)

\* What clone and branch are when a command that nothing disturbed makes a call.
Finds(at) ==
  /\ at = "waitGone" => clone \in {"none", "DELETING"}
  /\ at \in {"waitSnapshot", "listBranches", "createBranch", "createClone",
             "deleteBranch", "return"} => clone = "none"
  /\ at \in {"createBranch", "return"} => ~branch
  /\ at = "createClone" => branch
  /\ at = "waitOk" => clone \in {"CREATING", "OK"}
  /\ at \in {"open", "exec"} => clone = "OK"

\* Nobody else has a command, no reply was lost, and what is tidied up after has
\* run.
Undisturbed(c) ==
  /\ \A d \in Callers : pc[d] # "idle" => d = c
  /\ pc[c] # "throw"
  /\ tidying[c] => outcome[c] # "error"
  /\ command[c] # "reset" => Finds(pc[c])

AloneInv ==
  /\ alone \in [Callers -> BOOLEAN]
  /\ \A c \in Callers : alone[c] => Undisturbed(c)

\* The steps of an undisturbed command.
Smooth(c) ==
  \/ Look(c) \/ DeleteClone(c) \/ WaitGone(c) \/ WaitSnapshot(c)
  \/ ListBranches(c) \/ CreateBranch(c) \/ CreateClone(c) \/ WaitOk(c)
  \/ Open(c) \/ Exec(c) \/ DeleteBranch(c) \/ Return(c)

LEMMA StepIsBusy ==
  ASSUME NEW c \in Callers, Step(c)
  PROVE  pc[c] # "idle"
  BY DEF Step, Look, DeleteClone, WaitGone, WaitSnapshot, ListBranches, CreateBranch,
         CreateClone, WaitOk, Open, Exec, DeleteBranch, Return, Throw, CallFails,
         ReplyLost, GiveUp, Effectful

\* Whoever is alone after a step of some caller was alone before it, and the
\* step was a smooth one of its own.
LEMMA AloneIsSmooth ==
  ASSUME AloneInv, NEW c \in Callers, NEW d \in Callers, Step(d), alone'[c]
  PROVE  alone[c] /\ c = d /\ Smooth(c)
<1>1. CASE CallFails(d) \/ ReplyLost(d)
  BY <1>1 DEF CallFails, ReplyLost, Trouble
<1>2. ASSUME alone[c] PROVE c = d /\ ~ Throw(d)
  BY <1>2, StepIsBusy DEF AloneInv, Undisturbed, Throw
<1>3. CASE GiveUp(d)
  BY <1>2, <1>3 DEF GiveUp, AloneInv
<1>4. CASE Throw(d)
  BY <1>2, <1>4 DEF Throw, NoTrouble
<1>5. CASE Smooth(d)
  <2>1. UNCHANGED alone
    BY <1>5 DEF Smooth, Look, DeleteClone, WaitGone, WaitSnapshot, ListBranches,
                CreateBranch, CreateClone, WaitOk, Open, Exec, DeleteBranch, Return,
                NoTrouble
  <2> QED
    BY <1>2, <1>5, <2>1
<1> QED
  BY <1>1, <1>3, <1>4, <1>5 DEF Step, Smooth

\* What a step of an undisturbed command keeps, and how it may end one.
Goes(c) ==
  /\ Undisturbed(c)'
  /\ command[c] # "reset" => ~ Ends(c, {"error"})
  /\ Ends(c, {"ok", "failed"}) /\ command[c] \in Ephemeral => clone = "none" /\ ~branch

LEMMA ReadsGoes ==
  ASSUME Inv, NEW c \in Callers, Undisturbed(c),
         NEW label \in PCs \ {"idle", "throw"}, Reads(c, label),
         command[c] # "reset" => Finds(label)
  PROVE  Goes(c)
<1>1. pc'[c] = label /\ \A d \in Callers : d # c => pc'[d] = pc[d]
  BY DEF Reads, Goto, Inv, TypeOK
<1>2. Undisturbed(c)'
  BY <1>1 DEF Reads, Undisturbed, Finds
<1> QED
  BY <1>1, <1>2 DEF Goes, Ends

LEMMA AnswerGoes ==
  ASSUME Inv, NEW c \in Callers, Undisturbed(c), NEW result, Answer(c, result),
         command[c] # "reset" => result # "error",
         command[c] \in Ephemeral => clone = "none" /\ ~branch
  PROVE  Goes(c)
<1>1. /\ pc'[c] = "idle" /\ ~ tidying'[c] /\ outcome'[c] = result
      /\ \A d \in Callers : d # c => pc'[d] = pc[d]
  BY DEF Answer, Goto, Inv, TypeOK
<1>2. Undisturbed(c)'
  BY <1>1 DEF Undisturbed, Finds
<1> QED
  BY <1>1, <1>2 DEF Goes, Ends

LEMMA TidyGoes ==
  ASSUME Inv, NEW c \in Callers, Undisturbed(c), NEW result \in {"ok", "failed"},
         Tidy(c, result)
  PROVE  Goes(c)
<1>1. /\ pc'[c] = "deleteClone" /\ outcome'[c] = result
      /\ \A d \in Callers : d # c => pc'[d] = pc[d]
  BY DEF Tidy, Goto, Inv, TypeOK
<1>2. Undisturbed(c)'
  BY <1>1 DEF Undisturbed, Finds
<1> QED
  BY <1>1, <1>2 DEF Goes, Ends

LEMMA CallsGoes ==
  ASSUME Inv, NEW c \in Callers, Undisturbed(c),
         NEW label \in PCs \ {"idle", "throw"}, Calls(c, label),
         command[c] # "reset" => Finds(label)'
  PROVE  Goes(c)
<1>1. pc'[c] = label /\ \A d \in Callers : d # c => pc'[d] = pc[d]
  BY DEF Calls, Goto, Inv, TypeOK
<1>2. Undisturbed(c)'
  BY <1>1 DEF Calls, Undisturbed, Finds
<1> QED
  BY <1>1, <1>2 DEF Goes, Ends

\* Only a reset finds nothing to work on.
LEMMA ThrowsGoes ==
  ASSUME Inv, NEW c \in Callers, Undisturbed(c), Throws(c), command[c] = "reset"
  PROVE  Goes(c)
  BY AnswerGoes DEF Throws, Ephemeral

LEMMA ReadyGoes ==
  ASSUME Inv, NEW c \in Callers, Undisturbed(c), clone = "OK", Ready(c)
  PROVE  Goes(c)
<1>1. CASE command[c] \in {"ensure", "reset"}
  BY <1>1, AnswerGoes DEF Ready, Ephemeral
<1>2. CASE command[c] \notin {"ensure", "reset"}
  BY <1>2, ReadsGoes DEF Ready, Finds, PCs
<1> QED
  BY <1>1, <1>2

LEMMA SmoothGoes ==
  ASSUME Inv, NEW c \in Callers, Undisturbed(c), Smooth(c)
  PROVE  Goes(c)
<1>1. CASE Look(c)
  BY <1>1, ThrowsGoes, ReadyGoes, ReadsGoes DEF Look, Finds, PCs
<1>2. CASE WaitGone(c)
  BY <1>2, ReadsGoes DEF WaitGone, Finds, PCs
<1>3. CASE WaitSnapshot(c) \/ ListBranches(c)
  BY <1>3, ReadsGoes DEF WaitSnapshot, ListBranches, Undisturbed, Finds, PCs, Inv
<1>4. CASE DeleteClone(c)
  <2>1. Calls(c, "waitGone") /\ Finds("waitGone")'
    BY <1>4 DEF DeleteClone, Calls, Engine, Finds
  <2> QED
    BY <2>1, CallsGoes DEF PCs
<1>5. CASE CreateBranch(c)
  <2>1. command[c] # "reset" /\ Calls(c, "createClone") /\ Finds("createClone")'
    BY <1>5 DEF CreateBranch, Calls, Engine, Undisturbed, Finds, Inv, Makers
  <2> QED
    BY <2>1, CallsGoes DEF PCs
<1>6. CASE CreateClone(c)
  <2>1. CASE Calls(c, "waitOk") /\ branch /\ clone = "none"
    <3>1. Finds("waitOk")'
      BY <1>6, <2>1 DEF CreateClone, Calls, Engine, Finds
    <3> QED
      BY <2>1, <3>1, CallsGoes DEF PCs
  <2>2. CASE Throws(c) /\ command[c] = "reset"
    BY <2>2, ThrowsGoes
  <2> QED
    BY <1>6, <2>1, <2>2 DEF CreateClone, Undisturbed, Finds
<1>7. CASE WaitOk(c)
  BY <1>7, ThrowsGoes, ReadyGoes DEF WaitOk, Undisturbed, Finds
<1>8. CASE Open(c)
  BY <1>8, ReadsGoes, ThrowsGoes DEF Open, Undisturbed, Finds, PCs
<1>9. CASE Exec(c)
  BY <1>9, TidyGoes, AnswerGoes DEF Exec
<1>10. CASE DeleteBranch(c)
  <2>1. CASE Calls(c, "return")
    <3>1. command[c] # "reset" => Finds("return")'
      BY <1>10, <2>1 DEF DeleteBranch, Calls, Engine, Undisturbed, Finds
    <3> QED
      BY <2>1, <3>1, CallsGoes DEF PCs
  <2>2. CASE Throws(c) /\ command[c] = "reset"
    BY <2>2, ThrowsGoes
  <2> QED
    BY <1>10, <2>1, <2>2 DEF DeleteBranch, Undisturbed, Finds
<1>11. CASE Return(c)
  BY <1>11, AnswerGoes DEF Return, Undisturbed, Finds, Ephemeral
<1> QED
  BY <1>1, <1>2, <1>3, <1>4, <1>5, <1>6, <1>7, <1>8, <1>9, <1>10, <1>11 DEF Smooth

LEMMA AloneStep ==
  ASSUME Inv, AloneInv, [Next]_vars
  PROVE  AloneInv' /\ \A c \in Callers : pc[c] # "idle" /\ alone'[c] /\ pc'[c] = "idle" => Goes(c)
<1>1. ASSUME NEW c \in Callers, alone'[c]
      PROVE  Undisturbed(c)' /\ (pc[c] # "idle" /\ pc'[c] = "idle" => Goes(c))
  <2>1. CASE Settle \/ Spoil \/ FirstSnapshot \/ UNCHANGED vars
    <3>1. UNCHANGED <<pc, command, tidying, outcome>>
      BY <2>1 DEF Settle, Spoil, FirstSnapshot, Becomes
    <3>2. alone[c]
      BY <1>1, <2>1 DEF Settle, Spoil, FirstSnapshot, Trouble, NoTrouble
    <3>3. Finds(pc[c]) => Finds(pc[c])'
      BY <1>1, <2>1, <3>1 DEF Settle, Spoil, FirstSnapshot, Becomes, Finds, Trouble
    <3> QED
      BY <3>1, <3>2, <3>3 DEF AloneInv, Undisturbed
  <2>2. ASSUME NEW d \in Callers, Give(d) PROVE Undisturbed(c)' /\ pc[c] = "idle"
    <3>1. c = d /\ \A e \in Callers : pc[e] = "idle"
      BY <1>1, <2>2 DEF Give
    <3>2. PICK o \in Commands : Goto(c, IF o = "delete" THEN "deleteClone" ELSE "getClone")
      BY <2>2, <3>1 DEF Give
    <3>3. pc'[c] \in {"deleteClone", "getClone"} /\ \A e \in Callers : e # c => pc'[e] = "idle"
      BY <3>1, <3>2 DEF Goto, Inv, TypeOK
    <3>4. ~ tidying'[c]
      BY <2>2, <3>1 DEF Give, Inv
    <3> QED
      BY <3>1, <3>3, <3>4 DEF Undisturbed, Finds
  <2>3. ASSUME NEW d \in Callers, Step(d) PROVE Goes(c)
    BY <1>1, <2>3, AloneIsSmooth, SmoothGoes DEF AloneInv
  <2> QED
    BY <2>1, <2>2, <2>3 DEF Next, Goes, Settle, Spoil, FirstSnapshot, Becomes
<1>2. alone' \in [Callers -> BOOLEAN]
  <2>1. ASSUME NEW d \in Callers, Smooth(d) \/ Throw(d) PROVE UNCHANGED alone
    BY <2>1 DEF Smooth, Look, DeleteClone, WaitGone, WaitSnapshot, ListBranches,
                CreateBranch, CreateClone, WaitOk, Open, Exec, DeleteBranch, Return,
                Throw, NoTrouble
  <2>2. ASSUME NEW d \in Callers, Give(d)
        PROVE  alone' \in [Callers -> BOOLEAN]
    BY <2>2 DEF Give
  <2>3. ASSUME NEW d \in Callers, CallFails(d) \/ ReplyLost(d) \/ GiveUp(d)
        PROVE  alone' \in [Callers -> BOOLEAN]
    BY <2>3 DEF CallFails, ReplyLost, GiveUp, Trouble, AloneInv
  <2>4. CASE Settle \/ Spoil \/ FirstSnapshot \/ UNCHANGED vars
    BY <2>4 DEF Settle, Spoil, FirstSnapshot, Trouble, NoTrouble, AloneInv
  <2> QED
    BY <2>1, <2>2, <2>3, <2>4 DEF Next, Step, Smooth, AloneInv
<1> QED
  BY <1>1, <1>2 DEF AloneInv

LEMMA InitAlone == Init => AloneInv
  BY DEF Init, AloneInv

\* An ensure beside which no other command ran and no call failed does not end
\* in an error, whatever state earlier commands left clone and branch in; nor
\* does any other command but a reset, which may find no clone
\* (workflows.ts:76-77).
THEOREM EnsuresRepair == Spec => EnsureRepairs
<1>1. Inv /\ AloneInv /\ [Next]_vars =>
        [\A c \in Callers : Ends(c, {"error"}) /\ alone'[c] => command[c] = "reset"]_vars
  BY AloneStep DEF Goes, Ends
<1>2. Inv /\ AloneInv /\ [Next]_vars => Inv' /\ AloneInv'
  BY NextGood, AloneStep DEF Good
<1> QED
  BY InitOK, InitAlone, <1>1, <1>2, PTL DEF Spec, EnsureRepairs

\* A scratch migration or a withBranch whose command ran, well or not, and
\* beside which nothing came, leaves neither clone nor branch
\* (migrate.ts:106-111, sdk.ts:270-273).
THEOREM NothingStaysBehind == Spec => NothingIsLeft
<1>1. Inv /\ AloneInv /\ [Next]_vars =>
        [\A c \in Callers :
           Ends(c, {"ok", "failed"}) /\ alone'[c] /\ command[c] \in Ephemeral
             => clone = "none" /\ ~branch]_vars
  BY AloneStep DEF Goes, Ends
<1>2. Inv /\ AloneInv /\ [Next]_vars => Inv' /\ AloneInv'
  BY NextGood, AloneStep DEF Good
<1> QED
  BY InitOK, InitAlone, <1>1, <1>2, PTL DEF Spec, NothingIsLeft
=============================================================================

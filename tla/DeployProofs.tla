---------------------------- MODULE DeployProofs ----------------------------
(***************************************************************************)
(* What TLAPS proves of Deploy, for every value of its constants.           *)
(***************************************************************************)
EXTENDS Deploy, TLAPS

USE DEF deployment, bounds, vars

\* The actions, one by one.
LEMMA NextCases ==
  ASSUME [Next]_vars
  PROVE  \/ \E s \in Scaffolds, d \in Dirs, force \in BOOLEAN : RunInit(s, d, force)
         \/ \E d \in Dirs : CreateSecret(d)
         \/ \E e \in Envs, p \in Platforms \cup {None} : AddEnvironment(e, p)
         \/ \E r \in Runs, first \in {"preflight", "destroy"}, e \in Layers,
               flag \in Dirs \cup {None} : Start(r, first, e, flag)
         \/ \E r \in Runs : Preflight(r) \/ Vault(r) \/ Secret(r) \/ Apply(r)
         \/ \E r \in Runs : Discover(r) \/ Fail(r) \/ Destroy(r)
         \/ UNCHANGED vars
  BY DEF Next

-----------------------------------------------------------------------------
(* Blocks of tendb.json *)

\* What is spread over a block wins where it has a value.
LEMMA Spreading ==
  ASSUME NEW below \in Layer, NEW above \in Layer
  PROVE  /\ Spread(below, above) \in Layer
         /\ \A k \in Keys : above[k] # None => Spread(below, above)[k] = above[k]
         /\ \A k \in Keys : above[k] = None => Spread(below, above)[k] = below[k]
  BY DEF Spread, Layer

LEMMA EmptyBlock == Empty \in Layer /\ \A k \in Keys : Empty[k] = None
  BY DEF Empty, Layer

\* The keys that a stack of any platform writes.
LEMMA Discovered ==
  ASSUME NEW p \in Platforms, NEW n \in Names, NEW s, s.platform = p, s.name = n
  PROVE  /\ PlatformSpec(s).initial \in Layer
         /\ PlatformSpec(s).discovery \in Layer
         /\ PlatformSpec(s).discovery.platform = p
         /\ p \in {"gcp", "azure"} => PlatformSpec(s).discovery.paramPrefix = n
         /\ p = "aws" => PlatformSpec(s).discovery.ssmPrefix = n
<1>1. p \in {"aws", "gcp", "azure", "local"}
  BY DeployConstantsOK
<1>2. CASE p = "aws"
  BY <1>2 DEF PlatformSpec, Aws, Empty, Layer, Keys
<1>3. CASE p = "gcp"
  BY <1>3 DEF PlatformSpec, Gcp, Empty, Layer, Keys
<1>4. CASE p = "azure"
  BY <1>4 DEF PlatformSpec, Azure, Empty, Layer, Keys
<1>5. CASE p = "local"
  BY <1>5 DEF PlatformSpec, Local, Empty, Layer, Keys
<1> QED
  BY <1>1, <1>2, <1>3, <1>4, <1>5

-----------------------------------------------------------------------------
(* Commands and what they work on *)

Engines == [platform : Platforms, name : Names, hasSource : BOOLEAN, unchecked : BOOLEAN]
States  == [some : BOOLEAN, engine : Engines \cup {None}]
Values  == Platforms \cup Names \cup {None, "aws"}
Jobs    == [env : Layers, dir : Dirs, platform : Values, unchecked : BOOLEAN,
            at : {"preflight", "vault", "secret", "apply", "discover", "destroy"}]

DeploymentOK ==
  /\ scaffold \in [Dirs -> Scaffolds \cup {None}]
  /\ secret \subseteq Dirs
  /\ state \in [Dirs -> States]

FileOK == file # None => file \in File /\ file.layer[Top] \in Layer

\* No two commands in one directory, and none without a scaffold.
RunsOK ==
  /\ run \in [Runs -> Jobs \cup {None}]
  /\ \A r \in Runs : run[r] # None => scaffold[run[r].dir] # None
  /\ \A r, o \in Runs : r # o /\ run[r] # None /\ run[o] # None => run[r].dir # run[o].dir

\* What is to be discovered is there.
DiscoverOK ==
  \A r \in Runs : At(r, "discover") => state[run[r].dir].engine \in Engines

TypeOK == DeploymentOK /\ FileOK /\ RunsOK /\ DiscoverOK

LEMMA InitTyped == Init => TypeOK
<1> SUFFICES ASSUME Init PROVE TypeOK
  OBVIOUS
<1>1. DeploymentOK
  BY DEF Init, DeploymentOK, States, NoResources
<1>2. FileOK
  <2>1. Fresh \in File /\ Fresh.layer[Top] \in Layer
    BY EmptyBlock DEF Fresh, File, Layers
  <2> QED
    BY <2>1 DEF Init, FileOK
<1>3. RunsOK
  BY DEF Init, RunsOK
<1>4. DiscoverOK
  BY DEF Init, DiscoverOK, At
<1> QED
  BY <1>1, <1>2, <1>3, <1>4 DEF TypeOK

LEMMA Resolved ==
  ASSUME FileOK, NEW e \in Layers, Configured(file, e)
  PROVE  Resolve(file, e).platform \in Values
<1>1. TopOf(file) \in Layer /\ EnvOf(file, e) \in Layer
  BY EmptyBlock DEF FileOK, TopOf, EnvOf, Configured, File
<1> QED
  BY <1>1, DeployConstantsOK DEF Resolve, Spread, Defaults, Canonical, Layer, Keys, Values

LEMMA DirFound ==
  ASSUME FileOK, NEW flag \in Dirs \cup {None}, DeployDir(file, flag) # None
  PROVE  DeployDir(file, flag) \in Dirs /\ scaffold[DeployDir(file, flag)] # None
  BY DeployConstantsOK DEF DeployDir, FileOK, File

\* What an apply makes.
LEMMA EngineMade ==
  ASSUME TypeOK, NEW r \in Runs, Apply(r)
  PROVE  /\ run[r].dir \in Dirs
         /\ scaffold[run[r].dir] \in Scaffolds
         /\ state'[run[r].dir].engine \in Engines
         /\ state' = [state EXCEPT ![run[r].dir] =
                        [some |-> TRUE, engine |-> state'[run[r].dir].engine]]
<1> DEFINE d == run[r].dir
           s == scaffold[d]
           made == [platform |-> s.platform, name |-> s.name,
                    hasSource |-> s.platform = "local" \/ d \in secret,
                    unchecked |-> run[r].unchecked]
<1>1. d \in Dirs /\ s \in Scaffolds
  BY DEF TypeOK, DeploymentOK, RunsOK, Jobs, Apply, At
<1>2. made \in Engines
  <2>1. run[r].unchecked \in BOOLEAN
    BY DEF TypeOK, RunsOK, Jobs, Apply, At
  <2> QED
    BY <1>1, <2>1 DEF Engines, Scaffolds
<1>3. state' = [state EXCEPT ![d] = [some |-> TRUE, engine |-> made]]
  BY DEF Apply
<1>4. state'[d].engine = made
  BY <1>1, <1>3 DEF TypeOK, DeploymentOK
<1> QED
  BY <1>1, <1>2, <1>3, <1>4

LEMMA DeploymentTyped == TypeOK /\ [Next]_vars => DeploymentOK'
<1> SUFFICES ASSUME TypeOK, [Next]_vars PROVE DeploymentOK'
  OBVIOUS
<1> USE DEF TypeOK, DeploymentOK, RunsOK, Jobs, At
<1>1. ASSUME NEW s \in Scaffolds, NEW d \in Dirs, NEW force \in BOOLEAN, RunInit(s, d, force)
      PROVE  DeploymentOK'
  BY <1>1 DEF RunInit
<1>2. ASSUME NEW d \in Dirs, CreateSecret(d) PROVE DeploymentOK'
  BY <1>2 DEF CreateSecret
<1>3. ASSUME NEW r \in Runs, Vault(r) PROVE DeploymentOK'
  BY <1>3 DEF Vault, States
<1>4. ASSUME NEW r \in Runs, Secret(r) PROVE DeploymentOK'
  BY <1>4 DEF Secret
<1>5. ASSUME NEW r \in Runs, Apply(r) PROVE DeploymentOK'
  BY <1>5, EngineMade DEF Apply, States
<1>6. ASSUME NEW r \in Runs, Fail(r) PROVE DeploymentOK'
  <2>1. CASE UNCHANGED state
    BY <1>6, <2>1 DEF Fail
  <2>2. CASE state' = [state EXCEPT ![run[r].dir].some = TRUE]
    BY <1>6, <2>2 DEF Fail, States
  <2> QED
    BY <1>6, <2>1, <2>2 DEF Fail
<1>7. ASSUME NEW r \in Runs, Destroy(r) PROVE DeploymentOK'
  BY <1>7 DEF Destroy, NoResources, States
<1>8. CASE UNCHANGED deployment
  BY <1>8
<1> QED
  BY <1>1, <1>2, <1>3, <1>4, <1>5, <1>6, <1>7, <1>8
  DEF Next, AddEnvironment, Start, Preflight, Discover

LEMMA MergedTyped ==
  ASSUME FileOK, NEW s \in Scaffolds, NEW d \in Dirs, NEW force \in BOOLEAN
  PROVE  /\ Merged(PlatformSpec(s).initial, d, force) \in File
         /\ Merged(PlatformSpec(s).initial, d, force).layer[Top] \in Layer
<1> USE DEF FileOK
<1>1. PlatformSpec(s).initial \in Layer
  BY Discovered DEF Scaffolds
<1>2. Fresh \in File
  BY EmptyBlock DEF Fresh, File, Layers
<1>3. TopOf(file) \in Layer
  BY EmptyBlock DEF TopOf
<1>4. /\ Spread(TopOf(file), PlatformSpec(s).initial) \in Layer
      /\ Spread(PlatformSpec(s).initial, TopOf(file)) \in Layer
  BY <1>1, <1>3, Spreading
<1> QED
  BY <1>1, <1>2, <1>4 DEF Merged, File, Layers

LEMMA FileTyped == TypeOK /\ [Next]_vars => FileOK'
<1> SUFFICES ASSUME TypeOK, [Next]_vars PROVE FileOK'
  OBVIOUS
<1> USE DEF TypeOK, FileOK
<1>1. ASSUME NEW s \in Scaffolds, NEW d \in Dirs, NEW force \in BOOLEAN, RunInit(s, d, force)
      PROVE  FileOK'
  BY <1>1, MergedTyped DEF RunInit
<1>2. ASSUME NEW e \in Envs, NEW p \in Platforms \cup {None}, AddEnvironment(e, p)
      PROVE  FileOK'
  <2>1. [Empty EXCEPT !.platform = p] \in Layer
    BY DEF Empty, Layer, Keys
  <2> QED
    BY <1>2, <2>1, DeployConstantsOK DEF AddEnvironment, File, Layers
<1>3. ASSUME NEW r \in Runs, Discover(r) PROVE FileOK'
  <2> DEFINE s == state[run[r].dir].engine
             base == IF file = None THEN Fresh ELSE file
             below(e) == IF base.layer[e] = None THEN Empty ELSE base.layer[e]
  <2>1. s \in Engines /\ run[r].env \in Layers
    BY <1>3 DEF Discover, DiscoverOK, RunsOK, At, Jobs
  <2>2. PlatformSpec(s).discovery \in Layer
    BY <2>1, Discovered DEF Engines
  <2>3. base \in File /\ base.layer[Top] \in Layer
    BY EmptyBlock DEF Fresh, File, Layers
  <2>4. below(run[r].env) \in Layer
    BY <2>1, <2>3, EmptyBlock DEF File
  <2>5. Spread(below(run[r].env), PlatformSpec(s).discovery) \in Layer
    BY <2>2, <2>4, Spreading
  <2>6. file' = [base EXCEPT !.layer[run[r].env] =
                   Spread(below(run[r].env), PlatformSpec(s).discovery)]
    BY <1>3 DEF Discover
  <2> DEFINE block == Spread(below(run[r].env), PlatformSpec(s).discovery)
  <2>7. block \in Layer /\ file' = [base EXCEPT !.layer[run[r].env] = block]
    BY <2>5, <2>6
  <2> HIDE DEF base, block
  <2>8. [base.layer EXCEPT ![run[r].env] = block] \in [Layers -> Layer \cup {None}]
    BY <2>1, <2>3, <2>7 DEF File
  <2> QED
    BY <2>3, <2>7, <2>8 DEF File
<1>4. CASE UNCHANGED file
  BY <1>4
<1> QED
  BY <1>1, <1>2, <1>3, <1>4
  DEF Next, CreateSecret, Start, Preflight, Vault, Secret, Apply, Fail, Destroy

LEMMA RunsTyped == TypeOK /\ [Next]_vars => RunsOK'
<1> SUFFICES ASSUME TypeOK, [Next]_vars PROVE RunsOK'
  OBVIOUS
<1> USE DEF TypeOK, RunsOK, Jobs, At
<1>1. ASSUME NEW s \in Scaffolds, NEW d \in Dirs, NEW force \in BOOLEAN, RunInit(s, d, force)
      PROVE  RunsOK'
  BY <1>1 DEF RunInit, Idle
<1>2. ASSUME NEW r \in Runs, NEW first \in {"preflight", "destroy"}, NEW e \in Layers,
             NEW flag \in Dirs \cup {None}, Start(r, first, e, flag)
      PROVE  RunsOK'
  <2> DEFINE d == DeployDir(file, flag)
  <2>1. d \in Dirs /\ scaffold[d] # None
    BY <1>2, DirFound DEF Start
  <2>2. Resolve(file, e).platform \in Values
    BY <1>2, Resolved DEF Start
  <2>3. state[d].some \in BOOLEAN
    BY <2>1 DEF DeploymentOK, States
  <2> DEFINE unchecked == \/ Resolve(file, e).platform # scaffold[d].platform
                          \/ Resolve(file, e).platform = "azure" /\ state[d].some
  <2>4. [env |-> e, dir |-> d, platform |-> Resolve(file, e).platform, at |-> first,
         unchecked |-> unchecked] \in Jobs
    BY <2>1, <2>2, <2>3
  <2> QED
    BY <1>2, <2>1, <2>4 DEF Start
<1>3. ASSUME NEW r \in Runs, NEW where \in {"vault", "secret", "apply", "discover"},
             run[r] # None, Goto(r, where), UNCHANGED scaffold
      PROVE  RunsOK'
  BY <1>3 DEF Goto
<1>4. ASSUME NEW r \in Runs, Discover(r) \/ Fail(r) \/ Destroy(r)
      PROVE  RunsOK'
  <2>1. End(r) /\ UNCHANGED scaffold
    BY <1>4 DEF Discover, Fail, Destroy
  <2> QED
    BY <2>1 DEF End
<1>5. CASE UNCHANGED <<run, scaffold>>
  BY <1>5
<1>6. ASSUME NEW r \in Runs, Preflight(r) PROVE RunsOK'
  <2>1. CASE Goto(r, "vault") \/ Goto(r, "apply")
    BY <1>3, <1>6, <2>1 DEF Preflight
  <2>2. CASE run' = [run EXCEPT ![r].at = "apply", ![r].unchecked = TRUE]
    <3>1. run[r] # None /\ UNCHANGED scaffold
      BY <1>6 DEF Preflight
    <3>2. [run[r] EXCEPT !.at = "apply", !.unchecked = TRUE] \in Jobs
      BY <3>1
    <3>3. run'[r] = [run[r] EXCEPT !.at = "apply", !.unchecked = TRUE]
      BY <2>2
    <3>4. run'[r].dir = run[r].dir /\ \A o \in Runs \ {r} : run'[o] = run[o]
      BY <2>2, <3>1, <3>3
    <3> QED
      BY <2>2, <3>1, <3>2, <3>3, <3>4
  <2> QED
    BY <1>6, <2>1, <2>2 DEF Preflight
<1>7. ASSUME NEW r \in Runs, Vault(r) \/ Secret(r) \/ Apply(r) PROVE RunsOK'
  <2>1. \E where \in {"secret", "apply", "discover"} : Goto(r, where)
    BY <1>7 DEF Vault, Secret, Apply
  <2> QED
    BY <1>3, <1>7, <2>1 DEF Vault, Secret, Apply
<1> HIDE DEF TypeOK, RunsOK, Jobs
<1> QED
  BY <1>1, <1>2, <1>4, <1>5, <1>6, <1>7, NextCases DEF CreateSecret, AddEnvironment

\* A command leaves the states of other directories alone.
LEMMA OthersKeepState ==
  ASSUME TypeOK, NEW r \in Runs,
         Vault(r) \/ Apply(r) \/ Fail(r) \/ Destroy(r)
  PROVE  \A o \in Runs : o # r /\ run[o] # None => state'[run[o].dir] = state[run[o].dir]
<1>1. \A d \in Dirs : d # run[r].dir => state'[d] = state[d]
  BY DEF TypeOK, DeploymentOK, Vault, Apply, Fail, Destroy
<1> QED
  BY <1>1 DEF TypeOK, RunsOK, Jobs, Vault, Apply, Fail, Destroy, At

LEMMA DiscoverTyped == TypeOK /\ [Next]_vars => DiscoverOK'
<1> SUFFICES ASSUME TypeOK, [Next]_vars PROVE DiscoverOK'
  OBVIOUS
<1> USE DEF DiscoverOK, At
<1>0. run \in [Runs -> Jobs \cup {None}] /\ DiscoverOK
  BY DEF TypeOK, RunsOK
<1>1. ASSUME NEW r \in Runs, NEW where \in {"vault", "secret", "apply"},
             Goto(r, where), UNCHANGED state
      PROVE  DiscoverOK'
  BY <1>0, <1>1 DEF Goto, Jobs
<1>2. ASSUME NEW r \in Runs, Apply(r) PROVE DiscoverOK'
  <2>1. /\ run' = [run EXCEPT ![r].at = "discover"] /\ run[r] # None
        /\ state'[run[r].dir].engine \in Engines
        /\ \A o \in Runs : o # r /\ run[o] # None => state'[run[o].dir] = state[run[o].dir]
    BY <1>2, EngineMade, OthersKeepState DEF Apply, Goto
  <2>2. run'[r].dir = run[r].dir
    BY <1>0, <2>1 DEF Jobs
  <2> QED
    BY <1>0, <2>1, <2>2
<1>3. ASSUME NEW r \in Runs, Discover(r) PROVE DiscoverOK'
  <2>1. End(r) /\ UNCHANGED state
    BY <1>3 DEF Discover
  <2> QED
    BY <1>0, <2>1 DEF End
<1>4. ASSUME NEW r \in Runs, Fail(r) \/ Destroy(r) PROVE DiscoverOK'
  <2>1. run' = [run EXCEPT ![r] = None]
    BY <1>4 DEF Fail, Destroy, End
  <2>2. \A o \in Runs : o # r /\ run[o] # None => state'[run[o].dir] = state[run[o].dir]
    BY <1>4, OthersKeepState
  <2> QED
    BY <1>0, <2>1, <2>2
<1>5. CASE UNCHANGED <<run, state>>
  BY <1>0, <1>5
<1>6. ASSUME NEW r \in Runs, Preflight(r) \/ Secret(r) PROVE DiscoverOK'
  <2>1. CASE run' = [run EXCEPT ![r].at = "apply", ![r].unchecked = TRUE] /\ UNCHANGED state
    BY <1>0, <2>1 DEF Jobs
  <2> QED
    BY <1>1, <1>6, <2>1 DEF Preflight, Secret
<1>7. ASSUME NEW r \in Runs, Vault(r) PROVE DiscoverOK'
  BY <1>0, <1>7, OthersKeepState DEF Vault, Goto, Jobs
<1>8. ASSUME NEW r \in Runs, NEW first \in {"preflight", "destroy"}, NEW e \in Layers,
             NEW flag \in Dirs \cup {None}, Start(r, first, e, flag)
      PROVE  DiscoverOK'
  BY <1>0, <1>8 DEF Start
<1>9. ASSUME NEW s \in Scaffolds, NEW d \in Dirs, NEW force \in BOOLEAN, RunInit(s, d, force)
      PROVE  DiscoverOK'
  BY <1>9 DEF RunInit, Idle
<1> QED
  BY <1>1, <1>2, <1>3, <1>4, <1>5, <1>6, <1>7, <1>8, <1>9, NextCases
  DEF CreateSecret, AddEnvironment

LEMMA Typed == Spec => []TypeOK
<1>1. TypeOK /\ [Next]_vars => TypeOK'
  BY DeploymentTyped, FileTyped, RunsTyped, DiscoverTyped DEF TypeOK
<1> QED
  BY InitTyped, <1>1, PTL DEF Spec

-----------------------------------------------------------------------------
(* The source secret *)

\* A command that is not unchecked is of its scaffold's platform; a first apply
\* on azure has no state until it is bootstrapped; a command that has got as far
\* as the apply has its secret, needs none or is unchecked.
SourceInv ==
  /\ \A r \in Runs : At(r, "preflight") /\ ~run[r].unchecked =>
       /\ run[r].platform = scaffold[run[r].dir].platform
       /\ run[r].platform = "azure" => ~state[run[r].dir].some
  /\ \A r \in Runs : At(r, "apply") =>
       \/ run[r].unchecked
       \/ scaffold[run[r].dir].platform = "local"
       \/ run[r].dir \in secret
  /\ EngineHasSource

LEMMA SourceInvInit == Init => SourceInv
  BY DEF Init, SourceInv, EngineHasSource, At, NoResources

LEMMA SourceInvStep ==
  ASSUME TypeOK, SourceInv, [Next]_vars
  PROVE  SourceInv'
<1>0. run \in [Runs -> Jobs \cup {None}] /\ state \in [Dirs -> States]
  BY DEF TypeOK, RunsOK, DeploymentOK
<1>1. ASSUME NEW s \in Scaffolds, NEW d \in Dirs, NEW force \in BOOLEAN, RunInit(s, d, force)
      PROVE  SourceInv'
  BY <1>1 DEF RunInit, Idle, SourceInv, EngineHasSource, At
<1>2. ASSUME NEW d \in Dirs, CreateSecret(d) PROVE SourceInv'
  BY <1>2 DEF CreateSecret, SourceInv, EngineHasSource, At
<1>3. ASSUME NEW e \in Envs, NEW p \in Platforms \cup {None}, AddEnvironment(e, p)
      PROVE  SourceInv'
  BY <1>3 DEF AddEnvironment, SourceInv, EngineHasSource, At
<1>4. ASSUME NEW r \in Runs, NEW first \in {"preflight", "destroy"}, NEW e \in Layers,
             NEW flag \in Dirs \cup {None}, Start(r, first, e, flag)
      PROVE  SourceInv'
  BY <1>0, <1>4 DEF Start, SourceInv, EngineHasSource, At
<1>5. ASSUME NEW r \in Runs, Preflight(r) PROVE SourceInv'
  <2> DEFINE d == run[r].dir
  <2>1. scaffold[d] \in Scaffolds /\ scaffold[d].platform \in {"aws", "gcp", "azure", "local"}
    BY <1>5, DeployConstantsOK DEF Preflight, TypeOK, RunsOK, DeploymentOK, Jobs, At, Scaffolds
  <2>2. CASE Goto(r, "vault")
    BY <1>0, <1>5, <2>2 DEF Preflight, Goto, SourceInv, EngineHasSource, At, Jobs
  <2>3. CASE /\ Checked(r)
             /\ Goto(r, "apply") /\ ~(run[r].platform = "azure" /\ ~state[d].some)
    <3>1. run[r].unchecked \/ scaffold[d].platform = "local" \/ d \in secret
      BY <1>5, <2>1, <2>3 DEF Preflight, Checked, SourceInv, At
    <3> QED
      BY <1>0, <1>5, <2>3, <3>1 DEF Preflight, Goto, SourceInv, EngineHasSource, At, Jobs
  <2>4. CASE run' = [run EXCEPT ![r].at = "apply", ![r].unchecked = TRUE]
    BY <1>0, <1>5, <2>4 DEF Preflight, SourceInv, EngineHasSource, At, Jobs
  <2> QED
    BY <1>5, <2>2, <2>3, <2>4 DEF Preflight
<1>6. ASSUME NEW r \in Runs, Vault(r) PROVE SourceInv'
  BY <1>0, <1>6, OthersKeepState, ZenonT(40) DEF Vault, Goto, SourceInv, EngineHasSource, At, Jobs, States
<1>7. ASSUME NEW r \in Runs, Secret(r) PROVE SourceInv'
  BY <1>0, <1>7 DEF Secret, Goto, SourceInv, EngineHasSource, At, Jobs
<1>8. ASSUME NEW r \in Runs, Apply(r) PROVE SourceInv'
  <2> DEFINE d == run[r].dir
  <2>1. d \in Dirs
    BY <1>8, EngineMade
  <2>2. state'[d].engine.hasSource \/ state'[d].engine.unchecked
    BY <1>0, <1>8, <2>1 DEF Apply, SourceInv
  <2>3. \A x \in Dirs \ {d} : state'[x] = state[x]
    BY <1>0, <1>8 DEF Apply
  <2>4. EngineHasSource'
    BY <2>2, <2>3 DEF SourceInv, EngineHasSource
  <2>5. run' = [run EXCEPT ![r].at = "discover"] /\ UNCHANGED <<scaffold, secret>>
    BY <1>8 DEF Apply, Goto
  <2> QED
    BY <1>0, <1>8, <2>4, <2>5, OthersKeepState DEF SourceInv, At, Jobs
<1>9. ASSUME NEW r \in Runs, Discover(r) PROVE SourceInv'
  <2>1. run' = [run EXCEPT ![r] = None] /\ UNCHANGED deployment
    BY <1>9 DEF Discover, End
  <2> QED
    BY <1>0, <2>1 DEF SourceInv, EngineHasSource, At
<1>10. ASSUME NEW r \in Runs, Fail(r) PROVE SourceInv'
  <2>1. run' = [run EXCEPT ![r] = None] /\ UNCHANGED <<scaffold, secret>>
    BY <1>10 DEF Fail, End
  <2>2. \A x \in Dirs : state'[x].engine = state[x].engine
    BY <1>0, <1>10 DEF Fail, States
  <2>3. EngineHasSource'
    BY <2>2 DEF SourceInv, EngineHasSource
  <2> QED
    BY <1>0, <1>10, <2>1, <2>3, OthersKeepState DEF SourceInv, At
<1>11. ASSUME NEW r \in Runs, Destroy(r) PROVE SourceInv'
  <2>1. run' = [run EXCEPT ![r] = None] /\ UNCHANGED scaffold
    BY <1>11 DEF Destroy, End
  <2>2. \A x \in Dirs : state'[x].engine \in {state[x].engine, None}
    BY <1>0, <1>11 DEF Destroy, NoResources
  <2>3. EngineHasSource'
    BY <2>2 DEF SourceInv, EngineHasSource
  <2>4. \A o \in Runs : o # r /\ run[o] # None =>
          (run[o].dir \in secret => run[o].dir \in secret')
    BY <1>11 DEF Destroy, TypeOK, RunsOK, At
  <2> QED
    BY <1>0, <1>11, <2>1, <2>3, <2>4, OthersKeepState DEF SourceInv, At
<1>12. CASE UNCHANGED vars
  BY <1>12 DEF SourceInv, EngineHasSource, At
<1> QED
  BY <1>1, <1>2, <1>3, <1>4, <1>5, <1>6, <1>7, <1>8, <1>9, <1>10, <1>11, <1>12, NextCases

\* No engine is brought up without its source secret, unless the checks were
\* skipped, were another platform's, or azure's state was not empty
\* (preflight.ts:12-16, up.ts:50-52).
THEOREM EnginesHaveTheirSource == Spec => []EngineHasSource
<1>1. SourceInv => EngineHasSource
  BY DEF SourceInv
<1> QED
  BY SourceInvInit, SourceInvStep, <1>1, Typed, PTL DEF Spec

-----------------------------------------------------------------------------
(* The wiring *)

Wirings == [platform : Platforms, prefix : Names \cup {None}, by : {"up", "init"}]

\* What was wired is still written in its layer, as its platform spells it.
Wires(layer, w) ==
  /\ layer \in Layer
  /\ layer.platform = w.platform
  /\ w.platform \in {"gcp", "azure"} /\ w.prefix # None => layer.paramPrefix = w.prefix
  /\ w.platform = "aws" => w.prefix # None /\ layer.ssmPrefix = w.prefix

\* Spread over anything, a block that wires goes on doing so.
LEMMA WiresOverAll ==
  ASSUME NEW below \in Layer, NEW above \in Layer,
         NEW w \in Wirings, Wires(above, w)
  PROVE  Wires(Spread(below, above), w)
<1>1. w.platform # None
  BY DeployConstantsOK DEF Wirings
<1>2. {"platform", "paramPrefix", "ssmPrefix"} \subseteq Keys
  BY DEF Keys
<1> DEFINE both == Spread(below, above)
<1>3. /\ both \in Layer
      /\ above.platform # None => both.platform = above.platform
      /\ above.paramPrefix # None => both.paramPrefix = above.paramPrefix
      /\ above.ssmPrefix # None => both.ssmPrefix = above.ssmPrefix
  BY <1>2, Spreading
<1> HIDE DEF both
<1>4. Wires(both, w)
  BY <1>1, <1>3 DEF Wires
<1> QED
  BY <1>4 DEF both

\* What a scaffold's fields aim at, they wire.
LEMMA Targeted ==
  ASSUME NEW s \in Scaffolds, NEW initial, initial = PlatformSpec(s).initial
  PROVE  Target(initial) \in Wirings /\ Wires(initial, Target(initial))
<1>1. /\ s.platform \in Platforms /\ s.name \in Names /\ s.name # None
      /\ s.platform \in {"aws", "gcp", "azure", "local"}
  BY DeployConstantsOK DEF Scaffolds
<1>2. initial \in Layer
  BY Discovered DEF Scaffolds
<1>7. ASSUME initial.platform = s.platform, initial.paramPrefix \in {None, s.name},
             initial.ssmPrefix \in {None, s.name},
             s.platform = "aws" => initial.paramPrefix = None /\ initial.ssmPrefix = s.name,
             s.platform \in {"gcp", "azure"} => initial.ssmPrefix = None
      PROVE  /\ Target(initial) \in Wirings
             /\ Wires(initial, Target(initial))
  <2> DEFINE prefix == Canonical(initial).prefix
  <2>1. /\ prefix \in Names \cup {None}
        /\ s.platform = "aws" => prefix = s.name
        /\ s.platform \in {"gcp", "azure"} => prefix = initial.paramPrefix
    BY <1>1, <1>7 DEF Canonical
  <2>2. Target(initial) = [platform |-> s.platform, prefix |-> prefix, by |-> "init"]
    BY <1>7 DEF Target
  <2> HIDE DEF prefix
  <2>3. Target(initial) \in Wirings
    BY <1>1, <2>1, <2>2 DEF Wirings
  <2>4. Wires(initial, Target(initial))
    BY <1>1, <1>2, <1>7, <2>1, <2>2 DEF Wires
  <2> QED
    BY <2>3, <2>4
<1>3. CASE s.platform = "aws"
  <2>1. /\ initial.platform = "aws" /\ initial.paramPrefix = None
        /\ initial.ssmPrefix = s.name
    <3>1. initial = Aws(s.name).initial
      BY <1>3 DEF PlatformSpec
    <3> QED
      BY <3>1 DEF Aws, Empty, Keys
  <2> QED
    BY <1>1, <1>2, <1>3, <2>1, <1>7
<1>4. CASE s.platform = "gcp"
  <2>1. /\ initial.platform = "gcp" /\ initial.paramPrefix = s.name
        /\ initial.ssmPrefix = None
    <3>1. initial = Gcp(s.name).initial
      BY <1>4 DEF PlatformSpec
    <3> QED
      BY <3>1 DEF Gcp, Empty, Keys
  <2> QED
    BY <1>1, <1>2, <1>4, <2>1, <1>7
<1>5. CASE s.platform = "azure"
  <2>1. /\ initial.platform = "azure" /\ initial.paramPrefix = None
        /\ initial.ssmPrefix = None
    <3>1. initial = Azure(s.name).initial
      BY <1>5 DEF PlatformSpec
    <3> QED
      BY <3>1 DEF Azure, Empty, Keys
  <2> QED
    BY <1>1, <1>2, <1>5, <2>1, <1>7
<1>6. CASE s.platform = "local"
  <2>1. /\ initial.platform = "local" /\ initial.paramPrefix = None
        /\ initial.ssmPrefix = None
    <3>1. initial = Local(s.name).initial
      BY <1>6 DEF PlatformSpec
    <3> QED
      BY <3>1 DEF Local, Empty, Keys
  <2> QED
    BY <1>1, <1>2, <1>6, <2>1, <1>7
<1> QED
  BY <1>1, <1>3, <1>4, <1>5, <1>6

WiredInv ==
  /\ wired \in [Layers -> Wirings \cup {None}]
  /\ \A l \in Layers : wired[l] # None => file # None /\ Wires(file.layer[l], wired[l])

LEMMA WiredInvInit == Init => WiredInv
  BY DEF Init, WiredInv

\* A layer that is wired resolves to what it is wired to.
LEMMA WiredResolves == TypeOK /\ WiredInv => StaysWired
<1> SUFFICES ASSUME TypeOK, WiredInv, NEW l \in Layers, wired[l] # None,
                    NEW w, w = wired[l], NEW c, c = Resolve(file, l)
             PROVE  /\ c.platform = w.platform
                    /\ \/ w.platform \in {"gcp", "azure"} /\ w.prefix # None
                       \/ w.platform = "aws" /\ file.layer[l].paramPrefix = None
                       => c.prefix = w.prefix
  BY DEF StaysWired
<1>1. w.platform \in Platforms /\ w.platform # None
  BY DeployConstantsOK DEF WiredInv, Wirings
<1>2. file # None /\ Wires(file.layer[l], w) /\ TopOf(file) \in Layer
  BY DEF WiredInv, TypeOK, FileOK, TopOf
<1>3. CASE l = Top
  <2>1. TopOf(file) = file.layer[l] /\ EnvOf(file, l) = Empty
    BY <1>2, <1>3 DEF TopOf, EnvOf
  <2> QED
    BY <1>1, <1>2, <2>1 DEF Resolve, Spread, Defaults, Canonical, Wires, Empty, Keys
<1>4. CASE l # Top
  <2>1. EnvOf(file, l) = file.layer[l]
    BY <1>4 DEF EnvOf
  <2> QED
    BY <1>1, <1>2, <2>1 DEF Resolve, Spread, Defaults, Canonical, Wires
<1> QED
  BY <1>3, <1>4

LEMMA WiredInvStep ==
  ASSUME TypeOK, WiredInv, [Next]_vars
  PROVE  WiredInv'
<1>1. ASSUME NEW s \in Scaffolds, NEW d \in Dirs, NEW force \in BOOLEAN, RunInit(s, d, force)
      PROVE  WiredInv'
  <2> DEFINE initial == PlatformSpec(s).initial
  <2>1. CASE UNCHANGED <<file, wired>>
    BY <2>1 DEF WiredInv
  <2>2. CASE /\ file' = Merged(initial, d, force)
             /\ wired' = IF force THEN [wired EXCEPT ![Top] = Target(initial)] ELSE wired
    <3>0. Target(initial) \in Wirings /\ Wires(initial, Target(initial))
      BY Targeted
    <3>1. wired' \in [Layers -> Wirings \cup {None}]
      BY <2>2, <3>0 DEF WiredInv, Layers
    <3>2. SUFFICES ASSUME NEW l \in Layers, wired'[l] # None
                   PROVE  file' # None /\ Wires(file'.layer[l], wired'[l])
      BY <3>1 DEF WiredInv
    <3>4. file' # None
      BY <2>2, MergedTyped, NoneIsNoBlock DEF TypeOK
    <3>7. CASE l = Top /\ force
      <4>1. wired'[l] = Target(initial)
        BY <2>2, <3>7 DEF WiredInv
      <4>2. file'.layer[l] \in {initial, Spread(TopOf(file), initial)}
        BY <2>2, <3>7, EmptyBlock DEF Merged, Fresh, File, Layers, TypeOK, FileOK
      <4>3. Wires(Spread(TopOf(file), initial), Target(initial))
        <5>1. initial \in Layer /\ TopOf(file) \in Layer
          BY Discovered, EmptyBlock DEF Scaffolds, TopOf, TypeOK, FileOK
        <5> QED
          BY <3>0, <5>1, WiresOverAll
      <4> QED
        BY <3>0, <3>4, <4>1, <4>2, <4>3
    <3>3. ASSUME ~(l = Top /\ force)
          PROVE  /\ wired'[l] = wired[l] /\ (l = Top => ~force)
                 /\ file # None /\ file \in File /\ Wires(file.layer[l], wired[l])
      BY <2>2, <3>2, <3>3 DEF WiredInv, Layers, TypeOK, FileOK
    <3>5. CASE l # Top
      BY <2>2, <3>3, <3>4, <3>5 DEF Merged, File
    <3>6. CASE l = Top /\ ~force
      <4>0. /\ wired'[l] = wired[l] /\ wired[l] \in Wirings
            /\ Wires(file.layer[l], wired[l])
        BY <3>2, <3>3, <3>6 DEF WiredInv
      <4>1. /\ initial \in Layer /\ TopOf(file) \in Layer /\ TopOf(file) = file.layer[l]
        BY <3>3, <3>6, Discovered DEF Scaffolds, TopOf, TypeOK, FileOK
      <4>2. file'.layer[l] = Spread(initial, TopOf(file))
        BY <2>2, <3>3, <3>6 DEF Merged, File
      <4>3. Wires(Spread(initial, TopOf(file)), wired[l])
        BY <4>0, <4>1, WiresOverAll
      <4> QED
        BY <3>4, <4>0, <4>2, <4>3
    <3> QED
      BY <3>5, <3>6, <3>7
  <2> QED
    BY <1>1, <2>1, <2>2 DEF RunInit
<1>2. ASSUME NEW e \in Envs, NEW p \in Platforms \cup {None}, AddEnvironment(e, p)
      PROVE  WiredInv'
  <2> DEFINE block == [Empty EXCEPT !.platform = p]
  <2>0. block \in Layer
    BY DEF Empty, Layer, Keys
  <2>1. file \in File /\ file' \in File /\ file' # None
    BY <1>2, <2>0, NoneIsNoBlock DEF AddEnvironment, TypeOK, FileOK, File, Layers
  <2>2. \A l \in Layers : wired[l] # None => l # e
    BY <1>2, NoneIsNoBlock DEF AddEnvironment, WiredInv, Wires
  <2>3. \A l \in Layers \ {e} : file'.layer[l] = file.layer[l]
    BY <1>2, <2>1 DEF AddEnvironment, File
  <2> QED
    BY <1>2, <2>1, <2>2, <2>3 DEF AddEnvironment, WiredInv
<1>3. ASSUME NEW r \in Runs, Discover(r) PROVE WiredInv'
  <2> DEFINE s == state[run[r].dir].engine
             e == run[r].env
             base == IF file = None THEN Fresh ELSE file
             below == IF base.layer[e] = None THEN Empty ELSE base.layer[e]
             w == [platform |-> s.platform, prefix |-> s.name, by |-> "up"]
  <2>1. s \in Engines /\ e \in Layers
    BY <1>3 DEF Discover, DiscoverOK, RunsOK, At, Jobs, TypeOK
  <2>2. base \in File
    BY EmptyBlock DEF Fresh, File, Layers, TypeOK, FileOK
  <2>3. below \in Layer /\ PlatformSpec(s).discovery \in Layer
    BY <2>1, <2>2, EmptyBlock, Discovered DEF File, Engines
  <2>4. Wires(Spread(below, PlatformSpec(s).discovery), w)
    <3>1. Wires(PlatformSpec(s).discovery, w)
      <4>1. s.platform \in Platforms /\ s.name \in Names /\ s.name # None
        BY <2>1, DeployConstantsOK DEF Engines
      <4> QED
        BY <4>1, Discovered DEF Wires
    <3>2. w \in Wirings
      BY <2>1 DEF Engines, Wirings
    <3> HIDE DEF below, w
    <3> QED
      BY <2>3, <3>1, <3>2, WiresOverAll
  <2>5. /\ file' = [base EXCEPT !.layer[e] = Spread(below, PlatformSpec(s).discovery)]
        /\ wired' = [wired EXCEPT ![e] = w]
    BY <1>3 DEF Discover
  <2>6. w \in Wirings
    BY <2>1 DEF Engines, Wirings
  <2>7. \A l \in Layers : wired[l] # None => base = file
    BY DEF WiredInv
  <2> HIDE DEF base, below, w
  <2>8. file' \in File /\ file' # None
    BY <2>1, <2>2, <2>3, <2>5, Spreading, NoneIsNoBlock DEF File
  <2>9. /\ file'.layer[e] = Spread(below, PlatformSpec(s).discovery)
        /\ \A l \in Layers \ {e} : file'.layer[l] = base.layer[l]
    BY <2>1, <2>2, <2>5 DEF File
  <2> QED
    BY <2>1, <2>4, <2>5, <2>6, <2>7, <2>8, <2>9 DEF WiredInv
<1>4. CASE UNCHANGED <<file, wired>>
  BY <1>4 DEF WiredInv
<1> QED
  BY <1>1, <1>2, <1>3, <1>4, NextCases
  DEF CreateSecret, Start, Preflight, Vault, Secret, Apply, Fail, Destroy

\* What up has wired, or init --force retargeted, stays so whatever is
\* scaffolded, added or brought up for another environment since, but for the
\* namespaces that StaysWired leaves out (up.ts:57-60, config.ts:152-197,
\* tendb-json.ts:46-91).
THEOREM WiredStaysWired == Spec => []StaysWired
  BY WiredInvInit, WiredInvStep, WiredResolves, Typed, PTL DEF Spec
=============================================================================

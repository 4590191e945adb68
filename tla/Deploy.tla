------------------------------- MODULE Deploy -------------------------------
(***************************************************************************)
(* tendb init, up and down: the scaffolded deployments of a project, the    *)
(* stacks that terraform has made of them, and the tendb.json that tells    *)
(* every other command where its engine is (commands/, scaffold/,           *)
(* config.ts).                                                              *)
(*                                                                          *)
(* Of a configuration the model keeps the platform and the two spellings of *)
(* the engine's namespace; flags and TENDB_* variables are not set.  Of the *)
(* variables of a deployment it keeps whether they name a source secret     *)
(* that exists.  No two commands work on one directory at a time, and init  *)
(* runs alone.                                                              *)
(***************************************************************************)
EXTENDS Naturals

CONSTANTS
  Dirs, DefaultDir,      \* DEFAULT_SCAFFOLD_DIR
  Platforms,             \* of aws, gcp, azure and local, those in use
  Names, DefaultName,    \* deployment names; a namespace is "/name"
  Envs, Top,             \* environments of tendb.json, and its top level
  Runs,                  \* commands that may run at the same time
  None,
  MaxInits, MaxCommands  \* bounds: inits, and ups and downs

ASSUME DeployConstantsOK ==
  /\ DefaultDir \in Dirs /\ DefaultName \in Names
  /\ Platforms \subseteq {"aws", "gcp", "azure", "local"}
  /\ Top \notin Envs /\ None \notin Dirs \cup Names \cup Platforms
  /\ {MaxInits, MaxCommands} \subseteq Nat

VARIABLES
  scaffold,    \* per directory: main.tf and terraform.tfvars, or None
  secret,      \* directories whose source secret exists and is named
  state,       \* per directory: terraform.tfstate
  file,        \* tendb.json, or None
  run,         \* the commands running
  wired,       \* history, per layer: the engine of the last up to succeed, or
               \* the one that init --force has retargeted the layer to since
  inits, commands

deployment == <<scaffold, secret, state>>
bounds     == <<inits, commands>>
vars       == <<deployment, file, run, wired, bounds>>

Layers == Envs \cup {Top}
Keys   == {"platform", "paramPrefix", "ssmPrefix"}
Empty  == [k \in Keys |-> None]

\* A block of tendb.json, and all of it.
Layer == [Keys -> Platforms \cup Names \cup {None}]
File  == [deployDir : Dirs \cup {None}, layer : [Layers -> Layer \cup {None}]]

ASSUME NoneIsNoBlock == None \notin Layer \cup File

\* {...below, ...above}
Spread(below, above) ==
  [k \in DOMAIN below |-> IF above[k] # None THEN above[k] ELSE below[k]]

-----------------------------------------------------------------------------
(***************************************************************************)
(* Platforms: the first fields of tendb.json, and what the stack discovers. *)
(***************************************************************************)
Aws(n) ==
  LET fields == [Empty EXCEPT !.platform = "aws", !.ssmPrefix = n]
  IN [initial |-> fields, discovery |-> fields]

Gcp(n) ==
  LET fields == [Empty EXCEPT !.platform = "gcp", !.paramPrefix = n]
  IN [initial |-> fields, discovery |-> fields]

Azure(n) ==
  [initial   |-> [Empty EXCEPT !.platform = "azure"],
   discovery |-> [Empty EXCEPT !.platform = "azure", !.paramPrefix = n]]

Local(n) ==
  LET fields == [Empty EXCEPT !.platform = "local"]
  IN [initial |-> fields, discovery |-> fields]

PlatformSpec(s) ==
  CASE s.platform = "aws"   -> Aws(s.name)
    [] s.platform = "gcp"   -> Gcp(s.name)
    [] s.platform = "azure" -> Azure(s.name)
    [] s.platform = "local" -> Local(s.name)

Scaffolds == [platform : Platforms, name : Names]

-----------------------------------------------------------------------------
(***************************************************************************)
(* Configuration.                                                           *)
(***************************************************************************)
Defaults == [platform |-> "aws", prefix |-> DefaultName]

\* paramPrefix and its legacy spelling, folded within a layer.
Canonical(layer) ==
  [platform |-> layer.platform,
   prefix   |-> IF layer.paramPrefix # None THEN layer.paramPrefix ELSE layer.ssmPrefix]

\* The layers of tendb.json that a command in this environment reads.
TopOf(f) == IF f = None THEN Empty ELSE f.layer[Top]
EnvOf(f, e) == IF e = Top THEN Empty ELSE f.layer[e]

\* A bug: the spellings are folded once, after the layers.
ResolveThenFold(f, e) ==
  LET merged == Spread(TopOf(f), EnvOf(f, e))
  IN Spread(Defaults, Canonical(merged))

Resolve(f, e) ==
  Spread(Spread(Defaults, Canonical(TopOf(f))), Canonical(EnvOf(f, e)))

\* An environment must have its block.
Configured(f, e) == e = Top \/ (f # None /\ f.layer[e] # None)

\* --dir, else deployDir, else the default: the first that holds a main.tf.
DeployDir(f, flag) ==
  LET named == IF f = None THEN None ELSE f.deployDir
  IN IF flag # None THEN (IF scaffold[flag] # None THEN flag ELSE None)
     ELSE IF named # None /\ scaffold[named] # None THEN named
     ELSE IF scaffold[DefaultDir] # None THEN DefaultDir ELSE None

-----------------------------------------------------------------------------
Fresh == [deployDir |-> None, layer |-> [l \in Layers |-> IF l = Top THEN Empty ELSE None]]
NoResources == [some |-> FALSE, engine |-> None]

Init ==
  /\ scaffold = [d \in Dirs |-> None]
  /\ secret = {}
  /\ state = [d \in Dirs |-> NoResources]
  /\ file \in {None, Fresh}
  /\ run = [r \in Runs |-> None]
  /\ wired = [l \in Layers |-> None]
  /\ inits = 0 /\ commands = 0

Idle == \A r \in Runs : run[r] = None

(***************************************************************************)
(* tendb init: the scaffold is written first; a tendb.json of another       *)
(* platform is then refused, unless --force retargets it.                   *)
(***************************************************************************)
Merged(initial, d, force) ==
  LET top == IF force THEN Spread(TopOf(file), initial) ELSE Spread(initial, TopOf(file))
  IN IF file = None
     THEN [Fresh EXCEPT !.deployDir = d, !.layer[Top] = initial]
     ELSE [file EXCEPT !.deployDir = d, !.layer[Top] = top]

\* What the fields of a scaffold say of its engine: aws and gcp name it.
Target(initial) == [platform |-> initial.platform, prefix |-> Canonical(initial).prefix,
                    by |-> "init"]

RunInit(s, d, force) ==
  LET initial  == PlatformSpec(s).initial
      mismatch == /\ TopOf(file).platform \notin {None, s.platform}
                  /\ ~force
  IN /\ Idle
     /\ inits < MaxInits /\ inits' = inits + 1
     /\ scaffold[d] # None => force
     /\ scaffold' = [scaffold EXCEPT ![d] = s]
     /\ secret' \in {secret, secret \ {d}}
     /\ IF mismatch THEN UNCHANGED <<file, wired>>
        ELSE /\ file' = Merged(initial, d, force)
             /\ wired' = IF force THEN [wired EXCEPT ![Top] = Target(initial)] ELSE wired
     /\ UNCHANGED <<state, run, commands>>

-----------------------------------------------------------------------------
(***************************************************************************)
(* The user: creates the source secret, adds an environment.                *)
(***************************************************************************)
CreateSecret(d) ==
  /\ scaffold[d] # None /\ d \notin secret
  /\ scaffold[d].platform = "azure" => state[d].some
  /\ \A r \in Runs : run[r] # None => run[r].dir # d
  /\ secret' = secret \cup {d}
  /\ UNCHANGED <<scaffold, state, file, run, wired, bounds>>

AddEnvironment(e, p) ==
  /\ file # None /\ file.layer[e] = None
  /\ file' = [file EXCEPT !.layer[e] = [Empty EXCEPT !.platform = p]]
  /\ UNCHANGED <<deployment, run, wired, bounds>>

-----------------------------------------------------------------------------
(***************************************************************************)
(* tendb up.                                                                *)
(***************************************************************************)
\* Unchecked: what it checks is not what it applies, the scaffold being another
\* platform's, or the bootstrap being left out.
Start(r, first, e, flag) ==
  LET d == DeployDir(file, flag)
      platform == Resolve(file, e).platform
  IN /\ run[r] = None
     /\ commands < MaxCommands /\ commands' = commands + 1
     /\ Configured(file, e) /\ d # None
     /\ \A o \in Runs : run[o] # None => run[o].dir # d
     /\ run' = [run EXCEPT ![r] =
          [env |-> e, dir |-> d, platform |-> platform, at |-> first,
           unchecked |-> \/ platform # scaffold[d].platform
                         \/ platform = "azure" /\ state[d].some]]
     /\ UNCHANGED <<deployment, file, wired, inits>>

At(r, where) == run[r] # None /\ run[r].at = where
Goto(r, where) == run' = [run EXCEPT ![r].at = where]
End(r) == run' = [run EXCEPT ![r] = None]

\* What the platform that is configured asks of the directory.
Checked(r) ==
  LET d == run[r].dir
      own == scaffold[d].platform = run[r].platform
  IN CASE run[r].platform = "aws"   -> own /\ d \in secret
       [] run[r].platform = "gcp"   -> own => d \in secret
       [] run[r].platform = "azure" -> TRUE
       [] run[r].platform = "local" -> own

\* A bug: the secret is looked for, and its absence is not an error.
PreflightWarning(r) ==
  /\ At(r, "preflight")
  /\ Goto(r, IF run[r].platform = "azure" /\ ~state[run[r].dir].some THEN "vault" ELSE "apply")
  /\ UNCHANGED <<deployment, file, wired, bounds>>

\* Only a first apply on azure is bootstrapped.  Others may pass unchecked: with
\* --skip-preflight; on gcp where the variables were edited, which its check does
\* not look at; on local, whose check is a script that another scaffold may have
\* left.
Preflight(r) ==
  /\ At(r, "preflight")
  /\ \/ /\ Checked(r)
        /\ Goto(r, IF run[r].platform = "azure" /\ ~state[run[r].dir].some
                   THEN "vault" ELSE "apply")
     \/ /\ ~Checked(r)
        /\ run' = [run EXCEPT ![r].at = "apply", ![r].unchecked = TRUE]
  /\ UNCHANGED <<deployment, file, wired, bounds>>

Vault(r) ==
  /\ At(r, "vault")
  /\ scaffold[run[r].dir].platform = "azure"
  /\ state' = [state EXCEPT ![run[r].dir].some = TRUE]
  /\ Goto(r, "secret")
  /\ UNCHANGED <<scaffold, secret, file, wired, bounds>>

\* It is there, or it is typed in at the prompt; with --yes it is not asked for.
Secret(r) ==
  /\ At(r, "secret")
  /\ secret' \in {secret, secret \cup {run[r].dir}}
  /\ run[r].dir \in secret'
  /\ Goto(r, "apply")
  /\ UNCHANGED <<scaffold, state, file, wired, bounds>>

\* The engine reads the secret when it boots.
Apply(r) ==
  LET d == run[r].dir
      s == scaffold[d]
  IN /\ At(r, "apply")
     /\ state' = [state EXCEPT ![d] =
          [some |-> TRUE,
           engine |-> [platform |-> s.platform, name |-> s.name,
                       hasSource |-> s.platform = "local" \/ d \in secret,
                       unchecked |-> run[r].unchecked]]]
     /\ Goto(r, "discover")
     /\ UNCHANGED <<scaffold, secret, file, wired, bounds>>

\* The deployment's keys win over those of its layer, and only there.
Discover(r) ==
  LET engine == state[run[r].dir].engine
      found  == PlatformSpec(engine).discovery
      e      == run[r].env
      base   == IF file = None THEN Fresh ELSE file
  IN /\ At(r, "discover")
     /\ file' = [base EXCEPT !.layer[e] =
          Spread(IF base.layer[e] = None THEN Empty ELSE base.layer[e], found)]
     /\ wired' = [wired EXCEPT ![e] = [platform |-> engine.platform,
                                       prefix   |-> engine.name, by |-> "up"]]
     /\ End(r)
     /\ UNCHANGED <<deployment, bounds>>

\* Refused by a check, cancelled, or failed, at any step; terraform, at the
\* targeted apply of the vault or at the full one, may have made a part of it.
Fail(r) ==
  /\ run[r] # None
  /\ \/ UNCHANGED state
     \/ /\ run[r].at \in {"vault", "apply"}
        /\ state' = [state EXCEPT ![run[r].dir].some = TRUE]
  /\ End(r)
  /\ UNCHANGED <<scaffold, secret, file, wired, bounds>>

(***************************************************************************)
(* tendb down: tendb.json and an empty state are kept; azure's secret goes  *)
(* with the vault.                                                          *)
(***************************************************************************)
Destroy(r) ==
  LET d == run[r].dir
  IN /\ At(r, "destroy")
     /\ state' = [state EXCEPT ![d] = NoResources]
     /\ secret' = IF scaffold[d].platform = "azure" THEN secret \ {d} ELSE secret
     /\ End(r)
     /\ UNCHANGED <<scaffold, file, wired, bounds>>

Next ==
  \/ \E s \in Scaffolds, d \in Dirs, force \in BOOLEAN : RunInit(s, d, force)
  \/ \E d \in Dirs : CreateSecret(d)
  \/ \E e \in Envs, p \in Platforms \cup {None} : AddEnvironment(e, p)
  \/ \E r \in Runs, e \in Layers, flag \in Dirs \cup {None} :
       Start(r, "preflight", e, flag) \/ Start(r, "destroy", e, flag)
  \/ \E r \in Runs : Preflight(r) \/ Vault(r) \/ Secret(r) \/ Apply(r) \/ Discover(r)
  \/ \E r \in Runs : Fail(r) \/ Destroy(r)

Spec == Init /\ [][Next]_vars

-----------------------------------------------------------------------------
(***************************************************************************)
(* Properties.                                                              *)
(***************************************************************************)
\* What up has wired, or init --force retargeted, stays so whatever is
\* scaffolded, added or brought up for another environment since: the layer
\* resolves to that platform and, where its keys name a namespace, to that
\* namespace.  Left out are a namespace that nothing names, local's and that of
\* an azure scaffold not yet up, and aws's where the layer has a paramPrefix left
\* over, which overrides the spelling that aws writes (up.ts:57-60,
\* config.ts:152-197, tendb-json.ts:46-91).
StaysWired ==
  \A l \in Layers :
    LET w == wired[l]
        c == Resolve(file, l)
    IN w # None =>
         /\ c.platform = w.platform
         /\ \/ w.platform \in {"gcp", "azure"} /\ w.prefix # None
            \/ w.platform = "aws" /\ file.layer[l].paramPrefix = None
            => c.prefix = w.prefix

\* "0 up and wired": after up has succeeded the engine it brought up is the one
\* that is found (cli.md:131).
UpIsWired ==
  \A l \in Layers :
    LET w == wired[l]
    IN w # None /\ w.by = "up" =>
         Resolve(file, l) = [platform |-> w.platform, prefix |-> w.prefix]

\* An engine is only brought up where its source secret is: no clean apply of an
\* engine that fails at boot, unless the checks were skipped or did not look,
\* were those of another platform than the scaffold's, or the state was not
\* empty on azure (preflight.ts:12-16, 102, up.ts:50-52).
EngineHasSource ==
  \A d \in Dirs :
    LET engine == state[d].engine
    IN engine # None => engine.hasSource \/ engine.unchecked

=============================================================================

# TenDB in TLA+

TenDB gives every branch of an application its own copy of a live database. A
DBLab engine on one host serves thin clones of zfs snapshots; logical
replication keeps a sync target on that host close to the publisher; a daemon,
`tendb-snapshotd`, snapshots the sync target and heals its schema; a CLI, an SDK
and a web console drive it all, through the engine's API and a parameter store.

Paths below are under `src/packages/tendb/`.

## 1. Inventory

| part | state it keeps | operations | who it talks to |
|---|---|---|---|
| snapshot half of `snapshotd/tendb-snapshotd.sh` | the zfs pool and its `tendb:converged` tags; `last-request`, `converge-waiting-since`, `last-snapshot-at`; the parameter `snapshots/last-converged` | boot, poll, `take_snapshot`, `stream_converged`, `align_sequences`, `prune_snapshots` | reads `snapshots/request`, `snapshots/config` and the replication URLs; queries both databases; restarts the engine |
| schema half of the same script | the sync target's schema and subscription; `last-sync-request`, `nullable-fallbacks`; `schema/sync-result` | `sync_schema` (additive, full), `sync_columns`, `sync_indexes`, `refresh_subscription`, `report_sync_result` | reads `schema/sync-request`, `schema/config`; DDL on the target |
| `cli/src/snapshots.ts`, `sdk.ts` | none that lasts: the ids listed before a call | `requestSnapshot`, `createSnapshotNow`, `setScheduleConfig`, `branches.create({fresh})` | writes the parameters, polls the engine's listing |
| `cli/src/schema-sync.ts` | none that lasts: the nonce of a call | `forceSchemaSync`, `schemaDrift`, `setSchemaConfig` | writes the parameters, polls the result and both schemas |
| `cli/src/dblab/workflows.ts`, `migrate.ts`, `sdk.ts` | the engine's branches and clones | `ensureBranch`, `deleteBranch`, `resetBranch`, `migrate`, `withBranch` | the engine, several clients at once, no lock |
| alert loop of `cli/src/console/server.ts`, `alert-store.ts` | seen findings, history, `alerts.json` | one checkup a minute, debounce, diff, save, post to Slack | engine, databases, Slack |
| `cli/src/monitor/checkup.ts`, `console/replication.ts` | what one checkup has read | `runCheckup`, `evaluateCheckup`, `diffSchemas`, `summarizeStreamHop` | engine, parameter store, both databases |
| connection and URL caches of `server.ts` | a pool and a tunnel per branch; the URLs once read | `connectionFor`, `dropConnection`, `resolveReplication`, `close` | engine, tunnels |
| the single-page application, `cli/console/src` | polled views, dialogs, calls in flight; the working branch and SQL history in localStorage | polls and invalidation, branch and snapshot buttons, SQL editor | the console's backend |
| scaffolding and configuration, `cli/src/commands/{init,up,down}.ts`, `scaffold/*`, `config.ts` | scaffold directories, terraform state, `tendb.json`, the source secret | `init`, `up`, `down`, layer and environment resolution | terraform, cloud CLIs |
| `cli/src/platform/*`, `snapshotd/shims/*` | the parameter store; locally one JSON file rewritten by every writer | get, put | cloud CLIs, the file system |
| tunnels, ports, session, naming, the other commands | processes, files written once | open, resolve, print | cloud CLIs |
| terraform modules, documentation | none | declarations | |

What is hard here:

* **Interleavings without locks.** The daemon works in a dozen separate calls
  while the publisher writes and changes its schema, the target applies,
  branches come and go and clients write parameters. Branch commands of several
  callers meet on one clone; requests of the console meet on one cache.
* **State that outlives its process.** Nonces, the wait's clock, NULLABLE marks,
  tags, the alert file, `tendb.json` and terraform's state are files, parameters
  and zfs properties; the process may die between any two of them.
* **Answers matched by appearance.** A caller recognises its snapshot by "was
  not listed before"; a branch stands on "the newest one listed"; a first apply
  is told by an empty state.
* **Answers out of order.** Calls, polls and exits of tunnels come back in any
  order, to a cache, a view or a dialog that has moved on.
* **Shell semantics.** A failed read is an empty string; a loop at the end of a
  pipe cannot set a variable; `psql` goes on after an error.
* **Progress.** The schedule must survive a stream that never catches up; a
  failed sync must be answered; every wait for the engine has its deadline.

`PROJECT.json` lists each hazard at its line with the properties about it.

## 2. Modules

```
Snapshotd ------- the daemon's snapshot half, the pool, the engine's listing,
   |              the stream, time, crashes
   +-- SnapshotClients         composed with the callers of createSnapshotNow
          +-- SnapshotdProofs  about both
SchemaSync ------ the daemon's schema half, both databases, the subscription
   +-- SchemaSyncProofs
BranchPromise --- what the branch commands promise about one database
Branches -------- the commands, call by call; implements BranchPromise
   +-- BranchesProofs
AlertLoop ------- the console's alert loop, its file and Slack
   +-- AlertLoopProofs
Checkup --------- one checkup: what it reads, and the rules on what it read
   +-- CheckupProofs
ConsoleServer --- the console's connection and URL caches
   +-- ConsoleServerProofs
ConsoleApp ------ one tab of the console
   +-- ConsoleAppProofs
Deploy ---------- init, up and down; tendb.json; terraform's state
   +-- DeployProofs
MC...             instances for TLC
```

The modules meet where the code's parts do: `Snapshotd` and its callers are
composed; `AlertLoop` takes a checkup at one instant and `Checkup` takes it
apart; `Branches` is what `ConsoleServer`'s reset and delete and `ConsoleApp`'s
answered calls stand for; `SchemaSync` appears in `Snapshotd` as `SchemaPass`.

### Snapshotd

| variable | code |
|---|---|
| `request`, `config`, `lastConverged` | the parameters `snapshots/request`, `snapshots/config`, `snapshots/last-converged` |
| `lastRequest`, `clock`, `age` | the files `last-request`, `converge-waiting-since`, `last-snapshot-at`; the two time stamps as ages in ticks |
| `pc`, `mode`, `verdict`, `subLsn`, `retain`, `victims` | where the loop is, and the shell variables it carries from call to call |
| `pool`, `taken`, `tag` | the snapshots of the pool, numbered as created, and `tendb:converged` |
| `listing`, `inUse` | what the engine listed when it last started; snapshots with dependents |
| `published`, `applied`, `copying`, `sequences` | the publisher's log position, the target's, a tablesync in progress, the rows the sequences were last set to |
| `issued`, `cause`, `whole`, `asOf`, `uptime`, `crashes` | history and bounds |

Each call that the shell waits for is one action, so anything may happen between
two of them: `Probe` is the subscriber's queries, `CompareLag` the publisher's;
`AlignSequences`, `ZfsSnapshot`, `TagSnapshot`, `PublishVerdict`,
`RestartEngine` and `StampSnapshot` follow `take_snapshot` line by line;
`ListVictims` and `DestroyOldest` are the two ends of `prune_snapshots`' pipe.
`Faults` names the calls that may fail, so that each run says which it allows;
`"subscription"` among them stands for a target that has no subscription, which
`stream_converged` takes for caught up whatever the lag (line 80).
The schema half is here only as `SchemaPass`, which may start table copies; that
a schema pass takes time in which requests wait is kept, its own steps are not.
CHECKPOINT is left out: it changes nothing that a snapshot's rows, tags or names
depend on. Snapshot names have one-second resolution: of two snapshots in one
second the second `zfs snapshot` fails, which `ZfsFails` allows.

### SnapshotClients

Two callers of `createSnapshotNow` followed by a branch: list (`Begin`), write
the nonce (`Put`), poll (`Poll`), branch (`CreateBranch`). A call is named by its
nonce. The engine, which is not part of the repository, puts a new branch on the
newest snapshot it lists and fails if that is gone. A branch of that name may be
there already: `ensureBranch` then takes it as it is, and `CreateBranch` leaves
the caller without a new one. The console's fire-and-poll
(`Snapshots.tsx:49-97`) takes the same steps against the daemon; what its tab
does meanwhile is in `ConsoleApp`.

### SchemaSync

A database maps its tables to their columns, and each column to whether it is
NOT NULL. A pass is `ListTables`, one `CreateTable` or
`DropTable` per table, `ListColumns`, one `AddColumn` per column (as listed, or
NULLABLE and then `MarkFallback`), `PruneMarks`, one `DropColumn` per column,
`SyncIndexes`, `Refresh` and, for a request, `Answer`. `failed` is `SYNC_ERROR`,
with the rules of the shell: which failures reach it and which do not.
`PublisherDDL` may come between any two steps and `Backfill` is an operator who
sets a fallback column NOT NULL. `fellBack` is history: the columns that were
added NULLABLE and are still neither resolved nor gone, whatever the marks says. Column types, defaults and indexes are left out; of `sync_indexes` only
that it may fail is modelled. A subscription whose name cannot be read, or that
is not there, leaves `Refresh` undone without an error (`"subscription"` among
the faults).

### BranchPromise and Branches

`BranchPromise` is what a user of the branch commands may rely on, without a
word about calls. Its state is a database that is absent, unready or ready, a
branch, and who is waiting for what. A database appears only on a branch and
while a command that makes one is pending; a branch is removed only while a
command that removes it is; and a command that succeeds has been given what it
asked for: an `ensure` ends on a ready database, a `reset` on a ready one that
was absent since it was asked for, a `delete` has seen database and branch gone.

`Branches` is the code. A caller's `pc` is the engine call it makes next:

| `pc` | code |
|---|---|
| `getClone`, `deleteClone`, `waitGone` | `ensureBranch:84-95`, `resetBranch:127-137`, `deleteClone`, `waitCloneGone` |
| `waitSnapshot`, `listBranches`, `createBranch`, `createClone`, `waitOk` | the rest of `ensureBranch` and `resetBranch`, `waitCloneOk` |
| `open`, `exec` | `openBranchUrl` and the command of `migrate`, or `withBranch`'s function |
| `deleteBranch`, `return` | `deleteBranch`, also from the `finally` blocks (`tidying`) |
| `throw` | an error whose call had its effect before the reply was lost |

The engine is external and modelled from how it is used: a clone goes from
CREATING to OK or FATAL and from DELETING to gone, at its own pace or never; a
clone needs its branch and no clone of its name beside it. Any call may fail
without effect (`CallFails`) or with it (`ReplyLost`), and each wait may pass its
deadline while the engine is still at work (`GiveUp`). `MaxTroubles` bounds
failing calls and clones, not deadlines.

`Database` and `Succeeded` map the detailed state to the abstract one, and the
run checks `Promise!Spec` as a property: that is `KeepsPromise`.

### AlertLoop

| variable | code |
|---|---|
| `seen`, `history`, `streak` | `alertSeen` (also the findings of `lastCheckup`), `alertHistory`, `unreachable.streak` |
| `pc`, `found`, `core`, `news` | the ticks in flight: where each awaits, the checkup it holds, the state it is saving, the events it has still to post |
| `lastCore`, `file`, `tmp` | the store's memory of its last write, `alerts.json` and the one tmp file |
| `up` | the process, running, in `close()` or gone |
| `world` | what a checkup of a reachable engine would find |
| `heard`, `told`, `replayed`, `mishaps` | history: Slack's last event per code, the worst severity announced in the code's present spell, codes announced twice in one, what went wrong |

A checkup is read at one instant (`Begin`) and diffed later (`Apply`), down to
the first await of `save`; `Write`, `Rename` and each `Post` are steps. Codes
that rest on the engine's status are absent from a checkup whose probe missed
the engine; those read from the databases are taken to be independent of it and
of one another. The state directory is set, as on the hosted console, and so is
the webhook. A spell of a code lasts as long as the world shows it without a
pause. `currentCheckup`, by which a page may set `lastCheckup` itself, is left
out: it shows a page what it found and leaves the seen findings alone.

### Checkup

`world` is the engine and both ends of the stream, `picture` what the checkup
has read of them so far, one action per call: `Healthz`, `Status`,
`ClonePortCapacity`, `ListSnapshots`, then `QueryPublisher` and
`QuerySubscriber` in any order, twice each (the stream, then the schema).
`Change` may alter one part of the world between any two, and a call may fail
against a part that is well. `Conclude` applies the rules, `Evaluate`, which
give each code of a finding its severity (0: not found) and follow
`evaluateCheckup` rule by rule: `EngineRules`, `SlotRules`,
`SubscriptionRules`, `DriftRule` over `SchemaDiff`. `Matter` says of a world, not
of a picture, what is the matter with it (`OfEngine`, `OfPublisher`,
`OfSubscriber`); `held` and `ever` are the mildest and the worst of that since
the checkup began.
Ages and sizes are the number of thresholds they are beyond. The target has one
subscription at most (the code looks at the first one listed), and columns and
indexes of a database are read as one. `HopOf` is the console's verdict on the
hop, from the same readings. It names the first that applies of five findings
(publisher unreachable, subscriber unreachable, subscription disabled,
replication errors, slot inactive) and is silent about the others:
`HopNamesTheWorst` says just that, and a hop may read "streaming" beside a lost
or endangered slot.

### ConsoleServer

| variable | code |
|---|---|
| `conns` | `this.connections`: what a pool reaches, the tunnel it owns, the one it goes through |
| `urls` | `this.replicationUrls` |
| `alive`, `streamTunnels`, `opened` | the session's tunnels; those forwarded for the URLs |
| `strays` | history: tunnels opened after the end for nobody who waited |
| `job` | each request or alert tick: the await it is at, its branch, the clone it has looked up or the tunnel it closes, and whether a client's socket is open for it |
| `phase` | running, in `close()`, closed server, closed session |
| `clone`, `made` | the engine's clones, by serial number |
| `streaming`, `canTunnel` | configuration: fixed in an initial state |
| `missed`, `crowded` | history: a URL read failed; branches whose clone changed beside a cached way to it |

Code between two awaits is one action. `Query` is `connectionFor` down to its
first await, `FindClone` and `Forward` the rest; `ReadUrl` and `ForwardUrl` are
`resolveReplication`; `Change`, `Drain`, `Take` and `Remake` are a reset or a
delete with `dropConnection`; `Dies` is the exit handler of a tunnel. What a
query does on its pool changes nothing here and is left out.

`server.close` waits for sockets, not for handlers. While a socket is open
requests come in, after `close()` has emptied the cache too; a client may hang up
(`HangUp`) and leave its request at work; and an alert tick never had a socket.
`CloseSession` waits only for jobs that a socket is open for. A client who hangs
up earlier is taken to do so while the server stops: nothing looks at the sockets
before.

### ConsoleApp

The engine status and the branch listing are one view, with the number of the
change it shows. `Poll`, `Read` and `Land` are the three moments of a poll, and
`Refresh` is `invalidateQueries`, which drops the poll in flight, unless that is
the first one (`Joins`): react-query does not cancel a fetch while there is no
data to fall back on, and the refresh joins it. A call in
flight (`call`) carries what its closure holds: the visit of the screen that
started it, the history it saw, the snapshots listed before. `Serve` is the
backend; `Answer`, `ShowResult` and `Fail` are the callbacks of a mutation.
`visit` counts mounted screens: an answer to a screen that was left closes no
dialog of the present one.

### Deploy

| variable | code |
|---|---|
| `scaffold` | per directory the platform and name in `main.tf` and `terraform.tfvars` |
| `state` | `terraform.tfstate`: whether it has resources, and the engine applied |
| `secret` | directories whose source secret exists |
| `file` | `tendb.json`: `deployDir` and, per layer, `platform`, `paramPrefix`, `ssmPrefix` |
| `run` | the commands running: phase, environment, directory, resolved platform |
| `wired` | history: per layer the engine it points at, and whether an `up` that succeeded or a forced `init` was the last to point it there |

`RunInit` is `init` with `createOrMergeTendbJson` and `--force`; `Start`,
`Preflight`, `Vault`, `Secret`, `Apply` and `Discover` are the phases of `up`,
with azure's bootstrap; `Destroy` is `down`. `Resolve` is `resolveConfig`:
defaults, top level and environment, the two spellings of the namespace folded
within each layer before the layers are merged. `Fail` ends a command
at any phase, refused or not, and a failed apply, of the vault alone or of everything,
may leave resources behind. `Checked` is preflight: where it would
refuse, `Preflight` may still pass unchecked, by `--skip-preflight`, on gcp with
edited tfvars and on this machine with a `host-setup.sh` left by another
scaffold; the engine then carries that history. Commands
run beside each other in different directories; in one directory terraform's
state lock keeps them apart, and `init`, which takes no time, runs alone. Flags
and `TENDB_*` variables, which fold as one more layer each, are not set.

## 3. Runs

| run | bounds | shows |
|---|---|---|
| `Snapshotd.cfg` | 1 request, 2 snapshots, 1 row, 1 crash; zfs and the engine's restart may fail | the pool keeps its newest, destroys only surplus, tags tell the truth, a request is served once |
| `SnapshotdSchedule.cfg` | 1 request, a wait and an interval of 2 ticks, 1 crash; polls and queries may fail | the wait ends, and only after a full one of this life; requests are seen |
| `SnapshotClients.cfg` | 2 callers, 2 snapshots | listed snapshots exist and carry verdicts; a fresh branch stands on a newer snapshot; every caller is answered |
| `SchemaSync.cfg` | 1 table, 2 columns, 1 request, 2 statements of DDL, 1 crash; the calls of a pass may fail | drops are asked for, success is real, the guard holds, heals and answers come |
| `AlertLoop.cfg` | 3 codes, severities 1 and 2, 3 events, 2 ticks in flight, 2 changes of the findings, 2 stops, 1 overlap or failing call | feed, seen findings, file and Slack agree; the feed catches up |
| `Branches.cfg` | 2 callers, all six commands, 1 failing call or clone, any deadline | the commands implement `BranchPromise`; an undisturbed ensure repairs; ephemeral branches leave nothing; every command ends |
| `ConsoleServer.cfg` | the live branch and another, 2 actors, each a request or an alert tick at a time, 2 tunnels, 2 clones; any read, tunnel or clone may fail | what is cached can be dialled and reaches its clone; main stays read-only; a working connection stays, but Live's when a tunnel of the URLs ends; no tunnel opened for a client who waits outlives the session |
| `ConsoleApp.cfg` | 2 branches, 2 calls in flight, 5 clicks, 1 change by others, 2 snapshots, 1 failing call | views catch up, dialogs wait for their own answers, fresh is fresh, the history keeps its statements |
| `Deploy.cfg` | 4 platforms, 2 directories, 2 names, an environment, 2 inits, 2 ups or downs; any step may fail | what up has wired, or a forced init retargeted, stays so; no engine without its source secret |
| `Checkup.cfg` | 1 table, 2 fingerprints, 4 kinds of slot, 2 slots at most, 2 changes, 1 failing call | standing trouble is found, and nothing that was not so; of five findings the hop names the first that applies |

Each bound is the least at which the interesting case happens. Two snapshots
with `retain` 1 make the second push out the first; one row past the lag
(`Lag = 0`) tells a stream that is behind from one that is not; one crash may
fall between any two steps, and the state it leaves is the same after a second.
A wait of two ticks tells a fresh clock from an old one. Two statements of DDL
make a rename and then something else in the middle of the pass that follows;
two columns make the renamed one an orphan beside its replacement. The failure
that hits only the last table of a create pipeline is a matter of one table: a
failure of any other one is the failing create that goes unreported, which the
run allows.

In the alert loop two changes make a finding rise twice or come and go, three
events overflow a feed of as many codes, and the second stop meets what the
first left in the file; an overlap and a failing call do not fall in one
behaviour, and the properties say which of the two they exclude. Two callers of
branch commands are enough for one to work between any two calls of the other;
a caller may give command after command, so a state that one left wedged meets
every command. Two tunnels are one for the branch or the URLs and one that a
request in flight opens in its place; the second clone is the one made behind
the cache. Two actors do whatever the requests of the console and its alert ticks
do, as often as they like: each race there is one of two jobs. Two changes of a checkup's world make a trouble come and go between
two reads; two slots are one at risk beside one that is lost; a port pool of 5
has a clone count at exactly 80 per cent. Two inits and two commands make a
directory of one platform with a `tendb.json` of another, and an `up` beside
another or after a `down`.

`Actors`, `Calls` and `Runs` are symmetric in their three runs: the code tells
callers apart nowhere, and no liveness is checked there.

Two more runs each show that something a document says does not hold of the
code, in the smallest instance; the findings in `PROJECT.json` quote both sides.

| run | violated | what happens |
|---|---|---|
| `BranchesScratch.cfg` | `ScratchStartsPristine` | a scratch migration's branch is made, its clone fails, and both stay: `ensureBranch` is called before the `try` |
| `DeployUnwired.cfg` | `UpIsWired` | a local deployment under a name of its own comes up, and every command looks under the default namespace |

**Deadlock** is checked in every run but those of `ConsoleServer`, which ends
when the console is closed, and of `Deploy`, where the bounds on commands let a
project come to rest.

### Fairness

systemd restarts the loop (`tendb-snapshotd.service`, `Restart=always`) and
every call in it returns, so the daemon as a whole is weakly fair
(`WF_vars(Daemon)`), and so is time. A call that may fail may fail again and
again; where progress rests on one, that it works in the end is assumed by
strong fairness on the step in which it does: the reads of the two snapshot
parameters in `Snapshotd`; the listings, CREATE TABLE and ADD COLUMN in
`SchemaSync`. Callers poll (`WF(Poll)`), and none need give up or start. No
fairness is assumed of crashes, DDL, the stream or the operators: in particular
the stream may never catch up. The console's timer goes on firing, its calls
return and a stopped console is started again (weak fairness of `Listen`, `Exit`,
some tick's `Begin`, and each tick's next step); the stops, the failing calls and
the changes of the world are bounded, so `FeedCatchesUp` says what follows the
last of them. A branch command goes on by itself: a call returns, a poll comes
round, a deadline passes (`WF(Step(c))` for each caller). The engine owes
nothing: a clone may stay CREATING or DELETING for ever, and `EveryCommandEnds`
holds all the same. `ConsoleServer`, `ConsoleApp`, `Deploy` and `Checkup` are
checked for safety only.

### Where the code is exposed

A property excludes a case only where the code does not cover it; its comment
says which. Collected, these are the cases a reader should know of:

* A replication URL that cannot be read is taken for a deployment without a
  stream, by the daemon (the snapshot passes for converged,
  `tendb-snapshotd.sh:75`) and by the console (main is then served from its
  clone, `server.ts:280`; the console keeps the empty answer).
* A target without a subscription passes for caught up, and its snapshot for
  converged (`tendb-snapshotd.sh:80`).
* Rows may be applied between the alignment of sequences and the snapshot.
* A call for a fresh snapshot that begins between another's zfs snapshot and
  its listing takes that one for its own: newer than all it had listed, but
  older than the call.
* `branches.create({fresh})` on a name that exists snapshots first and then takes
  the branch, or its clone, as it is (`workflows.ts:84-98`): it is not fresh.
* A crash between the zfs snapshot and the engine's restart, or a failing
  restart, leaves the engine listing only snapshots that the next pruning may
  destroy; a branch then fails until the next snapshot is listed.
* REFRESH PUBLICATION runs only in the pass that created a table; if it fails no
  later pass repeats it. With no subscription name to read it is skipped without
  an error (`tendb-snapshotd.sh:321-322`).
* The guard of a NULLABLE fallback lapses when the listing after the ADD loop
  fails, or when the daemon dies between ADD and mark.
* After a restart in an outage that was announced, the console announces
  recovery and outage once more; a probe that misses the engine does the same to
  findings that rest on its status.
* A post to Slack that fails is not repeated.
* `ensureBranch` fails before anyone tidies up: a scratch branch stays, and so
  does one of `withBranch` whose URL cannot be opened (`sdk.ts:266-267`).
* A reset drops the cached connection before the clone goes: a query in between
  leaves a connection to the old clone in the cache until its tunnel ends.
* A client that hangs up while its tunnel opens, or an alert tick that is reading
  the URLs, may open a tunnel after the session has closed: `server.close` waits
  for sockets (`server.ts:196`), and `session.close` ends the tunnels that there
  are by then (`context.ts:110-121`).
* Two requests that read the URLs at once open two tunnels; when the older ends,
  its handler drops the URLs, and the live branch's connection, that go through
  the other one (`server.ts:284-287`).
* A refresh does not cancel the first poll of a page (`queries.ts:170-178`): a
  change made meanwhile shows with the next poll.
* On a reload with a live branch, a context that is answered before the status
  leaves only the live branch on offer, and the stored clone branch is replaced by
  it (`queries.ts:149-160`), although the comment above says that it survives. The
  model starts with nothing stored and does not show this.
* A listing that fails before "snapshot now" is taken for an empty one, and the
  snapshot of last week for the new one.
* A statement that is still running when its screen is left writes back the
  history that the screen last saw.
* A second `up` on azure finds the vault in the state and checks no secret; the
  checks are those of the configured platform, not of the scaffold's. On gcp
  edited tfvars are not checked at all (`preflight.ts:102`), and on this machine
  any `scripts/host-setup.sh` in the directory will do.
* A `paramPrefix` left in a layer wins over the `ssmPrefix` an aws stack reports:
  `StaysWired` speaks of an aws layer only while it has none.
* The console's hop may read "streaming" while the checkup finds a slot lost, at
  risk or retaining too much.
* A stream with no slot, or no subscription, is a finding of no checkup; the
  console's hop shows it.

## 4. Proofs

All theorems hold for every value of the constants that satisfies the module's
named assumption: any numbers of callers, branches, nonces, tunnels, directories
and bounds.

Every safety property that a passing run checks, invariant or action property, is
a theorem too. What a theorem assumes beyond the module's constants is that a
certain call does not fail (`"seed" \notin Faults`), or that the daemon has not
died; without it the property is false of the code.

`SnapshotdProofs` proves of `Snapshotd`, under `ConstantsOK`:

* `TypeCorrect`. `TypeOK` is inductive; it is proved in seven parts, one lemma
  per group of variables.
* `NewestAlwaysSurvives` and `OnlySurplusIsDestroyed`, from `PruneInv`. That the
  newest snapshot survives is not inductive: it rests on the list of victims
  having been made with at least one snapshot kept, `retain` not having changed
  since, no snapshot being taken in the meantime (one process), and destroys
  going oldest first, so that each victim still has `retain` newer snapshots in
  the pool. `PruneInv` says just that of `victims`, `pool` and `pc`.
* `RequestsServedOnce`, from `RequestInv`, if `"seed"` is not among the faults.
  A served nonce is the one in `last-request` or one that no later request can
  repeat; while the daemon serves a nonce, no snapshot has it as its cause yet.
  If the boot's read fails the property is false: the request is replayed.
* `ConvergedTagsAreTrue`, from `VerdictInv`, if neither `"urls"` nor
  `"subscription"` is among the faults.
  Between the verdict and the tag no copy can start, because the schema pass is
  part of the same loop, and the target only moves forward; so what held when
  the publisher's answer was compared holds when the snapshot is cut. With
  either among the faults it is false: see above.
* `GivesUpOnlyInItsOwnLife`, from `ClockInv`: the clock of the wait is never older
  than the life of the daemon, because the boot removes its file.

and of `SnapshotClients`, the daemon composed with any number of callers:

* `ComposedImplementsDaemon`: the composition implements `Snapshotd!Spec`, so all
  the theorems above hold beside the callers.
* `FreshBranchesAreNewer`, from `FreshInv`. A new branch stands on the newest
  snapshot listed at that moment, not on the one its caller recognised. What the
  pool or the listing has and a caller did not see listed is newer than all it
  saw (`Newer`), through prunings, restarts of the engine and crashes; and once
  a caller has recognised one, the listing keeps such a snapshot.
* `NewestListedAlwaysExists`, from `ListedInv`, and `ListedAreTagged`, from
  `TaggedInv`, while the daemon has not died and if the engine's restart, or
  `zfs set`, works: at most the snapshot being taken is in the pool and not
  listed yet, and only it may lack its tag; pruning comes after the restart.

`SchemaSyncProofs`, with the lemmas about the operators on databases that it
needs (`SetColumn`, `DropKey`):

* `SuccessIsHealed`, from `PassInv`: what a pass has worked off its lists is on
  the target, or `SYNC_ERROR` is set, and the publisher's changes meanwhile touch
  neither.
* `DropsAreAskedFor`, from `AskInv`, if `"seed"` is not among the faults: a full
  pass serves a nonce that has no answer yet, and only a full pass has anything
  on its lists of drops.
* `GuardAlwaysHolds`, from `GuardInv`, if `"relist"` is not among the faults and
  the daemon has not died: each column that fell back to NULLABLE is marked, or
  about to be, is NOT NULL in the listing that the pass works from, and keeps its
  table's columns off the list of drops.

`BranchesProofs` proves that `Branches` implements `BranchPromise`
(`CommandsKeepTheirPromise`), initial states and steps alike. The invariant says
of each caller which command a call may serve (`Serves`), what it has seen by
the time it makes that call (`HasSeen`, `HasRun`), and that a pending command has
seen the engine as it is now (`Watched`). The steps are proved by their shape,
since most actions of `Branches` are one of four: a reply that is only read, a
call with an effect, the start of the tidying, and an answer. `EnsuresRepair` and
`NothingStaysBehind` add `AloneInv`: of a command that nothing came beside, what
clone and branch are at each of its calls (`Finds`), whatever they were at its
start. That is said of every command but a reset, which may find no clone.

`ConsoleServerProofs` proves the five properties of the run:

* `ConnectionsReachTheirClone`, from `CloneInv`: what a request has looked up and
  not cached yet is held to the same standard as what is cached.
* `LiveStaysReadOnly`, from `LiveInv`: once the URLs are read without failure
  they name the stream, and no request of the live branch is on its way to a
  clone. It is here that two requests reading the URLs at once matter.
* `CachedStaysDialable` and `WorkingConnectionsStay`, from `TunnelInv`: each
  connection goes through a tunnel of its own, or the live one through a tunnel
  of the URLs, and what a reset is closing is nobody else's. Of the live one the
  second says less: any tunnel of the URLs takes it along when it ends.
* `ClosedStaysQuiet`, from `QuietInv`: once the session is closed no job at work
  has a client who waits, since no request comes in any more and none had one when
  it closed; so what is opened from then on is among the `strays`.

`DeployProofs` proves the two properties of its run from types and one
invariant each. `EnginesHaveTheirSource`: a command that has passed its checks
still has its secret, because no other command works in its directory, or is
excused by the way its checks were passed (`SourceInv`). `WiredStaysWired`: what
a layer was wired to, by `up` or a forced `init`, is still spelled in that layer
as its platform spells it (`WiredInv`); `Spread` keeps what is above, and a fold within the layer comes
before any other layer is looked at.

`AlertLoopProofs` is about sequences of events, so lemmas come first on what
`Diff` and a feed cut to its length do to the last word on a code:

* `FeedIsTrue`, from `FeedInv`: the feed and the seen findings agree (`Feed`) in
  memory, in every save in flight, in the tmp file and in `alerts.json`. It needs
  no proviso: even overlapping ticks replace both at once.
* `SkippedSavesAreOnDisk`, from `SaveInv`: without an overlap one tick at a time
  saves, and saves what is in memory.
* `AnnouncedOnce`, from `ToldInv`: nothing is announced that the file does not
  show as seen, because the save comes before the posts; so what a restart
  restores covers what was said.
* `SlackHearsTheFeed`, from `SlackInv`: the last event on a code was posted or is
  on some tick's list.

`ConsoleAppProofs`: `DialogsWait` from `DialogInv` (a call of this visit that a
dialog started has that dialog open, and there is one at most),
`RefreshesShowChanges` from `ViewsInv` (a poll that has read, and was not
dropped, shows all that anyone was told of), `FreshSnapshotsAreNew` from
`ClickInv` (the snapshots a call remembers reach to its click, unless its listing
failed), and `HistoriesKeep`.

`CheckupProofs`, for any tables, fingerprints and slots, and for any number of
changes and failing calls: `FindingsAreTrue`, `StandingTroubleIsReported` and
`HopNamesTheWorstSignal`, which rests on `HopNames` alone: the hop reads the
picture in the order of the five findings, whatever the picture is. The lemmas `SlotRulesMatch`, `SubscriptionRulesMatch`
and `DriftRuleMatches` say that the rules, given a full reading of a world, find
what is the matter with that world. `EverInv` and `HeldInv` then say of a picture
half read that what the rules make of it lies between `held` and `ever`, code by
code. Two codes rest on more than one read: the port pool's size is held against
clones counted a call earlier, and `schema-drift` sets two schemas side by side,
so the invariants speak of them apart. A read makes of each code one of five
things (`Shows`), and each of them keeps both bounds.

Model-checked only: liveness (`ScheduleIsKept`, `RequestsAreSeen`,
`EveryWaitIsAnswered`, `AutoHeals`, `SyncIsAnswered`, `FeedCatchesUp`,
`EveryCommandEnds`), for the prover has neither fairness nor ENABLED, and the two
runs that end in a violation. The modules that are proved about define nothing by
recursion.

## 5. Not modelled, and the plan

1. Proofs across components: the answered calls of `ConsoleApp` and the resets
   and deletes of `ConsoleServer` as steps of `BranchPromise`.
2. `SchemaClients`: `forceSchemaSync` against the schema half, with the order of
   columns (a healed table that reads as drift for ever).
3. `AlertLoop`, continued: `currentCheckup`; an abstract "an active finding is
   announced once" that it implements while nothing goes wrong.
4. `ParamFile`: the local store's read-change-rename by two processes, refining
   a map of parameters where it does and showing where it does not.

Left out for good: tunnels and ports (child processes and sockets;
`ConsoleServer` takes a tunnel as a thing that opens or fails and may end at any
moment), cloud stores and their shims (one call each; here parameters whose
reads and writes may fail), terraform, argument parsing, printing, the console's
read-only screens, and the documentation.

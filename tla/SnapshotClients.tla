--------------------------- MODULE SnapshotClients ---------------------------
(***************************************************************************)
(* The clients of the snapshot daemon, composed with it: each lists the     *)
(* engine's snapshots, writes a request nonce, polls the listing until it   *)
(* shows a snapshot that was not there (createSnapshotNow, and the same     *)
(* fire-and-poll in the console), and then makes a branch, which the engine *)
(* puts on the newest snapshot it lists ("branches create --fresh").        *)
(***************************************************************************)
EXTENDS Snapshotd, FiniteSetsExt

VARIABLES
  cpc,       \* where each call is; a call is named by the nonce it writes
  before,    \* the snapshots it found listed when it began
  answer,    \* the snapshot it was answered with, 0 while it has none
  base       \* the snapshot its branch stands on, 0 while it has none

clientVars == <<cpc, before, answer, base>>
allVars == <<vars, clientVars>>

ClientInit ==
  /\ cpc = [c \in Nonces |-> "idle"]
  /\ before = [c \in Nonces |-> {}]
  /\ answer = [c \in Nonces |-> 0]
  /\ base = [c \in Nonces |-> 0]

Begin(c) ==
  /\ cpc[c] = "idle"
  /\ before' = [before EXCEPT ![c] = listing]
  /\ cpc' = [cpc EXCEPT ![c] = "put"]
  /\ UNCHANGED <<vars, answer, base>>

Put(c) ==
  /\ cpc[c] = "put"
  /\ RequestSnapshot(c)
  /\ cpc' = [cpc EXCEPT ![c] = "poll"]
  /\ UNCHANGED <<before, answer, base>>

\* A bug: any listed snapshot is taken for the answer.
PollForAny(c) ==
  /\ cpc[c] = "poll"
  /\ \E s \in listing : answer' = [answer EXCEPT ![c] = s]
  /\ cpc' = [cpc EXCEPT ![c] = "branch"]
  /\ UNCHANGED <<vars, before, base>>

Poll(c) ==
  /\ cpc[c] = "poll"
  /\ \E s \in listing \ before[c] : answer' = [answer EXCEPT ![c] = s]
  /\ cpc' = [cpc EXCEPT ![c] = "branch"]
  /\ UNCHANGED <<vars, before, base>>

\* The engine puts a new branch on the newest snapshot it lists, and fails if
\* that one has been destroyed since.  A branch that has the name already is
\* taken as it is, wherever it stands.
CreateBranch(c) ==
  /\ cpc[c] = "branch"
  /\ \/ /\ Max(listing) \in pool
        /\ inUse' = inUse \cup {Max(listing)}
        /\ base' = [base EXCEPT ![c] = Max(listing)]
        /\ cpc' = [cpc EXCEPT ![c] = "done"]
     \/ /\ Max(listing) \notin pool
        /\ cpc' = [cpc EXCEPT ![c] = "failed"]
        /\ UNCHANGED <<inUse, base>>
     \/ /\ cpc' = [cpc EXCEPT ![c] = "done"]
        /\ UNCHANGED <<inUse, base>>
  /\ UNCHANGED <<params, files, pc, locals, zpool, listing, stream, ghosts,
                 bounds, before, answer>>

\* A call fails: the store or the engine cannot be reached, or the deadline is
\* past.
GiveUp(c) ==
  /\ cpc[c] \in {"idle", "put", "poll"}
  /\ cpc' = [cpc EXCEPT ![c] = "failed"]
  /\ UNCHANGED <<vars, before, answer, base>>

Client(c) == Begin(c) \/ Put(c) \/ Poll(c) \/ CreateBranch(c) \/ GiveUp(c)

Host ==
  /\ \/ Daemon \/ Crash \/ Tick \/ Stream
     \/ \E s \in SnapId : Unbranch(s)
     \/ \E c \in Configs : Configure(c)
  /\ UNCHANGED clientVars

AllInit == Init /\ ClientInit
AllNext == Host \/ \E c \in Nonces : Client(c)

\* The daemon's fairness, and clients that keep polling; none need give up.
AllSpec ==
  /\ AllInit /\ [][AllNext]_allVars
  /\ WF_allVars(Daemon /\ UNCHANGED clientVars)
  /\ \A c \in Nonces : WF_allVars(Poll(c))

-----------------------------------------------------------------------------
\* While the daemon lives and its calls succeed, a request it has not seen yet
\* answers every caller that waits, one whose own nonce it overwrote unread
\* included: none need run into its deadline (createSnapshotNow,
\* snapshots.ts:90-122).
EveryWaitIsAnswered ==
  \A c \in Nonces :
    cpc[c] = "poll" /\ pc # "down" /\ SeesRequest ~> cpc[c] # "poll"

\* The engine's newest listed snapshot exists, whatever pruning destroyed since
\* the listing was made: a branch can be made at any moment.
NewestListedExists == listing # {} => Max(listing) \in pool

\* No client sees a snapshot before its verdict is recorded on it: the engine is
\* restarted after the tag ("so branch tooling can tell a torn base from a clean
\* one", tendb-snapshotd.sh:135-140).
ListedIsTagged == \A s \in listing : tag[s] # "unset"

\* A branch newly made with --fresh stands on a snapshot newer than every one listed
\* when the call began, whatever was pruned and listed anew in between ("snapshot
\* the streaming sync target first", sdk.ts:150-151, snapshots.ts:96-111).
FreshIsNewer ==
  \A c \in Nonces : base[c] # 0 => \A s \in before[c] : base[c] > s
=============================================================================

------------------------ MODULE AtomicJsonStateStore -----------------------
(***************************************************************************)
(* bridge/src/persistence/atomic-json-state-store.mjs over a file system   *)
(* that may fail any call, lose unsynced data and unsynced directory       *)
(* entries in a power failure, or keep them.  One commit runs at a time    *)
(* (#tail); its calls are separate steps, and the process may die or the   *)
(* power fail between any two of them.  The file system is external code,  *)
(* modelled from what the store relies on.                                 *)
(***************************************************************************)
EXTENDS Naturals, Sequences

CONSTANT
  MaxCommits,   \* bound on the number of commit calls
  MaxParts      \* bound on the part files left behind by failed removals

ASSUME CommitBound == MaxCommits \in Nat
ASSUME PartBound   == MaxParts \in Nat

VARIABLES
  calls,      \* commit() calls so far; the n-th writes the state called n
  tail,       \* #tail: the calls that wait for their turn
  running,    \* the commit in progress, 0 when none
  pc,         \* its next file system call
  content,    \* what its part file holds: "absent", "partial", "full"
  synced,     \* that file's data is on the disk
  leftParts,  \* part files no running commit owns
  visible,    \* the state that bridge-state.json names in the directory
  stable,     \* the state it names on the disk
  whole,      \* commits whose file, once named, reads back complete
  onDisk,     \* commits whose file was complete on the disk when named
  settled, confirmed, failedPre, failedPost   \* how the calls ended

vars == <<calls, tail, running, pc, content, synced, leftParts, visible,
          stable, whole, onDisk, settled, confirmed, failedPre, failedPost>>

file    == <<content, synced>>
naming  == <<visible, stable, whole, onDisk>>
outcome == <<settled, confirmed, failedPre, failedPost>>

Commits == 1..MaxCommits
Steps   == {"idle", "open", "write", "sync", "rename", "syncDirectory"}

Init ==
  /\ calls = 0 /\ tail = <<>> /\ running = 0 /\ pc = "idle"
  /\ content = "absent" /\ synced = FALSE /\ leftParts = 0
  /\ visible = 0 /\ stable = 0 /\ whole = {0} /\ onDisk = {0}
  /\ settled = {} /\ confirmed = {} /\ failedPre = {} /\ failedPost = {}

(* commit(): the state is serialised at the call, the writing is queued.   *)
Commit ==
  /\ calls < MaxCommits
  /\ calls' = calls + 1
  /\ tail' = Append(tail, calls + 1)
  /\ UNCHANGED <<running, pc, file, leftParts, naming, outcome>>

(* Mutant: a failed commit leaves #tail rejected.                          *)
StartUnlessFailed ==
  /\ running = 0 /\ tail # <<>>
  /\ failedPre \cup failedPost = {}
  /\ running' = Head(tail)
  /\ tail' = Tail(tail)
  /\ pc' = "open"
  /\ UNCHANGED <<calls, file, leftParts, naming, outcome>>

(* Mutant: the latest call goes first.                                     *)
StartLatest ==
  /\ running = 0 /\ tail # <<>>
  /\ running' = tail[Len(tail)]
  /\ tail' = SubSeq(tail, 1, Len(tail) - 1)
  /\ pc' = "open"
  /\ UNCHANGED <<calls, file, leftParts, naming, outcome>>

(* commitSerialized starts when the commit before it has ended.            *)
Start ==
  /\ running = 0 /\ tail # <<>>
  /\ running' = Head(tail)
  /\ tail' = Tail(tail)
  /\ pc' = "open"
  /\ UNCHANGED <<calls, file, leftParts, naming, outcome>>

Open ==
  /\ pc = "open"
  /\ pc' = "write"
  /\ content' = "partial" /\ synced' = FALSE
  /\ UNCHANGED <<calls, tail, running, leftParts, naming, outcome>>

WriteFile ==
  /\ pc = "write"
  /\ pc' = "sync"
  /\ content' = "full"
  /\ UNCHANGED <<calls, tail, running, synced, leftParts, naming, outcome>>

(* handle.sync() and handle.close() *)
Sync ==
  /\ pc = "sync"
  /\ pc' = "rename"
  /\ synced' = TRUE
  /\ UNCHANGED <<calls, tail, running, content, leftParts, naming, outcome>>

Rename ==
  /\ pc = "rename"
  /\ pc' = "syncDirectory"
  /\ visible' = running
  /\ whole' = IF content = "full" THEN whole \cup {running} ELSE whole
  /\ onDisk' = IF content = "full" /\ synced THEN onDisk \cup {running}
                                           ELSE onDisk
  /\ content' = "absent" /\ synced' = FALSE
  /\ UNCHANGED <<calls, tail, running, stable, leftParts, outcome>>

Finish == running' = 0 /\ pc' = "idle" /\ content' = "absent" /\ synced' = FALSE

(* Mutant: success without a sync of the directory.                        *)
ReturnAfterRename ==
  /\ pc = "syncDirectory"
  /\ settled' = settled \cup {running}
  /\ confirmed' = confirmed \cup {running}
  /\ Finish
  /\ UNCHANGED <<calls, tail, leftParts, naming, failedPre, failedPost>>

(* syncDirectory returns: the entry is on the disk, the commit has ended.  *)
SyncDirectory ==
  /\ pc = "syncDirectory"
  /\ stable = visible
  /\ settled' = settled \cup {running}
  /\ confirmed' = confirmed \cup {running}
  /\ Finish
  /\ UNCHANGED <<calls, tail, leftParts, naming, failedPre, failedPost>>

(* Mutant: every failure is reported as one before the rename.             *)
CommitFailsPre ==
  /\ pc # "idle"
  /\ settled' = settled \cup {running}
  /\ failedPre' = failedPre \cup {running}
  /\ Finish
  /\ UNCHANGED <<calls, tail, leftParts, naming, confirmed, failedPost>>

(* A file system call fails: the part file is removed if that succeeds,    *)
(* and the error says on which side of the rename the commit failed.       *)
CommitFails ==
  /\ pc # "idle"
  /\ settled' = settled \cup {running}
  /\ IF pc = "syncDirectory"
     THEN failedPost' = failedPost \cup {running} /\ UNCHANGED failedPre
     ELSE failedPre' = failedPre \cup {running} /\ UNCHANGED failedPost
  /\ leftParts' \in {leftParts} \cup
       {n \in {leftParts + 1} : content # "absent" /\ n <= MaxParts}
  /\ Finish
  /\ UNCHANGED <<calls, tail, naming, confirmed>>

(* The disk is written back: for syncDirectory, or at a time of its own.   *)
WriteBack ==
  /\ stable # visible
  /\ stable' = visible
  /\ UNCHANGED <<calls, tail, running, pc, file, leftParts, visible, whole,
                 onDisk, outcome>>

(* What dies with the process: the calls that were waiting or running.     *)
Die ==
  /\ settled' = settled \cup 1..calls
  /\ tail' = <<>>
  /\ Finish
  /\ UNCHANGED <<calls, confirmed, failedPre, failedPost>>

(* recoverOnce removes the part files before it loads the state.           *)
CrashAndRestart ==
  /\ Die
  /\ leftParts' = 0
  /\ UNCHANGED naming

(* The directory falls back to the entry on the disk, and a file whose     *)
(* data was not synced before it was named is torn.                        *)
PowerFailureAndRestart ==
  /\ Die
  /\ leftParts' = 0
  /\ visible' = stable
  /\ whole' = whole \cap onDisk
  /\ UNCHANGED <<stable, onDisk>>

FileCall == Open \/ WriteFile \/ Sync \/ Rename \/ SyncDirectory

Next ==
  \/ Commit \/ Start \/ FileCall \/ CommitFails
  \/ WriteBack
  \/ CrashAndRestart \/ PowerFailureAndRestart

Spec == Init /\ [][Next]_vars

----------------------------------------------------------------------------
(* A commit that returned success survives a crash and a power failure     *)
(* until a later commit replaces it, and what load() finds is always the   *)
(* whole of some commit (write, sync, then rename): the gateway sends      *)
(* durable ACKs on it.                                                     *)
ConfirmedSurvives ==
  visible \in whole /\ \A n \in confirmed : n <= stable /\ n <= visible

(* commitPhase tells the caller the truth: a commit that failed            *)
(* "pre-rename" is never seen by load(), so the gateway may go on from the *)
(* state before it.                                                        *)
PreRenameFailureIsInvisible ==
  \A n \in failedPre : n # visible /\ n # stable

(* Every commit that has not ended runs, or waits its turn in the order of *)
(* the calls, each once; and the store can go on with it, whatever failed  *)
(* before: a rejected commit does not stop the next (commit, L78).         *)
NoCommitIsStranded ==
  LET unended == IF running = 0 THEN tail ELSE <<running>> \o tail
  IN /\ {unended[i] : i \in DOMAIN unended} = 1..calls \ settled
     /\ \A i, j \in DOMAIN unended : i < j => unended[i] < unended[j]
     /\ unended # <<>> => ENABLED (Start \/ FileCall \/ WriteBack)

(* The register a caller of commit() may rely on, with the files, the part *)
(* files and the queue of commits left out.                                *)
Register == INSTANCE StateRegister WITH
  visible <- visible, stable <- stable,
  settled <- settled, confirmed <- confirmed

(* The store implements the register.                                      *)
ImplementsRegister == Register!Spec
=============================================================================

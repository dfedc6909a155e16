--------------------------- MODULE StateRegister ---------------------------
(***************************************************************************)
(* What AtomicJsonStateStore (bridge/src/persistence) promises to the      *)
(* gateway, without files.  Commits are numbered in the order of the       *)
(* calls; a commit's number stands for the state it writes, 0 for no state *)
(* file.  The register is written in that order or not at all: a commit    *)
(* takes effect at one point, may fail before it or after it, and returns  *)
(* success only once no power failure can undo it.                         *)
(***************************************************************************)
EXTENDS Naturals

CONSTANT MaxCommits   \* bound on the number of commit calls

VARIABLES
  visible,    \* the commit that load() would return now
  stable,     \* the commit that load() would return after a power failure
  settled,    \* commits with no effect still to come: returned, or abandoned
  confirmed   \* commits that returned success

vars == <<visible, stable, settled, confirmed>>

Commits == 1..MaxCommits

Init ==
  /\ visible = 0
  /\ stable = 0
  /\ settled = {}
  /\ confirmed = {}

(* rename(part, bridge-state.json) *)
TakeEffect(n) ==
  /\ n \notin settled
  /\ n > visible
  /\ visible' = n
  /\ UNCHANGED <<stable, settled, confirmed>>

(* The directory entry reaches the disk, when asked to or on its own.      *)
Stabilise ==
  /\ stable' = visible
  /\ UNCHANGED <<visible, settled, confirmed>>

Confirm(n) ==
  /\ n \notin settled
  /\ visible = n
  /\ stable = n
  /\ settled' = settled \cup {n}
  /\ confirmed' = confirmed \cup {n}
  /\ UNCHANGED <<visible, stable>>

(* A commit that fails, before or after its effect, or that a crash ends.  *)
Abandon(n) ==
  /\ n \notin settled
  /\ settled' = settled \cup {n}
  /\ UNCHANGED <<visible, stable, confirmed>>

(* After a crash of the process load() returns what it would have before;  *)
(* after a power failure, what had reached the disk.                       *)
Crash ==
  /\ visible' \in {visible, stable}
  /\ settled' \in {S \in SUBSET Commits : settled \subseteq S}
  /\ UNCHANGED <<stable, confirmed>>

Next ==
  \/ \E n \in Commits : TakeEffect(n) \/ Confirm(n) \/ Abandon(n)
  \/ Stabilise
  \/ Crash

Spec == Init /\ [][Next]_vars
=============================================================================

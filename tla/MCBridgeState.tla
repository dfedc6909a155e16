--------------------------- MODULE MCBridgeState ---------------------------
(***************************************************************************)
(* The state that the Bridge keeps, on a small instance: the object of     *)
(* CaseManager, with two devices that compete for two case identifiers,    *)
(* segment identifiers reused across cases, and room for only two segments *)
(* in a case and two tombstones; and the file it is saved in, with three   *)
(* commits.  Neither reads what the other holds, so that one is followed   *)
(* while the other is as it was at the start.                              *)
(***************************************************************************)
EXTENDS CaseRegistry, AtomicJsonStateStore, TLC

CONSTANTS d1, d2, c1, c2, s1, s2, s3

MCTranscripts == {"words", "blank"}
MCBlank       == {"blank"}
MCFailures    == {Interrupted}

(* Devices, cases and segments are interchangeable.                        *)
Symmetry ==
  Permutations({d1, d2}) \cup Permutations({c1, c2})
    \cup Permutations({s1, s2, s3})

StateNext ==
  \/ RegistryNext /\ calls = 0 /\ UNCHANGED vars
  \/ Next /\ cm = EmptyCaseManager /\ UNCHANGED cm

StateInit == RegistryInit /\ Init

StateSpec == StateInit /\ [][StateNext]_<<cm, vars>>
=============================================================================

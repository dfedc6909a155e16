------------------------------ MODULE MCBoard ------------------------------
(* Small instances of Board for TLC. *)
EXTENDS Board

MCSlotIds == {0, 1}
MCSegments == 1..2
=============================================================================

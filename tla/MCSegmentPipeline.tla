------------------------- MODULE MCSegmentPipeline -------------------------
(* SegmentPipeline on a small instance.                                    *)
EXTENDS SegmentPipeline, TLC

CONSTANTS d1, k1, k2, s1, s2

MCTranscripts == {"words"}
MCFailures    == {Interrupted}
MCSpeakerOf   == [s \in Segments |-> IF s = s1 THEN "A" ELSE "B"]
MCCaseOf      == [s \in Segments |-> 1]

Symmetry == Permutations({k1, k2})
=============================================================================

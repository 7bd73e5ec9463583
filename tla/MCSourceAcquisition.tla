------------------------ MODULE MCSourceAcquisition ------------------------
(* Small instances of SourceAcquisition for TLC. *)
EXTENDS SourceAcquisition

CONSTANTS p1, r1, r2, home, away

OneServer == [r \in Request |-> p1]
=============================================================================

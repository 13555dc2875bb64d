--------------------------- MODULE MCProcessPool ---------------------------
(* Instances of ProcessPool for TLC.  The clients are interchangeable.       *)
EXTENDS ProcessPool, TLC

ConnSymmetry == Permutations(Conn)
=============================================================================

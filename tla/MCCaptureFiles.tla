--------------------------- MODULE MCCaptureFiles ---------------------------
(***************************************************************************)
(* A small instance of CaptureFiles: one session of three captures, so     *)
(* that two merges can differ and one can precede the last capture's end.  *)
(***************************************************************************)
EXTENDS CaptureFiles, TLC

CONSTANTS s1,             \* session
          a1, a2, a3,     \* assignments
          r1, r2          \* requests

MCAssignment == {a1, a2, a3}
MCRequest    == {r1, r2}
OneSession   == [a \in Assignment |-> s1]

Symmetry == Permutations(MCAssignment) \cup Permutations(MCRequest)
=============================================================================

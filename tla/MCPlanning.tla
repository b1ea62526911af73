----------------------------- MODULE MCPlanning -----------------------------
(***************************************************************************)
(* A small instance of Planning: two targets that may share an address and *)
(* a plan of two, the least that can put two captures on one access point. *)
(***************************************************************************)
EXTENDS Planning, TLC

CONSTANTS t1, t2, h1, h2, s1, s2, m1

MCTarget   == {t1, t2}
MCHost     == {h1, h2}
MCSession  == {s1, s2}
MCTemplate == {m1}
MCMode     == {"file"}

Symmetry == Permutations(MCTarget) \cup Permutations(MCHost) \cup Permutations(MCSession)
=============================================================================

--------------------------- MODULE MCMultiTarget ---------------------------
(* The instance of MultiTarget with a dictionary that is too small.        *)
EXTENDS MultiTarget, TLC

CONSTANTS t1, t2, t3

MCTokens == {t1, t2, t3}

(* No definition tells one token from another but by what happens to it.   *)
Symmetry == Permutations(MCTokens)

=============================================================================

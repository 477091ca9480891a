--------------------------- MODULE MCTernaryWeights ---------------------------
(* A small instance of WeightValidation.tla and TernaryWeights.tla for TLC: *)
(* 2 rows of 3 weights in blocks of 2, so that a block straddles the rows,  *)
(* and mask words of 2, so that rows are padded and a column lies beyond    *)
(* the first word.                                                          *)
EXTENDS WeightValidation

Ternary == {-1, 0, 1}
TwoScales == {1, 2}

\* Activations whose signed sums, with scales up to 2, tell their terms apart.
PowersOfTen == [c \in 0 .. (ColsRaw - 1) |-> 10 ^ c]
=============================================================================

--------------------------- MODULE WeightValidation ---------------------------
(***************************************************************************)
(* validate_weights (src/src/bin/validate_weights.rs), the program that    *)
(* looks over a loaded tensor: it counts the bits of both masks, and has   *)
(* the kernel of this machine multiply the first row, comparing the        *)
(* product with one of its own.  It runs instead of the engine.            *)
(*                                                                         *)
(* Its percentages and warnings are wording and left out.                  *)
(***************************************************************************)
EXTENDS TernaryWeights, FiniteSets

VARIABLE report   \* what was found, or NoReport

NoReport == <<>>
wvars == <<vars, report>>

ValidationInit == Init /\ report = NoReport

-----------------------------------------------------------------------------
WordsPerRow_Raw == ColsRaw \div WordBits     \* fault: cols_raw for cols
WordsPerRow == Cols \div WordBits

\* The 1-bits in the words of all rows.
OnesIn(mask) == Cardinality({p \in mask : p < Rows * WordsPerRow * WordBits})

\* At most one word of activations, -3 to 3 in turn, and zeros behind them.
TestCols == IF ColsRaw < WordBits THEN ColsRaw ELSE WordBits
TestActs == [c \in 0 .. (Cols - 1) |-> IF c < TestCols THEN (c % 7) - 3 ELSE 0]

\* The weight at a column of the first row, from the two masks.
MaskWeight(c) == (IF c \in pos THEN 1 ELSE 0) - (IF c \in neg THEN 1 ELSE 0)
ScalarDot == MapThenSumSet(LAMBDA c : MaskWeight(c) * TestActs[c], 0 .. (ColsRaw - 1))

Validate ==
  /\ block = NumBlocks
  /\ out = <<>> /\ report = NoReport
  /\ report' = [ones |-> OnesIn(pos), minuses |-> OnesIn(neg),
                zeros |-> Rows * ColsRaw - OnesIn(pos) - OnesIn(neg),
                consistent |-> ScalarDot = TernaryDot(TestActs, 0)]
  /\ UNCHANGED vars

Infer == report = NoReport /\ Next /\ UNCHANGED report

ValidationNext == Infer \/ Validate

ValidationSpec == ValidationInit /\ [][ValidationNext]_wvars

-----------------------------------------------------------------------------
Weights(Sign(_)) == Cardinality({e \in 0 .. (Elements - 1) : Sign(RealWeight(e))})

\* The densities are those of the file: the padding of the rows is neither
\* counted nor missed, and the number of zeros does not underflow.
DensityExact ==
  report # NoReport =>
    /\ report.ones = Weights(LAMBDA w : w > 0)
    /\ report.minuses = Weights(LAMBDA w : w < 0)
    /\ report.zeros = Weights(LAMBDA w : w = 0)

\* The sign products that the first row should have with the test vector.
SignOf(w) == IF w > 0 THEN 1 ELSE IF w < 0 THEN -1 ELSE 0
TestProduct == MapThenSumSet(LAMBDA c : SignOf(RealWeight(c)) * TestActs[c], 0 .. (ColsRaw - 1))

\* What "SIMD consistency" means.  A working kernel is never called a mismatch;
\* the stub, which no other part of the program notices, always is, but for
\* rows whose product over the first word is zero.
ValidatorTellsStub ==
  report # NoReport =>
    (report.consistent <=> tier = "Avx512Bw" \/ TestProduct = 0)
=============================================================================

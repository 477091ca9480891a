----------------------------- MODULE WeightProofs -----------------------------
(***************************************************************************)
(* Proofs that for tensors, blocks and mask words of any size the packing  *)
(* of blocks into bit masks is exact, that so is the product of a row, and *)
(* that the validator's report is right.                                   *)
(***************************************************************************)
EXTENDS WeightValidation, CommonLemmas

-----------------------------------------------------------------------------
(***************************************************************************)
(* The masks, while they are being packed.                                 *)
(***************************************************************************)
Positive(e) == RealWeight(e) > 0
Negative(e) == RealWeight(e) < 0

Packed(e) == e < block * BlockSize

\* The masks hold the bits of the elements packed so far.
PackInv ==
  /\ block \in Nat
  /\ pos = {BitPos(e) : e \in {x \in 0 .. (Elements - 1) : Packed(x) /\ Positive(x)}}
  /\ neg = {BitPos(e) : e \in {x \in 0 .. (Elements - 1) : Packed(x) /\ Negative(x)}}

-----------------------------------------------------------------------------
(***************************************************************************)
(* Rows, columns and bits.                                                 *)
(***************************************************************************)
\* Rows are padded, never cut.
LEMMA ColsFacts == Cols \in Nat \ {0} /\ ColsRaw <= Cols /\ Elements \in Nat
  <1> DEFINE n == ColsRaw + WordBits - 1
             q == n \div WordBits
  <1>1. n \in Nat /\ WordBits \in Nat \ {0} /\ ColsRaw \in Nat \ {0} /\ Rows \in Nat
    BY DimensionsAssumption
  <1> DEFINE m == n % WordBits
  <1>2. q \in Nat /\ m \in 0 .. (WordBits - 1) /\ n = q * WordBits + m
    <2> HIDE DEF n
    <2> QED BY <1>1, Division
  <1>3. q * WordBits \in Nat
    <2> HIDE DEF q
    <2> QED BY <1>1, <1>2, Times
  <1>4. ColsRaw <= q * WordBits
    <2> DEFINE t == q * WordBits
      <2> HIDE DEF q, m
    <2>1. t \in Nat /\ m \in 0 .. (WordBits - 1) /\ ColsRaw + WordBits - 1 = t + m
      BY <1>2, <1>3
    <2> HIDE DEF t
    <2>2. ColsRaw <= t
      BY <1>1, <2>1
    <2> QED BY <2>2 DEF t
  <1>5. Elements \in Nat
    BY <1>1, Times DEF Elements
  <1> QED BY <1>1, <1>3, <1>4, <1>5 DEF Cols

\* The element of a row and a column, and its bit.
LEMMA BitOfCell ==
  ASSUME NEW row \in 0 .. (Rows - 1), NEW col \in 0 .. (ColsRaw - 1)
  PROVE  /\ row * ColsRaw + col \in 0 .. (Elements - 1)
         /\ BitPos(row * ColsRaw + col) = row * Cols + col
  <1> DEFINE e == row * ColsRaw + col
             t == row * ColsRaw
  <1>1. ColsRaw \in Nat \ {0} /\ Rows \in Nat \ {0} /\ row \in Nat /\ row + 1 <= Rows
    BY DimensionsAssumption
  <1>2. t \in Nat /\ (row + 1) * ColsRaw <= Rows * ColsRaw
    BY <1>1, Times
  <1>3. (row + 1) * ColsRaw = t + ColsRaw
    BY <1>1
  <1>4. e \in Nat /\ e \in 0 .. (Elements - 1)
    <2>1. Elements \in Nat /\ t + ColsRaw <= Elements
      BY <1>2, <1>3, ColsFacts DEF Elements
    <2> HIDE DEF t
    <2>2. t + col \in 0 .. (Elements - 1) /\ t + col \in Nat
      BY <1>1, <1>2, <2>1
    <2> QED BY <2>2 DEF t
  <1> DEFINE a == e \div ColsRaw
             b == e % ColsRaw
  <1>5. a \in Nat /\ b \in 0 .. (ColsRaw - 1) /\ e = a * ColsRaw + b
    <2> HIDE DEF e
    <2> QED BY <1>1, <1>4, Division
  <1>6. a = row /\ b = col
    <2> HIDE DEF a, b
    <2>1. a * ColsRaw + b = row * ColsRaw + col
      BY <1>5
    <2> QED BY <1>1, <1>5, <2>1, OneQuotient
  <1> QED BY <1>4, <1>6 DEF BitPos

\* A bit at the place of a row and a column belongs to the element there, so
\* none is in the padding.
LEMMA CellOfBit ==
  ASSUME NEW e \in 0 .. (Elements - 1),
         NEW row \in 0 .. (Rows - 1), NEW col \in 0 .. (Cols - 1),
         BitPos(e) = row * Cols + col
  PROVE  col < ColsRaw /\ e = row * ColsRaw + col
  <1> DEFINE a == e \div ColsRaw
             b == e % ColsRaw
  <1>1. ColsRaw \in Nat \ {0} /\ row \in Nat /\ e \in Nat
    BY DimensionsAssumption, ColsFacts
  <1>2. a \in Nat /\ b \in 0 .. (ColsRaw - 1) /\ e = a * ColsRaw + b
    BY <1>1, Division
  <1>3. a * Cols + b = row * Cols + col
    BY DEF BitPos
  <1> HIDE DEF a, b
  <1>4. b \in 0 .. (Cols - 1)
    BY <1>1, <1>2, ColsFacts
  <1>5. a = row /\ b = col
    BY <1>1, <1>2, <1>3, <1>4, ColsFacts, OneQuotient
  <1> QED BY <1>1, <1>2, <1>5

LEMMA BitInBounds ==
  ASSUME NEW e \in 0 .. (Elements - 1)
  PROVE  BitPos(e) \in 0 .. (Rows * Cols - 1)
  <1> DEFINE a == e \div ColsRaw
             b == e % ColsRaw
  <1>1. ColsRaw \in Nat \ {0} /\ Rows \in Nat /\ e \in Nat /\ e < Rows * ColsRaw
    BY DimensionsAssumption, ColsFacts DEF Elements
  <1>2. a \in Nat /\ b \in 0 .. (ColsRaw - 1) /\ e = a * ColsRaw + b
    BY <1>1, Division
  <1> HIDE DEF a, b
  <1>3. a + 1 <= Rows
    <2>1. CASE Rows <= a
      <3>1. Rows * ColsRaw <= a * ColsRaw /\ a * ColsRaw \in Nat /\ Rows * ColsRaw \in Nat
        BY <1>1, <1>2, <2>1, Times
      <3> QED BY <1>1, <1>2, <3>1
    <2> QED BY <1>1, <1>2, <2>1
  <1>4. (a + 1) * Cols <= Rows * Cols /\ a * Cols \in Nat /\ Rows * Cols \in Nat
    BY <1>1, <1>2, <1>3, ColsFacts, Times
  <1>5. (a + 1) * Cols = a * Cols + Cols
    BY <1>2, ColsFacts
  <1>6. a * Cols + b \in 0 .. (Rows * Cols - 1)
    BY <1>1, <1>2, <1>4, <1>5, ColsFacts
  <1> QED BY <1>6 DEF BitPos, a, b

-----------------------------------------------------------------------------
(***************************************************************************)
(* The packing loop.                                                       *)
(***************************************************************************)
LEMMA InitPackInv == Init => PackInv
  <1> SUFFICES ASSUME Init PROVE PackInv
    OBVIOUS
  <1>1. block = 0 /\ pos = {} /\ neg = {} /\ BlockSize \in Nat
    BY DimensionsAssumption DEF Init
  <1>2. \A x \in 0 .. (Elements - 1) : ~ Packed(x)
    BY <1>1, ColsFacts DEF Packed
  <1> QED BY <1>1, <1>2 DEF PackInv

\* Element x is packed by the turn of its block.
LEMMA PackedNext ==
  ASSUME block \in Nat, block' = block + 1, NEW x \in 0 .. (Elements - 1)
  PROVE  Packed(x)' <=> Packed(x) \/ x \in InBlock(block)
  <1> DEFINE t == block * BlockSize
  <1>1. BlockSize \in Nat \ {0} /\ t \in Nat /\ x \in Nat /\ x < Elements
    BY DimensionsAssumption, ColsFacts, Times
  <1>2. (block + 1) * BlockSize = t + BlockSize
    BY <1>1
  <1>3. Packed(x)' <=> x < t + BlockSize
    BY <1>2 DEF Packed
  <1>4. Packed(x) <=> x < t
    BY DEF Packed
  <1>5. x \in InBlock(block) <=> x \in t .. (t + BlockSize - 1)
    BY <1>1 DEF InBlock
  <1> HIDE DEF t
  <1> QED BY <1>1, <1>3, <1>4, <1>5

LEMMA NextPackInv == PackInv /\ [Next]_vars => PackInv'
  <1> SUFFICES ASSUME PackInv, [Next]_vars PROVE PackInv'
    OBVIOUS
  <1>1. CASE PackBlock
    <2>1. /\ block \in Nat /\ block' = block + 1
          /\ pos' = pos \cup {BitPos(e) : e \in {x \in InBlock(block) : RealWeight(x) > 0}}
          /\ neg' = neg \cup {BitPos(e) : e \in {x \in InBlock(block) : RealWeight(x) < 0}}
          /\ quants' = quants /\ deltas' = deltas
      BY <1>1 DEF PackBlock, PackInv
    <2>2. \A x : (Positive(x)' <=> Positive(x)) /\ (Negative(x)' <=> Negative(x))
      BY <2>1 DEF Positive, Negative, RealWeight
    <2>3. InBlock(block) \subseteq 0 .. (Elements - 1)
      <3>1. block * BlockSize \in Nat
        BY <2>1, DimensionsAssumption, Times
      <3> QED BY <3>1, ColsFacts, DimensionsAssumption DEF InBlock
    <2>4. \A x \in 0 .. (Elements - 1) : Packed(x)' <=> Packed(x) \/ x \in InBlock(block)
      BY <2>1, PackedNext
    <2>5. pos' = {BitPos(e) : e \in {x \in 0 .. (Elements - 1) : Packed(x)' /\ Positive(x)}}
      BY <2>1, <2>3, <2>4 DEF PackInv, Positive
    <2>6. neg' = {BitPos(e) : e \in {x \in 0 .. (Elements - 1) : Packed(x)' /\ Negative(x)}}
      BY <2>1, <2>3, <2>4 DEF PackInv, Negative
    <2>7. \A x \in 0 .. (Elements - 1) :
            /\ Packed(x)' /\ Positive(x)' <=> Packed(x)' /\ Positive(x)
            /\ Packed(x)' /\ Negative(x)' <=> Packed(x)' /\ Negative(x)
      BY <2>2
    <2>8. pos' = {BitPos(e) : e \in {x \in 0 .. (Elements - 1) : Packed(x)' /\ Positive(x)'}}
      BY <2>5, <2>7
    <2>9. neg' = {BitPos(e) : e \in {x \in 0 .. (Elements - 1) : Packed(x)' /\ Negative(x)'}}
      BY <2>6, <2>7
    <2>10. block' \in Nat
      BY <2>1
    <2> QED BY <2>8, <2>9, <2>10 DEF PackInv
  <1>2. CASE ProjectRow \/ UNCHANGED vars
    <2>1. UNCHANGED <<block, pos, neg, quants, deltas>>
      BY <1>2 DEF ProjectRow, vars
    <2> QED BY <2>1 DEF PackInv, Packed, Positive, Negative, RealWeight
  <1> QED BY <1>1, <1>2 DEF Next

LEMMA PackInvExact == PackInv => MasksExact
  <1> SUFFICES ASSUME PackInv PROVE MasksExact
    OBVIOUS
  <1>1. pos \cup neg \subseteq 0 .. (Rows * Cols - 1)
    BY BitInBounds DEF PackInv
  <1>2. ASSUME NEW row \in 0 .. (Rows - 1), NEW col \in 0 .. (Cols - 1)
        PROVE  LET e      == row * ColsRaw + col
                   packed == col < ColsRaw /\ e < block * BlockSize
               IN  /\ row * Cols + col \in pos <=> packed /\ RealWeight(e) > 0
                   /\ row * Cols + col \in neg <=> packed /\ RealWeight(e) < 0
    <2> DEFINE e == row * ColsRaw + col
               p == row * Cols + col
    <2>1. \A x \in 0 .. (Elements - 1) : BitPos(x) = p => col < ColsRaw /\ x = e
      BY CellOfBit
    <2>2. col < ColsRaw => e \in 0 .. (Elements - 1) /\ BitPos(e) = p
      <3>1. ASSUME col < ColsRaw PROVE col \in 0 .. (ColsRaw - 1)
        BY <3>1, ColsFacts, DimensionsAssumption
      <3> QED BY <3>1, BitOfCell
    <2> HIDE DEF e, p
    <2>3. p \in pos <=> col < ColsRaw /\ Packed(e) /\ Positive(e)
      BY <2>1, <2>2 DEF PackInv
    <2>4. p \in neg <=> col < ColsRaw /\ Packed(e) /\ Negative(e)
      BY <2>1, <2>2 DEF PackInv
    <2> QED BY <2>3, <2>4 DEF Packed, Positive, Negative, e, p
  <1> QED BY <1>1, <1>2 DEF MasksExact

\* Whatever the shape of the tensor, the blocks and the words, the masks that
\* the packing loop builds say of each weight, at the place where the kernel
\* looks for it, exactly whether it is positive or negative.
THEOREM MasksAlwaysExact == Spec => []MasksExact
  BY InitPackInv, NextPackInv, PackInvExact, PTL DEF Spec

-----------------------------------------------------------------------------
(***************************************************************************)
(* The packed masks and the scales.                                        *)
(***************************************************************************)
\* The blocks reach to the last element and not beyond it.
LEMMA BlocksCover ==
  /\ NumBlocks \in Nat
  /\ \A e \in 0 .. (Elements - 1) :
       e \div BlockSize \in 0 .. (NumBlocks - 1) /\ e < NumBlocks * BlockSize
  <1> DEFINE n == Elements + BlockSize - 1
             q == n \div BlockSize
             m == n % BlockSize
  <1>1. BlockSize \in Nat \ {0} /\ Elements \in Nat /\ n \in Nat
    BY DimensionsAssumption, ColsFacts
  <1>2. q \in Nat /\ m \in 0 .. (BlockSize - 1) /\ n = q * BlockSize + m
    <2> HIDE DEF n
    <2> QED BY <1>1, Division
  <1>3. NumBlocks = q
    BY DEF NumBlocks
  <1> HIDE DEF q, m
  <1>4. q * BlockSize \in Nat
    BY <1>1, <1>2, Times
  <1>5. Elements <= q * BlockSize
    <2> DEFINE t == q * BlockSize
    <2>1. t \in Nat /\ Elements + BlockSize - 1 = t + m
      BY <1>2, <1>4
    <2> HIDE DEF t
    <2>2. Elements <= t
      BY <1>1, <1>2, <2>1
    <2> QED BY <2>2 DEF t
  <1>6. ASSUME NEW e \in 0 .. (Elements - 1)
        PROVE  e \div BlockSize \in 0 .. (q - 1) /\ e < q * BlockSize
    <2> DEFINE a == e \div BlockSize
               b == e % BlockSize
    <2> e \in Nat
      BY <1>1
    <2>1. a \in Nat /\ b \in 0 .. (BlockSize - 1) /\ e = a * BlockSize + b
      BY <1>1, Division
    <2>2. e < q * BlockSize
      BY <1>1, <1>4, <1>5, <2>1
    <2> HIDE DEF a, b
    <2>3. CASE q <= a
      <3>1. a * BlockSize \in Nat /\ q * BlockSize <= a * BlockSize
        BY <1>1, <1>2, <2>1, <2>3, Times
      <3> QED BY <1>1, <1>4, <2>1, <2>2, <3>1
    <2>4. CASE a < q
      <3>1. a \in 0 .. (q - 1)
        BY <1>2, <2>1, <2>4
      <3> QED BY <2>2, <3>1 DEF a
    <2> QED BY <1>2, <2>1, <2>3, <2>4
  <1> QED BY <1>2, <1>3, <1>6

\* The file does not change, and every block packed has left its scale.
ScaleInv ==
  /\ tier \in {"Avx512Bw", "Scalar"}
  /\ quants \in [0 .. (Elements - 1) -> Quants]
  /\ deltas \in [0 .. (NumBlocks - 1) -> Deltas]
  /\ block \in 0 .. NumBlocks
  /\ scales \in Seq(Deltas) /\ Len(scales) = block
  /\ \A b \in 0 .. (block - 1) : scales[b + 1] = deltas[b]
  /\ out \in Seq(Int) /\ Len(out) \in 0 .. Rows
  /\ out # <<>> => block = NumBlocks

Cell(row, c) == row * ColsRaw + c
Plus(row) == {c \in 0 .. (ColsRaw - 1) : RealWeight(Cell(row, c)) > 0}
Minus(row) == {c \in 0 .. (ColsRaw - 1) : RealWeight(Cell(row, c)) < 0}

LEMMA SignsInRow ==
  ASSUME NEW row
  PROVE  /\ IsFiniteSet(0 .. (ColsRaw - 1))
         /\ Plus(row) \in SUBSET (0 .. (ColsRaw - 1)) /\ IsFiniteSet(Plus(row))
         /\ Minus(row) \in SUBSET (0 .. (ColsRaw - 1)) /\ IsFiniteSet(Minus(row))
  <1>1. IsFiniteSet(0 .. (ColsRaw - 1))
    BY FS_Interval, DimensionsAssumption
  <1>2. /\ Plus(row) \in SUBSET (0 .. (ColsRaw - 1))
        /\ Minus(row) \in SUBSET (0 .. (ColsRaw - 1))
    BY DEF Plus, Minus
  <1> QED BY <1>1, <1>2, FS_Subset

\* The bits of a row are the columns of its weights of that sign.
LEMMA RowBits ==
  ASSUME PackInv, block = NumBlocks, NEW row \in 0 .. (Rows - 1)
  PROVE  /\ {c \in 0 .. (Cols - 1) : row * Cols + c \in pos} = Plus(row)
         /\ {c \in 0 .. (Cols - 1) : row * Cols + c \in neg} = Minus(row)
  <1>1. MasksExact
    BY PackInvExact
  <1>2. ASSUME NEW c \in 0 .. (Cols - 1)
        PROVE  /\ row * Cols + c \in pos <=> c \in Plus(row)
               /\ row * Cols + c \in neg <=> c \in Minus(row)
    <2> DEFINE e == row * ColsRaw + c
    <2>1. /\ row * Cols + c \in pos <=> c < ColsRaw /\ e < block * BlockSize /\ RealWeight(e) > 0
          /\ row * Cols + c \in neg <=> c < ColsRaw /\ e < block * BlockSize /\ RealWeight(e) < 0
      BY <1>1 DEF MasksExact
    <2>2. c < ColsRaw <=> c \in 0 .. (ColsRaw - 1)
      BY DimensionsAssumption, ColsFacts
    <2>3. c \in 0 .. (ColsRaw - 1) => e < block * BlockSize
      BY BitOfCell, BlocksCover
    <2> QED BY <2>1, <2>2, <2>3 DEF Plus, Minus, Cell
  <1>3. 0 .. (ColsRaw - 1) \subseteq 0 .. (Cols - 1)
    BY DimensionsAssumption, ColsFacts
  <1> QED BY <1>2, <1>3 DEF Plus, Minus

\* What a working kernel computes for a row.
LEMMA DotOfRow ==
  ASSUME PackInv, block = NumBlocks, NEW row \in 0 .. (Rows - 1), NEW acts
  PROVE  TernaryDot(acts, row) = Difference(Total(acts, Plus(row)), Total(acts, Minus(row)))
  <1>1. IsFiniteSet(Plus(row)) /\ IsFiniteSet(Minus(row))
    BY SignsInRow
  <1>2. /\ Tabulates(acts, LAMBDA c : acts[c], Plus(row))
        /\ Tabulates(acts, LAMBDA c : acts[c], Minus(row))
    BY DEF Tabulates
  <1>3. MapThenSumSet(LAMBDA c : acts[c], Plus(row)) = Total(acts, Plus(row))
    BY <1>1, <1>2, SumIsTotal
  <1>4. MapThenSumSet(LAMBDA c : acts[c], Minus(row)) = Total(acts, Minus(row))
    BY <1>1, <1>2, SumIsTotal
  <1>5. TernaryDot(acts, row) =
          Difference(MapThenSumSet(LAMBDA c : acts[c], Plus(row)),
                     MapThenSumSet(LAMBDA c : acts[c], Minus(row)))
    BY RowBits DEF TernaryDot
  <1> QED BY <1>3, <1>4, <1>5

-----------------------------------------------------------------------------
(***************************************************************************)
(* The product.                                                            *)
(***************************************************************************)
Ternary == Quants \subseteq {-1, 0, 1}

\* In a row whose blocks have one scale, it is the scale of every weight.
LEMMA ScaleOfRow ==
  ASSUME ScaleInv, NEW row \in 0 .. (Rows - 1), OneScale(row)
  PROVE  LET D == deltas[(row * ColsRaw) \div BlockSize]
         IN  /\ D \in Nat
             /\ block = NumBlocks => RowScale(row) = D
             /\ \A c \in 0 .. (ColsRaw - 1) :
                  /\ RealWeight(Cell(row, c)) = D * quants[Cell(row, c)]
                  /\ quants[Cell(row, c)] \in Quants
  <1> DEFINE b == (row * ColsRaw) \div BlockSize
             D == deltas[b]
  <1>1. 0 \in 0 .. (ColsRaw - 1) /\ row * ColsRaw \in Nat /\ ColsRaw \in Nat
    BY DimensionsAssumption, Times
  <1>2. row * ColsRaw + 0 = row * ColsRaw
    BY <1>1
  <1>3. \A c \in 0 .. (ColsRaw - 1) : Cell(row, c) \in 0 .. (Elements - 1)
    BY BitOfCell DEF Cell
  <1>4. row * ColsRaw \in 0 .. (Elements - 1)
    BY <1>1, <1>2, <1>3 DEF Cell
  <1>5. b \in 0 .. (NumBlocks - 1) /\ b \in BlocksOf(row)
    BY <1>1, <1>2, <1>4, BlocksCover DEF BlocksOf
  <1>6. D \in Deltas /\ D \in Nat
    BY <1>5, ValuesAssumption DEF ScaleInv
  <1>7. block = NumBlocks => RowScale(row) = D
    BY <1>5 DEF ScaleInv, RowScale
  <1>8. ASSUME NEW c \in 0 .. (ColsRaw - 1)
        PROVE  /\ RealWeight(Cell(row, c)) = D * quants[Cell(row, c)]
               /\ quants[Cell(row, c)] \in Quants
    <2>1. Cell(row, c) \div BlockSize \in BlocksOf(row)
      BY DEF BlocksOf, Cell
    <2>2. deltas[Cell(row, c) \div BlockSize] = D
      BY <1>5, <2>1 DEF OneScale
    <2> QED BY <1>3, <2>2 DEF RealWeight, ScaleInv
  <1> QED BY <1>6, <1>7, <1>8

LEMMA LoadedIntegral ==
  /\ \A c \in 0 .. (Cols - 1) : Loaded[c] \in Int
  /\ \A c \in 0 .. (ColsRaw - 1) : c \in 0 .. (Cols - 1) /\ Loaded[c] = Acts[c]
  <1>1. DOMAIN Acts = 0 .. (ColsRaw - 1) /\ \A c \in DOMAIN Acts : Acts[c] \in Int
    BY ValuesAssumption
  <1>2. 0 .. (ColsRaw - 1) \subseteq 0 .. (Cols - 1)
    BY DimensionsAssumption, ColsFacts
  <1>3. Stray \in Int
    BY ValuesAssumption
  <1> QED BY <1>1, <1>2, <1>3 DEF Loaded

LEMMA ProductOfRow ==
  ASSUME Ternary, PackInv, ScaleInv, block = NumBlocks, tier = "Avx512Bw",
         NEW row \in 0 .. (Rows - 1), OneScale(row)
  PROVE  TernaryDot(Loaded, row) * RowScale(row) = Reference(row)
  <1> DEFINE D == deltas[(row * ColsRaw) \div BlockSize]
             S == 0 .. (ColsRaw - 1)
             h == [c \in S |-> RealWeight(row * ColsRaw + c) * Acts[c]]
  <1>1. /\ D \in Nat /\ RowScale(row) = D
        /\ \A c \in S : /\ RealWeight(Cell(row, c)) = D * quants[Cell(row, c)]
                        /\ quants[Cell(row, c)] \in {-1, 0, 1}
    BY ScaleOfRow DEF Ternary
  <1>2. \A c \in S : Loaded[c] = Acts[c] /\ Acts[c] \in Int
    BY LoadedIntegral
  <1>3. Reference(row) = Total(h, S)
    <2>1. Tabulates(h, LAMBDA c : RealWeight(row * ColsRaw + c) * Acts[c], S)
      BY DEF Tabulates
    <2> QED BY <2>1, SignsInRow, SumIsTotal DEF Reference
  <1> HIDE DEF D
  <1>4. ASSUME NEW c \in S
        PROVE  LET q == quants[Cell(row, c)]
               IN  /\ h[c] = (D * q) * Loaded[c]
                   /\ c \in Plus(row) <=> D * q > 0
                   /\ c \in Minus(row) <=> D * q < 0
                   /\ Loaded[c] \in Int /\ q \in {-1, 0, 1}
    BY <1>1, <1>2 DEF Plus, Minus, Cell
  <1> HIDE DEF h, S
  <1>5. ASSUME NEW c \in S
        PROVE  /\ c \in Plus(row) => h[c] = D * Loaded[c]
               /\ c \in Minus(row) => h[c] = (-D) * Loaded[c]
               /\ c \notin Plus(row) \cup Minus(row) => h[c] = 0
    <2> DEFINE q == quants[Cell(row, c)]
    <2>1. /\ h[c] = (D * q) * Loaded[c]
          /\ c \in Plus(row) <=> D * q > 0
          /\ c \in Minus(row) <=> D * q < 0
          /\ Loaded[c] \in Int /\ q \in {-1, 0, 1}
      BY <1>4
    <2> HIDE DEF q
    <2>2. CASE q = 1
      <3>1. D * q = D
        BY <1>1, <2>2
      <3>2. D = 0 => D * Loaded[c] = 0
        BY <2>1
      <3> QED BY <1>1, <2>1, <3>1, <3>2
    <2>3. CASE q = 0
      <3>1. D * q = 0 /\ 0 * Loaded[c] = 0
        BY <1>1, <2>1, <2>3
      <3> QED BY <2>1, <3>1
    <2>4. CASE q = -1
      <3>1. D * q = -D
        BY <1>1, <2>4
      <3>2. D = 0 => (-D) * Loaded[c] = 0
        BY <2>1
      <3> QED BY <1>1, <2>1, <3>1, <3>2
    <2> QED BY <2>1, <2>2, <2>3, <2>4
  <1>6. IsFiniteSet(S) /\ Plus(row) \in SUBSET S /\ Minus(row) \in SUBSET S
    BY SignsInRow DEF S
  <1>7. Plus(row) \cap Minus(row) = {}
    <2>1. ASSUME NEW c \in S, c \in Plus(row), c \in Minus(row) PROVE FALSE
      <3>1. D * quants[Cell(row, c)] > 0 /\ D * quants[Cell(row, c)] < 0
        BY <1>4, <2>1
      <3>2. D * quants[Cell(row, c)] \in Int
        BY <1>1, <1>4, <2>1
      <3> QED BY <3>1, <3>2
    <2> QED BY <1>6, <2>1
  <1>8. Integral(Loaded, S)
    BY <1>4 DEF Integral
  <1> DEFINE d == Total(Loaded, Plus(row)) - Total(Loaded, Minus(row))
  <1>9. Total(h, S) = D * d /\ d \in Int
    <2>1. D \in Int
      BY <1>1
    <2>2. \A c \in Plus(row) : h[c] = D * Loaded[c]
      BY <1>5, <1>6
    <2>3. \A c \in Minus(row) : h[c] = (-D) * Loaded[c]
      BY <1>5, <1>6
    <2>4. \A c \in S \ (Plus(row) \cup Minus(row)) : h[c] = 0
      BY <1>5
    <2>5. /\ Total(h, S) = D * (Total(Loaded, Plus(row)) - Total(Loaded, Minus(row)))
          /\ Total(Loaded, Plus(row)) \in Int /\ Total(Loaded, Minus(row)) \in Int
      <3>1. Signed(h, Loaded, D, S, Plus(row), Minus(row))
        BY <1>6, <1>7, <2>2, <2>3, <2>4 DEF Signed
      <3> QED BY <1>6, <1>8, <2>1, <3>1, SignedTotal
    <2> QED BY <2>5
  <1>10. TernaryDot(Loaded, row) = d
    BY DotOfRow DEF Difference
  <1> HIDE DEF d
  <1>11. d * D = D * d
    BY <1>1, <1>9
  <1> QED BY <1>1, <1>3, <1>9, <1>10, <1>11

LEMMA InitScaleInv == Init => ScaleInv /\ RowsExact
  <1> SUFFICES ASSUME Init PROVE ScaleInv /\ RowsExact
    OBVIOUS
  <1>1. NumBlocks \in Nat /\ Rows \in Nat
    BY BlocksCover, DimensionsAssumption
  <1> QED BY <1>1 DEF Init, ScaleInv, RowsExact

LEMMA RowIntegral ==
  ASSUME PackInv, ScaleInv, block = NumBlocks, NEW row \in 0 .. (Rows - 1)
  PROVE  TernaryDot(Loaded, row) * RowScale(row) \in Int
  <1>1. Integral(Loaded, Plus(row)) /\ Integral(Loaded, Minus(row))
    BY LoadedIntegral, SignsInRow DEF Integral
  <1>2. Total(Loaded, Plus(row)) \in Int /\ Total(Loaded, Minus(row)) \in Int
    BY <1>1, SignsInRow, TotalStep
  <1>3. TernaryDot(Loaded, row) \in Int
    BY <1>2, DotOfRow DEF Difference
  <1>4. 0 \in 0 .. (ColsRaw - 1) /\ row * ColsRaw \in Nat
    BY DimensionsAssumption, Times
  <1>5. row * ColsRaw + 0 = row * ColsRaw
    BY <1>4
  <1>6. row * ColsRaw \in 0 .. (Elements - 1)
    BY <1>4, <1>5, BitOfCell
  <1>7. (row * ColsRaw) \div BlockSize \in 0 .. (NumBlocks - 1)
    BY <1>6, BlocksCover
  <1> DEFINE b == (row * ColsRaw) \div BlockSize
  <1>8. RowScale(row) = deltas[b]
    BY <1>7 DEF RowScale, ScaleInv
  <1>9. deltas[b] \in Deltas /\ Deltas \subseteq Int
    BY <1>7, ValuesAssumption DEF ScaleInv
  <1>10. \A x, y \in Int : x * y \in Int
    OBVIOUS
  <1> HIDE DEF b
  <1> QED BY <1>3, <1>8, <1>9, <1>10

LEMMA NextScaleInv == PackInv /\ ScaleInv /\ [Next]_vars => ScaleInv'
  <1> SUFFICES ASSUME PackInv, ScaleInv, [Next]_vars PROVE ScaleInv'
    OBVIOUS
  <1> NumBlocks \in Nat /\ Rows \in Nat
    BY BlocksCover, DimensionsAssumption
  <1>1. CASE PackBlock
    <2>1. /\ block' = block + 1 /\ scales' = Append(scales, deltas[block])
          /\ UNCHANGED <<tier, quants, deltas, out>> /\ block < NumBlocks
      BY <1>1 DEF PackBlock
    <2>2. deltas[block] \in Deltas
      BY <2>1 DEF ScaleInv
    <2>3. out = <<>>
      BY <2>1 DEF ScaleInv
    <2>4. /\ scales' \in Seq(Deltas) /\ Len(scales') = block'
          /\ \A b \in 0 .. (block' - 1) : scales'[b + 1] = deltas'[b]
      BY <2>1, <2>2 DEF ScaleInv
    <2> QED BY <2>1, <2>3, <2>4 DEF ScaleInv
  <1>2. CASE ProjectRow
    <2>1. /\ UNCHANGED <<tier, quants, deltas, block, scales>> /\ block = NumBlocks
          /\ out' = Append(out, TernaryDot(Loaded, Len(out)) * RowScale(Len(out)))
          /\ Len(out) < Rows
      BY <1>2 DEF ProjectRow
    <2>2. TernaryDot(Loaded, Len(out)) * RowScale(Len(out)) \in Int
      BY <2>1, RowIntegral DEF ScaleInv
    <2> QED BY <2>1, <2>2 DEF ScaleInv
  <1>3. CASE UNCHANGED vars
    BY <1>3 DEF vars, ScaleInv
  <1> QED BY <1>1, <1>2, <1>3 DEF Next

\* The rows computed stay right, and a new one is right.
LEMMA NextRowsExact ==
  ASSUME Ternary
  PROVE  PackInv /\ ScaleInv /\ RowsExact /\ [Next]_vars => RowsExact'
  <1> SUFFICES ASSUME PackInv, ScaleInv, RowsExact, [Next]_vars PROVE RowsExact'
    OBVIOUS
  <1>1. /\ UNCHANGED <<tier, quants, deltas>>
        /\ \A row : OneScale(row)' <=> OneScale(row)
        /\ \A row : Reference(row)' = Reference(row)
    <2>1. UNCHANGED <<tier, quants, deltas>>
      BY DEF Next, PackBlock, ProjectRow, vars
    <2>2. \A row : OneScale(row)' <=> OneScale(row)
      BY <2>1 DEF OneScale
    <2>3. \A row : Reference(row)' = Reference(row)
      BY <2>1 DEF Reference, RealWeight, MapThenSumSet, MapThenFoldSet
    <2> QED BY <2>1, <2>2, <2>3
  <1>2. CASE ProjectRow
    <2> DEFINE new == TernaryDot(Loaded, Len(out)) * RowScale(Len(out))
    <2>1. block = NumBlocks /\ Len(out) < Rows /\ out' = Append(out, new)
      BY <1>2 DEF ProjectRow
    <2>2. Len(out) \in 0 .. (Rows - 1) /\ out \in Seq(Int) /\ new \in Int
      BY <2>1, RowIntegral, DimensionsAssumption DEF ScaleInv
    <2>3. tier = "Avx512Bw" /\ OneScale(Len(out)) => new = Reference(Len(out))
      BY <2>1, <2>2, ProductOfRow
    <2> HIDE DEF new
    <2>4. /\ Len(out') = Len(out) + 1 /\ out'[Len(out) + 1] = new
          /\ \A i \in 1 .. Len(out) : out'[i] = out[i]
      BY <2>1, <2>2
    <2>5. ASSUME tier = "Avx512Bw", NEW row \in 0 .. (Len(out') - 1), OneScale(row)
          PROVE  out'[row + 1] = Reference(row)
      <3>1. CASE row = Len(out)
        BY <2>3, <2>4, <2>5, <3>1
      <3>2. CASE row # Len(out)
        <4>1. row \in 0 .. (Len(out) - 1) /\ row + 1 \in 1 .. Len(out)
          BY <2>2, <2>4, <3>2
        <4> QED BY <2>4, <2>5, <4>1 DEF RowsExact
      <3> QED BY <3>1, <3>2
    <2> QED BY <1>1, <2>5 DEF RowsExact
  <1>3. CASE PackBlock \/ UNCHANGED vars
    <2>1. out' = out
      BY <1>3 DEF PackBlock, vars
    <2> QED BY <1>1, <2>1 DEF RowsExact
  <1> QED BY <1>2, <1>3 DEF Next

\* Whatever the shape, the blocks, the words and the activations: when the
\* quants are ternary, every row of the AVX-512 product whose blocks have one
\* scale is the product of the real weights of that row, although the masks
\* are padded, blocks straddle rows and the kernel loads what lies behind the
\* activation vector.
THEOREM RowsAlwaysExact ==
  ASSUME Ternary
  PROVE  Spec => []RowsExact
  <1>1. Init => PackInv /\ ScaleInv /\ RowsExact
    BY InitPackInv, InitScaleInv
  <1>2. PackInv /\ ScaleInv /\ RowsExact /\ [Next]_vars => (PackInv /\ ScaleInv /\ RowsExact)'
    BY NextPackInv, NextScaleInv, NextRowsExact
  <1> QED BY <1>1, <1>2, PTL DEF Spec

-----------------------------------------------------------------------------
(***************************************************************************)
(* The validation program.                                                 *)
(***************************************************************************)
\* The rows fill their words, so that all bits are counted.
LEMMA AllWords == Rows * WordsPerRow * WordBits = Rows * Cols
  <1> DEFINE q == (ColsRaw + WordBits - 1) \div WordBits
             a == Cols \div WordBits
             b == Cols % WordBits
  <1>1. /\ WordBits \in Nat \ {0} /\ ColsRaw + WordBits - 1 \in Nat /\ Rows \in Nat
    BY DimensionsAssumption
  <1>2. q \in Nat
    BY <1>1, Division
  <1>3. Cols = q * WordBits + 0
    <2>1. q * WordBits \in Nat
      BY <1>1, <1>2, Times
    <2> QED BY <2>1 DEF Cols
  <1>4. a \in Nat /\ b \in 0 .. (WordBits - 1) /\ Cols = a * WordBits + b
    BY <1>1, ColsFacts, Division
  <1> HIDE DEF q, a, b
  <1>5. 0 \in 0 .. (WordBits - 1)
    BY <1>1
  <1>6. a = q
    BY <1>1, <1>2, <1>3, <1>4, <1>5, OneQuotient
  <1>7. Cols = q * WordBits /\ WordsPerRow = q
    <2>1. q * WordBits \in Nat
      BY <1>1, <1>2, Times
    <2> QED BY <1>3, <1>6, <2>1 DEF WordsPerRow, a
  <1>8. (Rows * q) * WordBits = Rows * (q * WordBits)
    BY <1>1, <1>2
  <1> QED BY <1>7, <1>8

\* Different elements have different bits.
LEMMA OneBitEach ==
  ASSUME NEW e \in 0 .. (Elements - 1), NEW d \in 0 .. (Elements - 1), BitPos(e) = BitPos(d)
  PROVE  e = d
  <1> DEFINE a == e \div ColsRaw
             b == e % ColsRaw
  <1> e \in Nat
    BY ColsFacts
  <1>1. a \in Nat /\ b \in 0 .. (ColsRaw - 1) /\ e = a * ColsRaw + b
    BY DimensionsAssumption, Division
  <1>2. BitPos(d) = a * Cols + b
    BY DEF BitPos
  <1>3. e < Rows * ColsRaw /\ ColsRaw \in Nat \ {0} /\ Rows \in Nat
    BY ColsFacts, DimensionsAssumption DEF Elements
  <1> HIDE DEF a, b
  <1>4. a \in 0 .. (Rows - 1)
    <2>1. CASE Rows <= a
      <3>1. Rows * ColsRaw <= a * ColsRaw /\ a * ColsRaw \in Nat /\ Rows * ColsRaw \in Nat
        BY <1>1, <1>3, <2>1, Times
      <3> QED BY <1>1, <1>3, <3>1
    <2> QED BY <1>1, <1>3, <2>1
  <1>5. b \in 0 .. (Cols - 1)
    BY <1>1, <1>3, ColsFacts
  <1>6. d = a * ColsRaw + b
    BY <1>2, <1>4, <1>5, CellOfBit
  <1> QED BY <1>1, <1>6

\* So there are as many bits as elements.
LEMMA AsManyBits ==
  ASSUME NEW E \in SUBSET (0 .. (Elements - 1))
  PROVE  /\ IsFiniteSet(E)
         /\ Cardinality({BitPos(e) : e \in E}) = Cardinality(E)
  <1> DEFINE B == {BitPos(e) : e \in E}
             f == [e \in E |-> BitPos(e)]
  <1>1. IsFiniteSet(E)
    <2>1. IsFiniteSet(0 .. (Elements - 1))
      BY ColsFacts, FS_Interval
    <2> QED BY <2>1, FS_Subset
  <1>2. f \in Bijection(E, B)
    BY OneBitEach DEF Bijection, Injection, Surjection, IsInjective
  <1>3. ExistsBijection(E, B)
    BY <1>2 DEF ExistsBijection
  <1> HIDE DEF B
  <1>4. Cardinality(B) = Cardinality(E)
    BY <1>1, <1>3, FS_Bijection
  <1> QED BY <1>1, <1>4 DEF B

LEMMA WeightIntegral ==
  ASSUME ScaleInv, NEW e \in 0 .. (Elements - 1)
  PROVE  RealWeight(e) \in Int
  <1>1. e \div BlockSize \in 0 .. (NumBlocks - 1)
    BY BlocksCover
  <1>2. deltas[e \div BlockSize] \in Deltas /\ quants[e] \in Quants
    BY <1>1 DEF ScaleInv
  <1>3. Deltas \subseteq Int /\ Quants \subseteq Int
    BY ValuesAssumption
  <1>4. deltas[e \div BlockSize] \in Int /\ quants[e] \in Int
    BY <1>2, <1>3
  <1>5. \A x, y \in Int : x * y \in Int
    OBVIOUS
  <1> QED BY <1>4, <1>5 DEF RealWeight

LEMMA DensityOfMasks ==
  ASSUME PackInv, ScaleInv, block = NumBlocks
  PROVE  /\ OnesIn(pos) = Weights(LAMBDA w : w > 0)
         /\ OnesIn(neg) = Weights(LAMBDA w : w < 0)
         /\ Rows * ColsRaw - OnesIn(pos) - OnesIn(neg) = Weights(LAMBDA w : w = 0)
  <1> DEFINE All == 0 .. (Elements - 1)
             P == {e \in All : RealWeight(e) > 0}
             N == {e \in All : RealWeight(e) < 0}
             Z == {e \in All : RealWeight(e) = 0}
  <1>1. pos = {BitPos(e) : e \in P} /\ neg = {BitPos(e) : e \in N}
    <2>1. \A x \in 0 .. (Elements - 1) : Packed(x)
      BY BlocksCover DEF Packed
    <2> QED BY <2>1 DEF PackInv, Positive, Negative
  <1>2. \A e \in All : BitPos(e) < Rows * WordsPerRow * WordBits
    <2>1. \A e \in All : BitPos(e) \in 0 .. (Rows * Cols - 1)
      BY BitInBounds
    <2>2. Rows * Cols \in Nat
      BY ColsFacts, DimensionsAssumption, Times
    <2> QED BY <2>1, <2>2, AllWords
  <1>3. OnesIn(pos) = Cardinality(P) /\ OnesIn(neg) = Cardinality(N)
    <2>1. {p \in pos : p < Rows * WordsPerRow * WordBits} = {BitPos(e) : e \in P}
      BY <1>1, <1>2
    <2>2. {p \in neg : p < Rows * WordsPerRow * WordBits} = {BitPos(e) : e \in N}
      BY <1>1, <1>2
    <2>3. P \in SUBSET All /\ N \in SUBSET All
      OBVIOUS
    <2> HIDE DEF P, N
    <2> QED BY <2>1, <2>2, <2>3, AsManyBits DEF OnesIn
  <1>4. \A e \in All : RealWeight(e) \in Int
    BY WeightIntegral
  <1>5. /\ IsFiniteSet(All) /\ Cardinality(All) = Elements
    BY ColsFacts, FS_Interval
  <1>6. Z = All \ (P \cup N) /\ P \cap N = {} /\ P \cup N \subseteq All
    BY <1>4
  <1>7. Weights(LAMBDA w : w > 0) = Cardinality(P) /\ Weights(LAMBDA w : w < 0) = Cardinality(N)
        /\ Weights(LAMBDA w : w = 0) = Cardinality(Z)
    BY DEF Weights
  <1> HIDE DEF All, P, N, Z
  <1>8. IsFiniteSet(P) /\ IsFiniteSet(N)
    BY <1>5, <1>6, FS_Subset
  <1>9. Cardinality(P \cup N) = Cardinality(P) + Cardinality(N)
    <2>1. Cardinality(P \cup N) = Cardinality(P) + Cardinality(N) - Cardinality(P \cap N)
      BY <1>8, FS_Union
    <2>2. Cardinality(P \cap N) = 0
      BY <1>6, FS_EmptySet
    <2> QED BY <1>8, <2>1, <2>2, FS_CardinalityType
  <1>10. Cardinality(Z) = Cardinality(All) - Cardinality(P \cup N)
    <2>1. All \cap (P \cup N) = P \cup N
      BY <1>6
    <2> QED BY <1>5, <1>6, <2>1, FS_Difference
  <1>11. /\ Cardinality(P) \in Nat /\ Cardinality(N) \in Nat /\ Elements \in Nat
    BY <1>8, FS_CardinalityType, ColsFacts
  <1>12. Elements = Rows * ColsRaw
    BY DEF Elements
  <1> QED BY <1>3, <1>5, <1>7, <1>9, <1>10, <1>11, <1>12

\* The sign of a weight of the first row, by the masks and by the file.
LEMMA FirstRowSign ==
  ASSUME PackInv, ScaleInv, block = NumBlocks, NEW c \in 0 .. (ColsRaw - 1)
  PROVE  LET sign == IF c \in Plus(0) THEN 1 ELSE IF c \in Minus(0) THEN -1 ELSE 0
         IN  /\ MaskWeight(c) = sign
             /\ SignOf(RealWeight(c)) = sign
             /\ ~ (c \in Plus(0) /\ c \in Minus(0))
  <1>1. 0 \in 0 .. (Rows - 1) /\ c \in 0 .. (Cols - 1)
    BY DimensionsAssumption, ColsFacts
  <1>2. 0 * Cols + c = c /\ 0 * ColsRaw + c = c
    BY ColsFacts, DimensionsAssumption
  <1>3. c \in pos <=> c \in Plus(0)
    BY <1>1, <1>2, RowBits
  <1>4. c \in neg <=> c \in Minus(0)
    BY <1>1, <1>2, RowBits
  <1>5. Cell(0, c) = c
    BY <1>2 DEF Cell
  <1>6. c \in Plus(0) <=> RealWeight(c) > 0
    BY <1>5 DEF Plus
  <1>7. c \in Minus(0) <=> RealWeight(c) < 0
    BY <1>5 DEF Minus
  <1>8. RealWeight(c) \in Int
    BY <1>1, <1>2, BitOfCell, WeightIntegral
  <1>9. ~ (c \in Plus(0) /\ c \in Minus(0))
    BY <1>6, <1>7, <1>8
  <1>10. MaskWeight(c) = IF c \in Plus(0) THEN 1 ELSE IF c \in Minus(0) THEN -1 ELSE 0
    BY <1>3, <1>4, <1>9 DEF MaskWeight
  <1> QED BY <1>6, <1>7, <1>9, <1>10 DEF SignOf

LEMMA ConsistencyTold ==
  ASSUME PackInv, ScaleInv, block = NumBlocks
  PROVE  ScalarDot = TernaryDot(TestActs, 0) <=> tier = "Avx512Bw" \/ TestProduct = 0
  <1> DEFINE S == 0 .. (ColsRaw - 1)
             sign == [c \in S |-> IF c \in Plus(0) THEN 1 ELSE IF c \in Minus(0) THEN -1 ELSE 0]
             h == [c \in S |-> sign[c] * TestActs[c]]
  <1>1. \A c \in S : /\ MaskWeight(c) = sign[c] /\ SignOf(RealWeight(c)) = sign[c]
                     /\ ~ (c \in Plus(0) /\ c \in Minus(0))
    BY FirstRowSign
  <1>2. ScalarDot = Total(h, S)
    <2>1. Tabulates(h, LAMBDA c : MaskWeight(c) * TestActs[c], S)
      BY <1>1 DEF Tabulates
    <2> QED BY <2>1, SignsInRow, SumIsTotal DEF ScalarDot
  <1>3. TestProduct = Total(h, S)
    <2>1. Tabulates(h, LAMBDA c : SignOf(RealWeight(c)) * TestActs[c], S)
      BY <1>1 DEF Tabulates
    <2> QED BY <2>1, SignsInRow, SumIsTotal DEF TestProduct
  <1>4. \A c \in S : TestActs[c] \in Int
    BY LoadedIntegral, DimensionsAssumption DEF TestActs
  <1>5. IsFiniteSet(S) /\ Plus(0) \in SUBSET S /\ Minus(0) \in SUBSET S
    BY SignsInRow
  <1>6. Signed(h, TestActs, 1, S, Plus(0), Minus(0))
    BY <1>1, <1>4, <1>5 DEF Signed
  <1> HIDE DEF S, h, sign
  <1>7. Integral(TestActs, S)
    BY <1>4 DEF Integral
  <1> DEFINE d == Total(TestActs, Plus(0)) - Total(TestActs, Minus(0))
  <1>8. Total(h, S) = 1 * d /\ d \in Int
    <2>1. /\ Total(h, S) = 1 * (Total(TestActs, Plus(0)) - Total(TestActs, Minus(0)))
          /\ Total(TestActs, Plus(0)) \in Int /\ Total(TestActs, Minus(0)) \in Int
      BY <1>5, <1>6, <1>7, SignedTotal
    <2> QED BY <2>1
  <1>9. TernaryDot(TestActs, 0) = IF tier = "Scalar" THEN 0 ELSE d
    <2>1. 0 \in 0 .. (Rows - 1)
      BY DimensionsAssumption
    <2> QED BY <2>1, DotOfRow DEF Difference
  <1> HIDE DEF d
  <1> QED BY <1>2, <1>3, <1>8, <1>9 DEF ScaleInv

ReportInv ==
  report # NoReport =>
    /\ block = NumBlocks
    /\ DensityExact
    /\ ValidatorTellsStub

\* A report is made when the masks are complete, and nothing changes after it.
LEMMA NextReportInv ==
  PackInv /\ ScaleInv /\ ReportInv /\ [ValidationNext]_wvars => ReportInv'
  <1> SUFFICES ASSUME PackInv, ScaleInv, ReportInv, [ValidationNext]_wvars PROVE ReportInv'
    OBVIOUS
  <1>1. CASE Infer
    BY <1>1 DEF Infer, ReportInv
  <1>2. CASE Validate
    <2>1. /\ block = NumBlocks /\ UNCHANGED vars
          /\ report' = [ones |-> OnesIn(pos), minuses |-> OnesIn(neg),
                        zeros |-> Rows * ColsRaw - OnesIn(pos) - OnesIn(neg),
                        consistent |-> ScalarDot = TernaryDot(TestActs, 0)]
      BY <1>2 DEF Validate
    <2>2. /\ report'.ones = Weights(LAMBDA w : w > 0)
          /\ report'.minuses = Weights(LAMBDA w : w < 0)
          /\ report'.zeros = Weights(LAMBDA w : w = 0)
      BY <2>1, DensityOfMasks
    <2>3. report'.consistent <=> tier = "Avx512Bw" \/ TestProduct = 0
      BY <2>1, ConsistencyTold
    <2>4. DensityExact'
      BY <2>1, <2>2 DEF DensityExact, Weights, RealWeight, vars
    <2>5. TestProduct' = TestProduct
      BY <2>1 DEF TestProduct, RealWeight, MapThenSumSet, MapThenFoldSet, vars
    <2>6. ValidatorTellsStub'
      BY <2>1, <2>3, <2>5 DEF ValidatorTellsStub, vars
    <2>7. block' = NumBlocks
      BY <2>1 DEF vars
    <2> QED BY <2>4, <2>6, <2>7 DEF ReportInv
  <1>3. CASE UNCHANGED wvars
    <2>1. UNCHANGED <<vars, report>> /\ UNCHANGED <<quants, deltas, block, tier>>
      BY <1>3 DEF wvars, vars
    <2>2. TestProduct' = TestProduct
      BY <2>1 DEF TestProduct, RealWeight, MapThenSumSet, MapThenFoldSet
    <2>3. DensityExact' <=> DensityExact
      BY <2>1 DEF DensityExact, Weights, RealWeight
    <2>4. ValidatorTellsStub' <=> ValidatorTellsStub
      BY <2>1, <2>2 DEF ValidatorTellsStub
    <2> QED BY <2>1, <2>3, <2>4 DEF ReportInv
  <1> QED BY <1>1, <1>2, <1>3 DEF ValidationNext

WeightInv == PackInv /\ ScaleInv /\ ReportInv

LEMMA WeightInvHolds == ValidationSpec => []WeightInv
  <1>1. ValidationInit => WeightInv
    <2>1. report = NoReport => ReportInv
      BY DEF ReportInv
    <2> QED BY <2>1, InitPackInv, InitScaleInv DEF ValidationInit, WeightInv
  <1>2. WeightInv /\ [ValidationNext]_wvars => WeightInv'
    <2>1. [ValidationNext]_wvars => [Next]_vars
      BY DEF ValidationNext, Infer, Validate, wvars
    <2> QED BY <2>1, NextPackInv, NextScaleInv, NextReportInv DEF WeightInv
  <1> QED BY <1>1, <1>2, PTL DEF ValidationSpec

\* The validator only looks, so what is proved of Spec holds beside it.
LEMMA ValidatorOnlyLooks == ValidationSpec => Spec
  <1>1. ValidationInit => Init
    BY DEF ValidationInit
  <1>2. [ValidationNext]_wvars => [Next]_vars
    BY DEF ValidationNext, Infer, Validate, wvars
  <1> QED BY <1>1, <1>2, PTL DEF ValidationSpec, Spec

\* Whatever the file, the validator's densities are the file's: it counts
\* every weight, no bit of the padding, and each once, and the number of zeros,
\* which it obtains by subtraction, is their number.
THEOREM DensityAlwaysExact == ValidationSpec => []DensityExact
  <1>1. WeightInv => DensityExact
    BY DEF WeightInv, ReportInv, DensityExact
  <1> QED BY <1>1, WeightInvHolds, PTL

\* Whatever the file, the validator calls a working kernel consistent, and the
\* stub inconsistent unless the first row gives zero.
THEOREM StubIsTold == ValidationSpec => []ValidatorTellsStub
  <1>1. WeightInv => ValidatorTellsStub
    BY DEF WeightInv, ReportInv, ValidatorTellsStub
  <1> QED BY <1>1, WeightInvHolds, PTL
=============================================================================

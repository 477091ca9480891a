---------------------------- MODULE TernaryWeights ----------------------------
(***************************************************************************)
(* From Q8_0 blocks to a matrix-vector product.  The first half is         *)
(* q8_blocks_to_ternary_bitmasks (src/src/gguf/weight_loader.rs): it       *)
(* walks the blocks, whose elements run across row boundaries, and sets a  *)
(* bit per non-zero weight in one of two masks whose rows are padded to    *)
(* whole words.  The second half is ternary_proj_i8                        *)
(* (src/src/engine/mod.rs) with the AVX-512 kernel                         *)
(* (src/src/simd/avx512_bw.rs): for each row it adds the activations under *)
(* the positive mask, subtracts those under the negative one, and scales   *)
(* the sum.  Which kernel that is, src/src/simd/dispatch.rs decides once,  *)
(* by what the CPU can do.                                                 *)
(*                                                                         *)
(* Block scales and activations are small integers; f16 decoding and f32   *)
(* rounding are left out.  Block scales are not negative, as the Q8_0      *)
(* quantizers write them.  The rows of the product run in parallel but     *)
(* share nothing they write, so their order is irrelevant.                 *)
(***************************************************************************)
EXTENDS Integers, Sequences, FiniteSetsExt

CONSTANTS Rows, ColsRaw,  \* the dimensions of the tensor
          BlockSize,      \* Q8_BLOCK_SIZE (32)
          WordBits,       \* bits per mask word (64)
          Quants,         \* values of one i8 of a block
          Deltas,         \* block scales
          Acts,           \* the activation vector, indexed from 0
          Stray           \* what is read behind the activation vector

ASSUME DimensionsAssumption ==
  /\ Rows \in Nat \ {0} /\ ColsRaw \in Nat \ {0}
  /\ BlockSize \in Nat \ {0} /\ WordBits \in Nat \ {0}
ASSUME ValuesAssumption ==
  /\ Quants \subseteq Int /\ Deltas \subseteq Nat
  /\ Acts \in [0 .. (ColsRaw - 1) -> Int] /\ Stray \in Int

\* (cols_raw + 63) & !63
Cols == ((ColsRaw + WordBits - 1) \div WordBits) * WordBits
Elements == Rows * ColsRaw
NumBlocks == (Elements + BlockSize - 1) \div BlockSize

VARIABLES
  tier,     \* of the kernels in VTABLE: "Avx512Bw" or "Scalar"
  quants,   \* per element: the i8 in the file
  deltas,   \* per block: its scale in the file
  block,    \* block_idx of the packing loop
  pos, neg, \* the bit positions that are set in pos_mask and neg_mask
  scales,   \* scales
  out       \* the rows of the product computed so far

vars == <<tier, quants, deltas, block, pos, neg, scales, out>>

Init ==
  /\ tier \in {"Avx512Bw", "Scalar"}    \* detect_best_kernel
  /\ quants \in [0 .. (Elements - 1) -> Quants]
  /\ deltas \in [0 .. (NumBlocks - 1) -> Deltas]
  /\ block = 0
  /\ pos = {} /\ neg = {}
  /\ scales = <<>>
  /\ out = <<>>

-----------------------------------------------------------------------------
\* bit_pos of an element of the file.
BitPos_Unpadded(e) == e                 \* fault: cols_raw for cols
BitPos(e) == (e \div ColsRaw) * Cols + (e % ColsRaw)

\* The elements of a block; the last block may be cut short.
InBlock(b) == {e \in (b * BlockSize) .. (b * BlockSize + BlockSize - 1) : e < Elements}

RealWeight(e) == deltas[e \div BlockSize] * quants[e]

\* One turn of the packing loop.
PackBlock ==
  /\ block < NumBlocks
  /\ scales' = Append(scales, deltas[block])
  /\ pos' = pos \cup {BitPos(e) : e \in {x \in InBlock(block) : RealWeight(x) > 0}}
  /\ neg' = neg \cup {BitPos(e) : e \in {x \in InBlock(block) : RealWeight(x) < 0}}
  /\ block' = block + 1
  /\ UNCHANGED <<tier, quants, deltas, out>>

-----------------------------------------------------------------------------
\* The kernel loads whole words of activations, beyond the vector's end too.
Loaded == [c \in 0 .. (Cols - 1) |-> IF c \in DOMAIN Acts THEN Acts[c] ELSE Stray]

\* What a kernel makes of the two sums.  The scalar one is a stub.
Difference_Added(p, n) == p + n         \* fault: the sign of the negative mask
Difference(p, n) == IF tier = "Scalar" THEN 0 ELSE p - n

\* ternary_dot over the mask words of a row.
TernaryDot(acts, row) ==
  LET bits(mask) == {c \in 0 .. (Cols - 1) : row * Cols + c \in mask}
      sum(mask) == MapThenSumSet(LAMBDA c : acts[c], bits(mask))
  IN  Difference(sum(pos), sum(neg))

\* The scale of a row is the scale of the block its first element is in; 1
\* would stand for one that is missing.
RowScale_First(row) == scales[1]       \* fault: the offset of the row is left out
RowScale(row) ==
  LET at == (row * ColsRaw) \div BlockSize + 1
  IN  IF at \in DOMAIN scales THEN scales[at] ELSE 1

\* out_dim, which callers derive from the hyper-parameters, is the number of
\* rows of a tensor that has the shape those say.
ProjectRow ==
  /\ block = NumBlocks
  /\ Len(out) < Rows
  /\ out' = Append(out, TernaryDot(Loaded, Len(out)) * RowScale(Len(out)))
  /\ UNCHANGED <<tier, quants, deltas, block, pos, neg, scales>>

Next == PackBlock \/ ProjectRow

Spec == Init /\ [][Next]_vars

-----------------------------------------------------------------------------
\* The kernel looks for the weight of a row and a column in the words of that
\* row.  There the masks say of every weight packed so far whether it is
\* positive or negative, and no other bit is set: not in the padding of a row,
\* not for an element of a block that belongs to the next row, and not behind
\* the last word.
MasksExact ==
  /\ \A row \in 0 .. (Rows - 1), col \in 0 .. (Cols - 1) :
       LET e      == row * ColsRaw + col
           packed == col < ColsRaw /\ e < block * BlockSize
       IN  /\ row * Cols + col \in pos <=> packed /\ RealWeight(e) > 0
           /\ row * Cols + col \in neg <=> packed /\ RealWeight(e) < 0
  /\ pos \cup neg \subseteq 0 .. (Rows * Cols - 1)

\* The blocks a row has elements of.
BlocksOf(row) == {(row * ColsRaw + c) \div BlockSize : c \in 0 .. (ColsRaw - 1)}
OneScale(row) == \A b, d \in BlocksOf(row) : deltas[b] = deltas[d]

\* The product a row should have: every weight with its own block's scale.
Reference(row) ==
  MapThenSumSet(LAMBDA c : RealWeight(row * ColsRaw + c) * Acts[c], 0 .. (ColsRaw - 1))

\* For ternary quants, a row whose blocks have one scale gets the product of
\* its real weights from the AVX-512 kernel, whatever lies behind the
\* activation vector and whichever rows share its blocks.
RowsExact ==
  tier = "Avx512Bw" =>
    \A row \in 0 .. (Len(out) - 1) : OneScale(row) => out[row + 1] = Reference(row)
=============================================================================

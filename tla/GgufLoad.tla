------------------------------- MODULE GgufLoad -------------------------------
(***************************************************************************)
(* Loading a model: GgufParser::open reads the header (GgufHeader.tla),    *)
(* AegisTokenizer::from_gguf takes the vocabulary from it (Tokenizer.tla), *)
(* and AegisModel::load_gguf (src/src/gguf/weight_loader.rs) reads one     *)
(* tensor after the other into one scratch buffer and converts it.  The    *)
(* loaded model then encodes words.                                        *)
(*                                                                         *)
(* A byte is identified by its address in the file.  An element of a       *)
(* loaded tensor is the set of addresses of the bytes it was made from, so *)
(* that an element made from bytes that an earlier tensor left in the      *)
(* scratch buffer, or from behind it, can be told from a right one.        *)
(* Numbers are left out: a name counts only by the branch of the loop it   *)
(* selects.                                                                *)
(***************************************************************************)
EXTENDS GgufHeader, Tokenizer, FiniteSetsExt

CONSTANTS Files,        \* the model files: records, see FileAssumption
          BlockElems,   \* Q8_BLOCK_SIZE (32)
          BlockBytes,   \* Q8_BLOCK_BYTES (34): the scale, then one byte each
          FloatBytes    \* size_of::<f32>() (4)

ASSUME BlockAssumption ==
  /\ BlockElems \in Nat \ {0} /\ FloatBytes \in Nat \ {0}
  /\ BlockBytes \in Nat /\ BlockBytes > BlockElems
\* Words consist of characters that are tokens.
ASSUME FileAssumption ==
  \A f \in Files :
    IsHeader(f) /\ IsVocabulary(f.vocab) /\ f.words \subseteq Seq(Alphabet(f.vocab))

VARIABLES
  idx,      \* index of the next tensor
  scratch,  \* the scratch buffer: per byte the file address it was read from
  loaded,   \* per index of a weight or a norm: its elements, <<>> if not loaded
  embed     \* embed_table: the elements of every embedding

encoding == <<word, pieces>>
tensorVars == <<idx, scratch, loaded, embed>>
vars == <<file, outcome, header, tensorVars, encoding>>

Stray == -1       \* a byte no read has put there
Tensors == DOMAIN file.tensors
Info(t) == file.tensors[t]

Init ==
  /\ file \in Files
  /\ outcome = "preamble"
  /\ pos = 0
  /\ at = 1
  /\ idx = 1
  /\ scratch = <<>>
  /\ loaded = [t \in Tensors |-> <<>>]
  /\ embed = <<>>
  /\ word = <<>>
  /\ pieces = <<>>

ReadHeader == OpenStep /\ UNCHANGED <<tensorVars, encoding>>

-----------------------------------------------------------------------------
Dims(t) == Info(t).dims
Elems(t) ==
  LET product[n \in 0 .. Len(Dims(t))] ==
        IF n = 0 THEN 1 ELSE product[n - 1] * Dims(t)[n]
  IN  product[Len(Dims(t))]

\* tensor_byte_size.
ByteSize(t) ==
  LET n == Elems(t)
  IN  CASE Info(t).type = "F32"  -> n
        [] Info(t).type = "F16"  -> n * 2
        [] Info(t).type = "Q8_0" -> (n \div BlockElems) * BlockBytes
        [] OTHER                 -> 0

AbsOffset(t) == DataStart + Info(t).offset

\* read_tensor_into: the bytes of the tensor replace the first ones of the
\* scratch buffer.  The caller passes the byte size as the buffer's length.
CanRead(t) == ByteSize(t) = 0 \/ AbsOffset(t) + ByteSize(t) <= file.length
ReadTensor(t) ==
  [k \in DOMAIN scratch |-> IF k <= ByteSize(t) THEN AbsOffset(t) + k - 1 ELSE scratch[k]]

\* max_tensor_bytes.
ScratchLen == Max({ByteSize(t) : t \in Tensors} \cup {0})

\* The tokenizer, then the division by the number of heads, then the size of the
\* scratch buffer: each may fail.
SomeUnknown == \E t \in Tensors : Info(t).type = "unknown"

NotPrepared ==
  /\ outcome = "tokenizer"
  /\ \/ VocabularyMissing(file.vocab) /\ outcome' = "err"
     \/ VocabularyPanics(file.vocab) /\ outcome' = "panic"
     \/ ~ VocabularyMissing(file.vocab) /\ (Heads = 0 \/ SomeUnknown) /\ outcome' = "panic"
  /\ UNCHANGED <<file, header, tensorVars, encoding>>

Prepare ==
  /\ outcome = "tokenizer"
  /\ ~ VocabularyMissing(file.vocab) /\ ~ VocabularyPanics(file.vocab)
  /\ Heads # 0 /\ ~ SomeUnknown
  /\ scratch' = [k \in 1 .. ScratchLen |-> Stray]
  /\ outcome' = "tensors"
  /\ UNCHANGED <<file, header, idx, loaded, embed, encoding>>

-----------------------------------------------------------------------------
\* The elements that a conversion makes from a buffer, as sets of addresses.
Q8Elements(byte(_), n) ==
  [e \in 1 .. n |->
     LET base  == ((e - 1) \div BlockElems) * BlockBytes
         scale == BlockBytes - BlockElems
     IN  {byte(base + k) : k \in 1 .. scale}
           \cup {byte(base + scale + ((e - 1) % BlockElems) + 1)}]
F32Elements(byte(_), n) ==
  [e \in 1 .. n |-> {byte((e - 1) * FloatBytes + k) : k \in 1 .. FloatBytes}]

\* The unsafe slices over the buffer have no bounds check.
In(buffer, k) == IF k \in DOMAIN buffer THEN buffer[k] ELSE Stray

\* The branches of the loop that read tensor t.
Reads(t) ==
  \/ Info(t).kind \in {"embd", "norm"}
  \/ Info(t).kind = "weight" /\ Info(t).type = "Q8_0"

\* Tensors of other than one to three dimensions are read and then passed over.
\* Of a third dimension nothing is taken: rows * cols_raw elements.
HasShape(t) == Len(Dims(t)) \in 1 .. 3
Plane(t) == IF Len(Dims(t)) = 1 THEN Dims(t)[1] ELSE Dims(t)[1] * Dims(t)[2]

IsNorm(t) == Info(t).kind = "norm" /\ Info(t).type = "F32"
IsWeight(t) == Info(t).kind = "weight" /\ Info(t).type = "Q8_0" /\ HasShape(t)
IsEmbedding(t, type) == Info(t).kind = "embd" /\ Info(t).type = type /\ HasShape(t)

\* div_ceil: blocks that hold n elements.
Blocks(n) == (n + BlockElems - 1) \div BlockElems

\* What a norm or weight t is converted to, from the buffer after the read.
Converted(t, buffer) ==
  LET byte(k) == In(buffer, k)
  IN  IF IsNorm(t) THEN F32Elements(byte, ByteSize(t) \div FloatBytes)
      ELSE IF IsWeight(t) THEN Q8Elements(byte, Plane(t))
      ELSE <<>>

\* The embedding table after tensor t: the elements of its blocks, or its
\* floats, are appended; after blocks the whole table is cut to its size.
Embedded(t, buffer) ==
  LET byte(k) == In(buffer, k)
  IN  IF IsEmbedding(t, "Q8_0")
        THEN SubSeq(embed \o Q8Elements(byte, Blocks(Plane(t)) * BlockElems), 1, Plane(t))
      ELSE IF IsEmbedding(t, "F32") THEN embed \o F32Elements(byte, Plane(t))
      ELSE embed

\* The assertion of q8_blocks_to_ternary_bitmasks on the length of its input.
RawMatches_Any(t) == TRUE                         \* fault: the assertion is left out
RawMatches(t) == ByteSize(t) = Blocks(Plane(t)) * BlockBytes

Loading == outcome = "tensors" /\ idx <= Len(file.tensors)

SkipTensor ==
  /\ Loading
  /\ ~ Reads(idx)
  /\ idx' = idx + 1
  /\ UNCHANGED <<file, outcome, header, scratch, loaded, embed, encoding>>

ReadFails ==
  /\ Loading
  /\ Reads(idx) /\ ~ CanRead(idx)
  /\ outcome' = "err"
  /\ UNCHANGED <<file, header, tensorVars, encoding>>

LoadTensor ==
  /\ Loading
  /\ Reads(idx) /\ CanRead(idx)
  /\ scratch' = ReadTensor(idx)
  /\ IF IsWeight(idx) /\ ~ RawMatches(idx)
       THEN outcome' = "panic" /\ UNCHANGED <<idx, loaded, embed>>
       ELSE /\ loaded' = [loaded EXCEPT ![idx] = Converted(idx, ReadTensor(idx))]
            /\ embed' = Embedded(idx, ReadTensor(idx))
            /\ idx' = idx + 1
            /\ UNCHANGED outcome
  /\ UNCHANGED <<file, header, encoding>>

Finish ==
  /\ outcome = "tensors"
  /\ idx > Len(file.tensors)
  /\ outcome' = "ok"
  /\ UNCHANGED <<file, header, tensorVars, encoding>>

\* encode, for one of the words that callers will submit.
EncodeWord ==
  /\ outcome = "ok"
  /\ word = <<>>
  /\ word' \in file.words
  /\ pieces' = Characters(word')
  /\ UNCHANGED <<file, outcome, header, tensorVars>>

EncodeStep ==
  /\ outcome = "ok"
  /\ MergeBest(file.vocab)
  /\ UNCHANGED <<file, outcome, header, tensorVars>>

LoadStep == NotPrepared \/ Prepare \/ SkipTensor \/ ReadFails \/ LoadTensor \/ Finish

Next == ReadHeader \/ LoadStep \/ EncodeWord \/ EncodeStep

Spec == Init /\ [][Next]_vars

-----------------------------------------------------------------------------
\* A header that is accepted was read to its last byte and no further, whatever
\* values of whatever nested types it holds: a value skipped with a wrong width
\* would shift everything behind it.  The tensors are looked for where the
\* writer put them, and a number of heads that is stated as a natural number is
\* taken over.
HeaderExact ==
  outcome \in {"tokenizer", "tensors", "ok"} =>
    /\ pos = WrittenHeader
    /\ Alignment \in PowersOfTwo => DataStart = WrittenDataStart
    /\ LET stated == PairsWith("llama.heads") \cup PairsWith("bitnet.heads")
           first == file.pairs[Min(stated)].value
       IN  stated # {} /\ first.type \in {4, 5, 10} /\ first.num \in Nat
             /\ (\A k \in stated : file.pairs[k].value = first)
             => Heads = first.num

\* Where the bytes of tensor t are, by the layout of the format.
OwnByte(t, k) == WrittenDataStart + Info(t).offset + k - 1

OnlyEmbedding(t, type) ==
  IsEmbedding(t, type) /\ \A u \in Tensors : Info(u).kind = "embd" => u = t

\* A model that loads has every Q8_0 weight, as many elements as its first two
\* dimensions say, each made from its own bytes and scale in the file.  All
\* tensors pass through one buffer that still holds bytes of the previous ones;
\* a weight with a block that byte_size leaves out is refused, not completed
\* from them.  An embedding is not refused: it has its size, and every element
\* of the blocks that were read is its own.
Q8Complete ==
  outcome = "ok" /\ Alignment \in PowersOfTwo =>
    \A t \in Tensors :
      LET own(k) == OwnByte(t, k)
      IN  /\ IsWeight(t) => loaded[t] = Q8Elements(own, Plane(t))
          /\ OnlyEmbedding(t, "Q8_0") =>
               /\ Len(embed) = Plane(t)
               /\ \A e \in 1 .. Plane(t) :
                    e <= (Elems(t) \div BlockElems) * BlockElems =>
                      embed[e] = Q8Elements(own, Plane(t))[e]

\* "F32: 4 bytes, but n_elements * 4 after" (parser.rs:152): the norms of a
\* model that loads, and its only embedding, have all their F32 elements.
F32Complete ==
  outcome = "ok" /\ Alignment \in PowersOfTwo =>
    \A t \in Tensors :
      LET own(k) == OwnByte(t, k)
      IN  /\ IsNorm(t) => loaded[t] = F32Elements(own, Elems(t))
          /\ OnlyEmbedding(t, "F32") => embed = F32Elements(own, Plane(t))

\* "Reconstructs SentencePiece BPE merges" (README.md:67): a word is cut into
\* the tokens that the vocabulary's own model cuts it into, whatever the order
\* of tokens and scores, if each merge in its derivation has a rule: the token
\* it makes is made from the first of its splits, and is not in brackets.
AsSentencePieceIfRuled ==
  word # <<>> /\ Encoded(file.vocab) /\ DistinctScores(file.vocab) =>
    LET sp == SentencePiece(file.vocab, word)
    IN  sp.ruled => pieces = sp.pieces
=============================================================================

------------------------------ MODULE GgufHeader ------------------------------
(***************************************************************************)
(* GgufParser::open (src/src/gguf/parser.rs) and the metadata that         *)
(* AegisModel::load_gguf looks up (src/src/gguf/weight_loader.rs).  The    *)
(* parser walks over key-value pairs and tensor descriptions of variable   *)
(* length; where it ends decides where it looks for every tensor.          *)
(*                                                                         *)
(* A file is a record of what its writer put into it; the parser keeps a   *)
(* position.  Bytes themselves are left out, widths are not.  Of the keys  *)
(* only those are told apart that a decision depends on; the number of     *)
(* heads stands for the five parameters that are looked up alike.          *)
(***************************************************************************)
EXTENDS Integers, Sequences, SequencesExt

CONSTANTS Values,             \* the metadata values that occur in the files
          DefaultAlignment,   \* GGUF_ALIGNMENT (32)
          DefaultHeads,       \* the default of the number of heads (32)
          U64                 \* 2^64

\* Of a value: its type, its number (of a string: its length), for an array
\* the type of its elements, the elements, and how deep arrays are nested.
ASSUME ValueAssumption ==
  \A v \in Values :
    /\ v.type \in Nat /\ v.num \in Int
    /\ v.type \in {4, 8, 10} => v.num \in 0 .. (U64 - 1)
    /\ v.type = 5 => v.num \in (1 - U64) .. (U64 - 1)
    /\ v.depth \in Nat
    /\ v.items \in Seq(Values)
    /\ \A k \in DOMAIN v.items :
         v.items[k].type = v.of /\ v.items[k].depth < v.depth
ASSUME AlignmentAssumption == DefaultAlignment \in Nat \ {0} /\ U64 \in Nat \ {0}

VARIABLES
  file,     \* the file that is loaded
  outcome,  \* the stage of loading, or how it ended: "ok", "err", "panic"
  pos,      \* stream position
  at        \* index of the next pair, then of the next tensor description

header == <<pos, at>>

Keys == {"general.alignment", "llama.heads", "bitnet.heads", "other"}

Kinds == {"embd", "norm", "weight", "other"}
\* F16 stands for every type that has a size but no conversion, "unknown" for
\* those tensor_byte_size panics on.
Types == {"F32", "F16", "Q8_0", "unknown"}

PairRecords == [key : Keys, keyLen : Nat, value : Values]
\* No dimension is 0.
InfoRecords ==
  [kind : Kinds, type : Types, dims : Seq(Nat \ {0}), nameLen : Nat, offset : Nat]

IsHeader(f) ==
  /\ f.magic \in BOOLEAN
  /\ f.pairs \in Seq(PairRecords)
  /\ f.tensors \in Seq(InfoRecords)
  /\ f.length \in Nat

-----------------------------------------------------------------------------
\* read_metadata_value: the bytes a value takes, unless its type, or that of
\* an element, is unknown.
Width_Narrow(type) ==      \* fault: 64-bit values are read as 32-bit ones
  CASE type \in {0, 1, 7} -> 1
    [] type \in {2, 3} -> 2
    [] OTHER -> 4
Width(type) ==
  CASE type \in {0, 1, 7} -> 1
    [] type \in {2, 3} -> 2
    [] type \in {4, 5, 6} -> 4
    [] OTHER -> 8

ValueBytes[v \in Values] ==
  IF v.type = 8 THEN 8 + v.num
  ELSE IF v.type = 9 THEN 12 + SumFunction([k \in DOMAIN v.items |-> ValueBytes[v.items[k]]])
  ELSE Width(v.type)

Readable[v \in Values] ==
  v.type \in 0 .. 12 /\ (v.type = 9 => \A k \in DOMAIN v.items : Readable[v.items[k]])

\* read_exact
Fits(n) == pos + n <= file.length
Take(n) == Fits(n) /\ pos' = pos + n

PreambleBytes == 24         \* magic, version, tensor_count, kv_count
PairBytes(p) == 8 + p.keyLen + 4 + ValueBytes[p.value]
InfoBytes(t) == 8 + t.nameLen + 4 + 8 * Len(t.dims) + 4 + 8

Pair == file.pairs[at]
PairsLeft == outcome = "pairs" /\ at <= Len(file.pairs)
InfosLeft == outcome = "infos" /\ at <= Len(file.tensors)

ReadPreamble ==
  /\ outcome = "preamble"
  /\ file.magic
  /\ Take(PreambleBytes)
  /\ outcome' = "pairs"
  /\ UNCHANGED at

ReadPair ==
  /\ PairsLeft
  /\ Readable[Pair.value]
  /\ Take(PairBytes(Pair))
  /\ at' = at + 1
  /\ UNCHANGED outcome

PairsDone ==
  /\ outcome = "pairs" /\ ~ PairsLeft
  /\ outcome' = "infos"
  /\ at' = 1
  /\ UNCHANGED pos

ReadInfo ==
  /\ InfosLeft
  /\ Take(InfoBytes(file.tensors[at]))
  /\ at' = at + 1
  /\ UNCHANGED outcome

InfosDone ==
  /\ outcome = "infos" /\ ~ InfosLeft
  /\ outcome' = "tokenizer"
  /\ UNCHANGED <<pos, at>>

\* The error exits: a wrong magic number, an unknown type, the end of the file.
HeaderFails ==
  /\ \/ outcome = "preamble" /\ (file.magic => ~ Fits(PreambleBytes))
     \/ PairsLeft /\ (Readable[Pair.value] => ~ Fits(PairBytes(Pair)))
     \/ InfosLeft /\ ~ Fits(InfoBytes(file.tensors[at]))
  /\ outcome' = "err"
  /\ UNCHANGED <<pos, at>>

-----------------------------------------------------------------------------
\* The metadata are a hash map: of pairs with the same key the last one stays.
PairsWith(key) == {k \in DOMAIN file.pairs : file.pairs[k].key = key}
Lookup(key) == file.pairs[Max(PairsWith(key))].value

\* Only a 32-bit unsigned value is taken for the alignment.
Alignment ==
  IF PairsWith("general.alignment") # {} /\ Lookup("general.alignment").type = 4
    THEN Lookup("general.alignment").num
    ELSE DefaultAlignment

\* The bits that two numbers have in common.
BitAnd[p \in Nat \X Nat] ==
  IF p[1] = 0 THEN 0
  ELSE 2 * BitAnd[<<p[1] \div 2, p[2] \div 2>>] + (p[1] % 2) * (p[2] % 2)

\* data_start: (pos + (a - 1)) & !(a - 1)
RoundUp(a) ==
  LET mask == a - 1
      end == pos + mask
  IN  end - BitAnd[<<end, mask>>]

\* With an alignment of 0 the subtraction underflows: it panics in a build with
\* overflow checks; in one without, the mask is all ones and its complement 0.
DataStart == IF Alignment = 0 THEN 0 ELSE RoundUp(Alignment)

AlignmentPanics ==
  /\ outcome = "infos" /\ ~ InfosLeft
  /\ Alignment = 0
  /\ outcome' = "panic"
  /\ UNCHANGED <<pos, at>>

OpenStep ==
  /\ \/ ReadPreamble \/ ReadPair \/ PairsDone \/ ReadInfo \/ InfosDone
     \/ HeaderFails \/ AlignmentPanics
  /\ UNCHANGED file

\* extract_int reads three types; a negative 32-bit value wraps around.  The
\* second key counts only if the first one is absent.
ExtractInt(v) == IF v.type \in {4, 5, 10} THEN v.num % U64 ELSE DefaultHeads
Heads ==
  IF PairsWith("llama.heads") # {} THEN ExtractInt(Lookup("llama.heads"))
  ELSE IF PairsWith("bitnet.heads") # {} THEN ExtractInt(Lookup("bitnet.heads"))
  ELSE DefaultHeads

-----------------------------------------------------------------------------
\* The reference: widths of the types by the GGUF format, and where a writer
\* that follows it ends the header.
FormatWidth == <<1, 1, 2, 2, 4, 4, 4, 1, 0, 0, 8, 8, 8>>

FormatBytes[v \in Values] ==
  FormatWidth[v.type + 1]
    + (IF v.type = 8 THEN 8 + v.num ELSE 0)
    + (IF v.type = 9 THEN 4 + 8 + SumFunction([k \in DOMAIN v.items |->
                                                 FormatBytes[v.items[k]]]) ELSE 0)

WrittenHeader ==
  4 + 4 + 8 + 8
    + SumFunction([k \in DOMAIN file.pairs |->
        8 + file.pairs[k].keyLen + 4 + FormatBytes[file.pairs[k].value]])
    + SumFunction([t \in DOMAIN file.tensors |->
        8 + file.tensors[t].nameLen + 4 + Len(file.tensors[t].dims) * 8 + 4 + 8])

\* The next multiple of the alignment.
WrittenDataStart ==
  CHOOSE s \in WrittenHeader .. (WrittenHeader + Alignment - 1) : s % Alignment = 0

\* Up to the largest one that TLC can hold.
Power[k \in Nat] == IF k = 0 THEN 1 ELSE 2 * Power[k - 1]
PowersOfTwo == {Power[k] : k \in 0 .. 30}
=============================================================================

------------------------------ MODULE MCGgufLoad ------------------------------
(* Small instances of GgufLoad.tla for TLC: blocks of 2 elements in 3 bytes,   *)
(* floats of 4 bytes.                                                          *)
EXTENDS GgufLoad

-----------------------------------------------------------------------------
\* Headers: values of every type, and pairs of keys that matter.
V(type, num) == [type |-> type, num |-> num, of |-> 0, items |-> <<>>, depth |-> 0]
Nested(of, items, depth) ==
  [type |-> 9, num |-> 0, of |-> of, items |-> items, depth |-> depth]
Arr(of, items) == Nested(of, items, 1)
P(key, keyLen, v) == [key |-> key, keyLen |-> keyLen, value |-> v]

SomeValues == {V(t, 3) : t \in (0 .. 13) \ {9}}
                \cup {Arr(t, <<V(t, 2), V(t, 0)>>) : t \in {2, 5, 8, 11, 13}}
                \cup {Nested(9, <<Arr(7, <<V(7, 1)>>), Arr(13, <<>>)>>, 2)}

Alignments == {P("general.alignment", 17, v) : v \in {V(4, 16), V(4, 24), V(4, 0), V(10, 16)}}
HeadCounts == {P(key, 11, v) : key \in {"llama.heads", "bitnet.heads"},
                           v \in {V(4, 7), V(4, 0), V(5, 9), V(5, -9), V(10, 7), V(2, 7)}}

SomePairs == {<<P("other", 5, v)>> : v \in SomeValues}
               \cup {<<a, b>> : a, b \in Alignments}
               \cup {<<a, b>> : a, b \in HeadCounts}

\* The values of the pairs with their elements.
Items(vs) == UNION {Range(v.items) : v \in vs}
PairValues == {ps[1].value : ps \in SomePairs} \cup {ps[Len(ps)].value : ps \in SomePairs}
AllValues == PairValues \cup Items(PairValues) \cup Items(Items(PairValues))

-----------------------------------------------------------------------------
\* Tensors: pairs, the second one at the next multiple of 16.
T(kind, type, dims, offset) ==
  [kind |-> kind, type |-> type, dims |-> dims, nameLen |-> 6, offset |-> offset]

\* Of one to four dimensions, with whole blocks and without.
Shapes == {<<"embd", "Q8_0", <<2, 2>>>>, <<"embd", "Q8_0", <<3, 1>>>>,
           <<"embd", "Q8_0", <<1, 3, 2>>>>, <<"embd", "F32", <<2>>>>, <<"embd", "F16", <<1, 2>>>>,
           <<"norm", "F32", <<4>>>>, <<"norm", "F16", <<2>>>>,
           <<"weight", "Q8_0", <<2>>>>, <<"weight", "Q8_0", <<2, 2>>>>,
           <<"weight", "Q8_0", <<3, 1>>>>, <<"weight", "Q8_0", <<1, 2, 2>>>>,
           <<"weight", "Q8_0", <<2, 2, 1>>>>, <<"weight", "Q8_0", <<1, 2, 1, 2>>>>,
           <<"weight", "F16", <<2, 1>>>>, <<"other", "F32", <<2>>>>,
           <<"weight", "unknown", <<1, 2>>>>}

Two == {<<T(a[1], a[2], a[3], 0), T(b[1], b[2], b[3], 16)>> : a, b \in Shapes}
One == <<T("weight", "Q8_0", <<2>>, 0)>>

-----------------------------------------------------------------------------
\* Vocabularies: three special tokens, characters, and tokens made of them in
\* every order of scores; bracketed tokens; and vocabularies without scores.
Special == <<<<"unk">>, <<"bos">>, <<"eos">>>>
Chars(cs) == [k \in DOMAIN cs |-> <<cs[k]>>]
Vocab(tokens, scores, types) ==
  [present |-> TRUE, tokens |-> tokens, scores |-> scores, types |-> types]

Plain == Vocab(Special, {}, {})
Ranked(cs, compounds, order) ==
  Vocab(Special \o Chars(cs) \o compounds,
        {[k \in 1 .. (3 + Len(cs)) |-> 0] \o order}, {})
Orders(n) == {o \in [1 .. n -> 1 .. n] : IsInjective(o)}

Chains == <<<<"a", "b">>, <<"b", "c">>, <<"a", "b", "c">>, <<"c", "a">>>>
Repeats == <<<<"a", "b">>, <<"b", "a">>, <<"a", "b", "a">>, <<"a", "a">>>>
Tags == <<<<"<", "a">>, <<"a", ">">>, <<"<", "a", ">">>>>

BadVocabs == {[Plain EXCEPT !.present = FALSE],
              Vocab(Special, {<<0, 0>>}, {}),
              Vocab(Special, {}, {<<1, 1>>}),
              Vocab(SubSeq(Special, 1, 2), {}, {})}

WordsOf(cs) == {w \in BoundedSeq(Range(cs), 4) : Len(w) > 1}

-----------------------------------------------------------------------------
File(magic, pairs, tensors, vocab, words, length) ==
  [magic |-> magic, pairs |-> pairs, tensors |-> tensors, vocab |-> vocab,
   words |-> words, length |-> length]

\* Files that differ in the header, also ones that end within it; in their
\* tensors, also ones that end within them; in the vocabulary; and no GGUF file.
AllFiles ==
  {File(TRUE, ps, One, Plain, {}, l) : ps \in SomePairs, l \in {20, 40, 75, 400}}
    \cup {File(TRUE, <<a>>, ts, Plain, {}, l) : a \in Alignments, ts \in Two, l \in {200, 400}}
    \cup {File(TRUE, <<>>, <<>>, v, {}, 24) : v \in BadVocabs}
    \cup {File(FALSE, <<>>, One, Plain, {}, 400)}

WordFile(v, cs) == File(TRUE, <<>>, <<>>, v, WordsOf(cs), 24)

WordFiles ==
  {WordFile(Ranked(<<"a", "b", "c">>, Chains, o), <<"a", "b", "c">>) : o \in Orders(4)}
    \cup {WordFile(Ranked(<<"a", "b">>, Repeats, o), <<"a", "b">>) : o \in Orders(4)}
    \cup {WordFile(Ranked(<<"<", "a", ">">>, Tags, o), <<"<", "a", ">">>) : o \in Orders(3)}
    \cup {WordFile(Vocab(Special \o Chars(<<"a", "b">>) \o Repeats, {}, {}), <<"a", "b">>)}

EveryFile == AllFiles \cup WordFiles
=============================================================================

------------------------------- MODULE Tokenizer -------------------------------
(***************************************************************************)
(* AegisTokenizer (src/src/tokenizer/mod.rs): what from_gguf accepts, the  *)
(* merges it reconstructs from the scores, and the merging of one word.    *)
(*                                                                         *)
(* A GGUF file holds the pieces of a SentencePiece model with their        *)
(* scores, but no merges; the tokenizers crate wants a ranked list of      *)
(* merges.  The crate is external: it merges the adjacent pair of the best *)
(* rank, leftmost first, until no pair has a rule.  Cutting a text into    *)
(* words, the byte fallback for characters that no token has, and the BOS  *)
(* token that encode puts in front are left out.                           *)
(*                                                                         *)
(* A token is a sequence of characters.  Special tokens such as "</s>" are *)
(* one character here: no word holds them.                                 *)
(***************************************************************************)
EXTENDS Integers, Sequences, SequencesExt

CONSTANTS Open, Close     \* the characters '<' and '>'

VARIABLES
  word,     \* the word that is encoded
  pieces    \* the tokens it consists of so far

\* A vocabulary as the metadata give it.  Scores and types are optional: a set
\* of at most one sequence.
IsVocabulary(v) ==
  /\ v.present \in BOOLEAN                      \* tokenizer.ggml.tokens
  /\ v.tokens \in Seq(Seq(Range(FlattenSeq(v.tokens)) \cup {Open, Close}))
  /\ IsInjective(v.tokens)
  /\ \A s \in v.scores : s \in Seq(Int)
  /\ \A s \in v.types : s \in Seq(Int)

TokenSet(v) == Range(v.tokens)
Alphabet(v) == {c \in Range(FlattenSeq(v.tokens)) : <<c>> \in TokenSet(v)}
Ids(v) == DOMAIN v.tokens

-----------------------------------------------------------------------------
\* What is missing is made up for.
Scores(v) ==
  IF v.scores = {} THEN [id \in Ids(v) |-> 0] ELSE CHOOSE s \in v.scores : TRUE
TokenTypes(v) ==
  IF v.types = {} THEN [id \in Ids(v) |-> 1] ELSE CHOOSE s \in v.types : TRUE

\* from_gguf: an assertion on the scores, the look-up of every token's type,
\* and the indices of the three special tokens.
VocabularyMissing(v) == ~ v.present
VocabularyPanics(v) ==
  /\ v.present
  /\ \/ Len(v.tokens) # Len(Scores(v))
     \/ Len(TokenTypes(v)) < Len(v.tokens)
     \/ Len(v.tokens) < 3

-----------------------------------------------------------------------------
\* reconstruct_merges_from_scores: one rule for each token of two characters
\* or more that is not in angle brackets, the first way to split it into two
\* tokens.
InBrackets(token) == token[1] = Open /\ Last(token) = Close
Left(token, k) == SubSeq(token, 1, k)
Right(token, k) == SubSeq(token, k + 1, Len(token))
Splits(v, token) ==
  {k \in 1 .. (Len(token) - 1) :
     Left(token, k) \in TokenSet(v) /\ Right(token, k) \in TokenSet(v)}
HasRule(v, token) ==
  token \in TokenSet(v) /\ Splits(v, token) # {} /\ ~ InBrackets(token)
IsRule(v, left, right) ==
  HasRule(v, left \o right) /\ Len(left) = Min(Splits(v, left \o right))

\* The stable sort by falling score: the rule that makes token a has a better
\* rank than the one that makes token b.
IdOf(v, token) == CHOOSE id \in Ids(v) : v.tokens[id] = token
Better_ById(v, a, b) == IdOf(v, a) < IdOf(v, b)      \* fault: not sorted
Better(v, a, b) ==
  LET s == Scores(v)
      i == IdOf(v, a)
      j == IdOf(v, b)
  IN  s[i] > s[j] \/ (s[i] = s[j] /\ i < j)

-----------------------------------------------------------------------------
Characters(w) == [k \in DOMAIN w |-> <<w[k]>>]
Joined(ps, k) == ps[k] \o ps[k + 1]
MergedAt(ps, k) == SubSeq(ps, 1, k - 1) \o <<Joined(ps, k)>> \o SubSeq(ps, k + 2, Len(ps))

\* External: where the crate can merge, and where it does.
Mergeable(v, ps) == {k \in 1 .. (Len(ps) - 1) : IsRule(v, ps[k], ps[k + 1])}
IsBestMerge(v, ps, k) ==
  /\ k \in Mergeable(v, ps)
  /\ \A j \in Mergeable(v, ps) \ {k} :
       \/ Better(v, Joined(ps, k), Joined(ps, j))
       \/ Joined(ps, k) = Joined(ps, j) /\ k < j

MergeBest(v) ==
  /\ \E k \in Mergeable(v, pieces) :
       IsBestMerge(v, pieces, k) /\ pieces' = MergedAt(pieces, k)
  /\ UNCHANGED word

Encoded(v) == pieces # <<>> /\ Mergeable(v, pieces) = {}

-----------------------------------------------------------------------------
\* The reference, SentencePiece itself: merge the adjacent pair that makes the
\* token of the highest score, leftmost first, whatever the tokens of the
\* pair.  With it, whether every merge was one that has a rule.
Makes(v, ps) == {k \in 1 .. (Len(ps) - 1) : Joined(ps, k) \in TokenSet(v)}
ScoreAt(v, ps, k) == Scores(v)[IdOf(v, Joined(ps, k))]

DeriveStep(v, d) ==
  LET ps == d.pieces
      top == {k \in Makes(v, ps) : \A j \in Makes(v, ps) : ScoreAt(v, ps, k) >= ScoreAt(v, ps, j)}
      k == Min(top)
  IN  IF Makes(v, ps) = {} THEN d
      ELSE [pieces |-> MergedAt(ps, k), ruled |-> d.ruled /\ IsRule(v, ps[k], ps[k + 1])]

\* A word of n characters is derived after n steps.
Derivation(v, w) ==
  LET derived[n \in 0 .. Len(w)] ==
        IF n = 0 THEN [pieces |-> Characters(w), ruled |-> TRUE]
        ELSE DeriveStep(v, derived[n - 1])
  IN  derived
SentencePiece(v, w) == Derivation(v, w)[Len(w)]

\* SentencePiece gives every token that it has learned a score of its own.
Learned(v) == {id \in Ids(v) : Len(v.tokens[id]) > 1}
DistinctScores(v) == IsInjective(Restrict(Scores(v), Learned(v)))
=============================================================================

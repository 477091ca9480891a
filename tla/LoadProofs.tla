------------------------------ MODULE LoadProofs ------------------------------
(***************************************************************************)
(* Proofs about GgufLoad.tla: for any files, block sizes and vocabularies. *)
(***************************************************************************)
EXTENDS GgufLoad, CommonLemmas, SequenceTheorems

-----------------------------------------------------------------------------
(***************************************************************************)
(* The metadata values.  Their sizes are defined by recursion over the     *)
(* depth to which arrays are nested.                                       *)
(***************************************************************************)
Shallower == {p \in Values \X Values : p[1].depth < p[2].depth}

LEMMA ShallowerWellFounded == IsWellFoundedOn(Shallower, Values)
  <1> SUFFICES ASSUME NEW f \in [Nat -> Values], \A n \in Nat : <<f[n + 1], f[n]>> \in Shallower
               PROVE  FALSE
    BY DEF IsWellFoundedOn
  <1> DEFINE g == [n \in Nat |-> f[n].depth]
  <1>1. g \in [Nat -> Nat]
    BY ValueAssumption
  <1>2. \A n \in Nat : <<g[n + 1], g[n]>> \in OpToRel(<, Nat)
    <2>1. \A n \in Nat : f[n + 1].depth < f[n].depth
      BY DEF Shallower
    <2> QED BY <1>1, <2>1 DEF OpToRel
  <1> QED BY <1>1, <1>2, NatLessThanWellFounded DEF IsWellFoundedOn

LEMMA ItemsFacts ==
  ASSUME NEW v \in Values
  PROVE  /\ IsFiniteSet(DOMAIN v.items)
         /\ \A k \in DOMAIN v.items :
              /\ v.items[k] \in Values
              /\ v.items[k] \in SetLessThan(v, Shallower, Values)
              /\ v.items[k].type = v.of
              /\ v.items[k].depth < v.depth
  <1>1. v.items \in Seq(Values)
    BY ValueAssumption
  <1>2. DOMAIN v.items = 1 .. Len(v.items) /\ Len(v.items) \in Nat
    BY <1>1
  <1>3. \A k \in DOMAIN v.items : v.items[k] \in Values
    BY <1>1
  <1>4. IsFiniteSet(DOMAIN v.items)
    BY <1>2, FS_Interval
  <1>5. \A k \in DOMAIN v.items : v.items[k].type = v.of /\ v.items[k].depth < v.depth
    BY ValueAssumption
  <1>6. \A k \in DOMAIN v.items : v.items[k] \in SetLessThan(v, Shallower, Values)
    BY <1>3, <1>5 DEF SetLessThan, Shallower
  <1> QED BY <1>3, <1>4, <1>5, <1>6

\* The bytes of an array's elements.
ItemsBytes(f, v) == SumFunction([k \in DOMAIN v.items |-> f[v.items[k]]])

LEMMA ItemsBytesDef ==
  ASSUME NEW g, NEW h, NEW v \in Values,
         \A y \in SetLessThan(v, Shallower, Values) : g[y] = h[y]
  PROVE  ItemsBytes(g, v) = ItemsBytes(h, v)
  <1>1. \A k \in DOMAIN v.items : g[v.items[k]] = h[v.items[k]]
    BY ItemsFacts
  <1> QED BY <1>1 DEF ItemsBytes

ReadBytes(f, v) ==
  IF v.type = 8 THEN 8 + v.num
  ELSE IF v.type = 9 THEN 12 + ItemsBytes(f, v)
  ELSE Width(v.type)

LEMMA ValueBytesDef == \A v \in Values : ValueBytes[v] = ReadBytes(ValueBytes, v)
  <1> DEFINE Def(g, v) == ReadBytes(g, v)
  <1>1. WFDefOn(Shallower, Values, Def)
    BY ItemsBytesDef DEF WFDefOn, ReadBytes
  <1>2. OpDefinesFcn(ValueBytes, Values, Def)
    BY DEF OpDefinesFcn, ValueBytes, ReadBytes, ItemsBytes
  <1> HIDE DEF Def
  <1>3. WFInductiveDefines(ValueBytes, Values, Def)
    BY <1>1, <1>2, ShallowerWellFounded, WFInductiveDef
  <1> QED BY <1>3 DEF WFInductiveDefines, Def

FormatSize(f, v) ==
  FormatWidth[v.type + 1]
    + (IF v.type = 8 THEN 8 + v.num ELSE 0)
    + (IF v.type = 9 THEN 4 + 8 + ItemsBytes(f, v) ELSE 0)

LEMMA FormatBytesDef == \A v \in Values : FormatBytes[v] = FormatSize(FormatBytes, v)
  <1> DEFINE Def(g, v) == FormatSize(g, v)
  <1>1. WFDefOn(Shallower, Values, Def)
    BY ItemsBytesDef DEF WFDefOn, FormatSize
  <1>2. OpDefinesFcn(FormatBytes, Values, Def)
    BY DEF OpDefinesFcn, FormatBytes, FormatSize, ItemsBytes
  <1> HIDE DEF Def
  <1>3. WFInductiveDefines(FormatBytes, Values, Def)
    BY <1>1, <1>2, ShallowerWellFounded, WFInductiveDef
  <1> QED BY <1>3 DEF WFInductiveDefines, Def

CanBeRead(f, v) ==
  v.type \in 0 .. 12 /\ (v.type = 9 => \A k \in DOMAIN v.items : f[v.items[k]])

LEMMA ReadableDef == \A v \in Values : Readable[v] = CanBeRead(Readable, v)
  <1> DEFINE Def(g, v) == CanBeRead(g, v)
  <1>1. WFDefOn(Shallower, Values, Def)
    BY ItemsFacts DEF WFDefOn, CanBeRead
  <1>2. OpDefinesFcn(Readable, Values, Def)
    BY DEF OpDefinesFcn, Readable, CanBeRead
  <1> HIDE DEF Def
  <1>3. WFInductiveDefines(Readable, Values, Def)
    BY <1>1, <1>2, ShallowerWellFounded, WFInductiveDef
  <1> QED BY <1>3 DEF WFInductiveDefines, Def

\* The widths of the parser are those of the format.
LEMMA Widths ==
  ASSUME NEW type \in 0 .. 12
  PROVE  /\ type \notin {8, 9} => FormatWidth[type + 1] = Width(type)
         /\ type \in {8, 9} => FormatWidth[type + 1] = 0
         /\ Width(type) \in Nat
  <1>1. Width(type) \in Nat
    BY DEF Width
  <1>2. CASE type \in 0 .. 5
    BY <1>1, <1>2 DEF FormatWidth, Width
  <1>3. CASE type \in 6 .. 12
    BY <1>1, <1>3 DEF FormatWidth, Width
  <1> QED BY <1>2, <1>3

\* A value that is read takes the bytes that the format says.
LEMMA ValueBytesExact ==
  ASSUME NEW v \in Values, Readable[v]
  PROVE  ValueBytes[v] \in Nat /\ FormatBytes[v] = ValueBytes[v]
  <1> DEFINE Exact(x) == Readable[x] => ValueBytes[x] \in Nat /\ FormatBytes[x] = ValueBytes[x]
             Bad == {x \in Values : ~ Exact(x)}
  <1> SUFFICES ASSUME Bad # {} PROVE FALSE
    OBVIOUS
  <1>1. PICK x \in Bad : \A y \in Bad : ~ (<<y, x>> \in Shallower)
    <2>1. Bad \subseteq Values /\ Bad # {}
      OBVIOUS
    <2> HIDE DEF Bad
    <2> QED BY <2>1, ShallowerWellFounded, WFMin
  <1>2. x \in Values /\ Readable[x] /\ ~ Exact(x)
    BY <1>1
  <1>3. x.type \in 0 .. 12 /\ (x.type = 9 => \A k \in DOMAIN x.items : Readable[x.items[k]])
    BY <1>2, ReadableDef DEF CanBeRead
  <1>4. ValueBytes[x] = ReadBytes(ValueBytes, x) /\ FormatBytes[x] = FormatSize(FormatBytes, x)
    BY <1>2, ValueBytesDef, FormatBytesDef
  <1>5. CASE x.type = 9
    <2>1. \A k \in DOMAIN x.items : x.items[k] \in Values /\ Readable[x.items[k]] /\ Exact(x.items[k])
      <3>1. \A k \in DOMAIN x.items : x.items[k] \in Values /\ <<x.items[k], x>> \in Shallower
        BY <1>2, ItemsFacts DEF Shallower
      <3>2. \A k \in DOMAIN x.items : x.items[k] \notin Bad
        BY <1>1, <3>1
      <3> QED BY <1>3, <1>5, <3>1, <3>2
    <2> DEFINE table == [k \in DOMAIN x.items |-> ValueBytes[x.items[k]]]
    <2>2. ItemsBytes(FormatBytes, x) = SumFunction(table)
      <3>1. table = [k \in DOMAIN x.items |-> FormatBytes[x.items[k]]]
        BY <2>1
      <3> QED BY <3>1 DEF ItemsBytes
    <2>3. ItemsBytes(ValueBytes, x) = SumFunction(table)
      BY DEF ItemsBytes
    <2>4. SumFunction(table) \in Nat
      <3>1. IsFiniteSet(DOMAIN table) /\ \A k \in DOMAIN table : table[k] \in Nat
        BY <1>2, <2>1, ItemsFacts
      <3> HIDE DEF table
      <3> QED BY <3>1, SumFunctionIsTotal, TotalOfNats
    <2>5. FormatWidth[x.type + 1] = 0
      BY <1>3, <1>5, Widths
    <2> HIDE DEF table
    <2>6. ValueBytes[x] = 12 + SumFunction(table)
      BY <1>4, <1>5, <2>3 DEF ReadBytes
    <2>7. FormatBytes[x] = 0 + 0 + (4 + 8 + SumFunction(table))
      BY <1>4, <1>5, <2>2, <2>5 DEF FormatSize
    <2> QED BY <1>2, <2>4, <2>6, <2>7
  <1>6. CASE x.type = 8
    <2>1. x.num \in Nat
      BY <1>2, <1>6, ValueAssumption
    <2>2. FormatWidth[x.type + 1] = 0
      BY <1>3, <1>6, Widths
    <2> QED BY <1>2, <1>4, <1>6, <2>1, <2>2 DEF ReadBytes, FormatSize
  <1>7. CASE x.type \notin {8, 9}
    <2>1. FormatWidth[x.type + 1] = Width(x.type) /\ Width(x.type) \in Nat
      BY <1>3, <1>7, Widths
    <2> QED BY <1>2, <1>4, <1>7, <2>1 DEF ReadBytes, FormatSize
  <1> QED BY <1>5, <1>6, <1>7

-----------------------------------------------------------------------------
(***************************************************************************)
(* Where the tensors start.                                                *)
(***************************************************************************)
LEMMA PowerDef ==
  /\ Power[0] = 1
  /\ \A k \in Nat : Power[k + 1] = 2 * Power[k]
  <1>1. NatInductiveDefHypothesis(Power, 1, LAMBDA v, n : 2 * v)
    BY DEF NatInductiveDefHypothesis, Power
  <1>2. NatInductiveDefConclusion(Power, 1, LAMBDA v, n : 2 * v)
    BY <1>1, NatInductiveDef
  <1>3. \A k \in Nat : Power[k] = IF k = 0 THEN 1 ELSE 2 * Power[k - 1]
    BY <1>2 DEF NatInductiveDefConclusion
  <1>4. \A k \in Nat : k + 1 \in Nat /\ k + 1 # 0 /\ (k + 1) - 1 = k
    OBVIOUS
  <1> QED BY <1>3, <1>4

LEMMA PowerPositive == \A k \in Nat : Power[k] \in Nat \ {0}
  <1> DEFINE Good == {k \in Nat : Power[k] \in Nat \ {0}}
  <1>1. 0 \in Good
    BY PowerDef
  <1>2. \A k \in Nat : k \in Good => k + 1 \in Good
    BY PowerDef
  <1> HIDE DEF Good
  <1>3. Nat \subseteq Good
    BY <1>1, <1>2, NatInductionOnSets
  <1> QED BY <1>3 DEF Good

Smaller == {q \in (Nat \X Nat) \X (Nat \X Nat) : q[1][1] < q[2][1]}

LEMMA SmallerWellFounded == IsWellFoundedOn(Smaller, Nat \X Nat)
  <1> SUFFICES ASSUME NEW f \in [Nat -> Nat \X Nat], \A n \in Nat : <<f[n + 1], f[n]>> \in Smaller
               PROVE  FALSE
    BY DEF IsWellFoundedOn
  <1> DEFINE g == [n \in Nat |-> f[n][1]]
  <1>1. g \in [Nat -> Nat]
    OBVIOUS
  <1>2. \A n \in Nat : <<g[n + 1], g[n]>> \in OpToRel(<, Nat)
    <2>1. \A n \in Nat : f[n + 1][1] < f[n][1]
      BY DEF Smaller
    <2>2. \A n \in Nat : n + 1 \in Nat /\ g[n + 1] < g[n]
      BY <2>1
    <2> HIDE DEF g
    <2> QED BY <1>1, <2>2 DEF OpToRel
  <1> QED BY <1>1, <1>2, NatLessThanWellFounded DEF IsWellFoundedOn

CommonBits(f, p) ==
  IF p[1] = 0 THEN 0
  ELSE 2 * f[<<p[1] \div 2, p[2] \div 2>>] + (p[1] % 2) * (p[2] % 2)

LEMMA BitAndDef ==
  \A a, b \in Nat : BitAnd[<<a, b>>] = CommonBits(BitAnd, <<a, b>>)
  <1> DEFINE Def(f, p) == CommonBits(f, p)
  <1>1. WFDefOn(Smaller, Nat \X Nat, Def)
    <2> SUFFICES ASSUME NEW g, NEW h, NEW p \in Nat \X Nat,
                        \A q \in SetLessThan(p, Smaller, Nat \X Nat) : g[q] = h[q]
                 PROVE  Def(g, p) = Def(h, p)
      BY DEF WFDefOn
    <2>1. CASE p[1] = 0
      BY <2>1 DEF CommonBits
    <2>2. CASE p[1] # 0
      <3> DEFINE q == <<p[1] \div 2, p[2] \div 2>>
      <3>1. q \in Nat \X Nat /\ q[1] < p[1]
        BY <2>2
      <3>2. q \in SetLessThan(p, Smaller, Nat \X Nat)
        BY <3>1 DEF SetLessThan, Smaller
      <3>3. g[q] = h[q]
        BY <3>2
      <3> QED BY <3>3 DEF CommonBits
    <2> QED BY <2>1, <2>2
  <1>2. OpDefinesFcn(BitAnd, Nat \X Nat, Def)
    BY DEF OpDefinesFcn, BitAnd, CommonBits
  <1> HIDE DEF Def
  <1>3. WFInductiveDefines(BitAnd, Nat \X Nat, Def)
    BY <1>1, <1>2, SmallerWellFounded, WFInductiveDef
  <1>4. BitAnd = [p \in Nat \X Nat |-> CommonBits(BitAnd, p)]
    BY <1>3 DEF WFInductiveDefines, Def
  <1>5. \A p \in Nat \X Nat : BitAnd[p] = CommonBits(BitAnd, p)
    BY <1>4
  <1> QED BY <1>5

LEMMA BitAndRule ==
  ASSUME NEW a \in Nat, NEW b \in Nat
  PROVE  /\ a = 0 => BitAnd[<<a, b>>] = 0
         /\ a # 0 => BitAnd[<<a, b>>] =
                       2 * BitAnd[<<a \div 2, b \div 2>>] + (a % 2) * (b % 2)
  BY BitAndDef DEF CommonBits

LEMMA NoCommonBits == \A a \in Nat : BitAnd[<<a, 0>>] = 0
  <1> DEFINE Good == {n \in Nat : \A a \in 0 .. n : BitAnd[<<a, 0>>] = 0}
  <1>1. 0 \in Good
    BY BitAndRule
  <1>2. ASSUME NEW n \in Nat, n \in Good PROVE n + 1 \in Good
    <2>1. BitAnd[<<n + 1, 0>>] = 2 * BitAnd[<<(n + 1) \div 2, 0 \div 2>>] + ((n + 1) % 2) * (0 % 2)
      <3>1. n + 1 \in Nat /\ n + 1 # 0
        OBVIOUS
      <3> QED BY <3>1, BitAndRule
    <2>2. 0 \div 2 = 0 /\ 0 % 2 = 0 /\ (n + 1) \div 2 \in 0 .. n /\ (n + 1) % 2 \in Nat
      OBVIOUS
    <2>3. BitAnd[<<(n + 1) \div 2, 0>>] = 0
      BY <1>2, <2>2
    <2>4. BitAnd[<<n + 1, 0>>] = 0
      <3>1. BitAnd[<<n + 1, 0>>] = 2 * 0 + ((n + 1) % 2) * 0
        BY <2>1, <2>2, <2>3
      <3> QED BY <2>2, <3>1
    <2>5. \A a \in 0 .. (n + 1) : a \in 0 .. n \/ a = n + 1
      OBVIOUS
    <2> QED BY <1>2, <2>4, <2>5
  <1> HIDE DEF Good
  <1>3. Nat \subseteq Good
    BY <1>1, <1>2, NatInductionOnSets
  <1>4. \A a \in Nat : a \in 0 .. a
    OBVIOUS
  <1> QED BY <1>3, <1>4 DEF Good

\* Masking with a power of two less one takes the remainder.
LEMMA MaskIsRemainder == \A k \in Nat, x \in Nat : BitAnd[<<x, Power[k] - 1>>] = x % Power[k]
  <1> DEFINE Good == {k \in Nat : \A x \in Nat : BitAnd[<<x, Power[k] - 1>>] = x % Power[k]}
  <1>1. 0 \in Good
    <2>1. \A x \in Nat : x % 1 = 0
      OBVIOUS
    <2>2. Power[0] - 1 = 0
      BY PowerDef
    <2> QED BY <2>1, <2>2, PowerDef, NoCommonBits
  <1>2. ASSUME NEW k \in Nat, k \in Good PROVE k + 1 \in Good
    <2> DEFINE P == Power[k]
    <2>1. P \in Nat \ {0} /\ Power[k + 1] = 2 * P
      BY PowerDef, PowerPositive
    <2>2. \A x \in Nat : BitAnd[<<x, P - 1>>] = x % P
      BY <1>2
    <2> HIDE DEF P
    <2>3. ASSUME NEW x \in Nat PROVE BitAnd[<<x, 2 * P - 1>>] = x % (2 * P)
      <3> DEFINE h == x \div 2
                 b == x % 2
                 q == h \div P
                 r == h % P
      <3>1. h \in Nat /\ b \in 0 .. 1 /\ x = 2 * h + b
        OBVIOUS
      <3> HIDE DEF h, b
      <3>2. q \in Nat /\ r \in 0 .. (P - 1) /\ h = q * P + r
        BY <2>1, <3>1, Division
      <3> HIDE DEF q, r
      <3>3. x = q * (2 * P) + (2 * r + b)
        <4>1. q * (2 * P) = 2 * (q * P) /\ q * P \in Nat
          BY <2>1, <3>2
        <4> QED BY <3>1, <3>2, <4>1
      <3>4. 2 * P \in Nat \ {0} /\ 2 * r + b \in 0 .. (2 * P - 1)
        BY <2>1, <3>1, <3>2
      <3>5. x % (2 * P) = 2 * r + b
        <4> DEFINE d == 2 * P
                   s == 2 * r + b
        <4>1. d \in Nat \ {0} /\ s \in 0 .. (d - 1) /\ x = q * d + s
          BY <3>3, <3>4
        <4> HIDE DEF d, s
        <4>2. x \div d \in Nat /\ x % d \in 0 .. (d - 1) /\ x = (x \div d) * d + (x % d)
          BY <4>1, Division
        <4>3. x % d = s
          BY <3>2, <4>1, <4>2, OneQuotient
        <4> QED BY <4>3 DEF d, s
      <3>6. CASE x = 0
        <4>1. 2 * P - 1 \in Nat
          BY <2>1
        <4>2. BitAnd[<<x, 2 * P - 1>>] = 0
          BY <3>6, <4>1, BitAndRule
        <4>3. h = 0 /\ b = 0
          BY <3>1, <3>6
        <4>4. q * P = 0 /\ r = 0
          <5>1. q * P \in Nat
            BY <2>1, <3>2
          <5> QED BY <3>2, <4>3, <5>1
        <4> QED BY <3>5, <4>2, <4>3, <4>4
      <3>7. CASE x # 0
        <4> DEFINE m == 2 * P - 1
        <4>1. m \in Nat /\ m \div 2 = P - 1 /\ m % 2 = 1
          BY <2>1
        <4>2. BitAnd[<<x, m>>] = 2 * BitAnd[<<h, P - 1>>] + b * 1
          <5> HIDE DEF m
          <5> QED BY <3>7, <4>1, BitAndRule DEF h, b
        <4>3. BitAnd[<<h, P - 1>>] = r
          BY <2>2, <3>1 DEF r
        <4> HIDE DEF m
        <4>4. BitAnd[<<x, m>>] = 2 * r + b
          BY <3>1, <3>2, <4>2, <4>3
        <4> QED BY <3>5, <4>4 DEF m
      <3> QED BY <3>6, <3>7
    <2> QED BY <2>1, <2>3
  <1> HIDE DEF Good
  <1>3. Nat \subseteq Good
    BY <1>1, <1>2, NatInductionOnSets
  <1> QED BY <1>3 DEF Good

\* The multiples of a number among as many neighbours as it says.
LEMMA OneMultiple ==
  ASSUME NEW A \in Nat \ {0}, NEW H \in Nat
  PROVE  LET end == H + (A - 1)
         IN  /\ end - (end % A) \in H .. (H + A - 1)
             /\ (end - (end % A)) % A = 0
             /\ \A s \in H .. (H + A - 1) : s % A = 0 => s = end - (end % A)
  <1> DEFINE end == H + (A - 1)
             q == end \div A
             r == end % A
  <1>1. end \in Nat
    OBVIOUS
  <1>2. q \in Nat /\ r \in 0 .. (A - 1) /\ end = q * A + r
    <2> HIDE DEF end
    <2> QED BY <1>1, Division
  <1>3. q * A \in Nat
    <2> HIDE DEF q
    <2> QED BY <1>2
  <1>4. end = H + A - 1
    OBVIOUS
  <1> HIDE DEF end, q, r
  <1>5. end - r = q * A /\ end - r \in H .. (H + A - 1)
    BY <1>1, <1>2, <1>3, <1>4
  <1>6. ASSUME NEW s \in Nat, NEW t \in Nat, NEW c \in 0 .. (A - 1), s = t * A + c
        PROVE  s \div A = t /\ s % A = c
    <2>1. s \div A \in Nat /\ s % A \in 0 .. (A - 1) /\ s = (s \div A) * A + (s % A)
      BY Division
    <2> QED BY <1>6, <2>1, OneQuotient
  <1>7. (end - r) % A = 0
    <2>1. q * A = q * A + 0 /\ 0 \in 0 .. (A - 1)
      BY <1>3
    <2> QED BY <1>2, <1>3, <1>5, <1>6, <2>1
  <1>8. ASSUME NEW s \in H .. (H + A - 1), s % A = 0 PROVE s = end - r
    <2> DEFINE t == s \div A
    <2>1. s \in Nat
      OBVIOUS
    <2>2. t \in Nat /\ s = t * A + 0
      BY <1>8, <2>1, Division
    <2> HIDE DEF t
    <2>3. t * A \in Nat
      BY <2>2
    <2>4. end - s \in 0 .. (A - 1) /\ end = t * A + (end - s)
      BY <1>1, <1>4, <2>1, <2>2, <2>3
    <2>5. t = q
      BY <1>2, <2>2, <2>4, OneQuotient
    <2> QED BY <1>5, <2>2, <2>3, <2>5
  <1> QED BY <1>5, <1>7, <1>8 DEF end, r

\* Rounding up with a mask finds it.
LEMMA StartExact ==
  ASSUME pos \in Nat, pos = WrittenHeader, Alignment \in PowersOfTwo
  PROVE  DataStart = WrittenDataStart
  <1>1. PICK k \in 0 .. 30 : Alignment = Power[k]
    BY DEF PowersOfTwo
  <1> DEFINE A == Alignment
             end == pos + (A - 1)
  <1>2. A \in Nat \ {0} /\ end \in Nat
    BY <1>1, PowerPositive
  <1>3. DataStart = end - (end % A)
    <2>1. BitAnd[<<end, A - 1>>] = end % A
      <3> HIDE DEF end
      <3> QED BY <1>1, <1>2, MaskIsRemainder
    <2>2. DataStart = RoundUp(Alignment)
      BY <1>2 DEF DataStart
    <2> QED BY <2>1, <2>2 DEF RoundUp
  <1>4. /\ end - (end % A) \in pos .. (pos + A - 1)
        /\ (end - (end % A)) % A = 0
        /\ \A s \in pos .. (pos + A - 1) : s % A = 0 => s = end - (end % A)
    <2> HIDE DEF A
    <2> QED BY <1>2, OneMultiple
  <1> HIDE DEF end
  <1>5. WrittenDataStart = CHOOSE s \in pos .. (pos + A - 1) : s % A = 0
    BY DEF WrittenDataStart
  <1> HIDE DEF A
  <1> QED BY <1>3, <1>4, <1>5

-----------------------------------------------------------------------------
(***************************************************************************)
(* The header.  While it is read, the position is behind what has been     *)
(* read, by the widths of the format.                                      *)
(***************************************************************************)
PairLengths ==
  [k \in DOMAIN file.pairs |-> 8 + file.pairs[k].keyLen + 4 + FormatBytes[file.pairs[k].value]]
InfoLengths ==
  [t \in DOMAIN file.tensors |-> 8 + file.tensors[t].nameLen + 4 + Len(file.tensors[t].dims) * 8 + 4 + 8]

AllReadable(n) == \A k \in 1 .. n : Readable[file.pairs[k].value]

HeaderInv ==
  /\ file \in Files
  /\ outcome = "preamble" => pos = 0 /\ at = 1
  /\ outcome = "pairs" =>
       /\ at \in 1 .. (Len(file.pairs) + 1)
       /\ AllReadable(at - 1)
       /\ pos = 24 + Total(PairLengths, 1 .. (at - 1))
  /\ outcome = "infos" =>
       /\ at \in 1 .. (Len(file.tensors) + 1)
       /\ AllReadable(Len(file.pairs))
       /\ pos = 24 + Total(PairLengths, 1 .. Len(file.pairs)) + Total(InfoLengths, 1 .. (at - 1))
  /\ outcome \in {"tokenizer", "tensors", "ok"} => pos \in Nat /\ pos = WrittenHeader

LEMMA FileFacts ==
  ASSUME file \in Files
  PROVE  /\ Len(file.pairs) \in Nat /\ DOMAIN file.pairs = 1 .. Len(file.pairs)
         /\ \A k \in 1 .. Len(file.pairs) :
              file.pairs[k].keyLen \in Nat /\ file.pairs[k].value \in Values
         /\ Len(file.tensors) \in Nat /\ DOMAIN file.tensors = 1 .. Len(file.tensors)
         /\ \A t \in 1 .. Len(file.tensors) : file.tensors[t] \in InfoRecords
  <1>1. file.pairs \in Seq(PairRecords) /\ file.tensors \in Seq(InfoRecords)
    BY FileAssumption DEF IsHeader
  <1>2. \A k \in 1 .. Len(file.pairs) : file.pairs[k] \in PairRecords
    BY <1>1
  <1>3. \A t \in 1 .. Len(file.tensors) : file.tensors[t] \in InfoRecords
    BY <1>1
  <1>4. Len(file.pairs) \in Nat /\ DOMAIN file.pairs = 1 .. Len(file.pairs)
    BY <1>1
  <1>5. Len(file.tensors) \in Nat /\ DOMAIN file.tensors = 1 .. Len(file.tensors)
    BY <1>1
  <1>6. \A p \in PairRecords : p.keyLen \in Nat /\ p.value \in Values
    BY DEF PairRecords
  <1> QED BY <1>2, <1>3, <1>4, <1>5, <1>6

LEMMA LengthsFacts ==
  ASSUME file \in Files
  PROVE  /\ \A k \in 1 .. Len(file.pairs) : Readable[file.pairs[k].value] =>
              PairLengths[k] \in Nat /\ PairLengths[k] = PairBytes(file.pairs[k])
         /\ \A t \in 1 .. Len(file.tensors) :
              InfoLengths[t] \in Nat /\ InfoLengths[t] = InfoBytes(file.tensors[t])
  <1>1. ASSUME NEW k \in 1 .. Len(file.pairs), Readable[file.pairs[k].value]
        PROVE  PairLengths[k] \in Nat /\ PairLengths[k] = PairBytes(file.pairs[k])
    <2>1. file.pairs[k].keyLen \in Nat /\ file.pairs[k].value \in Values
      BY FileFacts
    <2>2. ValueBytes[file.pairs[k].value] \in Nat
          /\ FormatBytes[file.pairs[k].value] = ValueBytes[file.pairs[k].value]
      BY <1>1, <2>1, ValueBytesExact
    <2>3. PairLengths[k] = 8 + file.pairs[k].keyLen + 4 + FormatBytes[file.pairs[k].value]
      BY FileFacts DEF PairLengths
    <2> QED BY <2>1, <2>2, <2>3 DEF PairBytes
  <1>2. ASSUME NEW t \in 1 .. Len(file.tensors)
        PROVE  InfoLengths[t] \in Nat /\ InfoLengths[t] = InfoBytes(file.tensors[t])
    <2> DEFINE i == file.tensors[t]
    <2>1. i.nameLen \in Nat /\ Len(i.dims) \in Nat
      <3>1. i.nameLen \in Nat /\ i.dims \in Seq(Nat \ {0})
        BY FileFacts DEF InfoRecords
      <3> QED BY <3>1, LenProperties
    <2>2. InfoLengths[t] = 8 + i.nameLen + 4 + Len(i.dims) * 8 + 4 + 8
      BY FileFacts DEF InfoLengths
    <2>3. InfoBytes(i) = 8 + i.nameLen + 4 + 8 * Len(i.dims) + 4 + 8
      BY DEF InfoBytes
    <2>4. \A a, b \in Nat : /\ 8 + a + 4 + b * 8 + 4 + 8 = 8 + a + 4 + 8 * b + 4 + 8
                            /\ 8 + a + 4 + 8 * b + 4 + 8 \in Nat
      OBVIOUS
    <2> HIDE DEF i
    <2>5. InfoLengths[t] \in Nat /\ InfoLengths[t] = InfoBytes(i)
      BY <2>1, <2>2, <2>3, <2>4
    <2> QED BY <2>5 DEF i
  <1> QED BY <1>1, <1>2

LEMMA NoTotal == \A f : Total(f, 1 .. 0) = 0
  <1>1. \A f : Integral(f, {})
    BY DEF Integral
  <1>2. 1 .. 0 = {} /\ IsFiniteSet({})
    BY FS_EmptySet
  <1> QED BY <1>1, <1>2, TotalStep

\* Where a header ends whose values can be read.
LEMMA HeaderEnd ==
  ASSUME file \in Files, AllReadable(Len(file.pairs))
  PROVE  /\ Total(PairLengths, 1 .. Len(file.pairs)) \in Nat
         /\ Total(InfoLengths, 1 .. Len(file.tensors)) \in Nat
         /\ WrittenHeader = 24 + Total(PairLengths, 1 .. Len(file.pairs))
                               + Total(InfoLengths, 1 .. Len(file.tensors))
  <1>1. /\ \A k \in 1 .. Len(file.pairs) : PairLengths[k] \in Nat
        /\ \A t \in 1 .. Len(file.tensors) : InfoLengths[t] \in Nat
    BY LengthsFacts DEF AllReadable
  <1>2. /\ IsFiniteSet(1 .. Len(file.pairs)) /\ IsFiniteSet(1 .. Len(file.tensors))
    BY FileFacts, FS_Interval
  <1>3. /\ Total(PairLengths, 1 .. Len(file.pairs)) \in Nat
        /\ Total(InfoLengths, 1 .. Len(file.tensors)) \in Nat
    BY <1>1, <1>2, TotalOfNats
  <1>4. SumFunction(PairLengths) = Total(PairLengths, 1 .. Len(file.pairs))
    <2>1. DOMAIN PairLengths = 1 .. Len(file.pairs)
      BY FileFacts DEF PairLengths
    <2> QED BY <1>2, <2>1, SumFunctionIsTotal
  <1>5. SumFunction(InfoLengths) = Total(InfoLengths, 1 .. Len(file.tensors))
    <2>1. DOMAIN InfoLengths = 1 .. Len(file.tensors)
      BY FileFacts DEF InfoLengths
    <2> QED BY <1>2, <2>1, SumFunctionIsTotal
  <1>6. WrittenHeader = 4 + 4 + 8 + 8 + SumFunction(PairLengths) + SumFunction(InfoLengths)
    BY DEF WrittenHeader, PairLengths, InfoLengths
  <1> QED BY <1>3, <1>4, <1>5, <1>6

LEMMA SameFile ==
  ASSUME file' = file
  PROVE  /\ PairLengths' = PairLengths /\ InfoLengths' = InfoLengths
         /\ WrittenHeader' = WrittenHeader
         /\ \A n : AllReadable(n)' = AllReadable(n)
  BY DEF PairLengths, InfoLengths, WrittenHeader, AllReadable

LEMMA OpenHeaderInv == HeaderInv /\ OpenStep => HeaderInv'
  <1> SUFFICES ASSUME HeaderInv, OpenStep PROVE HeaderInv'
    OBVIOUS
  <1>1. file \in Files /\ file' = file
    BY DEF HeaderInv, OpenStep
  <1>2. CASE ReadPreamble
    <2>1. /\ outcome' = "pairs" /\ at' = 1 /\ pos' = 24
      BY <1>2 DEF ReadPreamble, Take, PreambleBytes, HeaderInv
    <2>2. AllReadable(at - 1)'
      BY <2>1 DEF AllReadable
    <2>3. Total(PairLengths, 1 .. (at - 1))' = 0
      BY <2>1, NoTotal
    <2>4. at' \in 1 .. (Len(file'.pairs) + 1)
      BY <1>1, <2>1, FileFacts
    <2> QED BY <1>1, <2>1, <2>2, <2>3, <2>4 DEF HeaderInv
  <1>3. CASE ReadPair
    <2>1. /\ outcome = "pairs" /\ outcome' = "pairs" /\ at' = at + 1
          /\ at <= Len(file.pairs) /\ Readable[file.pairs[at].value]
          /\ pos' = pos + PairBytes(file.pairs[at])
      BY <1>3 DEF ReadPair, Take, PairsLeft, Pair
    <2>2. /\ at \in 1 .. Len(file.pairs)
          /\ AllReadable(at - 1)
          /\ pos = 24 + Total(PairLengths, 1 .. (at - 1))
      BY <1>1, <2>1, FileFacts DEF HeaderInv
    <2> DEFINE n == at - 1
    <2>3. n \in Nat /\ n + 1 = at /\ at' - 1 = at
      BY <1>1, <2>1, <2>2, FileFacts
    <2>4. AllReadable(at)
      <3>1. \A k \in 1 .. at : k \in 1 .. (at - 1) \/ k = at
        BY <1>1, <2>2, FileFacts
      <3> QED BY <2>1, <2>2, <3>1 DEF AllReadable
    <2>5. \A k \in 1 .. (n + 1) : PairLengths[k] \in Nat
      <3>1. \A k \in 1 .. (n + 1) : k \in 1 .. Len(file.pairs) /\ k \in 1 .. at
        BY <1>1, <2>2, <2>3, FileFacts
      <3> QED BY <1>1, <2>4, <3>1, LengthsFacts DEF AllReadable
    <2> HIDE DEF n
    <2>6. /\ Total(PairLengths, 1 .. n) \in Nat
          /\ Total(PairLengths, 1 .. (n + 1)) = Total(PairLengths, 1 .. n) + PairLengths[n + 1]
      BY <2>3, <2>5, RunningTotal
    <2>7. PairLengths[at] = PairBytes(file.pairs[at]) /\ PairLengths[at] \in Nat
      BY <1>1, <2>1, <2>2, LengthsFacts
    <2>8. pos' = 24 + Total(PairLengths, 1 .. at)
      BY <2>1, <2>2, <2>3, <2>6, <2>7 DEF n
    <2>9. at' \in 1 .. (Len(file.pairs) + 1)
      BY <1>1, <2>1, <2>2, FileFacts
    <2> QED BY <1>1, <2>1, <2>3, <2>4, <2>8, <2>9, SameFile DEF HeaderInv
  <1>4. CASE PairsDone
    <2>1. outcome = "pairs" /\ outcome' = "infos" /\ at' = 1 /\ pos' = pos
          /\ ~ (at <= Len(file.pairs))
      BY <1>4 DEF PairsDone, PairsLeft
    <2>2. at - 1 = Len(file.pairs) /\ Len(file.tensors) \in Nat
      BY <1>1, <2>1, FileFacts DEF HeaderInv
    <2>3. AllReadable(Len(file.pairs)) /\ pos = 24 + Total(PairLengths, 1 .. Len(file.pairs))
      BY <2>1, <2>2 DEF HeaderInv
    <2>4. Total(PairLengths, 1 .. Len(file.pairs)) \in Nat
      BY <1>1, <2>3, HeaderEnd
    <2>5. Total(InfoLengths, 1 .. (at' - 1)) = 0
      BY <2>1, NoTotal
    <2>6. pos' = 24 + Total(PairLengths, 1 .. Len(file.pairs)) + Total(InfoLengths, 1 .. (at' - 1))
      BY <2>1, <2>3, <2>4, <2>5
    <2>7. at' \in 1 .. (Len(file.tensors) + 1)
      BY <2>1, <2>2
    <2> QED BY <1>1, <2>1, <2>3, <2>6, <2>7, SameFile DEF HeaderInv
  <1>5. CASE ReadInfo
    <2>1. /\ outcome = "infos" /\ outcome' = "infos" /\ at' = at + 1
          /\ at <= Len(file.tensors)
          /\ pos' = pos + InfoBytes(file.tensors[at])
      BY <1>5 DEF ReadInfo, Take, InfosLeft
    <2>2. /\ at \in 1 .. Len(file.tensors)
          /\ AllReadable(Len(file.pairs))
          /\ pos = 24 + Total(PairLengths, 1 .. Len(file.pairs)) + Total(InfoLengths, 1 .. (at - 1))
      BY <1>1, <2>1, FileFacts DEF HeaderInv
    <2> DEFINE n == at - 1
    <2>3. n \in Nat /\ n + 1 = at /\ at' - 1 = at
      BY <1>1, <2>1, <2>2, FileFacts
    <2>4. \A t \in 1 .. (n + 1) : InfoLengths[t] \in Nat
      <3>1. \A t \in 1 .. (n + 1) : t \in 1 .. Len(file.tensors)
        BY <1>1, <2>2, <2>3, FileFacts
      <3> QED BY <1>1, <3>1, LengthsFacts
    <2> HIDE DEF n
    <2>5. /\ Total(InfoLengths, 1 .. n) \in Nat
          /\ Total(InfoLengths, 1 .. (n + 1)) = Total(InfoLengths, 1 .. n) + InfoLengths[n + 1]
      BY <2>3, <2>4, RunningTotal
    <2>6. InfoLengths[at] = InfoBytes(file.tensors[at]) /\ InfoLengths[at] \in Nat
      BY <1>1, <2>2, LengthsFacts
    <2>7. Total(PairLengths, 1 .. Len(file.pairs)) \in Nat
      BY <1>1, <2>2, HeaderEnd
    <2>8. pos' = 24 + Total(PairLengths, 1 .. Len(file.pairs)) + Total(InfoLengths, 1 .. at)
      BY <2>1, <2>2, <2>3, <2>5, <2>6, <2>7 DEF n
    <2>9. at' \in 1 .. (Len(file.tensors) + 1)
      BY <1>1, <2>1, <2>2, FileFacts
    <2> QED BY <1>1, <2>1, <2>2, <2>3, <2>8, <2>9, SameFile DEF HeaderInv
  <1>6. CASE InfosDone
    <2>1. outcome = "infos" /\ outcome' = "tokenizer" /\ at' = at /\ pos' = pos
          /\ ~ (at <= Len(file.tensors))
      BY <1>6 DEF InfosDone, InfosLeft
    <2>2. at - 1 = Len(file.tensors)
      BY <1>1, <2>1, FileFacts DEF HeaderInv
    <2>3. /\ AllReadable(Len(file.pairs))
          /\ pos = 24 + Total(PairLengths, 1 .. Len(file.pairs))
                      + Total(InfoLengths, 1 .. Len(file.tensors))
      BY <2>1, <2>2 DEF HeaderInv
    <2>4. pos \in Nat /\ pos = WrittenHeader
      BY <1>1, <2>3, HeaderEnd
    <2> QED BY <1>1, <2>1, <2>4, SameFile DEF HeaderInv
  <1>7. CASE HeaderFails \/ AlignmentPanics
    BY <1>1, <1>7 DEF HeaderFails, AlignmentPanics, HeaderInv
  <1> QED BY <1>2, <1>3, <1>4, <1>5, <1>6, <1>7 DEF OpenStep

LEMMA NextHeaderInv == HeaderInv /\ [Next]_vars => HeaderInv'
  <1> SUFFICES ASSUME HeaderInv, [Next]_vars PROVE HeaderInv'
    OBVIOUS
  <1>1. CASE ReadHeader
    BY <1>1, OpenHeaderInv DEF ReadHeader
  <1>2. ASSUME UNCHANGED <<file, pos, at>>,
               \/ outcome' = outcome
               \/ outcome \in {"tokenizer", "tensors"}
                    /\ outcome' \in {"tensors", "ok", "err", "panic"}
        PROVE  HeaderInv'
    <2>1. WrittenHeader' = WrittenHeader
      BY <1>2, SameFile
    <2>2. CASE outcome' = outcome
      <3>1. /\ Total(PairLengths, 1 .. (at - 1))' = Total(PairLengths, 1 .. (at - 1))
            /\ Total(PairLengths, 1 .. Len(file.pairs))' = Total(PairLengths, 1 .. Len(file.pairs))
            /\ Total(InfoLengths, 1 .. (at - 1))' = Total(InfoLengths, 1 .. (at - 1))
            /\ AllReadable(at - 1)' = AllReadable(at - 1)
            /\ AllReadable(Len(file.pairs))' = AllReadable(Len(file.pairs))
        BY <1>2 DEF PairLengths, InfoLengths, AllReadable
      <3> QED BY <1>2, <2>1, <2>2, <3>1 DEF HeaderInv
    <2>3. CASE outcome' # outcome
      BY <1>2, <2>1, <2>3 DEF HeaderInv
    <2> QED BY <2>2, <2>3
  <1>3. CASE LoadStep
    <2>1. UNCHANGED <<file, pos, at>>
      BY <1>3 DEF LoadStep, NotPrepared, Prepare, SkipTensor, ReadFails, LoadTensor, Finish, header
    <2>2. \/ outcome' = outcome
          \/ outcome \in {"tokenizer", "tensors"}
               /\ outcome' \in {"tensors", "ok", "err", "panic"}
      BY <1>3 DEF LoadStep, NotPrepared, Prepare, SkipTensor, ReadFails, LoadTensor, Finish,
                  Loading
    <2> QED BY <1>2, <2>1, <2>2
  <1>4. CASE EncodeWord \/ EncodeStep
    BY <1>2, <1>4 DEF EncodeWord, EncodeStep, header
  <1>5. CASE UNCHANGED vars
    BY <1>2, <1>5 DEF vars, header
  <1> QED BY <1>1, <1>3, <1>4, <1>5 DEF Next

LEMMA HeaderInvariant == Spec => []HeaderInv
  <1>1. Init => HeaderInv
    BY DEF Init, HeaderInv
  <1> QED BY <1>1, NextHeaderInv, PTL DEF Spec

\* Of several pairs with one key the last is looked up.
LEMMA LookedUp ==
  ASSUME file \in Files, NEW key, PairsWith(key) # {}
  PROVE  \E k \in PairsWith(key) : Lookup(key) = file.pairs[k].value
  <1>1. IsFiniteSet(PairsWith(key)) /\ PairsWith(key) \subseteq Int
    <2>1. PairsWith(key) \subseteq 1 .. Len(file.pairs)
      BY FileFacts DEF PairsWith
    <2>2. IsFiniteSet(1 .. Len(file.pairs)) /\ 1 .. Len(file.pairs) \subseteq Int
      BY FileFacts, FS_Interval
    <2> QED BY <2>1, <2>2, FS_Subset
  <1> QED BY <1>1, HasMax DEF Lookup

LEMMA SmallRemainder ==
  ASSUME NEW d \in Nat \ {0}, NEW a \in 0 .. (d - 1)
  PROVE  a % d = a
  <1>1. a \in Nat /\ a = 0 * d + a
    OBVIOUS
  <1>2. a \div d \in Nat /\ a % d \in 0 .. (d - 1) /\ a = (a \div d) * d + (a % d)
    BY <1>1, Division
  <1> DEFINE q == a \div d
             r == a % d
  <1> HIDE DEF q, r
  <1>3. r = a
    <2>1. q \in Nat /\ r \in 0 .. (d - 1) /\ q * d + r = 0 * d + a
      BY <1>1, <1>2 DEF q, r
    <2> QED BY <2>1, OneQuotient
  <1> QED BY <1>3 DEF r

LEMMA HeaderInvExact == HeaderInv => HeaderExact
  <1> SUFFICES ASSUME HeaderInv, outcome \in {"tokenizer", "tensors", "ok"}
               PROVE  /\ pos = WrittenHeader
                      /\ Alignment \in PowersOfTwo => DataStart = WrittenDataStart
                      /\ LET stated == PairsWith("llama.heads") \cup PairsWith("bitnet.heads")
                             first == file.pairs[Min(stated)].value
                         IN  stated # {} /\ first.type \in {4, 5, 10} /\ first.num \in Nat
                               /\ (\A k \in stated : file.pairs[k].value = first)
                               => Heads = first.num
    BY DEF HeaderExact
  <1>1. file \in Files /\ pos \in Nat /\ pos = WrittenHeader
    BY DEF HeaderInv
  <1>2. Alignment \in PowersOfTwo => DataStart = WrittenDataStart
    BY <1>1, StartExact
  <1>3. ASSUME NEW first, first.type \in {4, 5, 10}, first.num \in Nat,
               PairsWith("llama.heads") \cup PairsWith("bitnet.heads") # {},
               \A k \in PairsWith("llama.heads") \cup PairsWith("bitnet.heads") :
                 file.pairs[k].value = first
        PROVE  Heads = first.num
    <2>1. ExtractInt(first) = first.num
      <3>1. PICK k \in PairsWith("llama.heads") \cup PairsWith("bitnet.heads") :
              file.pairs[k].value = first
        BY <1>3
      <3>2. first \in Values
        BY <1>1, <3>1, FileFacts DEF PairsWith
      <3>3. first.num \in 0 .. (U64 - 1) /\ U64 \in Nat \ {0}
        <4>1. first.num < U64
          BY <1>3, <3>2, ValueAssumption, AlignmentAssumption
        <4> QED BY <1>3, <4>1, AlignmentAssumption
      <3>4. first.num % U64 = first.num
        BY <3>3, SmallRemainder
      <3> QED BY <1>3, <3>4 DEF ExtractInt
    <2>2. CASE PairsWith("llama.heads") # {}
      <3>1. Lookup("llama.heads") = first
        BY <1>1, <1>3, <2>2, LookedUp
      <3> QED BY <2>1, <2>2, <3>1 DEF Heads
    <2>3. CASE PairsWith("llama.heads") = {}
      <3>1. PairsWith("bitnet.heads") # {} /\ Lookup("bitnet.heads") = first
        BY <1>1, <1>3, <2>3, LookedUp
      <3> QED BY <2>1, <2>3, <3>1 DEF Heads
    <2> QED BY <2>2, <2>3
  <1> DEFINE stated == PairsWith("llama.heads") \cup PairsWith("bitnet.heads")
             first == file.pairs[Min(stated)].value
  <1>4. stated # {} /\ first.type \in {4, 5, 10} /\ first.num \in Nat /\ (\A k \in stated : file.pairs[k].value = first)
          => Heads = first.num
    <2> HIDE DEF first
    <2> QED BY <1>3
  <1> QED BY <1>1, <1>2, <1>4

\* A header that is accepted has been read exactly, the tensors are looked for
\* where the writer put them, and a number of heads is taken over if it is
\* stated as a natural number, whatever values the files hold, however deep
\* arrays are nested in arrays.
THEOREM HeaderAlwaysExact == Spec => []HeaderExact
  BY HeaderInvariant, HeaderInvExact, PTL

-----------------------------------------------------------------------------
(***************************************************************************)
(* The tensors.                                                            *)
(***************************************************************************)
LEMMA DimsFacts ==
  ASSUME file \in Files, NEW t \in Tensors
  PROVE  /\ Len(Dims(t)) \in Nat
         /\ \A k \in 1 .. Len(Dims(t)) : Dims(t)[k] \in Nat \ {0}
         /\ Info(t).type \in Types
  <1>1. Dims(t) \in Seq(Nat \ {0}) /\ Info(t).type \in Types
    BY FileFacts DEF Tensors, Info, InfoRecords, Dims
  <1>2. \A d \in Seq(Nat \ {0}) : Len(d) \in Nat /\ \A k \in 1 .. Len(d) : d[k] \in Nat \ {0}
    OBVIOUS
  <1> QED BY <1>1, <1>2

\* The product of the dimensions is a number.
LEMMA ElemsNat ==
  ASSUME file \in Files, NEW t \in Tensors
  PROVE  Elems(t) \in Nat
  <1> DEFINE L == Len(Dims(t))
             d == Dims(t)
             Product == CHOOSE p : p = [n \in 0 .. L |-> IF n = 0 THEN 1 ELSE p[n - 1] * d[n]]
  <1>1. FiniteNatInductiveDefHypothesis(Product, 1, LAMBDA v, n : v * d[n], 0, L)
    BY DEF FiniteNatInductiveDefHypothesis
  <1>2. L \in Nat /\ \A k \in 1 .. L : d[k] \in Nat
    BY DimsFacts
  <1>3. FiniteNatInductiveDefConclusion(Product, 1, LAMBDA v, n : v * d[n], 0, L)
    BY <1>1, <1>2, FiniteNatInductiveDef
  <1>4. Product = [n \in 0 .. L |-> IF n = 0 THEN 1 ELSE Product[n - 1] * d[n]]
    BY <1>3 DEF FiniteNatInductiveDefConclusion
  <1>5. Elems(t) = Product[L]
    BY DEF Elems
  <1> HIDE DEF Product, d, L
  <1> DEFINE Good == {n \in Nat : n <= L => Product[n] \in Nat}
  <1>6. 0 \in Good
    BY <1>2, <1>4
  <1>7. ASSUME NEW n \in Nat, n \in Good PROVE n + 1 \in Good
    <2> SUFFICES ASSUME n + 1 <= L PROVE Product[n + 1] \in Nat
      OBVIOUS
    <2>1. n + 1 \in 0 .. L /\ n + 1 # 0 /\ (n + 1) - 1 = n /\ n + 1 \in 1 .. L
      BY <1>2
    <2>2. Product[n] \in Nat /\ d[n + 1] \in Nat
      BY <1>2, <1>7, <2>1
    <2>3. Product[n + 1] = Product[n] * d[n + 1]
      BY <1>4, <2>1
    <2> QED BY <2>2, <2>3
  <1> HIDE DEF Good
  <1>8. Nat \subseteq Good
    BY <1>6, <1>7, NatInductionOnSets
  <1> QED BY <1>2, <1>5, <1>8 DEF Good

LEMMA PlaneNat ==
  ASSUME file \in Files, NEW t \in Tensors, HasShape(t)
  PROVE  Plane(t) \in Nat
  <1>1. Len(Dims(t)) \in 1 .. 3 /\ \A k \in 1 .. Len(Dims(t)) : Dims(t)[k] \in Nat
    BY DimsFacts DEF HasShape
  <1>2. CASE Len(Dims(t)) = 1
    BY <1>1, <1>2 DEF Plane
  <1>3. CASE Len(Dims(t)) # 1
    <2>1. Dims(t)[1] \in Nat /\ Dims(t)[2] \in Nat
      BY <1>1, <1>3
    <2> QED BY <1>3, <2>1 DEF Plane
  <1> QED BY <1>2, <1>3

LEMMA TensorFacts ==
  ASSUME file \in Files
  PROVE  /\ IsFiniteSet(Tensors)
         /\ \A t \in Tensors : Elems(t) \div BlockElems \in Nat /\ ByteSize(t) \in Nat
         /\ \A t \in Tensors : Info(t).type = "Q8_0" =>
              ByteSize(t) = (Elems(t) \div BlockElems) * BlockBytes
  <1>1. IsFiniteSet(Tensors)
    BY FileFacts, FS_Interval DEF Tensors
  <1>2. ASSUME NEW t \in Tensors
        PROVE  /\ Elems(t) \div BlockElems \in Nat /\ ByteSize(t) \in Nat
               /\ Info(t).type = "Q8_0" => ByteSize(t) = (Elems(t) \div BlockElems) * BlockBytes
    <2>1. Elems(t) \in Nat /\ Info(t).type \in Types
      BY DimsFacts, ElemsNat
    <2> DEFINE n == Elems(t)
               q == n \div BlockElems
    <2>2. q \in Nat /\ n * 2 \in Nat
      <3>1. n \in Nat
        BY <2>1
      <3> HIDE DEF n
      <3> QED BY <3>1, BlockAssumption, Division
    <2>3. q * BlockBytes \in Nat
      <3> HIDE DEF q
      <3> QED BY <2>2, BlockAssumption, Times
    <2>4. \/ Info(t).type = "F32" /\ ByteSize(t) = n
          \/ Info(t).type = "F16" /\ ByteSize(t) = n * 2
          \/ Info(t).type = "Q8_0" /\ ByteSize(t) = q * BlockBytes
          \/ Info(t).type = "unknown" /\ ByteSize(t) = 0
      BY <2>1 DEF ByteSize, Types
    <2> QED BY <2>1, <2>2, <2>3, <2>4
  <1> QED BY <1>1, <1>2

\* The scratch buffer is as long as the longest tensor.
LEMMA LongestTensor ==
  ASSUME file \in Files
  PROVE  ScratchLen \in Nat /\ \A t \in Tensors : ByteSize(t) <= ScratchLen
  <1> DEFINE Sizes == {ByteSize(t) : t \in Tensors}
             S == Sizes \cup {0}
  <1>1. IsFiniteSet(Sizes)
    <2> DEFINE f == [t \in Tensors |-> ByteSize(t)]
    <2>1. f \in Surjection(Tensors, Sizes)
      BY DEF Surjection
    <2> HIDE DEF f
    <2> QED BY <2>1, TensorFacts, FS_Surjection
  <1>2. IsFiniteSet({0})
    BY FS_Singleton
  <1>3. S \subseteq Nat /\ S # {}
    BY TensorFacts
  <1>4. \A t \in Tensors : ByteSize(t) \in S
    OBVIOUS
  <1>5. IsFiniteSet(S)
    <2> HIDE DEF Sizes
    <2> QED BY <1>1, <1>2, FS_Union
  <1>6. ScratchLen = Max(S)
    BY DEF ScratchLen
  <1> HIDE DEF S
  <1>7. Max(S) \in S /\ \A y \in S : y <= Max(S)
    <2>1. S \subseteq Int
      BY <1>3
    <2> QED BY <1>3, <1>5, <2>1, HasMax
  <1> QED BY <1>3, <1>4, <1>6, <1>7

\* The bytes of a block's scale and elements, in a tensor of q blocks.
LEMMA BlockIndex ==
  ASSUME NEW q \in Nat, NEW e \in Nat \ {0}, e <= q * BlockElems
  PROVE  LET base == ((e - 1) \div BlockElems) * BlockBytes
             scale == BlockBytes - BlockElems
         IN  /\ \A k \in 1 .. scale : base + k \in 1 .. (q * BlockBytes)
             /\ base + scale + ((e - 1) % BlockElems) + 1 \in 1 .. (q * BlockBytes)
  <1> DEFINE m == e - 1
             a == m \div BlockElems
             c == m % BlockElems
  <1>1. BlockElems \in Nat \ {0} /\ BlockBytes \in Nat /\ BlockBytes > BlockElems
    BY BlockAssumption
  <1>2. q * BlockElems \in Nat
    BY <1>1
  <1>3. m \in Nat /\ m < q * BlockElems
    BY <1>2
  <1>4. a \in Nat /\ c \in 0 .. (BlockElems - 1) /\ m = a * BlockElems + c
    <2> HIDE DEF m
    <2> QED BY <1>1, <1>3, Division
  <1> HIDE DEF m, a, c
  <1>5. a + 1 <= q
    <2> SUFFICES ASSUME q <= a PROVE FALSE
      BY <1>4
    <2>1. q * BlockElems <= a * BlockElems /\ a * BlockElems \in Nat
      BY <1>1, <1>4, Times
    <2> QED BY <1>2, <1>3, <1>4, <2>1
  <1> DEFINE base == a * BlockBytes
             size == q * BlockBytes
             scale == BlockBytes - BlockElems
  <1>6. base \in Nat /\ size \in Nat /\ base + BlockBytes <= size
    <2>1. (a + 1) * BlockBytes <= size /\ size \in Nat /\ base \in Nat
      BY <1>1, <1>4, <1>5, Times
    <2>2. (a + 1) * BlockBytes = base + BlockBytes
      BY <1>1, <1>4
    <2> QED BY <2>1, <2>2
  <1> HIDE DEF base, size
  <1>7. \A k \in 1 .. scale : base + k \in 1 .. size
    BY <1>1, <1>6
  <1>8. base + scale + c + 1 \in 1 .. size
    BY <1>1, <1>4, <1>6
  <1> QED BY <1>7, <1>8 DEF base, size, a, c, m

\* As many blocks as n elements need hold them.
LEMMA BlocksHold ==
  ASSUME NEW n \in Nat
  PROVE  Blocks(n) \in Nat /\ n <= Blocks(n) * BlockElems
  <1> DEFINE b == BlockElems
             m == n + b - 1
             q == m \div b
             r == m % b
  <1>1. b \in Nat \ {0}
    BY BlockAssumption
  <1> HIDE DEF b
  <1>2. m \in Nat
    BY <1>1
  <1>3. q \in Nat /\ r \in 0 .. (b - 1) /\ m = q * b + r
    <2> HIDE DEF m
    <2> QED BY <1>1, <1>2, Division
  <1>4. Blocks(n) = q
    BY DEF Blocks, b
  <1> HIDE DEF q, r
  <1>5. q * b \in Nat
    BY <1>1, <1>3
  <1>6. n <= q * b
    BY <1>1, <1>3, <1>5
  <1> QED BY <1>3, <1>4, <1>6 DEF b

\* The elements of a Q8_0 tensor whose bytes start at an address, and those
\* that are made from a buffer.
Q8From(start, n) == LET byte(k) == start + k - 1 IN Q8Elements(byte, n)
Q8Of(buffer, n) == LET byte(k) == In(buffer, k) IN Q8Elements(byte, n)

\* What the read of a tensor leaves in the buffer: of the blocks that are read,
\* each element is made from its own bytes.
LEMMA ElementExact ==
  ASSUME file \in Files, DOMAIN scratch = 1 .. ScratchLen, NEW t \in Tensors,
         Info(t).type = "Q8_0", NEW n \in Nat, NEW e \in 1 .. n,
         e <= (Elems(t) \div BlockElems) * BlockElems
  PROVE  Q8Of(ReadTensor(t), n)[e] = Q8From(AbsOffset(t), n)[e]
  <1> DEFINE q == Elems(t) \div BlockElems
             buffer == ReadTensor(t)
             start == AbsOffset(t)
             size == q * BlockBytes
  <1>1. q \in Nat /\ ByteSize(t) = size /\ size \in Nat
    BY TensorFacts
  <1>2. \A k \in 1 .. size : In(buffer, k) = start + k - 1
    <2>1. ScratchLen \in Nat /\ size <= ScratchLen
      BY <1>1, LongestTensor
    <2>2. buffer = [k \in 1 .. ScratchLen |-> IF k <= size THEN start + k - 1 ELSE scratch[k]]
      BY <1>1 DEF ReadTensor
    <2> HIDE DEF buffer, size
    <2>3. \A k \in 1 .. size : k \in 1 .. ScratchLen /\ k <= size
      BY <1>1, <2>1
    <2> QED BY <2>2, <2>3 DEF In
  <1>3. e \in Nat \ {0} /\ e <= q * BlockElems
    OBVIOUS
  <1> HIDE DEF q, buffer, start
  <1> DEFINE base  == ((e - 1) \div BlockElems) * BlockBytes
             scale == BlockBytes - BlockElems
             last  == base + scale + ((e - 1) % BlockElems) + 1
  <1>4. (\A k \in 1 .. scale : base + k \in 1 .. size) /\ last \in 1 .. size
    BY <1>1, <1>3, BlockIndex
  <1>5. /\ Q8Of(buffer, n)[e] = {In(buffer, base + k) : k \in 1 .. scale} \cup {In(buffer, last)}
        /\ Q8From(start, n)[e] = {start + (base + k) - 1 : k \in 1 .. scale} \cup {start + last - 1}
    BY DEF Q8Of, Q8From, Q8Elements
  <1> HIDE DEF base, scale, last, size
  <1>6. /\ \A k \in 1 .. scale : In(buffer, base + k) = start + (base + k) - 1
        /\ In(buffer, last) = start + last - 1
    BY <1>2, <1>4
  <1> QED BY <1>5, <1>6 DEF buffer, start

\* A weight whose length is the expected one.
LEMMA WeightExact ==
  ASSUME file \in Files, DOMAIN scratch = 1 .. ScratchLen, NEW t \in Tensors,
         IsWeight(t), RawMatches(t)
  PROVE  Converted(t, ReadTensor(t)) = Q8From(AbsOffset(t), Plane(t))
  <1> DEFINE q == Elems(t) \div BlockElems
             b == Blocks(Plane(t))
             n == Plane(t)
  <1>1. n \in Nat /\ Info(t).type = "Q8_0"
    BY PlaneNat DEF IsWeight
  <1>2. q \in Nat /\ b \in Nat /\ n <= b * BlockElems /\ q * BlockBytes = b * BlockBytes
    BY <1>1, TensorFacts, BlocksHold DEF RawMatches
  <1> HIDE DEF q, b
  <1>3. q = b
    <2>1. BlockBytes \in Nat \ {0} /\ q * BlockBytes + 0 = b * BlockBytes + 0
      BY <1>2, BlockAssumption
    <2>2. 0 \in 0 .. (BlockBytes - 1)
      BY <2>1
    <2> QED BY <1>2, <2>1, <2>2, OneQuotient
  <1>4. \A e \in 1 .. n : e <= q * BlockElems
    <2>1. b * BlockElems \in Nat
      BY <1>2, BlockAssumption
    <2> QED BY <1>1, <1>2, <1>3, <2>1
  <1>5. \A e \in 1 .. n : Q8Of(ReadTensor(t), n)[e] = Q8From(AbsOffset(t), n)[e]
    BY <1>1, <1>4, ElementExact DEF q
  <1>6. Converted(t, ReadTensor(t)) = Q8Of(ReadTensor(t), n)
    BY DEF Converted, IsWeight, IsNorm, Q8Of
  <1>7. Q8Of(ReadTensor(t), n) = Q8From(AbsOffset(t), n)
    <2>1. /\ Q8Of(ReadTensor(t), n) = [e \in 1 .. n |-> Q8Of(ReadTensor(t), n)[e]]
          /\ Q8From(AbsOffset(t), n) = [e \in 1 .. n |-> Q8From(AbsOffset(t), n)[e]]
      BY DEF Q8Of, Q8From, Q8Elements
    <2> QED BY <1>5, <2>1
  <1> QED BY <1>6, <1>7

\* An embedding has its size, and the elements of the blocks that were read.
EmbeddingOf(t) ==
  /\ Len(embed) = Plane(t)
  /\ \A e \in 1 .. Plane(t) :
       e <= (Elems(t) \div BlockElems) * BlockElems =>
         embed[e] = Q8From(AbsOffset(t), Plane(t))[e]

LEMMA EmbeddingExact ==
  ASSUME file \in Files, DOMAIN scratch = 1 .. ScratchLen, NEW t \in Tensors,
         IsEmbedding(t, "Q8_0"), embed = <<>>, embed' = Embedded(t, ReadTensor(t))
  PROVE  /\ Len(embed') = Plane(t)
         /\ \A e \in 1 .. Plane(t) :
              e <= (Elems(t) \div BlockElems) * BlockElems =>
                embed'[e] = Q8From(AbsOffset(t), Plane(t))[e]
  <1> DEFINE n == Plane(t)
             m == Blocks(n) * BlockElems
             s == Q8Of(ReadTensor(t), m)
  <1>1. n \in Nat /\ Info(t).type = "Q8_0"
    BY PlaneNat DEF IsEmbedding
  <1>2. m \in Nat /\ n <= m
    <2> HIDE DEF n
    <2>1. Blocks(n) \in Nat /\ n <= m
      BY <1>1, BlocksHold
    <2>2. \A a, b \in Nat : a * b \in Nat
      OBVIOUS
    <2> QED BY <2>1, <2>2, BlockAssumption
  <1>3. embed' = SubSeq(<<>> \o s, 1, n)
    BY DEF Embedded, IsEmbedding, Q8Of
  <1>4. s = [e \in 1 .. m |-> s[e]]
    BY DEF Q8Of, Q8Elements
  <1>5. \A e \in 1 .. n : e <= (Elems(t) \div BlockElems) * BlockElems =>
          s[e] = Q8From(AbsOffset(t), n)[e]
    <2> SUFFICES ASSUME NEW e \in 1 .. n, e <= (Elems(t) \div BlockElems) * BlockElems
                 PROVE  s[e] = Q8From(AbsOffset(t), n)[e]
      OBVIOUS
    <2>1. e \in 1 .. m
      BY <1>1, <1>2
    <2>2. s[e] = Q8From(AbsOffset(t), m)[e]
      <3> HIDE DEF m
      <3> QED BY <1>1, <1>2, <2>1, ElementExact
    <2>3. Q8From(AbsOffset(t), m)[e] = Q8From(AbsOffset(t), n)[e]
      <3> HIDE DEF m, n
      <3> QED BY <2>1 DEF Q8From, Q8Elements
    <2> QED BY <2>2, <2>3
  <1> HIDE DEF s, m, n
  <1>6. s \in Seq({s[e] : e \in 1 .. m}) /\ Len(s) = m
    <2> DEFINE S == {s[e] : e \in 1 .. m}
    <2>1. s \in [1 .. m -> S]
      BY <1>4
    <2> HIDE DEF S
    <2>2. s \in Seq(S) /\ Len(s) = m
      BY <1>2, <2>1
    <2> QED BY <2>2 DEF S
  <1>7. <<>> \o s = s
    BY <1>6
  <1>8. Len(SubSeq(s, 1, n)) = n /\ \A e \in 1 .. n : SubSeq(s, 1, n)[e] = s[e]
    <2> DEFINE S == {s[e] : e \in 1 .. m}
    <2>1. s \in Seq(S)
      BY <1>6
    <2> HIDE DEF S
    <2> QED BY <1>1, <1>2, <1>6, <2>1
  <1> QED BY <1>3, <1>5, <1>7, <1>8 DEF n

\* The tensors up to idx are loaded from their own bytes; the buffer keeps its
\* length.
TensorInv ==
  /\ idx \in Nat \ {0}
  /\ outcome \in {"preamble", "pairs", "infos", "tokenizer"} => idx = 1 /\ embed = <<>>
  /\ DOMAIN loaded = Tensors
  /\ outcome = "tensors" => DOMAIN scratch = 1 .. ScratchLen
  /\ outcome = "ok" => idx > Len(file.tensors)
  /\ outcome \in {"tensors", "ok"} =>
       \A t \in Tensors :
         /\ t < idx /\ IsWeight(t) => loaded[t] = Q8From(AbsOffset(t), Plane(t))
         /\ OnlyEmbedding(t, "Q8_0") => IF t < idx THEN EmbeddingOf(t) ELSE embed = <<>>

LEMMA SameHeader ==
  ASSUME file' = file, pos' = pos
  PROVE  /\ Tensors' = Tensors /\ ScratchLen' = ScratchLen
         /\ \A t : /\ Info(t)' = Info(t) /\ AbsOffset(t)' = AbsOffset(t)
                   /\ Plane(t)' = Plane(t) /\ Elems(t)' = Elems(t)
                   /\ IsWeight(t)' = IsWeight(t)
                   /\ OnlyEmbedding(t, "Q8_0")' = OnlyEmbedding(t, "Q8_0")
                   /\ Q8From(AbsOffset(t), Plane(t))' = Q8From(AbsOffset(t), Plane(t))
  <1>1. Tensors' = Tensors /\ \A t : Info(t)' = Info(t) /\ Dims(t)' = Dims(t)
    BY DEF Tensors, Info, Dims
  <1>2. \A t : Elems(t)' = Elems(t) /\ Plane(t)' = Plane(t)
    BY <1>1 DEF Elems, Plane
  <1>3. ScratchLen' = ScratchLen
    BY <1>1, <1>2 DEF ScratchLen, ByteSize
  <1>4. DataStart' = DataStart
    BY DEF DataStart, RoundUp, Alignment, PairsWith, Lookup
  <1>5. \A t : AbsOffset(t)' = AbsOffset(t)
    BY <1>1, <1>4 DEF AbsOffset
  <1>6. \A t : IsWeight(t)' = IsWeight(t)
    BY <1>1 DEF IsWeight, HasShape
  <1>7. \A t : OnlyEmbedding(t, "Q8_0")' = OnlyEmbedding(t, "Q8_0")
    BY <1>1 DEF OnlyEmbedding, IsEmbedding, HasShape
  <1>8. \A t : Q8From(AbsOffset(t), Plane(t))' = Q8From(AbsOffset(t), Plane(t))
    BY <1>2, <1>5 DEF Q8From, Q8Elements
  <1> QED BY <1>1, <1>2, <1>3, <1>5, <1>6, <1>7, <1>8

LEMMA SameEmbedding ==
  ASSUME file' = file, pos' = pos, embed' = embed
  PROVE  \A t : EmbeddingOf(t)' = EmbeddingOf(t)
  BY SameHeader DEF EmbeddingOf

LEMMA LoadTensorInv ==
  ASSUME file \in Files, TensorInv, LoadTensor
  PROVE  TensorInv'
  <1>1. /\ outcome = "tensors" /\ idx <= Len(file.tensors) /\ Reads(idx)
        /\ scratch' = ReadTensor(idx)
        /\ file' = file /\ pos' = pos
    BY DEF LoadTensor, Loading, header
  <1>2. idx \in Tensors /\ idx \in Nat \ {0} /\ DOMAIN loaded = Tensors
    BY <1>1, FileFacts DEF TensorInv, Tensors
  <1>3. DOMAIN scratch = 1 .. ScratchLen
    BY <1>1 DEF TensorInv
  <1>4. DOMAIN scratch' = 1 .. ScratchLen
    BY <1>1, <1>3 DEF ReadTensor
  <1>5. CASE IsWeight(idx) /\ ~ RawMatches(idx)
    <2>1. outcome' = "panic" /\ idx' = idx /\ loaded' = loaded
      BY <1>5 DEF LoadTensor
    <2> QED BY <1>1, <1>2, <2>1, SameHeader DEF TensorInv
  <1>6. CASE ~ (IsWeight(idx) /\ ~ RawMatches(idx))
    <2>1. /\ loaded' = [loaded EXCEPT ![idx] = Converted(idx, ReadTensor(idx))]
          /\ embed' = Embedded(idx, ReadTensor(idx))
          /\ idx' = idx + 1 /\ outcome' = outcome
      BY <1>6 DEF LoadTensor
    <2>2. ASSUME NEW t \in Tensors, t < idx', t # idx
          PROVE  t < idx
      BY <1>2, <2>1, <2>2, FileFacts DEF Tensors
    <2>3. ASSUME NEW t \in Tensors, t < idx', IsWeight(t)
          PROVE  loaded'[t] = Q8From(AbsOffset(t), Plane(t))
      <3>1. CASE t = idx
        BY <1>2, <1>3, <1>6, <2>1, <2>3, <3>1, WeightExact
      <3>2. CASE t # idx
        <4>1. loaded[t] = Q8From(AbsOffset(t), Plane(t))
          BY <1>1, <2>2, <2>3, <3>2 DEF TensorInv
        <4> QED BY <2>1, <3>2, <4>1
      <3> QED BY <3>1, <3>2
    <2>4. ASSUME NEW t \in Tensors, OnlyEmbedding(t, "Q8_0")
          PROVE  IF t < idx' THEN EmbeddingOf(t)' ELSE embed' = <<>>
      <3>0. IF t < idx THEN EmbeddingOf(t) ELSE embed = <<>>
        BY <1>1, <2>4 DEF TensorInv
      <3>1. CASE t = idx
        <4>1. embed = <<>> /\ t < idx'
          BY <1>2, <2>1, <3>0, <3>1
        <4>2. IsEmbedding(t, "Q8_0")
          BY <2>4 DEF OnlyEmbedding
        <4>3. /\ Len(embed') = Plane(t)
              /\ \A e \in 1 .. Plane(t) :
                   e <= (Elems(t) \div BlockElems) * BlockElems =>
                     embed'[e] = Q8From(AbsOffset(t), Plane(t))[e]
          BY <1>3, <2>1, <3>1, <4>1, <4>2, EmbeddingExact
        <4>4. EmbeddingOf(t)'
          BY <1>1, <4>3, SameHeader DEF EmbeddingOf
        <4> QED BY <4>1, <4>4
      <3>2. CASE t # idx
        <4>1. Info(idx).kind # "embd"
          BY <1>2, <2>4, <3>2 DEF OnlyEmbedding
        <4>2. embed' = embed
          BY <2>1, <4>1 DEF Embedded, IsEmbedding
        <4>3. t < idx' <=> t < idx
          BY <1>2, <2>1, <2>2, <3>2, FileFacts DEF Tensors
        <4> QED BY <1>1, <3>0, <4>2, <4>3, SameEmbedding
      <3> QED BY <3>1, <3>2
    <2>5. DOMAIN loaded' = Tensors /\ idx' \in Nat \ {0}
      BY <1>2, <2>1
    <2>6. /\ \A t \in Tensors : t < idx' /\ IsWeight(t)' =>
                loaded'[t] = Q8From(AbsOffset(t), Plane(t))'
          /\ \A t \in Tensors : OnlyEmbedding(t, "Q8_0")' =>
                IF t < idx' THEN EmbeddingOf(t)' ELSE embed' = <<>>
      BY <1>1, <2>3, <2>4, SameHeader
    <2> QED BY <1>1, <1>4, <2>1, <2>5, <2>6, SameHeader DEF TensorInv
  <1> QED BY <1>5, <1>6

LEMMA NextTensorInv == HeaderInv /\ TensorInv /\ [Next]_vars => TensorInv'
  <1> SUFFICES ASSUME HeaderInv, TensorInv, [Next]_vars PROVE TensorInv'
    OBVIOUS
  <1>1. file \in Files
    BY DEF HeaderInv
  <1>2. ASSUME file' = file, pos' = pos, idx' = idx, loaded' = loaded, embed' = embed,
               \/ outcome' \in {"err", "panic"}
               \/ outcome' = outcome /\ scratch' = scratch
               \/ outcome = "tensors" /\ outcome' = "ok" /\ idx > Len(file.tensors)
        PROVE  TensorInv'
    BY <1>2, SameHeader, SameEmbedding DEF TensorInv
  <1>3. CASE ReadHeader
    <2>1. /\ file' = file /\ idx' = idx /\ loaded' = loaded /\ embed' = embed
          /\ outcome \in {"preamble", "pairs", "infos"}
          /\ outcome' \in {"pairs", "infos", "tokenizer", "err", "panic"}
      BY <1>3 DEF ReadHeader, OpenStep, ReadPreamble, ReadPair, PairsDone, ReadInfo, InfosDone,
                  HeaderFails, AlignmentPanics, PairsLeft, InfosLeft, tensorVars
    <2>2. Tensors' = Tensors
      BY <2>1 DEF Tensors
    <2> QED BY <2>1, <2>2 DEF TensorInv
  <1>4. CASE NotPrepared
    <2>1. /\ file' = file /\ pos' = pos /\ idx' = idx /\ loaded' = loaded /\ embed' = embed
          /\ outcome' \in {"err", "panic"}
      BY <1>4 DEF NotPrepared, header, tensorVars
    <2> QED BY <1>2, <2>1
  <1>5. CASE Prepare
    <2>1. /\ file' = file /\ pos' = pos /\ idx' = idx /\ loaded' = loaded /\ embed' = embed
          /\ outcome = "tokenizer" /\ outcome' = "tensors"
          /\ scratch' = [k \in 1 .. ScratchLen |-> Stray]
      BY <1>5 DEF Prepare, header
    <2>2. DOMAIN scratch' = 1 .. ScratchLen
      BY <2>1
    <2>3. idx = 1 /\ embed = <<>> /\ \A t \in Tensors : ~ (t < 1)
      BY <1>1, <2>1, FileFacts DEF TensorInv, Tensors
    <2> QED BY <2>1, <2>2, <2>3, SameHeader DEF TensorInv
  <1>6. CASE SkipTensor
    <2>1. /\ file' = file /\ pos' = pos /\ idx' = idx + 1 /\ loaded' = loaded /\ embed' = embed
          /\ scratch' = scratch /\ outcome' = outcome /\ outcome = "tensors"
          /\ idx \in Nat \ {0} /\ ~ Reads(idx)
      BY <1>6 DEF SkipTensor, Loading, header, TensorInv
    <2>2. \A t \in Tensors : IsWeight(t) \/ OnlyEmbedding(t, "Q8_0") => (t < idx + 1 <=> t < idx)
      <3>1. ~ IsWeight(idx) /\ ~ OnlyEmbedding(idx, "Q8_0")
        BY <2>1 DEF Reads, IsWeight, OnlyEmbedding, IsEmbedding
      <3>2. \A t \in Tensors : t \in Nat
        BY <1>1, FileFacts DEF Tensors
      <3> QED BY <2>1, <3>1, <3>2
    <2> QED BY <2>1, <2>2, SameHeader, SameEmbedding DEF TensorInv
  <1>7. CASE ReadFails
    <2>1. /\ file' = file /\ pos' = pos /\ idx' = idx /\ loaded' = loaded /\ embed' = embed
          /\ outcome' = "err"
      BY <1>7 DEF ReadFails, header, tensorVars
    <2> QED BY <1>2, <2>1
  <1>8. CASE LoadTensor
    BY <1>1, <1>8, LoadTensorInv
  <1>9. CASE Finish
    <2>1. /\ file' = file /\ pos' = pos /\ idx' = idx /\ loaded' = loaded /\ embed' = embed
          /\ outcome' = "ok" /\ outcome = "tensors" /\ idx > Len(file.tensors)
      BY <1>9 DEF Finish, header, tensorVars
    <2> QED BY <1>2, <2>1
  <1>10. CASE EncodeWord \/ EncodeStep \/ UNCHANGED vars
    <2>1. /\ file' = file /\ pos' = pos /\ idx' = idx /\ loaded' = loaded /\ embed' = embed
          /\ scratch' = scratch /\ outcome' = outcome
      BY <1>10 DEF EncodeWord, EncodeStep, vars, header, tensorVars
    <2> QED BY <1>2, <2>1
  <1> QED BY <1>3, <1>4, <1>5, <1>6, <1>7, <1>8, <1>9, <1>10 DEF Next, LoadStep

LEMMA TensorInvariant == Spec => []TensorInv
  <1>1. Init => TensorInv
    BY DEF Init, TensorInv
  <1> QED BY <1>1, NextTensorInv, HeaderInvariant, PTL DEF Spec

\* Of every model that loads, the Q8_0 weights, and of an only embedding all
\* elements in blocks that were read, are made from their own bytes and scales,
\* for tensors of any dimensions, blocks of any size and any number of tensors.
THEOREM Q8AlwaysComplete == Spec => []Q8Complete
  <1>1. HeaderInv /\ TensorInv => Q8Complete
    <2> SUFFICES ASSUME HeaderInv, TensorInv, outcome = "ok", Alignment \in PowersOfTwo,
                        NEW t \in Tensors
                 PROVE  LET own(k) == OwnByte(t, k)
                        IN  /\ IsWeight(t) => loaded[t] = Q8Elements(own, Plane(t))
                            /\ OnlyEmbedding(t, "Q8_0") =>
                                 /\ Len(embed) = Plane(t)
                                 /\ \A e \in 1 .. Plane(t) :
                                      e <= (Elems(t) \div BlockElems) * BlockElems =>
                                        embed[e] = Q8Elements(own, Plane(t))[e]
      BY DEF Q8Complete
    <2>1. t < idx
      <3>1. file \in Files /\ idx \in Nat /\ idx > Len(file.tensors)
        BY DEF HeaderInv, TensorInv
      <3> QED BY <3>1, FileFacts DEF Tensors
    <2>2. /\ IsWeight(t) => loaded[t] = Q8From(AbsOffset(t), Plane(t))
          /\ OnlyEmbedding(t, "Q8_0") => EmbeddingOf(t)
      BY <2>1 DEF TensorInv
    <2>3. AbsOffset(t) = WrittenDataStart + Info(t).offset
      BY HeaderInvExact DEF HeaderExact, AbsOffset
    <2>4. (LET own(k) == OwnByte(t, k) IN Q8Elements(own, Plane(t))) = Q8From(AbsOffset(t), Plane(t))
      BY <2>3 DEF Q8From, Q8Elements, OwnByte
    <2> QED BY <2>2, <2>4 DEF EmbeddingOf
  <1> QED BY <1>1, HeaderInvariant, TensorInvariant, PTL

-----------------------------------------------------------------------------
(***************************************************************************)
(* Words.  A word is cut into tokens; a merge joins two of them.           *)
(***************************************************************************)
Cuts(v) == Seq({token \in TokenSet(v) : token # <<>>})

\* A vocabulary as from_gguf accepts it.
Accepted(v) == IsVocabulary(v) /\ Len(v.tokens) = Len(Scores(v))

LEMMA TokensAreSequences ==
  ASSUME NEW v, IsVocabulary(v)
  PROVE  \E X : TokenSet(v) \subseteq Seq(X)
  <1>1. \A X : v.tokens \in Seq(X) => TokenSet(v) \subseteq X
    BY DEF TokenSet, Range
  <1> QED BY <1>1 DEF IsVocabulary

LEMMA CutFacts ==
  ASSUME NEW v, NEW ps \in Cuts(v)
  PROVE  /\ Len(ps) \in Nat
         /\ \A k \in 1 .. Len(ps) : ps[k] \in TokenSet(v) /\ ps[k] # <<>>
  BY DEF Cuts

LEMMA JoinedFacts ==
  ASSUME NEW v, IsVocabulary(v), NEW ps \in Cuts(v), NEW k \in 1 .. (Len(ps) - 1)
  PROVE  LET token == Joined(ps, k)
         IN  /\ Len(ps[k]) \in 1 .. (Len(token) - 1) /\ Len(token) > 1
             /\ token # <<>>
             /\ Left(token, Len(ps[k])) = ps[k]
             /\ Right(token, Len(ps[k])) = ps[k + 1]
  <1>1. PICK X : TokenSet(v) \subseteq Seq(X)
    BY TokensAreSequences
  <1> DEFINE a == ps[k]
             b == ps[k + 1]
  <1>2. k \in 1 .. Len(ps) /\ k + 1 \in 1 .. Len(ps)
    BY CutFacts
  <1>3. a \in Seq(X) /\ b \in Seq(X) /\ a # <<>> /\ b # <<>>
    BY <1>1, <1>2, CutFacts
  <1>4. Joined(ps, k) = a \o b
    BY DEF Joined
  <1> HIDE DEF a, b
  <1>5. Len(a) \in Nat \ {0} /\ Len(b) \in Nat \ {0} /\ Len(a \o b) = Len(a) + Len(b)
    BY <1>3, EmptySeq, LenProperties, ConcatProperties
  <1>6. SubSeq(a \o b, 1, Len(a)) = a /\ SubSeq(a \o b, Len(a) + 1, Len(a) + Len(b)) = b
    BY <1>3, SubSeqOfConcat1, SubSeqOfConcat2
  <1>7. a \o b # <<>>
    BY <1>5, EmptySeq
  <1> DEFINE token == Joined(ps, k)
  <1>8. Len(token) = Len(a) + Len(b) /\ token # <<>>
    BY <1>4, <1>5, <1>7
  <1>9. Left(token, Len(a)) = a /\ Right(token, Len(a)) = b
    BY <1>4, <1>6, <1>8 DEF Left, Right
  <1> HIDE DEF token
  <1>10. Len(a) \in 1 .. (Len(token) - 1) /\ Len(token) > 1
    BY <1>5, <1>8
  <1> QED BY <1>8, <1>9, <1>10 DEF token, a, b

\* What a rule merges is a token.
LEMMA RuleFacts ==
  ASSUME NEW v, NEW ps, NEW k \in Mergeable(v, ps)
  PROVE  k \in Makes(v, ps)
  BY DEF Mergeable, Makes, IsRule, HasRule, Joined

LEMMA MergedFacts ==
  ASSUME NEW v, IsVocabulary(v), NEW ps \in Cuts(v), NEW k \in Makes(v, ps)
  PROVE  /\ k \in 1 .. (Len(ps) - 1)
         /\ MergedAt(ps, k) \in Cuts(v)
         /\ Len(MergedAt(ps, k)) = Len(ps) - 1
  <1> DEFINE T == {token \in TokenSet(v) : token # <<>>}
             a == SubSeq(ps, 1, k - 1)
             b == <<Joined(ps, k)>>
             c == SubSeq(ps, k + 2, Len(ps))
  <1>1. k \in 1 .. (Len(ps) - 1) /\ Len(ps) \in Nat
    BY CutFacts DEF Makes
  <1>2. \A j \in 1 .. Len(ps) : ps[j] \in T
    BY CutFacts
  <1>3. Joined(ps, k) \in T
    BY <1>1, JoinedFacts DEF Makes
  <1> HIDE DEF T
  <1>4. a \in Seq(T) /\ Len(a) = k - 1
    <2>1. \A j \in 1 .. (k - 1) : ps[j] \in T
      BY <1>1, <1>2
    <2>2. Len(a) = IF 1 <= k - 1 THEN (k - 1) - 1 + 1 ELSE 0
      BY <1>1, <2>1, SubSeqProperties
    <2> QED BY <1>1, <2>1, <2>2, SubSeqProperties
  <1>5. c \in Seq(T) /\ Len(c) = Len(ps) - k - 1
    <2>1. \A j \in (k + 2) .. Len(ps) : ps[j] \in T
      BY <1>1, <1>2
    <2>2. Len(c) = IF k + 2 <= Len(ps) THEN Len(ps) - (k + 2) + 1 ELSE 0
      BY <1>1, <2>1, SubSeqProperties
    <2> QED BY <1>1, <2>1, <2>2, SubSeqProperties
  <1>6. b \in Seq(T) /\ Len(b) = 1
    BY <1>3
  <1> HIDE DEF a, b, c
  <1>7. (a \o b) \in Seq(T) /\ Len(a \o b) = Len(a) + Len(b)
    BY <1>4, <1>6, ConcatProperties
  <1> DEFINE d == a \o b
  <1>8. d \in Seq(T) /\ Len(d) = k
    BY <1>1, <1>4, <1>6, <1>7
  <1> HIDE DEF d
  <1>9. d \o c \in Seq(T) /\ Len(d \o c) = Len(d) + Len(c)
    BY <1>5, <1>8, ConcatProperties
  <1>10. Len(d \o c) = Len(ps) - 1
    BY <1>1, <1>5, <1>8, <1>9
  <1> QED BY <1>1, <1>9, <1>10 DEF MergedAt, Cuts, T, a, b, c, d

LEMMA ScoreFacts ==
  ASSUME NEW v, Accepted(v), NEW token \in TokenSet(v)
  PROVE  /\ IdOf(v, token) \in Ids(v) /\ v.tokens[IdOf(v, token)] = token
         /\ Scores(v)[IdOf(v, token)] \in Int
  <1>1. \E id \in Ids(v) : v.tokens[id] = token
    BY DEF TokenSet, Ids, Range
  <1>2. IdOf(v, token) \in Ids(v) /\ v.tokens[IdOf(v, token)] = token
    BY <1>1 DEF IdOf
  <1>3. ASSUME NEW id \in Ids(v) PROVE Scores(v)[id] \in Int
    <2>1. CASE v.scores = {}
      BY <1>3, <2>1 DEF Scores
    <2>2. CASE v.scores # {}
      <3>1. Scores(v) \in Seq(Int)
        BY <2>2 DEF Scores, Accepted, IsVocabulary
      <3>2. id \in 1 .. Len(Scores(v))
        <4>1. Ids(v) = 1 .. Len(v.tokens)
          BY DEF Ids, Accepted, IsVocabulary
        <4> QED BY <1>3, <4>1 DEF Accepted
      <3> QED BY <3>1, <3>2, ElementOfSeq
    <2> QED BY <2>1, <2>2
  <1> QED BY <1>2, <1>3

\* Only one learned token has a score.
LEMMA OneOfAScore ==
  ASSUME NEW v, DistinctScores(v), NEW i \in Learned(v), NEW j \in Learned(v),
         Scores(v)[i] = Scores(v)[j]
  PROVE  i = j
  <1> DEFINE f == Restrict(Scores(v), Learned(v))
  <1>1. i \in DOMAIN f /\ j \in DOMAIN f /\ f[i] = f[j]
    BY DEF Restrict
  <1>2. IsInjective(f)
    BY DEF DistinctScores
  <1> HIDE DEF f
  <1> QED BY <1>1, <1>2 DEF IsInjective

\* Where SentencePiece merges.
Top(v, ps) ==
  {k \in Makes(v, ps) : \A j \in Makes(v, ps) : ScoreAt(v, ps, k) >= ScoreAt(v, ps, j)}

LEMMA TopFacts ==
  ASSUME NEW v, Accepted(v), NEW ps \in Cuts(v), Makes(v, ps) # {}
  PROVE  Min(Top(v, ps)) \in Top(v, ps) /\ \A k \in Top(v, ps) : Min(Top(v, ps)) <= k
  <1> DEFINE S == {ScoreAt(v, ps, k) : k \in Makes(v, ps)}
             f == [k \in Makes(v, ps) |-> ScoreAt(v, ps, k)]
  <1>1. Makes(v, ps) \subseteq 1 .. Len(ps) /\ IsFiniteSet(Makes(v, ps))
    <2>1. Makes(v, ps) \subseteq 1 .. Len(ps) /\ IsFiniteSet(1 .. Len(ps))
      BY CutFacts, FS_Interval DEF Makes
    <2> QED BY <2>1, FS_Subset
  <1>2. S \subseteq Int /\ S # {}
    <2>1. \A k \in Makes(v, ps) : ScoreAt(v, ps, k) \in Int
      BY ScoreFacts DEF Makes, ScoreAt
    <2> QED BY <2>1
  <1>3. IsFiniteSet(S)
    <2>1. f \in Surjection(Makes(v, ps), S)
      BY DEF Surjection
    <2> HIDE DEF f, S
    <2> QED BY <1>1, <2>1, FS_Surjection
  <1>4. Max(S) \in S /\ \A y \in S : y <= Max(S)
    <2> HIDE DEF S
    <2> QED BY <1>2, <1>3, HasMax
  <1>5. PICK k \in Makes(v, ps) : ScoreAt(v, ps, k) = Max(S)
    BY <1>4
  <1>6. \A j \in Makes(v, ps) : ScoreAt(v, ps, k) >= ScoreAt(v, ps, j)
    <2>1. \A j \in Makes(v, ps) : ScoreAt(v, ps, j) \in S
      OBVIOUS
    <2>2. \A x, y \in Int : x <= y => y >= x
      OBVIOUS
    <2> HIDE DEF S
    <2> QED BY <1>2, <1>4, <1>5, <2>1, <2>2
  <1>7. k \in Top(v, ps)
    BY <1>6 DEF Top
  <1>8. IsFiniteSet(Top(v, ps)) /\ Top(v, ps) \subseteq Int
    <2>1. Top(v, ps) \subseteq Makes(v, ps)
      BY DEF Top
    <2> QED BY <1>1, <2>1, FS_Subset
  <1> QED BY <1>7, <1>8, HasMin

LEMMA DeriveFacts ==
  ASSUME NEW v, NEW d
  PROVE  LET ps == d.pieces
             k == Min(Top(v, ps))
         IN  /\ Makes(v, ps) = {} => DeriveStep(v, d) = d
             /\ Makes(v, ps) # {} =>
                  /\ DeriveStep(v, d).pieces = MergedAt(ps, k)
                  /\ DeriveStep(v, d).ruled <=> d.ruled /\ IsRule(v, ps[k], ps[k + 1])
  BY DEF DeriveStep, Top

LEMMA RuledStep ==
  ASSUME NEW v, NEW d, DeriveStep(v, d).ruled
  PROVE  /\ d.ruled
         /\ Makes(v, d.pieces) # {} =>
              LET k == Min(Top(v, d.pieces))
              IN  /\ DeriveStep(v, d).pieces = MergedAt(d.pieces, k)
                  /\ IsRule(v, d.pieces[k], d.pieces[k + 1])
  <1>1. CASE Makes(v, d.pieces) = {}
    <2>1. DeriveStep(v, d) = d
      BY <1>1, DeriveFacts
    <2> QED BY <1>1, <2>1
  <1>2. CASE Makes(v, d.pieces) # {}
    BY <1>2, DeriveFacts
  <1> QED BY <1>1, <1>2

\* If it merges by a rule, the crate merges the same pair.
LEMMA SameMerge ==
  ASSUME NEW v, Accepted(v), DistinctScores(v), NEW ps \in Cuts(v),
         Min(Top(v, ps)) \in Mergeable(v, ps), NEW k, IsBestMerge(v, ps, k)
  PROVE  k = Min(Top(v, ps))
  <1> DEFINE m == Min(Top(v, ps))
  <1>1. k \in Mergeable(v, ps)
    BY DEF IsBestMerge
  <1>2. k \in Makes(v, ps) /\ m \in Makes(v, ps)
    BY <1>1, RuleFacts DEF Mergeable, Accepted
  <1>3. /\ m \in Top(v, ps) /\ \A j \in Top(v, ps) : m <= j
    BY <1>2, TopFacts
  <1> SUFFICES ASSUME k # m PROVE FALSE
    OBVIOUS
  <1>4. \/ Better(v, Joined(ps, k), Joined(ps, m))
        \/ Joined(ps, k) = Joined(ps, m) /\ k < m
    BY DEF IsBestMerge
  <1> DEFINE i == IdOf(v, Joined(ps, k))
             j == IdOf(v, Joined(ps, m))
  <1>5. /\ ScoreAt(v, ps, k) = Scores(v)[i] /\ ScoreAt(v, ps, m) = Scores(v)[j]
        /\ Joined(ps, k) \in TokenSet(v) /\ Joined(ps, m) \in TokenSet(v)
    BY <1>2 DEF ScoreAt, Makes
  <1>6. /\ i \in Ids(v) /\ v.tokens[i] = Joined(ps, k) /\ Scores(v)[i] \in Int
        /\ j \in Ids(v) /\ v.tokens[j] = Joined(ps, m) /\ Scores(v)[j] \in Int
    BY <1>5, ScoreFacts
  <1>7. i \in Learned(v) /\ j \in Learned(v)
    <2>1. Len(Joined(ps, k)) > 1 /\ Len(Joined(ps, m)) > 1
      BY <1>2, JoinedFacts DEF Makes, Accepted
    <2> QED BY <1>6, <2>1 DEF Learned
  <1>8. Scores(v)[j] >= Scores(v)[i]
    BY <1>2, <1>3, <1>5 DEF Top
  <1>9. CASE Better(v, Joined(ps, k), Joined(ps, m))
    <2>1. Scores(v)[i] > Scores(v)[j] \/ (Scores(v)[i] = Scores(v)[j] /\ i < j)
      BY <1>9 DEF Better
    <2>2. Scores(v)[i] = Scores(v)[j] /\ i < j
      <3> DEFINE x == Scores(v)[i]
                 y == Scores(v)[j]
      <3> HIDE DEF x, y, i, j
      <3>1. x \in Int /\ y \in Int /\ y >= x /\ (x > y \/ (x = y /\ i < j))
        BY <1>6, <1>8, <2>1 DEF x, y
      <3>2. x = y /\ i < j
        BY <3>1
      <3> QED BY <3>2 DEF x, y
    <2>3. i = j
      BY <1>7, <2>2, OneOfAScore
    <2>4. i \in Nat
      BY <1>6 DEF Ids, Accepted, IsVocabulary
    <2> QED BY <2>2, <2>3, <2>4
  <1>10. CASE Joined(ps, k) = Joined(ps, m) /\ k < m
    <2>1. ScoreAt(v, ps, k) = ScoreAt(v, ps, m)
      BY <1>10 DEF ScoreAt
    <2>2. k \in Top(v, ps)
      BY <1>2, <1>3, <2>1 DEF Top
    <2>3. m <= k /\ k \in Int /\ m \in Int
      BY <1>2, <1>3, <2>2, CutFacts DEF Makes
    <2> QED BY <1>10, <2>3
  <1> QED BY <1>4, <1>9, <1>10

Derives(D, v, w) ==
  /\ D[0] = [pieces |-> Characters(w), ruled |-> TRUE]
  /\ \A n \in 0 .. (Len(w) - 1) : D[n + 1] = DeriveStep(v, D[n])

LEMMA DerivationDef ==
  ASSUME NEW v, NEW w, Len(w) \in Nat
  PROVE  Derives(Derivation(v, w), v, w)
  <1> DEFINE d0 == [pieces |-> Characters(w), ruled |-> TRUE]
  <1>1. FiniteNatInductiveDefHypothesis(Derivation(v, w), d0, LAMBDA d, n : DeriveStep(v, d),
                                        0, Len(w))
    BY DEF FiniteNatInductiveDefHypothesis, Derivation
  <1>2. FiniteNatInductiveDefConclusion(Derivation(v, w), d0, LAMBDA d, n : DeriveStep(v, d),
                                        0, Len(w))
    BY <1>1, FiniteNatInductiveDef
  <1>3. Derivation(v, w) = [n \in 0 .. Len(w) |->
                             IF n = 0 THEN d0 ELSE DeriveStep(v, Derivation(v, w)[n - 1])]
    BY <1>2 DEF FiniteNatInductiveDefConclusion
  <1> DEFINE derived == Derivation(v, w)
  <1> HIDE DEF derived, d0
  <1>4. derived[0] = d0
    BY <1>3 DEF derived
  <1>5. ASSUME NEW n \in 0 .. (Len(w) - 1) PROVE derived[n + 1] = DeriveStep(v, derived[n])
    <2>1. n + 1 \in 0 .. Len(w) /\ n + 1 # 0 /\ (n + 1) - 1 = n
      OBVIOUS
    <2>2. derived[n + 1] = DeriveStep(v, derived[(n + 1) - 1])
      BY <1>3, <2>1 DEF derived
    <2> QED BY <2>1, <2>2
  <1>6. Derives(derived, v, w)
    BY <1>4, <1>5 DEF Derives, d0
  <1> QED BY <1>6 DEF derived

\* If all merges of a derivation are by rules, so are those of its beginning.
LEMMA RuledFromStart ==
  ASSUME NEW v, NEW w, Len(w) \in Nat, Derivation(v, w)[Len(w)].ruled
  PROVE  \A n \in 0 .. Len(w) : Derivation(v, w)[n].ruled
  <1> DEFINE D == Derivation(v, w)
             L == Len(w)
  <1>1. ASSUME NEW n \in 0 .. (L - 1), D[n + 1].ruled PROVE D[n].ruled
    <2>0. Derives(D, v, w)
      BY DerivationDef
    <2> HIDE DEF D
    <2>1. D[n + 1] = DeriveStep(v, D[n])
      BY <2>0 DEF Derives
    <2>2. DeriveStep(v, D[n]).ruled
      BY <1>1, <2>1
    <2> QED BY <2>2, RuledStep
  <1> DEFINE Good == {m \in Nat : m <= L => D[L - m].ruled}
  <1>2. 0 \in Good
    <2>1. L - 0 = L /\ D[L].ruled
      OBVIOUS
    <2> HIDE DEF D
    <2> QED BY <2>1
  <1>3. ASSUME NEW m \in Nat, m \in Good PROVE m + 1 \in Good
    <2> HIDE DEF D, L
    <2>1. L \in Nat
      BY DEF L
    <2>2. CASE m + 1 <= L
      <3>1. L - (m + 1) \in 0 .. (L - 1) /\ (L - (m + 1)) + 1 = L - m /\ m <= L
        BY <2>1, <2>2
      <3>2. D[L - m].ruled
        BY <1>3, <3>1
      <3>3. D[L - (m + 1)].ruled
        BY <1>1, <3>1, <3>2
      <3> QED BY <3>3
    <2>3. CASE ~ (m + 1 <= L)
      BY <2>3
    <2> QED BY <2>2, <2>3
  <1> HIDE DEF Good
  <1>4. Nat \subseteq Good
    BY <1>2, <1>3, NatInductionOnSets
  <1>5. ASSUME NEW n \in 0 .. L PROVE D[n].ruled
    <2>1. L - n \in Nat /\ L - n <= L /\ L - (L - n) = n
      OBVIOUS
    <2>2. L - n \in Good
      BY <1>4, <2>1
    <2> HIDE DEF D, L
    <2> QED BY <2>1, <2>2 DEF Good
  <1> QED BY <1>5

\* When nothing can be merged the derivation is at its end.
LEMMA DerivationEnds ==
  ASSUME NEW v, NEW w, Len(w) \in Nat, NEW n \in 0 .. Len(w),
         Makes(v, Derivation(v, w)[n].pieces) = {}
  PROVE  Derivation(v, w)[Len(w)] = Derivation(v, w)[n]
  <1> DEFINE D == Derivation(v, w)
             L == Len(w)
             Good == {m \in Nat : n + m <= L => D[n + m] = D[n]}
  <1>0. L \in Nat /\ n \in 0 .. L /\ \A m \in 0 .. (L - 1) : D[m + 1] = DeriveStep(v, D[m])
    BY DerivationDef DEF Derives
  <1>00. Makes(v, D[n].pieces) = {}
    OBVIOUS
  <1> HIDE DEF D, L
  <1>1. 0 \in Good
    BY <1>0
  <1>2. ASSUME NEW m \in Nat, m \in Good PROVE m + 1 \in Good
    <2>1. CASE n + (m + 1) <= L
      <3>1. n + m \in 0 .. (L - 1) /\ n + (m + 1) = (n + m) + 1 /\ n + m <= L
        BY <1>0, <2>1
      <3>2. D[n + (m + 1)] = DeriveStep(v, D[n + m]) /\ D[n + m] = D[n]
        BY <1>0, <1>2, <3>1
      <3>3. DeriveStep(v, D[n]) = D[n]
        BY <1>00, DeriveFacts
      <3> QED BY <3>2, <3>3
    <2>2. CASE ~ (n + (m + 1) <= L)
      BY <2>2
    <2> QED BY <2>1, <2>2
  <1> HIDE DEF Good
  <1>3. Nat \subseteq Good
    BY <1>1, <1>2, NatInductionOnSets
  <1>4. L - n \in Nat /\ n + (L - n) = L
    BY <1>0
  <1>5. L - n \in Good
    BY <1>3, <1>4
  <1> QED BY <1>4, <1>5 DEF Good, D, L

\* The pieces are those of SentencePiece after as many merges, if it merges by
\* rules.
Follows(v, w, ps) ==
  \E n \in 0 .. Len(w) :
    /\ Len(ps) = Len(w) - n
    /\ Derivation(v, w)[Len(w)].ruled => Derivation(v, w)[n].pieces = ps

LEMMA FollowsFirst ==
  ASSUME NEW v, NEW w \in Seq(Alphabet(v))
  PROVE  /\ Characters(w) \in Cuts(v)
         /\ Follows(v, w, Characters(w))
  <1>1. Len(w) \in Nat /\ DOMAIN w = 1 .. Len(w) /\ \A k \in 1 .. Len(w) : w[k] \in Alphabet(v)
    OBVIOUS
  <1> DEFINE T == {token \in TokenSet(v) : token # <<>>}
             c == Characters(w)
  <1>2. \A k \in 1 .. Len(w) : <<w[k]>> \in T
    BY <1>1 DEF Alphabet
  <1>3. c \in [1 .. Len(w) -> T]
    BY <1>1, <1>2 DEF Characters
  <1> HIDE DEF T, c
  <1>4. c \in Seq(T) /\ Len(c) = Len(w)
    BY <1>1, <1>3
  <1>5. Derivation(v, w)[0].pieces = c
    <2>1. Derivation(v, w)[0] = [pieces |-> Characters(w), ruled |-> TRUE]
      BY <1>1, DerivationDef DEF Derives
    <2> QED BY <2>1 DEF c
  <1>6. 0 \in 0 .. Len(w) /\ Len(c) = Len(w) - 0
    BY <1>1, <1>4
  <1>7. Follows(v, w, c)
    BY <1>5, <1>6 DEF Follows
  <1> QED BY <1>4, <1>7 DEF Cuts, T, c

LEMMA FollowsNext ==
  ASSUME NEW v, Accepted(v), DistinctScores(v), NEW w, Len(w) \in Nat,
         NEW ps \in Cuts(v), Follows(v, w, ps), NEW k, IsBestMerge(v, ps, k)
  PROVE  Follows(v, w, MergedAt(ps, k))
  <1> DEFINE D == Derivation(v, w)
             L == Len(w)
  <1>1. PICK n \in 0 .. L : Len(ps) = L - n /\ (D[L].ruled => D[n].pieces = ps)
    BY DEF Follows
  <1>2. k \in Makes(v, ps)
    BY RuleFacts DEF IsBestMerge, Mergeable, Accepted
  <1>3. k \in 1 .. (Len(ps) - 1) /\ Len(MergedAt(ps, k)) = Len(ps) - 1
    BY <1>2, MergedFacts DEF Accepted
  <1>4. n + 1 \in 0 .. L /\ n \in 0 .. (L - 1) /\ Len(MergedAt(ps, k)) = L - (n + 1)
    BY <1>1, <1>3
  <1>5. ASSUME D[L].ruled PROVE D[n + 1].pieces = MergedAt(ps, k)
    <2> DEFINE m == Min(Top(v, ps))
    <2>0. Derives(D, v, w) /\ \A j \in 0 .. L : D[j].ruled
      BY <1>5, DerivationDef, RuledFromStart
    <2> DEFINE d == D[n]
    <2> HIDE DEF D
    <2>1. d.pieces = ps /\ D[n + 1] = DeriveStep(v, d) /\ D[n + 1].ruled
      BY <1>1, <1>4, <1>5, <2>0 DEF Derives
    <2> HIDE DEF d
    <2>2. /\ D[n + 1].pieces = MergedAt(ps, m)
          /\ IsRule(v, ps[m], ps[m + 1])
      <3>1. DeriveStep(v, d).ruled /\ Makes(v, d.pieces) # {} /\ d.pieces = ps
        BY <1>2, <2>1
      <3>2. /\ DeriveStep(v, d).pieces = MergedAt(ps, m)
            /\ IsRule(v, ps[m], ps[m + 1])
        BY <3>1, RuledStep
      <3> QED BY <2>1, <3>2
    <2>3. m \in Makes(v, ps)
      BY <1>2, TopFacts DEF Top
    <2> HIDE DEF m
    <2>4. m \in Mergeable(v, ps)
      <3>1. m \in 1 .. (Len(ps) - 1)
        BY <2>3 DEF Makes
      <3> QED BY <2>2, <3>1 DEF Mergeable
    <2>5. k = m
      BY <2>4, SameMerge DEF m
    <2> QED BY <2>2, <2>5
  <1> QED BY <1>4, <1>5 DEF Follows

LEMMA FollowsLast ==
  ASSUME NEW v, Accepted(v), NEW w, Len(w) \in Nat, NEW ps \in Cuts(v), Follows(v, w, ps),
         Mergeable(v, ps) = {}, Derivation(v, w)[Len(w)].ruled
  PROVE  ps = Derivation(v, w)[Len(w)].pieces
  <1> DEFINE D == Derivation(v, w)
             L == Len(w)
  <1>1. PICK n \in 0 .. L : Len(ps) = L - n /\ D[n].pieces = ps
    BY DEF Follows
  <1>2. CASE Makes(v, ps) = {}
    BY <1>1, <1>2, DerivationEnds
  <1>3. CASE Makes(v, ps) # {}
    <2> DEFINE m == Min(Top(v, ps))
    <2>1. m \in Makes(v, ps)
      BY <1>3, TopFacts DEF Top
    <2>2. m \in 1 .. (Len(ps) - 1)
      BY <2>1 DEF Makes
    <2>3. n + 1 \in 0 .. L /\ n \in 0 .. (L - 1)
      BY <1>1, <2>2
    <2>0. Derives(D, v, w) /\ \A j \in 0 .. L : D[j].ruled
      BY DerivationDef, RuledFromStart
    <2> DEFINE d == D[n]
    <2> HIDE DEF D
    <2>4. D[n + 1] = DeriveStep(v, d) /\ D[n + 1].ruled
      BY <2>0, <2>3 DEF Derives
    <2> HIDE DEF d
    <2>5. IsRule(v, ps[m], ps[m + 1])
      <3>1. DeriveStep(v, d).ruled /\ Makes(v, d.pieces) # {} /\ d.pieces = ps
        BY <1>1, <1>3, <2>4 DEF d
      <3> QED BY <3>1, RuledStep
    <2> HIDE DEF m
    <2>6. m \in Mergeable(v, ps)
      BY <2>2, <2>5 DEF Mergeable
    <2> QED BY <2>6
  <1> QED BY <1>2, <1>3

\* Only an accepted vocabulary is encoded with.
WordInv ==
  /\ outcome \in {"tensors", "ok"} => Accepted(file.vocab)
  /\ word = <<>> => pieces = <<>>
  /\ word # <<>> =>
       /\ outcome = "ok"
       /\ word \in Seq(Alphabet(file.vocab))
       /\ pieces \in Cuts(file.vocab)
       /\ DistinctScores(file.vocab) => Follows(file.vocab, word, pieces)

LEMMA EncodeWordInv ==
  ASSUME file \in Files, WordInv, EncodeWord
  PROVE  WordInv'
  <1>1. /\ word = <<>> /\ outcome = "ok" /\ outcome' = "ok" /\ file' = file
        /\ word' \in file.words /\ pieces' = Characters(word')
    BY DEF EncodeWord
  <1> DEFINE v == file.vocab
  <1>2. word' \in Seq(Alphabet(v)) /\ Accepted(v)
    BY <1>1, FileAssumption DEF WordInv
  <1>3. pieces' \in Cuts(v) /\ Follows(v, word', pieces')
    BY <1>1, <1>2, FollowsFirst
  <1>4. word' = <<>> => pieces' = <<>>
    BY <1>1 DEF Characters
  <1> QED BY <1>1, <1>2, <1>3, <1>4 DEF WordInv

LEMMA MergeWordInv ==
  ASSUME file \in Files, WordInv, EncodeStep
  PROVE  WordInv'
  <1> DEFINE v == file.vocab
  <1>1. /\ outcome = "ok" /\ outcome' = "ok" /\ file' = file /\ word' = word
        /\ Accepted(v)
    BY DEF EncodeStep, MergeBest, WordInv
  <1>2. PICK k \in Mergeable(v, pieces) :
          IsBestMerge(v, pieces, k) /\ pieces' = MergedAt(pieces, k)
    BY DEF EncodeStep, MergeBest
  <1>3. word # <<>>
    <2> SUFFICES ASSUME pieces = <<>> PROVE FALSE
      BY DEF WordInv
    <2>1. Len(pieces) = 0
      OBVIOUS
    <2> QED BY <1>2, <2>1 DEF Mergeable
  <1>4. word \in Seq(Alphabet(v)) /\ Len(word) \in Nat /\ pieces \in Cuts(v)
    <2>1. word \in Seq(Alphabet(v)) /\ pieces \in Cuts(v)
      BY <1>3 DEF WordInv
    <2> QED BY <2>1, LenProperties
  <1>5. k \in Makes(v, pieces)
    BY <1>1, <1>2, <1>4, RuleFacts DEF Mergeable, Accepted
  <1>6. pieces' \in Cuts(v)
    BY <1>1, <1>2, <1>4, <1>5, MergedFacts DEF Accepted
  <1>7. DistinctScores(v) => Follows(v, word, pieces')
    BY <1>1, <1>2, <1>3, <1>4, FollowsNext DEF WordInv
  <1> QED BY <1>1, <1>3, <1>4, <1>6, <1>7 DEF WordInv

LEMMA NextWordInv == HeaderInv /\ WordInv /\ [Next]_vars => WordInv'
  <1> SUFFICES ASSUME HeaderInv, WordInv, [Next]_vars PROVE WordInv'
    OBVIOUS
  <1>1. file \in Files
    BY DEF HeaderInv
  <1>2. ASSUME file' = file, word' = word, pieces' = pieces,
               \/ outcome' = outcome
               \/ outcome # "ok" /\ (outcome' \in {"tensors", "ok"} => Accepted(file.vocab))
        PROVE  WordInv'
    BY <1>2 DEF WordInv
  <1>3. CASE ReadHeader
    <2>1. /\ file' = file /\ word' = word /\ pieces' = pieces
          /\ outcome \in {"preamble", "pairs", "infos"}
          /\ outcome' \in {"pairs", "infos", "tokenizer", "err", "panic"}
      BY <1>3 DEF ReadHeader, OpenStep, ReadPreamble, ReadPair, PairsDone, ReadInfo, InfosDone,
                  HeaderFails, AlignmentPanics, PairsLeft, InfosLeft, encoding
    <2> QED BY <1>2, <2>1
  <1>4. CASE Prepare
    <2>1. /\ file' = file /\ word' = word /\ pieces' = pieces /\ outcome = "tokenizer"
          /\ ~ VocabularyMissing(file.vocab) /\ ~ VocabularyPanics(file.vocab)
      BY <1>4 DEF Prepare, encoding
    <2>2. Accepted(file.vocab)
      BY <1>1, <2>1, FileAssumption DEF Accepted, VocabularyMissing, VocabularyPanics
    <2> QED BY <1>2, <2>1, <2>2
  <1>5. CASE NotPrepared \/ ReadFails
    <2>1. /\ file' = file /\ word' = word /\ pieces' = pieces
          /\ outcome # "ok" /\ outcome' \in {"err", "panic"}
      BY <1>5 DEF NotPrepared, ReadFails, Loading, encoding
    <2> QED BY <1>2, <2>1
  <1>6. CASE SkipTensor \/ LoadTensor \/ Finish
    <2>1. /\ file' = file /\ word' = word /\ pieces' = pieces
          /\ outcome = "tensors"
      BY <1>6 DEF SkipTensor, LoadTensor, Finish, Loading, encoding
    <2> QED BY <1>2, <2>1 DEF WordInv
  <1>7. CASE EncodeWord
    BY <1>1, <1>7, EncodeWordInv
  <1>8. CASE EncodeStep
    BY <1>1, <1>8, MergeWordInv
  <1>9. CASE UNCHANGED vars
    BY <1>2, <1>9 DEF vars, encoding
  <1> QED BY <1>3, <1>4, <1>5, <1>6, <1>7, <1>8, <1>9 DEF Next, LoadStep

LEMMA WordInvariant == Spec => []WordInv
  <1>1. Init => WordInv
    BY DEF Init, WordInv
  <1> QED BY <1>1, NextWordInv, HeaderInvariant, PTL DEF Spec

\* If the token of each merge in a word's derivation is made from the first of
\* its splits and is not in angle brackets, the merges reconstructed from the
\* scores lead to the word's tokens, for any vocabulary, scores and word.
THEOREM RuledAsSentencePiece == Spec => []AsSentencePieceIfRuled
  <1>1. WordInv => AsSentencePieceIfRuled
    <2> SUFFICES ASSUME WordInv, word # <<>>, Encoded(file.vocab), DistinctScores(file.vocab),
                        SentencePiece(file.vocab, word).ruled
                 PROVE  pieces = SentencePiece(file.vocab, word).pieces
      BY DEF AsSentencePieceIfRuled
    <2> DEFINE v == file.vocab
    <2>1. /\ Accepted(v) /\ pieces \in Cuts(v) /\ Follows(v, word, pieces)
          /\ word \in Seq(Alphabet(v)) /\ Mergeable(v, pieces) = {}
      BY DEF WordInv, Encoded
    <2>2. Len(word) \in Nat
      BY <2>1, LenProperties
    <2>3. Derivation(v, word)[Len(word)].ruled
      BY DEF SentencePiece
    <2> QED BY <2>1, <2>2, <2>3, FollowsLast DEF SentencePiece
  <1> QED BY <1>1, WordInvariant, PTL
=============================================================================

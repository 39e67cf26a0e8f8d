-------------------------- MODULE DocumentsProofs --------------------------
(***************************************************************************)
(* Proofs about Documents, for any texts, names, numbers, widths and stack *)
(* limit.  Most of what follows is about sequences: a path that is below   *)
(* another, the stack of the reader, the recursive functions of JsonText.  *)
(***************************************************************************)
EXTENDS Documents, FiniteSetTheorems, WellFoundedInduction, TLAPS

\* Each container that is open is in the document and of its kind, at the
\* path of the one that encloses it; the elements before its key are there.
NodeOn(node, i, d) ==
    /\ Len(node.path) = i - 1
    /\ node.path \in DOMAIN d
    /\ d[node.path].type = node.type
    /\ node.type = "object" => node.key[2] = 0
    /\ node.type = "array" =>
          /\ node.key[2] # 0
          /\ node.key = Element(node.key[2])
          /\ node.key[2] > 1 =>
                Append(node.path, Element(node.key[2] - 1)) \in DOMAIN d

StackOn(n, d) ==
    /\ \A i \in 1..Len(n) : NodeOn(n[i], i, d)
    /\ \A i \in 1..(Len(n) - 1) : n[i + 1].path = Append(n[i].path, n[i].key)

StackOK == StackOn(nodes, doc)

\* What is known at each place of the reader.
PlaceOK ==
    /\ at \in {"name", "colon", "object", "comment"} =>
          nodes # <<>> /\ Top.type = "object"
    /\ at \in {"first", "array"} => nodes # <<>> /\ Top.type = "array"
    /\ at = "array" => Current \in DOMAIN doc
    /\ at = "recover" => nodes # <<>>
    /\ ~successful => at \in {"recover", "end", "done"}

DocOK ==
    /\ DOMAIN doc \subseteq Path /\ IsFiniteSet(DOMAIN doc)
    /\ \A p \in DOMAIN doc : doc[p] \in JsonValue
    /\ DocumentIsTree

ReaderInv == ReaderTypeOK /\ DocumentIsTree /\ StackOK /\ PlaceOK

\* The nulls of the document that are not the value about to be read.
Found == {p \in DOMAIN doc : doc[p] = Null}
NullInv ==
    Cardinality(IF at = "value" THEN Found \ {Current} ELSE Found)
        <= IF successful /\ at # "thrown" THEN nulls ELSE nulls + 1

\* What a written text was from its beginning, and how much of it was read.
Body ==
    IF wrote.kind = "topics" THEN SubscribeBody(wrote.topics)
                             ELSE NumberBody(wrote.field.name, wrote.number)
Taken == Len(Body) - Len(text)

RootNode(name) == [path |-> <<>>, type |-> "object", key |-> Member(name)]
ArrayNode(i) == [path |-> TopicsPath, type |-> "array", key |-> Element(i)]

WroteInv ==
    /\ wrote.kind = "topics" =>
          \E list \in LayerLists : wrote.topics = LayerTopics(list)
                                      /\ LayerTopics(list) # <<>>
    /\ wrote.kind = "number" => wrote.field.as \in {"int", "int64", "size"}

TextInv ==
    wrote.kind # "text" =>
        /\ left = 0
        /\ Len(text) <= Len(Body)
        /\ \A i \in 1..Len(text) : text[i] = Body[Taken + i]

NumberRead ==
    LET p == <<Member(wrote.field.name)>>
    IN  p \in DOMAIN doc /\ doc[p] = DecodeNumber(NumberToken(wrote.number))

NumberInv ==
    wrote.kind = "number" =>
        \/ at = "thrown"
        \/ ~successful /\ ~Decodable(NumberToken(wrote.number))
        \/ /\ successful
           /\ \/ Taken = 0 /\ at = "value" /\ nodes = <<>>
              \/ Taken = 1 /\ at = "name" /\ nodes = <<RootNode(<<>>)>>
              \/ /\ Taken = 2 /\ at = "colon"
                 /\ nodes = <<RootNode(wrote.field.name)>>
              \/ /\ Taken = 3 /\ at = "value"
                 /\ nodes = <<RootNode(wrote.field.name)>>
              \/ /\ Taken = 4 /\ at = "object"
                 /\ nodes = <<RootNode(wrote.field.name)>>
                 /\ NumberRead
              \/ Taken = 5 /\ at \in {"end", "done"} /\ NumberRead

Listed(n) ==
    /\ DOMAIN doc = {<<>>, TopicsPath}
                        \cup {Append(TopicsPath, Element(i)) : i \in 1..n}
    /\ doc[<<>>].type = "object"
    /\ doc[TopicsPath].type = "array"
    /\ \A i \in 1..n : doc[Append(TopicsPath, Element(i))]
                           = StringToken(RereadName(wrote.topics[i]))

InArray(j) == nodes = <<RootNode(TopicsName), ArrayNode(j)>>

AllReadable == \A i \in 1..Len(wrote.topics) : Readable(wrote.topics[i])

TopicsInv ==
    wrote.kind = "topics" /\ AllReadable =>
        \/ at = "thrown"
        \/ /\ successful
           /\ \/ Taken = 0 /\ at = "value" /\ nodes = <<>>
              \/ Taken = 1 /\ at = "name" /\ nodes = <<RootNode(<<>>)>>
                     /\ DOMAIN doc = {<<>>} /\ doc[<<>>].type = "object"
              \/ Taken = 2 /\ at = "colon" /\ nodes = <<RootNode(TopicsName)>>
                     /\ DOMAIN doc = {<<>>} /\ doc[<<>>].type = "object"
              \/ Taken = 3 /\ at = "value" /\ nodes = <<RootNode(TopicsName)>>
                     /\ DOMAIN doc = {<<>>} /\ doc[<<>>].type = "object"
              \/ Taken = 4 /\ at = "first" /\ InArray(1) /\ Listed(0)
              \/ \E j \in 1..Len(wrote.topics) :
                    Taken = 3 + 2 * j /\ at = "array" /\ InArray(j) /\ Listed(j)
              \/ \E j \in 1..(Len(wrote.topics) - 1) :
                    Taken = 4 + 2 * j /\ at = "value" /\ InArray(j + 1)
                          /\ Listed(j)
              \/ /\ Taken = 4 + 2 * Len(wrote.topics)
                 /\ at = "object" /\ nodes = <<RootNode(TopicsName)>>
                 /\ Listed(Len(wrote.topics))
              \/ /\ Taken = 5 + 2 * Len(wrote.topics)
                 /\ at \in {"end", "done"} /\ nodes = <<>>
                 /\ Listed(Len(wrote.topics))

-----------------------------------------------------------------------------
(* Induction over numbers, and what decodeNumber computes.                 *)

\* Every set of numbers that is not empty has a least one.
LEMMA LeastNumber ==
  ASSUME NEW T, T \subseteq Nat, T # {}
  PROVE  \E x \in T : \A y \in T : x <= y
<1>1. PICK x \in T : \A y \in T : <<y, x>> \notin OpToRel(<, Nat)
  BY NatLessThanWellFounded, WFMin, Zenon
<1>2. \A y \in T : ~(y < x)
  BY <1>1 DEF OpToRel
<1> QED
  BY <1>2

\* Induction, with a set in the place of the property: a number outside it
\* would have a least one, whose predecessor is inside.
LEMMA Induction ==
  ASSUME NEW T, 0 \in T, \A n \in Nat : n \in T => n + 1 \in T
  PROVE  Nat \subseteq T
<1> SUFFICES ASSUME NEW m \in Nat, m \notin T PROVE FALSE
  OBVIOUS
<1>1. PICK x \in Nat \ T : \A y \in Nat \ T : x <= y
  BY LeastNumber
<1>2. x # 0 /\ x - 1 \in Nat
  BY <1>1
<1>3. x - 1 \in T
  BY <1>1, <1>2
<1> QED
  BY <1>2, <1>3

\* The same up to a bound.
LEMMA InductionUpTo ==
  ASSUME NEW n \in Nat, NEW T, 0 \in T, \A i \in 1..n : i - 1 \in T => i \in T
  PROVE  0..n \subseteq T
<1> DEFINE U == {k \in Nat : k <= n => k \in T}
<1>1. 0 \in U
  OBVIOUS
<1>2. ASSUME NEW k \in Nat, k \in U PROVE k + 1 \in U
  <2> SUFFICES ASSUME k + 1 <= n PROVE k + 1 \in T
    OBVIOUS
  <2>1. k + 1 \in 1..n /\ (k + 1) - 1 \in T
    BY <1>2
  <2> QED
    BY <2>1
<1>3. Nat \subseteq U
  <2> HIDE DEF U
  <2> QED
    BY <1>1, <1>2, Induction
<1> QED
  BY <1>3

\* f is a recursion over 0..n from base.
Solves(f, n, base, step) ==
    f[0] = base /\ \A i \in 1..n : f[i] = step[<<i, f[i - 1]>>]

\* A recursion over 0..n that applies step to the number and the value before
\* has a solution.
LEMMA Recursion ==
  ASSUME NEW S, NEW base \in S, NEW n \in Nat,
         NEW step \in [(1..n) \X S -> S]
  PROVE  \E f \in [0..n -> S] : Solves(f, n, base, step)
<1> DEFINE T == {k \in Nat : k <= n => \E f \in [0..k -> S] :
                                          Solves(f, k, base, step)}
<1>1. 0 \in T
  <2>1. /\ [i \in 0..0 |-> base] \in [0..0 -> S]
        /\ Solves([i \in 0..0 |-> base], 0, base, step)
    BY DEF Solves
  <2> QED
    BY <2>1
<1>2. ASSUME NEW k \in Nat, k \in T PROVE k + 1 \in T
  <2> SUFFICES ASSUME k + 1 <= n
               PROVE  \E g \in [0..(k + 1) -> S] : Solves(g, k + 1, base, step)
    BY DEF T
  <2>1. PICK f \in [0..k -> S] : Solves(f, k, base, step)
    BY <1>2 DEF T
  <2> DEFINE g == [i \in 0..(k + 1) |-> IF i = k + 1 THEN step[<<k + 1, f[k]>>]
                                                  ELSE f[i]]
  <2>2. step[<<k + 1, f[k]>>] \in S
    <3>1. <<k + 1, f[k]>> \in (1..n) \X S
      OBVIOUS
    <3> QED
      BY <3>1
  <2>3. g \in [0..(k + 1) -> S]
    BY <2>2
  <2>4. ASSUME NEW i \in 1..(k + 1) PROVE g[i] = step[<<i, g[i - 1]>>]
    <3>1. CASE i = k + 1
      <4>1. g[i] = step[<<k + 1, f[k]>>] /\ g[i - 1] = f[k]
        BY <3>1
      <4> QED
        BY <3>1, <4>1
    <3>2. CASE i # k + 1
      <4>1. i \in 1..k /\ g[i] = f[i] /\ g[i - 1] = f[i - 1]
        BY <3>2
      <4> QED
        BY <2>1, <4>1 DEF Solves
    <3> QED
      BY <3>1, <3>2
  <2>5. g[0] = base
    BY <2>1 DEF Solves
  <2> HIDE DEF g
  <2>6. Solves(g, k + 1, base, step)
    BY <2>4, <2>5 DEF Solves
  <2> QED
    BY <2>3, <2>6
<1> HIDE DEF T
<1>3. n \in T
  BY <1>1, <1>2, Induction
<1> QED
  BY <1>3 DEF T

(* Numbers.                                                                *)

\* Division with remainder.
LEMMA DivMod ==
  ASSUME NEW x \in Nat, NEW w \in Nat \ {0}
  PROVE  /\ x = w * (x \div w) + (x % w)
         /\ x \div w \in Nat
         /\ x % w \in 0..(w - 1)
  OBVIOUS

\* A number is its own remainder by a larger one.
LEMMA SmallRemainder ==
  ASSUME NEW w \in Nat \ {0}, NEW x \in Nat, x < w
  PROVE  x % w = x
  OBVIOUS

\* The value of Sums is a solution of its equation.
LEMMA SumsFacts ==
  ASSUME NEW digits \in Seq(0..9)
  PROVE  /\ Sums(digits) \in [0..Len(digits) -> Nat]
         /\ Sums(digits)[0] = 0
         /\ \A i \in 1..Len(digits) :
               Sums(digits)[i] = 10 * Sums(digits)[i - 1] + digits[i]
<1>1. PICK n \in Nat : n = Len(digits)
  OBVIOUS
<1>2. \A i \in 1..n : digits[i] \in Nat
  BY <1>1
<1>3. PICK step : step = [x \in (1..n) \X Nat |-> 10 * x[2] + digits[x[1]]]
  OBVIOUS
<1>4. step \in [(1..n) \X Nat -> Nat]
  BY <1>2, <1>3
<1>5. \A i \in 1..n, m \in Nat : step[<<i, m>>] = 10 * m + digits[i]
  BY <1>2, <1>3
<1>6. PICK f \in [0..n -> Nat] : Solves(f, n, 0, step)
  <2>1. 0 \in Nat
    OBVIOUS
  <2> QED
    BY <1>4, <2>1, Recursion, Zenon
<1>7. ASSUME NEW i \in 1..n
      PROVE  f[i - 1] \in Nat /\ f[i] = 10 * f[i - 1] + digits[i]
  <2>1. f[i - 1] \in Nat
    OBVIOUS
  <2> QED
    BY <1>5, <1>6, <2>1 DEF Solves
<1> DEFINE Eq(g) == g = [i \in 0..n |->
                           IF i = 0 THEN 0 ELSE 10 * g[i - 1] + digits[i]]
<1>8. Eq(f)
  BY <1>6, <1>7 DEF Solves
<1>9. Sums(digits) = CHOOSE g : Eq(g)
  BY <1>1 DEF Sums
<1>10. Eq(Sums(digits))
  BY <1>8, <1>9, Zenon
<1>11. PICK g : g = Sums(digits)
  OBVIOUS
<1>12. Eq(g)
  BY <1>10, <1>11
<1>13. g[0] = 0 /\ \A i \in 1..n : g[i] = 10 * g[i - 1] + digits[i]
  BY <1>12
<1> DEFINE T == {k \in 0..n : g[k] \in Nat}
<1>14. 0 \in T
  BY <1>13
<1>15. ASSUME NEW i \in 1..n, i - 1 \in T PROVE i \in T
  <2>1. g[i] = 10 * g[i - 1] + digits[i] /\ digits[i] \in Nat
    BY <1>2, <1>13
  <2> QED
    BY <1>15, <2>1
<1>16. 0..n \subseteq T
  <2> HIDE DEF T
  <2> QED
    BY <1>14, <1>15, InductionUpTo
<1>17. \A i \in 0..n : g[i] \in Nat
  BY <1>16
<1>18. g = [i \in 0..n |-> g[i]]
  BY <1>12
<1> QED
  BY <1>1, <1>11, <1>13, <1>17, <1>18

\* So is that of Values.
LEMMA ValuesFacts ==
  ASSUME NEW digits \in Seq(0..9), NEW max \in Nat
  PROVE  /\ Values(digits, max) \in [0..Len(digits) -> Int]
         /\ Values(digits, max)[0] = 0
         /\ \A i \in 1..Len(digits) :
               LET v == Values(digits, max)[i - 1]
               IN  Values(digits, max)[i] =
                      IF v = -1 \/ TooLarge(v, max \div 10, i = Len(digits),
                                            digits[i], max)
                      THEN -1 ELSE ToLargestUInt(v * 10 + digits[i])
<1>1. PICK n \in Nat : n = Len(digits)
  OBVIOUS
<1>2. \A i \in 1..n : digits[i] \in Nat
  BY <1>1
<1> DEFINE Step(i, v) ==
             IF v = -1 \/ TooLarge(v, max \div 10, i = n, digits[i], max)
             THEN -1 ELSE ToLargestUInt(v * 10 + digits[i])
<1>3. \A i \in 1..n, v \in Int : Step(i, v) \in Int
  <2>1. MaxLargestUInt + 1 \in Nat \ {0}
    BY WidthAssumption DEF MaxLargestUInt
  <2> QED
    BY <1>2, <2>1 DEF ToLargestUInt
<1> HIDE DEF Step
<1>4. PICK step : step = [x \in (1..n) \X Int |-> Step(x[1], x[2])]
  OBVIOUS
<1>5. step \in [(1..n) \X Int -> Int]
  BY <1>3, <1>4
<1>6. \A i \in 1..n, v \in Int : step[<<i, v>>] = Step(i, v)
  BY <1>4
<1>7. PICK f \in [0..n -> Int] : Solves(f, n, 0, step)
  <2>1. 0 \in Int
    OBVIOUS
  <2> QED
    BY <1>5, <2>1, Recursion, Zenon
<1>8. ASSUME NEW i \in 1..n
      PROVE  f[i] = Step(i, f[i - 1])
  <2>1. f[i - 1] \in Int
    OBVIOUS
  <2> QED
    BY <1>6, <1>7, <2>1 DEF Solves
<1> DEFINE Eq(g) == g = [i \in 0..n |-> IF i = 0 THEN 0 ELSE Step(i, g[i - 1])]
<1>9. Eq(f)
  BY <1>7, <1>8 DEF Solves
<1>10. Values(digits, max) = CHOOSE g : Eq(g)
  BY <1>1 DEF Values, Step
<1>11. Eq(Values(digits, max))
  BY <1>9, <1>10, Zenon
<1>12. PICK g : g = Values(digits, max)
  OBVIOUS
<1>13. Eq(g)
  BY <1>11, <1>12
<1>14. g[0] = 0 /\ \A i \in 1..n : g[i] = Step(i, g[i - 1])
  BY <1>13
<1> DEFINE T == {k \in 0..n : g[k] \in Int}
<1>15. 0 \in T
  BY <1>14
<1>16. ASSUME NEW i \in 1..n, i - 1 \in T PROVE i \in T
  <2>1. g[i - 1] \in Int
    BY <1>16
  <2>2. Step(i, g[i - 1]) \in Int
    BY <1>3, <2>1
  <2> QED
    BY <1>14, <2>2
<1>17. 0..n \subseteq T
  <2> HIDE DEF T
  <2> QED
    BY <1>15, <1>16, InductionUpTo
<1>18. g = [i \in 0..n |-> g[i]] /\ \A i \in 0..n : g[i] \in Int
  BY <1>13, <1>17
<1>19. g \in [0..n -> Int]
  BY <1>18
<1> QED
  BY <1>1, <1>12, <1>14, <1>19 DEF Step

\* A value and a digit that are not too large fit.
LEMMA FitsLimit ==
  ASSUME NEW max \in Nat, NEW u \in 0..max, NEW d \in 0..9, NEW last,
         ~TooLarge(u, max \div 10, last, d, max)
  PROVE  u * 10 + d \in 0..max
<1>1. /\ max = 10 * (max \div 10) + (max % 10)
      /\ max \div 10 \in Nat /\ max % 10 \in 0..9
  OBVIOUS
<1>2. PICK q \in Nat, r \in 0..9 :
         q = max \div 10 /\ r = max % 10 /\ max = 10 * q + r
  BY <1>1
<1>3. u < q \/ (u = q /\ d <= r)
  BY <1>2 DEF TooLarge
<1> QED
  BY <1>2, <1>3

\* decodeNumber: until the double is chosen the value is the sum, and within
\* the limit; so the product never wraps.
LEMMA ValueIsSum ==
  ASSUME NEW digits \in Seq(0..9), NEW max \in Nat, max <= MaxLargestUInt
  PROVE  \A i \in 0..Len(digits) :
            \/ Values(digits, max)[i] = -1
            \/ /\ Values(digits, max)[i] = Sums(digits)[i]
               /\ Values(digits, max)[i] \in 0..max
<1>1. PICK n \in Nat : n = Len(digits)
  OBVIOUS
<1>2. PICK s \in [0..n -> Nat] :
         /\ s = Sums(digits) /\ s[0] = 0
         /\ \A i \in 1..n : s[i] = 10 * s[i - 1] + digits[i]
  BY <1>1, SumsFacts
<1>3. PICK v : v = Values(digits, max)
  OBVIOUS
<1>4. /\ v \in [0..n -> Int] /\ v[0] = 0
      /\ \A i \in 1..n :
               v[i] = IF v[i - 1] = -1 \/ TooLarge(v[i - 1], max \div 10, i = n,
                                                   digits[i], max)
                      THEN -1 ELSE ToLargestUInt(v[i - 1] * 10 + digits[i])
  BY <1>1, <1>3, ValuesFacts
<1> DEFINE T == {k \in 0..n : v[k] = -1 \/ (v[k] = s[k] /\ v[k] \in 0..max)}
<1>5. 0 \in T
  BY <1>2, <1>4
<1>6. ASSUME NEW i \in 1..n, i - 1 \in T PROVE i \in T
  <2> SUFFICES ASSUME v[i] # -1 PROVE v[i] = s[i] /\ v[i] \in 0..max
    OBVIOUS
  <2>1. PICK d \in 0..9 : d = digits[i]
    BY <1>1
  <2>2. PICK u \in Int : u = v[i - 1]
    BY <1>4
  <2>3. /\ u # -1 /\ ~TooLarge(u, max \div 10, i = n, d, max)
        /\ v[i] = ToLargestUInt(u * 10 + d)
    BY <1>4, <2>1, <2>2
  <2>4. u = s[i - 1] /\ u \in 0..max /\ s[i] = 10 * u + d
    BY <1>2, <1>6, <2>1, <2>2, <2>3
  <2>5. u * 10 + d \in 0..max
    BY <2>3, <2>4, FitsLimit
  <2>6. MaxLargestUInt \in Nat /\ MaxLargestUInt + 1 \in Nat \ {0}
    BY WidthAssumption DEF MaxLargestUInt
  <2>7. u * 10 + d \in Nat /\ u * 10 + d < MaxLargestUInt + 1
    BY <2>5, <2>6
  <2>8. (u * 10 + d) % (MaxLargestUInt + 1) = u * 10 + d
    BY <2>6, <2>7, SmallRemainder
  <2>9. v[i] = u * 10 + d
    BY <2>3, <2>8 DEF ToLargestUInt
  <2> QED
    BY <2>4, <2>5, <2>9
<1>7. 0..n \subseteq T
  <2> HIDE DEF T
  <2> QED
    BY <1>5, <1>6, InductionUpTo
<1> QED
  BY <1>1, <1>2, <1>3, <1>4, <1>7

\* What the digits denote grows with each by ten times at least.
LEMMA SumsGrow ==
  ASSUME NEW digits \in Seq(0..9), NEW i \in 0..Len(digits)
  PROVE  /\ Sums(digits)[Len(digits)] >= Sums(digits)[i]
         /\ i < Len(digits) =>
               Sums(digits)[Len(digits)] >= 10 * Sums(digits)[i]
<1>1. PICK n \in Nat : n = Len(digits)
  OBVIOUS
<1>2. PICK s \in [0..n -> Nat] :
         s = Sums(digits) /\ \A k \in 1..n : s[k] = 10 * s[k - 1] + digits[k]
  BY <1>1, SumsFacts
<1> DEFINE T == {k \in Nat : i + k <= n =>
                                /\ s[i + k] >= s[i]
                                /\ k > 0 => s[i + k] >= 10 * s[i]}
<1>3. 0 \in T
  BY <1>1
<1>4. ASSUME NEW k \in Nat, k \in T PROVE k + 1 \in T
  <2> SUFFICES ASSUME i + (k + 1) <= n
               PROVE  s[i + (k + 1)] >= s[i] /\ s[i + (k + 1)] >= 10 * s[i]
    OBVIOUS
  <2>1. PICK m \in 1..n : m = i + (k + 1) /\ m - 1 = i + k
    BY <1>1
  <2>2. PICK d \in 0..9 : d = digits[m]
    BY <1>1
  <2>3. PICK u \in Nat : u = s[m - 1] /\ s[m] = 10 * u + d
    BY <1>2, <2>2
  <2>4. PICK w \in Nat : w = s[i]
    BY <1>1
  <2>5. u >= w
    <3>1. i + k <= n
      BY <1>1
    <3>2. s[i + k] >= s[i]
      BY <1>4, <3>1
    <3> QED
      BY <2>1, <2>3, <2>4, <3>2
  <2>6. s[m] >= 10 * w
    <3>1. 10 * u + d >= 10 * w
      BY <2>5
    <3> QED
      BY <2>3, <3>1
  <2> QED
    BY <2>1, <2>4, <2>6
<1>5. Nat \subseteq T
  <2> HIDE DEF T
  <2> QED
    BY <1>3, <1>4, Induction
<1>6. PICK k \in Nat : k = n - i /\ i + k = n
  <2>1. n - i \in Nat /\ i + (n - i) = n
    BY <1>1
  <2> QED
    BY <2>1
<1>7. s[n] >= s[i] /\ (k > 0 => s[n] >= 10 * s[i])
  <2>1. k \in T
    BY <1>5
  <2>2. i + k <= n
    BY <1>1, <1>6
  <2>3. s[i + k] >= s[i] /\ (k > 0 => s[i + k] >= 10 * s[i])
    BY <2>1, <2>2
  <2> QED
    BY <1>6, <2>3
<1>8. i < n => k > 0
  BY <1>1, <1>6
<1> QED
  BY <1>1, <1>2, <1>7, <1>8

\* decodeNumber: the double is chosen only if the number is past the limit.
LEMMA DoubleIsLarge ==
  ASSUME NEW digits \in Seq(0..9), NEW max \in Nat, max <= MaxLargestUInt,
         max >= 10, Values(digits, max)[Len(digits)] = -1
  PROVE  Sums(digits)[Len(digits)] > max
<1>1. PICK n \in Nat : n = Len(digits)
  OBVIOUS
<1>2. PICK s \in [0..n -> Nat] :
         /\ s = Sums(digits)
         /\ \A i \in 1..n : s[i] = 10 * s[i - 1] + digits[i]
  BY <1>1, SumsFacts
<1>3. PICK v : v = Values(digits, max)
  OBVIOUS
<1>4. /\ v \in [0..n -> Int] /\ v[0] = 0
      /\ \A i \in 1..n :
               v[i] = IF v[i - 1] = -1 \/ TooLarge(v[i - 1], max \div 10, i = n,
                                                   digits[i], max)
                      THEN -1 ELSE ToLargestUInt(v[i - 1] * 10 + digits[i])
  BY <1>1, <1>3, ValuesFacts
<1>5. PICK q \in Nat, r \in 0..9 :
         q = max \div 10 /\ r = max % 10 /\ max = 10 * q + r /\ q >= 1
  <2>1. /\ max = 10 * (max \div 10) + (max % 10)
        /\ max \div 10 \in Nat /\ max % 10 \in 0..9
    OBVIOUS
  <2>2. max \div 10 >= 1
    BY <2>1
  <2> QED
    BY <2>1, <2>2
<1> DEFINE T == {k \in 0..n : v[k] = -1 => s[n] > max}
<1>6. 0 \in T
  BY <1>4
<1>7. ASSUME NEW i \in 1..n, i - 1 \in T PROVE i \in T
  <2> SUFFICES ASSUME v[i] = -1, v[i - 1] # -1 PROVE s[n] > max
    BY <1>7
  <2>1. PICK d \in 0..9 : d = digits[i]
    BY <1>1
  <2>2. PICK u \in Nat : u = v[i - 1] /\ u = s[i - 1] /\ s[i] = 10 * u + d
    BY <1>1, <1>2, <1>3, <2>1, ValueIsSum
  <2>3. TooLarge(u, q, i = n, d, max)
    <3>1. v[i] = ToLargestUInt(u * 10 + d) \/ TooLarge(u, q, i = n, d, max)
      BY <1>4, <1>5, <2>1, <2>2
    <3>2. ToLargestUInt(u * 10 + d) # -1
      <4>1. MaxLargestUInt + 1 \in Nat \ {0} /\ u * 10 + d \in Nat
        BY WidthAssumption DEF MaxLargestUInt
      <4>2. PICK x \in Nat, w \in Nat \ {0} :
               x = u * 10 + d /\ w = MaxLargestUInt + 1
        BY <4>1
      <4>3. x % w >= 0
        BY DivMod
      <4> QED
        BY <4>2, <4>3 DEF ToLargestUInt
    <3> QED
      BY <3>1, <3>2
  <2>4. u >= q /\ (u > q \/ i # n \/ d > r)
    BY <1>5, <2>3 DEF TooLarge
  <2>5. PICK a \in Nat, z \in Nat :
           a = s[i] /\ z = s[n] /\ z >= a /\ (i < n => z >= 10 * a)
    <3>1. i \in 0..Len(digits)
      BY <1>1
    <3>2. /\ Sums(digits)[Len(digits)] >= Sums(digits)[i]
          /\ i < Len(digits) =>
                Sums(digits)[Len(digits)] >= 10 * Sums(digits)[i]
      BY <3>1, SumsGrow
    <3>3. s[i] \in Nat /\ s[n] \in Nat
      BY <1>1, <3>1
    <3> QED
      BY <1>1, <1>2, <3>2, <3>3
  <2>6. a = 10 * u + d
    BY <2>2, <2>5
  <2>7. CASE i = n
    BY <1>5, <2>4, <2>5, <2>6, <2>7
  <2>8. CASE i < n
    BY <1>5, <2>4, <2>5, <2>6, <2>8
  <2> QED
    BY <2>7, <2>8
<1>8. 0..n \subseteq T
  <2> HIDE DEF T
  <2> QED
    BY <1>6, <1>7, InductionUpTo
<1>9. n \in T
  BY <1>8
<1> QED
  BY <1>1, <1>2, <1>3, <1>9

-----------------------------------------------------------------------------
(* Doubles.                                                                *)

\* Multiplication keeps the order.
LEMMA TimesKeepsOrder ==
  ASSUME NEW a \in Nat, NEW b \in Nat, NEW c \in Nat, a <= b
  PROVE  c * a <= c * b /\ c * a \in Nat /\ c * b \in Nat
  OBVIOUS

\* The value of Powers is a solution of its equation.
LEMMA PowersFacts ==
  ASSUME NEW n \in Nat
  PROVE  /\ Powers(n) \in [0..n -> Nat]
         /\ Powers(n)[0] = 1
         /\ \A i \in 1..n : Powers(n)[i] = 2 * Powers(n)[i - 1]
<1>1. PICK step : step = [x \in (1..n) \X Nat |-> 2 * x[2]]
  OBVIOUS
<1>2. step \in [(1..n) \X Nat -> Nat]
  BY <1>1
<1>3. \A i \in 1..n, m \in Nat : step[<<i, m>>] = 2 * m
  BY <1>1
<1>4. PICK f \in [0..n -> Nat] : Solves(f, n, 1, step)
  <2>1. 1 \in Nat
    OBVIOUS
  <2> QED
    BY <1>2, <2>1, Recursion, Zenon
<1>5. ASSUME NEW i \in 1..n PROVE f[i - 1] \in Nat /\ f[i] = 2 * f[i - 1]
  <2>1. f[i - 1] \in Nat
    OBVIOUS
  <2> QED
    BY <1>3, <1>4, <2>1 DEF Solves
<1> DEFINE Eq(g) == g = [i \in 0..n |-> IF i = 0 THEN 1 ELSE 2 * g[i - 1]]
<1>6. Eq(f)
  BY <1>4, <1>5 DEF Solves
<1>7. Powers(n) = CHOOSE g : Eq(g)
  BY DEF Powers
<1>8. Eq(Powers(n))
  BY <1>6, <1>7, Zenon
<1>9. PICK g : g = Powers(n)
  OBVIOUS
<1>10. Eq(g)
  BY <1>8, <1>9
<1>11. g[0] = 1 /\ \A i \in 1..n : g[i] = 2 * g[i - 1]
  BY <1>10
<1> DEFINE T == {k \in 0..n : g[k] \in Nat}
<1>12. 0 \in T
  BY <1>11
<1>13. ASSUME NEW i \in 1..n, i - 1 \in T PROVE i \in T
  BY <1>11, <1>13
<1>14. 0..n \subseteq T
  <2> HIDE DEF T
  <2> QED
    BY <1>12, <1>13, InductionUpTo
<1>15. g = [i \in 0..n |-> g[i]] /\ \A i \in 0..n : g[i] \in Nat
  BY <1>10, <1>14
<1> QED
  BY <1>9, <1>11, <1>15

\* The powers of 2 grow, each above its exponent.
LEMMA PowersGrow ==
  ASSUME NEW n \in Nat
  PROVE  /\ \A k \in 0..n : Powers(n)[k] \in Nat /\ Powers(n)[k] > k
         /\ \A k \in 0..n : \A j \in 0..k : Powers(n)[j] <= Powers(n)[k]
<1>1. PICK p \in [0..n -> Nat] :
         p = Powers(n) /\ p[0] = 1 /\ \A i \in 1..n : p[i] = 2 * p[i - 1]
  BY PowersFacts
<1> DEFINE T == {k \in 0..n : p[k] > k /\ \A j \in 0..k : p[j] <= p[k]}
<1>2. 0 \in T
  BY <1>1
<1>3. ASSUME NEW i \in 1..n, i - 1 \in T PROVE i \in T
  <2>1. p[i - 1] \in Nat /\ p[i - 1] > i - 1 /\ p[i] = 2 * p[i - 1]
    BY <1>1, <1>3
  <2>2. ASSUME NEW j \in 0..i PROVE p[j] <= p[i]
    <3>1. CASE j = i
      BY <2>1, <3>1
    <3>2. CASE j # i
      <4>1. j \in 0..(i - 1) /\ p[j] \in Nat
        BY <3>2
      <4>2. p[j] <= p[i - 1]
        BY <1>3, <4>1
      <4> QED
        BY <2>1, <4>1, <4>2
    <3> QED
      BY <3>1, <3>2
  <2> QED
    BY <2>1, <2>2
<1>4. 0..n \subseteq T
  <2> HIDE DEF T
  <2> QED
    BY <1>2, <1>3, InductionUpTo
<1> QED
  BY <1>1, <1>4

\* They are the same whatever the table's length.
LEMMA PowersAgree ==
  ASSUME NEW m \in Nat, NEW n \in Nat, m <= n
  PROVE  \A k \in 0..m : Powers(m)[k] = Powers(n)[k]
<1> DEFINE T == {k \in 0..m : Powers(m)[k] = Powers(n)[k]}
<1>1. 0 \in T
  <2>1. Powers(m)[0] = 1 /\ Powers(n)[0] = 1
    BY PowersFacts
  <2> QED
    BY <2>1
<1>2. ASSUME NEW i \in 1..m, i - 1 \in T PROVE i \in T
  <2>1. i \in 1..n
    OBVIOUS
  <2>2. /\ Powers(m)[i] = 2 * Powers(m)[i - 1]
        /\ Powers(n)[i] = 2 * Powers(n)[i - 1]
    BY <2>1, PowersFacts
  <2> QED
    BY <1>2, <2>2
<1>3. 0..m \subseteq T
  <2> HIDE DEF T
  <2> QED
    BY <1>1, <1>2, InductionUpTo
<1> QED
  BY <1>3

\* The spacing of n is the least power that reaches it.
LEMMA SpacingFacts ==
  ASSUME NEW n \in Nat
  PROVE  /\ n \div Precision \in Nat
         /\ \E k \in 0..(n \div Precision) :
               /\ Spacing(n) = Powers(n \div Precision)[k]
               /\ n < Precision * Spacing(n)
               /\ \A j \in 0..(n \div Precision) :
                     j < k => n >= Precision * Powers(n \div Precision)[j]
               /\ k > 0 => 2 * Powers(n \div Precision)[k - 1] = Spacing(n)
<1>1. Precision \in Nat \ {0}
  BY WidthAssumption
<1>2. /\ n = Precision * (n \div Precision) + (n % Precision)
      /\ n \div Precision \in Nat /\ n % Precision \in 0..(Precision - 1)
  BY <1>1, DivMod
<1>3. PICK m \in Nat : m = n \div Precision /\ n < Precision * m + Precision
  BY <1>1, <1>2
<1>4. PICK p \in [0..m -> Nat] :
         p = Powers(m) /\ \A i \in 1..m : p[i] = 2 * p[i - 1]
  BY PowersFacts
<1> DEFINE Reaches(k) == n < Precision * p[k]
           T == {k \in 0..m : Reaches(k)}
<1>5. m \in T
  <2>1. m + 1 <= p[m] /\ p[m] \in Nat /\ m + 1 \in Nat
    <3>1. m \in 0..m
      OBVIOUS
    <3>2. Powers(m)[m] \in Nat /\ Powers(m)[m] > m
      BY <3>1, PowersGrow
    <3> QED
      BY <1>4, <3>2
  <2>2. Precision * (m + 1) <= Precision * p[m]
    BY <1>1, <2>1, TimesKeepsOrder
  <2>3. Precision * (m + 1) = Precision * m + Precision
    BY <1>1
  <2> QED
    BY <1>1, <1>3, <2>1, <2>2, <2>3
<1>6. PICK k \in T : \A j \in T : k <= j
  <2>1. T \subseteq Nat /\ T # {}
    BY <1>5
  <2> QED
    BY <2>1, LeastNumber, Zenon
<1>7. \A i \in 0..m : p[i] \in Nat /\ Precision * p[i] \in Nat
  BY <1>1, <1>4
<1>8. \A j \in 0..m : j < k => n >= Precision * p[j]
  BY <1>6, <1>7
<1> DEFINE Least(i) == n < Precision * p[i] /\ (i > 0 => n >= Precision * p[i - 1])
<1>9. k \in 0..m /\ Least(k)
  <2>1. k \in 0..m /\ Reaches(k)
    BY <1>6
  <2> QED
    BY <1>8, <2>1
<1>10. Spacing(n) = p[CHOOSE i \in 0..m : Least(i)]
  BY <1>3, <1>4 DEF Spacing
<1> HIDE DEF Least
<1>11. PICK c \in 0..m : c = (CHOOSE i \in 0..m : Least(i)) /\ Least(c)
  BY <1>9, Zenon
<1>12. c = k
  <2>1. n < Precision * p[c] /\ (c > 0 => n >= Precision * p[c - 1])
    BY <1>11 DEF Least
  <2>2. c \in T
    BY <2>1
  <2>3. k <= c
    BY <1>6, <2>2
  <2>4. CASE k < c
    <3>1. c - 1 \in 0..m /\ k \in 0..(c - 1)
      BY <1>9, <2>4
    <3>2. p[k] <= p[c - 1] /\ p[k] \in Nat /\ p[c - 1] \in Nat
      BY <1>4, <1>9, <3>1, PowersGrow
    <3>3. Precision * p[k] <= Precision * p[c - 1]
      BY <1>1, <3>2, TimesKeepsOrder
    <3>4. n < Precision * p[k]
      BY <1>6
    <3> QED
      BY <1>1, <2>1, <2>4, <3>1, <3>2, <3>3, <3>4
  <2> QED
    BY <1>9, <2>3, <2>4
<1>13. Spacing(n) = p[k] /\ n < Precision * p[k]
  BY <1>6, <1>10, <1>11, <1>12
<1>14. k > 0 => 2 * p[k - 1] = Spacing(n)
  BY <1>4, <1>9, <1>13
<1> QED
  BY <1>3, <1>4, <1>8, <1>9, <1>13, <1>14

\* Half of the significand, and the power the widths are made of.
Half == Precision \div 2
Power == MaxLargestInt + 1

\* Half is a half.
LEMMA WidthFacts ==
  /\ Half \in Nat /\ Half >= 2 /\ Precision = 2 * Half
  /\ Power \in Nat /\ Power >= Precision /\ MaxInt + 1 < Precision
  BY WidthAssumption DEF Half, Power

\* A number that does not fit the significand fills at least half of it.
LEMMA SpacingBounds ==
  ASSUME NEW n \in Nat
  PROVE  /\ Spacing(n) \in Nat \ {0}
         /\ Spacing(n) = 1 \/ Half * Spacing(n) <= n
         /\ n < Precision => Spacing(n) = 1
<1>1. PICK m \in Nat : m = n \div Precision
  BY SpacingFacts
<1>2. PICK k \in 0..m :
         /\ Spacing(n) = Powers(m)[k]
         /\ \A j \in 0..m : j < k => n >= Precision * Powers(m)[j]
         /\ k > 0 => 2 * Powers(m)[k - 1] = Spacing(n)
  BY <1>1, SpacingFacts
<1>3. \A i \in 0..m : Powers(m)[i] \in Nat \ {0}
  BY PowersGrow
<1>4. Powers(m)[0] = 1
  BY PowersFacts
<1>5. CASE k = 0
  BY <1>2, <1>3, <1>4, <1>5
<1>6. CASE k > 0
  <2>1. PICK t \in Nat : t = Powers(m)[k - 1] /\ t >= 1
    BY <1>3, <1>6
  <2>2. n >= Precision * t /\ Spacing(n) = 2 * t
    BY <1>2, <1>6, <2>1
  <2>3. Precision * t = Half * (2 * t)
    BY <2>1, WidthFacts
  <2>4. Precision * 1 <= Precision * t
    BY <2>1, WidthFacts, TimesKeepsOrder
  <2>5. Precision * t \in Nat /\ Precision * 1 = Precision
    BY <2>1, WidthFacts
  <2>6. ~(n < Precision)
    BY <2>2, <2>4, <2>5, WidthFacts
  <2>7. Half * Spacing(n) <= n
    BY <2>2, <2>3
  <2>8. Spacing(n) \in Nat \ {0}
    BY <1>2, <1>3
  <2> QED
    BY <2>6, <2>7, <2>8
<1> QED
  BY <1>5, <1>6

\* The spacing grows with the number.
LEMMA SpacingGrows ==
  ASSUME NEW m \in Nat, NEW n \in Nat, m <= n
  PROVE  Spacing(m) <= Spacing(n)
<1>1. PICK a \in Nat, b \in Nat :
         a = m \div Precision /\ b = n \div Precision /\ a <= b
  <2>1. Precision \in Nat \ {0}
    BY WidthAssumption
  <2> QED
    BY <2>1
<1>2. PICK i \in 0..a :
         /\ Spacing(m) = Powers(a)[i]
         /\ \A j \in 0..a : j < i => m >= Precision * Powers(a)[j]
  BY <1>1, SpacingFacts
<1>3. PICK k \in 0..b : Spacing(n) = Powers(b)[k] /\ n < Precision * Spacing(n)
  BY <1>1, SpacingFacts
<1>4. i \in 0..b /\ Powers(a)[i] = Powers(b)[i]
  BY <1>1, PowersAgree
<1>5. CASE i <= k
  <2>1. i \in 0..k
    BY <1>5
  <2> QED
    BY <1>2, <1>3, <1>4, <2>1, PowersGrow
<1>6. CASE k < i
  <2>1. k \in 0..a
    BY <1>6
  <2>2. m >= Precision * Powers(a)[k] /\ Powers(a)[k] = Powers(b)[k]
    BY <1>1, <1>2, <1>6, <2>1, PowersAgree
  <2>3. Precision * Spacing(n) \in Nat
    BY SpacingBounds, WidthFacts
  <2> QED
    BY <1>3, <2>2, <2>3
<1> QED
  BY <1>5, <1>6

\* Multiples of the spacing, and what rounding makes of a number.
LEMMA RoundedNear ==
  ASSUME NEW n \in Nat
  PROVE  /\ Rounded(n) \in Nat
         /\ 2 * (Rounded(n) - n) <= Spacing(n)
         /\ 2 * (n - Rounded(n)) <= Spacing(n)
         /\ Rounded(n) >= Spacing(n) * (n \div Spacing(n))
         /\ n % Spacing(n) = 0 => Rounded(n) = n
<1>1. PICK s \in Nat \ {0} : s = Spacing(n)
  BY SpacingBounds
<1>2. PICK q \in Nat, r \in 0..(s - 1) :
         q = n \div s /\ r = n % s /\ n = s * q + r
  BY <1>1, DivMod
<1>3. PICK x \in Nat : x = s * q /\ s * (q + 1) = x + s
  OBVIOUS
<1>4. n = x + r
  BY <1>2, <1>3
<1>5. Rounded(n) = IF 2 * r > s \/ (2 * r = s /\ q % 2 = 1) THEN x + s ELSE x
  BY <1>1, <1>2, <1>3 DEF Rounded
<1>6. PICK y \in Nat :
         y = Rounded(n) /\ (y = x \/ (y = x + s /\ 2 * r >= s))
                        /\ (y = x => 2 * r <= s)
  BY <1>5
<1>7. /\ 2 * (y - n) <= s /\ 2 * (n - y) <= s /\ y >= x
      /\ r = 0 => y = n
  BY <1>4, <1>6
<1> QED
  BY <1>1, <1>2, <1>3, <1>6, <1>7

\* A number that fits the significand is a double, and no other is rounded by
\* more than a quarter of itself.
LEMMA RoundedBounds ==
  ASSUME NEW n \in Nat
  PROVE  /\ Rounded(n) \in Nat
         /\ n < Precision => Rounded(n) = n
         /\ 4 * (Rounded(n) - n) <= n /\ 4 * (n - Rounded(n)) <= n
<1>1. PICK s \in Nat \ {0} :
         s = Spacing(n) /\ (s = 1 \/ Half * s <= n)
  BY SpacingBounds
<1>2. PICK y \in Nat :
         /\ y = Rounded(n) /\ 2 * (y - n) <= s /\ 2 * (n - y) <= s
         /\ n % s = 0 => y = n
  BY <1>1, RoundedNear
<1>3. CASE s = 1
  <2>1. n % 1 = 0
    OBVIOUS
  <2>2. y = n
    BY <1>2, <1>3, <2>1
  <2> QED
    BY <1>2, <2>2
<1>4. CASE s # 1
  <2>1. 2 * s <= Half * s
    <3>1. s * 2 <= s * Half
      BY WidthFacts, TimesKeepsOrder
    <3> QED
      BY <3>1, WidthFacts
  <2>2. 2 * s <= n
    BY <1>1, <1>4, <2>1, WidthFacts
  <2>3. ~(n < Precision)
    BY <1>1, <1>4, SpacingBounds
  <2>4. 4 * (y - n) <= n /\ 4 * (n - y) <= n
    BY <1>2, <2>2
  <2> QED
    BY <1>2, <2>3, <2>4
<1> QED
  BY <1>3, <1>4

\* The least number past LargestInt is a double, and no larger one is rounded
\* to less.
LEMMA RoundedPower ==
  /\ Rounded(Power) = Power
  /\ \A n \in Nat : n >= Power => Rounded(n) >= Power
<1>1. PICK t \in Nat \ {0} : t = Spacing(Power) /\ Power = Half * t
  BY WidthFacts, SpacingBounds, PowerAssumption DEF Half, Power
<1>2. Power % t = 0
  <2>1. PICK h \in Nat : h = Half
    BY WidthFacts
  <2>2. (h * t) % t = 0
    OBVIOUS
  <2> QED
    BY <1>1, <2>1, <2>2
<1>3. Rounded(Power) = Power
  BY <1>1, <1>2, WidthFacts, RoundedNear
<1>4. ASSUME NEW n \in Nat, n >= Power PROVE Rounded(n) >= Power
  <2>1. PICK s \in Nat \ {0} :
           s = Spacing(n) /\ (s = 1 \/ Half * s <= n) /\ t <= s
    BY <1>1, <1>4, SpacingBounds, SpacingGrows, WidthFacts
  <2>2. Half * s <= n
    <3>1. CASE s = 1
      BY <1>1, <1>4, <2>1, <3>1, WidthFacts
    <3> QED
      BY <2>1, <3>1
  <2>3. PICK q \in Nat, r \in 0..(s - 1) : q = n \div s /\ n = s * q + r
    BY DivMod
  <2>4. Half <= q
    <3> SUFFICES ASSUME q + 1 <= Half PROVE FALSE
      BY <2>3, WidthFacts
    <3>1. s * (q + 1) <= s * Half
      BY WidthFacts, TimesKeepsOrder
    <3>2. s * (q + 1) = s * q + s /\ s * Half = Half * s
      BY WidthFacts
    <3>3. s * q \in Nat /\ s * Half \in Nat
      BY WidthFacts
    <3> QED
      BY <2>2, <2>3, <3>1, <3>2, <3>3
  <2>5. s * Half <= s * q /\ Half * t <= Half * s
    BY <2>1, <2>4, WidthFacts, TimesKeepsOrder
  <2>6. s * Half = Half * s /\ Half * s \in Nat /\ s * q \in Nat
    BY WidthFacts
  <2>7. Rounded(n) >= s * q /\ Rounded(n) \in Nat
    BY <2>1, <2>3, RoundedNear
  <2> QED
    BY <1>1, <2>5, <2>6, <2>7, WidthFacts
<1> QED
  BY <1>3, <1>4

-----------------------------------------------------------------------------
(* What decodeNumber makes of a text.                                      *)

\* The double of an integer is one.
LEMMA ToDoubleFacts ==
  ASSUME NEW n \in Int
  PROVE  /\ ToDouble(n) \in Int
         /\ n >= 0 => ToDouble(n) = Rounded(n)
         /\ n < 0 => -n \in Nat /\ ToDouble(n) = -Rounded(-n)
<1>1. CASE n >= 0
  BY <1>1, RoundedBounds DEF ToDouble
<1>2. CASE n < 0
  <2>1. -n \in Nat
    BY <1>2
  <2>2. Rounded(-n) \in Nat
    BY <2>1, RoundedBounds
  <2> QED
    BY <1>2, <2>1, <2>2 DEF ToDouble
<1> QED
  BY <1>1, <1>2

\* decodeNumber: an integer is what the text denotes, and fits its type; else
\* the text denotes more than an integer holds, and the double is next to it.
LEMMA DecodeFacts ==
  ASSUME NEW number, number.negative \in BOOLEAN, number.digits \in Seq(0..9)
  PROVE  LET v == DecodeNumber(number) IN
         /\ v \in JsonValue
         /\ v.type \in {"int", "uint", "real"}
         /\ Denotes(number) \in Int
         /\ v.type = "real" =>
               /\ v.whole = ToDouble(Denotes(number))
               /\ Denotes(number) > MaxLargestUInt
                     \/ Denotes(number) < MinLargestInt
         /\ v.type # "real" => v.int = Denotes(number)
<1>1. PICK digits \in Seq(0..9) : digits = number.digits
  OBVIOUS
<1>2. PICK n \in Nat : n = Len(digits)
  OBVIOUS
<1>3. PICK max : max = IF number.negative THEN MaxLargestInt + 1
                                          ELSE MaxLargestUInt
  OBVIOUS
<1>4. max \in Nat /\ max <= MaxLargestUInt
  BY <1>3, WidthAssumption DEF MaxLargestUInt
<1>5. PICK v : v = Values(digits, max)[n]
  OBVIOUS
<1>6. PICK s : s = Sums(digits)[n]
  OBVIOUS
<1>7. n \in 0..Len(digits)
  BY <1>2
<1>8. s \in Nat
  BY <1>6, <1>7, SumsFacts
<1>9. v = -1 \/ (v = s /\ v \in 0..max)
  BY <1>4, <1>5, <1>6, <1>7, ValueIsSum
<1>10. Denotes(number) = IF number.negative THEN -s ELSE s
  BY <1>1, <1>2, <1>6 DEF Denotes
<1>11. DecodeNumber(number) =
          IF v = -1 THEN [type |-> "real", whole |-> ToDouble(Denotes(number))]
          ELSE IF number.negative THEN [type |-> "int", int |-> -v]
          ELSE IF v <= MaxInt THEN [type |-> "int", int |-> v]
          ELSE [type |-> "uint", int |-> v]
  BY <1>1, <1>2, <1>3, <1>5 DEF DecodeNumber
<1>12. Denotes(number) \in Int
  BY <1>8, <1>10
<1>13. CASE v = -1
  <2>1. [type |-> "real", whole |-> ToDouble(Denotes(number))]
          \in [type : {"real"}, whole : Int]
    BY <1>12, ToDoubleFacts
  <2>2. max >= 10
    BY <1>3, WidthAssumption DEF MaxLargestUInt
  <2>3. s > max
    BY <1>1, <1>2, <1>4, <1>5, <1>6, <1>13, <2>2, DoubleIsLarge
  <2>4. Denotes(number) > MaxLargestUInt \/ Denotes(number) < MinLargestInt
    BY <1>3, <1>4, <1>8, <1>10, <2>3, WidthAssumption DEF MinLargestInt
  <2> QED
    BY <1>11, <1>12, <1>13, <2>1, <2>4 DEF JsonValue
<1>14. CASE v # -1 /\ number.negative
  <2>1. -v \in MinLargestInt..MaxLargestInt
    BY <1>3, <1>9, <1>14, WidthAssumption DEF MinLargestInt
  <2>2. [type |-> "int", int |-> -v]
          \in [type : {"int"}, int : MinLargestInt..MaxLargestInt]
    BY <2>1
  <2> QED
    BY <1>9, <1>10, <1>11, <1>12, <1>14, <2>2 DEF JsonValue
<1>15. CASE v # -1 /\ ~number.negative /\ v <= MaxInt
  <2>1. v \in MinLargestInt..MaxLargestInt
    BY <1>9, <1>15, WidthAssumption DEF MinLargestInt
  <2>2. [type |-> "int", int |-> v]
          \in [type : {"int"}, int : MinLargestInt..MaxLargestInt]
    BY <2>1
  <2> QED
    BY <1>9, <1>10, <1>11, <1>12, <1>15, <2>2 DEF JsonValue
<1>16. CASE v # -1 /\ ~number.negative /\ ~(v <= MaxInt)
  <2>1. v \in (MaxInt + 1)..MaxLargestUInt
    BY <1>3, <1>9, <1>16, WidthAssumption
  <2>2. [type |-> "uint", int |-> v]
          \in [type : {"uint"}, int : (MaxInt + 1)..MaxLargestUInt]
    BY <2>1
  <2> QED
    BY <1>9, <1>10, <1>11, <1>12, <1>16, <2>2 DEF JsonValue
<1> QED
  BY <1>13, <1>14, <1>15, <1>16

-----------------------------------------------------------------------------
(* The characters of a name, written and read again.                       *)

\* Code points that the writer and the reader leave as they are.
Plain(cp) == cp <= 55295 \/ (65536 <= cp /\ cp <= 262143)

\* utf8ToCodepoint makes of the UTF-8 of a code point a number; below 0xD800 and
\* from 0x10000 to 0x3FFFF, the code point itself.
LEMMA Utf8Facts ==
  ASSUME NEW cp \in Nat, cp <= 1114111
  PROVE  /\ Utf8ToCodepoint(CodePointToUTF8(cp)) \in Nat
         /\ Plain(cp) =>
               Utf8ToCodepoint(CodePointToUTF8(cp)) = cp
<1> USE DEF Plain
<1>1. CASE cp <= 127
  <2>1. CodePointToUTF8(cp) = <<cp>>
    BY <1>1, SMT DEF CodePointToUTF8
  <2> QED
    BY <1>1, <2>1, SMT DEF Utf8ToCodepoint
<1>2. CASE 127 < cp /\ cp <= 2047
  <2>1. PICK a \in 2..31, b \in 0..63 : a = cp \div 64 /\ b = cp % 64
          /\ cp = 64 * a + b
    <3>1. cp = 64 * (cp \div 64) + (cp % 64) /\ cp \div 64 \in 2..31
            /\ cp % 64 \in 0..63
      BY <1>2, SMT
    <3> QED
      BY <3>1, SMT
  <2>2. PICK s : s = CodePointToUTF8(cp)
    BY SMT
  <2>3. s = <<192 + a, Continuation(cp)>>
    <3>1. CodePointToUTF8(cp) = <<192 + (cp \div 64), Continuation(cp)>>
      BY <1>2, SMT DEF CodePointToUTF8
    <3> QED
      BY <2>1, <2>2, <3>1, SMT
  <2>4. s[1] = 192 + a /\ Payload(s[2]) = b
    <3>1. Payload(Continuation(cp)) = cp % 64
      BY SMT DEF Payload, Continuation
    <3> QED
      BY <2>1, <2>3, <3>1, SMT
  <2>5. s[1] % 32 = a
    BY <2>1, <2>4, SMT
  <2>6. TwoBytes(s) = cp
    BY <1>2, <2>1, <2>4, <2>5, SMT DEF TwoBytes
  <2> QED
    BY <2>2, <2>4, <2>6, SMT DEF Utf8ToCodepoint
<1>3. CASE 2047 < cp /\ cp <= 65535
  <2>1. PICK a, b, c : a = cp \div 4096 /\ b = (cp \div 64) % 64 /\ c = cp % 64
    BY SMT
  <2>2. /\ a \in 0..15 /\ b \in 0..63 /\ c \in 0..63
        /\ cp = 4096 * a + 64 * b + c
    BY <1>3, <2>1, SMT
  <2>3. PICK s : s = CodePointToUTF8(cp)
    BY SMT
  <2>4. s = <<224 + (cp \div 4096), Continuation(cp \div 64), Continuation(cp)>>
    BY <1>3, <2>3, SMT DEF CodePointToUTF8
  <2>5. s[1] = 224 + a /\ s[1] \in 224..239 /\ s[1] % 16 = a
    BY <2>1, <2>2, <2>4, SMT
  <2>6. Payload(s[2]) = b
    <3>1. cp \div 64 \in Nat
      BY SMT
    <3>2. Payload(Continuation(cp \div 64)) = (cp \div 64) % 64
      BY <3>1, SMT DEF Payload, Continuation
    <3> QED
      BY <2>1, <2>4, <3>2, SMT
  <2>7. Payload(s[3]) = c
    <3>1. Payload(Continuation(cp)) = cp % 64
      BY SMT DEF Payload, Continuation
    <3> QED
      BY <2>1, <2>4, <3>1, SMT
  <2>8. PICK w : w = 4096 * (s[1] % 16) + 64 * Payload(s[2]) + Payload(s[3])
    BY SMT
  <2>9. w = cp
    BY <2>2, <2>5, <2>6, <2>7, <2>8, SMT
  <2>10. ThreeBytes(s) = IF cp >= 57343 THEN Replacement ELSE cp
    BY <1>3, <2>8, <2>9, SMT DEF ThreeBytes
  <2>11. Utf8ToCodepoint(s) = ThreeBytes(s)
    BY <2>5, SMT DEF Utf8ToCodepoint
  <2> QED
    BY <1>3, <2>3, <2>10, <2>11, SMT DEF Replacement
<1>4. CASE 65535 < cp
  <2>1. PICK a, b, c, d :
           /\ a = cp \div 262144 /\ b = (cp \div 4096) % 64
           /\ c = (cp \div 64) % 64 /\ d = cp % 64
    BY SMT
  <2>2. /\ a \in 0..4 /\ b \in 0..63 /\ c \in 0..63 /\ d \in 0..63
        /\ cp = 262144 * a + 4096 * b + 64 * c + d
    BY <1>4, <2>1, SMT
  <2>3. PICK s : s = CodePointToUTF8(cp)
    BY SMT
  <2>4. s = <<240 + (cp \div 262144), Continuation(cp \div 4096),
              Continuation(cp \div 64), Continuation(cp)>>
    BY <1>4, <2>3, SMT DEF CodePointToUTF8
  <2>5. s[1] = 240 + a /\ s[1] \in 240..244 /\ s[1] % 8 = a
    BY <2>1, <2>2, <2>4, SMT
  <2>6. Payload(s[2]) = b
    <3>1. cp \div 4096 \in Nat
      BY SMT
    <3>2. Payload(Continuation(cp \div 4096)) = (cp \div 4096) % 64
      BY <3>1, SMT DEF Payload, Continuation
    <3> QED
      BY <2>1, <2>4, <3>2, SMT
  <2>7. Payload(s[3]) = c
    <3>1. cp \div 64 \in Nat
      BY SMT
    <3>2. Payload(Continuation(cp \div 64)) = (cp \div 64) % 64
      BY <3>1, SMT DEF Payload, Continuation
    <3> QED
      BY <2>1, <2>4, <3>2, SMT
  <2>8. Payload(s[4]) = d
    <3>1. Payload(Continuation(cp)) = cp % 64
      BY SMT DEF Payload, Continuation
    <3> QED
      BY <2>1, <2>4, <3>1, SMT
  <2>9. PICK w : w = 16777216 * (s[1] % 8) + 4096 * Payload(s[2])
                         + 64 * Payload(s[3]) + Payload(s[4])
    BY SMT
  <2>10. w \in Nat /\ (cp <= 262143 => w = cp)
    BY <2>2, <2>5, <2>6, <2>7, <2>8, <2>9, SMT
  <2>11. FourBytes(s) = IF w < 65536 THEN Replacement ELSE w
    BY <2>9, SMT DEF FourBytes
  <2>12. Utf8ToCodepoint(s) = FourBytes(s)
    BY <2>5, SMT DEF Utf8ToCodepoint
  <2> QED
    BY <1>4, <2>3, <2>10, <2>11, <2>12, SMT DEF Replacement
<1> QED
  BY <1>1, <1>2, <1>3, <1>4, SMT

\* What is a code point.
LEMMA CodePointFacts ==
  ASSUME NEW cp
  PROVE  cp \in CodePoint <=> cp \in Nat /\ cp <= 1114111
<1>1. MaxCodePoint \in Nat
  BY SMT DEF MaxCodePoint
<1>2. cp \in CodePoint <=> cp \in Nat /\ cp <= MaxCodePoint
  BY <1>1, SMT DEF CodePoint
<1> QED
  BY <1>2, SMT DEF MaxCodePoint

\* A string as far as it has been decoded.
Reading == [name : Name, half : Nat, ok : BOOLEAN]
Unbroken(name) == [name |-> name, half |-> 0, ok |-> TRUE]

\* The parts of such a string.
LEMMA ReadingFacts ==
  /\ \A read \in Reading :
        read.name \in Name /\ read.half \in Nat /\ read.ok \in BOOLEAN
  /\ \A name \in Name :
        /\ Unbroken(name) \in Reading
        /\ Unbroken(name).name = name /\ Unbroken(name).half = 0
        /\ Unbroken(name).ok = TRUE
  BY DEF Reading, Unbroken

\* What an assignment to one of the parts leaves.
LEMMA ReadingUpdates ==
  ASSUME NEW read \in Reading, NEW name \in Name, NEW half \in Nat
  PROVE  /\ [read EXCEPT !.name = name]
               = [name |-> name, half |-> read.half, ok |-> read.ok]
         /\ [read EXCEPT !.half = half]
               = [name |-> read.name, half |-> half, ok |-> read.ok]
         /\ [read EXCEPT !.name = name, !.half = half]
               = [name |-> name, half |-> half, ok |-> read.ok]
<1>1. [read EXCEPT !.name = name]
         = [name |-> name, half |-> read.half, ok |-> read.ok]
  BY DEF Reading
<1>2. ASSUME NEW r \in Reading
      PROVE  [r EXCEPT !.half = half]
                = [name |-> r.name, half |-> half, ok |-> r.ok]
  BY DEF Reading
<1>3. PICK r \in Reading : r = [read EXCEPT !.name = name]
  BY DEF Reading
<1>4. r.name = name /\ r.ok = read.ok
  BY <1>1, <1>3
<1>5. [read EXCEPT !.name = name, !.half = half] = [r EXCEPT !.half = half]
  BY <1>3, Zenon
<1> QED
  BY <1>1, <1>2, <1>4, <1>5, Zenon

\* One unit more of any string, and of one that waits for no pair.
LEMMA OneUnit ==
  ASSUME NEW read \in Reading, NEW unit \in CodePoint
  PROVE  Decode(read, unit) \in Reading
<1>1. unit \in Nat
  BY CodePointFacts
<1>2. PICK v : v = Paired(read.half, unit)
  OBVIOUS
<1>3. v \in CodePoint
  <2>1. read.half \in Nat
    BY ReadingFacts
  <2>2. v \in Nat /\ v <= 1114111
    BY <1>1, <1>2, <2>1, SMT DEF Paired
  <2> QED
    BY <2>2, CodePointFacts
<1>4. Append(read.name, v) \in Name /\ Append(read.name, unit) \in Name
  BY <1>3, ReadingFacts DEF Name
<1>5. /\ [read EXCEPT !.name = Append(@, v), !.half = 0] \in Reading
      /\ [read EXCEPT !.ok = FALSE] \in Reading
      /\ [read EXCEPT !.half = unit] \in Reading
      /\ [read EXCEPT !.name = Append(@, unit)] \in Reading
  BY <1>1, <1>4 DEF Reading
<1> QED
  BY <1>2, <1>5 DEF Decode

\* A unit that is no high surrogate, and a pair.
LEMMA UnbrokenUnits ==
  ASSUME NEW name \in Name, NEW unit \in CodePoint
  PROVE  /\ ~IsHigh(unit) =>
               Decode(Unbroken(name), unit) = Unbroken(Append(name, unit))
         /\ IsHigh(unit) => \A low \in CodePoint :
               Escaped(low) =>
                  Decode(Decode(Unbroken(name), unit), low)
                     = Unbroken(Append(name, Paired(unit, low)))
<1>1. PICK read \in Reading : read = Unbroken(name)
  BY ReadingFacts
<1>2. read.name = name /\ read.half = 0 /\ read.ok = TRUE
  BY <1>1, ReadingFacts
<1>3. \A u \in CodePoint : Append(name, u) \in Name
  BY DEF Name
<1>4. ASSUME ~IsHigh(unit)
      PROVE  Decode(read, unit) = Unbroken(Append(name, unit))
  <2>1. PICK m \in Name : m = Append(name, unit)
    BY <1>3
  <2>2. Decode(read, unit) = [read EXCEPT !.name = m]
    BY <1>2, <1>4, <2>1, Zenon DEF Decode
  <2>3. [read EXCEPT !.name = m] = [name |-> m, half |-> 0, ok |-> TRUE]
    BY <1>2, ReadingUpdates, Zenon
  <2> QED
    BY <2>1, <2>2, <2>3, Zenon DEF Unbroken
<1>5. ASSUME IsHigh(unit), NEW low \in CodePoint, Escaped(low)
      PROVE  Decode(Decode(read, unit), low)
                = Unbroken(Append(name, Paired(unit, low)))
  <2>1. unit \in Nat /\ unit # 0
    BY <1>5, CodePointFacts DEF IsHigh
  <2>2. Decode(read, unit) = [read EXCEPT !.half = unit]
    BY <1>2, <1>5, Zenon DEF Decode
  <2>3. PICK half \in Reading : half = Decode(read, unit)
    BY OneUnit
  <2>4. half = [name |-> name, half |-> unit, ok |-> TRUE]
    BY <1>2, <2>1, <2>2, <2>3, ReadingUpdates, Zenon
  <2>5. half.name = name /\ half.half = unit /\ half.ok = TRUE
    BY <2>4
  <2>6. PICK m \in Name : m = Append(name, Paired(unit, low))
    <3>1. low \in Nat
      BY CodePointFacts
    <3>2. Paired(unit, low) \in Nat /\ Paired(unit, low) <= 1114111
      BY <2>1, <3>1, SMT DEF Paired
    <3>3. Paired(unit, low) \in CodePoint
      BY <3>2, CodePointFacts, SMT
    <3> QED
      BY <1>3, <3>3, Zenon
  <2>7. Decode(half, low) = [half EXCEPT !.name = m, !.half = 0]
    BY <1>5, <2>1, <2>5, <2>6, Zenon DEF Decode
  <2>8. [half EXCEPT !.name = m, !.half = 0]
           = [name |-> m, half |-> 0, ok |-> TRUE]
    <3>1. 0 \in Nat
      OBVIOUS
    <3> QED
      BY <2>5, <3>1, ReadingUpdates, Zenon
  <2> QED
    BY <2>3, <2>6, <2>7, <2>8, Zenon DEF Unbroken
<1> QED
  BY <1>1, <1>4, <1>5, Zenon

\* valueToQuotedStringN and decodeUnicodeCodePoint, for one character.
LEMMA EscapeFacts ==
  ASSUME NEW cp \in Nat, NEW read \in Reading
  PROVE  /\ DecodeUnits(read, Escape(cp)) \in Reading
         /\ \A name \in Name :
               Plain(cp) /\ read = Unbroken(name) =>
                  DecodeUnits(read, Escape(cp)) = Unbroken(Append(name, cp))
<1>1. CASE cp < 65536
  <2>1. Escape(cp) = <<cp>> /\ Len(<<cp>>) = 1 /\ <<cp>>[1] = cp
    BY <1>1, SMT DEF Escape
  <2>2. DecodeUnits(read, Escape(cp)) = Decode(read, cp)
    BY <2>1, Zenon DEF DecodeUnits
  <2>3. cp \in CodePoint
    BY <1>1, CodePointFacts, SMT
  <2>4. Plain(cp) => ~IsHigh(cp)
    BY <1>1, SMT DEF Plain, IsHigh
  <2> QED
    BY <2>2, <2>3, <2>4, OneUnit, UnbrokenUnits, Zenon
<1>2. CASE cp >= 65536
  <2>1. PICK a, b : a = (cp - 65536) \div 1024 /\ b = (cp - 65536) % 1024
    BY SMT
  <2>2. a \in Nat /\ b \in 0..1023 /\ cp = 65536 + 1024 * a + b
    BY <1>2, <2>1, SMT
  <2>3. PICK u : u = (55296 + a) % 65536
    BY SMT
  <2>4. u \in Nat /\ u <= 65535
    BY <2>2, <2>3, SMT
  <2>5. PICK l \in Nat : l = 56320 + b
    BY <2>2, SMT
  <2>6. l % 1024 = b /\ l <= 57343 /\ l >= 128
    BY <2>2, <2>5, SMT
  <2>7. Escape(cp) = <<u, l>>
    BY <1>2, <2>1, <2>3, <2>5, SMT DEF Escape
  <2>8. DecodeUnits(read, Escape(cp)) = Decode(Decode(read, u), l)
    BY <2>7 DEF DecodeUnits
  <2>9. u \in CodePoint /\ l \in CodePoint
    BY <2>4, <2>6, CodePointFacts, SMT
  <2>10. Decode(Decode(read, u), l) \in Reading
    BY <2>9, OneUnit, Zenon
  <2>11. ASSUME Plain(cp)
         PROVE  /\ IsHigh(u) /\ Escaped(l)
                /\ cp = Paired(u, l)
    <3>1. a <= 191
      BY <1>2, <2>2, <2>11, SMT DEF Plain
    <3>2. u = 55296 + a /\ u % 1024 = a
      <4>1. u = 55296 + a
        BY <2>2, <2>3, <3>1, SMT
      <4> QED
        BY <2>2, <3>1, <4>1, SMT
    <3>3. cp = Paired(u, l)
      BY <2>2, <2>6, <3>2, SMT DEF Paired
    <3>4. IsHigh(u) /\ Escaped(l)
      BY <2>2, <2>6, <3>1, <3>2, SMT DEF IsHigh, Escaped
    <3> QED
      BY <3>3, <3>4, Zenon
  <2> QED
    BY <2>8, <2>9, <2>10, <2>11, UnbrokenUnits, Zenon
<1> QED
  BY <1>1, <1>2, SMT

\* One character more of a name that was written and is read again.
RereadNext(read, cp) ==
    DecodeUnits(read, Escape(Utf8ToCodepoint(CodePointToUTF8(cp))))

\* What a character adds, and that a plain one adds itself.
LEMMA RereadCharacter ==
  ASSUME NEW cp \in CodePoint, NEW read \in Reading
  PROVE  /\ RereadNext(read, cp) \in Reading
         /\ \A name \in Name :
               Plain(cp) /\ read = Unbroken(name) =>
                  RereadNext(read, cp) = Unbroken(Append(name, cp))
<1>1. cp \in Nat /\ cp <= 1114111
  BY CodePointFacts, SMT
<1>2. PICK u : u = Utf8ToCodepoint(CodePointToUTF8(cp))
  OBVIOUS
<1>3. u \in Nat /\ (Plain(cp) => u = cp)
  BY <1>1, <1>2, Utf8Facts
<1>4. RereadNext(read, cp) = DecodeUnits(read, Escape(u))
  BY <1>2 DEF RereadNext
<1> QED
  BY <1>3, <1>4, EscapeFacts

\* Two sequences with the same elements.
LEMMA SameSequence ==
  ASSUME NEW S, NEW s \in Seq(S), NEW t \in Seq(S), Len(s) = Len(t),
         \A j \in 1..Len(s) : s[j] = t[j]
  PROVE  s = t
  OBVIOUS

\* A sequence grows by its next element.
LEMMA Prefix ==
  ASSUME NEW S, NEW s \in Seq(S), NEW i \in 1..Len(s)
  PROVE  SubSeq(s, 1, i - 1) \o <<s[i]>> = SubSeq(s, 1, i)
<1>1. SubSeq(s, 1, i - 1) \in Seq(S) /\ Len(SubSeq(s, 1, i - 1)) = i - 1
  OBVIOUS
<1>2. <<s[i]>> \in Seq(S) /\ Len(<<s[i]>>) = 1
  OBVIOUS
<1>3. SubSeq(s, 1, i) \in Seq(S) /\ Len(SubSeq(s, 1, i)) = i
  OBVIOUS
<1>4. ASSUME NEW j \in 1..i
      PROVE  (SubSeq(s, 1, i - 1) \o <<s[i]>>)[j] = SubSeq(s, 1, i)[j]
  <2>1. CASE j = i
    BY <1>1, <1>2, <2>1
  <2>2. CASE j # i
    <3>1. j \in 1..(i - 1)
      BY <2>2
    <3>2. (SubSeq(s, 1, i - 1) \o <<s[i]>>)[j] = SubSeq(s, 1, i - 1)[j]
      BY <1>1, <1>2, <3>1
    <3>3. SubSeq(s, 1, i - 1)[j] = s[j] /\ SubSeq(s, 1, i)[j] = s[j]
      BY <3>1
    <3> QED
      BY <3>2, <3>3
  <2> QED
    BY <2>1, <2>2
<1>5. SubSeq(s, 1, i - 1) \o <<s[i]>> \in Seq(S)
      /\ Len(SubSeq(s, 1, i - 1) \o <<s[i]>>) = i
  BY <1>1, <1>2
<1>6. PICK a \in Seq(S), b \in Seq(S) :
           a = SubSeq(s, 1, i - 1) \o <<s[i]>> /\ b = SubSeq(s, 1, i)
  BY <1>3, <1>5
<1>7. Len(a) = i /\ Len(b) = i /\ \A j \in 1..i : a[j] = b[j]
  BY <1>3, <1>4, <1>5, <1>6, Zenon
<1>8. a = b
  BY <1>7, SameSequence
<1> QED
  BY <1>6, <1>8, Zenon

\* decodeString of what valueToQuotedString wrote: a name, and a plain name
\* itself.
LEMMA RereadFacts ==
  ASSUME NEW name \in Name
  PROVE  /\ RereadName(name) \in Name
         /\ (\A i \in 1..Len(name) : Plain(name[i])) =>
               Readable(name) /\ RereadName(name) = name
<1>1. PICK n \in Nat : n = Len(name)
  BY DEF Name
<1>2. \A i \in 1..n : name[i] \in CodePoint
  BY <1>1 DEF Name
<1>3. <<>> \in Name
  BY DEF Name
<1>4. PICK start \in Reading : start = Unbroken(<<>>)
  BY <1>3, ReadingFacts
<1> DEFINE Step(i, s) == RereadNext(s, name[i])
<1>6. \A i \in 1..n, s \in Reading : Step(i, s) \in Reading
  BY <1>2, RereadCharacter
<1> HIDE DEF Step
<1>7. PICK step : step = [x \in (1..n) \X Reading |-> Step(x[1], x[2])]
  OBVIOUS
<1>8. step \in [(1..n) \X Reading -> Reading]
  BY <1>6, <1>7
<1>9. \A i \in 1..n, s \in Reading : step[<<i, s>>] = Step(i, s)
  BY <1>7
<1>10. PICK f \in [0..n -> Reading] : Solves(f, n, start, step)
  BY <1>4, <1>8, Recursion, Zenon
<1>11. ASSUME NEW i \in 1..n
       PROVE  f[i] = Step(i, f[i - 1])
  <2>1. f[i - 1] \in Reading
    OBVIOUS
  <2> QED
    BY <1>9, <1>10, <2>1 DEF Solves
<1> DEFINE Eq(g) ==
             g = [i \in 0..n |-> IF i = 0 THEN start ELSE Step(i, g[i - 1])]
<1>12. Eq(f)
  BY <1>10, <1>11 DEF Solves
<1>13. RereadParts(name) = CHOOSE g : Eq(g)
  BY <1>1, <1>4 DEF RereadParts, Step, RereadNext, Unbroken
<1>14. Eq(RereadParts(name))
  BY <1>12, <1>13, Zenon
<1>15. PICK g : g = RereadParts(name)
  OBVIOUS
<1>16. Eq(g)
  BY <1>14, <1>15
<1>17. g[0] = start /\ \A i \in 1..n : g[i] = Step(i, g[i - 1])
  BY <1>16
<1> DEFINE plain == \A i \in 1..n : Plain(name[i])
           T == {k \in 0..n :
                   /\ g[k] \in Reading
                   /\ plain => g[k] = Unbroken(SubSeq(name, 1, k))}
<1>18. 0 \in T
  <2>1. SubSeq(name, 1, 0) = <<>>
    BY DEF Name
  <2>2. g[0] \in Reading /\ g[0] = Unbroken(SubSeq(name, 1, 0))
    BY <1>4, <1>17, <2>1, Zenon
  <2>3. 0 \in 0..n
    OBVIOUS
  <2> QED
    BY <2>2, <2>3, Zenon
<1>19. ASSUME NEW i \in 1..n, i - 1 \in T PROVE i \in T
  <2>1. /\ g[i - 1] \in Reading
        /\ plain => g[i - 1] = Unbroken(SubSeq(name, 1, i - 1))
    BY <1>19
  <2>2. g[i] = RereadNext(g[i - 1], name[i])
    BY <1>17 DEF Step
  <2>3. g[i] \in Reading
    BY <1>2, <2>1, <2>2, RereadCharacter
  <2>4. ASSUME plain PROVE g[i] = Unbroken(SubSeq(name, 1, i))
    <3>1. SubSeq(name, 1, i - 1) \in Name
      BY <1>1 DEF Name
    <3>2. g[i] = Unbroken(Append(SubSeq(name, 1, i - 1), name[i]))
      BY <1>2, <2>1, <2>2, <2>4, <3>1, RereadCharacter
    <3>3. Append(SubSeq(name, 1, i - 1), name[i]) = SubSeq(name, 1, i)
      <4>1. SubSeq(name, 1, i - 1) \o <<name[i]>> = SubSeq(name, 1, i)
        BY <1>1, Prefix DEF Name
      <4>2. Append(SubSeq(name, 1, i - 1), name[i])
               = SubSeq(name, 1, i - 1) \o <<name[i]>>
        BY <1>2, <3>1 DEF Name
      <4> QED
        BY <4>1, <4>2
    <3> QED
      BY <3>2, <3>3
  <2> QED
    BY <2>3, <2>4
<1>20. 0..n \subseteq T
  <2> HIDE DEF T
  <2> QED
    BY <1>18, <1>19, InductionUpTo
<1>21. g[n] \in Reading /\ (plain => g[n] = Unbroken(SubSeq(name, 1, n)))
  <2>1. n \in 0..n
    OBVIOUS
  <2> QED
    BY <1>20, <2>1
<1>22. SubSeq(name, 1, n) = name
  BY <1>1 DEF Name
<1>23. RereadName(name) = g[n].name
       /\ (Readable(name) <=> g[n].ok /\ g[n].half = 0)
  BY <1>1, <1>15 DEF RereadName, Readable
<1>24. g[n].name \in Name
  BY <1>21, ReadingFacts
<1>25. ASSUME plain
       PROVE  g[n].name = name /\ g[n].half = 0 /\ g[n].ok = TRUE
  BY <1>21, <1>22, <1>25, ReadingFacts, Zenon
<1> QED
  BY <1>1, <1>23, <1>24, <1>25, Zenon

\* layer_subscribe_topics: topics of the list, all of them allowed.
LEMMA LayerTopicsFacts ==
  ASSUME NEW list \in Seq(Name)
  PROVE  /\ LayerTopics(list) \in Seq(Name)
         /\ \A i \in 1..Len(LayerTopics(list)) :
               /\ IsAllown(LayerTopics(list)[i])
               /\ \E j \in 1..Len(list) : LayerTopics(list)[i] = list[j]
<1>1. PICK n \in Nat : n = Len(list)
  OBVIOUS
<1> DEFINE Step(i, kept) ==
             IF IsAllown(list[i]) THEN Append(kept, list[i]) ELSE kept
           Good(kept) == \A i \in 1..Len(kept) :
                            /\ IsAllown(kept[i])
                            /\ \E j \in 1..n : kept[i] = list[j]
<1>2. ASSUME NEW i \in 1..n, NEW kept \in Seq(Name)
      PROVE  Step(i, kept) \in Seq(Name) /\ (Good(kept) => Good(Step(i, kept)))
  <2>1. list[i] \in Name
    BY <1>1
  <2>2. CASE ~IsAllown(list[i])
    BY <2>2
  <2>3. CASE IsAllown(list[i])
    <3>1. /\ Append(kept, list[i]) \in Seq(Name)
          /\ Len(Append(kept, list[i])) = Len(kept) + 1
          /\ \A k \in 1..Len(kept) : Append(kept, list[i])[k] = kept[k]
          /\ Append(kept, list[i])[Len(kept) + 1] = list[i]
      BY <2>1
    <3> QED
      BY <2>3, <3>1
  <2> QED
    BY <2>2, <2>3
<1>3. Good(<<>>) /\ <<>> \in Seq(Name)
  OBVIOUS
<1> HIDE DEF Step, Good
<1>4. PICK step : step = [x \in (1..n) \X Seq(Name) |-> Step(x[1], x[2])]
  OBVIOUS
<1>5. step \in [(1..n) \X Seq(Name) -> Seq(Name)]
  BY <1>2, <1>4
<1>6. \A i \in 1..n, s \in Seq(Name) : step[<<i, s>>] = Step(i, s)
  BY <1>4
<1>7. PICK f \in [0..n -> Seq(Name)] : Solves(f, n, <<>>, step)
  BY <1>3, <1>5, Recursion, Zenon
<1>8. ASSUME NEW i \in 1..n
      PROVE  f[i] = Step(i, f[i - 1])
  <2>1. f[i - 1] \in Seq(Name)
    OBVIOUS
  <2> QED
    BY <1>6, <1>7, <2>1 DEF Solves
<1> DEFINE Eq(g) ==
             g = [i \in 0..n |-> IF i = 0 THEN <<>> ELSE Step(i, g[i - 1])]
<1>9. Eq(f)
  BY <1>7, <1>8 DEF Solves
<1>10. LayerParts(list) = CHOOSE g : Eq(g)
  BY <1>1 DEF LayerParts, Step
<1>11. Eq(LayerParts(list))
  BY <1>9, <1>10, Zenon
<1>12. PICK g : g = LayerParts(list)
  OBVIOUS
<1>13. Eq(g)
  BY <1>11, <1>12
<1>14. g[0] = <<>> /\ \A i \in 1..n : g[i] = Step(i, g[i - 1])
  BY <1>13
<1> DEFINE T == {k \in 0..n : g[k] \in Seq(Name) /\ Good(g[k])}
<1>15. 0 \in T
  <2>1. g[0] \in Seq(Name) /\ Good(g[0])
    BY <1>3, <1>14, Zenon
  <2> QED
    BY <2>1
<1>16. ASSUME NEW i \in 1..n, i - 1 \in T PROVE i \in T
  <2>1. g[i - 1] \in Seq(Name) /\ Good(g[i - 1])
    BY <1>16
  <2>2. Step(i, g[i - 1]) \in Seq(Name) /\ Good(Step(i, g[i - 1]))
    BY <1>2, <2>1
  <2> QED
    BY <1>14, <2>2
<1>17. 0..n \subseteq T
  <2> HIDE DEF T
  <2> QED
    BY <1>15, <1>16, InductionUpTo
<1>18. g[n] \in Seq(Name) /\ Good(g[n])
  <2>1. n \in 0..n
    OBVIOUS
  <2> QED
    BY <1>17, <2>1
<1> QED
  BY <1>1, <1>12, <1>18 DEF LayerTopics, Good

-----------------------------------------------------------------------------
(* Paths and the values below them.                                        *)

\* All of a sequence but the last element.
LEMMA FrontFacts ==
  ASSUME NEW S, NEW s \in Seq(S), s # <<>>
  PROVE  /\ Len(s) \in Nat /\ Len(s) > 0
         /\ Front(s) \in Seq(S) /\ Len(Front(s)) = Len(s) - 1
         /\ \A i \in 1..(Len(s) - 1) : Front(s)[i] = s[i]
<1>1. Len(s) \in Nat /\ Len(s) > 0
  OBVIOUS
<1>2. PICK n \in Nat : n = Len(s) - 1
  BY <1>1
<1>3. \A i \in 1..n : s[i] \in S
  BY <1>1, <1>2
<1>4. SubSeq(s, 1, n) \in Seq(S) /\ Len(SubSeq(s, 1, n)) = n
  BY <1>1, <1>2, <1>3
<1>5. \A i \in 1..n : SubSeq(s, 1, n)[i] = s[i]
  BY <1>1, <1>2
<1> QED
  BY <1>1, <1>2, <1>4, <1>5 DEF Front

\* The first part of a path, and a path with one key more.
LEMMA PathFacts ==
  ASSUME NEW p \in Path, NEW k \in Key
  PROVE  /\ Append(p, k) \in Path /\ Append(p, k) # <<>>
         /\ Len(Append(p, k)) = Len(p) + 1
         /\ Append(p, k)[Len(p) + 1] = k
         /\ Front(Append(p, k)) = p
         /\ p # <<>> => /\ Front(p) \in Path
                        /\ Len(Front(p)) = Len(p) - 1 /\ Len(p) > 0
                        /\ p[Len(p)] \in Key
                        /\ Append(Front(p), p[Len(p)]) = p
<1> USE DEF Path
<1>1. /\ Append(p, k) \in Seq(Key) /\ Len(Append(p, k)) = Len(p) + 1
      /\ Append(p, k)[Len(p) + 1] = k /\ Append(p, k) # <<>>
      /\ \A i \in 1..Len(p) : Append(p, k)[i] = p[i]
  OBVIOUS
<1>2. Front(Append(p, k)) = p
  BY <1>1 DEF Front
<1>3. ASSUME p # <<>>
      PROVE  /\ Front(p) \in Path /\ Len(Front(p)) = Len(p) - 1 /\ Len(p) > 0
             /\ p[Len(p)] \in Key
             /\ Append(Front(p), p[Len(p)]) = p
  <2>1. Len(p) \in Nat /\ Len(p) > 0
    BY <1>3
  <2>2. /\ Front(p) \in Seq(Key) /\ Len(Front(p)) = Len(p) - 1
        /\ \A i \in 1..(Len(p) - 1) : Front(p)[i] = p[i]
    BY <1>3, FrontFacts
  <2>3. p[Len(p)] \in Key
    BY <2>1
  <2>4. /\ Append(Front(p), p[Len(p)]) \in Seq(Key)
        /\ Len(Append(Front(p), p[Len(p)])) = Len(p)
    BY <2>1, <2>2, <2>3
  <2>5. ASSUME NEW i \in 1..Len(p) PROVE Append(Front(p), p[Len(p)])[i] = p[i]
    BY <2>1, <2>2, <2>3
  <2>6. Append(Front(p), p[Len(p)]) = p
    BY <2>4, <2>5
  <2> QED
    BY <2>1, <2>2, <2>3, <2>6
<1> QED
  BY <1>1, <1>2, <1>3

\* Below, element by element.
LEMMA BelowIs ==
  ASSUME NEW p \in Path, NEW q \in Path
  PROVE  Below(p, q) <=> Len(p) <= Len(q) /\ \A i \in 1..Len(p) : q[i] = p[i]
<1> USE DEF Path
<1>1. ASSUME Len(p) <= Len(q)
      PROVE  /\ SubSeq(q, 1, Len(p)) \in Seq(Key)
             /\ Len(SubSeq(q, 1, Len(p))) = Len(p)
             /\ \A i \in 1..Len(p) : SubSeq(q, 1, Len(p))[i] = q[i]
  BY <1>1
<1>2. ASSUME Len(p) <= Len(q), \A i \in 1..Len(p) : q[i] = p[i]
      PROVE  SubSeq(q, 1, Len(p)) = p
  BY <1>1, <1>2
<1>3. ASSUME Below(p, q) PROVE \A i \in 1..Len(p) : q[i] = p[i]
  <2>1. Len(p) <= Len(q) /\ SubSeq(q, 1, Len(p)) = p
    BY <1>3 DEF Below
  <2> QED
    BY <1>1, <2>1
<1> QED
  BY <1>2, <1>3 DEF Below

\* What is below a path is the path itself or in something below it.
LEMMA BelowFacts ==
  ASSUME NEW p \in Path, NEW q \in Path
  PROVE  /\ Below(p, p)
         /\ Below(p, q) /\ Len(q) <= Len(p) => q = p
         /\ q # <<>> /\ Below(p, Front(q)) => Below(p, q)
         /\ q # <<>> /\ Below(p, q) /\ q # p => Below(p, Front(q))
<1>1. Below(p, p)
  BY BelowIs DEF Path
<1>2. ASSUME Below(p, q), Len(q) <= Len(p) PROVE q = p
  <2>1. Len(p) <= Len(q) /\ \A i \in 1..Len(p) : q[i] = p[i]
    BY <1>2, BelowIs
  <2> QED
    BY <1>2, <2>1 DEF Path
<1>3. ASSUME q # <<>>
      PROVE  /\ Front(q) \in Path /\ Len(Front(q)) = Len(q) - 1
             /\ \A i \in 1..(Len(q) - 1) : Front(q)[i] = q[i]
  BY <1>3, FrontFacts DEF Path
<1>4. ASSUME q # <<>>, Below(p, Front(q)) PROVE Below(p, q)
  <2>1. Len(p) <= Len(Front(q)) /\ \A i \in 1..Len(p) : Front(q)[i] = p[i]
    BY <1>3, <1>4, BelowIs
  <2>2. Len(p) <= Len(q) /\ \A i \in 1..Len(p) : q[i] = p[i]
    BY <1>3, <1>4, <2>1 DEF Path
  <2> QED
    BY <2>2, BelowIs
<1>5. ASSUME q # <<>>, Below(p, q), q # p PROVE Below(p, Front(q))
  <2>1. Len(p) <= Len(q) /\ \A i \in 1..Len(p) : q[i] = p[i]
    BY <1>5, BelowIs
  <2>2. Len(p) < Len(q)
    BY <1>2, <1>5, <2>1 DEF Path
  <2>3. Len(p) <= Len(Front(q)) /\ \A i \in 1..Len(p) : Front(q)[i] = p[i]
    BY <1>3, <1>5, <2>1, <2>2 DEF Path
  <2> QED
    BY <1>3, <1>5, <2>3, BelowIs
<1> QED
  BY <1>1, <1>2, <1>4, <1>5

-----------------------------------------------------------------------------
(* The document and the open containers.                                   *)

\* The container on top of the stack, and the value being read in it.
LEMMA TopFacts ==
  ASSUME ReaderTypeOK, StackOK, nodes # <<>>
  PROVE  /\ Top \in Node /\ NodeOn(Top, Len(nodes), doc)
         /\ Current = Append(Top.path, Top.key)
         /\ Current \in Path /\ Current # <<>> /\ Len(Current) = Len(nodes)
         /\ Front(Current) = Top.path /\ Current[Len(Current)] = Top.key
         /\ Len(nodes) \in Nat /\ Len(nodes) > 0
<1>1. Len(nodes) \in Nat /\ Len(nodes) > 0 /\ Top \in Node
  BY DEF ReaderTypeOK, Top
<1>2. NodeOn(Top, Len(nodes), doc)
  BY <1>1 DEF StackOK, StackOn, Top
<1>3. Current = Append(Top.path, Top.key)
  BY DEF Current
<1>4. Top.path \in Path /\ Top.key \in Key
  BY <1>1 DEF Node
<1>5. Len(Top.path) = Len(nodes) - 1
  BY <1>2 DEF NodeOn
<1>6. /\ Current \in Path /\ Current # <<>> /\ Front(Current) = Top.path
      /\ Len(Current) = Len(Top.path) + 1
      /\ Current[Len(Top.path) + 1] = Top.key
  BY <1>3, <1>4, PathFacts
<1> QED
  BY <1>1, <1>2, <1>3, <1>5, <1>6

\* The path of the value being read.
LEMMA CurrentFacts ==
  ASSUME ReaderTypeOK, StackOK
  PROVE  Current \in Path /\ Len(Current) = Len(nodes) /\ Len(nodes) \in Nat
<1>1. CASE nodes = <<>>
  BY <1>1 DEF Current, Path
<1>2. CASE nodes # <<>>
  BY <1>2, TopFacts
<1> QED
  BY <1>1, <1>2

\* swapPayload: what is at or above the path stays, and so do containers and
\* neighbours of what stays.
LEMMA SwapFacts ==
  ASSUME NEW p \in Path, NEW v, DOMAIN doc \subseteq Path, SwapPayload(p, v)
  PROVE  /\ DOMAIN doc' \subseteq Path
         /\ IsFiniteSet(DOMAIN doc) => IsFiniteSet(DOMAIN doc')
         /\ p \in DOMAIN doc' /\ doc'[p] = v
         /\ \A q \in DOMAIN doc : Len(q) <= Len(p) =>
               q \in DOMAIN doc' /\ (q # p => doc'[q] = doc[q])
         /\ \A q \in DOMAIN doc' : q # p =>
               q \in DOMAIN doc /\ doc'[q] = doc[q] /\ ~Below(p, q)
         /\ \A q \in DOMAIN doc' : q # p /\ q # <<>> =>
               /\ Front(q) \in DOMAIN doc =>
                     Front(q) \in DOMAIN doc' /\ doc'[Front(q)] = doc[Front(q)]
               /\ \A k \in Key : Append(Front(q), k) \in DOMAIN doc =>
                                    Append(Front(q), k) \in DOMAIN doc'
<1>1. DOMAIN doc' = {p} \cup {r \in DOMAIN doc : ~Below(p, r)}
  BY DEF SwapPayload
<1>2. \A q \in DOMAIN doc' : doc'[q] = IF q = p THEN v ELSE doc[q]
  BY DEF SwapPayload
<1>3. DOMAIN doc' \subseteq Path
  BY <1>1
<1>4. IsFiniteSet(DOMAIN doc) => IsFiniteSet(DOMAIN doc')
  <2> SUFFICES ASSUME IsFiniteSet(DOMAIN doc) PROVE IsFiniteSet(DOMAIN doc')
    OBVIOUS
  <2>1. IsFiniteSet({r \in DOMAIN doc : ~Below(p, r)})
    BY FS_Subset
  <2>2. IsFiniteSet({r \in DOMAIN doc : ~Below(p, r)} \cup {p})
    BY <2>1, FS_AddElement
  <2>3. DOMAIN doc' = {r \in DOMAIN doc : ~Below(p, r)} \cup {p}
    BY <1>1
  <2> QED
    BY <2>2, <2>3
<1>5. ASSUME NEW q \in DOMAIN doc, Len(q) <= Len(p)
      PROVE  q \in DOMAIN doc' /\ (q # p => doc'[q] = doc[q])
  <2>1. q \in DOMAIN doc'
    BY <1>1, <1>5, BelowFacts
  <2> QED
    BY <1>2, <2>1
<1>6. ASSUME NEW q \in DOMAIN doc', q # p
      PROVE  q \in DOMAIN doc /\ doc'[q] = doc[q] /\ ~Below(p, q)
  BY <1>1, <1>2, <1>6
<1>7. ASSUME NEW q \in DOMAIN doc', q # p, q # <<>>
      PROVE  /\ Front(q) \in DOMAIN doc =>
                   Front(q) \in DOMAIN doc' /\ doc'[Front(q)] = doc[Front(q)]
             /\ \A k \in Key : Append(Front(q), k) \in DOMAIN doc =>
                                  Append(Front(q), k) \in DOMAIN doc'
  <2>1. q \in Path /\ ~Below(p, q) /\ Front(q) \in Path
    BY <1>3, <1>6, <1>7, FrontFacts DEF Path
  <2>2. ~Below(p, Front(q)) /\ Front(q) # p
    BY <1>7, <2>1, BelowFacts
  <2>3. Front(q) \in DOMAIN doc =>
           Front(q) \in DOMAIN doc' /\ doc'[Front(q)] = doc[Front(q)]
    BY <1>1, <1>2, <2>2
  <2>4. ASSUME NEW k \in Key, Append(Front(q), k) \in DOMAIN doc
        PROVE  Append(Front(q), k) \in DOMAIN doc'
    <3>1. PICK r \in Path : r = Append(Front(q), k)
      BY <2>1, PathFacts
    <3>2. r # <<>> /\ Front(r) = Front(q)
      BY <2>1, <3>1, PathFacts
    <3>3. r = p \/ ~Below(p, r)
      BY <2>2, <3>2, BelowFacts
    <3> QED
      BY <1>1, <2>4, <3>1, <3>3
  <2> QED
    BY <2>3, <2>4
<1> QED
  BY <1>1, <1>2, <1>3, <1>4, <1>5, <1>6, <1>7

\* Keys of members and of elements.
LEMMA SomeKeys ==
  /\ \A name \in Name : Member(name) \in Key
  /\ \A i \in Nat : Element(i) \in Key
  /\ Member(<<>>) \in Key /\ Element(1) \in Key
<1>1. <<>> \in Name
  BY DEF Name
<1> QED
  BY <1>1 DEF Element, Member, Key

\* The elements before and after the one of a key.
LEMMA KeyFacts ==
  ASSUME NEW k \in Key
  PROVE  /\ k[2] \in Nat
         /\ k[2] > 1 => Element(k[2] - 1) \in Key
         /\ Element(k[2] + 1) \in Key
<1>1. k[2] \in Nat
  BY DEF Key
<1> QED
  BY <1>1, SomeKeys

\* A value put where the reader is: the document stays a tree and the open
\* containers stay in it.
LEMMA Swapped ==
  ASSUME ReaderTypeOK, DocumentIsTree, StackOK,
         NEW v \in JsonValue, SwapPayload(Current, v)
  PROVE  /\ DocOK'
         /\ StackOn(nodes, doc')
         /\ Current \in DOMAIN doc' /\ doc'[Current] = v
<1>1. Current \in Path /\ Len(Current) = Len(nodes) /\ Len(nodes) \in Nat
  BY CurrentFacts
<1>2. /\ DOMAIN doc' \subseteq Path
      /\ IsFiniteSet(DOMAIN doc')
      /\ Current \in DOMAIN doc' /\ doc'[Current] = v
      /\ \A q \in DOMAIN doc : Len(q) <= Len(Current) =>
            q \in DOMAIN doc' /\ (q # Current => doc'[q] = doc[q])
      /\ \A q \in DOMAIN doc' : q # Current =>
            q \in DOMAIN doc /\ doc'[q] = doc[q] /\ ~Below(Current, q)
      /\ \A q \in DOMAIN doc' : q # Current /\ q # <<>> =>
            /\ Front(q) \in DOMAIN doc =>
                  Front(q) \in DOMAIN doc' /\ doc'[Front(q)] = doc[Front(q)]
            /\ \A k \in Key : Append(Front(q), k) \in DOMAIN doc =>
                                 Append(Front(q), k) \in DOMAIN doc'
  <2>1. DOMAIN doc \subseteq Path /\ IsFiniteSet(DOMAIN doc)
    BY DEF ReaderTypeOK
  <2> QED
    BY <1>1, <2>1, SwapFacts
<1>3. \A p \in DOMAIN doc' : doc'[p] \in JsonValue
  BY <1>2 DEF ReaderTypeOK
<1>4. ASSUME NEW q \in DOMAIN doc', q # <<>>
      PROVE  /\ Front(q) \in DOMAIN doc'
             /\ doc'[Front(q)].type =
                   IF q[Len(q)][2] = 0 THEN "object" ELSE "array"
             /\ q[Len(q)][2] > 1 =>
                   Append(Front(q), Element(q[Len(q)][2] - 1)) \in DOMAIN doc'
  <2>0. q \in Path /\ q[Len(q)] \in Key
    BY <1>2, <1>4, SomeKeys, PathFacts
  <2>1. CASE q # Current
    <3>1. q \in DOMAIN doc
      BY <1>2, <2>1
    <3>2. /\ Front(q) \in DOMAIN doc
          /\ doc[Front(q)].type = IF q[Len(q)][2] = 0 THEN "object" ELSE "array"
          /\ q[Len(q)][2] > 1 =>
                Append(Front(q), Element(q[Len(q)][2] - 1)) \in DOMAIN doc
      BY <1>4, <3>1 DEF DocumentIsTree
    <3>3. Front(q) \in DOMAIN doc' /\ doc'[Front(q)] = doc[Front(q)]
      BY <1>2, <1>4, <2>1, <3>2
    <3>4. ASSUME q[Len(q)][2] > 1
          PROVE  Append(Front(q), Element(q[Len(q)][2] - 1)) \in DOMAIN doc'
      <4>1. Element(q[Len(q)][2] - 1) \in Key
        BY <2>0, <3>4, KeyFacts
      <4> QED
        BY <1>2, <1>4, <2>1, <3>2, <3>4, <4>1
    <3> QED
      BY <3>2, <3>3, <3>4
  <2>2. CASE q = Current
    <3>1. nodes # <<>>
      BY <1>4, <2>2 DEF Current
    <3>2. /\ Top \in Node /\ NodeOn(Top, Len(nodes), doc)
          /\ Front(Current) = Top.path /\ Current[Len(Current)] = Top.key
          /\ Len(nodes) > 0
      BY <3>1, TopFacts
    <3>3. /\ Len(Top.path) = Len(nodes) - 1
          /\ Top.path \in DOMAIN doc
          /\ doc[Top.path].type = Top.type
          /\ Top.type = "object" => Top.key[2] = 0
          /\ Top.type = "array" => Top.key[2] # 0
          /\ Top.type = "array" /\ Top.key[2] > 1 =>
                Append(Top.path, Element(Top.key[2] - 1)) \in DOMAIN doc
          /\ Top.type \in {"object", "array"}
          /\ Top.path \in Path /\ Top.key \in Key
      BY <3>2 DEF NodeOn, Node
    <3>4. Top.path \in DOMAIN doc' /\ doc'[Top.path] = doc[Top.path]
      BY <1>1, <1>2, <3>3
    <3>5. ASSUME Top.key[2] > 1
          PROVE  Append(Top.path, Element(Top.key[2] - 1)) \in DOMAIN doc'
      <4>1. Top.type = "array"
        BY <3>3, <3>5
      <4>2. Element(Top.key[2] - 1) \in Key
        BY <3>3, <3>5, KeyFacts
      <4>3. Len(Append(Top.path, Element(Top.key[2] - 1))) = Len(nodes)
        BY <1>1, <3>3, <4>2, PathFacts
      <4>4. Append(Top.path, Element(Top.key[2] - 1)) \in DOMAIN doc
        BY <3>3, <3>5, <4>1
      <4>5. Len(nodes) <= Len(Current)
        BY <1>1
      <4> QED
        BY <1>2, <4>3, <4>4, <4>5
    <3> QED
      BY <2>2, <3>2, <3>3, <3>4, <3>5
  <2> QED
    BY <2>1, <2>2
<1>5. DocumentIsTree'
  BY <1>4 DEF DocumentIsTree
<1>6. ASSUME NEW i \in 1..Len(nodes) PROVE NodeOn(nodes[i], i, doc')
  <2>1. NodeOn(nodes[i], i, doc) /\ nodes[i] \in Node
    BY DEF StackOK, StackOn, ReaderTypeOK
  <2>2. /\ Len(nodes[i].path) = i - 1
        /\ nodes[i].path \in DOMAIN doc
        /\ nodes[i].path \in Path /\ nodes[i].key \in Key
    BY <2>1 DEF NodeOn, Node
  <2>3. nodes[i].path \in DOMAIN doc'
          /\ doc'[nodes[i].path] = doc[nodes[i].path]
    BY <1>1, <1>2, <2>2
  <2>4. ASSUME nodes[i].type = "array", nodes[i].key[2] > 1
        PROVE  Append(nodes[i].path, Element(nodes[i].key[2] - 1))
                 \in DOMAIN doc'
    <3>1. Element(nodes[i].key[2] - 1) \in Key
      BY <2>2, <2>4, KeyFacts
    <3>2. Len(Append(nodes[i].path, Element(nodes[i].key[2] - 1))) = i
      BY <2>2, <3>1, PathFacts
    <3>3. Append(nodes[i].path, Element(nodes[i].key[2] - 1)) \in DOMAIN doc
      BY <2>1, <2>4 DEF NodeOn
    <3>4. i <= Len(Current)
      BY <1>1
    <3> QED
      BY <1>2, <3>2, <3>3, <3>4
  <2> QED
    BY <2>1, <2>3, <2>4 DEF NodeOn
<1>7. StackOn(nodes, doc')
  BY <1>6 DEF StackOK, StackOn
<1> QED
  BY <1>2, <1>3, <1>5, <1>7 DEF DocOK

\* operator[]: the same, and nothing changes if the value was there.
LEMMA Resolved ==
  ASSUME ReaderTypeOK, DocumentIsTree, StackOK, Resolve
  PROVE  /\ DocOK'
         /\ StackOn(nodes, doc')
         /\ Current \in DOMAIN doc'
<1>1. CASE Current \in DOMAIN doc
  <2>1. doc' = doc
    BY <1>1 DEF Resolve
  <2>2. DocumentIsTree'
    BY <2>1 DEF DocumentIsTree
  <2> QED
    BY <1>1, <2>1, <2>2 DEF ReaderTypeOK, StackOK, DocOK
<1>2. CASE Current \notin DOMAIN doc
  <2>1. SwapPayload(Current, Null)
    BY <1>2 DEF Resolve
  <2>2. Null \in JsonValue
    BY DEF Null, JsonValue
  <2> QED
    BY <2>1, <2>2, Swapped
<1> QED
  BY <1>1, <1>2

\* The stack without its top; what was read there is what the next container
\* is at.
LEMMA Popped ==
  ASSUME ReaderTypeOK, StackOK, nodes # <<>>
  PROVE  /\ Front(nodes) \in Seq(Node) /\ Len(Front(nodes)) = Len(nodes) - 1
         /\ \A i \in 1..(Len(nodes) - 1) : Front(nodes)[i] = nodes[i]
         /\ Len(nodes) \in Nat /\ Len(nodes) > 0
         /\ StackOn(Front(nodes), doc)
         /\ Front(nodes) = <<>> <=> Len(nodes) = 1
         /\ Front(nodes) # <<>> =>
               LET top == Front(nodes)[Len(Front(nodes))]
               IN  top \in Node /\ Append(top.path, top.key) \in DOMAIN doc
<1>1. /\ Front(nodes) \in Seq(Node) /\ Len(Front(nodes)) = Len(nodes) - 1
      /\ \A i \in 1..(Len(nodes) - 1) : Front(nodes)[i] = nodes[i]
      /\ Len(nodes) \in Nat /\ Len(nodes) > 0
  BY FrontFacts DEF ReaderTypeOK
<1>2. Front(nodes) = <<>> <=> Len(nodes) = 1
  BY <1>1
<1>3. StackOn(Front(nodes), doc)
  <2>1. PICK f \in Seq(Node) : f = Front(nodes)
    BY <1>1
  <2>2. Len(f) = Len(nodes) - 1 /\ \A i \in 1..Len(f) : f[i] = nodes[i]
    BY <1>1, <2>1
  <2>3. \A i \in 1..Len(f) : NodeOn(f[i], i, doc)
    BY <1>1, <2>2 DEF StackOK, StackOn
  <2>4. ASSUME NEW i \in 1..(Len(f) - 1)
        PROVE  f[i + 1].path = Append(f[i].path, f[i].key)
    <3>1. f[i + 1] = nodes[i + 1] /\ f[i] = nodes[i]
      BY <2>2
    <3>2. nodes[i + 1].path = Append(nodes[i].path, nodes[i].key)
      BY <1>1, <2>2 DEF StackOK, StackOn
    <3> QED
      BY <3>1, <3>2
  <2> QED
    BY <2>1, <2>3, <2>4 DEF StackOn
<1>4. ASSUME Front(nodes) # <<>>
      PROVE  LET top == Front(nodes)[Len(Front(nodes))]
             IN  top \in Node /\ Append(top.path, top.key) \in DOMAIN doc
  <2>1. PICK m \in Nat : m = Len(nodes) - 1 /\ m > 0
    BY <1>1, <1>2, <1>4
  <2>2. Front(nodes)[m] = nodes[m] /\ nodes[m] \in Node
    BY <1>1, <2>1 DEF ReaderTypeOK
  <2>3. nodes[m + 1].path = Append(nodes[m].path, nodes[m].key)
    BY <1>1, <2>1 DEF StackOK, StackOn
  <2>4. nodes[m + 1].path \in DOMAIN doc
    BY <1>1, <2>1 DEF StackOK, StackOn, NodeOn
  <2> QED
    BY <1>1, <2>1, <2>2, <2>3, <2>4
<1> QED
  BY <1>1, <1>2, <1>3, <1>4

\* The key on top of the stack is another one.
LEMMA Rekeyed ==
  ASSUME ReaderTypeOK, StackOK, nodes # <<>>, NEW key \in Key, SetKey(key),
         Top.type = "object" => key[2] = 0,
         Top.type = "array" =>
            /\ key[2] # 0 /\ key = Element(key[2])
            /\ key[2] > 1
                  => Append(Top.path, Element(key[2] - 1)) \in DOMAIN doc
  PROVE  /\ nodes' \in Seq(Node) /\ nodes' # <<>> /\ Top'.type = Top.type
         /\ Top'.path = Top.path /\ Top'.key = key
         /\ StackOn(nodes', doc)
<1>1. Top \in Node /\ NodeOn(Top, Len(nodes), doc) /\ Len(nodes) \in Nat
        /\ Len(nodes) > 0
  BY TopFacts
<1>2. nodes' = [nodes EXCEPT ![Len(nodes)].key = key]
  BY DEF SetKey
<1>3. PICK node : node = [Top EXCEPT !.key = key]
  OBVIOUS
<1>4. /\ node \in Node /\ node.type = Top.type /\ node.path = Top.path
      /\ node.key = key
  BY <1>1, <1>3 DEF Node
<1>5. nodes' = [nodes EXCEPT ![Len(nodes)] = node]
  BY <1>2, <1>3 DEF Top
<1>6. /\ nodes' \in Seq(Node) /\ Len(nodes') = Len(nodes)
      /\ nodes'[Len(nodes)] = node
      /\ \A i \in 1..(Len(nodes) - 1) : nodes'[i] = nodes[i]
  BY <1>1, <1>4, <1>5 DEF ReaderTypeOK
<1>7. Top' = node /\ nodes' # <<>>
  BY <1>1, <1>6 DEF Top
<1>8. NodeOn(node, Len(nodes), doc)
  BY <1>1, <1>4 DEF NodeOn
<1>9. ASSUME NEW i \in 1..Len(nodes') PROVE NodeOn(nodes'[i], i, doc)
  BY <1>1, <1>6, <1>8, <1>9 DEF StackOK, StackOn
<1>10. ASSUME NEW i \in 1..(Len(nodes') - 1)
       PROVE  nodes'[i + 1].path = Append(nodes'[i].path, nodes'[i].key)
  <2>1. nodes[i + 1].path = Append(nodes[i].path, nodes[i].key)
    BY <1>6 DEF StackOK, StackOn
  <2>2. nodes'[i] = nodes[i]
    BY <1>6
  <2>3. nodes'[i + 1].path = nodes[i + 1].path
    <3>1. CASE i + 1 = Len(nodes)
      BY <1>4, <1>6, <3>1 DEF Top
    <3>2. CASE i + 1 # Len(nodes)
      BY <1>1, <1>6, <3>2
    <3> QED
      BY <3>1, <3>2
  <2> QED
    BY <2>1, <2>2, <2>3
<1>11. StackOn(nodes', doc)
  BY <1>9, <1>10 DEF StackOn
<1> QED
  BY <1>4, <1>6, <1>7, <1>11

\* One container more, at the value that is being read.
LEMMA Pushed ==
  ASSUME ReaderTypeOK, NEW d, StackOn(nodes, d), NEW node \in Node,
         node.path = Current, NodeOn(node, Len(nodes) + 1, d)
  PROVE  /\ Append(nodes, node) \in Seq(Node)
         /\ Len(Append(nodes, node)) = Len(nodes) + 1
         /\ Append(nodes, node)[Len(nodes) + 1] = node
         /\ Append(nodes, node) # <<>>
         /\ StackOn(Append(nodes, node), d)
<1>1. nodes \in Seq(Node) /\ Len(nodes) \in Nat
  BY DEF ReaderTypeOK
<1>2. PICK s : s = Append(nodes, node)
  OBVIOUS
<1>3. /\ s \in Seq(Node) /\ Len(s) = Len(nodes) + 1 /\ s[Len(nodes) + 1] = node
      /\ \A i \in 1..Len(nodes) : s[i] = nodes[i]
      /\ s # <<>>
  BY <1>1, <1>2
<1>4. ASSUME NEW i \in 1..Len(s) PROVE NodeOn(s[i], i, d)
  <2>1. CASE i = Len(nodes) + 1
    BY <1>3, <2>1
  <2>2. CASE i # Len(nodes) + 1
    <3>1. i \in 1..Len(nodes)
      BY <1>1, <1>3, <2>2
    <3> QED
      BY <1>3, <3>1 DEF StackOn
  <2> QED
    BY <2>1, <2>2
<1>5. ASSUME NEW i \in 1..(Len(s) - 1)
      PROVE  s[i + 1].path = Append(s[i].path, s[i].key)
  <2>1. CASE i = Len(nodes)
    <3>1. s[i + 1].path = Current /\ s[i] = nodes[i] /\ nodes # <<>>
      BY <1>1, <1>3, <2>1
    <3> QED
      BY <2>1, <3>1 DEF Current, Top
  <2>2. CASE i # Len(nodes)
    <3>1. i \in 1..(Len(nodes) - 1) /\ i + 1 \in 1..Len(nodes)
      BY <1>1, <1>3, <2>2
    <3>2. s[i] = nodes[i] /\ s[i + 1] = nodes[i + 1]
      BY <1>1, <1>3, <3>1
    <3> QED
      BY <3>1, <3>2 DEF StackOn
  <2> QED
    BY <2>1, <2>2
<1>6. StackOn(s, d)
  BY <1>4, <1>5 DEF StackOn
<1> QED
  BY <1>2, <1>3, <1>6

\* The invariant of the reader from what a step establishes of each part.
LEMMA Established ==
  ASSUME DocOK', nodes' \in Seq(Node), StackOn(nodes', doc'),
         at' \in {"value", "first", "name", "colon", "object", "comment",
                  "array", "recover", "end", "done", "thrown"},
         successful' \in BOOLEAN, PlaceOK'
  PROVE  ReaderInv'
  BY DEF ReaderInv, ReaderTypeOK, DocOK, StackOK

\* A step that only moves the reader on.
LEMMA Moved ==
  ASSUME ReaderInv, doc' = doc, nodes' = nodes, successful' \in BOOLEAN,
         at' \in {"value", "first", "name", "colon", "object", "comment",
                  "array", "recover", "end", "done", "thrown"},
         at' \in {"name", "colon", "object", "comment"} =>
            nodes # <<>> /\ Top.type = "object",
         at' = "first" => nodes # <<>> /\ Top.type = "array",
         at' = "array" =>
            nodes # <<>> /\ Top.type = "array" /\ Current \in DOMAIN doc,
         at' = "recover" => nodes # <<>>,
         ~successful' => at' \in {"recover", "end", "done"}
  PROVE  ReaderInv'
<1>1. DocOK'
  BY DEF ReaderInv, ReaderTypeOK, DocumentIsTree, DocOK
<1>2. nodes' \in Seq(Node) /\ StackOn(nodes', doc')
  BY DEF ReaderInv, ReaderTypeOK, StackOK
<1>3. Top' = Top /\ Current' = Current
  BY DEF Top, Current
<1>4. PlaceOK'
  BY <1>3 DEF PlaceOK
<1> QED
  BY <1>1, <1>2, <1>4, Established

\* An error where the reader is.
LEMMA Failed ==
  ASSUME ReaderInv, DocOK', StackOn(nodes, doc'), Fail
  PROVE  ReaderInv'
<1>1. /\ successful' = FALSE /\ nodes' = nodes
      /\ at' = IF nodes = <<>> THEN "end" ELSE "recover"
  BY DEF Fail
<1>2. nodes' \in Seq(Node) /\ StackOn(nodes', doc')
  BY <1>1 DEF ReaderInv, ReaderTypeOK
<1>3. PlaceOK'
  BY <1>1 DEF PlaceOK
<1> QED
  BY <1>1, <1>2, <1>3, Established

\* A container is complete.
LEMMA PopKeeps ==
  ASSUME ReaderInv, nodes # <<>>, successful, Pop
  PROVE  ReaderInv'
<1>1. /\ nodes' = Front(nodes) /\ doc' = doc /\ successful' = successful
      /\ at' = IF nodes' = <<>> THEN "end" ELSE nodes'[Len(nodes')].type
  BY DEF Pop, Completed
<1>2. DocOK'
  BY <1>1 DEF ReaderInv, ReaderTypeOK, DocumentIsTree, DocOK
<1>3. /\ nodes' \in Seq(Node) /\ StackOn(nodes', doc')
      /\ nodes' # <<>> =>
            /\ nodes'[Len(nodes')] \in Node
            /\ Append(nodes'[Len(nodes')].path, nodes'[Len(nodes')].key)
                  \in DOMAIN doc'
  BY <1>1, Popped DEF ReaderInv
<1>4. PlaceOK' /\ at' \in {"end", "object", "array"}
  BY <1>1, <1>3 DEF PlaceOK, Top, Current, Node
<1> QED
  BY <1>1, <1>2, <1>3, <1>4, Established

\* The key of the container on top changes, and the reader goes on.
LEMMA SetKeyKeeps ==
  ASSUME ReaderInv, nodes # <<>>, NEW key \in Key, SetKey(key),
         Top.type = "object" => key[2] = 0,
         Top.type = "array" =>
            /\ key[2] # 0 /\ key = Element(key[2])
            /\ key[2] > 1
                  => Append(Top.path, Element(key[2] - 1)) \in DOMAIN doc,
         doc' = doc, successful' = successful, successful,
         at' = "value" \/ (at' = "colon" /\ Top.type = "object")
  PROVE  ReaderInv'
<1>1. DocOK'
  BY DEF ReaderInv, ReaderTypeOK, DocumentIsTree, DocOK
<1>2. /\ nodes' \in Seq(Node) /\ nodes' # <<>> /\ Top'.type = Top.type
      /\ StackOn(nodes', doc')
  BY Rekeyed DEF ReaderInv
<1>3. PlaceOK'
  BY <1>2 DEF PlaceOK
<1>4. successful' \in BOOLEAN
  BY DEF ReaderInv, ReaderTypeOK
<1> QED
  BY <1>1, <1>2, <1>3, <1>4, Established

-----------------------------------------------------------------------------
(* The steps of the reader.                                                *)

\* What a scalar token is read as.
Scalar(token) == IF token.type = "number" THEN DecodeNumber(token) ELSE token

\* A scalar is a value, and a null only if the text has a null.
LEMMA ScalarFacts ==
  ASSUME NEW token \in Token,
         token.type \in {"null", "bool", "number", "string"}
  PROVE  Scalar(token) \in JsonValue
           /\ (Scalar(token) = Null <=> token.type = "null")
<1>1. CASE token.type = "number"
  <2>1. token.negative \in BOOLEAN /\ token.digits \in Seq(0..9)
    BY <1>1 DEF Token
  <2>2. /\ DecodeNumber(token) \in JsonValue
        /\ DecodeNumber(token).type \in {"int", "uint", "real"}
    BY <2>1, DecodeFacts
  <2> QED
    BY <1>1, <2>2 DEF Scalar, Null
<1>2. CASE token.type = "null"
  <2>1. token \in [type : {"null"}]
    BY <1>2 DEF Token
  <2>2. token = Null
    BY <2>1 DEF Null
  <2> QED
    BY <1>2, <2>1, <2>2 DEF Scalar, JsonValue, Null
<1>3. CASE token.type = "bool"
  <2>1. token \in [type : {"bool"}, bool : BOOLEAN]
    BY <1>3 DEF Token
  <2> QED
    BY <1>3, <2>1 DEF Scalar, JsonValue, Null
<1>4. CASE token.type = "string"
  <2>1. token \in [type : {"string"}, name : Name]
    BY <1>4 DEF Token
  <2> QED
    BY <1>4, <2>1 DEF Scalar, JsonValue, Null
<1> QED
  BY <1>1, <1>2, <1>3, <1>4

\* Where a value is expected nothing has failed yet.
LEMMA ValueNextFacts ==
  ASSUME ReaderInv, NEW token, ValueNext(token)
  PROVE  /\ successful /\ successful \in BOOLEAN
         /\ ReaderTypeOK /\ DocumentIsTree /\ StackOK
         /\ Current \in Path /\ Len(Current) = Len(nodes) /\ Len(nodes) \in Nat
<1>1. ReaderTypeOK /\ DocumentIsTree /\ StackOK
  BY DEF ReaderInv
<1>2. successful /\ successful \in BOOLEAN
  BY DEF ReaderInv, PlaceOK, ReaderTypeOK, ValueNext
<1> QED
  BY <1>1, <1>2, CurrentFacts

\* readValue: the stack limit.
LEMMA TooDeepKeeps ==
  ASSUME ReaderInv, NEW token, ReadTooDeep(token)
  PROVE  ReaderInv'
<1>1. ValueNext(token) /\ Resolve /\ at' = "thrown" /\ nodes' = nodes
      /\ successful' = successful
  BY DEF ReadTooDeep
<1>2. successful /\ ReaderTypeOK /\ DocumentIsTree /\ StackOK
  BY <1>1, ValueNextFacts
<1>3. DocOK' /\ StackOn(nodes', doc')
  BY <1>1, <1>2, Resolved
<1>4. PlaceOK'
  BY <1>1, <1>2 DEF PlaceOK
<1> QED
  BY <1>1, <1>3, <1>4, Established DEF ReaderInv, ReaderTypeOK

\* readValue: a scalar.
LEMMA ScalarKeeps ==
  ASSUME ReaderInv, NEW token \in Token, ReadScalar(token)
  PROVE  ReaderInv'
<1>1. /\ ValueNext(token) /\ SwapPayload(Current, Scalar(token))
      /\ token.type \in {"null", "bool", "number", "string"}
      /\ at' = IF nodes = <<>> THEN "end" ELSE Top.type
      /\ nodes' = nodes /\ successful' = successful
  BY DEF ReadScalar, Scalar, Completed, Top
<1>2. successful /\ ReaderTypeOK /\ DocumentIsTree /\ StackOK
  BY <1>1, ValueNextFacts
<1>3. Scalar(token) \in JsonValue
  BY <1>1, ScalarFacts
<1>4. DocOK' /\ StackOn(nodes', doc') /\ Current \in DOMAIN doc'
  BY <1>1, <1>2, <1>3, Swapped
<1>5. Top' = Top /\ Current' = Current
  BY <1>1 DEF Top, Current
<1>6. nodes # <<>> => Top.type \in {"object", "array"}
  BY <1>2, TopFacts DEF Node
<1>7. PlaceOK' /\ at' \in {"end", "object", "array"}
  BY <1>1, <1>2, <1>4, <1>5, <1>6 DEF PlaceOK
<1> QED
  BY <1>1, <1>2, <1>4, <1>7, Established DEF ReaderTypeOK

\* readObject and readArray: the brace or the bracket that opens one.
LEMMA OpenKeeps ==
  ASSUME ReaderInv, NEW token, Open(token)
  PROVE  ReaderInv'
<1>1. PICK object \in BOOLEAN : object = (token.type = "{")
  OBVIOUS
<1>2. PICK type \in {"object", "array"} :
         type = IF object THEN "object" ELSE "array"
  OBVIOUS
<1>3. PICK node : node = [path |-> Current, type |-> type,
                          key |-> IF object THEN Member(<<>>) ELSE Element(1)]
  OBVIOUS
<1>4. /\ ValueNext(token) /\ SwapPayload(Current, [type |-> type])
      /\ nodes' = Append(nodes, node)
      /\ at' = IF object THEN "name" ELSE "first"
      /\ successful' = successful
  BY <1>1, <1>2, <1>3 DEF Open
<1>5. /\ successful /\ ReaderTypeOK /\ DocumentIsTree /\ StackOK
      /\ Current \in Path /\ Len(Current) = Len(nodes) /\ Len(nodes) \in Nat
  BY <1>4, ValueNextFacts
<1>6. [type |-> type] \in JsonValue
  BY DEF JsonValue
<1>7. /\ DocOK' /\ StackOn(nodes, doc')
      /\ Current \in DOMAIN doc' /\ doc'[Current] = [type |-> type]
  BY <1>4, <1>5, <1>6, Swapped
<1>8. node \in Node
  BY <1>3, <1>5, SomeKeys DEF Node
<1>9. NodeOn(node, Len(nodes) + 1, doc')
  BY <1>2, <1>3, <1>5, <1>7 DEF NodeOn, Member, Element
<1>10. /\ nodes' \in Seq(Node) /\ nodes' # <<>>
       /\ StackOn(nodes', doc')
       /\ Top' = node
  BY <1>3, <1>4, <1>5, <1>7, <1>8, <1>9, Pushed DEF Top
<1>11. PlaceOK'
  BY <1>2, <1>3, <1>4, <1>5, <1>10 DEF PlaceOK
<1> QED
  BY <1>4, <1>5, <1>7, <1>10, <1>11, Established DEF ReaderTypeOK

\* readValue: a comment in the place of a value.
LEMMA CommentKeeps ==
  ASSUME ReaderInv, NEW token, ReadComment(token)
  PROVE  ReaderInv'
<1>1. ValueNext(token) /\ Resolve /\ at' = "value" /\ nodes' = nodes
      /\ successful' = successful
  BY DEF ReadComment
<1>2. successful /\ ReaderTypeOK /\ DocumentIsTree /\ StackOK
  BY <1>1, ValueNextFacts
<1>3. DocOK' /\ StackOn(nodes', doc')
  BY <1>1, <1>2, Resolved
<1>4. PlaceOK'
  BY <1>1, <1>2 DEF PlaceOK
<1> QED
  BY <1>1, <1>2, <1>3, <1>4, Established DEF ReaderTypeOK

\* readValue: a token that is not a value.
LEMMA ExpectedKeeps ==
  ASSUME ReaderInv, NEW token, ValueExpected(token)
  PROVE  ReaderInv'
<1>1. ValueNext(token) /\ Resolve /\ Fail
  BY DEF ValueExpected
<1>2. ReaderTypeOK /\ DocumentIsTree /\ StackOK
  BY DEF ReaderInv
<1>3. DocOK' /\ StackOn(nodes, doc')
  BY <1>1, <1>2, Resolved
<1> QED
  BY <1>1, <1>3, Failed

\* An error that leaves the document as it is.
LEMMA FailKeeps ==
  ASSUME ReaderInv, Fail, doc' = doc
  PROVE  ReaderInv'
<1>1. DocOK'
  BY DEF ReaderInv, ReaderTypeOK, DocumentIsTree, DocOK
<1>2. StackOn(nodes, doc')
  BY DEF ReaderInv, StackOK
<1> QED
  BY <1>1, <1>2, Failed

\* readObject: the name of a member, or the end of the object.
LEMMA NameKeeps ==
  ASSUME ReaderInv, NEW token \in Token, ReadName(token)
  PROVE  ReaderInv'
<1>1. at = "name" /\ nodes # <<>> /\ Top.type = "object" /\ successful
  BY DEF ReadName, ReaderInv, PlaceOK
<1>2. CASE Goto("name")
  BY <1>1, <1>2, Moved DEF Goto
<1>3. CASE Pop
  BY <1>1, <1>3, PopKeeps
<1>4. CASE /\ token.type = "string" /\ SetKey(Member(token.name))
           /\ at' = "colon" /\ UNCHANGED <<doc, successful>>
  <2>1. token.name \in Name
    BY <1>4 DEF Token
  <2>2. Member(token.name) \in Key /\ Member(token.name)[2] = 0
    BY <2>1, SomeKeys DEF Member
  <2> QED
    BY <1>1, <1>4, <2>2, SetKeyKeeps
<1>5. CASE Fail /\ doc' = doc
  BY <1>5, FailKeeps
<1> QED
  BY <1>2, <1>3, <1>4, <1>5 DEF ReadName

\* readObject: the colon.
LEMMA ColonKeeps ==
  ASSUME ReaderInv, NEW token, ReadColon(token)
  PROVE  ReaderInv'
<1>1. at = "colon" /\ nodes # <<>> /\ Top.type = "object" /\ successful
  BY DEF ReadColon, ReaderInv, PlaceOK
<1>2. CASE Goto("value")
  BY <1>1, <1>2, Moved DEF Goto, ReaderInv, ReaderTypeOK
<1>3. CASE Fail /\ doc' = doc
  BY <1>3, FailKeeps
<1> QED
  BY <1>2, <1>3 DEF ReadColon

\* readObject: what follows a member.
LEMMA MemberEndKeeps ==
  ASSUME ReaderInv, NEW token, ReadMemberEnd(token) \/ ReadAfterComment(token)
  PROVE  ReaderInv'
<1>1. /\ at \in {"object", "comment"} /\ nodes # <<>> /\ Top.type = "object"
      /\ successful
  BY DEF ReadMemberEnd, ReadAfterComment, ReaderInv, PlaceOK
<1>2. ASSUME NEW place \in {"name", "comment"}, Goto(place) PROVE ReaderInv'
  BY <1>1, <1>2, Moved DEF Goto, ReaderInv, ReaderTypeOK
<1>3. CASE Pop
  BY <1>1, <1>3, PopKeeps
<1>4. CASE Fail /\ doc' = doc
  BY <1>4, FailKeeps
<1> QED
  BY <1>2, <1>3, <1>4 DEF ReadMemberEnd, ReadAfterComment

\* readArray: the end of an empty array, and what follows an element.
LEMMA ElementEndKeeps ==
  ASSUME ReaderInv, NEW token, EndEmptyArray(token) \/ ReadElementEnd(token)
  PROVE  ReaderInv'
<1>1. nodes # <<>> /\ Top.type = "array" /\ successful
  BY DEF EndEmptyArray, ReadElementEnd, ReaderInv, PlaceOK
<1>2. CASE at = "array" /\ Goto("array")
  BY <1>1, <1>2, Moved DEF Goto, ReaderInv, PlaceOK, ReaderTypeOK
<1>3. CASE Pop
  BY <1>1, <1>3, PopKeeps
<1>4. CASE /\ at = "array" /\ SetKey(Element(Top.key[2] + 1)) /\ at' = "value"
           /\ UNCHANGED <<doc, successful>>
  <2>1. /\ Top \in Node /\ NodeOn(Top, Len(nodes), doc)
        /\ Current = Append(Top.path, Top.key) /\ Current \in DOMAIN doc
    BY <1>1, <1>4, TopFacts DEF ReaderInv, PlaceOK
  <2>2. /\ Top.key \in Key /\ Top.key[2] \in Nat /\ Top.key[2] # 0
        /\ Top.key = Element(Top.key[2])
    BY <1>1, <2>1, KeyFacts DEF Node, NodeOn
  <2>3. PICK k \in Nat : k = Top.key[2] + 1 /\ k - 1 = Top.key[2] /\ k # 0
    BY <2>2
  <2>4. Element(k) \in Key /\ Element(k)[2] = k
    BY SomeKeys DEF Element
  <2>5. Append(Top.path, Element(k - 1)) \in DOMAIN doc
    BY <2>1, <2>2, <2>3
  <2> QED
    BY <1>1, <1>4, <2>3, <2>4, <2>5, SetKeyKeeps
<1>5. CASE Fail /\ doc' = doc
  BY <1>5, FailKeeps
<1> QED
  BY <1>2, <1>3, <1>4, <1>5 DEF EndEmptyArray, ReadElementEnd

\* recoverFromError.
LEMMA RecoverKeeps ==
  ASSUME ReaderInv, NEW token, Recover(token)
  PROVE  ReaderInv'
<1>1. at = "recover" /\ nodes # <<>> /\ ReaderTypeOK /\ StackOK
  BY DEF Recover, ReaderInv, PlaceOK
<1>2. CASE Goto("recover")
  BY <1>1, <1>2, Moved DEF Goto, ReaderInv, ReaderTypeOK
<1>3. CASE /\ nodes' = Front(nodes)
           /\ at' = IF Len(nodes) = 1 THEN "end" ELSE "recover"
           /\ UNCHANGED <<doc, successful>>
  <2>1. DocOK'
    BY <1>3 DEF ReaderInv, ReaderTypeOK, DocumentIsTree, DocOK
  <2>2. /\ nodes' \in Seq(Node) /\ StackOn(nodes', doc')
        /\ nodes' = <<>> <=> Len(nodes) = 1
    BY <1>1, <1>3, Popped
  <2>3. PlaceOK'
    BY <1>3, <2>2 DEF PlaceOK
  <2> QED
    BY <1>1, <1>3, <2>1, <2>2, <2>3, Established DEF ReaderTypeOK
<1> QED
  BY <1>2, <1>3 DEF Recover

\* parse: what follows the value of the text.
LEMMA EndKeeps ==
  ASSUME ReaderInv, NEW token, ReadEnd(token)
  PROVE  ReaderInv'
<1>1. /\ doc' = doc /\ nodes' = nodes /\ successful' = successful
      /\ at' \in {"end", "done"}
  BY DEF ReadEnd, Goto
<1> QED
  BY <1>1, Moved DEF ReaderInv, ReaderTypeOK

\* readValue, readObject, readArray, recoverFromError and parse: a token read
\* leaves the document a tree that the open containers are in.
LEMMA ReadKeeps ==
  ASSUME ReaderInv, NEW token \in Token, Read(token)
  PROVE  ReaderInv'
  BY TooDeepKeeps, ScalarKeeps, OpenKeeps, CommentKeeps, ExpectedKeeps,
     NameKeeps, ColonKeeps, MemberEndKeeps, ElementEndKeeps, RecoverKeeps,
     EndKeeps DEF Read

\* The tokens that are written are tokens.
LEMMA WrittenTokens ==
  /\ EndOfStream \in Token
  /\ \A c \in {"{", "}", "[", "]", ":", ",", "error"} :
        Punctuation(c) \in Token
  /\ \A name \in Name : StringToken(name) \in Token
  /\ \A number \in Number : NumberToken(number) \in Token
  BY DEF Token, EndOfStream, Punctuation, StringToken, NumberToken, Number

\* The reader before the first token.
LEMMA ReaderInitially ==
  ASSUME InitReader
  PROVE  ReaderInv
<1>1. /\ DOMAIN doc = {<<>>} /\ doc[<<>>] = Null /\ nodes = <<>>
      /\ at = "value" /\ successful = TRUE
  BY DEF InitReader
<1>2. DOMAIN doc \subseteq Path /\ Null \in JsonValue
  BY <1>1 DEF Path, Null, JsonValue
<1>3. IsFiniteSet(DOMAIN doc)
  BY <1>1, FS_Singleton
<1>4. ReaderTypeOK
  BY <1>1, <1>2, <1>3 DEF ReaderTypeOK
<1>5. StackOK
  BY <1>1 DEF StackOK, StackOn
<1>6. DocumentIsTree /\ PlaceOK
  BY <1>1 DEF DocumentIsTree, PlaceOK
<1> QED
  BY <1>4, <1>5, <1>6 DEF ReaderInv

-----------------------------------------------------------------------------
(* The texts that are written, token by token.                             *)

\* The array of strings, token by token.
LEMMA ArrayFacts ==
  ASSUME NEW names \in Seq(Name)
  PROVE  /\ WriteArray(names) \in Seq(Token)
         /\ names # <<>> =>
               /\ Len(WriteArray(names)) = 2 * Len(names) + 1
               /\ WriteArray(names)[1] = Punctuation("[")
               /\ \A j \in 1..Len(names) :
                     WriteArray(names)[2 * j]
                           = Written(names[j])
               /\ \A j \in 1..(Len(names) - 1) :
                     WriteArray(names)[2 * j + 1] = Punctuation(",")
               /\ WriteArray(names)[2 * Len(names) + 1] = Punctuation("]")
<1>1. PICK n \in Nat : n = Len(names)
  OBVIOUS
<1>2. PICK last \in Nat : last = IF names = <<>> THEN 2 ELSE 2 * n + 1
  BY <1>1
<1> DEFINE Entry(i) == IF i = 1 THEN Punctuation("[")
                       ELSE IF i = last THEN Punctuation("]")
                       ELSE IF i % 2 = 0
                       THEN Written(names[i \div 2])
                       ELSE Punctuation(",")
<1>3. PICK w : w = [i \in 1..last |-> Entry(i)]
  OBVIOUS
<1>4. WriteArray(names) = w
  BY <1>1, <1>2, <1>3, Zenon DEF WriteArray
<1>5. ASSUME NEW i \in 1..last PROVE Entry(i) \in Token
  <2>1. CASE i = 1 \/ i = last \/ i % 2 # 0
    BY <2>1, WrittenTokens
  <2>2. CASE i # 1 /\ i # last /\ i % 2 = 0
    <3>1. names # <<>> /\ i \div 2 \in 1..n
      BY <1>1, <1>2, <2>2
    <3>2. names[i \div 2] \in Name
      BY <1>1, <3>1
    <3>3. Written(names[i \div 2]) \in Token
      BY <3>2, RereadFacts, WrittenTokens DEF Written
    <3> QED
      BY <2>2, <3>3
  <2> QED
    BY <2>1, <2>2
<1>6. w \in [1..last -> Token]
  <2> HIDE DEF Entry
  <2> QED
    BY <1>3, <1>5
<1>7. w \in Seq(Token) /\ Len(w) = last
  BY <1>6
<1>8. \A i \in 1..last : w[i] = Entry(i)
  BY <1>3, Zenon
<1>9. ASSUME names # <<>>
      PROVE  /\ last = 2 * n + 1 /\ n > 0
             /\ w[1] = Punctuation("[")
             /\ \A j \in 1..n : w[2 * j] = Written(names[j])
             /\ \A j \in 1..(n - 1) : w[2 * j + 1] = Punctuation(",")
             /\ w[2 * n + 1] = Punctuation("]")
  <2>1. last = 2 * n + 1 /\ n > 0 /\ 1 \in 1..last /\ 2 * n + 1 \in 1..last
    BY <1>1, <1>2, <1>9
  <2>2. w[1] = Punctuation("[") /\ w[2 * n + 1] = Punctuation("]")
    <3>1. w[1] = Entry(1) /\ w[2 * n + 1] = Entry(2 * n + 1)
      <4> HIDE DEF Entry
      <4> QED
        BY <1>8, <2>1
    <3>2. 2 * n + 1 = last /\ 2 * n + 1 # 1
      BY <2>1
    <3> QED
      BY <3>1, <3>2
  <2>3. ASSUME NEW j \in 1..n
        PROVE  w[2 * j] = Written(names[j])
    <3>1. /\ 2 * j \in 1..last /\ 2 * j # 1 /\ 2 * j # last
          /\ (2 * j) % 2 = 0 /\ (2 * j) \div 2 = j
      BY <2>1
    <3> QED
      BY <1>8, <3>1
  <2>4. ASSUME NEW j \in 1..(n - 1) PROVE w[2 * j + 1] = Punctuation(",")
    <3>1. /\ 2 * j + 1 \in 1..last /\ 2 * j + 1 # 1 /\ 2 * j + 1 # last
          /\ (2 * j + 1) % 2 # 0
      BY <2>1
    <3> QED
      BY <1>8, <3>1
  <2> QED
    BY <2>1, <2>2, <2>3, <2>4
<1> QED
  BY <1>1, <1>4, <1>7, <1>9

\* Two sequences of tokens one after the other.
LEMMA Joined ==
  ASSUME NEW s \in Seq(Token), NEW t \in Seq(Token)
  PROVE  /\ s \o t \in Seq(Token) /\ Len(s \o t) = Len(s) + Len(t)
         /\ \A i \in 1..Len(s) : (s \o t)[i] = s[i]
         /\ \A i \in 1..Len(t) : (s \o t)[Len(s) + i] = t[i]
  OBVIOUS

\* Short sequences of tokens.
LEMMA ThreeFacts ==
  ASSUME NEW S, NEW a \in S, NEW b \in S, NEW c \in S
  PROVE  /\ <<a, b, c>> \in Seq(S) /\ Len(<<a, b, c>>) = 3
         /\ <<a, b, c>>[1] = a /\ <<a, b, c>>[2] = b /\ <<a, b, c>>[3] = c
         /\ <<a>> \in Seq(S) /\ Len(<<a>>) = 1 /\ <<a>>[1] = a
  OBVIOUS

\* A sequence of five.
LEMMA FiveFacts ==
  ASSUME NEW S, NEW a \in S, NEW b \in S, NEW c \in S, NEW d \in S, NEW e \in S
  PROVE  /\ <<a, b, c, d, e>> \in Seq(S) /\ Len(<<a, b, c, d, e>>) = 5
         /\ <<a, b, c, d, e>>[1] = a /\ <<a, b, c, d, e>>[2] = b
         /\ <<a, b, c, d, e>>[3] = c /\ <<a, b, c, d, e>>[4] = d
         /\ <<a, b, c, d, e>>[5] = e
  OBVIOUS

\* The text of a layer connector, token by token.
LEMMA SubscribeBodyFacts ==
  ASSUME NEW topics \in Seq(Name), topics # <<>>
  PROVE  /\ SubscribeBody(topics) \in Seq(Token)
         /\ Len(topics) \in Nat /\ Len(topics) > 0
         /\ Len(SubscribeBody(topics)) = 5 + 2 * Len(topics)
         /\ SubscribeBody(topics)[1] = Punctuation("{")
         /\ SubscribeBody(topics)[2] = StringToken(TopicsName)
         /\ SubscribeBody(topics)[3] = Punctuation(":")
         /\ SubscribeBody(topics)[4] = Punctuation("[")
         /\ \A j \in 1..Len(topics) : SubscribeBody(topics)[3 + 2 * j]
                                         = Written(topics[j])
         /\ \A j \in 1..(Len(topics) - 1) :
               SubscribeBody(topics)[4 + 2 * j] = Punctuation(",")
         /\ SubscribeBody(topics)[4 + 2 * Len(topics)] = Punctuation("]")
         /\ SubscribeBody(topics)[5 + 2 * Len(topics)] = Punctuation("}")
<1>1. PICK n \in Nat : n = Len(topics) /\ n > 0
  OBVIOUS
<1>2. PICK w : w = WriteArray(topics)
  OBVIOUS
<1>3. /\ w \in Seq(Token) /\ Len(w) = 2 * n + 1
      /\ w[1] = Punctuation("[")
      /\ \A j \in 1..n : w[2 * j] = Written(topics[j])
      /\ \A j \in 1..(n - 1) : w[2 * j + 1] = Punctuation(",")
      /\ w[2 * n + 1] = Punctuation("]")
  BY <1>1, <1>2, ArrayFacts
<1>4. PICK h :
        h = <<Punctuation("{"), StringToken(TopicsName), Punctuation(":")>>
  OBVIOUS
<1>5. h \in Seq(Token) /\ Len(h) = 3 /\ h[1] = Punctuation("{")
      /\ h[2] = StringToken(TopicsName) /\ h[3] = Punctuation(":")
  <2>1. /\ Punctuation("{") \in Token /\ StringToken(TopicsName) \in Token
        /\ Punctuation(":") \in Token
    BY WrittenTokens, TextAssumption
  <2> QED
    BY <1>4, <2>1, ThreeFacts
<1>6. PICK e : e = <<Punctuation("}")>>
  OBVIOUS
<1>7. e \in Seq(Token) /\ Len(e) = 1 /\ e[1] = Punctuation("}")
  <2>1. Punctuation("}") \in Token
    BY WrittenTokens
  <2> QED
    BY <1>6, <2>1, ThreeFacts
<1>8. PICK b : b = SubscribeBody(topics) /\ b = h \o w \o e
  BY <1>2, <1>4, <1>6 DEF SubscribeBody
<1>9. PICK hw : hw = h \o w
  OBVIOUS
<1>10. /\ hw \in Seq(Token) /\ Len(hw) = 2 * n + 4
       /\ \A i \in 1..3 : hw[i] = h[i]
       /\ \A i \in 1..(2 * n + 1) : hw[3 + i] = w[i]
  <2>1. /\ hw \in Seq(Token) /\ Len(hw) = Len(h) + Len(w)
        /\ \A i \in 1..Len(h) : hw[i] = h[i]
        /\ \A i \in 1..Len(w) : hw[Len(h) + i] = w[i]
    BY <1>3, <1>5, <1>9, Joined, Zenon
  <2>2. Len(h) = 3 /\ Len(w) = 2 * n + 1
    BY <1>3, <1>5
  <2>3. Len(hw) = 2 * n + 4
    BY <2>1, <2>2
  <2>4. \A i \in 1..3 : hw[i] = h[i]
    BY <2>1, <2>2
  <2>5. \A i \in 1..(2 * n + 1) : hw[3 + i] = w[i]
    BY <2>1, <2>2
  <2> QED
    BY <2>1, <2>3, <2>4, <2>5
<1>11. /\ b \in Seq(Token) /\ Len(b) = 5 + 2 * n
       /\ \A i \in 1..(2 * n + 4) : b[i] = hw[i]
       /\ b[5 + 2 * n] = e[1]
  <2>1. b = hw \o e
    BY <1>8, <1>9, Zenon
  <2>2. /\ b \in Seq(Token) /\ Len(b) = Len(hw) + Len(e)
        /\ \A i \in 1..Len(hw) : b[i] = hw[i]
        /\ \A i \in 1..Len(e) : b[Len(hw) + i] = e[i]
    BY <1>7, <1>10, <2>1, Joined, Zenon
  <2>3. Len(hw) = 2 * n + 4 /\ Len(e) = 1
    BY <1>7, <1>10
  <2>4. Len(b) = 5 + 2 * n
    BY <2>2, <2>3
  <2>5. \A i \in 1..(2 * n + 4) : b[i] = hw[i]
    BY <2>2, <2>3
  <2>6. b[5 + 2 * n] = e[1]
    <3>1. b[Len(hw) + 1] = e[1]
      BY <2>2, <2>3
    <3> QED
      BY <2>3, <3>1
  <2> QED
    BY <2>2, <2>4, <2>5, <2>6
<1>12. \A i \in 1..3 : b[i] = h[i]
  BY <1>10, <1>11
<1>13. \A i \in 1..(2 * n + 1) : b[3 + i] = w[i]
  BY <1>10, <1>11
<1>14. b[1] = h[1] /\ b[2] = h[2] /\ b[3] = h[3] /\ b[4] = w[1]
       /\ b[4 + 2 * n] = w[2 * n + 1]
  BY <1>12, <1>13
<1>15. \A j \in 1..n : b[3 + 2 * j] = w[2 * j]
  BY <1>13
<1>16. \A j \in 1..(n - 1) : b[4 + 2 * j] = w[2 * j + 1]
  BY <1>13
<1>17. /\ b[1] = Punctuation("{") /\ b[2] = StringToken(TopicsName)
       /\ b[3] = Punctuation(":") /\ b[4] = Punctuation("[")
       /\ b[4 + 2 * n] = Punctuation("]")
  BY <1>3, <1>5, <1>14
<1>18. b[5 + 2 * n] = Punctuation("}")
  BY <1>7, <1>11
<1>19. \A j \in 1..n : b[3 + 2 * j] = Written(topics[j])
  BY <1>3, <1>15
<1>20. \A j \in 1..(n - 1) : b[4 + 2 * j] = Punctuation(",")
  BY <1>3, <1>16
<1> QED
  BY <1>1, <1>8, <1>11, <1>17, <1>18, <1>19, <1>20, Zenon

\* The text of a number, token by token.
LEMMA NumberBodyFacts ==
  ASSUME NEW name \in Name, NEW number \in Number
  PROVE  /\ NumberBody(name, number) \in Seq(Token)
         /\ Len(NumberBody(name, number)) = 5
         /\ NumberBody(name, number)[1] = Punctuation("{")
         /\ NumberBody(name, number)[2] = StringToken(name)
         /\ NumberBody(name, number)[3] = Punctuation(":")
         /\ NumberBody(name, number)[4] = NumberToken(number)
         /\ NumberBody(name, number)[5] = Punctuation("}")
<1>1. /\ Punctuation("{") \in Token /\ StringToken(name) \in Token
      /\ Punctuation(":") \in Token /\ NumberToken(number) \in Token
      /\ Punctuation("}") \in Token
  BY WrittenTokens
<1> QED
  BY <1>1, FiveFacts DEF NumberBody

\* The first token of a text, and the others.
LEMMA HeadTail ==
  ASSUME NEW s \in Seq(Token), s # <<>>
  PROVE  /\ Head(s) \in Token /\ Head(s) = s[1] /\ Tail(s) \in Seq(Token)
         /\ Len(s) \in Nat /\ Len(s) > 0 /\ Len(Tail(s)) = Len(s) - 1
         /\ \A i \in 1..(Len(s) - 1) : Tail(s)[i] = s[i + 1]
  OBVIOUS

\* What a text was written from.
LEMMA WroteFacts ==
  ASSUME TypeOK, WroteInv
  PROVE  /\ wrote.kind \in {"text", "topics", "number"}
         /\ wrote.kind = "topics" =>
               wrote.topics \in Seq(Name) /\ wrote.topics # <<>>
         /\ wrote.kind = "number" =>
               /\ wrote.field.name \in Name /\ wrote.number \in Number
               /\ wrote.field.as \in {"int", "int64", "size"}
         /\ wrote.kind # "text" => Body \in Seq(Token) /\ Len(Body) \in Nat
<1>1. wrote.kind \in {"text", "topics", "number"}
  BY DEF TypeOK
<1>2. ASSUME wrote.kind = "topics"
      PROVE  wrote.topics \in Seq(Name) /\ wrote.topics # <<>>
  <2>1. wrote.topics \in Seq(Name)
    BY <1>2 DEF TypeOK
  <2> QED
    BY <1>2, <2>1 DEF WroteInv
<1>3. ASSUME wrote.kind = "number"
      PROVE  /\ wrote.field.name \in Name /\ wrote.number \in Number
             /\ wrote.field.as \in {"int", "int64", "size"}
  <2>1. /\ wrote.field \in {Fields[i] : i \in DOMAIN Fields}
        /\ wrote.number \in Number
    BY <1>3 DEF TypeOK
  <2>2. wrote.field.name \in Name
    BY <2>1, TextAssumption
  <2> QED
    BY <1>3, <2>1, <2>2 DEF WroteInv
<1>4. ASSUME wrote.kind # "text" PROVE Body \in Seq(Token) /\ Len(Body) \in Nat
  <2>1. CASE wrote.kind = "topics"
    <3>1. SubscribeBody(wrote.topics) \in Seq(Token)
      BY <1>2, <2>1, SubscribeBodyFacts
    <3> QED
      BY <2>1, <3>1 DEF Body
  <2>2. CASE wrote.kind = "number"
    <3>1. NumberBody(wrote.field.name, wrote.number) \in Seq(Token)
      BY <1>3, <2>2, NumberBodyFacts
    <3> QED
      BY <2>2, <3>1 DEF Body
  <2> QED
    BY <1>1, <1>4, <2>1, <2>2
<1> QED
  BY <1>1, <1>2, <1>3, <1>4

\* The token that is read, and what is left of the text.
LEMMA TokenRead ==
  ASSUME TypeOK, NEW token, ReadToken(token)
  PROVE  /\ token \in Token /\ Read(token) /\ at \notin {"done", "thrown"}
         /\ text' \in Seq(Token) /\ left' \in Nat /\ nulls' \in Nat
         /\ nulls' = IF token.type = "null" THEN nulls + 1 ELSE nulls
         /\ wrote' = wrote
<1>1. text \in Seq(Token) /\ left \in Nat /\ nulls \in Nat
  BY DEF TypeOK
<1>2. /\ Read(token) /\ at \notin {"done", "thrown"} /\ wrote' = wrote
      /\ nulls' = IF token.type = "null" THEN nulls + 1 ELSE nulls
  BY DEF ReadToken, Finished
<1>3. CASE text # <<>> /\ token = Head(text) /\ text' = Tail(text)
             /\ UNCHANGED left
  BY <1>1, <1>2, <1>3, HeadTail
<1>4. CASE /\ text = <<>> /\ left > 0
           /\ token \in Tokens \cup {EndOfStream}
           /\ left' = IF token = EndOfStream THEN 0 ELSE left - 1
           /\ UNCHANGED text
  <2>1. token \in Token
    BY <1>4, WrittenTokens, TextAssumption
  <2> QED
    BY <1>1, <1>2, <1>4, <2>1
<1>5. CASE text = <<>> /\ left = 0 /\ token = EndOfStream
             /\ UNCHANGED <<text, left>>
  <2>1. token \in Token
    BY <1>5, WrittenTokens
  <2>2. text' = text /\ left' = left
    BY <1>5
  <2> QED
    BY <1>1, <1>2, <2>1, <2>2
<1> QED
  BY <1>3, <1>4, <1>5 DEF ReadToken

\* The reader of a written text takes the next token of it, and then finds
\* its end.
LEMMA Consumed ==
  ASSUME TypeOK, WroteInv, TextInv, wrote.kind # "text",
         NEW token, ReadToken(token)
  PROVE  /\ Taken \in Nat /\ Taken' \in Nat /\ Taken <= Len(Body)
         /\ Body' = Body /\ Len(Body) \in Nat
         /\ \/ /\ Taken < Len(Body) /\ token = Body[Taken + 1]
               /\ Taken' = Taken + 1
            \/ Taken = Len(Body) /\ token = EndOfStream /\ Taken' = Taken
         /\ TextInv'
<1>1. /\ left = 0 /\ text \in Seq(Token) /\ Len(text) <= Len(Body)
      /\ Len(text) \in Nat
      /\ \A i \in 1..Len(text) : text[i] = Body[Taken + i]
  BY DEF TextInv, TypeOK
<1>2. Body \in Seq(Token) /\ Len(Body) \in Nat
  BY WroteFacts
<1>3. wrote' = wrote
  BY DEF ReadToken
<1>4. Body' = Body
  BY <1>3 DEF Body
<1>5. PICK n \in Nat, m \in Nat, k \in Nat :
         n = Len(Body) /\ m = Len(text) /\ k = Taken /\ k = n - m
  BY <1>1, <1>2 DEF Taken
<1>6. Taken' = n - Len(text')
  BY <1>4, <1>5 DEF Taken
<1>7. CASE text # <<>> /\ token = Head(text) /\ text' = Tail(text)
             /\ UNCHANGED left
  <2>1. /\ m > 0 /\ Head(text) = text[1] /\ Len(text') = m - 1
        /\ \A i \in 1..(m - 1) : text'[i] = text[i + 1]
    BY <1>1, <1>5, <1>7, HeadTail
  <2>2. token = Body[k + 1] /\ Taken' = k + 1 /\ k < n
    BY <1>1, <1>5, <1>6, <1>7, <2>1
  <2>3. ASSUME NEW i \in 1..Len(text') PROVE text'[i] = Body[Taken' + i]
    <3>1. i + 1 \in 1..m /\ i \in 1..(m - 1)
      BY <1>5, <2>1
    <3>2. text'[i] = text[i + 1] /\ text[i + 1] = Body[k + (i + 1)]
      BY <1>1, <1>5, <2>1, <3>1
    <3> QED
      BY <2>2, <3>2
  <2>4. TextInv'
    <3>1. left' = 0 /\ Len(text') <= Len(Body')
      BY <1>1, <1>4, <1>5, <1>7, <2>1
    <3>2. \A i \in 1..Len(text') : text'[i] = Body'[Taken' + i]
      BY <1>4, <2>3
    <3> QED
      BY <3>1, <3>2 DEF TextInv
  <2> QED
    BY <1>4, <1>5, <2>2, <2>4
<1>8. CASE text = <<>> /\ left = 0 /\ token = EndOfStream
             /\ UNCHANGED <<text, left>>
  <2>1. m = 0 /\ text' = text /\ left' = left
    BY <1>5, <1>8
  <2>2. Taken' = k /\ k = n
    <3>1. Len(text') = 0 /\ Len(text') = m
      BY <1>8, <2>1
    <3> QED
      BY <1>5, <1>6, <3>1
  <2>3. TextInv'
    BY <1>1, <1>3, <1>4, <1>5, <2>1, <2>2 DEF TextInv
  <2> QED
    BY <1>4, <1>5, <1>8, <2>2, <2>3
<1> QED
  BY <1>1, <1>7, <1>8 DEF ReadToken

-----------------------------------------------------------------------------
(* The steps of Spec: types, errors and nulls.                             *)

\* A token is read: the types, and what the text was written from.
LEMMA TypesKept ==
  ASSUME TypeOK, ReaderInv, WroteInv, NEW token, ReadToken(token)
  PROVE  TypeOK' /\ ReaderInv' /\ WroteInv'
<1>1. /\ token \in Token /\ Read(token)
      /\ text' \in Seq(Token) /\ left' \in Nat /\ nulls' \in Nat
      /\ wrote' = wrote
  BY TokenRead
<1>2. ReaderInv'
  BY <1>1, ReadKeeps
<1>3. TypeOK'
  BY <1>1, <1>2 DEF TypeOK, ReaderInv
<1>4. WroteInv'
  BY <1>1 DEF WroteInv
<1> QED
  BY <1>2, <1>3, <1>4

\* After an error only recoverFromError and the end of parse() are left.
LEMMA ErrorStep ==
  ASSUME ReaderInv, NEW token, Read(token), ~successful
  PROVE  doc' = doc /\ ~successful' /\ at' # "thrown"
<1>1. at \in {"recover", "end", "done"}
  BY DEF ReaderInv, PlaceOK
<1>2. Recover(token) \/ ReadEnd(token)
  BY <1>1 DEF Read, ReadTooDeep, ReadScalar, Open, ReadComment, ValueExpected,
     ValueNext, ReadName, ReadColon, ReadMemberEnd, ReadAfterComment,
     EndEmptyArray, ReadElementEnd
<1>3. doc' = doc /\ successful' = successful /\ at' # "thrown"
  BY <1>2 DEF Recover, ReadEnd, Goto
<1> QED
  BY <1>3

\* What the steps at a value do to the nulls that are found.
LEMMA SwapNulls ==
  ASSUME NEW v, SwapPayload(Current, v)
  PROVE  Found' \subseteq (Found \ {Current})
           \cup (IF v = Null THEN {Current} ELSE {})
<1>1. /\ DOMAIN doc' = {Current} \cup {r \in DOMAIN doc : ~Below(Current, r)}
      /\ \A q \in DOMAIN doc' : doc'[q] = IF q = Current THEN v ELSE doc[q]
  BY DEF SwapPayload
<1> QED
  BY <1>1 DEF Found

\* operator[] finds a null at most at the value it creates.
LEMMA ResolveNulls ==
  ASSUME Resolve
  PROVE  Found' \subseteq (Found \ {Current}) \cup {Current}
<1>1. CASE Current \in DOMAIN doc
  BY <1>1 DEF Resolve, Found
<1>2. CASE Current \notin DOMAIN doc
  <2>1. SwapPayload(Current, Null)
    BY <1>2 DEF Resolve
  <2> QED
    BY <2>1, SwapNulls
<1> QED
  BY <1>1, <1>2

\* The nulls of a document can be counted.
LEMMA FoundFinite ==
  ASSUME DOMAIN doc \subseteq Path, IsFiniteSet(DOMAIN doc)
  PROVE  IsFiniteSet(Found)
  BY FS_Subset DEF Found

\* A set that is in another with at most one element more.
LEMMA OneMore ==
  ASSUME NEW S, IsFiniteSet(S), NEW T, NEW x, T \subseteq S \cup {x}
  PROVE  /\ IsFiniteSet(T) /\ Cardinality(T) \in Nat /\ Cardinality(S) \in Nat
         /\ Cardinality(T) <= Cardinality(S) + 1
         /\ T \subseteq S => Cardinality(T) <= Cardinality(S)
<1>1. /\ IsFiniteSet(S \cup {x})
      /\ Cardinality(S \cup {x}) =
            IF x \in S THEN Cardinality(S) ELSE Cardinality(S) + 1
  BY FS_AddElement
<1>2. Cardinality(S) \in Nat
  BY FS_CardinalityType
<1>3. IsFiniteSet(T) /\ Cardinality(T) <= Cardinality(S \cup {x})
  BY <1>1, FS_Subset
<1>4. Cardinality(T) \in Nat
  BY <1>3, FS_CardinalityType
<1>5. T \subseteq S => Cardinality(T) <= Cardinality(S)
  BY FS_Subset
<1> QED
  BY <1>1, <1>2, <1>3, <1>4, <1>5

\* A value is read, or the reader stops where one should be.
LEMMA NullsAtValue ==
  ASSUME ReaderInv, ReaderInv', NullInv, nulls \in Nat,
         NEW token \in Token, ValueNext(token),
         ReadTooDeep(token) \/ ReadScalar(token) \/ Open(token)
            \/ ReadComment(token) \/ ValueExpected(token),
         nulls' = IF token.type = "null" THEN nulls + 1 ELSE nulls
  PROVE  NullInv'
<1> DEFINE Others == Found \ {Current}
<1>1. successful /\ ReaderTypeOK /\ ReaderTypeOK'
  BY ValueNextFacts DEF ReaderInv
<1>2. at = "value" \/ at = "first"
  BY DEF ValueNext
<1>3. IsFiniteSet(Found) /\ IsFiniteSet(Others) /\ Cardinality(Others) \in Nat
  <2>1. IsFiniteSet(Found)
    BY <1>1, FoundFinite DEF ReaderTypeOK
  <2>2. IsFiniteSet(Others)
    BY <2>1, FS_Subset
  <2> QED
    BY <2>1, <2>2, FS_CardinalityType
<1>4. Cardinality(Others) <= nulls
  <2>1. CASE at = "value"
    BY <1>1, <2>1 DEF NullInv
  <2>2. CASE at = "first"
    <3>1. Cardinality(Found) <= nulls
      BY <1>1, <2>2 DEF NullInv
    <3>2. Cardinality(Others) <= Cardinality(Found)
            /\ Cardinality(Found) \in Nat
      BY <1>3, FS_Subset, FS_CardinalityType
    <3> QED
      BY <1>3, <3>1, <3>2
  <2> QED
    BY <1>2, <2>1, <2>2
<1> HIDE DEF Others
<1>5. ASSUME NEW T, T \subseteq Others \cup {Current}
      PROVE  /\ Cardinality(T) \in Nat /\ Cardinality(T) <= nulls + 1
             /\ T \subseteq Others => Cardinality(T) <= nulls
  <2>1. /\ Cardinality(T) \in Nat /\ Cardinality(T) <= Cardinality(Others) + 1
        /\ T \subseteq Others => Cardinality(T) <= Cardinality(Others)
    BY <1>3, <1>5, OneMore, Zenon
  <2> QED
    BY <1>3, <1>4, <2>1
<1>6. CASE ReadTooDeep(token) \/ ValueExpected(token)
  <2>1. /\ Found' \subseteq Others \cup {Current}
        /\ at' = "thrown" \/ (~successful' /\ at' \in {"end", "recover"})
    BY <1>6, ResolveNulls DEF ReadTooDeep, ValueExpected, Fail, Others
  <2> QED
    BY <1>5, <2>1 DEF NullInv
<1>7. CASE ReadScalar(token)
  <2>1. /\ SwapPayload(Current, Scalar(token)) /\ successful' = successful
        /\ token.type \in {"null", "bool", "number", "string"}
        /\ at' = IF nodes = <<>> THEN "end" ELSE Top.type
    BY <1>7 DEF ReadScalar, Scalar, Completed, Top
  <2>2. Scalar(token) = Null <=> token.type = "null"
    BY <2>1, ScalarFacts
  <2>3. Found' \subseteq Others
          \cup (IF token.type = "null" THEN {Current} ELSE {})
    BY <2>1, <2>2, SwapNulls DEF Others
  <2>4. at' \in {"end", "object", "array"}
    BY <1>1, <2>1, TopFacts DEF Node, ReaderInv
  <2>5. Cardinality(Found') <= nulls'
    BY <1>5, <2>3
  <2> QED
    BY <1>1, <2>1, <2>4, <2>5 DEF NullInv
<1>8. CASE Open(token)
  <2>1. /\ \E type \in {"object", "array"} :
             SwapPayload(Current, [type |-> type])
        /\ at' \in {"name", "first"} /\ successful' = successful
        /\ token.type # "null"
    BY <1>8 DEF Open
  <2>2. \A type \in {"object", "array"} : [type |-> type] # Null
    BY DEF Null
  <2>3. Found' \subseteq Others
    BY <2>1, <2>2, SwapNulls DEF Others
  <2> QED
    BY <1>1, <1>5, <2>1, <2>3 DEF NullInv
<1>9. CASE ReadComment(token)
  <2>1. /\ Resolve /\ at' = "value" /\ nodes' = nodes
        /\ successful' = successful /\ token.type # "null"
    BY <1>9 DEF ReadComment
  <2>2. Current' = Current
    BY <2>1 DEF Current, Top
  <2>3. Found' \ {Current'} \subseteq Others
    BY <2>1, <2>2, ResolveNulls DEF Others
  <2> QED
    BY <1>1, <1>5, <2>1, <2>3 DEF NullInv
<1> QED
  BY <1>6, <1>7, <1>8, <1>9

\* The other steps leave the document as it is.
LEMMA NullsElsewhere ==
  ASSUME ReaderInv, NullInv, nulls \in Nat, NEW token,
         Read(token), doc' = doc, at # "value", at # "thrown", at' # "thrown",
         nulls' = IF token.type = "null" THEN nulls + 1 ELSE nulls
  PROVE  NullInv'
<1>1. Found' = Found
  BY DEF Found
<1>2. IsFiniteSet(Found) /\ Cardinality(Found) \in Nat
  BY FoundFinite, FS_CardinalityType DEF ReaderInv, ReaderTypeOK
<1>3. Cardinality(Found \ {Current'}) <= Cardinality(Found)
      /\ Cardinality(Found \ {Current'}) \in Nat
  BY <1>2, FS_Subset, FS_CardinalityType
<1>4. nulls' \in Nat /\ nulls <= nulls'
  OBVIOUS
<1>5. CASE successful
  <2>1. Cardinality(Found) <= nulls
    BY <1>5 DEF NullInv
  <2> QED
    BY <1>1, <1>2, <1>3, <1>4, <2>1 DEF NullInv
<1>6. CASE ~successful
  <2>1. Cardinality(Found) <= nulls + 1
    BY <1>6 DEF NullInv
  <2>2. ~successful'
    BY <1>6, ErrorStep
  <2> QED
    BY <1>1, <1>2, <1>3, <1>4, <2>1, <2>2 DEF NullInv
<1> QED
  BY <1>5, <1>6

\* What Completed makes of the stack without its top.
LEMMA CompletedAt ==
  ASSUME ReaderInv, nodes # <<>>, Completed(Front(nodes))
  PROVE  at' \in {"end", "object", "array"}
<1>1. Front(nodes) # <<>> => Front(nodes)[Len(Front(nodes))] \in Node
  BY Popped DEF ReaderInv
<1> QED
  BY <1>1 DEF Completed, Node

\* Whichever token is read, NullInv stays.
LEMMA NullStep ==
  ASSUME ReaderInv, ReaderInv', NullInv, nulls \in Nat,
         NEW token \in Token, Read(token), at # "thrown",
         nulls' = IF token.type = "null" THEN nulls + 1 ELSE nulls
  PROVE  NullInv'
<1>1. CASE ReadTooDeep(token) \/ ReadScalar(token) \/ Open(token)
              \/ ReadComment(token) \/ ValueExpected(token)
  <2>1. ValueNext(token)
    BY <1>1 DEF ReadTooDeep, ReadScalar, Open, ReadComment, ValueExpected
  <2> QED
    BY <1>1, <2>1, NullsAtValue
<1>2. CASE ReadName(token) \/ ReadColon(token) \/ ReadMemberEnd(token)
              \/ ReadAfterComment(token)
  <2>1. ReaderInv /\ nodes # <<>>
    BY <1>2 DEF ReaderInv, PlaceOK, ReadName, ReadColon, ReadMemberEnd,
       ReadAfterComment
  <2>2. doc' = doc /\ at # "value" /\ at' # "thrown"
    <3>1. CASE ReadName(token)
      BY <3>1, <2>1, CompletedAt DEF ReadName, Goto, Pop, Fail
    <3>2. CASE ReadColon(token)
      BY <3>2 DEF ReadColon, Goto, Fail
    <3>3. CASE ReadMemberEnd(token)
      BY <3>3, <2>1, CompletedAt DEF ReadMemberEnd, Goto, Pop, Fail
    <3>4. CASE ReadAfterComment(token)
      BY <3>4, <2>1, CompletedAt DEF ReadAfterComment, Goto, Pop
    <3> QED
      BY <1>2, <3>1, <3>2, <3>3, <3>4
  <2> QED
    BY <2>2, NullsElsewhere
<1>3. CASE EndEmptyArray(token) \/ ReadElementEnd(token)
  <2>1. ReaderInv /\ nodes # <<>>
    BY <1>3 DEF ReaderInv, PlaceOK, EndEmptyArray, ReadElementEnd
  <2>2. doc' = doc /\ at # "value" /\ at' # "thrown"
    <3>1. CASE EndEmptyArray(token)
      BY <3>1, <2>1, CompletedAt DEF EndEmptyArray, Pop
    <3>2. CASE ReadElementEnd(token)
      BY <3>2, <2>1, CompletedAt DEF ReadElementEnd, Goto, Pop, Fail
    <3> QED
      BY <1>3, <3>1, <3>2
  <2> QED
    BY <2>2, NullsElsewhere
<1>4. CASE Recover(token) \/ ReadEnd(token)
  <2>1. doc' = doc /\ at # "value" /\ at' # "thrown"
    BY <1>4 DEF Recover, ReadEnd, Goto
  <2> QED
    BY <2>1, NullsElsewhere
<1> QED
  BY <1>1, <1>2, <1>3, <1>4 DEF Read

\* What is proved of every state that is reached.
Inv == TypeOK /\ ReaderInv /\ WroteInv /\ TextInv /\ NullInv

\* A text that nothing was read of.
LEMMA TextInitially ==
  ASSUME NEW body, body \in Seq(Token), Body = body, text = body, left = 0
  PROVE  TextInv /\ text \in Seq(Token) /\ Taken = 0 /\ Len(body) \in Nat
<1>1. Len(body) \in Nat /\ Taken = 0
  BY DEF Taken
<1>2. \A i \in 1..Len(text) : text[i] = Body[0 + i]
  BY <1>1
<1> QED
  BY <1>1, <1>2 DEF TextInv

\* The invariant of the first state.
LEMMA Initially ==
  ASSUME Init
  PROVE  Inv /\ (wrote.kind # "text" => Taken = 0)
<1>1. ReaderInv /\ nulls = 0
  BY ReaderInitially DEF Init
<1>2. NullInv
  <2>1. /\ DOMAIN doc = {<<>>} /\ at = "value" /\ successful = TRUE
        /\ Current = <<>>
    BY DEF Init, InitReader, Current
  <2>2. Found \ {Current} = {}
    BY <2>1 DEF Found
  <2>3. Cardinality(Found \ {Current}) = 0
    BY <2>2, FS_EmptySet
  <2> QED
    BY <1>1, <2>1, <2>3 DEF NullInv
<1>3. CASE wrote = [kind |-> "text"] /\ text = <<>> /\ left = MaxTokens
  <2>1. wrote.kind = "text" /\ wrote \in [kind : {"text"}]
    BY <1>3
  <2>2. TypeOK /\ WroteInv /\ TextInv
    BY <1>1, <1>3, <2>1, TextAssumption
       DEF TypeOK, WroteInv, TextInv, ReaderInv
  <2> QED
    BY <1>1, <1>2, <2>1, <2>2 DEF Inv
<1>4. ASSUME NEW list \in LayerLists,
             LayerTopics(list) # <<>>,
             wrote = [kind |-> "topics", topics |-> LayerTopics(list)],
             text = SubscribeBody(LayerTopics(list)),
             left = 0
      PROVE  Inv /\ Taken = 0
  <2>1. LayerTopics(list) \in Seq(Name)
    BY TextAssumption, LayerTopicsFacts
  <2>2. wrote.kind = "topics" /\ wrote.topics = LayerTopics(list)
    BY <1>4
  <2>3. SubscribeBody(LayerTopics(list)) \in Seq(Token)
    BY <1>4, <2>1, SubscribeBodyFacts
  <2>4. Body = SubscribeBody(LayerTopics(list))
    BY <2>2 DEF Body
  <2>5. TextInv /\ text \in Seq(Token) /\ Taken = 0
    BY <1>4, <2>3, <2>4, TextInitially
  <2>6. WroteInv
    BY <1>4, <2>2 DEF WroteInv
  <2>7. wrote \in [kind : {"topics"}, topics : Seq(Name)]
    BY <1>4, <2>1
  <2>8. TypeOK
    BY <1>1, <1>4, <2>5, <2>7 DEF TypeOK, ReaderInv
  <2> QED
    BY <1>1, <1>2, <2>5, <2>6, <2>8 DEF Inv
<1>5. ASSUME NEW number \in Numbers, NEW i \in DOMAIN Fields,
             Fields[i].as \in {"int", "int64", "size"},
             wrote = [kind |-> "number", field |-> Fields[i],
                   number |-> number],
             text = NumberBody(Fields[i].name, number),
             left = 0
      PROVE  Inv /\ Taken = 0
  <2>1. number \in Number /\ Fields[i].name \in Name
    BY TextAssumption
  <2>2. /\ wrote.kind = "number" /\ wrote.field = Fields[i]
        /\ wrote.number = number
    BY <1>5
  <2>3. NumberBody(Fields[i].name, number) \in Seq(Token)
    BY <2>1, NumberBodyFacts
  <2>4. Body = NumberBody(Fields[i].name, number)
    BY <2>2 DEF Body
  <2>5. TextInv /\ text \in Seq(Token) /\ Taken = 0
    BY <1>5, <2>3, <2>4, TextInitially
  <2>6. WroteInv
    BY <1>5, <2>2 DEF WroteInv
  <2>7. wrote \in [kind : {"number"}, field : {Fields[j] : j \in DOMAIN Fields},
                   number : Number]
    BY <1>5, <2>1
  <2>8. TypeOK
    BY <1>1, <1>5, <2>5, <2>7 DEF TypeOK, ReaderInv
  <2> QED
    BY <1>1, <1>2, <2>5, <2>6, <2>8 DEF Inv
<1> QED
  BY <1>3, <1>4, <1>5 DEF Init

-----------------------------------------------------------------------------
(* A text that is known: the stages the reader passes through.             *)

\* The action that reads a token is the one of the place the reader is at.
LEMMA ActionAt ==
  ASSUME NEW token, Read(token)
  PROVE  /\ at \in {"value", "first"} =>
               \/ ReadTooDeep(token) \/ ReadScalar(token) \/ Open(token)
               \/ ReadComment(token) \/ ValueExpected(token)
               \/ EndEmptyArray(token)
         /\ at = "value" => ~EndEmptyArray(token)
         /\ at = "name" => ReadName(token)
         /\ at = "colon" => ReadColon(token)
         /\ at = "object" => ReadMemberEnd(token)
         /\ at = "array" => ReadElementEnd(token)
         /\ at = "end" => ReadEnd(token)
  BY DEF Read, ReadTooDeep, ReadScalar, Open, ReadComment, ValueExpected,
     ValueNext, ReadName, ReadColon, ReadMemberEnd, ReadAfterComment,
     EndEmptyArray, ReadElementEnd, Recover, ReadEnd

\* The tokens that are written, by their types.
LEMMA TokenTypes ==
  /\ \A c : Punctuation(c).type = c
  /\ \A name : StringToken(name).type = "string"
        /\ StringToken(name).name = name
  /\ \A number : NumberToken(number).type = "number"
  /\ EndOfStream.type = "eos"
  BY DEF Punctuation, StringToken, NumberToken, EndOfStream

\* Sequences of one element, of two, and what their fronts are.
LEMMA SequenceOfOne ==
  ASSUME NEW x
  PROVE  Append(<<>>, x) = <<x>> /\ <<x>> \in Seq({x}) /\ Len(<<x>>) = 1
  OBVIOUS

\* Their lengths and first elements.
LEMMA ShortSequences ==
  ASSUME NEW S, NEW x \in S, NEW y \in S
  PROVE  /\ <<x, y>> \in Seq(S) /\ Len(<<x, y>>) = 2 /\ <<x, y>>[1] = x
         /\ Len(<<x>>) = 1 /\ SubSeq(<<x>>, 1, 0) = <<>>
  OBVIOUS

\* A sequence of length 1 is its first element.
LEMMA IsShort ==
  ASSUME NEW S, NEW x \in S, NEW s \in Seq(S), Len(s) = 1, s[1] = x
  PROVE  s = <<x>>
  OBVIOUS

\* The front of a sequence of length 2.
LEMMA FirstOfTwo ==
  ASSUME NEW S, NEW x \in S, NEW s \in Seq(S), Len(s) = 2, s[1] = x
  PROVE  SubSeq(s, 1, 1) = <<x>>
<1>1. /\ SubSeq(s, 1, 1) \in Seq(S) /\ Len(SubSeq(s, 1, 1)) = 1
      /\ SubSeq(s, 1, 1)[1] = x
  OBVIOUS
<1> QED
  BY <1>1, IsShort, Zenon

\* The fronts of sequences of one and of two.
LEMMA FrontShort ==
  ASSUME NEW x, NEW y
  PROVE  Front(<<x>>) = <<>> /\ Front(<<x, y>>) = <<x>>
<1>1. x \in {x, y} /\ y \in {x, y}
  OBVIOUS
<1>2. /\ <<x, y>> \in Seq({x, y}) /\ Len(<<x, y>>) = 2 /\ <<x, y>>[1] = x
      /\ Len(<<x>>) = 1 /\ SubSeq(<<x>>, 1, 0) = <<>>
  BY <1>1, ShortSequences, Zenon
<1>3. SubSeq(<<x, y>>, 1, 1) = <<x>>
  BY <1>1, <1>2, FirstOfTwo, Zenon
<1>4. Len(<<x>>) - 1 = 0 /\ Len(<<x, y>>) - 1 = 1
  BY <1>2
<1> QED
  BY <1>2, <1>3, <1>4, Zenon DEF Front

\* Every path is below the root.
LEMMA BelowEmpty ==
  ASSUME NEW r \in Path
  PROVE  Below(<<>>, r)
<1>0. <<>> \in Seq(Key) /\ Len(<<>>) = 0
  OBVIOUS
<1>1. PICK e \in Path : e = <<>> /\ Len(e) = 0
  BY <1>0, Zenon DEF Path
<1>2. Len(e) <= Len(r) /\ \A i \in 1..Len(e) : r[i] = e[i]
  BY <1>1 DEF Path
<1> QED
  BY <1>1, <1>2, BelowIs

\* The brace that opens a text.
LEMMA RootOpened ==
  ASSUME at = "value", nodes = <<>>, NEW token, token.type = "{", Read(token),
         DOMAIN doc \subseteq Path
  PROVE  \/ at' = "thrown"
         \/ /\ at' = "name" /\ nodes' = <<RootNode(<<>>)>>
            /\ successful' = successful
            /\ DOMAIN doc' = {<<>>} /\ doc'[<<>>].type = "object"
<1>1. ReadTooDeep(token) \/ Open(token)
  BY ActionAt DEF ReadScalar, ReadComment, ValueExpected, NotAValue
<1>2. CASE ReadTooDeep(token)
  BY <1>2 DEF ReadTooDeep
<1>3. CASE Open(token)
  <2>1. Current = <<>>
    BY DEF Current
  <2>2. /\ SwapPayload(<<>>, [type |-> "object"]) /\ at' = "name"
        /\ successful' = successful
        /\ nodes' = Append(nodes, RootNode(<<>>))
    BY <1>3, <2>1 DEF Open, RootNode
  <2>3. nodes' = <<RootNode(<<>>)>>
    <3>1. Append(<<>>, RootNode(<<>>)) = <<RootNode(<<>>)>>
      BY SequenceOfOne
    <3>2. nodes' = Append(<<>>, RootNode(<<>>))
      BY <2>2, Zenon
    <3> QED
      BY <3>1, <3>2
  <2>4. \A r \in Path : Below(<<>>, r)
    BY BelowEmpty
  <2>5. DOMAIN doc' = {<<>>} /\ doc'[<<>>].type = "object"
    BY <2>2, <2>4 DEF SwapPayload
  <2> QED
    BY <2>2, <2>3, <2>5
<1> QED
  BY <1>1, <1>2, <1>3

\* The name of the member of a text.
LEMMA RootNamed ==
  ASSUME at = "name", nodes = <<RootNode(<<>>)>>,
         NEW token, token.type = "string", Read(token)
  PROVE  /\ at' = "colon" /\ nodes' = <<RootNode(token.name)>>
         /\ doc' = doc /\ successful' = successful
<1>1. ReadName(token)
  BY ActionAt
<1>2. /\ SetKey(Member(token.name)) /\ at' = "colon"
      /\ doc' = doc /\ successful' = successful
  BY <1>1 DEF ReadName
<1>3. nodes' = [nodes EXCEPT ![1].key = Member(token.name)]
  BY <1>2 DEF SetKey
<1>4. [nodes[1] EXCEPT !.key = Member(token.name)] = RootNode(token.name)
  BY DEF RootNode
<1>5. nodes' = <<RootNode(token.name)>>
  BY <1>3, <1>4
<1> QED
  BY <1>2, <1>5

\* The colon after it.
LEMMA ColonRead ==
  ASSUME at = "colon", NEW token, token.type = ":", Read(token)
  PROVE  /\ at' = "value" /\ nodes' = nodes
         /\ doc' = doc /\ successful' = successful
  BY ActionAt DEF ReadColon, Goto

\* The brace that closes a text, and what parse() finds behind it.
LEMMA RootClosed ==
  ASSUME at = "object", NEW name, nodes = <<RootNode(name)>>,
         NEW token, token.type = "}", Read(token)
  PROVE  /\ at' = "end" /\ nodes' = <<>>
         /\ doc' = doc /\ successful' = successful
<1>1. Pop
  BY ActionAt DEF ReadMemberEnd
<1>2. Front(nodes) = <<>>
  BY FrontShort, Zenon
<1> QED
  BY <1>1, <1>2 DEF Pop, Completed

\* The end of the text.
LEMMA EndRead ==
  ASSUME at = "end", Read(EndOfStream)
  PROVE  /\ at' = "done" /\ nodes' = nodes
         /\ doc' = doc /\ successful' = successful
<1>1. EndOfStream.type # "comment"
  BY DEF EndOfStream, Punctuation
<1> QED
  BY <1>1, ActionAt DEF ReadEnd, Goto

\* The reader in the object of the text.
LEMMA RootPlace ==
  ASSUME NEW name, nodes = <<RootNode(name)>>
  PROVE  Current = <<Member(name)>> /\ Top.type = "object" /\ nodes # <<>>
<1>1. Top = RootNode(name) /\ nodes # <<>>
  BY DEF Top
<1>2. Append(<<>>, Member(name)) = <<Member(name)>>
  OBVIOUS
<1> QED
  BY <1>1, <1>2 DEF Current, RootNode

\* The text of a number is read stage by stage.
LEMMA NumberStep ==
  ASSUME Inv, NumberInv, NEW token, ReadToken(token)
  PROVE  NumberInv'
<1> SUFFICES ASSUME wrote.kind = "number" PROVE NumberInv'
  BY TokenRead DEF NumberInv, Inv
<1>1. /\ TypeOK /\ WroteInv /\ TextInv /\ ReaderInv
      /\ Read(token) /\ at \notin {"done", "thrown"} /\ wrote' = wrote
  BY TokenRead DEF Inv
<1>2. /\ Body = NumberBody(wrote.field.name, wrote.number)
      /\ wrote.field.name \in Name /\ wrote.number \in Number
  BY <1>1, WroteFacts DEF Body
<1>3. /\ Len(Body) = 5 /\ Body[1] = Punctuation("{")
      /\ Body[2] = StringToken(wrote.field.name) /\ Body[3] = Punctuation(":")
      /\ Body[4] = NumberToken(wrote.number) /\ Body[5] = Punctuation("}")
  BY <1>2, NumberBodyFacts
<1>4. /\ Taken \in Nat /\ Taken' \in Nat
      /\ \/ Taken < 5 /\ token = Body[Taken + 1] /\ Taken' = Taken + 1
         \/ Taken = 5 /\ token = EndOfStream /\ Taken' = Taken
  BY <1>1, <1>3, Consumed
<1>5. CASE successful /\ Taken = 0 /\ at = "value" /\ nodes = <<>>
  <2>0. token = Body[1] /\ Taken' = 1
    BY <1>4, <1>5
  <2>1. token.type = "{" /\ Taken' = 1
    BY <1>3, <2>0, TokenTypes
  <2>2. DOMAIN doc \subseteq Path
    BY <1>1 DEF ReaderInv, ReaderTypeOK
  <2> QED
    BY <1>1, <1>5, <2>1, <2>2, RootOpened DEF NumberInv
<1>6. CASE /\ successful /\ Taken = 1 /\ at = "name"
           /\ nodes = <<RootNode(<<>>)>>
  <2>0. token = Body[2] /\ Taken' = 2
    BY <1>4, <1>6
  <2>1. token.type = "string" /\ token.name = wrote.field.name /\ Taken' = 2
    BY <1>3, <2>0, TokenTypes
  <2>2. /\ at' = "colon" /\ nodes' = <<RootNode(wrote.field.name)>>
        /\ successful' = successful
    BY <1>1, <1>6, <2>1, RootNamed
  <2> QED
    BY <1>1, <1>6, <2>1, <2>2 DEF NumberInv
<1>7. CASE /\ successful /\ Taken = 2 /\ at = "colon"
           /\ nodes = <<RootNode(wrote.field.name)>>
  <2>0. token = Body[3] /\ Taken' = 3
    BY <1>4, <1>7
  <2>1. token.type = ":" /\ Taken' = 3
    BY <1>3, <2>0, TokenTypes
  <2>2. at' = "value" /\ nodes' = nodes /\ successful' = successful
    BY <1>1, <1>7, <2>1, ColonRead
  <2> QED
    BY <1>1, <1>7, <2>1, <2>2 DEF NumberInv
<1>8. CASE /\ successful /\ Taken = 3 /\ at = "value"
           /\ nodes = <<RootNode(wrote.field.name)>>
  <2>0. token = Body[4] /\ Taken' = 4
    BY <1>4, <1>8
  <2>1. token = NumberToken(wrote.number) /\ token.type = "number" /\ Taken' = 4
    BY <1>3, <2>0, TokenTypes
  <2>2. ReadTooDeep(token) \/ ReadScalar(token) \/ ValueExpected(token)
    BY <1>1, <1>8, <2>1, ActionAt DEF Open, ReadComment
  <2>3. CASE ReadTooDeep(token)
    BY <1>1, <2>3 DEF ReadTooDeep, NumberInv
  <2>4. CASE ReadScalar(token)
    <3>1. Current = <<Member(wrote.field.name)>> /\ Top.type = "object"
          /\ nodes # <<>>
      BY <1>8, RootPlace
    <3>2. /\ SwapPayload(Current, DecodeNumber(token))
          /\ at' = "object" /\ nodes' = nodes /\ successful' = successful
      BY <2>1, <2>4, <3>1 DEF ReadScalar, Completed, Top
    <3>3. Current \in DOMAIN doc' /\ doc'[Current] = DecodeNumber(token)
      BY <3>2 DEF SwapPayload
    <3>4. NumberRead'
      BY <1>1, <2>1, <3>1, <3>3 DEF NumberRead
    <3> QED
      BY <1>1, <1>8, <2>1, <3>2, <3>4 DEF NumberInv
  <2>5. CASE ValueExpected(token)
    <3>1. ~successful' /\ ~Decodable(token)
      BY <2>1, <2>5 DEF ValueExpected, NotAValue, Fail
    <3> QED
      BY <1>1, <2>1, <3>1 DEF NumberInv
  <2> QED
    BY <2>2, <2>3, <2>4, <2>5
<1>9. CASE /\ successful /\ Taken = 4 /\ at = "object"
           /\ nodes = <<RootNode(wrote.field.name)>>
           /\ NumberRead
  <2>0. token = Body[5] /\ Taken' = 5
    BY <1>4, <1>9
  <2>1. token.type = "}" /\ Taken' = 5
    BY <1>3, <2>0, TokenTypes
  <2>2. at' = "end" /\ doc' = doc /\ successful' = successful
    BY <1>1, <1>9, <2>1, RootClosed
  <2>3. NumberRead'
    BY <1>1, <1>9, <2>2 DEF NumberRead
  <2> QED
    BY <1>1, <1>9, <2>1, <2>2, <2>3 DEF NumberInv
<1>10. CASE /\ successful /\ Taken = 5 /\ at \in {"end", "done"}
            /\ NumberRead
  <2>1. at = "end" /\ token = EndOfStream /\ Taken' = 5
    BY <1>1, <1>4, <1>10
  <2>2. at' = "done" /\ doc' = doc /\ successful' = successful
    BY <1>1, <2>1, EndRead
  <2>3. NumberRead'
    BY <1>1, <1>10, <2>2 DEF NumberRead
  <2> QED
    BY <1>1, <1>10, <2>1, <2>2, <2>3 DEF NumberInv
<1>11. CASE ~successful /\ ~Decodable(NumberToken(wrote.number))
  <2>1. ~successful'
    BY <1>1, <1>11, ErrorStep
  <2> QED
    BY <1>1, <1>11, <2>1 DEF NumberInv
<1> QED
  BY <1>1, <1>5, <1>6, <1>7, <1>8, <1>9, <1>10, <1>11 DEF NumberInv

\* The reader in the array of topics.
LEMMA InArrayPlace ==
  ASSUME NEW j, InArray(j)
  PROVE  /\ Len(nodes) = 2 /\ nodes # <<>> /\ Top = ArrayNode(j)
         /\ Top.type = "array" /\ Top.key = Element(j)
         /\ Current = Append(TopicsPath, Element(j))
         /\ Front(nodes) = <<RootNode(TopicsName)>>
<1>1. nodes = <<RootNode(TopicsName), ArrayNode(j)>>
  BY DEF InArray
<1>2. Len(nodes) = 2 /\ nodes # <<>> /\ nodes[2] = ArrayNode(j)
  BY <1>1
<1>3. Top = ArrayNode(j)
  BY <1>2 DEF Top
<1>4. /\ ArrayNode(j).type = "array" /\ ArrayNode(j).key = Element(j)
      /\ ArrayNode(j).path = TopicsPath
  BY DEF ArrayNode
<1>5. Current = Append(TopicsPath, Element(j))
  BY <1>2, <1>3, <1>4 DEF Current
<1>6. Front(nodes) = <<RootNode(TopicsName)>>
  BY <1>1, FrontShort
<1> QED
  BY <1>2, <1>3, <1>4, <1>5, <1>6

\* A sequence of one and one more.
LEMMA SequenceOfTwo ==
  ASSUME NEW S, NEW x \in S, NEW y \in S
  PROVE  Append(<<x>>, y) = <<x, y>>
<1>1. <<x>> \in Seq(S) /\ Len(<<x>>) = 1 /\ <<x>>[1] = x
  OBVIOUS
<1>2. PICK s \in Seq(S) : s = <<x>> /\ Len(s) = 1 /\ s[1] = x
  BY <1>1, Zenon
<1>3. /\ Append(s, y) \in Seq(S) /\ Len(Append(s, y)) = 2
      /\ Append(s, y)[1] = x /\ Append(s, y)[2] = y
  BY <1>2
<1>4. /\ <<x, y>> \in Seq(S) /\ Len(<<x, y>>) = 2
      /\ <<x, y>>[1] = x /\ <<x, y>>[2] = y
  OBVIOUS
<1>5. \A s1, s2 \in Seq(S) :
         Len(s1) = 2 /\ Len(s2) = 2 /\ s1[1] = s2[1] /\ s1[2] = s2[2] => s1 = s2
  OBVIOUS
<1> QED
  BY <1>2, <1>3, <1>4, <1>5, Zenon

\* A sequence of two with another second element.
LEMMA SecondOfTwo ==
  ASSUME NEW a, NEW b, NEW c
  PROVE  [<<a, b>> EXCEPT ![2] = c] = <<a, c>>
  OBVIOUS

\* The paths of the array of topics and of its elements.
LEMMA TopicsPathFacts ==
  /\ TopicsPath \in Path /\ Len(TopicsPath) = 1 /\ TopicsPath # <<>>
  /\ <<>> \in Path /\ Len(<<>>) = 0
  /\ \A i \in Nat : /\ Append(TopicsPath, Element(i)) \in Path
                    /\ Len(Append(TopicsPath, Element(i))) = 2
  /\ \A i, j \in Nat :
        Append(TopicsPath, Element(i)) = Append(TopicsPath, Element(j))
                           => i = j
<1>1. Member(TopicsName) \in Key
  BY SomeKeys, TextAssumption
<1>2. <<>> \in Seq(Key) /\ Len(<<>>) = 0
  OBVIOUS
<1>3. <<Member(TopicsName)>> \in Seq(Key) /\ Len(<<Member(TopicsName)>>) = 1
  BY <1>1
<1>4. TopicsPath \in Path /\ Len(TopicsPath) = 1 /\ <<>> \in Path
  BY <1>2, <1>3, Zenon DEF TopicsPath, Path
<1>5. TopicsPath # <<>>
  BY <1>2, <1>4
<1>6. ASSUME NEW i \in Nat
      PROVE  /\ Append(TopicsPath, Element(i)) \in Path
             /\ Len(Append(TopicsPath, Element(i))) = 2
             /\ Append(TopicsPath, Element(i))[2] = Element(i)
             /\ Element(i)[2] = i
  <2>1. Element(i) \in Key
    BY SomeKeys
  <2>2. /\ Append(TopicsPath, Element(i)) \in Path
        /\ Len(Append(TopicsPath, Element(i))) = Len(TopicsPath) + 1
        /\ Append(TopicsPath, Element(i))[Len(TopicsPath) + 1] = Element(i)
    BY <1>4, <2>1, PathFacts
  <2>3. Element(i)[2] = i
    BY DEF Element
  <2> QED
    BY <1>4, <2>2, <2>3
<1>7. ASSUME NEW i \in Nat, NEW j \in Nat,
             Append(TopicsPath, Element(i)) = Append(TopicsPath, Element(j))
      PROVE  i = j
  <2>1. Element(i) = Element(j)
    BY <1>6, <1>7, Zenon
  <2> QED
    BY <1>6, <2>1, Zenon
<1> QED
  BY <1>2, <1>4, <1>5, <1>6, <1>7, Zenon

\* The bracket that opens the array of topics.
LEMMA ArrayOpened ==
  ASSUME at = "value", nodes = <<RootNode(TopicsName)>>,
         DOMAIN doc = {<<>>}, doc[<<>>].type = "object",
         NEW token, token.type = "[", Read(token)
  PROVE  \/ at' = "thrown"
         \/ /\ at' = "first" /\ InArray(1)' /\ Listed(0)'
            /\ successful' = successful
<1>1. ReadTooDeep(token) \/ Open(token)
  BY ActionAt DEF ReadScalar, ReadComment, ValueExpected, NotAValue
<1>2. CASE ReadTooDeep(token)
  BY <1>2 DEF ReadTooDeep
<1>3. CASE Open(token)
  <2>1. Current = TopicsPath
    BY RootPlace DEF TopicsPath
  <2>2. /\ SwapPayload(TopicsPath, [type |-> "array"]) /\ at' = "first"
        /\ successful' = successful
        /\ nodes' = Append(nodes, ArrayNode(1))
    BY <1>3, <2>1 DEF Open, ArrayNode
  <2>3. InArray(1)'
    <3>1. Append(<<RootNode(TopicsName)>>, ArrayNode(1))
             = <<RootNode(TopicsName), ArrayNode(1)>>
      <4>1. /\ RootNode(TopicsName) \in {RootNode(TopicsName), ArrayNode(1)}
            /\ ArrayNode(1) \in {RootNode(TopicsName), ArrayNode(1)}
        OBVIOUS
      <4> QED
        BY <4>1, SequenceOfTwo, Zenon
    <3>2. nodes' = <<RootNode(TopicsName), ArrayNode(1)>>
      BY <2>2, <3>1, Zenon
    <3> QED
      BY <3>2 DEF InArray
  <2>4. ~Below(TopicsPath, <<>>)
    BY TopicsPathFacts DEF Below
  <2>5. /\ DOMAIN doc' = {<<>>, TopicsPath}
        /\ doc'[<<>>].type = "object" /\ doc'[TopicsPath].type = "array"
    BY <2>2, <2>4, TopicsPathFacts DEF SwapPayload
  <2>6. Listed(0)'
    BY <2>5 DEF Listed
  <2> QED
    BY <2>2, <2>3, <2>6
<1> QED
  BY <1>1, <1>2, <1>3

\* A topic is read into its place of the array.
LEMMA ElementRead ==
  ASSUME at \in {"value", "first"},
         NEW j \in Nat \ {0}, InArray(j), Listed(j - 1),
         NEW token, token = StringToken(RereadName(wrote.topics[j])),
         Read(token), wrote' = wrote
  PROVE  \/ at' = "thrown"
         \/ /\ at' = "array" /\ InArray(j)' /\ Listed(j)'
            /\ successful' = successful
<1>1. token.type = "string"
  BY TokenTypes
<1>2. ReadTooDeep(token) \/ ReadScalar(token)
  BY <1>1, ActionAt DEF Open, ReadComment, ValueExpected, NotAValue,
     EndEmptyArray
<1>3. CASE ReadTooDeep(token)
  BY <1>3 DEF ReadTooDeep
<1>4. CASE ReadScalar(token)
  <2>1. PICK p \in Path : p = Append(TopicsPath, Element(j)) /\ Len(p) = 2
    BY TopicsPathFacts
  <2>2. /\ SwapPayload(p, token) /\ at' = "array"
        /\ successful' = successful /\ nodes' = nodes
    BY <1>1, <1>4, <2>1, InArrayPlace DEF ReadScalar, Completed, Top
  <2>3. DOMAIN doc = {<<>>, TopicsPath}
                        \cup {Append(TopicsPath, Element(i)) : i \in 1..(j - 1)}
    BY DEF Listed
  <2>4. ASSUME NEW r \in DOMAIN doc PROVE ~Below(p, r) /\ r # p
    <3>1. CASE r = <<>> \/ r = TopicsPath
      <4>1. Len(r) < 2
        BY <3>1, TopicsPathFacts
      <4> QED
        BY <2>1, <4>1 DEF Below
    <3>2. CASE r # <<>> /\ r # TopicsPath
      <4>1. PICK i \in 1..(j - 1) : r = Append(TopicsPath, Element(i))
        BY <2>3, <3>2
      <4>2. i \in Nat /\ i # j
        OBVIOUS
      <4>3. r \in Path /\ Len(r) = 2 /\ r # p
        BY <2>1, <4>1, <4>2, TopicsPathFacts
      <4>4. Len(r) <= Len(p)
        BY <2>1, <4>3
      <4> QED
        BY <2>1, <4>3, <4>4, BelowFacts
    <3> QED
      BY <3>1, <3>2
  <2>5. /\ DOMAIN doc' = DOMAIN doc \cup {p} /\ doc'[p] = token
        /\ \A r \in DOMAIN doc : doc'[r] = doc[r]
    BY <2>2, <2>4 DEF SwapPayload
  <2>6. 1..j = 1..(j - 1) \cup {j}
    OBVIOUS
  <2>7. DOMAIN doc' = {<<>>, TopicsPath}
                         \cup {Append(TopicsPath, Element(i)) : i \in 1..j}
    BY <2>1, <2>3, <2>5, <2>6
  <2>8. ASSUME NEW i \in 1..j
        PROVE  doc'[Append(TopicsPath, Element(i))]
                  = StringToken(RereadName(wrote'.topics[i]))
    <3>1. CASE i = j
      BY <2>1, <2>5, <3>1
    <3>2. CASE i \in 1..(j - 1)
      <4>1. doc[Append(TopicsPath, Element(i))]
              = StringToken(RereadName(wrote.topics[i]))
        BY <3>2 DEF Listed
      <4>2. Append(TopicsPath, Element(i)) \in DOMAIN doc
        BY <2>3, <3>2
      <4> QED
        BY <2>5, <4>1, <4>2
    <3> QED
      BY <2>6, <3>1, <3>2
  <2>9. doc'[<<>>].type = "object" /\ doc'[TopicsPath].type = "array"
    BY <2>3, <2>5 DEF Listed
  <2>10. Listed(j)'
    BY <2>7, <2>8, <2>9 DEF Listed
  <2>11. InArray(j)'
    BY <2>2 DEF InArray
  <2> QED
    BY <2>2, <2>10, <2>11
<1> QED
  BY <1>2, <1>3, <1>4

\* The next element of the array.
LEMMA ArrayNodeNext ==
  ASSUME NEW i, NEW k
  PROVE  [ArrayNode(i) EXCEPT !.key = Element(k)] = ArrayNode(k)
  BY DEF ArrayNode

\* The comma between two topics.
LEMMA CommaRead ==
  ASSUME at = "array", NEW j \in Nat, InArray(j),
         NEW token, token.type = ",", Read(token)
  PROVE  /\ at' = "value" /\ InArray(j + 1)'
         /\ doc' = doc /\ successful' = successful
<1>1. ReadElementEnd(token)
  BY ActionAt
<1>2. /\ SetKey(Element(Top.key[2] + 1)) /\ at' = "value"
      /\ doc' = doc /\ successful' = successful
  BY <1>1 DEF ReadElementEnd
<1>3. Top.key[2] = j /\ Len(nodes) = 2
  <2>1. Top.key = Element(j) /\ Len(nodes) = 2
    BY InArrayPlace
  <2>2. Element(j)[2] = j
    BY DEF Element
  <2> QED
    BY <2>1, <2>2
<1>4. nodes' = [nodes EXCEPT ![2].key = Element(j + 1)]
  BY <1>2, <1>3 DEF SetKey
<1>5. [ArrayNode(j) EXCEPT !.key = Element(j + 1)] = ArrayNode(j + 1)
  BY ArrayNodeNext
<1>6. nodes' = <<RootNode(TopicsName), ArrayNode(j + 1)>>
  <2>1. nodes = <<RootNode(TopicsName), ArrayNode(j)>>
    BY DEF InArray
  <2>2. nodes' = [nodes EXCEPT ![2] = [nodes[2] EXCEPT !.key = Element(j + 1)]]
    BY <1>4
  <2>3. nodes[2] = ArrayNode(j)
    BY <2>1
  <2>4. nodes' = [nodes EXCEPT ![2] = ArrayNode(j + 1)]
    BY <1>5, <2>2, <2>3
  <2> QED
    BY <2>1, <2>4, SecondOfTwo, Zenon
<1> QED
  BY <1>2, <1>6 DEF InArray

\* The bracket that closes the array.
LEMMA ArrayClosed ==
  ASSUME at = "array", NEW j, InArray(j),
         NEW token, token.type = "]", Read(token)
  PROVE  /\ at' = "object" /\ nodes' = <<RootNode(TopicsName)>>
         /\ doc' = doc /\ successful' = successful
<1>1. Pop
  BY ActionAt DEF ReadElementEnd
<1>2. /\ nodes' = <<RootNode(TopicsName)>>
           /\ Completed(<<RootNode(TopicsName)>>)
      /\ doc' = doc /\ successful' = successful
  BY <1>1, InArrayPlace DEF Pop
<1>3. /\ <<RootNode(TopicsName)>> # <<>> /\ Len(<<RootNode(TopicsName)>>) = 1
      /\ <<RootNode(TopicsName)>>[1] = RootNode(TopicsName)
  OBVIOUS
<1>4. RootNode(TopicsName).type = "object"
  BY DEF RootNode
<1>5. at' = "object"
  BY <1>2, <1>3, <1>4 DEF Completed
<1> QED
  BY <1>2, <1>5

\* The text of a layer connector is read stage by stage.
LEMMA TopicsStep ==
  ASSUME Inv, TopicsInv, NEW token, ReadToken(token)
  PROVE  TopicsInv'
<1> SUFFICES ASSUME wrote.kind = "topics", AllReadable PROVE TopicsInv'
  BY TokenRead DEF TopicsInv, Inv, AllReadable
<1>1. /\ TypeOK /\ WroteInv /\ TextInv /\ ReaderInv
      /\ Read(token) /\ at \notin {"done", "thrown"} /\ wrote' = wrote
  BY TokenRead DEF Inv
<1>2. /\ Body = SubscribeBody(wrote.topics)
      /\ wrote.topics \in Seq(Name) /\ wrote.topics # <<>>
  BY <1>1, WroteFacts DEF Body
<1>3. PICK n \in Nat : n = Len(wrote.topics) /\ n > 0
  BY <1>2
<1>4. /\ Len(Body) = 5 + 2 * n
      /\ Body[1] = Punctuation("{") /\ Body[2] = StringToken(TopicsName)
      /\ Body[3] = Punctuation(":") /\ Body[4] = Punctuation("[")
      /\ \A j \in 1..n :
            Body[3 + 2 * j] = Written(wrote.topics[j])
      /\ \A j \in 1..(n - 1) : Body[4 + 2 * j] = Punctuation(",")
      /\ Body[4 + 2 * n] = Punctuation("]")
            /\ Body[5 + 2 * n] = Punctuation("}")
  BY <1>2, <1>3, SubscribeBodyFacts
<1>5. /\ Taken \in Nat /\ Taken' \in Nat
      /\ \/ Taken < 5 + 2 * n /\ token = Body[Taken + 1] /\ Taken' = Taken + 1
         \/ Taken = 5 + 2 * n /\ token = EndOfStream /\ Taken' = Taken
  <2>1. wrote.kind # "text"
    OBVIOUS
  <2>2. /\ Taken \in Nat /\ Taken' \in Nat
        /\ \/ /\ Taken < Len(Body) /\ token = Body[Taken + 1]
              /\ Taken' = Taken + 1
           \/ Taken = Len(Body) /\ token = EndOfStream /\ Taken' = Taken
    BY <1>1, <2>1, Consumed
  <2> QED
    BY <1>4, <2>2
<1>6. ASSUME NEW k \in Nat, Taken = k, k < 5 + 2 * n
      PROVE  token = Body[k + 1] /\ Taken' = k + 1
  BY <1>5, <1>6
<1>7. CASE at' = "thrown"
  BY <1>7 DEF TopicsInv
<1>8. CASE Taken = 0 /\ at = "value" /\ nodes = <<>> /\ successful
  <2>1. token = Body[1] /\ Taken' = 1
    BY <1>5, <1>8
  <2>2. token.type = "{" /\ DOMAIN doc \subseteq Path
    BY <1>1, <1>4, <2>1, TokenTypes DEF ReaderInv, ReaderTypeOK
  <2> QED
    BY <1>1, <1>7, <1>8, <2>1, <2>2, RootOpened DEF TopicsInv
<1>9. CASE /\ Taken = 1 /\ at = "name" /\ nodes = <<RootNode(<<>>)>>
           /\ DOMAIN doc = {<<>>} /\ doc[<<>>].type = "object" /\ successful
  <2>1. token = Body[2] /\ Taken' = 2
    BY <1>5, <1>9
  <2>2. token.type = "string" /\ token.name = TopicsName
    BY <1>4, <2>1, TokenTypes
  <2>3. /\ at' = "colon" /\ nodes' = <<RootNode(TopicsName)>>
        /\ doc' = doc /\ successful' = successful
    BY <1>1, <1>9, <2>2, RootNamed
  <2> QED
    BY <1>1, <1>9, <2>1, <2>3 DEF TopicsInv
<1>10. CASE /\ Taken = 2 /\ at = "colon" /\ nodes = <<RootNode(TopicsName)>>
            /\ DOMAIN doc = {<<>>} /\ doc[<<>>].type = "object" /\ successful
  <2>1. token = Body[3] /\ Taken' = 3
    BY <1>5, <1>10
  <2>2. token.type = ":"
    BY <1>4, <2>1, TokenTypes
  <2>3. at' = "value" /\ nodes' = nodes /\ doc' = doc
          /\ successful' = successful
    BY <1>1, <1>10, <2>2, ColonRead
  <2> QED
    BY <1>1, <1>10, <2>1, <2>3 DEF TopicsInv
<1>11. CASE /\ Taken = 3 /\ at = "value" /\ nodes = <<RootNode(TopicsName)>>
            /\ DOMAIN doc = {<<>>} /\ doc[<<>>].type = "object" /\ successful
  <2>1. token = Body[4] /\ Taken' = 4
    BY <1>5, <1>11
  <2>2. token.type = "["
    BY <1>4, <2>1, TokenTypes
  <2>3. \/ at' = "thrown"
        \/ at' = "first" /\ InArray(1)' /\ Listed(0)'
              /\ successful' = successful
    BY <1>1, <1>11, <2>2, ArrayOpened
  <2> QED
    BY <1>1, <1>7, <1>11, <2>1, <2>3 DEF TopicsInv
<1>12. ASSUME NEW j \in 1..n, Taken = 2 + 2 * j, at \in {"value", "first"},
              InArray(j), Listed(j - 1), successful
       PROVE  TopicsInv'
  <2>1. token = Body[3 + 2 * j] /\ Taken' = 3 + 2 * j
    BY <1>5, <1>12
  <2>2. token = StringToken(RereadName(wrote.topics[j]))
    BY <1>3, <1>4, <2>1 DEF AllReadable, Written
  <2>3. \/ at' = "thrown"
        \/ at' = "array" /\ InArray(j)' /\ Listed(j)'
              /\ successful' = successful
    <3>1. j \in Nat \ {0}
      OBVIOUS
    <3> QED
      BY <1>1, <1>12, <2>2, <3>1, ElementRead
  <2>4. j \in 1..Len(wrote'.topics)
    BY <1>1, <1>3
  <2> QED
    BY <1>1, <1>7, <1>12, <2>1, <2>3, <2>4 DEF TopicsInv
<1>13. ASSUME NEW j \in 1..n, Taken = 3 + 2 * j, at = "array",
              InArray(j), Listed(j), successful
       PROVE  TopicsInv'
  <2>1. CASE j < n
    <3>1. token = Body[4 + 2 * j] /\ Taken' = 4 + 2 * j /\ j \in 1..(n - 1)
      BY <1>5, <1>13, <2>1
    <3>2. token.type = ","
      BY <1>4, <3>1, TokenTypes
    <3>3. /\ at' = "value" /\ InArray(j + 1)'
          /\ doc' = doc /\ successful' = successful
      <4>1. j \in Nat
        OBVIOUS
      <4> QED
        BY <1>1, <1>13, <3>2, <4>1, CommaRead
    <3>4. Listed(j)'
      BY <1>1, <1>13, <3>3 DEF Listed
    <3>5. j \in 1..(Len(wrote'.topics) - 1)
      BY <1>1, <1>3, <3>1
    <3> QED
      BY <1>1, <1>13, <3>1, <3>3, <3>4, <3>5 DEF TopicsInv
  <2>2. CASE j = n
    <3>1. token = Body[4 + 2 * n] /\ Taken' = 4 + 2 * n
      BY <1>5, <1>13, <2>2
    <3>2. token.type = "]"
      BY <1>4, <3>1, TokenTypes
    <3>3. /\ at' = "object" /\ nodes' = <<RootNode(TopicsName)>>
          /\ doc' = doc /\ successful' = successful
      BY <1>1, <1>13, <3>2, ArrayClosed
    <3>4. Listed(n)'
      BY <1>1, <1>13, <2>2, <3>3 DEF Listed
    <3> QED
      BY <1>1, <1>3, <1>13, <3>1, <3>3, <3>4 DEF TopicsInv
  <2> QED
    BY <2>1, <2>2
<1>14. CASE /\ Taken = 4 + 2 * n /\ at = "object"
                 /\ nodes = <<RootNode(TopicsName)>>
            /\ Listed(n) /\ successful
  <2>1. token = Body[5 + 2 * n] /\ Taken' = 5 + 2 * n
    BY <1>5, <1>14
  <2>2. token.type = "}"
    BY <1>4, <2>1, TokenTypes
  <2>3. /\ at' = "end" /\ nodes' = <<>>
        /\ doc' = doc /\ successful' = successful
    BY <1>1, <1>14, <2>2, RootClosed
  <2>4. Listed(n)'
    BY <1>1, <1>14, <2>3 DEF Listed
  <2> QED
    BY <1>1, <1>3, <1>14, <2>1, <2>3, <2>4 DEF TopicsInv
<1>15. CASE /\ Taken = 5 + 2 * n /\ at \in {"end", "done"} /\ nodes = <<>>
            /\ Listed(n) /\ successful
  <2>1. at = "end" /\ token = EndOfStream /\ Taken' = 5 + 2 * n
    BY <1>1, <1>5, <1>15
  <2>2. /\ at' = "done" /\ nodes' = nodes
        /\ doc' = doc /\ successful' = successful
    BY <1>1, <2>1, EndRead
  <2>3. Listed(n)'
    BY <1>1, <1>15, <2>2 DEF Listed
  <2> QED
    BY <1>1, <1>3, <1>15, <2>1, <2>2, <2>3 DEF TopicsInv
<1>16. CASE Taken = 4 /\ at = "first" /\ InArray(1) /\ Listed(0) /\ successful
  BY <1>3, <1>12, <1>16
<1>17. CASE /\ successful
            /\ \E j \in 1..(n - 1) :
                  Taken = 4 + 2 * j /\ at = "value" /\ InArray(j + 1)
                        /\ Listed(j)
  <2>1. PICK j \in 1..(n - 1) :
           Taken = 4 + 2 * j /\ at = "value" /\ InArray(j + 1) /\ Listed(j)
    BY <1>17
  <2>2. PICK k \in 1..n : k = j + 1 /\ k - 1 = j /\ Taken = 2 + 2 * k
    BY <2>1
  <2>3. InArray(k) /\ Listed(k - 1)
    BY <2>1, <2>2
  <2> QED
    BY <1>12, <1>17, <2>1, <2>2, <2>3
<1> QED
  BY <1>1, <1>3, <1>8, <1>9, <1>10, <1>11, <1>13, <1>14, <1>15, <1>16, <1>17
     DEF TopicsInv

-----------------------------------------------------------------------------
(* The theorems.                                                           *)

\* Nothing is read of a text at the start.
LEMMA StagesInitially ==
  ASSUME Init
  PROVE  NumberInv /\ TopicsInv
<1>1. at = "value" /\ nodes = <<>> /\ successful = TRUE
  BY DEF Init, InitReader
<1>2. wrote.kind # "text" => Taken = 0
  BY Initially
<1> QED
  BY <1>1, <1>2 DEF NumberInv, TopicsInv

Invariant == Inv /\ NumberInv /\ TopicsInv

\* A step that changes nothing keeps the invariant.
LEMMA Stuttered ==
  ASSUME Invariant, UNCHANGED vars
  PROVE  Invariant'
<1>1. /\ doc' = doc /\ nodes' = nodes /\ at' = at /\ successful' = successful
      /\ text' = text /\ left' = left /\ wrote' = wrote /\ nulls' = nulls
  BY DEF vars, reader
<1>2. Top' = Top /\ Current' = Current /\ Body' = Body
  BY <1>1 DEF Top, Current, Body
<1>3. Taken' = Taken /\ Found' = Found
  BY <1>1, <1>2 DEF Taken, Found
<1>4. ReaderTypeOK' /\ DocumentIsTree' /\ StackOK' /\ PlaceOK'
  BY <1>1, <1>2 DEF Invariant, Inv, ReaderInv, ReaderTypeOK, DocumentIsTree,
     StackOK, PlaceOK
<1>5. TypeOK' /\ WroteInv' /\ TextInv' /\ NullInv'
  BY <1>1, <1>2, <1>3, <1>4 DEF Invariant, Inv, TypeOK, WroteInv, TextInv,
        NullInv
<1>6. NumberInv'
  BY <1>1, <1>3 DEF Invariant, NumberInv, NumberRead
<1>7. TopicsInv'
  <2>1. \A j : (InArray(j)' <=> InArray(j)) /\ (Listed(j)' <=> Listed(j))
    BY <1>1 DEF InArray, Listed
  <2> QED
    BY <1>1, <1>3, <2>1 DEF Invariant, TopicsInv, AllReadable
<1> QED
  BY <1>4, <1>5, <1>6, <1>7 DEF Invariant, Inv, ReaderInv

\* Every step keeps the invariant.
LEMMA Stepped ==
  ASSUME Invariant, [Next]_vars
  PROVE  Invariant'
<1>1. ASSUME NEW token, ReadToken(token) PROVE Invariant'
  <2>1. TypeOK /\ ReaderInv /\ WroteInv /\ TextInv /\ NullInv /\ nulls \in Nat
    BY DEF Invariant, Inv, TypeOK
  <2>2. TypeOK' /\ ReaderInv' /\ WroteInv'
    BY <1>1, <2>1, TypesKept
  <2>3. TextInv'
    <3>1. CASE wrote.kind = "text"
      BY <1>1, <3>1 DEF ReadToken, TextInv
    <3>2. CASE wrote.kind # "text"
      BY <1>1, <2>1, <3>2, Consumed
    <3> QED
      BY <3>1, <3>2
  <2>4. NullInv'
    <3>1. /\ token \in Token /\ Read(token) /\ at # "thrown"
          /\ nulls' = IF token.type = "null" THEN nulls + 1 ELSE nulls
      BY <1>1, <2>1, TokenRead
    <3> QED
      BY <2>1, <2>2, <3>1, NullStep
  <2>5. NumberInv' /\ TopicsInv'
    BY <1>1, NumberStep, TopicsStep DEF Invariant
  <2> QED
    BY <2>2, <2>3, <2>4, <2>5 DEF Invariant, Inv
<1>2. CASE UNCHANGED vars
  BY <1>2, Stuttered
<1> QED
  BY <1>1, <1>2 DEF Next

\* The inductive invariant, from which the rest follows.
THEOREM Always == Spec => []Invariant
<1>1. Init => Invariant
  BY Initially, StagesInitially DEF Invariant
<1>2. Invariant /\ [Next]_vars => Invariant'
  BY Stepped
<1> QED
  BY <1>1, <1>2, PTL DEF Spec

\* swapPayload, decodeNumber, decodeString: the variables keep their types;
\* in particular an integer that was read fits the type it is kept in, for any
\* width of Int and LargestInt, and a name is one of code points.
THEOREM TypeCorrect == Spec => []TypeOK
<1>1. Invariant => TypeOK
  BY DEF Invariant, Inv
<1> QED
  BY <1>1, Always, PTL

\* readObject, readArray, recoverFromError: at every moment the document is a
\* tree of objects and arrays without a gap.
THEOREM TreeCorrect == Spec => []DocumentIsTree
<1>1. Invariant => DocumentIsTree
  BY DEF Invariant, Inv, ReaderInv
<1> QED
  BY <1>1, Always, PTL

\* recoverFromError: what follows an error does not change the document, and
\* parse() does not succeed.
THEOREM ErrorCorrect == Spec => ErrorIsFinal
<1>1. ASSUME Invariant, [Next]_vars
      PROVE  [~successful => doc' = doc /\ ~successful']_vars
  <2>1. ASSUME NEW token, ReadToken(token), ~successful
        PROVE  doc' = doc /\ ~successful'
    BY <1>1, <2>1, ErrorStep DEF Invariant, Inv, ReadToken
  <2> QED
    BY <1>1, <2>1 DEF Next
<1> QED
  BY <1>1, Always, PTL DEF Spec, ErrorIsFinal

\* operator[] before readValue: at most one null of the document is not in
\* the text, and none once the text was read to its end.
THEOREM NullsCorrect == Spec => []NullsAreWritten
<1>1. ASSUME Invariant PROVE NullsAreWritten
  <2>1. /\ ReaderInv /\ NullInv /\ nulls \in Nat /\ IsFiniteSet(Found)
        /\ successful \in BOOLEAN
    BY <1>1, FoundFinite DEF Invariant, Inv, TypeOK, ReaderInv, ReaderTypeOK
  <2>2. Cardinality(Found) \in Nat
    BY <2>1, FS_CardinalityType
  <2>3. CASE at = "value"
    <3>1. successful
      BY <2>1, <2>3 DEF ReaderInv, PlaceOK
    <3>2. Cardinality(Found \ {Current}) <= nulls
      BY <2>1, <2>3, <3>1 DEF NullInv
    <3>3. IsFiniteSet(Found \ {Current})
      BY <2>1, FS_Subset
    <3>4. Found \subseteq (Found \ {Current}) \cup {Current}
      OBVIOUS
    <3>5. /\ Cardinality(Found) <= Cardinality(Found \ {Current}) + 1
          /\ Cardinality(Found \ {Current}) \in Nat
      BY <3>3, <3>4, OneMore, Zenon
    <3>6. Cardinality(Found) <= nulls + 1
      BY <2>1, <2>2, <3>2, <3>5
    <3> QED
      BY <2>3, <3>6 DEF NullsAreWritten, Found
  <2>4. CASE at # "value"
    <3>1. /\ Cardinality(Found) <= nulls + 1
          /\ at = "done" /\ successful => Cardinality(Found) <= nulls
      BY <2>1, <2>2, <2>4 DEF NullInv
    <3> QED
      BY <3>1 DEF NullsAreWritten, Found
  <2> QED
    BY <2>3, <2>4
<1> QED
  BY <1>1, Always, PTL

\* asInt: a double that stands for a large number is in no range.
LEMMA DoubleOutOfRange ==
  ASSUME NEW n \in Int, n > MaxLargestUInt \/ n < MinLargestInt
  PROVE  /\ ~InRange(ToDouble(n), MinInt, MaxInt)
         /\ n > MaxLargestUInt =>
               ~InRange(ToDouble(n), MinLargestInt, MaxLargestInt)
         /\ n < MinLargestInt =>
               ToDouble(n) <= MinLargestInt
                  /\ ToDouble(MinLargestInt) = MinLargestInt
<1>1. /\ Power \in Nat /\ MaxInt \in Nat /\ MaxInt + 1 < Power
      /\ MaxLargestInt = Power - 1 /\ MinLargestInt = -Power
      /\ MaxLargestUInt + 1 = 2 * Power /\ MinInt = -(MaxInt + 1)
      /\ MaxInt + 1 < Precision
  BY WidthFacts, WidthAssumption
     DEF Power, MaxLargestUInt, MinLargestInt, MinInt
<1>2. ToDouble(MaxInt) = MaxInt /\ ToDouble(MinInt) = MinInt
  <2>1. Rounded(MaxInt) = MaxInt /\ Rounded(MaxInt + 1) = MaxInt + 1
    <3>1. \A i \in Nat : i < Precision => Rounded(i) = i
      BY RoundedBounds
    <3>2. MaxInt + 1 \in Nat /\ MaxInt < Precision
      BY <1>1, WidthFacts
    <3> QED
      BY <1>1, <3>1, <3>2
  <2>2. MinInt < 0 /\ -MinInt = MaxInt + 1 /\ MinInt \in Int
    BY <1>1
  <2> QED
    BY <1>1, <2>1, <2>2 DEF ToDouble
<1>3. ToDouble(MinLargestInt) = MinLargestInt
  <2>1. MinLargestInt < 0 /\ -MinLargestInt = Power
    BY <1>1, WidthFacts
  <2> QED
    BY <1>1, <2>1, RoundedPower DEF ToDouble
<1>4. CASE n > MaxLargestUInt
  <2>1. n \in Nat /\ n >= 2 * Power
    <3>1. PICK m \in Int : m = MaxLargestUInt /\ m + 1 = 2 * Power
      BY <1>1, WidthAssumption DEF MaxLargestUInt
    <3> QED
      BY <1>1, <1>4, <3>1
  <2>2. PICK y \in Nat : y = ToDouble(n) /\ 4 * (n - y) <= n
    BY <2>1, RoundedBounds, ToDoubleFacts
  <2>3. PICK z \in Nat :
           z = ToDouble(MaxLargestInt) /\ 4 * (z - (Power - 1)) <= Power - 1
    <3>1. Power - 1 \in Nat
      BY <1>1
    <3> QED
      BY <1>1, <3>1, RoundedBounds, ToDoubleFacts
  <2>4. y > z /\ y > MaxInt
    BY <1>1, <2>1, <2>2, <2>3
  <2> QED
    BY <1>1, <1>2, <1>4, <2>1, <2>2, <2>3, <2>4 DEF InRange
<1>5. CASE n < MinLargestInt
  <2>1. -n \in Nat /\ -n >= Power /\ n < 0
    BY <1>1, <1>5
  <2>2. PICK y \in Nat : ToDouble(n) = -y /\ y >= Power
    BY <2>1, RoundedBounds, RoundedPower, ToDoubleFacts
  <2>3. -y < MinInt /\ -y <= MinLargestInt
    BY <1>1, <2>2
  <2>4. ~(n > MaxLargestUInt)
    <3>1. PICK m \in Int : m = MaxLargestUInt /\ m + 1 = 2 * Power
      BY <1>1, WidthAssumption DEF MaxLargestUInt
    <3> QED
      BY <1>1, <2>1, <3>1
  <2> QED
    BY <1>1, <1>2, <1>3, <2>2, <2>3, <2>4 DEF InRange
<1> QED
  BY <1>4, <1>5

\* decodeNumber, asInt, asInt64: a setting that can hold the number that is
\* written gets that number; any other is an error or throws, but for numbers
\* that a double confuses with the least int64.  For any number of digits and
\* any widths of Int, LargestInt and double.
THEOREM NumberCorrect == Spec => []NumberIsExact
<1>1. ASSUME Invariant PROVE NumberIsExact
  <2> DEFINE Wide == wrote.field.as = "int64"
             Fits(n) == IF Wide THEN n \in MinLargestInt..MaxLargestInt
                                ELSE n \in MinInt..MaxInt
  <2>1. TypeOK /\ WroteInv
    BY <1>1 DEF Invariant, Inv
  <2> SUFFICES ASSUME wrote.kind = "number", at = "done"
               PROVE  LET n == Denotes(wrote.number)
                          loaded == AsInt(Setting(wrote.field.name))
                      IN  /\ Fits(n) => successful /\ ~Throws(wrote.field)
                                              /\ loaded = n
                          /\ ~Fits(n) /\ successful /\ ~Throws(wrote.field) =>
                                /\ Wide /\ n < MinLargestInt
                                /\ ToDouble(n) = MinLargestInt
                                /\ loaded = MinLargestInt
    BY DEF NumberIsExact
  <2>2. /\ wrote.number \in Number
        /\ wrote.field.as \in {"int", "int64", "size"}
    BY <2>1, WroteFacts
  <2>3. PICK token : token = NumberToken(wrote.number)
    OBVIOUS
  <2>4. /\ token.negative = wrote.number.negative
        /\ token.digits = wrote.number.digits
        /\ token.negative \in BOOLEAN /\ token.digits \in Seq(0..9)
    BY <2>2, <2>3 DEF NumberToken, Number
  <2>5. PICK n \in Int : n = Denotes(wrote.number) /\ n = Denotes(token)
    <3>1. Denotes(wrote.number) = Denotes(token)
      BY <2>4 DEF Denotes
    <3> QED
      BY <2>4, <3>1, DecodeFacts
  <2>6. PICK v : v = DecodeNumber(token)
    OBVIOUS
  <2>7. /\ v.type \in {"int", "uint", "real"}
        /\ v.type = "real" => /\ v.whole = ToDouble(n)
                              /\ n > MaxLargestUInt \/ n < MinLargestInt
        /\ v.type # "real" => v.int = n
    BY <2>4, <2>5, <2>6, DecodeFacts
  <2>8. \/ ~successful /\ ~Decodable(token)
        \/ successful /\ NumberRead
    <3>1. NumberInv
      BY <1>1 DEF Invariant
    <3>2. \/ ~successful /\ ~Decodable(NumberToken(wrote.number))
          \/ successful /\ NumberRead
      BY <3>1 DEF NumberInv
    <3> QED
      BY <2>3, <3>2
  <2>9. Throws(wrote.field) <=>
            ~IF Wide
             THEN ConvertibleToInt(Setting(wrote.field.name), MinLargestInt,
                                   MaxLargestInt)
             ELSE ConvertibleToInt(Setting(wrote.field.name), MinInt, MaxInt)
    BY <2>2 DEF Throws
  <2>10. /\ MinLargestInt \in Int /\ MaxLargestInt \in Int
         /\ MinInt \in Int /\ MaxInt \in Int
         /\ MinLargestInt <= MinInt /\ MaxInt <= MaxLargestInt
         /\ MaxLargestInt <= MaxLargestUInt /\ MaxLargestUInt \in Int
    BY WidthAssumption DEF MinLargestInt, MinInt, MaxLargestUInt
  <2>11. successful => Setting(wrote.field.name) = v
    BY <2>3, <2>6, <2>8 DEF NumberRead, Setting, Value
  <2>12. CASE v.type # "real"
    <3>1. Decodable(token)
      BY <2>6, <2>12 DEF Decodable
    <3>2. successful /\ Setting(wrote.field.name) = v
      BY <2>8, <2>11, <3>1
    <3>3. AsInt(v) = n
      BY <2>7, <2>12 DEF AsInt
    <3>4. \A low, high :
             ConvertibleToInt(v, low, high) <=> low <= n /\ n <= high
      BY <2>7, <2>12 DEF ConvertibleToInt, IsInt
    <3>5. ~Throws(wrote.field) <=> Fits(n)
      BY <2>9, <2>10, <3>2, <3>4
    <3> QED
      BY <2>5, <3>2, <3>3, <3>5
  <2>13. CASE v.type = "real"
    <3>1. n > MaxLargestUInt \/ n < MinLargestInt
      BY <2>7, <2>13
    <3>2. ~Fits(n)
      BY <2>10, <3>1
    <3>3. ASSUME successful, ~Throws(wrote.field)
          PROVE  /\ Wide /\ n < MinLargestInt
                 /\ ToDouble(n) = MinLargestInt
                 /\ AsInt(Setting(wrote.field.name)) = MinLargestInt
      <4>1. Setting(wrote.field.name) = v
        BY <2>11, <3>3
      <4>2. IF Wide THEN InRange(ToDouble(n), MinLargestInt, MaxLargestInt)
                    ELSE InRange(ToDouble(n), MinInt, MaxInt)
        BY <2>7, <2>9, <2>13, <3>3, <4>1 DEF ConvertibleToInt
      <4>3. Wide /\ n < MinLargestInt
        BY <3>1, <4>2, DoubleOutOfRange
      <4>4. /\ ToDouble(n) <= MinLargestInt /\ ToDouble(n) \in Int
            /\ ToDouble(MinLargestInt) = MinLargestInt
        BY <3>1, <4>3, DoubleOutOfRange, ToDoubleFacts
      <4>5. ToDouble(n) = MinLargestInt
        BY <2>10, <4>2, <4>3, <4>4 DEF InRange
      <4>6. AsInt(v) = ToDouble(n)
        BY <2>7, <2>13 DEF AsInt
      <4> QED
        BY <4>1, <4>3, <4>5, <4>6
    <3> QED
      BY <2>5, <3>2, <3>3
  <2> QED
    BY <2>12, <2>13
<1> QED
  BY <1>1, Always, PTL

\* The lists of the configuration have no character that the writer and the
\* reader of jsoncpp change: none from 0xD800 to 0xFFFF, which is read back as
\* the replacement character from 0xDFFF up, and none above 0x3FFFF.
PlainLists ==
    \A list \in LayerLists : \A i \in 1..Len(list) :
        \A k \in 1..Len(list[i]) : Plain(list[i][k])

\* The elements of an array of n topics are counted by size().
LEMMA ChildrenCounted ==
  ASSUME NEW n \in Nat, Listed(n)
  PROVE  Cardinality(Children(TopicsPath)) = n
<1>1. ASSUME NEW i \in 1..n
      PROVE  /\ Append(TopicsPath, Element(i)) \in Path
             /\ Len(Append(TopicsPath, Element(i))) = 2
             /\ Below(TopicsPath, Append(TopicsPath, Element(i)))
  <2>1. PICK q \in Path : q = Append(TopicsPath, Element(i)) /\ Len(q) = 2
    <3>1. i \in Nat
      OBVIOUS
    <3> QED
      BY <3>1, TopicsPathFacts
  <2>2. Element(i) \in Key
    BY SomeKeys
  <2>3. Front(q) = TopicsPath /\ q # <<>>
    BY <2>1, <2>2, TopicsPathFacts, PathFacts
  <2>4. Below(TopicsPath, Front(q))
    BY <2>3, TopicsPathFacts, BelowFacts
  <2>5. Below(TopicsPath, q)
    BY <2>1, <2>3, <2>4, TopicsPathFacts, BelowFacts
  <2> QED
    BY <2>1, <2>5
<1>2. Children(TopicsPath) = {Append(TopicsPath, Element(i)) : i \in 1..n}
  <2>1. DOMAIN doc = {<<>>, TopicsPath}
                        \cup {Append(TopicsPath, Element(i)) : i \in 1..n}
    BY DEF Listed
  <2>2. Len(TopicsPath) + 1 = 2 /\ Len(TopicsPath) # 2 /\ Len(<<>>) # 2
    BY TopicsPathFacts
  <2> QED
    BY <1>1, <2>1, <2>2 DEF Children
<1>3. PICK f : f = [i \in 1..n |-> Append(TopicsPath, Element(i))]
  OBVIOUS
<1>4. f \in Bijection(1..n, Children(TopicsPath))
  <2>1. \A i \in 1..n : f[i] = Append(TopicsPath, Element(i))
    BY <1>3
  <2>2. f \in [1..n -> Children(TopicsPath)]
    BY <1>2, <1>3
  <2>3. ASSUME NEW i \in 1..n, NEW j \in 1..n, f[i] = f[j] PROVE i = j
    <3>1. i \in Nat /\ j \in Nat
      OBVIOUS
    <3>2. Append(TopicsPath, Element(i)) = Append(TopicsPath, Element(j))
      BY <2>1, <2>3
    <3> QED
      BY <3>1, <3>2, TopicsPathFacts
  <2>4. \A q \in Children(TopicsPath) : \E i \in 1..n : f[i] = q
    BY <1>2, <2>1
  <2> QED
    BY <2>2, <2>3, <2>4, Zenon DEF Bijection, Injection, Surjection, IsInjective
<1> QED
  BY <1>4, FS_CountingElements, Zenon DEF ExistsBijection

\* serialize_json_value, then parseSubscribeTopics at the upstream: for any
\* configured list of such characters, a connector whose text was read to its
\* end is subscribed to the topics of the list that it may subscribe to.
THEOREM LayerCorrect ==
  ASSUME PlainLists
  PROVE  Spec => []LayerSubscribesWhatItAsked
<1>1. ASSUME Invariant PROVE LayerSubscribesWhatItAsked
  <2> SUFFICES ASSUME wrote.kind = "topics", at = "done"
               PROVE  LayerSubscribesWhatItAsked
    BY DEF LayerSubscribesWhatItAsked
  <2> DEFINE asked == {wrote.topics[i] : i \in DOMAIN wrote.topics}
             kept == {t \in asked : \A k \in DOMAIN t : Kept(t[k])}
  <2>1. wrote.topics \in Seq(Name) /\ wrote.topics # <<>>
    BY <1>1, WroteFacts DEF Invariant, Inv
  <2>2. PICK n \in Nat : n = Len(wrote.topics) /\ DOMAIN wrote.topics = 1..n
    BY <2>1
  <2>3. ASSUME NEW i \in 1..n
        PROVE  /\ Readable(wrote.topics[i])
               /\ RereadName(wrote.topics[i]) = wrote.topics[i]
               /\ IsAllown(wrote.topics[i])
               /\ \A k \in DOMAIN wrote.topics[i] : Kept(wrote.topics[i][k])
    <3>1. PICK list \in LayerLists : wrote.topics = LayerTopics(list)
      BY <1>1 DEF Invariant, Inv, WroteInv
    <3>2. list \in Seq(Name)
      BY TextAssumption
    <3>3. /\ IsAllown(wrote.topics[i])
          /\ \E j \in 1..Len(list) : wrote.topics[i] = list[j]
      BY <2>2, <3>1, <3>2, LayerTopicsFacts
    <3>4. PICK j \in 1..Len(list) : wrote.topics[i] = list[j]
      BY <3>3
    <3>5. list[j] \in Name /\ \A k \in 1..Len(list[j]) : Plain(list[j][k])
      BY <3>2 DEF PlainLists
    <3>6. Readable(list[j]) /\ RereadName(list[j]) = list[j]
      BY <3>5, RereadFacts
    <3>7. \A k \in DOMAIN list[j] : Plain(list[j][k])
      BY <3>5 DEF Name
    <3>8. \A cp : Plain(cp) => Kept(cp)
      BY DEF Plain, Kept
    <3> QED
      BY <3>3, <3>4, <3>6, <3>7, <3>8
  <2>4. successful /\ Listed(n)
    BY <1>1, <2>2, <2>3 DEF Invariant, TopicsInv, AllReadable
  <2>5. ASSUME NEW i \in 1..n
        PROVE  /\ Append(TopicsPath, Element(i)) \in DOMAIN doc
               /\ doc[Append(TopicsPath, Element(i))]
                     = StringToken(wrote.topics[i])
    BY <2>3, <2>4 DEF Listed
  <2>6. ASSUME NEW i \in 1..n
        PROVE  /\ AsName(doc[Append(TopicsPath, Element(i))]) = wrote.topics[i]
               /\ ConvertibleToString(Value(Append(TopicsPath, Element(i))))
    <3>1. PICK v : v = StringToken(wrote.topics[i])
      OBVIOUS
    <3>2. v.type = "string" /\ v.name = wrote.topics[i]
      BY <3>1, TokenTypes
    <3>3. /\ doc[Append(TopicsPath, Element(i))] = v
          /\ Value(Append(TopicsPath, Element(i))) = v
      BY <2>5, <3>1 DEF Value
    <3>4. AsName(v) = wrote.topics[i]
      BY <3>2 DEF AsName
    <3>5. ConvertibleToString(v)
      BY <3>2 DEF ConvertibleToString
    <3> QED
      BY <3>3, <3>4, <3>5
  <2>7. \A i \in 1..n : Visited(i)
    <3>1. \A i \in 1..n : \A j \in 1..i : j \in 1..n
      OBVIOUS
    <3> QED
      BY <2>6, <3>1, Zenon DEF Visited
  <2>8. HasMembers(<<>>) /\ Value(TopicsPath).type = "array"
    BY <2>4 DEF HasMembers, Value, Listed
  <2>9. Cardinality(Children(TopicsPath)) = n
    BY <2>4, ChildrenCounted
  <2>10. SubscribedTopics =
            {AsName(doc[Append(TopicsPath, Element(i))]) :
               i \in {j \in 1..n :
                        Visited(j) /\ MaySubscribe(
                            AsName(doc[Append(TopicsPath, Element(j))]))}}
    BY <2>8, <2>9 DEF SubscribedTopics
  <2>11. SubscribedTopics =
            {wrote.topics[i] :
                i \in {j \in 1..n : MaySubscribe(wrote.topics[j])}}
    BY <2>6, <2>7, <2>10
  <2>12. \A i \in 1..n : MaySubscribe(wrote.topics[i])
                            <=> IsEnabled(wrote.topics[i])
                                  /\ ~IsDisabled(wrote.topics[i])
    BY <2>3 DEF MaySubscribe
  <2>13. kept = asked
    BY <2>2, <2>3
  <2>14. SubscribedTopics = {t \in kept : IsEnabled(t) /\ ~IsDisabled(t)}
    BY <2>2, <2>11, <2>12, <2>13
  <2> QED
    BY <2>4, <2>14 DEF LayerSubscribesWhatItAsked
<1> QED
  BY <1>1, Always, PTL
=============================================================================

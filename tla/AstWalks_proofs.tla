--------------------------- MODULE AstWalks_proofs ---------------------------
(***************************************************************************)
(* Proofs about the visitors and the destructors, for every tree the       *)
(* classes of Ast allow, whatever its size.                                *)
(***************************************************************************)
EXTENDS AstWalks, SequenceTheorems, WellFoundedInduction, TLAPS

-----------------------------------------------------------------------------
(* Sequences. *)

\* A nonempty set of naturals has a least element.
LEMMA LeastElement ==
  ASSUME NEW S \in SUBSET Nat, S # {}
  PROVE  \E x \in S : \A y \in S : x <= y
<1> DEFINE R == {ss \in Nat \X Nat : ss[1] < ss[2]}
<1>1. IsWellFoundedOn(R, Nat)
  BY NatLessThanWellFounded DEF OpToRel
<1>2. PICK x \in S : \A y \in S : ~ (<<y, x>> \in R)
  <2> HIDE DEF R
  <2>1. QED
    BY <1>1, WFMin
<1>3. SUFFICES ASSUME NEW y \in S PROVE x <= y
  OBVIOUS
<1>4. x \in Nat /\ y \in Nat
  OBVIOUS
<1>5. y < x => <<y, x>> \in R
  BY <1>4
<1>6. ~ (<<y, x>> \in R)
  BY <1>2
<1> HIDE DEF R
<1>7. QED
  BY <1>4, <1>5, <1>6

\* What a sequence holds, no element twice.
Lists(l, S) == l \in Seq(S) /\ IsInjective(l) /\ ToSet(l) = S

\* A sequence is a sequence of what it holds.
LEMMA HeldBySeq ==
  ASSUME NEW S, NEW s \in Seq(S)
  PROVE  /\ s \in Seq(ToSet(s)) /\ ToSet(s) \subseteq S
         /\ \A i \in 1..Len(s) : s[i] \in ToSet(s)
         /\ \A e \in ToSet(s) : \E i \in 1..Len(s) : s[i] = e
         /\ ToSet(s) = {} <=> s = <<>>
<1>1. DOMAIN s = 1..Len(s) /\ \A i \in 1..Len(s) : s[i] \in S
  OBVIOUS
<1>2. s \in [1..Len(s) -> ToSet(s)]
  BY <1>1 DEF ToSet
<1>3. s \in Seq(ToSet(s))
  BY <1>2
<1>4. QED
  BY <1>1, <1>3 DEF ToSet

LEMMA HeadAndTail ==
  ASSUME NEW S, NEW s \in Seq(S), s # <<>>
  PROVE  /\ Head(s) \in S /\ Tail(s) \in Seq(S)
         /\ ToSet(s) = {Head(s)} \union ToSet(Tail(s))
         /\ IsInjective(s) => IsInjective(Tail(s)) /\ Head(s) \notin ToSet(Tail(s))
<1>1. /\ Head(s) \in S /\ Tail(s) \in Seq(S) /\ Len(Tail(s)) = Len(s) - 1
      /\ \A i \in 1..Len(Tail(s)) : Tail(s)[i] = s[i + 1]
  BY HeadTailProperties
<1>2. Head(s) = s[1] /\ Len(s) \in Nat /\ Len(s) > 0 /\ DOMAIN s = 1..Len(s)
      /\ DOMAIN Tail(s) = 1..Len(s) - 1
  BY <1>1
<1>3. ToSet(s) = {Head(s)} \union ToSet(Tail(s))
  <2>1. ASSUME NEW e \in ToSet(s) PROVE e \in {Head(s)} \union ToSet(Tail(s))
    <3>1. PICK i \in 1..Len(s) : e = s[i]
      BY <1>2 DEF ToSet
    <3>2. CASE i = 1
      BY <3>1, <3>2, <1>2
    <3>3. CASE i # 1
      <4>1. i - 1 \in 1..Len(Tail(s)) /\ Tail(s)[i - 1] = s[i]
        BY <1>1, <1>2, <3>3
      <4>2. QED
        BY <3>1, <4>1, <1>1, <1>2 DEF ToSet
    <3>4. QED
      BY <3>2, <3>3
  <2>2. ASSUME NEW e \in ToSet(Tail(s)) PROVE e \in ToSet(s)
    <3>1. PICK i \in 1..Len(Tail(s)) : e = s[i + 1]
      BY <1>1, <1>2 DEF ToSet
    <3>2. i + 1 \in DOMAIN s
      BY <1>1, <1>2
    <3>3. QED
      BY <3>1, <3>2 DEF ToSet
  <2>3. Head(s) \in ToSet(s)
    BY <1>2 DEF ToSet
  <2>4. QED
    BY <2>1, <2>2, <2>3
<1>4. ASSUME IsInjective(s) PROVE IsInjective(Tail(s)) /\ Head(s) \notin ToSet(Tail(s))
  <2>1. \A i, j \in 1..Len(s) : s[i] = s[j] => i = j
    BY <1>2, <1>4 DEF IsInjective
  <2>2. \A i, j \in 1..Len(s) - 1 : Tail(s)[i] = Tail(s)[j] => i = j
    <3>1. SUFFICES ASSUME NEW i \in 1..Len(s) - 1, NEW j \in 1..Len(s) - 1, Tail(s)[i] = Tail(s)[j]
                   PROVE  i = j
      OBVIOUS
    <3>2. i + 1 \in 1..Len(s) /\ j + 1 \in 1..Len(s) /\ s[i + 1] = s[j + 1]
      BY <3>1, <1>1, <1>2
    <3>3. QED
      BY <3>2, <2>1
  <2>3. ASSUME NEW i \in 1..Len(s) - 1 PROVE Tail(s)[i] # s[1]
    <3>1. i + 1 \in 1..Len(s) /\ 1 \in 1..Len(s) /\ Tail(s)[i] = s[i + 1] /\ i + 1 # 1
      BY <1>1, <1>2
    <3>2. QED
      BY <3>1, <2>1
  <2>4. QED
    BY <2>2, <2>3, <1>2 DEF IsInjective, ToSet
<1>5. QED
  BY <1>1, <1>3, <1>4

LEMMA AppendHolds ==
  ASSUME NEW S, NEW s \in Seq(S), NEW e \in S
  PROVE  /\ Append(s, e) \in Seq(S)
         /\ ToSet(Append(s, e)) = ToSet(s) \union {e}
         /\ IsInjective(s) /\ e \notin ToSet(s) => IsInjective(Append(s, e))
<1>1. /\ Append(s, e) \in Seq(S) /\ Len(Append(s, e)) = Len(s) + 1
      /\ \A i \in 1..Len(s) : Append(s, e)[i] = s[i]
      /\ Append(s, e)[Len(s) + 1] = e
  BY AppendProperties
<1>2. Len(s) \in Nat /\ DOMAIN s = 1..Len(s) /\ DOMAIN Append(s, e) = 1..Len(s) + 1
  BY <1>1
<1>3. \A i \in 1..Len(s) + 1 : i \in 1..Len(s) \/ i = Len(s) + 1
  BY <1>2
<1>4. ToSet(Append(s, e)) = ToSet(s) \union {e}
  <2>1. Len(s) + 1 \in 1..Len(s) + 1 /\ 1..Len(s) \subseteq 1..Len(s) + 1
    BY <1>2
  <2>2. QED
    BY <1>1, <1>2, <1>3, <2>1 DEF ToSet
<1>5. QED
  BY <1>1, <1>2, <1>3, <1>4 DEF ToSet, IsInjective

LEMMA ConcatHolds ==
  ASSUME NEW S, NEW s \in Seq(S), NEW t \in Seq(S)
  PROVE  /\ s \o t \in Seq(S)
         /\ ToSet(s \o t) = ToSet(s) \union ToSet(t)
         /\ IsInjective(s) /\ IsInjective(t) /\ ToSet(s) \intersect ToSet(t) = {}
            => IsInjective(s \o t)
<1> DEFINE u == s \o t
<1>1. /\ u \in Seq(S) /\ Len(u) = Len(s) + Len(t)
      /\ \A i \in 1..Len(s) + Len(t) : u[i] = IF i <= Len(s) THEN s[i] ELSE t[i - Len(s)]
  BY ConcatProperties
<1>2. /\ Len(s) \in Nat /\ Len(t) \in Nat /\ DOMAIN s = 1..Len(s) /\ DOMAIN t = 1..Len(t)
      /\ DOMAIN u = 1..Len(s) + Len(t)
  BY <1>1
<1>3. \A i \in 1..Len(s) : i \in DOMAIN u /\ u[i] = s[i]
  BY <1>1, <1>2
<1>4. \A i \in 1..Len(t) : i + Len(s) \in DOMAIN u /\ u[i + Len(s)] = t[i]
  BY <1>1, <1>2
<1>5. \A i \in DOMAIN u : \/ i \in 1..Len(s) /\ u[i] = s[i]
                          \/ i - Len(s) \in 1..Len(t) /\ u[i] = t[i - Len(s)]
  BY <1>1, <1>2
<1> HIDE DEF u
<1>6. ToSet(u) = ToSet(s) \union ToSet(t)
  BY <1>2, <1>3, <1>4, <1>5 DEF ToSet
<1>7. ASSUME IsInjective(s), IsInjective(t), ToSet(s) \intersect ToSet(t) = {}
      PROVE  IsInjective(u)
  <2>1. SUFFICES ASSUME NEW i \in DOMAIN u, NEW j \in DOMAIN u, u[i] = u[j]
                 PROVE  i = j
    BY DEF IsInjective
  <2>2. i \in Int /\ j \in Int
    BY <1>2
  <2>3. CASE i \in 1..Len(s) /\ u[i] = s[i] /\ j \in 1..Len(s) /\ u[j] = s[j]
    BY <2>1, <2>3, <1>2, <1>7 DEF IsInjective
  <2>4. CASE i - Len(s) \in 1..Len(t) /\ u[i] = t[i - Len(s)]
             /\ j - Len(s) \in 1..Len(t) /\ u[j] = t[j - Len(s)]
    <3>1. i - Len(s) = j - Len(s)
      BY <2>1, <2>4, <1>2, <1>7 DEF IsInjective
    <3>2. QED
      BY <3>1, <2>2, <1>2
  <2>5. CASE \/ /\ i \in 1..Len(s) /\ u[i] = s[i]
                /\ j - Len(s) \in 1..Len(t) /\ u[j] = t[j - Len(s)]
             \/ /\ j \in 1..Len(s) /\ u[j] = s[j]
                /\ i - Len(s) \in 1..Len(t) /\ u[i] = t[i - Len(s)]
    BY <2>1, <2>5, <1>2, <1>7 DEF ToSet
  <2>6. QED
    BY <1>5, <2>3, <2>4, <2>5
<1>8. QED
  BY <1>1, <1>6, <1>7 DEF u

\* Putting sequences one after the other: what FlattenSeq goes through.
Flattens(ss, fl, S) ==
  /\ FlattenSeq(ss) = IF ss = <<>> THEN <<>> ELSE fl[Len(ss)]
  /\ \A i \in 1..Len(ss) :
       /\ fl[i] = IF i = 1 THEN ss[1] ELSE fl[i - 1] \o ss[i]
       /\ fl[i] \in Seq(S) /\ ToSet(fl[i]) = UNION {ToSet(ss[j]) : j \in 1..i}

LEMMA FlattenSteps ==
  ASSUME NEW S, NEW ss \in Seq(Seq(S))
  PROVE  \E fl : Flattens(ss, fl, S)
<1> DEFINE n == Len(ss)
           Rec(g, k) == g = [i \in 1..k |-> IF i = 1 THEN ss[i] ELSE g[i - 1] \o ss[i]]
           flatten == CHOOSE g : Rec(g, n)
<1>1. n \in Nat /\ DOMAIN ss = 1..n /\ \A i \in 1..n : ss[i] \in Seq(S)
  OBVIOUS
<1>2. CASE n = 0
  <2>1. FlattenSeq(ss) = ss /\ ss = <<>>
    BY <1>1, <1>2 DEF FlattenSeq
  <2>2. \A fl : Flattens(ss, fl, S)
    BY <1>2, <2>1 DEF Flattens
  <2>3. QED
    BY <2>2
<1>3. CASE n # 0
  <2>1. FlattenSeq(ss) = flatten[n]
    BY <1>3 DEF FlattenSeq
  <2>2. \E g : Rec(g, n)
    <3> DEFINE Bad == {k \in Nat : ~ \E g : Rec(g, k)}
    <3>1. SUFFICES ASSUME Bad # {} PROVE FALSE
      BY <1>1
    <3>2. PICK k \in Bad : \A j \in Bad : k <= j
      <4>1. Bad \in SUBSET Nat
        OBVIOUS
      <4> HIDE DEF Bad
      <4>2. QED
        BY <3>1, <4>1, LeastElement
    <3>3. k \in Nat /\ ~ \E g : Rec(g, k)
      OBVIOUS
    <3>4. CASE k = 0
      <4> DEFINE g == [i \in 1..0 |-> <<>>]
      <4>1. g = [i \in 1..0 |-> IF i = 1 THEN ss[i] ELSE g[i - 1] \o ss[i]]
        OBVIOUS
      <4>2. QED
        BY <4>1, <3>3, <3>4
    <3>5. CASE k # 0
      <4>1. k - 1 \in Nat /\ ~ k <= k - 1
        BY <3>3, <3>5
      <4>2. PICK g : Rec(g, k - 1)
        BY <4>1, <3>2
      <4> DEFINE last == IF k = 1 THEN ss[k] ELSE g[k - 1] \o ss[k]
                 h == [i \in 1..k |-> IF i = k THEN last ELSE g[i]]
      <4>3. ASSUME NEW i \in 1..k
            PROVE  h[i] = IF i = 1 THEN ss[i] ELSE h[i - 1] \o ss[i]
        <5>1. CASE i = k /\ k # 1
          <6>1. i - 1 \in 1..k /\ i - 1 # k /\ i - 1 = k - 1
            BY <5>1, <3>3
          <6>2. h[i - 1] = g[i - 1]
            BY <6>1
          <6>3. QED
            BY <6>1, <6>2, <5>1
        <5>2. CASE i = k /\ k = 1
          BY <5>2
        <5>3. CASE i # k
          <6>1. i \in 1..k - 1 /\ h[i] = g[i]
            BY <5>3, <3>3
          <6>2. g[i] = IF i = 1 THEN ss[i] ELSE g[i - 1] \o ss[i]
            BY <4>2, <6>1, Zenon
          <6>3. CASE i = 1
            BY <6>1, <6>2, <6>3
          <6>4. CASE i # 1
            <7>1. i - 1 \in 1..k /\ i - 1 # k
              BY <6>1, <6>4, <3>3
            <7>2. QED
              BY <7>1, <6>1, <6>2, <6>4
          <6>5. QED
            BY <6>3, <6>4
        <5>4. QED
          BY <5>1, <5>2, <5>3
      <4>4. Rec(h, k)
        <5> HIDE DEF last
        <5>1. h = [i \in 1..k |-> h[i]]
          OBVIOUS
        <5> HIDE DEF h
        <5>2. QED
          BY <4>3, <5>1
      <4>5. QED
        BY <4>4, <3>3
    <3>6. QED
      BY <3>4, <3>5
  <2>3. Rec(flatten, n)
    <3>1. flatten = CHOOSE g : Rec(g, n)
      OBVIOUS
    <3> HIDE DEF Rec, flatten
    <3>2. QED
      BY <2>2, <3>1
  <2> HIDE DEF flatten
  <2>4. \A i \in 1..n : flatten[i] = IF i = 1 THEN ss[i] ELSE flatten[i - 1] \o ss[i]
    BY <2>3, Zenon
  <2> DEFINE Flat(i) == /\ flatten[i] \in Seq(S)
                        /\ ToSet(flatten[i]) = UNION {ToSet(ss[j]) : j \in 1..i}
             Bad == {i \in 1..n : ~ Flat(i)}
  <2> HIDE DEF n
  <2>5. Bad = {}
    <3>1. SUFFICES ASSUME Bad # {} PROVE FALSE
      OBVIOUS
    <3>2. PICK k \in Bad : \A j \in Bad : k <= j
      <4>1. Bad \in SUBSET Nat
        BY <1>1
      <4> HIDE DEF Bad
      <4>2. QED
        BY <3>1, <4>1, LeastElement
    <3>3. k \in 1..n /\ ~ Flat(k)
      OBVIOUS
    <3>4. CASE k = 1
      <4>1. flatten[k] = ss[1] /\ 1..k = {1} /\ ss[1] \in Seq(S)
        BY <2>4, <3>3, <3>4, <1>1
      <4>2. UNION {ToSet(ss[j]) : j \in 1..k} = ToSet(ss[1])
        BY <4>1
      <4>3. QED
        BY <4>1, <4>2, <3>3, <3>4
    <3>5. CASE k # 1
      <4>1. k - 1 \in 1..n /\ ~ k <= k - 1 /\ k \in Nat
        BY <3>3, <3>5, <1>1
      <4>2. Flat(k - 1)
        BY <4>1, <3>2
      <4>3. flatten[k] = flatten[k - 1] \o ss[k] /\ ss[k] \in Seq(S)
        BY <2>4, <3>3, <3>5, <1>1
      <4>4. 1..k = (1..k - 1) \union {k}
        BY <4>1
      <4>5. flatten[k] \in Seq(S) /\ ToSet(flatten[k]) = ToSet(flatten[k - 1]) \union ToSet(ss[k])
        BY <4>2, <4>3, ConcatHolds
      <4>6. ToSet(flatten[k]) = UNION {ToSet(ss[j]) : j \in 1..k}
        BY <4>2, <4>4, <4>5
      <4>7. QED
        BY <4>5, <4>6, <3>3
    <3>6. QED
      BY <3>4, <3>5
  <2>6. ss # <<>>
    BY <1>1, <1>3 DEF n
  <2>7. \A i \in 1..n : Flat(i)
    BY <2>5
  <2>8. \A i \in 1..n : flatten[i] = IF i = 1 THEN ss[1] ELSE flatten[i - 1] \o ss[i]
    BY <2>4
  <2>9. QED
    BY <2>1, <2>6, <2>7, <2>8 DEF Flattens, n
<1>4. QED
  BY <1>2, <1>3

\* What the sequence holds: no element twice, if no two hold the same.
LEMMA FlattenHolds ==
  ASSUME NEW S, NEW ss \in Seq(Seq(S))
  PROVE  /\ FlattenSeq(ss) \in Seq(S)
         /\ ToSet(FlattenSeq(ss)) = UNION {ToSet(ss[i]) : i \in DOMAIN ss}
         /\ /\ \A i \in DOMAIN ss : IsInjective(ss[i])
            /\ \A i, j \in DOMAIN ss : i # j => ToSet(ss[i]) \intersect ToSet(ss[j]) = {}
            => IsInjective(FlattenSeq(ss))
<1> DEFINE n == Len(ss)
<1>1. n \in Nat /\ DOMAIN ss = 1..n /\ \A i \in 1..n : ss[i] \in Seq(S)
  OBVIOUS
<1>2. PICK fl : Flattens(ss, fl, S)
  BY FlattenSteps
<1>3. CASE ss = <<>>
  <2>1. FlattenSeq(ss) = ss /\ DOMAIN ss = {}
    BY <1>2, <1>3 DEF Flattens
  <2>2. QED
    BY <2>1, <1>3 DEF ToSet, IsInjective
<1>4. CASE ss # <<>>
  <2>1. n \in 1..n /\ FlattenSeq(ss) = fl[n]
    BY <1>1, <1>2, <1>4 DEF Flattens
  <2>2. FlattenSeq(ss) \in Seq(S) /\ ToSet(FlattenSeq(ss)) = UNION {ToSet(ss[i]) : i \in DOMAIN ss}
    BY <1>1, <1>2, <2>1 DEF Flattens
  <2>3. ASSUME \A i \in 1..n : IsInjective(ss[i]),
               \A i, j \in 1..n : i # j => ToSet(ss[i]) \intersect ToSet(ss[j]) = {}
        PROVE  IsInjective(fl[n])
    <3> DEFINE Bad == {i \in 1..n : ~ IsInjective(fl[i])}
    <3> HIDE DEF n
    <3>1. SUFFICES ASSUME Bad # {} PROVE FALSE
      BY <2>1
    <3>2. PICK k \in Bad : \A j \in Bad : k <= j
      <4>1. Bad \in SUBSET Nat
        BY <1>1
      <4> HIDE DEF Bad
      <4>2. QED
        BY <3>1, <4>1, LeastElement
    <3>3. k \in 1..n /\ ~ IsInjective(fl[k])
      OBVIOUS
    <3>4. /\ fl[k] = IF k = 1 THEN ss[1] ELSE fl[k - 1] \o ss[k]
          /\ ss[k] \in Seq(S)
      BY <1>1, <1>2, <3>3 DEF Flattens, n
    <3>5. k # 1
      BY <2>3, <3>3, <3>4
    <3>6. k - 1 \in 1..n /\ ~ k <= k - 1 /\ k \in Nat
      BY <3>3, <3>5, <1>1
    <3>7. fl[k - 1] \in Seq(S) /\ ToSet(fl[k - 1]) = UNION {ToSet(ss[j]) : j \in 1..k - 1}
      BY <1>2, <3>6 DEF Flattens, n
    <3>8. IsInjective(fl[k - 1])
      BY <3>2, <3>6
    <3>9. \A j \in 1..k - 1 : j \in 1..n /\ j # k
      BY <3>3, <3>6, <1>1
    <3>10. ToSet(fl[k - 1]) \intersect ToSet(ss[k]) = {}
      BY <3>7, <3>9, <2>3, <3>3
    <3>11. IsInjective(fl[k - 1] \o ss[k])
      BY <3>4, <3>7, <3>8, <3>10, <2>3, <3>3, ConcatHolds
    <3>12. QED
      BY <3>3, <3>4, <3>5, <3>11
  <2>4. QED
    BY <2>1, <2>2, <2>3, <1>1
<1>5. QED
  BY <1>3, <1>4

\* A sequence z is in u, after o elements; the rest of u is in E.
Placed(u, z, o, E) ==
  /\ o \in Nat
  /\ \A i \in 1..Len(z) : o + i \in 1..Len(u) /\ u[o + i] = z[i]
  /\ \A p \in 1..Len(u) : p - o \in 1..Len(z) \/ u[p] \in E

LEMMA PlacedFirst == ASSUME NEW S, NEW z \in Seq(S), NEW E PROVE Placed(z, z, 0, E)
BY DEF Placed

LEMMA PlacedAfter ==
  ASSUME NEW S, NEW s \in Seq(S), NEW z \in Seq(S), NEW E, ToSet(s) \subseteq E
  PROVE  Placed(s \o z, z, Len(s), E)
<1>1. /\ s \o z \in Seq(S) /\ Len(s \o z) = Len(s) + Len(z)
      /\ \A p \in 1..Len(s) + Len(z) : (s \o z)[p] = IF p <= Len(s) THEN s[p] ELSE z[p - Len(s)]
      /\ Len(s) \in Nat /\ Len(z) \in Nat
  BY ConcatProperties
<1>2. \A p \in 1..Len(s) : s[p] \in E
  BY HeldBySeq
<1>3. \A i \in 1..Len(z) : Len(s) + i \in 1..Len(s \o z) /\ (s \o z)[Len(s) + i] = z[i]
  BY <1>1
<1>4. \A p \in 1..Len(s \o z) : p - Len(s) \in 1..Len(z) \/ (s \o z)[p] \in E
  BY <1>1, <1>2
<1>5. QED
  BY <1>1, <1>3, <1>4 DEF Placed

LEMMA PlacedBefore ==
  ASSUME NEW S, NEW s \in Seq(S), NEW t \in Seq(S), NEW z \in Seq(S), NEW o, NEW E,
         Placed(s, z, o, E), ToSet(t) \subseteq E
  PROVE  Placed(s \o t, z, o, E)
<1>1. /\ s \o t \in Seq(S) /\ Len(s \o t) = Len(s) + Len(t)
      /\ \A p \in 1..Len(s) + Len(t) : (s \o t)[p] = IF p <= Len(s) THEN s[p] ELSE t[p - Len(s)]
      /\ Len(s) \in Nat /\ Len(t) \in Nat /\ Len(z) \in Nat
  BY ConcatProperties
<1>2. \A p \in 1..Len(t) : t[p] \in E
  BY HeldBySeq
<1>3. /\ o \in Nat
      /\ \A i \in 1..Len(z) : o + i \in 1..Len(s) /\ s[o + i] = z[i]
      /\ \A p \in 1..Len(s) : p - o \in 1..Len(z) \/ s[p] \in E
  BY DEF Placed
<1>4. \A p \in 1..Len(s) : p \in 1..Len(s \o t) /\ (s \o t)[p] = s[p]
  BY <1>1
<1>5. \A p \in 1..Len(s \o t) : p \in 1..Len(s) \/ (s \o t)[p] \in E
  BY <1>1, <1>2
<1>6. QED
  BY <1>3, <1>4, <1>5 DEF Placed

\* Each of the sequences is somewhere in the whole, the rest of which is of the others.
LEMMA FlattenPlaces ==
  ASSUME NEW S, NEW ss \in Seq(Seq(S)), NEW q \in DOMAIN ss,
         NEW E, \A r \in DOMAIN ss \ {q} : ToSet(ss[r]) \subseteq E
  PROVE  \E o : Placed(FlattenSeq(ss), ss[q], o, E)
<1> DEFINE n == Len(ss)
<1>1. n \in Nat /\ DOMAIN ss = 1..n /\ \A i \in 1..n : ss[i] \in Seq(S)
  OBVIOUS
<1>2. PICK fl : Flattens(ss, fl, S)
  BY FlattenSteps
<1>3. n \in 1..n /\ q \in 1..n /\ FlattenSeq(ss) = fl[n]
  BY <1>1, <1>2 DEF Flattens
<1>4. \A k \in 1..n : /\ fl[k] = IF k = 1 THEN ss[1] ELSE fl[k - 1] \o ss[k]
                      /\ fl[k] \in Seq(S) /\ ToSet(fl[k]) = UNION {ToSet(ss[j]) : j \in 1..k}
  BY <1>2 DEF Flattens
<1> DEFINE In(k) == \E o : Placed(fl[k], ss[q], o, E)
           Bad == {k \in 1..n : q <= k /\ ~ In(k)}
<1>5. SUFFICES ASSUME Bad # {} PROVE FALSE
  <2>1. SUFFICES ASSUME ~ In(n) PROVE n \in Bad
    BY <1>3
  <2>2. QED
    BY <2>1, <1>1, <1>3
<1> HIDE DEF n
<1>6. PICK k \in Bad : \A j \in Bad : k <= j
  <2>1. Bad \in SUBSET Nat
    BY <1>1
  <2> HIDE DEF Bad
  <2>2. QED
    BY <1>5, <2>1, LeastElement
<1>7. k \in 1..n /\ q <= k /\ k \in Nat /\ q \in Nat /\ ~ In(k)
  BY <1>1, <1>3
<1>8. \A j \in 1..n : q <= j /\ j < k => In(j)
  <2>1. SUFFICES ASSUME NEW j \in 1..n, q <= j, j < k, ~ In(j) PROVE FALSE
    OBVIOUS
  <2>2. j \in Bad
    BY <2>1
  <2> HIDE DEF Bad
  <2>3. QED
    BY <2>1, <2>2, <1>1, <1>6, <1>7
<1> HIDE DEF In, Bad
<1>9. ss[q] \in Seq(S) /\ ss[k] \in Seq(S)
  BY <1>1, <1>3, <1>7
<1>10. CASE k = 1
  <2>1. q = 1 /\ fl[k] = ss[q]
    BY <1>1, <1>3, <1>4, <1>7, <1>10
  <2>2. Placed(fl[k], ss[q], 0, E)
    BY <2>1, <1>9, PlacedFirst
  <2>3. QED
    BY <2>2, <1>7 DEF In
<1>11. CASE k # 1
  <2>1. k - 1 \in 1..n
    BY <1>1, <1>7, <1>11
  <2>2. /\ fl[k] = fl[k - 1] \o ss[k] /\ fl[k - 1] \in Seq(S)
        /\ ToSet(fl[k - 1]) = UNION {ToSet(ss[j]) : j \in 1..k - 1}
    BY <1>4, <1>7, <1>11, <2>1
  <2>3. CASE q = k
    <3>1. \A j \in 1..k - 1 : j \in DOMAIN ss \ {q}
      BY <2>1, <2>3, <1>1, <1>7
    <3>2. ToSet(fl[k - 1]) \subseteq E
      BY <3>1, <2>2
    <3>3. Placed(fl[k], ss[q], Len(fl[k - 1]), E)
      BY <3>2, <2>2, <2>3, <1>9, PlacedAfter
    <3>4. QED
      BY <3>3, <1>7 DEF In
  <2>4. CASE q # k
    <3>1. PICK o : Placed(fl[k - 1], ss[q], o, E)
      <4>1. q <= k - 1 /\ k - 1 < k
        BY <1>7, <2>4
      <4>2. QED
        BY <4>1, <2>1, <1>8 DEF In
    <3>2. k \in DOMAIN ss \ {q}
      BY <1>1, <1>7, <2>4
    <3>3. Placed(fl[k], ss[q], o, E)
      BY <3>1, <3>2, <2>2, <1>9, PlacedBefore
    <3>4. QED
      BY <3>3, <1>7 DEF In
  <2>5. QED
    BY <2>3, <2>4
<1>12. QED
  BY <1>10, <1>11

-----------------------------------------------------------------------------
(* What a class has in the tables of Ast and of the visitors: its members, *)
(* all of them, once.                                                      *)

Names(k) == {Members(k)[i].name : i \in DOMAIN Members(k)}

\* The members that a destructor should delete, and does not.
Forgotten(k) == IF k = "ObjectExp" THEN {"type_name"}
                ELSE IF k = "ClassTy" THEN {"super"} ELSE {}

\* Members of different names; those that are not lists have a port.
Ported(mem, P) == mem.min \in {0, 1} /\ (mem.many \/ mem.name \in P)

Known(ms, P) ==
  /\ ms \in Seq(ToSet(ms))
  /\ \A i, j \in DOMAIN ms : ms[i].name = ms[j].name => i = j
  /\ \A i \in DOMAIN ms : Ported(ms[i], P)

PortsIn(k) == IF k \in Chunks THEN {} ELSE DotOf(k).ports

Row(k) ==
  /\ Lists(Deleted[k], Names(k) \ Forgotten(k))
  /\ k \notin ObjectClasses => Lists(Visits(k), Names(k))
  /\ Lists(Clones(k), Names(k))
  /\ Lists(DotOf(k).members, Names(k))
  /\ Known(Members(k), PortsIn(k))

LEMMA None == Lists(<<>>, {})
BY DEF Lists, IsInjective, ToSet

LEMMA Single == ASSUME NEW a PROVE Lists(<<a>>, {a})
BY DEF Lists, IsInjective, ToSet

LEMMA Pair == ASSUME NEW a, NEW b, a # b PROVE Lists(<<a, b>>, {a, b})
BY DEF Lists, IsInjective, ToSet

LEMMA Triple ==
  ASSUME NEW a, NEW b, NEW c, a # b, b # c, c # a
  PROVE  Lists(<<a, b, c>>, {a, b, c})
BY DEF Lists, IsInjective, ToSet

LEMMA NoneKnown == ASSUME NEW P PROVE Known(<<>>, P)
BY DEF Known

LEMMA SingleKnown ==
  ASSUME NEW P, NEW a, Ported(a, P)
  PROVE  Known(<<a>>, P)
<1>1. ToSet(<<a>>) = {a}
  BY DEF ToSet
<1>2. QED
  BY <1>1 DEF Known

LEMMA PairKnown ==
  ASSUME NEW P, NEW a, NEW b, a.name # b.name,
         Ported(a, P), Ported(b, P)
  PROVE  Known(<<a, b>>, P)
<1>1. ToSet(<<a, b>>) = {a, b}
  BY DEF ToSet
<1>2. QED
  BY <1>1 DEF Known

LEMMA TripleKnown ==
  ASSUME NEW P, NEW a, NEW b, NEW c, a.name # b.name, b.name # c.name, c.name # a.name,
         Ported(a, P), Ported(b, P), Ported(c, P)
  PROVE  Known(<<a, b, c>>, P)
<1>1. ToSet(<<a, b, c>>) = {a, b, c}
  BY DEF ToSet
<1>2. QED
  BY <1>1 DEF Known

\* Leaves.
LEMMA RowsOfNoMember ==
  \A k \in {"SimpleVar", "BreakExp", "IntExp", "NilExp", "StringExp", "NameTy"} :
          Row(k)
<1> USE DEF Ported, Members, Class, One, Opt, Many, Deleted, ObjectClasses, Visits, VisitsToArray,
            VisitsFromCast, Clones, ClonesAtoI, ClonesLtoW, DotOf, Chunks, dump_chunk,
            DotAtoF, DotItoR, DotStoW, Dot, PortsIn
<1>1. Row("SimpleVar")
  <2>1. Names("SimpleVar") = {}
    BY DEF Names, SimpleVar
  <2>2. QED
    BY <2>1, None, NoneKnown DEF Row, Forgotten, SimpleVar, SimpleVar_dtor
<1>2. Row("BreakExp")
  <2>1. Names("BreakExp") = {}
    BY DEF Names, BreakExp
  <2>2. QED
    BY <2>1, None, NoneKnown DEF Row, Forgotten, BreakExp, BreakExp_dtor
<1>3. Row("IntExp")
  <2>1. Names("IntExp") = {}
    BY DEF Names, IntExp
  <2>2. QED
    BY <2>1, None, NoneKnown DEF Row, Forgotten, IntExp, IntExp_dtor
<1>4. Row("NilExp")
  <2>1. Names("NilExp") = {}
    BY DEF Names, NilExp
  <2>2. QED
    BY <2>1, None, NoneKnown DEF Row, Forgotten, NilExp, NilExp_dtor
<1>5. Row("StringExp")
  <2>1. Names("StringExp") = {}
    BY DEF Names, StringExp
  <2>2. QED
    BY <2>1, None, NoneKnown DEF Row, Forgotten, StringExp, StringExp_dtor
<1>6. Row("NameTy")
  <2>1. Names("NameTy") = {}
    BY DEF Names, NameTy
  <2>2. QED
    BY <2>1, None, NoneKnown DEF Row, Forgotten, NameTy, NameTy_dtor
<1>7. QED
  BY <1>1, <1>2, <1>3, <1>4, <1>5, <1>6

\* Classes of one member.
LEMMA RowsOfOneMember ==
  \A k \in {"FieldVar", "CallExp", "ObjectExp", "SeqExp", "ArrayTy", "RecordTy",
          "Field", "FieldInit", "TypeDec", "ChunkList", "VarChunk", "FunctionChunk",
          "TypeChunk", "MethodChunk"} : Row(k)
<1> USE DEF Ported, Members, Class, One, Opt, Many, Deleted, ObjectClasses, Visits, VisitsToArray,
            VisitsFromCast, Clones, ClonesAtoI, ClonesLtoW, DotOf, Chunks, dump_chunk,
            DotAtoF, DotItoR, DotStoW, Dot, PortsIn
<1>1. Row("FieldVar")
  BY Single, SingleKnown DEF Row, Names, Forgotten, FieldVar, FieldVar_dtor
<1>2. Row("CallExp")
  BY Single, SingleKnown DEF Row, Names, Forgotten, CallExp, CallExp_dtor
<1>3. Row("ObjectExp")
  <2>1. Names("ObjectExp") = {"type_name"}
    BY DEF Names, ObjectExp
  <2>2. Names("ObjectExp") \ Forgotten("ObjectExp") = {}
    BY <2>1 DEF Forgotten
  <2>3. Lists(Deleted["ObjectExp"], Names("ObjectExp") \ Forgotten("ObjectExp"))
    BY <2>2, None DEF ObjectExp_dtor
  <2>4. Lists(Clones("ObjectExp"), {"type_name"})
    BY Single
  <2>5. Lists(DotOf("ObjectExp").members, {"type_name"})
    BY Single
  <2>6. Known(Members("ObjectExp"), PortsIn("ObjectExp"))
    BY SingleKnown DEF ObjectExp
  <2>7. "ObjectExp" \in ObjectClasses
    OBVIOUS
  <2>8. QED
    BY ONLY <2>1, <2>3, <2>4, <2>5, <2>6, <2>7 DEF Row
<1>4. Row("SeqExp")
  BY Single, SingleKnown DEF Row, Names, Forgotten, SeqExp, SeqExp_dtor
<1>5. Row("ArrayTy")
  BY Single, SingleKnown DEF Row, Names, Forgotten, ArrayTy, ArrayTy_dtor
<1>6. Row("RecordTy")
  BY Single, SingleKnown DEF Row, Names, Forgotten, RecordTy, RecordTy_dtor
<1>7. Row("Field")
  BY Single, SingleKnown DEF Row, Names, Forgotten, Field, Field_dtor
<1>8. Row("FieldInit")
  BY Single, SingleKnown DEF Row, Names, Forgotten, FieldInit, FieldInit_dtor
<1>9. Row("TypeDec")
  BY Single, SingleKnown DEF Row, Names, Forgotten, TypeDec, TypeDec_dtor
<1>10. Row("ChunkList")
  BY Single, SingleKnown DEF Row, Names, Forgotten, ChunkList, ChunkList_dtor
<1>11. Row("VarChunk")
  BY Single, SingleKnown DEF Row, Names, Forgotten, Chunk, Chunk_dtor
<1>12. Row("FunctionChunk")
  BY Single, SingleKnown DEF Row, Names, Forgotten, Chunk, Chunk_dtor
<1>13. Row("TypeChunk")
  BY Single, SingleKnown DEF Row, Names, Forgotten, Chunk, Chunk_dtor
<1>14. Row("MethodChunk")
  BY Single, SingleKnown DEF Row, Names, Forgotten, Chunk, Chunk_dtor
<1>15. QED
  BY <1>1, <1>2, <1>3, <1>4, <1>5, <1>6, <1>7, <1>8, <1>9, <1>10, <1>11, <1>12, <1>13,
     <1>14

\* Classes of two members.
LEMMA RowsOfTwoMembers ==
  \A k \in {"SubscriptVar", "AssignExp", "CastExp", "LetExp", "MethodCallExp",
          "OpExp", "RecordExp", "WhileExp", "ClassTy", "VarDec"} : Row(k)
<1> USE DEF Ported, Members, Class, One, Opt, Many, Deleted, ObjectClasses, Visits, VisitsToArray,
            VisitsFromCast, Clones, ClonesAtoI, ClonesLtoW, DotOf, Chunks, dump_chunk,
            DotAtoF, DotItoR, DotStoW, Dot, PortsIn
<1>1. Row("SubscriptVar")
  BY Pair, PairKnown DEF Row, Names, Forgotten, SubscriptVar, SubscriptVar_dtor
<1>2. Row("AssignExp")
  BY Pair, PairKnown DEF Row, Names, Forgotten, AssignExp, AssignExp_dtor
<1>3. Row("CastExp")
  BY Pair, PairKnown DEF Row, Names, Forgotten, CastExp, CastExp_dtor
<1>4. Row("LetExp")
  BY Pair, PairKnown DEF Row, Names, Forgotten, LetExp, LetExp_dtor
<1>5. Row("MethodCallExp")
  BY Pair, PairKnown DEF Row, Names, Forgotten, MethodCallExp, MethodCallExp_dtor
<1>6. Row("OpExp")
  BY Pair, PairKnown DEF Row, Names, Forgotten, OpExp, OpExp_dtor
<1>7. Row("RecordExp")
  BY Pair, PairKnown DEF Row, Names, Forgotten, RecordExp, RecordExp_dtor
<1>8. Row("WhileExp")
  BY Pair, PairKnown DEF Row, Names, Forgotten, WhileExp, WhileExp_dtor
<1>9. Row("ClassTy")
  <2>1. Names("ClassTy") = {"super", "chunks"}
    BY DEF Names, ClassTy
  <2>2. Names("ClassTy") \ Forgotten("ClassTy") = {"chunks"}
    BY <2>1 DEF Forgotten
  <2>3. QED
    BY <2>1, <2>2, Single, Pair, PairKnown DEF Row, ClassTy, ClassTy_dtor
<1>10. Row("VarDec")
  BY Pair, PairKnown DEF Row, Names, Forgotten, VarDec, VarDec_dtor
<1>11. QED
  BY <1>1, <1>2, <1>3, <1>4, <1>5, <1>6, <1>7, <1>8, <1>9, <1>10

\* Classes of three members.
LEMMA RowsOfThreeMembers ==
  \A k \in {"ArrayExp", "ForExp", "IfExp", "FunctionDec", "MethodDec"} : Row(k)
<1> USE DEF Ported, Members, Class, One, Opt, Many, Deleted, ObjectClasses, Visits, VisitsToArray,
            VisitsFromCast, Clones, ClonesAtoI, ClonesLtoW, DotOf, Chunks, dump_chunk,
            DotAtoF, DotItoR, DotStoW, Dot, PortsIn
<1>1. Row("ArrayExp")
  BY Triple, TripleKnown DEF Row, Names, Forgotten, ArrayExp, ArrayExp_dtor
<1>2. Row("ForExp")
  BY Triple, TripleKnown DEF Row, Names, Forgotten, ForExp, ForExp_dtor
<1>3. Row("IfExp")
  BY Triple, TripleKnown DEF Row, Names, Forgotten, IfExp, IfExp_dtor
<1>4. Row("FunctionDec")
  BY Triple, TripleKnown DEF Row, Names, Forgotten, FunctionDec, FunctionDec_dtor
<1>5. Row("MethodDec")
  BY Triple, TripleKnown DEF Row, Names, Forgotten, MethodDec, MethodDec_dtor
<1>6. QED
  BY <1>1, <1>2, <1>3, <1>4, <1>5

\* Every class has a row in every table.
LEMMA EveryRow == ASSUME NEW k \in DOMAIN Class PROVE Row(k)
<1>1. DOMAIN Class = {"SimpleVar", "FieldVar", "SubscriptVar", "ArrayExp", "AssignExp",
                      "BreakExp", "CallExp", "CastExp", "ForExp",
                      "IfExp", "IntExp", "LetExp", "MethodCallExp",
                      "NilExp", "ObjectExp", "OpExp", "RecordExp",
                      "SeqExp", "StringExp", "WhileExp", "NameTy",
                      "ArrayTy", "RecordTy", "ClassTy", "Field",
                      "FieldInit", "FunctionDec", "MethodDec",
                      "TypeDec", "VarDec", "ChunkList", "VarChunk",
                      "FunctionChunk", "TypeChunk", "MethodChunk"}
  BY DEF Class
<1>2. QED
  BY <1>1, RowsOfNoMember, RowsOfOneMember, RowsOfTwoMembers, RowsOfThreeMembers

-----------------------------------------------------------------------------
(* Nodes, and what they hold. *)

Node == UNION {[k : {c}, m : [Names(c) -> Seq(Nat)]] : c \in DOMAIN Class}

Hold(nd) == UNION {ToSet(nd.m[x]) : x \in DOMAIN nd.m}

\* No node is held twice.
Simple(nd) ==
  /\ \A x \in DOMAIN nd.m : IsInjective(nd.m[x])
  /\ \A x, y \in DOMAIN nd.m : x # y => ToSet(nd.m[x]) \intersect ToSet(nd.m[y]) = {}

LEMMA NodeHas ==
  ASSUME NEW nd \in Node
  PROVE  /\ nd.k \in DOMAIN Class /\ nd.m \in [Names(nd.k) -> Seq(Nat)]
         /\ DOMAIN nd.m = Names(nd.k) /\ Hold(nd) \subseteq Nat
         /\ \A x \in Names(nd.k) : nd.m[x] \in Seq(Nat) /\ ToSet(nd.m[x]) \subseteq Hold(nd)
<1>1. PICK c \in DOMAIN Class : nd \in [k : {c}, m : [Names(c) -> Seq(Nat)]]
  BY DEF Node
<1>2. nd.k = c /\ nd.m \in [Names(c) -> Seq(Nat)]
  BY <1>1
<1>3. \A x \in Names(c) : nd.m[x] \in Seq(Nat) /\ ToSet(nd.m[x]) \subseteq Nat
  BY <1>2, HeldBySeq
<1>4. QED
  BY <1>2, <1>3 DEF Hold

LEMMA IsNode ==
  ASSUME NEW c \in DOMAIN Class, NEW f \in [Names(c) -> Seq(Nat)]
  PROVE  [k |-> c, m |-> f] \in Node
<1>1. [k |-> c, m |-> f] \in [k : {c}, m : [Names(c) -> Seq(Nat)]]
  OBVIOUS
<1>2. QED
  BY <1>1 DEF Node

LEMMA BlankNode ==
  ASSUME NEW c \in DOMAIN Class
  PROVE  /\ Blank(c) \in Node /\ Blank(c).k = c /\ Simple(Blank(c)) /\ Hold(Blank(c)) = {}
         /\ Blank(c).m \in [Names(c) -> Seq(Nat)]
         /\ \A x \in Names(c) : Blank(c).m[x] = <<>>
<1>1. Blank(c) = [k |-> c, m |-> [x \in Names(c) |-> <<>>]]
  BY DEF Blank, Names
<1>2. [x \in Names(c) |-> <<>>] \in [Names(c) -> Seq(Nat)]
  OBVIOUS
<1>3. Blank(c) \in Node
  BY <1>1, <1>2, IsNode
<1>4. ToSet(<<>>) = {} /\ IsInjective(<<>>)
  BY DEF ToSet, IsInjective
<1>5. QED
  BY <1>1, <1>2, <1>3, <1>4 DEF Simple, Hold

\* A member given one more node, or its nodes at once.
WithMember(nd, x, s) == [nd EXCEPT !.m[x] = s]

LEMMA NodeGiven ==
  ASSUME NEW nd \in Node, NEW x \in Names(nd.k), NEW s \in Seq(Nat)
  PROVE  /\ WithMember(nd, x, s) \in Node /\ WithMember(nd, x, s).k = nd.k /\ WithMember(nd, x, s).m[x] = s
         /\ \A y \in Names(nd.k) : y # x => WithMember(nd, x, s).m[y] = nd.m[y]
         /\ Hold(WithMember(nd, x, s)) \subseteq Hold(nd) \union ToSet(s)
         /\ ToSet(nd.m[x]) \subseteq ToSet(s) => Hold(WithMember(nd, x, s)) = Hold(nd) \union ToSet(s)
         /\ /\ Simple(nd) /\ IsInjective(s)
            /\ ToSet(s) \intersect Hold(nd) \subseteq ToSet(nd.m[x])
            => Simple(WithMember(nd, x, s))
<1> DEFINE md == WithMember(nd, x, s)
<1>1. nd.k \in DOMAIN Class /\ nd.m \in [Names(nd.k) -> Seq(Nat)]
  BY NodeHas
<1>2. [nd.m EXCEPT ![x] = s] \in [Names(nd.k) -> Seq(Nat)]
  BY <1>1
<1>9. md = [k |-> nd.k, m |-> [nd.m EXCEPT ![x] = s]]
  <2>1. PICK c \in DOMAIN Class : nd \in [k : {c}, m : [Names(c) -> Seq(Nat)]]
    BY DEF Node
  <2>2. nd = [k |-> nd.k, m |-> nd.m]
    BY <2>1
  <2>3. QED
    BY <2>2 DEF WithMember
<1>3. md \in Node /\ md.k = nd.k /\ md.m[x] = s /\ DOMAIN md.m = Names(nd.k)
      /\ \A y \in Names(nd.k) : y # x => md.m[y] = nd.m[y]
  <2>1. md \in Node
    BY <1>1, <1>2, <1>9, IsNode
  <2>2. QED
    BY <2>1, <1>1, <1>9
<1> HIDE DEF md
<1>4. Hold(md) \subseteq Hold(nd) \union ToSet(s)
  BY <1>1, <1>3 DEF Hold
<1>5. ASSUME ToSet(nd.m[x]) \subseteq ToSet(s)
      PROVE  Hold(nd) \union ToSet(s) \subseteq Hold(md)
  <2>1. ToSet(s) \subseteq Hold(md)
    BY <1>3 DEF Hold
  <2>2. ASSUME NEW e \in Hold(nd) PROVE e \in Hold(md)
    <3>1. PICK y \in Names(nd.k) : e \in ToSet(nd.m[y])
      BY <1>1 DEF Hold
    <3>2. CASE y = x
      BY <3>1, <3>2, <1>5, <2>1
    <3>3. CASE y # x
      <4>1. e \in ToSet(md.m[y]) /\ y \in DOMAIN md.m
        BY <3>1, <3>3, <1>3
      <4>2. QED
        BY <4>1 DEF Hold
    <3>4. QED
      BY <3>2, <3>3
  <2>3. QED
    BY <2>1, <2>2
<1>6. ASSUME Simple(nd), IsInjective(s), ToSet(s) \intersect Hold(nd) \subseteq ToSet(nd.m[x])
      PROVE  Simple(md)
  <2>1. \A y \in Names(nd.k) : ToSet(nd.m[y]) \subseteq Hold(nd)
    BY NodeHas
  <2>2. \A y, z \in Names(nd.k) : y # z => ToSet(nd.m[y]) \intersect ToSet(nd.m[z]) = {}
    BY <1>1, <1>6 DEF Simple
  <2>3. \A y \in Names(nd.k) : IsInjective(md.m[y])
    BY <1>1, <1>3, <1>6 DEF Simple
  <2>4. \A y \in Names(nd.k) : y # x => ToSet(s) \intersect ToSet(nd.m[y]) = {}
    BY <2>1, <2>2, <1>6
  <2>5. ASSUME NEW y \in Names(nd.k), NEW z \in Names(nd.k), y # z
        PROVE  ToSet(md.m[y]) \intersect ToSet(md.m[z]) = {}
    <3>1. CASE y = x
      BY <3>1, <2>4, <2>5, <1>3
    <3>2. CASE z = x
      BY <3>2, <2>4, <2>5, <1>3
    <3>3. CASE y # x /\ z # x
      BY <3>3, <2>2, <2>5, <1>3
    <3>4. QED
      BY <3>1, <3>2, <3>3
  <2>6. DOMAIN md.m = Names(nd.k)
    BY <1>3
  <2>7. QED
    BY ONLY <2>3, <2>5, <2>6 DEF Simple
<1>7. QED
  BY <1>3, <1>4, <1>5, <1>6 DEF md

\* What the members of a list come to.
LEMMA Gathered ==
  ASSUME NEW nd \in Node, NEW l, NEW S, Lists(l, S), S \subseteq Names(nd.k),
         NEW g, g = FlattenSeq([i \in DOMAIN l |-> nd.m[l[i]]])
  PROVE  /\ g \in Seq(Nat) /\ ToSet(g) = UNION {ToSet(nd.m[x]) : x \in S}
         /\ ToSet(g) \subseteq Hold(nd)
         /\ S = Names(nd.k) => ToSet(g) = Hold(nd)
         /\ Simple(nd) => IsInjective(g)
<1> DEFINE ss == [i \in DOMAIN l |-> nd.m[l[i]]]
<1>1. l \in Seq(S) /\ ToSet(l) = S /\ IsInjective(l)
  BY DEF Lists
<1>2. DOMAIN l = 1..Len(l) /\ Len(l) \in Nat /\ \A i \in 1..Len(l) : l[i] \in S
  BY <1>1
<1>3. \A x \in Names(nd.k) : nd.m[x] \in Seq(Nat) /\ ToSet(nd.m[x]) \subseteq Hold(nd)
  BY NodeHas
<1>4. ss \in Seq(Seq(Nat)) /\ DOMAIN ss = DOMAIN l
  <2>1. \A i \in 1..Len(l) : nd.m[l[i]] \in Seq(Nat)
    BY <1>2, <1>3
  <2>2. QED
    BY <2>1, <1>2
<1>5. \A i \in DOMAIN l : ss[i] = nd.m[l[i]]
  OBVIOUS
<1>6. g = FlattenSeq(ss)
  OBVIOUS
<1> HIDE DEF ss
<1>7. g \in Seq(Nat) /\ ToSet(g) = UNION {ToSet(ss[i]) : i \in DOMAIN ss}
  BY <1>4, <1>6, FlattenHolds
<1>8. ToSet(g) = UNION {ToSet(nd.m[x]) : x \in S}
  <2>1. \A i \in DOMAIN l : l[i] \in S
    BY <1>2
  <2>2. \A x \in S : \E i \in DOMAIN l : l[i] = x
    BY <1>1 DEF ToSet
  <2>3. UNION {ToSet(ss[i]) : i \in DOMAIN ss} = UNION {ToSet(nd.m[l[i]]) : i \in DOMAIN l}
    BY <1>4, <1>5
  <2>4. UNION {ToSet(nd.m[l[i]]) : i \in DOMAIN l} = UNION {ToSet(nd.m[x]) : x \in S}
    BY <2>1, <2>2
  <2>5. QED
    BY <2>3, <2>4, <1>7
<1>9. ASSUME Simple(nd) PROVE IsInjective(g)
  <2>1. DOMAIN nd.m = Names(nd.k)
    BY NodeHas
  <2>2. \A i \in DOMAIN ss : IsInjective(ss[i])
    BY <1>2, <1>4, <1>5, <1>9, <2>1 DEF Simple
  <2>3. \A i, j \in DOMAIN l : i # j => l[i] # l[j]
    BY <1>1 DEF IsInjective
  <2>4. \A i, j \in DOMAIN ss : i # j => ToSet(ss[i]) \intersect ToSet(ss[j]) = {}
    <3>1. \A x, y \in Names(nd.k) : x # y => ToSet(nd.m[x]) \intersect ToSet(nd.m[y]) = {}
      BY <1>9, <2>1 DEF Simple
    <3>2. \A i \in DOMAIN l : l[i] \in Names(nd.k)
      BY <1>2
    <3>3. ASSUME NEW i \in DOMAIN ss, NEW j \in DOMAIN ss, i # j
          PROVE  ToSet(ss[i]) \intersect ToSet(ss[j]) = {}
      <4>1. l[i] \in Names(nd.k) /\ l[j] \in Names(nd.k) /\ l[i] # l[j]
        BY <3>2, <3>3, <1>4, <2>3
      <4>2. ss[i] = nd.m[l[i]] /\ ss[j] = nd.m[l[j]]
        BY <1>4, <1>5
      <4>3. QED
        BY <4>1, <4>2, <3>1
    <3>4. QED
      BY <3>3
  <2>5. QED
    BY <1>4, <1>6, <2>2, <2>4, FlattenHolds
<1>10. DOMAIN nd.m = Names(nd.k)
  BY NodeHas
<1>11. QED
  BY <1>3, <1>7, <1>8, <1>9, <1>10 DEF Hold

\* The children of a node are what it holds.
LEMMA ChildrenHeld ==
  ASSUME NEW n, heap[n] \in Node
  PROVE  ToSet(Children(n)) = Hold(heap[n])
<1> DEFINE ms == Members(heap[n].k)
           ss == [i \in DOMAIN ms |-> heap[n].m[ms[i].name]]
<1>1. heap[n].k \in DOMAIN Class /\ DOMAIN heap[n].m = Names(heap[n].k)
      /\ \A x \in Names(heap[n].k) : heap[n].m[x] \in Seq(Nat)
  BY NodeHas
<1>2. ms \in Seq(ToSet(ms))
  BY <1>1, EveryRow DEF Row, Known
<1>3. DOMAIN ms = 1..Len(ms) /\ Len(ms) \in Nat
  BY <1>2
<1>4. Names(heap[n].k) = {ms[i].name : i \in DOMAIN ms}
  BY DEF Names
<1>5. ss \in Seq(Seq(Nat)) /\ DOMAIN ss = DOMAIN ms /\ \A i \in DOMAIN ms : ss[i] = heap[n].m[ms[i].name]
  <2>1. \A i \in 1..Len(ms) : heap[n].m[ms[i].name] \in Seq(Nat)
    BY <1>1, <1>3, <1>4
  <2>2. QED
    BY <2>1, <1>3
<1>6. Children(n) = FlattenSeq(ss)
  BY DEF Children
<1> HIDE DEF ss, ms
<1>7. ToSet(Children(n)) = UNION {ToSet(ss[i]) : i \in DOMAIN ss}
  BY <1>5, <1>6, FlattenHolds
<1>8. UNION {ToSet(ss[i]) : i \in DOMAIN ss} = UNION {ToSet(heap[n].m[ms[i].name]) : i \in DOMAIN ms}
  BY <1>5
<1>9. UNION {ToSet(heap[n].m[ms[i].name]) : i \in DOMAIN ms}
        = UNION {ToSet(heap[n].m[x]) : x \in Names(heap[n].k)}
  BY <1>4
<1>10. QED
  BY <1>1, <1>7, <1>8, <1>9 DEF Hold

-----------------------------------------------------------------------------
(* The heap. *)

\* No node has two owners, and the root has none.
Owned(h) ==
  /\ h \in Seq(Node) /\ h # <<>>
  /\ \A n \in DOMAIN h : Simple(h[n]) /\ Hold(h[n]) \subseteq DOMAIN h \ {Root}
  /\ \A n, m \in DOMAIN h : n # m => Hold(h[n]) \intersect Hold(h[m]) = {}

\* The first N nodes are a tree, written from its root on.
Tree(h, N) ==
  /\ N \in DOMAIN h
  /\ \A n \in 1..N : Hold(h[n]) \subseteq n + 1..N
  /\ \A c \in 2..N : \E n \in 1..N : c \in Hold(h[n])

\* Members that are not lists are one node at most.
Arity(h) ==
  \A n \in DOMAIN h : \A mem \in ToSet(Members(h[n].k)) :
    mem.many \/ Len(h[n].m[mem.name]) <= 1

LEMMA HeapAppend ==
  ASSUME NEW h, Owned(h), NEW nd \in Node, Simple(nd),
         Hold(nd) \subseteq DOMAIN h \ {Root},
         \A n \in DOMAIN h : Hold(h[n]) \intersect Hold(nd) = {}
  PROVE  /\ Owned(Append(h, nd)) /\ Len(Append(h, nd)) = Len(h) + 1
         /\ DOMAIN h = 1..Len(h) /\ Len(h) \in Nat \ {0}
         /\ DOMAIN Append(h, nd) = 1..Len(h) + 1
         /\ Append(h, nd)[Len(h) + 1] = nd
         /\ \A n \in DOMAIN h : Append(h, nd)[n] = h[n]
<1> DEFINE g == Append(h, nd)
<1>1. h \in Seq(Node) /\ h # <<>>
  BY DEF Owned
<1>2. /\ g \in Seq(Node) /\ Len(g) = Len(h) + 1 /\ g # <<>>
      /\ \A n \in 1..Len(h) : g[n] = h[n]
      /\ g[Len(h) + 1] = nd
  BY <1>1, AppendProperties
<1>3. /\ DOMAIN h = 1..Len(h) /\ Len(h) \in Nat \ {0} /\ DOMAIN g = 1..Len(h) + 1
      /\ \A n \in 1..Len(h) + 1 : n \in 1..Len(h) \/ n = Len(h) + 1
      /\ 1..Len(h) \subseteq 1..Len(h) + 1
  BY <1>1, <1>2
<1> HIDE DEF g
<1>4. \A n \in DOMAIN g : Simple(g[n]) /\ Hold(g[n]) \subseteq DOMAIN g \ {Root}
  <2>1. \A n \in 1..Len(h) : Simple(h[n]) /\ Hold(h[n]) \subseteq DOMAIN h \ {Root}
    BY <1>3 DEF Owned
  <2>2. DOMAIN h \ {Root} \subseteq DOMAIN g \ {Root}
    BY <1>3
  <2>3. QED
    BY <2>1, <2>2, <1>2, <1>3
<1>5. ASSUME NEW n \in DOMAIN g, NEW m \in DOMAIN g, n # m
      PROVE  Hold(g[n]) \intersect Hold(g[m]) = {}
  <2>1. \A i, j \in 1..Len(h) : i # j => Hold(h[i]) \intersect Hold(h[j]) = {}
    BY <1>3 DEF Owned
  <2>2. CASE n \in 1..Len(h) /\ m \in 1..Len(h)
    BY <2>1, <2>2, <1>2, <1>5
  <2>3. CASE n = Len(h) + 1 /\ m \in 1..Len(h)
    BY <2>3, <1>2, <1>3
  <2>4. CASE m = Len(h) + 1 /\ n \in 1..Len(h)
    BY <2>4, <1>2, <1>3
  <2>5. QED
    BY <2>2, <2>3, <2>4, <1>3, <1>5
<1>6. Owned(g)
  BY <1>2, <1>4, <1>5 DEF Owned
<1>7. QED
  BY <1>2, <1>3, <1>6 DEF g

\* A node of the tree is in one place in it.
LEMMA TheOwner ==
  ASSUME NEW h, Owned(h), NEW n \in DOMAIN h, NEW m \in DOMAIN h, NEW c,
         c \in Hold(h[n]), c \in Hold(h[m])
  PROVE  n = m
BY DEF Owned

-----------------------------------------------------------------------------
(* Building. *)

\* A member of a node of the heap.
Slot(h) == UNION {{n} \X ToSet(Members(h[n].k)) : n \in DOMAIN h}

\* The members yet to be given are all different, and empty.
Owing(h, t) ==
  /\ t \in Seq(Slot(h)) /\ IsInjective(t)
  /\ \A sl \in ToSet(t) : h[sl[1]].m[sl[2].name] = <<>>

LEMMA SlotHas ==
  ASSUME NEW h, h \in Seq(Node), NEW sl \in Slot(h)
  PROVE  /\ sl = <<sl[1], sl[2]>> /\ sl[1] \in DOMAIN h
         /\ h[sl[1]] \in Node
         /\ sl[2] \in ToSet(Members(h[sl[1]].k)) /\ sl[2].name \in Names(h[sl[1]].k)
<1>1. PICK n \in DOMAIN h : sl \in {n} \X ToSet(Members(h[n].k))
  BY DEF Slot
<1>2. sl = <<sl[1], sl[2]>> /\ sl[1] = n /\ sl[2] \in ToSet(Members(h[n].k))
  BY <1>1
<1>3. h[n] \in Node
  OBVIOUS
<1>4. sl[2].name \in Names(h[n].k)
  BY <1>2 DEF Names, ToSet
<1>5. QED
  BY <1>2, <1>3, <1>4

\* Members of one name are one member.
LEMMA MembersByName ==
  ASSUME NEW k \in DOMAIN Class, NEW a \in ToSet(Members(k)), NEW b \in ToSet(Members(k)),
         a.name = b.name
  PROVE  a = b
<1>1. Known(Members(k), PortsIn(k))
  BY EveryRow DEF Row
<1>2. QED
  BY <1>1 DEF Known, ToSet

LEMMA SlotsOf ==
  ASSUME NEW k \in DOMAIN Class, NEW n
  PROVE  /\ Slots(n, k) \in Seq({n} \X ToSet(Members(k)))
         /\ IsInjective(Slots(n, k))
         /\ ToSet(Slots(n, k)) = {n} \X ToSet(Members(k))
<1> DEFINE ms == Members(k)
           sl == [i \in DOMAIN ms |-> <<n, ms[i]>>]
<1>1. Slots(n, k) = sl
  BY DEF Slots
<1>2. ms \in Seq(ToSet(ms)) /\ \A i, j \in DOMAIN ms : ms[i].name = ms[j].name => i = j
  BY EveryRow DEF Row, Known
<1>3. DOMAIN ms = 1..Len(ms) /\ Len(ms) \in Nat /\ \A i \in DOMAIN ms : ms[i] \in ToSet(ms)
  BY <1>2
<1>4. DOMAIN sl = DOMAIN ms /\ \A i \in DOMAIN ms : sl[i] = <<n, ms[i]>>
  OBVIOUS
<1>5. sl \in Seq({n} \X ToSet(ms))
  BY <1>3
<1> HIDE DEF sl, ms
<1>6. IsInjective(sl)
  <2>1. SUFFICES ASSUME NEW i \in DOMAIN ms, NEW j \in DOMAIN ms, sl[i] = sl[j]
                 PROVE  i = j
    BY <1>4 DEF IsInjective
  <2>2. ms[i] = ms[j]
    BY <1>4, <2>1
  <2>3. QED
    BY <2>2, <1>2
<1>7. ToSet(sl) = {n} \X ToSet(ms)
  BY <1>4 DEF ToSet
<1>8. QED
  BY <1>1, <1>5, <1>6, <1>7 DEF ms

\* The heap once a member x of node s, so far empty, is given n new nodes.
Grown(h, g, s, x, n, ks) ==
  /\ s \in DOMAIN h /\ x \in Names(h[s].k) /\ n \in Nat /\ ks \in [1..n -> DOMAIN Class]
  /\ g \in Seq(Node) /\ Len(g) = Len(h) + n
  /\ \A a \in DOMAIN h : a # s => g[a] = h[a]
  /\ g[s].k = h[s].k /\ g[s].m[x] = [i \in 1..n |-> Len(h) + i]
  /\ \A y \in Names(h[s].k) : y # x => g[s].m[y] = h[s].m[y]
  /\ Simple(g[s]) /\ Hold(g[s]) = Hold(h[s]) \union (Len(h) + 1..Len(h) + n)
  /\ \A a \in Len(h) + 1..Len(h) + n : g[a] = Blank(ks[a - Len(h)])

LEMMA GrowsSo ==
  ASSUME NEW h, Owned(h), NEW s \in DOMAIN h, NEW x \in Names(h[s].k), h[s].m[x] = <<>>,
         NEW n \in Nat, NEW ks \in [1..n -> DOMAIN Class],
         NEW g, g = [h EXCEPT ![s].m[x] = [i \in 1..n |-> Len(h) + i]] \o [i \in 1..n |-> Blank(ks[i])]
  PROVE  Grown(h, g, s, x, n, ks)
<1> DEFINE at == Len(h)
           fresh == [i \in 1..n |-> at + i]
           blanks == [i \in 1..n |-> Blank(ks[i])]
           md == WithMember(h[s], x, fresh)
           mid == [h EXCEPT ![s].m[x] = fresh]
<1>1. h \in Seq(Node) /\ DOMAIN h = 1..at /\ at \in Nat
  BY DEF Owned
<1>2. h[s] \in Node
  BY <1>1
<1>3. fresh \in Seq(Nat) /\ IsInjective(fresh) /\ ToSet(fresh) = at + 1..at + n
  <2>1. fresh \in Seq(Nat) /\ IsInjective(fresh)
    BY <1>1 DEF IsInjective
  <2>2. DOMAIN fresh = 1..n /\ \A i \in 1..n : fresh[i] = at + i
    OBVIOUS
  <2>3. ASSUME NEW e \in at + 1..at + n PROVE e \in ToSet(fresh)
    <3>1. e - at \in 1..n /\ fresh[e - at] = e
      BY <1>1
    <3>2. QED
      BY <3>1, <2>2 DEF ToSet
  <2>4. ASSUME NEW e \in ToSet(fresh) PROVE e \in at + 1..at + n
    <3>1. PICK i \in 1..n : e = at + i
      BY <2>2 DEF ToSet
    <3>2. QED
      BY <3>1, <1>1
  <2>5. QED
    BY <2>1, <2>3, <2>4
<1>4. Hold(h[s]) \subseteq 1..at /\ Simple(h[s])
  BY <1>1 DEF Owned
<1>5. ToSet(fresh) \intersect Hold(h[s]) = {} /\ ToSet(h[s].m[x]) = {}
  BY <1>1, <1>3, <1>4 DEF ToSet
<1> HIDE DEF fresh
<1>8. mid = [h EXCEPT ![s] = md]
  BY DEF WithMember
<1> HIDE DEF mid, md
<1>9. /\ md \in Node /\ md.k = h[s].k /\ md.m[x] = fresh /\ Simple(md)
      /\ \A y \in Names(h[s].k) : y # x => md.m[y] = h[s].m[y]
      /\ Hold(md) = Hold(h[s]) \union ToSet(fresh)
  <2>1. md = WithMember(h[s], x, fresh)
    BY DEF md
  <2>2. ToSet(h[s].m[x]) \subseteq ToSet(fresh) /\ ToSet(fresh) \intersect Hold(h[s]) \subseteq ToSet(h[s].m[x])
    BY <1>5
  <2>3. h[s] \in Node /\ x \in Names(h[s].k) /\ fresh \in Seq(Nat)
    BY <1>2, <1>3
  <2>4. QED
    BY <2>1, <2>2, <2>3, <1>3, <1>4, NodeGiven
<1>10. mid \in Seq(Node) /\ Len(mid) = at /\ mid[s] = md
       /\ \A a \in DOMAIN h : a # s => mid[a] = h[a]
  BY <1>1, <1>8, <1>9
<1>11. blanks \in Seq(Node) /\ Len(blanks) = n /\ \A i \in 1..n : blanks[i] = Blank(ks[i])
  <2>1. \A i \in 1..n : Blank(ks[i]) \in Node
    BY BlankNode
  <2>2. QED
    BY <2>1
<1> HIDE DEF blanks
<1>12. g = mid \o blanks
  BY DEF mid, blanks, fresh
<1>13. /\ g \in Seq(Node) /\ Len(g) = at + n
       /\ \A a \in 1..at + n : g[a] = IF a <= at THEN mid[a] ELSE blanks[a - at]
  <2>1. /\ mid \o blanks \in Seq(Node) /\ Len(mid \o blanks) = Len(mid) + Len(blanks)
        /\ \A a \in 1..Len(mid) + Len(blanks) :
             (mid \o blanks)[a] = IF a <= Len(mid) THEN mid[a] ELSE blanks[a - Len(mid)]
    BY ONLY <1>10, <1>11, ConcatProperties
  <2>2. Len(mid) = at /\ Len(blanks) = n
    BY <1>10, <1>11
  <2> HIDE DEF at
  <2>3. QED
    BY ONLY <2>1, <2>2, <1>12
<1>14. \A a \in 1..at : g[a] = mid[a]
  <2>1. \A a \in 1..at : a \in 1..at + n /\ a <= at
    BY <1>1
  <2> HIDE DEF at
  <2>2. QED
    BY ONLY <2>1, <1>13
<1>15. \A a \in at + 1..at + n : g[a] = Blank(ks[a - at])
  BY <1>1, <1>11, <1>13
<1>16. g[s] = md /\ \A a \in DOMAIN h : a # s => g[a] = h[a]
  BY <1>1, <1>10, <1>14
<1>17. fresh = [i \in 1..n |-> Len(h) + i]
  BY DEF fresh
<1>18. QED
  BY <1>3, <1>9, <1>13, <1>15, <1>16, <1>17 DEF Grown

LEMMA GrownOwned ==
  ASSUME NEW h, NEW g, NEW s, NEW x, NEW n, NEW ks, Grown(h, g, s, x, n, ks), Owned(h)
  PROVE  Owned(g)
<1> DEFINE at == Len(h)
<1>1. /\ h \in Seq(Node) /\ DOMAIN h = 1..at /\ at \in Nat \ {0} /\ n \in Nat /\ s \in 1..at
      /\ g \in Seq(Node) /\ DOMAIN g = 1..at + n /\ g # <<>>
  BY DEF Owned, Grown
<1>2. /\ \A a \in 1..at : a # s => g[a] = h[a]
      /\ \A a \in at + 1..at + n : Simple(g[a]) /\ Hold(g[a]) = {}
      /\ Simple(g[s]) /\ Hold(g[s]) = Hold(h[s]) \union (at + 1..at + n)
  <2>1. \A a \in at + 1..at + n : a - at \in 1..n /\ g[a] = Blank(ks[a - at])
    BY <1>1 DEF Grown
  <2>2. \A a \in at + 1..at + n : Simple(g[a]) /\ Hold(g[a]) = {}
    BY <2>1, BlankNode DEF Grown
  <2>3. QED
    BY <2>2, <1>1 DEF Grown
<1>3. \A a \in 1..at : Simple(h[a]) /\ Hold(h[a]) \subseteq 1..at /\ Root \notin Hold(h[a])
  BY <1>1 DEF Owned
<1>4. \A a, b \in 1..at : a # b => Hold(h[a]) \intersect Hold(h[b]) = {}
  BY <1>1 DEF Owned
<1>5. \A a \in DOMAIN g : a \in 1..at \/ a \in at + 1..at + n
  BY <1>1
<1>6. Root \notin at + 1..at + n /\ at + 1..at + n \subseteq 1..at + n /\ 1..at \subseteq 1..at + n
  BY <1>1 DEF Root
<1>7. (1..at) \intersect (at + 1..at + n) = {}
  BY <1>1
<1> HIDE DEF at
<1>8. ASSUME NEW a \in DOMAIN g
      PROVE  Simple(g[a]) /\ Hold(g[a]) \subseteq DOMAIN g \ {Root}
  <2>1. CASE a = s
    BY <2>1, <1>1, <1>2, <1>3, <1>6
  <2>2. CASE a \in 1..at /\ a # s
    BY <2>2, <1>1, <1>2, <1>3, <1>6
  <2>3. CASE a \in at + 1..at + n
    BY <2>3, <1>2
  <2>4. QED
    BY <2>1, <2>2, <2>3, <1>5
<1>9. ASSUME NEW a \in DOMAIN g, NEW b \in DOMAIN g, a # b
      PROVE  Hold(g[a]) \intersect Hold(g[b]) = {}
  <2>1. CASE a \in at + 1..at + n \/ b \in at + 1..at + n
    BY <2>1, <1>2
  <2>2. CASE a \in 1..at /\ b \in 1..at
    <3>1. CASE a # s /\ b # s
      BY <3>1, <2>2, <1>2, <1>4, <1>9
    <3>2. CASE a = s
      BY <3>2, <2>2, <1>2, <1>3, <1>4, <1>7, <1>9
    <3>3. CASE b = s
      BY <3>3, <2>2, <1>2, <1>3, <1>4, <1>7, <1>9
    <3>4. QED
      BY <3>1, <3>2, <3>3
  <2>3. QED
    BY <2>1, <2>2, <1>5
<1>10. QED
  BY <1>1, <1>8, <1>9 DEF Owned

LEMMA GrownTree ==
  ASSUME NEW h, NEW g, NEW s, NEW x, NEW n, NEW ks, Grown(h, g, s, x, n, ks), Owned(h),
         Tree(h, Len(h))
  PROVE  Tree(g, Len(g))
<1> DEFINE at == Len(h)
<1>1. /\ DOMAIN h = 1..at /\ at \in Nat \ {0} /\ n \in Nat /\ s \in 1..at
      /\ DOMAIN g = 1..at + n /\ Len(g) = at + n
  BY DEF Owned, Grown
<1>2. /\ \A a \in 1..at : a # s => g[a] = h[a]
      /\ Hold(g[s]) = Hold(h[s]) \union (at + 1..at + n)
  BY <1>1 DEF Grown
<1>3. \A a \in at + 1..at + n : Hold(g[a]) = {}
  <2>1. \A a \in at + 1..at + n : a - at \in 1..n /\ g[a] = Blank(ks[a - at])
    BY <1>1 DEF Grown
  <2>2. QED
    BY <2>1, BlankNode DEF Grown
<1>4. \A a \in 1..at : Hold(h[a]) \subseteq a + 1..at
  BY DEF Tree
<1>5. \A c \in 2..at : \E a \in 1..at : c \in Hold(h[a])
  BY DEF Tree
<1>6. ASSUME NEW a \in 1..at + n PROVE Hold(g[a]) \subseteq a + 1..at + n
  <2>1. CASE a \in at + 1..at + n
    BY <2>1, <1>3
  <2>2. CASE a \in 1..at
    <3>1. Hold(h[a]) \subseteq a + 1..at /\ a + 1..at \subseteq a + 1..at + n
          /\ at + 1..at + n \subseteq a + 1..at + n
      BY <2>2, <1>1, <1>4
    <3>2. QED
      BY <3>1, <2>2, <1>2
  <2>3. QED
    BY <2>1, <2>2, <1>1
<1>7. ASSUME NEW c \in 2..at + n PROVE \E a \in 1..at + n : c \in Hold(g[a])
  <2>1. s \in 1..at + n /\ 1..at \subseteq 1..at + n
    BY <1>1
  <2>2. CASE c \in 2..at
    <3>1. PICK a \in 1..at : c \in Hold(h[a])
      BY <2>2, <1>5
    <3>2. c \in Hold(g[a])
      BY <3>1, <1>2
    <3>3. QED
      BY <3>2, <2>1
  <2>3. CASE c \in at + 1..at + n
    BY <2>1, <2>3, <1>2
  <2>4. QED
    BY <2>2, <2>3, <1>1
<1>8. QED
  BY <1>1, <1>6, <1>7 DEF Tree

LEMMA GrownArity ==
  ASSUME NEW h, NEW g, NEW s, NEW x, NEW n, NEW ks, Grown(h, g, s, x, n, ks), Owned(h),
         Arity(h), NEW mem \in ToSet(Members(h[s].k)), mem.name = x, mem.many \/ n <= 1
  PROVE  Arity(g)
<1> DEFINE at == Len(h)
<1>1. /\ h \in Seq(Node) /\ DOMAIN h = 1..at /\ at \in Nat \ {0} /\ n \in Nat /\ s \in 1..at
      /\ g \in Seq(Node) /\ DOMAIN g = 1..at + n
  BY DEF Owned, Grown
<1>2. SUFFICES ASSUME NEW a \in 1..at + n, NEW me \in ToSet(Members(g[a].k))
               PROVE  me.many \/ Len(g[a].m[me.name]) <= 1
  BY <1>1 DEF Arity
<1>3. CASE a \in at + 1..at + n
  <2>1. a - at \in 1..n /\ ks[a - at] \in DOMAIN Class /\ g[a] = Blank(ks[a - at])
    BY <1>1, <1>3 DEF Grown
  <2>2. g[a].k = ks[a - at] /\ \A y \in Names(g[a].k) : g[a].m[y] = <<>>
    BY <2>1, BlankNode
  <2>3. me.name \in Names(g[a].k)
    BY <1>2 DEF Names, ToSet
  <2>4. QED
    BY <2>2, <2>3
<1>4. CASE a \in 1..at /\ a # s
  <2>1. g[a] = h[a]
    BY <1>1, <1>4 DEF Grown
  <2>2. QED
    BY <2>1, <1>1, <1>2, <1>4 DEF Arity
<1>5. CASE a = s
  <2>1. g[a].k = h[a].k /\ h[a] \in Node
    BY <1>1, <1>5 DEF Grown
  <2>2. CASE me.name = x
    <3>1. me = mem
      BY <2>1, <2>2, <1>2, <1>5, NodeHas, MembersByName
    <3>2. g[a].m[x] = [i \in 1..n |-> at + i]
      BY <1>5 DEF Grown
    <3>3. Len(g[a].m[x]) = n
      BY <3>2, <1>1
    <3>4. QED
      BY <3>1, <3>3
  <2>3. CASE me.name # x
    <3>1. me.name \in Names(h[a].k)
      BY <2>1, <1>2 DEF Names, ToSet
    <3>2. g[a].m[me.name] = h[a].m[me.name]
      BY <3>1, <2>3, <1>5 DEF Grown
    <3>3. QED
      BY <3>2, <2>1, <1>1, <1>2, <1>5 DEF Arity
  <2>4. QED
    BY <2>2, <2>3
<1>6. QED
  BY <1>1, <1>3, <1>4, <1>5

LEMMA GrownOwing ==
  ASSUME NEW h, NEW g, NEW n, NEW ks, NEW t, t # <<>>, Owned(h), Owing(h, t),
         Grown(h, g, Head(t)[1], Head(t)[2].name, n, ks)
  PROVE  Owing(g, Tail(t) \o FlattenSeq([i \in 1..n |-> Slots(Len(h) + i, ks[i])]))
<1> DEFINE at == Len(h)
           s == Head(t)[1]
           x == Head(t)[2].name
           new == [i \in 1..n |-> Slots(at + i, ks[i])]
           fresh == FlattenSeq(new)
<1>0. Grown(h, g, s, x, n, ks)
  OBVIOUS
<1> HIDE DEF s, x
<1>1. /\ h \in Seq(Node) /\ DOMAIN h = 1..at /\ at \in Nat \ {0} /\ n \in Nat /\ s \in 1..at
      /\ g \in Seq(Node) /\ DOMAIN g = 1..at + n /\ x \in Names(h[s].k)
      /\ \A a \in 1..at : a # s => g[a] = h[a]
      /\ g[s].k = h[s].k
      /\ \A y \in Names(h[s].k) : y # x => g[s].m[y] = h[s].m[y]
      /\ ks \in [1..n -> DOMAIN Class]
  BY <1>0 DEF Owned, Grown
<1>2. \A i \in 1..n : at + i \in DOMAIN g /\ g[at + i] = Blank(ks[i]) /\ g[at + i].k = ks[i]
  <2>1. SUFFICES ASSUME NEW i \in 1..n
                 PROVE  at + i \in DOMAIN g /\ g[at + i] = Blank(ks[i]) /\ g[at + i].k = ks[i]
    OBVIOUS
  <2>2. at + i \in at + 1..at + n /\ at + i \in DOMAIN g /\ at + i - at = i
    BY <1>1
  <2>3. g[at + i] = Blank(ks[i])
    BY <2>2, <1>0 DEF Grown
  <2>4. QED
    BY <2>2, <2>3, <1>1, BlankNode
<1>3. /\ t \in Seq(Slot(h)) /\ IsInjective(t)
      /\ \A sl \in ToSet(t) : h[sl[1]].m[sl[2].name] = <<>>
  BY DEF Owing
<1>4. /\ Head(t) \in Slot(h) /\ Tail(t) \in Seq(Slot(h))
      /\ ToSet(t) = {Head(t)} \union ToSet(Tail(t))
      /\ IsInjective(Tail(t)) /\ Head(t) \notin ToSet(Tail(t))
  BY <1>3, HeadAndTail
<1>5. Slot(h) \subseteq Slot(g)
  <2>1. \A a \in 1..at : a \in DOMAIN g /\ Members(g[a].k) = Members(h[a].k)
    BY <1>1
  <2>2. QED
    BY <2>1, <1>1 DEF Slot
<1>6. \A i \in 1..n : /\ Slots(at + i, ks[i]) \in Seq(Slot(g)) /\ IsInjective(Slots(at + i, ks[i]))
                      /\ ToSet(Slots(at + i, ks[i])) = {at + i} \X ToSet(Members(ks[i]))
  <2>1. SUFFICES ASSUME NEW i \in 1..n
                 PROVE  /\ Slots(at + i, ks[i]) \in Seq(Slot(g)) /\ IsInjective(Slots(at + i, ks[i]))
                        /\ ToSet(Slots(at + i, ks[i])) = {at + i} \X ToSet(Members(ks[i]))
    OBVIOUS
  <2>2. {at + i} \X ToSet(Members(ks[i])) \subseteq Slot(g)
    BY <1>2 DEF Slot
  <2>3. ks[i] \in DOMAIN Class
    BY <1>1
  <2>4. /\ Slots(at + i, ks[i]) \in Seq({at + i} \X ToSet(Members(ks[i])))
        /\ IsInjective(Slots(at + i, ks[i]))
        /\ ToSet(Slots(at + i, ks[i])) = {at + i} \X ToSet(Members(ks[i]))
    BY <2>3, SlotsOf
  <2>5. QED
    BY <2>2, <2>4, SeqMonotonic
<1>7. new \in Seq(Seq(Slot(g))) /\ DOMAIN new = 1..n
      /\ \A i \in 1..n : new[i] = Slots(at + i, ks[i])
  BY <1>1, <1>6
<1> HIDE DEF new
<1>8. \A i \in DOMAIN new : IsInjective(new[i])
  BY <1>6, <1>7
<1>9. ASSUME NEW i \in DOMAIN new, NEW j \in DOMAIN new, i # j
      PROVE  ToSet(new[i]) \intersect ToSet(new[j]) = {}
  <2>1. at + i # at + j
    BY <1>1, <1>7, <1>9
  <2>2. ToSet(new[i]) = {at + i} \X ToSet(Members(ks[i]))
        /\ ToSet(new[j]) = {at + j} \X ToSet(Members(ks[j]))
    BY <1>6, <1>7
  <2>3. QED
    BY <2>1, <2>2
<1>10. /\ fresh \in Seq(Slot(g)) /\ IsInjective(fresh)
       /\ ToSet(fresh) = UNION {ToSet(new[i]) : i \in DOMAIN new}
  BY <1>7, <1>8, <1>9, FlattenHolds
<1> HIDE DEF fresh
<1>11. ASSUME NEW sl \in ToSet(fresh)
       PROVE  sl[1] \in at + 1..at + n /\ g[sl[1]].m[sl[2].name] = <<>>
  <2>1. PICK i \in 1..n : sl \in {at + i} \X ToSet(Members(ks[i]))
    <3>1. PICK i \in DOMAIN new : sl \in ToSet(new[i])
      BY <1>10
    <3>2. QED
      BY <3>1, <1>6, <1>7
  <2>2. sl[1] = at + i /\ sl[2] \in ToSet(Members(ks[i])) /\ ks[i] \in DOMAIN Class
    BY <2>1, <1>1
  <2>3. sl[2].name \in Names(ks[i])
    BY <2>2 DEF Names, ToSet
  <2>4. Blank(ks[i]).m[sl[2].name] = <<>>
    BY <2>2, <2>3, BlankNode
  <2>5. QED
    BY <2>2, <2>4, <1>1, <1>2
<1>12. ASSUME NEW sl \in ToSet(Tail(t))
       PROVE  sl[1] \in 1..at /\ g[sl[1]].m[sl[2].name] = <<>>
  <2>1. sl \in Slot(h) /\ sl # Head(t) /\ h[sl[1]].m[sl[2].name] = <<>>
    <3>1. sl \in ToSet(t) /\ sl # Head(t)
      BY <1>4
    <3>2. QED
      BY <3>1, <1>3, HeldBySeq
  <2>2. /\ sl = <<sl[1], sl[2]>> /\ sl[1] \in 1..at /\ h[sl[1]] \in Node
        /\ sl[2] \in ToSet(Members(h[sl[1]].k)) /\ sl[2].name \in Names(h[sl[1]].k)
    BY <2>1, <1>1, SlotHas
  <2>3. Head(t) = <<Head(t)[1], Head(t)[2]>> /\ Head(t)[2] \in ToSet(Members(h[Head(t)[1]].k))
    BY <1>1, <1>4, SlotHas
  <2>4. CASE sl[1] # s
    BY <2>1, <2>2, <2>4, <1>1
  <2>5. CASE sl[1] = s
    <3>1. sl[2] # Head(t)[2]
      BY <2>1, <2>2, <2>3, <2>5 DEF s
    <3>2. sl[2].name # x
      <4>1. h[s].k \in DOMAIN Class
        BY <2>2, <2>5, NodeHas
      <4>2. QED
        BY <4>1, <3>1, <2>2, <2>3, <2>5, MembersByName DEF s, x
    <3>3. g[s].m[sl[2].name] = h[s].m[sl[2].name]
      BY <3>2, <2>2, <2>5, <1>1
    <3>4. QED
      BY <3>3, <2>1, <2>2, <2>5
  <2>6. QED
    BY <2>4, <2>5
<1>13. Tail(t) \in Seq(Slot(g))
  BY <1>4, <1>5, SeqMonotonic
<1>14. ToSet(Tail(t)) \intersect ToSet(fresh) = {}
  <2>1. (1..at) \intersect (at + 1..at + n) = {}
    BY <1>1
  <2>2. QED
    BY <2>1, <1>11, <1>12
<1>15. /\ Tail(t) \o fresh \in Seq(Slot(g)) /\ IsInjective(Tail(t) \o fresh)
       /\ ToSet(Tail(t) \o fresh) = ToSet(Tail(t)) \union ToSet(fresh)
  BY <1>4, <1>10, <1>13, <1>14, ConcatHolds
<1>16. Owing(g, Tail(t) \o fresh)
  BY <1>11, <1>12, <1>15 DEF Owing
<1>17. QED
  BY <1>16 DEF fresh, new

-----------------------------------------------------------------------------
\* While the tree is being built.
Growing ==
  /\ Owned(heap) /\ Tree(heap, Len(heap)) /\ Arity(heap) /\ Owing(heap, todo)

LEMMA Builds == ASSUME Growing, Build PROVE Growing'
<1> DEFINE slot == Head(todo)
           s == slot[1]
           x == slot[2].name
<1>1. /\ Owned(heap) /\ Tree(heap, Len(heap)) /\ Arity(heap) /\ Owing(heap, todo) /\ todo # <<>>
  BY DEF Growing, Build
<1>13. PICK n \in slot[2].min..(IF slot[2].many THEN MaxList ELSE 1) :
        \E ks \in [1..n -> Below(slot[2].type)] :
          /\ heap' = [heap EXCEPT ![s].m[x] = [i \in 1..n |-> Len(heap) + i]]
                     \o [i \in 1..n |-> Blank(ks[i])]
          /\ todo' = Tail(todo) \o FlattenSeq([i \in 1..n |-> Slots(Len(heap) + i, ks[i])])
  BY DEF Build
<1>2. PICK ks \in [1..n -> Below(slot[2].type)] :
        /\ heap' = [heap EXCEPT ![s].m[x] = [i \in 1..n |-> Len(heap) + i]]
                   \o [i \in 1..n |-> Blank(ks[i])]
        /\ todo' = Tail(todo) \o FlattenSeq([i \in 1..n |-> Slots(Len(heap) + i, ks[i])])
  BY <1>13
<1>3. heap \in Seq(Node) /\ todo \in Seq(Slot(heap))
  BY <1>1 DEF Owned, Owing
<1>4. slot \in Slot(heap) /\ slot \in ToSet(todo)
  BY <1>1, <1>3, HeadAndTail
<1>5. /\ s \in DOMAIN heap /\ heap[s] \in Node
      /\ slot[2] \in ToSet(Members(heap[s].k)) /\ x \in Names(heap[s].k)
  BY <1>3, <1>4, SlotHas
<1>6. heap[s].m[x] = <<>>
  BY <1>1, <1>4 DEF Owing
<1>7. slot[2].many \/ n <= 1
  OBVIOUS
<1>8. n \in Nat /\ ks \in [1..n -> DOMAIN Class]
  <2>1. heap[s].k \in DOMAIN Class
    BY <1>5, NodeHas
  <2>2. Known(Members(heap[s].k), PortsIn(heap[s].k))
    BY <2>1, EveryRow DEF Row
  <2>3. slot[2].min \in {0, 1}
    BY <2>2, <1>5 DEF Known, Ported, ToSet
  <2>4. \A i \in 1..n : ks[i] \in DOMAIN Class
    BY DEF Below
  <2>5. QED
    BY <2>3, <2>4, AstWalksAssumption
<1> HIDE DEF slot
<1>9. Grown(heap, heap', s, x, n, ks)
  BY <1>1, <1>2, <1>5, <1>6, <1>8, GrowsSo
<1>10. Owned(heap') /\ Tree(heap', Len(heap')) /\ Arity(heap')
  <2>1. Owned(heap')
    BY <1>1, <1>9, GrownOwned
  <2>2. Tree(heap', Len(heap'))
    BY <1>1, <1>9, GrownTree
  <2>3. Arity(heap')
    BY <1>1, <1>5, <1>7, <1>9, GrownArity
  <2>4. QED
    BY <2>1, <2>2, <2>3
<1>11. Owing(heap', todo')
  BY <1>1, <1>2, <1>9, GrownOwing DEF slot
<1>12. QED
  BY <1>10, <1>11 DEF Growing

LEMMA Starts == ASSUME Init PROVE Growing
<1>1. PICK k \in DOMAIN Class : heap = <<Blank(k)>> /\ todo = Slots(Root, k)
  BY DEF Init
<1>2. /\ Blank(k) \in Node /\ Blank(k).k = k /\ Simple(Blank(k)) /\ Hold(Blank(k)) = {}
      /\ \A x \in Names(k) : Blank(k).m[x] = <<>>
  BY BlankNode
<1>3. heap \in Seq(Node) /\ heap # <<>> /\ DOMAIN heap = {1} /\ Len(heap) = 1 /\ heap[1] = Blank(k)
  BY <1>1, <1>2
<1>4. Owned(heap)
  BY <1>2, <1>3 DEF Owned
<1>5. Tree(heap, Len(heap))
  BY <1>2, <1>3 DEF Tree
<1>6. \A mem \in ToSet(Members(k)) : mem.name \in Names(k)
  BY DEF Names, ToSet
<1>7. Arity(heap)
  BY <1>2, <1>3, <1>6 DEF Arity
<1>8. Owing(heap, todo)
  <2>1. /\ todo \in Seq({Root} \X ToSet(Members(k))) /\ IsInjective(todo)
        /\ ToSet(todo) = {Root} \X ToSet(Members(k))
    BY <1>1, SlotsOf
  <2>2. {Root} \X ToSet(Members(k)) = Slot(heap)
    BY <1>2, <1>3 DEF Slot, Root
  <2>3. \A sl \in ToSet(todo) : heap[sl[1]].m[sl[2].name] = <<>>
    BY <2>1, <1>2, <1>3, <1>6 DEF Root
  <2>4. QED
    BY <2>1, <2>2, <2>3 DEF Owing
<1>9. QED
  BY <1>4, <1>5, <1>7, <1>8 DEF Growing

-----------------------------------------------------------------------------
(* Going through a tree with a list of the nodes that are due: what the    *)
(* DefaultVisitor and the destructors do.                                  *)

\* kids: for every node, those that are due once it is done.
Follows(h, kids) ==
  \A n \in DOMAIN h : kids[n] \in Seq(Nat) /\ IsInjective(kids[n]) /\ ToSet(kids[n]) \subseteq Hold(h[n])

Worklist(h, done, due, roots, kids) ==
  /\ done \in Seq(DOMAIN h) /\ due \in Seq(DOMAIN h) /\ IsInjective(done) /\ IsInjective(due)
  /\ ToSet(done) \intersect ToSet(due) = {}
  /\ \A c \in ToSet(done) \union ToSet(due) : c \in roots \/ \E n \in ToSet(done) : c \in Hold(h[n])
  /\ \A n \in ToSet(done) : ToSet(kids[n]) \subseteq ToSet(done) \union ToSet(due)
  /\ roots \subseteq ToSet(done) \union ToSet(due)

LEMMA WorklistStep ==
  ASSUME NEW h, Owned(h), NEW kids, Follows(h, kids),
         NEW roots, \A n \in DOMAIN h : roots \intersect Hold(h[n]) = {},
         NEW done, NEW due, Worklist(h, done, due, roots, kids), due # <<>>
  PROVE  Worklist(h, Append(done, Head(due)), kids[Head(due)] \o Tail(due), roots, kids)
<1> DEFINE n == Head(due)
           rest == Tail(due)
           done1 == Append(done, n)
           due1 == kids[n] \o rest
<1>1. /\ done \in Seq(DOMAIN h) /\ due \in Seq(DOMAIN h) /\ IsInjective(done) /\ IsInjective(due)
      /\ ToSet(done) \intersect ToSet(due) = {}
  BY DEF Worklist
<1>2. /\ n \in DOMAIN h /\ rest \in Seq(DOMAIN h) /\ ToSet(due) = {n} \union ToSet(rest)
      /\ IsInjective(rest) /\ n \notin ToSet(rest)
  BY <1>1, HeadAndTail
<1>3. n \notin ToSet(done) /\ ToSet(done) \subseteq DOMAIN h /\ ToSet(rest) \subseteq DOMAIN h
  BY <1>1, <1>2, HeldBySeq
<1> HIDE DEF n, rest
<1>4. /\ done1 \in Seq(DOMAIN h) /\ IsInjective(done1) /\ ToSet(done1) = ToSet(done) \union {n}
  BY <1>1, <1>2, <1>3, AppendHolds
<1>5. kids[n] \in Seq(DOMAIN h) /\ IsInjective(kids[n]) /\ ToSet(kids[n]) \subseteq Hold(h[n])
  <2>1. kids[n] \in Seq(Nat) /\ IsInjective(kids[n]) /\ ToSet(kids[n]) \subseteq Hold(h[n])
    BY <1>2 DEF Follows
  <2>2. Hold(h[n]) \subseteq DOMAIN h
    BY <1>2 DEF Owned
  <2>3. kids[n] \in Seq(ToSet(kids[n]))
    BY <2>1, HeldBySeq
  <2>4. QED
    BY <2>1, <2>2, <2>3, SeqMonotonic
\* The kids of n are not known yet: their only owner is not done.
<1>6. ASSUME NEW c \in ToSet(kids[n]) PROVE c \notin ToSet(done) \union ToSet(due)
  <2>1. SUFFICES ASSUME c \in ToSet(done) \union ToSet(due) PROVE FALSE
    OBVIOUS
  <2>2. c \in Hold(h[n]) /\ c \notin roots
    BY <1>2, <1>5
  <2>3. PICK m \in ToSet(done) : c \in Hold(h[m])
    BY <2>1, <2>2 DEF Worklist
  <2>4. m \in DOMAIN h /\ m # n
    BY <1>3
  <2>5. QED
    BY <2>2, <2>3, <2>4, <1>2, TheOwner
<1>7. /\ due1 \in Seq(DOMAIN h) /\ IsInjective(due1)
      /\ ToSet(due1) = ToSet(kids[n]) \union ToSet(rest)
  <2>1. ToSet(kids[n]) \intersect ToSet(rest) = {}
    BY <1>2, <1>6
  <2>2. QED
    BY <2>1, <1>2, <1>5, ConcatHolds
<1> HIDE DEF done1, due1
<1>8. ToSet(done1) \intersect ToSet(due1) = {}
  <2>1. n \in ToSet(due)
    BY <1>2
  <2>2. QED
    BY <2>1, <1>1, <1>2, <1>4, <1>6, <1>7
<1>9. ASSUME NEW c \in ToSet(done1) \union ToSet(due1)
      PROVE  c \in roots \/ \E m \in ToSet(done1) : c \in Hold(h[m])
  <2>1. CASE c \in ToSet(kids[n])
    BY <2>1, <1>4, <1>5
  <2>2. CASE c \in ToSet(done) \union ToSet(due)
    BY <2>2, <1>4 DEF Worklist
  <2>3. QED
    BY <2>1, <2>2, <1>2, <1>4, <1>7
<1>10. ASSUME NEW m \in ToSet(done1)
       PROVE  ToSet(kids[m]) \subseteq ToSet(done1) \union ToSet(due1)
  <2>1. CASE m = n
    BY <2>1, <1>7
  <2>2. CASE m \in ToSet(done)
    <3>1. ToSet(kids[m]) \subseteq ToSet(done) \union ToSet(due)
      BY <2>2 DEF Worklist
    <3>2. QED
      BY <3>1, <1>2, <1>4, <1>7
  <2>3. QED
    BY <2>1, <2>2, <1>4
<1>11. roots \subseteq ToSet(done1) \union ToSet(due1)
  <2>1. roots \subseteq ToSet(done) \union ToSet(due)
    BY DEF Worklist
  <2>2. QED
    BY <2>1, <1>2, <1>4, <1>7
<1>12. Worklist(h, done1, due1, roots, kids)
  BY <1>4, <1>7, <1>8, <1>9, <1>10, <1>11 DEF Worklist
<1>13. QED
  BY <1>12 DEF done1, due1, n, rest

\* Before the first node is done.
LEMMA WorklistStart ==
  ASSUME NEW h, NEW kids, NEW r \in DOMAIN h
  PROVE  Worklist(h, <<>>, <<r>>, {r}, kids)
<1>1. ToSet(<<r>>) = {r} /\ IsInjective(<<r>>)
  BY Single DEF Lists
<1>2. ToSet(<<>>) = {} /\ IsInjective(<<>>)
  BY None DEF Lists
<1>3. QED
  BY <1>1, <1>2 DEF Worklist

-----------------------------------------------------------------------------
(* Cloning: the nodes of the clone made so far are held by other nodes of  *)
(* the clone, or by the visits under way, one of them.                     *)

\* A visit under way: a node is being made, of what was cloned so far.
Frame(N) ==
  UNION {[k : {c}, got : [Names(c) -> Seq(Nat)], taking : BOOLEAN, calls : Seq(Names(c) \X (1..N))]
         : c \in DOMAIN Class}

Calls(N) == [call : 1..N]

Made(f) == [k |-> f.k, m |-> f.got]

Grip(f) == IF "call" \in DOMAIN f THEN {} ELSE Hold(Made(f))

GoodFrame(f, N) ==
  f \in Frame(N) /\ Simple(Made(f)) /\ (f.taking => f.calls # <<>>)

LEMMA FrameHas ==
  ASSUME NEW N, NEW f \in Frame(N)
  PROVE  /\ f.k \in DOMAIN Class /\ f.got \in [Names(f.k) -> Seq(Nat)] /\ Made(f) \in Node
         /\ f.taking \in BOOLEAN /\ f.calls \in Seq(Names(f.k) \X (1..N))
         /\ DOMAIN f = {"k", "got", "taking", "calls"} /\ Grip(f) = Hold(Made(f))
<1>1. PICK c \in DOMAIN Class :
        f \in [k : {c}, got : [Names(c) -> Seq(Nat)], taking : BOOLEAN, calls : Seq(Names(c) \X (1..N))]
  BY DEF Frame
<1>2. /\ f.k = c /\ f.got \in [Names(c) -> Seq(Nat)] /\ f.taking \in BOOLEAN
      /\ f.calls \in Seq(Names(c) \X (1..N)) /\ DOMAIN f = {"k", "got", "taking", "calls"}
  BY <1>1
<1>3. Made(f) \in Node
  BY <1>2, IsNode DEF Made
<1>4. Grip(f) = Hold(Made(f))
  BY <1>2 DEF Grip
<1>5. QED
  BY <1>2, <1>3, <1>4

LEMMA CallHas ==
  ASSUME NEW N, NEW f \in Calls(N)
  PROVE  f.call \in 1..N /\ DOMAIN f = {"call"} /\ Grip(f) = {} /\ f \notin Frame(N)
<1>1. f.call \in 1..N /\ DOMAIN f = {"call"}
  BY DEF Calls
<1>2. f \notin Frame(N)
  BY <1>1, FrameHas
<1>3. QED
  BY <1>1, <1>2 DEF Grip

\* The stack of the visits under way.
Stacked(h, st, N) ==
  /\ st \in Seq(Frame(N) \union Calls(N))
  /\ \A j \in 1..Len(st) : j < Len(st) => st[j] \in Frame(N) /\ st[j].taking
  /\ \A j \in 1..Len(st) : st[j] \in Frame(N) => GoodFrame(st[j], N)
  /\ \A j \in 1..Len(st) : Grip(st[j]) \subseteq N + 1..Len(h)
  /\ \A j \in 1..Len(st) : \A n \in DOMAIN h : Grip(st[j]) \intersect Hold(h[n]) = {}
  /\ \A i, j \in 1..Len(st) : i # j => Grip(st[i]) \intersect Grip(st[j]) = {}

\* A node that nothing holds yet.
Loose(h, st, N, r) ==
  /\ r \in N + 1..Len(h)
  /\ \A n \in DOMAIN h : r \notin Hold(h[n])
  /\ \A j \in 1..Len(st) : r \notin Grip(st[j])

\* What was cloned last is about to be taken.
Awaited(st, N) == st = <<>> \/ (st[Len(st)] \in Frame(N) /\ st[Len(st)].taking)

LEMMA TopIs ==
  ASSUME NEW S, NEW st \in Seq(S), st # <<>>
  PROVE  /\ Len(st) \in Nat \ {0} /\ Len(st) \in 1..Len(st) /\ st[Len(st)] \in S
         /\ \A j \in 1..Len(st) : st[j] \in S
         /\ \A j \in 1..Len(st) : j < Len(st) \/ j = Len(st)
         /\ Front(st) \in Seq(S) /\ Len(Front(st)) = Len(st) - 1
         /\ \A j \in 1..Len(st) - 1 : Front(st)[j] = st[j]
<1>1. Len(st) \in Nat \ {0} /\ \A j \in 1..Len(st) : st[j] \in S
  OBVIOUS
<1> DEFINE n == Len(st) - 1
<1>2. n \in Nat /\ n \in Int /\ 1 \in Int /\ \A i \in 1..n : st[i] \in S
  BY <1>1
<1>3. Front(st) = SubSeq(st, 1, n)
  BY DEF Front
<1> HIDE DEF n
<1>4. /\ SubSeq(st, 1, n) \in Seq(S)
      /\ Len(SubSeq(st, 1, n)) = IF 1 <= n THEN n - 1 + 1 ELSE 0
      /\ \A i \in 1..n - 1 + 1 : SubSeq(st, 1, n)[i] = st[1 + i - 1]
  BY <1>2, SubSeqProperties
<1>5. Len(SubSeq(st, 1, n)) = n /\ \A i \in 1..n : SubSeq(st, 1, n)[i] = st[i]
  BY <1>2, <1>4
<1>6. QED
  BY <1>1, <1>3, <1>4, <1>5 DEF n

\* The stack without its top, and with another one.
LEMMA TopReplaced ==
  ASSUME NEW S, NEW st \in Seq(S), st # <<>>, NEW f \in S
  PROVE  /\ Append(Front(st), f) \in Seq(S) /\ Len(Append(Front(st), f)) = Len(st)
         /\ \A j \in 1..Len(st) : j < Len(st) => Append(Front(st), f)[j] = st[j]
         /\ Append(Front(st), f)[Len(st)] = f
         /\ [st EXCEPT ![Len(st)] = f] = Append(Front(st), f)
<1>1. /\ Len(st) \in Nat \ {0} /\ Front(st) \in Seq(S) /\ Len(Front(st)) = Len(st) - 1
      /\ \A j \in 1..Len(st) - 1 : Front(st)[j] = st[j]
      /\ Len(st) \in 1..Len(st)
  BY TopIs
<1>2. /\ Append(Front(st), f) \in Seq(S) /\ Len(Append(Front(st), f)) = Len(st) - 1 + 1
      /\ \A j \in 1..Len(st) - 1 : Append(Front(st), f)[j] = Front(st)[j]
      /\ Append(Front(st), f)[Len(st) - 1 + 1] = f
  BY <1>1, AppendProperties
<1>3. Len(st) - 1 + 1 = Len(st) /\ \A j \in 1..Len(st) : j < Len(st) => j \in 1..Len(st) - 1
  BY <1>1
<1>4. /\ [st EXCEPT ![Len(st)] = f] \in Seq(S) /\ Len([st EXCEPT ![Len(st)] = f]) = Len(st)
      /\ \A j \in 1..Len(st) : [st EXCEPT ![Len(st)] = f][j] = IF j = Len(st) THEN f ELSE st[j]
  BY <1>1, ExceptSeq
<1>5. \A j \in 1..Len(st) : [st EXCEPT ![Len(st)] = f][j] = Append(Front(st), f)[j]
  <2>1. SUFFICES ASSUME NEW j \in 1..Len(st)
                 PROVE  [st EXCEPT ![Len(st)] = f][j] = Append(Front(st), f)[j]
    OBVIOUS
  <2>2. CASE j = Len(st)
    BY <2>2, <1>2, <1>3, <1>4
  <2>3. CASE j # Len(st)
    <3>1. j < Len(st)
      BY <2>3, <1>1
    <3>2. QED
      BY <3>1, <2>3, <1>1, <1>2, <1>3, <1>4
  <2>4. QED
    BY <2>2, <2>3
<1>6. [st EXCEPT ![Len(st)] = f] = Append(Front(st), f)
  BY <1>2, <1>3, <1>4, <1>5, SeqEqual
<1>7. QED
  BY <1>1, <1>2, <1>3, <1>6

LEMMA StackTopReplaced ==
  ASSUME NEW h, NEW N, NEW st, Stacked(h, st, N), st # <<>>,
         NEW f, f \in Calls(N) \/ GoodFrame(f, N),
         \A r \in Grip(f) : r \in Grip(st[Len(st)]) \/ Loose(h, st, N, r)
  PROVE  Stacked(h, Append(Front(st), f), N)
<1> DEFINE S == Frame(N) \union Calls(N)
           st1 == Append(Front(st), f)
           L == Len(st)
<1>1. st \in Seq(S) /\ L \in Nat \ {0} /\ L \in 1..L
      /\ \A j \in 1..L : j < L \/ j = L
  BY TopIs DEF Stacked
<1>2. f \in S
  BY DEF GoodFrame
<1>3. /\ st1 \in Seq(S) /\ Len(st1) = L /\ st1[L] = f
      /\ \A j \in 1..L : j < L => st1[j] = st[j]
  BY <1>1, <1>2, TopReplaced
<1> HIDE DEF st1
<1>4. \A j \in 1..L : j < L => st1[j] \in Frame(N) /\ st1[j].taking
  BY <1>3 DEF Stacked
<1>5. \A j \in 1..L : st1[j] \in Frame(N) => GoodFrame(st1[j], N)
  <2>1. f \in Frame(N) => GoodFrame(f, N)
    BY CallHas
  <2>2. \A j \in 1..L : st[j] \in Frame(N) => GoodFrame(st[j], N)
    BY DEF Stacked
  <2>3. QED
    BY <2>1, <2>2, <1>1, <1>3
<1>6. /\ \A j \in 1..L : Grip(st[j]) \subseteq N + 1..Len(h)
      /\ \A j \in 1..L : \A n \in DOMAIN h : Grip(st[j]) \intersect Hold(h[n]) = {}
      /\ \A i, j \in 1..L : i # j => Grip(st[i]) \intersect Grip(st[j]) = {}
  BY DEF Stacked
<1> DEFINE R == {r \in Grip(f) : Loose(h, st, N, r)}
<1>7. /\ Grip(f) \subseteq Grip(st[L]) \union R
      /\ \A r \in R : r \in N + 1..Len(h)
      /\ \A r \in R : \A n \in DOMAIN h : r \notin Hold(h[n])
      /\ \A r \in R : \A j \in 1..L : r \notin Grip(st[j])
  BY DEF Loose
<1>8. \A j \in 1..L : Grip(st1[j]) \subseteq N + 1..Len(h)
  BY <1>1, <1>3, <1>6, <1>7
<1>9. \A j \in 1..L : \A n \in DOMAIN h : Grip(st1[j]) \intersect Hold(h[n]) = {}
  BY <1>1, <1>3, <1>6, <1>7
<1>10. ASSUME NEW i \in 1..L, NEW j \in 1..L, i # j
       PROVE  Grip(st1[i]) \intersect Grip(st1[j]) = {}
  <2>1. CASE i < L /\ j < L
    BY <2>1, <1>3, <1>6, <1>10
  <2>2. CASE i = L /\ j < L
    <3>1. Grip(st[L]) \intersect Grip(st[j]) = {} /\ R \intersect Grip(st[j]) = {}
      BY <2>2, <1>1, <1>6, <1>7, <1>10
    <3>2. QED
      BY <3>1, <2>2, <1>3
  <2>3. CASE j = L /\ i < L
    <3>1. Grip(st[L]) \intersect Grip(st[i]) = {} /\ R \intersect Grip(st[i]) = {}
      BY <2>3, <1>1, <1>6, <1>7, <1>10
    <3>2. QED
      BY <3>1, <2>3, <1>3
  <2>4. QED
    BY <2>1, <2>2, <2>3, <1>1, <1>10
<1>11. QED
  BY <1>3, <1>4, <1>5, <1>8, <1>9, <1>10 DEF Stacked, st1

LEMMA StackPushed ==
  ASSUME NEW h, NEW N, NEW st, Stacked(h, st, N), st # <<>>,
         st[Len(st)] \in Frame(N), st[Len(st)].taking, NEW f \in Calls(N)
  PROVE  Stacked(h, Append(st, f), N)
<1> DEFINE S == Frame(N) \union Calls(N)
           st1 == Append(st, f)
           L == Len(st)
<1>1. st \in Seq(S) /\ L \in Nat \ {0}
      /\ \A j \in 1..L : j < L \/ j = L
  BY TopIs DEF Stacked
<1>2. /\ st1 \in Seq(S) /\ Len(st1) = L + 1 /\ st1[L + 1] = f
      /\ \A j \in 1..L : st1[j] = st[j]
  BY <1>1, AppendProperties
<1>3. /\ \A j \in 1..L + 1 : j \in 1..L \/ j = L + 1
      /\ \A j \in 1..L + 1 : j < L + 1 => j \in 1..L
  BY <1>1
<1>4. Grip(f) = {} /\ f \notin Frame(N)
  BY CallHas
<1> HIDE DEF st1
<1>5. \A j \in 1..L + 1 : j < L + 1 => st1[j] \in Frame(N) /\ st1[j].taking
  BY <1>1, <1>2, <1>3 DEF Stacked
<1>6. /\ \A j \in 1..L + 1 : st1[j] \in Frame(N) => GoodFrame(st1[j], N)
      /\ \A j \in 1..L + 1 : Grip(st1[j]) \subseteq N + 1..Len(h)
      /\ \A j \in 1..L + 1 : \A n \in DOMAIN h : Grip(st1[j]) \intersect Hold(h[n]) = {}
  BY <1>2, <1>3, <1>4 DEF Stacked
<1>7. \A i, j \in 1..L + 1 : i # j => Grip(st1[i]) \intersect Grip(st1[j]) = {}
  BY <1>2, <1>3, <1>4 DEF Stacked
<1>8. QED
  BY <1>2, <1>5, <1>6, <1>7 DEF Stacked, st1

LEMMA StackPopped ==
  ASSUME NEW h, NEW N, NEW st, Stacked(h, st, N), st # <<>>
  PROVE  /\ Stacked(h, Front(st), N) /\ Awaited(Front(st), N)
         /\ Len(Front(st)) = Len(st) - 1 /\ Len(st) \in Nat \ {0}
         /\ \A j \in 1..Len(st) - 1 : Front(st)[j] = st[j] /\ j \in 1..Len(st)
<1> DEFINE S == Frame(N) \union Calls(N)
           st1 == Front(st)
           L == Len(st)
<1>1. /\ st \in Seq(S) /\ L \in Nat \ {0}
      /\ st1 \in Seq(S) /\ Len(st1) = L - 1 /\ \A j \in 1..L - 1 : st1[j] = st[j]
  BY TopIs DEF Stacked
<1>2. \A j \in 1..L - 1 : j \in 1..L /\ j < L
  BY <1>1
<1> HIDE DEF st1
<1>3. \A j \in 1..L - 1 : st1[j] \in Frame(N) /\ st1[j].taking
  BY <1>1, <1>2 DEF Stacked
<1>4. /\ \A j \in 1..L - 1 : st1[j] \in Frame(N) => GoodFrame(st1[j], N)
      /\ \A j \in 1..L - 1 : Grip(st1[j]) \subseteq N + 1..Len(h)
      /\ \A j \in 1..L - 1 : \A n \in DOMAIN h : Grip(st1[j]) \intersect Hold(h[n]) = {}
      /\ \A i, j \in 1..L - 1 : i # j => Grip(st1[i]) \intersect Grip(st1[j]) = {}
  BY <1>1, <1>2 DEF Stacked
<1>5. Stacked(h, st1, N)
  BY <1>1, <1>3, <1>4 DEF Stacked
<1>6. Awaited(st1, N)
  <2>1. CASE L = 1
    BY <2>1, <1>1 DEF Awaited
  <2>2. CASE L # 1
    <3>1. L - 1 \in 1..L - 1
      BY <2>2, <1>1
    <3>2. QED
      BY <3>1, <1>1, <1>3 DEF Awaited
  <2>3. QED
    BY <2>1, <2>2
<1>7. QED
  BY <1>1, <1>2, <1>5, <1>6 DEF st1

\* The original and the clone, each with its nodes; those of the clone are made
\* from the leaves on.
Apart(h, N) ==
  /\ Owned(h) /\ Tree(h, N)
  /\ \A n \in N + 1..Len(h) : Hold(h[n]) \subseteq N + 1..n - 1

\* No node of the clone is forgotten.
Accounted(h, st, N, r) ==
  \A c \in N + 1..Len(h) :
    \/ \E n \in DOMAIN h : c \in Hold(h[n])
    \/ \E j \in 1..Len(st) : c \in Grip(st[j])
    \/ Awaited(st, N) /\ c = r

Cloning(h, st, r, N) ==
  /\ Apart(h, N) /\ Stacked(h, st, N)
  /\ Awaited(st, N) => Loose(h, st, N, r)
  /\ Accounted(h, st, N, r)

LEMMA TopOfClone ==
  ASSUME NEW N, Stacked(heap, stack, N), stack # <<>>
  PROVE  /\ Len(stack) \in Nat \ {0} /\ Len(stack) \in 1..Len(stack) /\ Top = stack[Len(stack)]
         /\ Top \in Frame(N) \union Calls(N)
         /\ "call" \in DOMAIN Top => Top \in Calls(N)
         /\ "calls" \in DOMAIN Top => GoodFrame(Top, N)
<1>1. /\ Len(stack) \in Nat \ {0} /\ Len(stack) \in 1..Len(stack)
      /\ stack[Len(stack)] \in Frame(N) \union Calls(N)
  BY TopIs DEF Stacked
<1>2. Top = stack[Len(stack)]
  BY DEF Top
<1>3. "call" \in DOMAIN Top => Top \in Calls(N)
  <2>1. Top \in Frame(N) => DOMAIN Top = {"k", "got", "taking", "calls"}
    BY FrameHas
  <2>2. "call" \notin {"k", "got", "taking", "calls"}
    OBVIOUS
  <2>3. Top \in Frame(N) \union Calls(N)
    BY <1>1, <1>2
  <2>4. QED
    BY ONLY <2>1, <2>2, <2>3
<1>4. "calls" \in DOMAIN Top => Top \in Frame(N)
  BY <1>1, <1>2, CallHas
<1>5. QED
  BY <1>1, <1>2, <1>3, <1>4 DEF Stacked

\* The calls that clone member x of node n, and a visit that begins.
CallsTo(n, x) == [j \in DOMAIN heap[n].m[x] |-> <<x, heap[n].m[x][j]>>]
AllCalls(n, l) == FlattenSeq([i \in DOMAIN l |-> CallsTo(n, l[i])])
Begun(n) == [k |-> heap[n].k, got |-> Blank(heap[n].k).m, taking |-> FALSE,
             calls |-> AllCalls(n, Clones(heap[n].k))]

LEMMA IsFrame ==
  ASSUME NEW N, NEW k \in DOMAIN Class, NEW got \in [Names(k) -> Seq(Nat)], NEW taking \in BOOLEAN,
         NEW calls \in Seq(Names(k) \X (1..N))
  PROVE  [k |-> k, got |-> got, taking |-> taking, calls |-> calls] \in Frame(N)
<1>1. [k |-> k, got |-> got, taking |-> taking, calls |-> calls]
        \in [k : {k}, got : [Names(k) -> Seq(Nat)], taking : BOOLEAN, calls : Seq(Names(k) \X (1..N))]
  OBVIOUS
<1>2. QED
  BY <1>1 DEF Frame

LEMMA PairedWith ==
  ASSUME NEW X, NEW S, NEW x \in X, NEW s \in Seq(Nat), ToSet(s) \subseteq S
  PROVE  [j \in DOMAIN s |-> <<x, s[j]>>] \in Seq(X \X S)
<1>1. DOMAIN s = 1..Len(s) /\ Len(s) \in Nat /\ \A j \in 1..Len(s) : s[j] \in S
  BY HeldBySeq
<1>2. [j \in 1..Len(s) |-> <<x, s[j]>>] \in Seq(X \X S)
  BY <1>1
<1>3. QED
  BY <1>1, <1>2

\* A visit that begins holds nothing, and has the nodes of the original to clone.
LEMMA CallsAreTyped ==
  ASSUME NEW N, NEW n \in 1..N, Apart(heap, N), NEW l \in Seq(Names(heap[n].k))
  PROVE  AllCalls(n, l) \in Seq(Names(heap[n].k) \X (1..N))
<1> DEFINE T == Names(heap[n].k) \X (1..N)
<1>1. heap \in Seq(Node) /\ n \in DOMAIN heap /\ N \in Nat /\ N \in DOMAIN heap
  BY DEF Apart, Owned, Tree
<1>2. /\ \A x \in Names(heap[n].k) : heap[n].m[x] \in Seq(Nat)
      /\ \A x \in Names(heap[n].k) : ToSet(heap[n].m[x]) \subseteq Hold(heap[n])
  BY <1>1, NodeHas
<1>3. Hold(heap[n]) \subseteq 1..N
  <2>1. Hold(heap[n]) \subseteq n + 1..N /\ n \in Nat
    BY <1>1 DEF Apart, Tree
  <2>2. n + 1..N \subseteq 1..N
    BY <2>1, <1>1
  <2>3. QED
    BY <2>1, <2>2
<1>4. ASSUME NEW i \in DOMAIN l PROVE CallsTo(n, l[i]) \in Seq(T)
  <2>1. l[i] \in Names(heap[n].k)
    OBVIOUS
  <2>2. heap[n].m[l[i]] \in Seq(Nat) /\ ToSet(heap[n].m[l[i]]) \subseteq 1..N
    BY <2>1, <1>2, <1>3
  <2>3. QED
    BY <2>1, <2>2, PairedWith DEF CallsTo
<1>5. DOMAIN l = 1..Len(l) /\ Len(l) \in Nat
  OBVIOUS
<1> HIDE DEF T
<1>6. [i \in 1..Len(l) |-> CallsTo(n, l[i])] \in Seq(Seq(T))
  BY <1>4, <1>5
<1>7. FlattenSeq([i \in DOMAIN l |-> CallsTo(n, l[i])]) \in Seq(T)
  BY <1>5, <1>6, FlattenHolds
<1>8. QED
  BY <1>7 DEF AllCalls, T

LEMMA NewFrame ==
  ASSUME NEW N, NEW n \in 1..N, Apart(heap, N)
  PROVE  GoodFrame(Begun(n), N) /\ Grip(Begun(n)) = {} /\ Begun(n).taking = FALSE
<1> DEFINE k == heap[n].k
           cs == AllCalls(n, Clones(k))
<1>1. heap \in Seq(Node) /\ n \in DOMAIN heap
  BY DEF Apart, Owned, Tree
<1>2. k \in DOMAIN Class
  BY <1>1, NodeHas
<1>3. Clones(k) \in Seq(Names(k))
  BY <1>2, EveryRow DEF Row, Lists
<1>4. cs \in Seq(Names(k) \X (1..N))
  BY <1>3, CallsAreTyped
<1> HIDE DEF k, cs
<1>5. /\ Blank(k) \in Node /\ Blank(k).k = k /\ Simple(Blank(k)) /\ Hold(Blank(k)) = {}
      /\ Blank(k).m \in [Names(k) -> Seq(Nat)]
  BY <1>2, BlankNode
<1>6. Begun(n) = [k |-> k, got |-> Blank(k).m, taking |-> FALSE, calls |-> cs]
  BY DEF Begun, k, cs
<1>7. Begun(n) \in Frame(N)
  BY <1>2, <1>4, <1>5, <1>6, IsFrame
<1>8. Begun(n).k = k /\ Begun(n).got = Blank(k).m /\ Begun(n).taking = FALSE
  BY <1>6
<1>9. Made(Begun(n)) = Blank(k)
  BY <1>8 DEF Made, Blank
<1>10. QED
  BY <1>5, <1>7, <1>8, <1>9, FrameHas DEF GoodFrame

LEMMA CloningCall ==
  ASSUME NEW N, Cloning(heap, stack, result_, N), CloneCall
  PROVE  Cloning(heap, stack', result_, N)
<1>1. stack # <<>> /\ "call" \in DOMAIN Top /\ Apart(heap, N) /\ Stacked(heap, stack, N)
  BY DEF CloneCall, Cloning
<1>2. /\ Len(stack) \in Nat \ {0} /\ Len(stack) \in 1..Len(stack) /\ Top = stack[Len(stack)]
      /\ Top \in Calls(N)
  BY <1>1, TopOfClone
<1> DEFINE f == Begun(Top.call)
<1>3. Top.call \in 1..N /\ Grip(Top) = {} /\ Top \notin Frame(N)
  BY <1>2, CallHas
<1>4. GoodFrame(f, N) /\ Grip(f) = {} /\ f.taking = FALSE
  BY <1>1, <1>3, NewFrame
<1>5. stack' = Append(Front(stack), f)
  BY DEF CloneCall, Begun, AllCalls, CallsTo
<1> HIDE DEF f
<1>7. Stacked(heap, stack', N)
  <2>1. \A r \in Grip(f) : r \in Grip(stack[Len(stack)]) \/ Loose(heap, stack, N, r)
    BY <1>4
  <2>2. QED
    BY <2>1, <1>1, <1>4, <1>5, StackTopReplaced
<1>8. /\ Len(stack') = Len(stack) /\ stack'[Len(stack)] = f
      /\ \A j \in 1..Len(stack) : j < Len(stack) => stack'[j] = stack[j]
  <2>1. stack \in Seq(Frame(N) \union Calls(N)) /\ f \in Frame(N) \union Calls(N)
    BY <1>1, <1>4 DEF Stacked, GoodFrame
  <2>2. QED
    BY <2>1, <1>1, <1>5, TopReplaced
<1>9. ~ Awaited(stack', N) /\ ~ Awaited(stack, N)
  <2>1. stack' # <<>>
    BY <1>2, <1>8
  <2>2. QED
    BY <2>1, <1>1, <1>2, <1>3, <1>4, <1>8 DEF Awaited
<1>10. Accounted(heap, stack', N, result_)
  <2>1. \A j \in 1..Len(stack) : Grip(stack[j]) = {} \/ (Grip(stack'[j]) = Grip(stack[j]))
    <3>1. \A j \in 1..Len(stack) : j < Len(stack) \/ j = Len(stack)
      BY <1>2
    <3>2. QED
      BY <3>1, <1>2, <1>3, <1>8
  <2>2. Accounted(heap, stack, N, result_)
    BY DEF Cloning
  <2>3. QED
    BY <2>1, <2>2, <1>8, <1>9 DEF Accounted
<1>11. QED
  BY <1>1, <1>7, <1>9, <1>10 DEF Cloning

\* A visit that waits for its next node.
Taking(f) == [f EXCEPT !.taking = TRUE]

LEMMA FrameTaking ==
  ASSUME NEW N, NEW f, GoodFrame(f, N), f.calls # <<>>
  PROVE  /\ GoodFrame(Taking(f), N) /\ Taking(f).taking = TRUE /\ Grip(Taking(f)) = Grip(f)
         /\ Head(f.calls)[1] \in Names(f.k) /\ Head(f.calls)[2] \in 1..N
<1>1. /\ f \in Frame(N) /\ f.k \in DOMAIN Class /\ f.got \in [Names(f.k) -> Seq(Nat)]
      /\ f.calls \in Seq(Names(f.k) \X (1..N)) /\ Grip(f) = Hold(Made(f)) /\ Simple(Made(f))
  BY FrameHas DEF GoodFrame
<1>2. PICK c \in DOMAIN Class :
        f \in [k : {c}, got : [Names(c) -> Seq(Nat)], taking : BOOLEAN, calls : Seq(Names(c) \X (1..N))]
  BY <1>1 DEF Frame
<1>3. /\ Taking(f) \in [k : {c}, got : [Names(c) -> Seq(Nat)], taking : BOOLEAN,
                         calls : Seq(Names(c) \X (1..N))]
      /\ Taking(f).k = f.k /\ Taking(f).got = f.got /\ Taking(f).taking = TRUE
      /\ Taking(f).calls = f.calls
  BY <1>2 DEF Taking
<1>4. Taking(f) \in Frame(N)
  BY <1>3 DEF Frame
<1>5. Taking(f).taking = TRUE
  BY <1>3
<1>6. Made(Taking(f)) = Made(f)
  BY <1>3 DEF Made
<1>7. Grip(Taking(f)) = Hold(Made(f))
  BY <1>4, <1>6, FrameHas
<1>8. Head(f.calls) \in Names(f.k) \X (1..N)
  BY <1>1, HeadAndTail
<1>9. QED
  BY <1>1, <1>3, <1>4, <1>5, <1>6, <1>7, <1>8 DEF GoodFrame

LEMMA CloningMember ==
  ASSUME NEW N, Cloning(heap, stack, result_, N), CloneMember
  PROVE  Cloning(heap, stack', result_, N)
<1> DEFINE L == Len(stack)
           f == Taking(Top)
           c == [call |-> Head(Top.calls)[2]]
           st == Append(Front(stack), f)
<1>1. /\ stack # <<>> /\ "calls" \in DOMAIN Top /\ Apart(heap, N) /\ Stacked(heap, stack, N)
      /\ Top.calls # <<>> /\ ~ Top.taking
  BY DEF CloneMember, Cloning
<1>2. L \in Nat \ {0} /\ L \in 1..L /\ Top = stack[L] /\ GoodFrame(Top, N)
  BY <1>1, TopOfClone
<1>3. /\ GoodFrame(f, N) /\ f.taking = TRUE /\ Grip(f) = Grip(Top)
      /\ Head(Top.calls)[2] \in 1..N
  BY <1>1, <1>2, FrameTaking
<1>4. stack' = Append([stack EXCEPT ![L] = f], c)
  BY DEF CloneMember, Top, Taking
<1>5. c \in Calls(N)
  BY <1>3 DEF Calls
<1>6. Top \in Frame(N) /\ f \in Frame(N) /\ stack \in Seq(Frame(N) \union Calls(N))
  BY <1>1, <1>2, <1>3 DEF GoodFrame, Stacked
<1> HIDE DEF f, c
<1>7. /\ st \in Seq(Frame(N) \union Calls(N)) /\ Len(st) = L /\ st[L] = f
      /\ \A j \in 1..L : j < L => st[j] = stack[j]
      /\ [stack EXCEPT ![L] = f] = st
  BY <1>1, <1>6, TopReplaced
<1>8. Stacked(heap, st, N)
  <2>1. \A r \in Grip(f) : r \in Grip(stack[L]) \/ Loose(heap, stack, N, r)
    BY <1>2, <1>3
  <2>2. QED
    BY <2>1, <1>1, <1>3, StackTopReplaced
<1> HIDE DEF st
<1>9. st # <<>> /\ stack' = Append(st, c)
  BY <1>2, <1>4, <1>7
<1>10. Stacked(heap, stack', N)
  BY <1>3, <1>5, <1>6, <1>7, <1>8, <1>9, StackPushed
<1>11. /\ Len(stack') = L + 1 /\ stack'[L + 1] = c
       /\ \A j \in 1..L : stack'[j] = st[j]
  BY <1>7, <1>9, AppendProperties
<1>12. \A j \in 1..L : j \in 1..L + 1 /\ Grip(stack'[j]) = Grip(stack[j])
  <2>1. \A j \in 1..L : j < L \/ j = L
    BY <1>2
  <2>2. \A j \in 1..L : j \in 1..L + 1
    BY <1>2
  <2>3. QED
    BY <2>1, <2>2, <1>2, <1>3, <1>7, <1>11
<1>13. ~ Awaited(stack', N)
  <2>1. c \notin Frame(N)
    BY <1>5, CallHas
  <2>2. stack' # <<>>
    BY <1>2, <1>11
  <2>3. QED
    BY <2>1, <2>2, <1>11 DEF Awaited
<1>14. ~ Awaited(stack, N)
  BY <1>1, <1>2 DEF Awaited
<1>15. Accounted(heap, stack', N, result_)
  <2>1. Accounted(heap, stack, N, result_)
    BY DEF Cloning
  <2>2. QED
    BY <2>1, <1>11, <1>12, <1>14 DEF Accounted
<1>16. QED
  BY <1>1, <1>10, <1>13, <1>15 DEF Cloning

-----------------------------------------------------------------------------
\* A visit that has taken r.
Took(f, r) ==
  [f EXCEPT !.calls = Tail(@), !.taking = FALSE, !.got[Head(f.calls)[1]] = Append(@, r)]

LEMMA FrameTook ==
  ASSUME NEW N, NEW f, GoodFrame(f, N), f.calls # <<>>, NEW r \in Nat, r \notin Grip(f)
  PROVE  /\ GoodFrame(Took(f, r), N) /\ Took(f, r).taking = FALSE
         /\ Grip(Took(f, r)) = Grip(f) \union {r}
<1> DEFINE x == Head(f.calls)[1]
           s == Append(f.got[x], r)
           g == [f.got EXCEPT ![x] = s]
<1>1. /\ f \in Frame(N) /\ f.k \in DOMAIN Class /\ f.got \in [Names(f.k) -> Seq(Nat)]
      /\ Made(f) \in Node
      /\ f.calls \in Seq(Names(f.k) \X (1..N)) /\ Grip(f) = Hold(Made(f)) /\ Simple(Made(f))
  BY FrameHas DEF GoodFrame
<1>2. PICK c \in DOMAIN Class :
        f \in [k : {c}, got : [Names(c) -> Seq(Nat)], taking : BOOLEAN, calls : Seq(Names(c) \X (1..N))]
  BY <1>1 DEF Frame
<1>3. c = f.k
  BY <1>2
<1>4. x \in Names(f.k) /\ Tail(f.calls) \in Seq(Names(f.k) \X (1..N))
  BY <1>1, HeadAndTail
<1>5. Made(f).k = f.k /\ Made(f).m = f.got
  BY DEF Made
<1>6. f.got[x] \in Seq(Nat) /\ ToSet(f.got[x]) \subseteq Hold(Made(f)) /\ IsInjective(f.got[x])
  <2>1. /\ \A y \in Names(f.k) : Made(f).m[y] \in Seq(Nat) /\ ToSet(Made(f).m[y]) \subseteq Hold(Made(f))
        /\ DOMAIN Made(f).m = Names(f.k)
    BY <1>1, <1>5, NodeHas
  <2>2. QED
    BY <2>1, <1>1, <1>4, <1>5 DEF Simple
<1>7. /\ s \in Seq(Nat) /\ ToSet(s) = ToSet(f.got[x]) \union {r} /\ IsInjective(s)
  <2>1. r \notin ToSet(f.got[x])
    BY <1>1, <1>6
  <2>2. QED
    BY <2>1, <1>6, AppendHolds
<1> DEFINE G == [Names(c) -> Seq(Nat)]
           C == Seq(Names(c) \X (1..N))
           t == Tail(f.calls)
<1>8. /\ Took(f, r) \in [k : {c}, got : G, taking : BOOLEAN, calls : C]
      /\ Took(f, r).k = f.k /\ Took(f, r).taking = FALSE /\ Took(f, r).got = g
  <2>1. f \in [k : {c}, got : G, taking : BOOLEAN, calls : C] /\ g \in G /\ t \in C
    BY <1>1, <1>2, <1>3, <1>4, <1>7
  <2>2. Took(f, r) = [f EXCEPT !.calls = t, !.taking = FALSE, !.got = g]
    BY DEF Took
  <2> HIDE DEF g, G, C, t
  <2>3. QED
    BY <2>1, <2>2
<1> HIDE DEF s, x
<1>9. /\ Hold(WithMember(Made(f), x, s)) = Hold(Made(f)) \union ToSet(s)
      /\ Simple(WithMember(Made(f), x, s))
  <2>1. ToSet(f.got[x]) \subseteq ToSet(s) /\ ToSet(s) \intersect Hold(Made(f)) \subseteq ToSet(f.got[x])
    BY <1>1, <1>7
  <2>2. QED
    BY <2>1, <1>1, <1>4, <1>5, <1>7, NodeGiven
<1>10. WithMember(Made(f), x, s) = [k |-> f.k, m |-> g]
  BY DEF WithMember, Made
<1> HIDE DEF g
<1>11. Took(f, r) \in Frame(N)
  BY <1>8 DEF Frame
<1>13. Made(Took(f, r)) = WithMember(Made(f), x, s)
  BY <1>8, <1>10 DEF Made
<1>14. Grip(Took(f, r)) = Hold(Made(f)) \union ToSet(s)
  BY <1>9, <1>11, <1>13, FrameHas
<1>15. Grip(Took(f, r)) = Grip(f) \union {r}
  BY <1>1, <1>6, <1>7, <1>14
<1>16. QED
  BY <1>8, <1>9, <1>11, <1>13, <1>15 DEF GoodFrame

LEMMA CloningTakes ==
  ASSUME NEW N, Cloning(heap, stack, result_, N), recurse
  PROVE  Cloning(heap, stack', result_, N)
<1> DEFINE L == Len(stack)
           f == Took(Top, result_)
<1>1. /\ stack # <<>> /\ "calls" \in DOMAIN Top /\ Apart(heap, N) /\ Stacked(heap, stack, N)
      /\ Top.taking
  BY DEF recurse, Cloning
<1>2. L \in Nat \ {0} /\ L \in 1..L /\ Top = stack[L] /\ GoodFrame(Top, N)
  BY <1>1, TopOfClone
<1>3. Top.calls # <<>> /\ Top \in Frame(N) /\ stack \in Seq(Frame(N) \union Calls(N))
  BY <1>1, <1>2 DEF GoodFrame, Stacked
<1>4. Awaited(stack, N) /\ Loose(heap, stack, N, result_)
  <2>1. Awaited(stack, N)
    BY <1>1, <1>2, <1>3 DEF Awaited
  <2>2. QED
    BY <2>1 DEF Cloning
<1>5. result_ \in Nat /\ result_ \notin Grip(Top)
  <2>1. result_ \in N + 1..Len(heap) /\ N \in Nat
    BY <1>1, <1>4 DEF Loose, Apart, Owned, Tree
  <2>2. QED
    BY <2>1, <1>2, <1>4 DEF Loose
<1>6. GoodFrame(f, N) /\ f.taking = FALSE /\ Grip(f) = Grip(Top) \union {result_}
  BY <1>2, <1>3, <1>5, FrameTook
<1>7. stack' = [stack EXCEPT ![L] = f]
  BY DEF recurse, Top, Took
<1> HIDE DEF f
<1>8. f \in Frame(N)
  BY <1>6 DEF GoodFrame
<1>9. /\ Len(stack') = L /\ stack'[L] = f /\ stack' = Append(Front(stack), f)
      /\ \A j \in 1..L : j < L => stack'[j] = stack[j]
  BY <1>1, <1>3, <1>7, <1>8, TopReplaced
<1>10. Stacked(heap, stack', N)
  <2>1. \A r \in Grip(f) : r \in Grip(stack[L]) \/ Loose(heap, stack, N, r)
    BY <1>2, <1>4, <1>6
  <2>2. QED
    BY <2>1, <1>1, <1>6, <1>9, StackTopReplaced
<1>11. ~ Awaited(stack', N)
  <2>1. stack' # <<>>
    BY <1>2, <1>9
  <2>2. QED
    BY <2>1, <1>6, <1>9 DEF Awaited
<1>12. Accounted(heap, stack', N, result_)
  <2>1. Accounted(heap, stack, N, result_)
    BY DEF Cloning
  <2>2. result_ \in Grip(stack'[L])
    BY <1>6, <1>9
  <2>3. \A j \in 1..L : Grip(stack[j]) \subseteq Grip(stack'[j])
    <3>1. \A j \in 1..L : j < L \/ j = L
      BY <1>2
    <3>2. QED
      BY <3>1, <1>2, <1>6, <1>9
  <2>4. QED
    BY <2>1, <2>2, <2>3, <1>2, <1>9 DEF Accounted
<1>13. QED
  BY <1>1, <1>10, <1>11, <1>12 DEF Cloning

-----------------------------------------------------------------------------
\* One more node of the clone, which holds no more than nodes that are loose.
LEMMA AnotherNode ==
  ASSUME NEW h, NEW N, NEW st, Apart(h, N), Stacked(h, st, N),
         NEW nd \in Node, Simple(nd), \A c \in Hold(nd) : Loose(h, st, N, c)
  PROVE  /\ Apart(Append(h, nd), N) /\ Stacked(Append(h, nd), st, N)
         /\ Loose(Append(h, nd), st, N, Len(h) + 1)
         /\ Len(Append(h, nd)) = Len(h) + 1 /\ Append(h, nd)[Len(h) + 1] = nd
         /\ Len(h) \in Nat /\ DOMAIN h = 1..Len(h) /\ DOMAIN Append(h, nd) = 1..Len(h) + 1
         /\ \A n \in DOMAIN h : Append(h, nd)[n] = h[n]
         /\ h \in Seq(Node)
<1> DEFINE g == Append(h, nd)
           L == Len(h)
<1>1. /\ Owned(h) /\ N \in DOMAIN h /\ h \in Seq(Node)
      /\ \A n \in 1..N : Hold(h[n]) \subseteq n + 1..N
      /\ \A c \in 2..N : \E n \in 1..N : c \in Hold(h[n])
      /\ \A n \in N + 1..L : Hold(h[n]) \subseteq N + 1..n - 1
  BY DEF Apart, Tree, Owned
<1>2. DOMAIN h = 1..L /\ L \in Nat /\ N \in 1..L
  BY <1>1
<1>3. /\ Hold(nd) \subseteq N + 1..L
      /\ \A n \in DOMAIN h : Hold(h[n]) \intersect Hold(nd) = {}
      /\ \A j \in 1..Len(st) : Grip(st[j]) \intersect Hold(nd) = {}
  BY DEF Loose
<1>4. Hold(nd) \subseteq DOMAIN h \ {Root}
  BY <1>2, <1>3 DEF Root
<1>5. /\ Owned(g) /\ Len(g) = L + 1 /\ DOMAIN g = 1..L + 1 /\ g[L + 1] = nd
      /\ \A n \in DOMAIN h : g[n] = h[n]
  BY <1>1, <1>3, <1>4, HeapAppend
<1> HIDE DEF g, L
<1>6. \A n \in 1..L + 1 : n \in 1..L \/ n = L + 1
  BY <1>2
<1>7. Tree(g, N)
  <2>1. N \in DOMAIN g /\ \A n \in 1..N : n \in DOMAIN h /\ g[n] = h[n]
    BY <1>2, <1>5
  <2>2. QED
    BY <2>1, <1>1 DEF Tree
<1>8. ASSUME NEW n \in N + 1..L + 1 PROVE Hold(g[n]) \subseteq N + 1..n - 1
  <2>1. CASE n = L + 1
    BY <2>1, <1>2, <1>3, <1>5
  <2>2. CASE n # L + 1
    <3>1. n \in N + 1..L /\ n \in 1..L
      BY <2>2, <1>2
    <3>2. QED
      BY <3>1, <1>1, <1>2, <1>5
  <2>3. QED
    BY <2>1, <2>2
<1>9. Apart(g, N)
  BY <1>5, <1>7, <1>8 DEF Apart
<1>10. Stacked(g, st, N)
  <2>1. \A j \in 1..Len(st) : Grip(st[j]) \subseteq N + 1..Len(g)
    <3>1. \A j \in 1..Len(st) : Grip(st[j]) \subseteq N + 1..L
      BY DEF Stacked, L
    <3>2. N + 1..L \subseteq N + 1..L + 1
      BY <1>2
    <3>3. QED
      BY <3>1, <3>2, <1>5
  <2>2. \A j \in 1..Len(st) : \A n \in DOMAIN g : Grip(st[j]) \intersect Hold(g[n]) = {}
    <3>1. \A j \in 1..Len(st) : \A n \in DOMAIN h : Grip(st[j]) \intersect Hold(h[n]) = {}
      BY DEF Stacked
    <3>2. QED
      BY <3>1, <1>2, <1>3, <1>5, <1>6
  <2>3. QED
    BY <2>1, <2>2 DEF Stacked
<1>11. Loose(g, st, N, L + 1)
  <2>1. L + 1 \in N + 1..Len(g) /\ L + 1 \notin N + 1..L /\ L + 1 \notin DOMAIN h
    BY <1>2, <1>5
  <2>2. \A n \in DOMAIN g : L + 1 \notin Hold(g[n])
    <3>1. \A n \in 1..L : Hold(h[n]) \subseteq DOMAIN h
      BY <1>1, <1>2 DEF Owned
    <3>2. QED
      BY <3>1, <2>1, <1>2, <1>3, <1>5, <1>6
  <2>3. \A j \in 1..Len(st) : L + 1 \notin Grip(st[j])
    BY <2>1 DEF Stacked, L
  <2>4. QED
    BY <2>1, <2>2, <2>3 DEF Loose
<1>12. QED
  BY <1>1, <1>2, <1>5, <1>9, <1>10, <1>11 DEF g, L

\* A visit ends: what it had, and maybe nodes that nothing held, is in nd.
LEMMA VisitDone ==
  ASSUME NEW h, NEW N, NEW st, Apart(h, N), Stacked(h, st, N), st # <<>>,
         NEW nd \in Node, Simple(nd),
         \A c \in Hold(nd) : c \in Grip(st[Len(st)]) \/ Loose(h, st, N, c),
         \A c \in N + 1..Len(h) : \/ c \in Hold(nd)
                                  \/ \E n \in DOMAIN h : c \in Hold(h[n])
                                  \/ \E j \in 1..Len(st) : j < Len(st) /\ c \in Grip(st[j])
  PROVE  Cloning(Append(h, nd), Front(st), Len(h) + 1, N)
<1> DEFINE g == Append(h, nd)
           fr == Front(st)
           L == Len(h)
<1>1. /\ Stacked(h, fr, N) /\ Awaited(fr, N)
      /\ Len(fr) = Len(st) - 1 /\ Len(st) \in Nat \ {0}
      /\ \A j \in 1..Len(st) - 1 : fr[j] = st[j] /\ j \in 1..Len(st)
  BY StackPopped
<1>2. /\ Len(st) \in 1..Len(st)
      /\ \A j \in 1..Len(st) : j < Len(st) => j \in 1..Len(st) - 1
      /\ \A j \in 1..Len(st) - 1 : j # Len(st)
  BY <1>1
<1> HIDE DEF fr
<1>3. ASSUME NEW c \in Hold(nd) PROVE Loose(h, fr, N, c)
  <2>1. CASE Loose(h, st, N, c)
    BY <2>1, <1>1 DEF Loose
  <2>2. CASE c \in Grip(st[Len(st)])
    <3>1. c \in N + 1..L /\ \A n \in DOMAIN h : c \notin Hold(h[n])
      BY <2>2, <1>2 DEF Stacked
    <3>2. \A j \in 1..Len(st) : j # Len(st) => c \notin Grip(st[j])
      BY <2>2, <1>2 DEF Stacked
    <3>3. QED
      BY <3>1, <3>2, <1>1, <1>2 DEF Loose
  <2>3. QED
    BY <2>1, <2>2, <1>3
<1>4. /\ Apart(g, N) /\ Stacked(g, fr, N) /\ Loose(g, fr, N, L + 1)
      /\ Len(g) = L + 1 /\ g[L + 1] = nd /\ L \in Nat /\ DOMAIN h = 1..L /\ DOMAIN g = 1..L + 1
      /\ \A n \in DOMAIN h : g[n] = h[n]
  BY <1>1, <1>3, AnotherNode
<1> HIDE DEF g
<1>5. Accounted(g, fr, N, L + 1)
  <2>1. SUFFICES ASSUME NEW c \in N + 1..L + 1, c # L + 1
                 PROVE  \/ \E n \in DOMAIN g : c \in Hold(g[n])
                        \/ \E j \in 1..Len(fr) : c \in Grip(fr[j])
    BY <1>1, <1>4 DEF Accounted
  <2>2. c \in N + 1..L /\ L + 1 \in DOMAIN g /\ \A n \in DOMAIN h : n \in DOMAIN g
    <3>1. N \in Nat
      BY <1>4 DEF Apart, Tree
    <3>2. QED
      BY <3>1, <2>1, <1>4
  <2>3. CASE c \in Hold(nd)
    BY <2>2, <2>3, <1>4
  <2>4. CASE \E n \in DOMAIN h : c \in Hold(h[n])
    BY <2>2, <2>4, <1>4
  <2>5. CASE \E j \in 1..Len(st) : j < Len(st) /\ c \in Grip(st[j])
    BY <2>5, <1>1, <1>2
  <2>6. QED
    BY <2>2, <2>3, <2>4, <2>5
<1>6. QED
  BY <1>1, <1>4, <1>5 DEF Cloning, g, fr, L

\* A visit that has nothing left to clone waits for nothing.
LEMMA NothingToTake ==
  ASSUME NEW N, Stacked(heap, stack, N), stack # <<>>, "calls" \in DOMAIN Top, Top.calls = <<>>
  PROVE  /\ GoodFrame(Top, N) /\ Top = stack[Len(stack)] /\ ~ Awaited(stack, N)
         /\ Len(stack) \in 1..Len(stack) /\ Grip(Top) = Hold(Made(Top))
         /\ Made(Top) \in Node /\ Simple(Made(Top))
<1>1. Top = stack[Len(stack)] /\ GoodFrame(Top, N) /\ Len(stack) \in 1..Len(stack)
  BY TopOfClone
<1>2. ~ Top.taking /\ Top \in Frame(N) /\ Simple(Made(Top))
  BY <1>1 DEF GoodFrame
<1>3. ~ Awaited(stack, N)
  BY <1>1, <1>2 DEF Awaited
<1>4. Grip(Top) = Hold(Made(Top)) /\ Made(Top) \in Node
  BY <1>2, FrameHas
<1>5. QED
  BY <1>1, <1>2, <1>3, <1>4

LEMMA CloningEndsAsIs ==
  ASSUME NEW N, Cloning(heap, stack, result_, N), CloneEnd,
         ~ (Top.k = "IfExp" /\ Top.got["elseclause"] = <<>>)
  PROVE  Cloning(heap', stack', result_', N)
<1> DEFINE nd == Made(Top)
<1>1. /\ stack # <<>> /\ "calls" \in DOMAIN Top /\ Apart(heap, N) /\ Stacked(heap, stack, N)
      /\ Top.calls = <<>> /\ Accounted(heap, stack, N, result_)
  BY DEF CloneEnd, Cloning
<1>2. /\ Top = stack[Len(stack)] /\ ~ Awaited(stack, N)
      /\ Len(stack) \in 1..Len(stack) /\ Grip(Top) = Hold(nd) /\ nd \in Node /\ Simple(nd)
  BY <1>1, NothingToTake
<1>3. heap' = heap \o <<nd>> /\ result_' = Len(heap') /\ stack' = Front(stack)
  BY DEF CloneEnd, Made
<1> HIDE DEF nd
<1>4. heap \in Seq(Node)
  BY <1>1 DEF Apart, Owned
<1>5. heap' = Append(heap, nd) /\ result_' = Len(heap) + 1
  BY <1>2, <1>3, <1>4, AppendIsConcat, AppendProperties
<1>6. \A c \in Hold(nd) : c \in Grip(stack[Len(stack)]) \/ Loose(heap, stack, N, c)
  BY <1>2
<1>7. ASSUME NEW c \in N + 1..Len(heap)
      PROVE  \/ c \in Hold(nd)
             \/ \E n \in DOMAIN heap : c \in Hold(heap[n])
             \/ \E j \in 1..Len(stack) : j < Len(stack) /\ c \in Grip(stack[j])
  <2>1. \/ \E n \in DOMAIN heap : c \in Hold(heap[n])
        \/ \E j \in 1..Len(stack) : c \in Grip(stack[j])
    BY <1>1, <1>2 DEF Accounted
  <2>2. \A j \in 1..Len(stack) : j < Len(stack) \/ j = Len(stack)
    BY <1>2
  <2>3. QED
    BY <2>1, <2>2, <1>2
<1>8. Cloning(Append(heap, nd), Front(stack), Len(heap) + 1, N)
  BY <1>1, <1>2, <1>6, <1>7, VisitDone
<1>9. QED
  BY <1>3, <1>5, <1>8

LEMMA TwoInARow ==
  ASSUME NEW S, NEW a \in S, NEW b \in S
  PROVE  <<a>> \in Seq(S) /\ <<b>> \in Seq(S) /\ <<a>> \o <<b>> = <<a, b>>
<1>1. <<a>> \in Seq(S) /\ <<b>> \in Seq(S) /\ <<a, b>> \in Seq(S) /\ Len(<<a>>) = 1
  OBVIOUS
<1>2. <<a>> \o <<b>> \in Seq(S) /\ Len(<<a>> \o <<b>>) = 2
      /\ (<<a>> \o <<b>>)[1] = a /\ (<<a>> \o <<b>>)[2] = b
  BY <1>1, ConcatProperties
<1>3. Len(<<a, b>>) = 2 /\ <<a, b>>[1] = a /\ <<a, b>>[2] = b
  OBVIOUS
<1>4. \A i \in 1..2 : i = 1 \/ i = 2
  OBVIOUS
<1>5. \A i \in 1..2 : (<<a>> \o <<b>>)[i] = <<a, b>>[i]
  BY <1>2, <1>3, <1>4
<1>6. QED
  BY <1>1, <1>2, <1>3, <1>5, SeqEqual

LEMMA IfExpIsAClass == "IfExp" \in DOMAIN Class /\ "SeqExp" \in DOMAIN Class
BY DEF Class

LEMMA CloningEndsIf ==
  ASSUME NEW N, Cloning(heap, stack, result_, N), CloneEnd,
         Top.k = "IfExp", Top.got["elseclause"] = <<>>
  PROVE  Cloning(heap', stack', result_', N)
<1> DEFINE L == Len(heap)
           empty == Blank("SeqExp")
           h == Append(heap, empty)
           nd == WithMember(Made(Top), "elseclause", <<L + 1>>)
<1>1. /\ stack # <<>> /\ "calls" \in DOMAIN Top /\ Apart(heap, N) /\ Stacked(heap, stack, N)
      /\ Top.calls = <<>> /\ Accounted(heap, stack, N, result_)
  BY DEF CloneEnd, Cloning
<1>2. /\ Top = stack[Len(stack)] /\ ~ Awaited(stack, N)
      /\ Len(stack) \in 1..Len(stack) /\ Grip(Top) = Hold(Made(Top))
      /\ Made(Top) \in Node /\ Simple(Made(Top))
  BY <1>1, NothingToTake
<1>3. empty \in Node /\ Simple(empty) /\ Hold(empty) = {}
  BY IfExpIsAClass, BlankNode
<1>4. /\ Apart(h, N) /\ Stacked(h, stack, N) /\ Loose(h, stack, N, L + 1)
      /\ Len(h) = L + 1 /\ L \in Nat /\ DOMAIN heap = 1..L /\ DOMAIN h = 1..L + 1
      /\ \A n \in DOMAIN heap : h[n] = heap[n]
      /\ heap \in Seq(Node)
  BY <1>1, <1>3, AnotherNode
<1>5. heap' = heap \o <<empty, nd>> /\ result_' = Len(heap') /\ stack' = Front(stack)
  <2>1. IfExp_ctor(Top.got) = <<empty, [k |-> "IfExp", m |-> [Top.got EXCEPT !["elseclause"] = <<L + 1>>]]>>
    BY DEF IfExp_ctor
  <2>2. nd = [k |-> "IfExp", m |-> [Top.got EXCEPT !["elseclause"] = <<L + 1>>]]
    BY DEF Made, WithMember
  <2> HIDE DEF empty, nd
  <2>3. QED
    BY <2>1, <2>2 DEF CloneEnd
<1>6. /\ Made(Top).k = "IfExp" /\ Made(Top).m["elseclause"] = <<>>
      /\ "elseclause" \in Names("IfExp")
  <2>1. "elseclause" \in Names("IfExp")
    BY DEF Names, Members, Class, IfExp, One, Opt
  <2>2. QED
    BY <2>1 DEF Made
<1>7. /\ nd \in Node /\ Simple(nd) /\ Hold(nd) = Hold(Made(Top)) \union {L + 1}
  <2>1. /\ <<L + 1>> \in Seq(Nat) /\ ToSet(<<L + 1>>) = {L + 1} /\ IsInjective(<<L + 1>>)
        /\ ToSet(<<>>) = {}
    BY <1>4, Single, None DEF Lists
  <2>2. L + 1 \notin Hold(Made(Top))
    BY <1>2, <1>4 DEF Loose
  <2> DEFINE s == <<L + 1>>
             md == Made(Top)
  <2>3. s \in Seq(Nat) /\ ToSet(s) = {L + 1} /\ IsInjective(s) /\ nd = WithMember(md, "elseclause", s)
    BY <2>1
  <2>4. /\ md \in Node /\ Simple(md) /\ "elseclause" \in Names(md.k)
        /\ ToSet(md.m["elseclause"]) = {} /\ L + 1 \notin Hold(md)
    BY <2>1, <2>2, <1>2, <1>6
  <2> HIDE DEF nd, s, md
  <2>5. ToSet(s) \intersect Hold(md) \subseteq ToSet(md.m["elseclause"])
    BY <2>3, <2>4
  <2>6. ToSet(md.m["elseclause"]) \subseteq ToSet(s)
    BY <2>4
  <2>7. nd \in Node /\ Simple(nd) /\ Hold(nd) = Hold(md) \union {L + 1}
    BY <2>3, <2>4, <2>5, <2>6, NodeGiven
  <2>8. QED
    BY <2>7 DEF md
<1> HIDE DEF empty, nd, h
<1>8. heap' = Append(h, nd) /\ result_' = Len(h) + 1
  <2>1. h = heap \o <<empty>> /\ h \in Seq(Node)
    BY <1>3, <1>4, AppendIsConcat, AppendProperties DEF h
  <2>2. Append(h, nd) = h \o <<nd>> /\ Len(Append(h, nd)) = Len(h) + 1
    BY <2>1, <1>7, AppendIsConcat, AppendProperties
  <2>3. <<empty>> \in Seq(Node) /\ <<nd>> \in Seq(Node) /\ <<empty>> \o <<nd>> = <<empty, nd>>
    BY <1>3, <1>7, TwoInARow
  <2>4. (heap \o <<empty>>) \o <<nd>> = heap \o (<<empty>> \o <<nd>>)
    BY <2>3, <1>4, ConcatAssociative
  <2>5. QED
    BY <2>1, <2>2, <2>3, <2>4, <1>5
<1>9. \A c \in Hold(nd) : c \in Grip(stack[Len(stack)]) \/ Loose(h, stack, N, c)
  BY <1>2, <1>4, <1>7
<1>10. ASSUME NEW c \in N + 1..Len(h)
       PROVE  \/ c \in Hold(nd)
              \/ \E n \in DOMAIN h : c \in Hold(h[n])
              \/ \E j \in 1..Len(stack) : j < Len(stack) /\ c \in Grip(stack[j])
  <2>1. CASE c = L + 1
    BY <2>1, <1>7
  <2>2. CASE c # L + 1
    <3>1. c \in N + 1..L
      <4>1. N \in Nat
        BY <1>4 DEF Apart, Tree
      <4>2. QED
        BY <4>1, <2>2, <1>4
    <3>2. \/ \E n \in DOMAIN heap : c \in Hold(heap[n])
          \/ \E j \in 1..Len(stack) : c \in Grip(stack[j])
      BY <3>1, <1>1, <1>2 DEF Accounted
    <3>3. \A j \in 1..Len(stack) : j < Len(stack) \/ j = Len(stack)
      BY <1>2
    <3>4. \A n \in DOMAIN heap : n \in DOMAIN h
      BY <1>4
    <3>5. QED
      BY <3>2, <3>3, <3>4, <1>2, <1>4, <1>7
  <2>3. QED
    BY <2>1, <2>2
<1>11. Cloning(Append(h, nd), Front(stack), Len(h) + 1, N)
  BY <1>1, <1>4, <1>7, <1>9, <1>10, VisitDone
<1>12. QED
  BY <1>5, <1>8, <1>11

LEMMA CloningEnds ==
  ASSUME NEW N, Cloning(heap, stack, result_, N), CloneEnd
  PROVE  Cloning(heap', stack', result_', N)
BY CloningEndsAsIs, CloningEndsIf

\* For every node, what is visited, and what is deleted, after it.
VisitedNext == [n \in DOMAIN heap |-> Given(n, Visits(heap[n].k))]
DeletedNext == [n \in DOMAIN heap |-> Given(n, Deleted[heap[n].k])]

LEMMA GivenHolds ==
  ASSUME NEW n, heap[n] \in Node, NEW l, NEW S, Lists(l, S), S \subseteq Names(heap[n].k)
  PROVE  /\ Given(n, l) \in Seq(Nat)
         /\ ToSet(Given(n, l)) = UNION {ToSet(heap[n].m[x]) : x \in S}
         /\ ToSet(Given(n, l)) \subseteq Hold(heap[n])
         /\ S = Names(heap[n].k) => ToSet(Given(n, l)) = Hold(heap[n])
         /\ Simple(heap[n]) => IsInjective(Given(n, l))
<1>1. Given(n, l) = FlattenSeq([i \in DOMAIN l |-> heap[n].m[l[i]]])
  BY DEF Given
<1>2. QED
  BY <1>1, Gathered

LEMMA DeletesFollow ==
  ASSUME Owned(heap)
  PROVE  /\ Follows(heap, DeletedNext)
         /\ \A n \in DOMAIN heap :
              ToSet(DeletedNext[n]) = UNION {ToSet(heap[n].m[x]) : x \in Names(heap[n].k) \ Forgotten(heap[n].k)}
<1>1. SUFFICES ASSUME NEW n \in DOMAIN heap
               PROVE  /\ DeletedNext[n] \in Seq(Nat) /\ IsInjective(DeletedNext[n])
                      /\ ToSet(DeletedNext[n]) \subseteq Hold(heap[n])
                      /\ ToSet(DeletedNext[n])
                           = UNION {ToSet(heap[n].m[x]) : x \in Names(heap[n].k) \ Forgotten(heap[n].k)}
  BY DEF Follows
<1> DEFINE k == heap[n].k
           l == Deleted[k]
           S == Names(k) \ Forgotten(k)
<1>2. heap[n] \in Node /\ Simple(heap[n]) /\ k \in DOMAIN Class
  BY NodeHas DEF Owned
<1>3. Lists(l, S) /\ S \subseteq Names(heap[n].k)
  BY <1>2, EveryRow DEF Row
<1>4. DeletedNext[n] = Given(n, l)
  BY DEF DeletedNext
<1> HIDE DEF l
<1>5. QED
  BY <1>2, <1>3, <1>4, GivenHolds

LEMMA VisitsFollow ==
  ASSUME Owned(heap), ~ HasObjects
  PROVE  /\ Follows(heap, VisitedNext)
         /\ \A n \in DOMAIN heap : ToSet(VisitedNext[n]) = Hold(heap[n])
<1>1. SUFFICES ASSUME NEW n \in DOMAIN heap
               PROVE  /\ VisitedNext[n] \in Seq(Nat) /\ IsInjective(VisitedNext[n])
                      /\ ToSet(VisitedNext[n]) = Hold(heap[n])
  BY DEF Follows
<1> DEFINE k == heap[n].k
           l == Visits(k)
<1>2. heap[n] \in Node /\ Simple(heap[n]) /\ k \in DOMAIN Class /\ k \notin ObjectClasses
  BY NodeHas DEF Owned, HasObjects
<1>3. Lists(l, Names(heap[n].k))
  BY <1>2, EveryRow DEF Row
<1>4. VisitedNext[n] = Given(n, l)
  BY DEF VisitedNext
<1> HIDE DEF l
<1>5. QED
  BY <1>2, <1>3, <1>4, GivenHolds

\* Nothing is done twice, and what is done is not below what is not.
LEMMA DoneOnce ==
  ASSUME NEW h, Owned(h), NEW done, NEW due, NEW roots, NEW kids,
         Worklist(h, done, due, roots, kids),
         \A n \in DOMAIN h : roots \intersect Hold(h[n]) = {}
  PROVE  /\ IsInjective(done) /\ ToSet(done) \subseteq DOMAIN h
         /\ \A n \in DOMAIN h \ ToSet(done) : Hold(h[n]) \intersect ToSet(done) = {}
         /\ \A r : r \notin roots /\ (\A n \in DOMAIN h : r \notin Hold(h[n]))
                   => r \notin ToSet(done) \union ToSet(due)
<1>1. ToSet(done) \subseteq DOMAIN h /\ IsInjective(done)
  BY HeldBySeq DEF Worklist
<1>2. \A c \in ToSet(done) \union ToSet(due) : c \in roots \/ \E n \in ToSet(done) : c \in Hold(h[n])
  BY DEF Worklist
<1>3. ASSUME NEW n \in DOMAIN h \ ToSet(done), NEW c \in Hold(h[n]), c \in ToSet(done)
      PROVE  FALSE
  <2>1. PICK m \in ToSet(done) : c \in Hold(h[m])
    BY <1>2, <1>3
  <2>2. QED
    BY <2>1, <1>1, <1>3, TheOwner
<1>4. QED
  BY <1>1, <1>2, <1>3

\* When nothing is due, the whole tree was done.
LEMMA AllDone ==
  ASSUME NEW h, NEW N, Tree(h, N), NEW done, NEW kids,
         Worklist(h, done, <<>>, {Root}, kids),
         \A n \in 1..N : ToSet(kids[n]) = Hold(h[n])
  PROVE  1..N \subseteq ToSet(done)
<1> DEFINE Bad == {n \in Nat : n \in 1..N /\ n \notin ToSet(done)}
<1>1. SUFFICES ASSUME Bad # {} PROVE FALSE
  OBVIOUS
<1>2. PICK c \in Bad : \A j \in Bad : c <= j
  <2>1. Bad \in SUBSET Nat
    OBVIOUS
  <2> HIDE DEF Bad
  <2>2. QED
    BY <1>1, <2>1, LeastElement
<1>3. ToSet(<<>>) = {} /\ Root \in ToSet(done)
  BY None DEF Worklist, Lists
<1>4. c \in 2..N
  BY <1>3 DEF Root
<1>5. PICK n \in 1..N : c \in Hold(h[n])
  BY <1>4 DEF Tree
<1>6. n < c
  BY <1>4, <1>5 DEF Tree
<1>7. n \in ToSet(done)
  BY <1>2, <1>5, <1>6
<1>8. c \in ToSet(done)
  BY <1>3, <1>5, <1>7 DEF Worklist
<1>9. QED
  BY <1>8

-----------------------------------------------------------------------------
(* The invariant, a disjunct for every phase.                              *)

TheTree == Owned(heap) /\ Tree(heap, Len(heap)) /\ Arity(heap)

\* Once the tree was visited, and as long as no node was cloned.
Visited == ~ HasObjects => Lists(visited, DOMAIN heap)

Building == /\ phase = "build" /\ Growing
            /\ freed = <<>> /\ visited = <<>> /\ result_ = Null
Dumping == /\ phase = "dump" /\ TheTree
           /\ freed = <<>> /\ visited = <<>> /\ result_ = Null
Visiting == /\ phase = "visit" /\ TheTree /\ ~ HasObjects
            /\ freed = <<>> /\ result_ = Null
            /\ Worklist(heap, visited, stack, {Root}, VisitedNext)
Copying == /\ phase = "clone" /\ freed = <<>>
           /\ \E N \in DOMAIN heap : Cloning(heap, stack, result_, N)
           /\ result_ = Null => Visited
Crashed == phase = "crash" /\ freed = <<>>
Deleting == /\ phase = "delete"
            /\ \E N \in DOMAIN heap : Cloning(heap, <<>>, result_, N)
            /\ Worklist(heap, freed, stack, {Root}, DeletedNext)
Exiting == /\ phase = "exit"
           /\ \E N \in DOMAIN heap : Cloning(heap, <<>>, result_, N)
           /\ Worklist(heap, freed, stack, {Root, result_}, DeletedNext)

WalksInv ==
  Building \/ Dumping \/ Visiting \/ Copying \/ Crashed \/ Deleting \/ Exiting

LEMMA PhaseOf ==
  ASSUME WalksInv
  PROVE  /\ phase = "build" => Building
         /\ phase = "dump" => Dumping
         /\ phase = "visit" => Visiting
         /\ phase = "clone" => Copying
         /\ phase = "delete" => Deleting
         /\ phase = "exit" => Exiting
BY DEF WalksInv, Building, Dumping, Visiting, Copying, Crashed, Deleting, Exiting

LEMMA NotFreedBefore ==
  ASSUME WalksInv, phase \notin {"delete", "exit"}
  PROVE  freed = <<>>
BY DEF WalksInv, Building, Dumping, Visiting, Copying, Crashed, Deleting, Exiting

LEMMA WalksInit == ASSUME Init PROVE WalksInv
BY Starts DEF Init, WalksInv, Building

\* The clone is about to begin.
LEMMA CloningBegins ==
  ASSUME TheTree
  PROVE  /\ Cloning(heap, <<[call |-> Root]>>, result_, Len(heap)) /\ Len(heap) \in DOMAIN heap
         /\ [call |-> Root] \in Calls(Len(heap)) /\ ~ Awaited(<<[call |-> Root]>>, Len(heap))
<1> DEFINE N == Len(heap)
           c == [call |-> Root]
           st == <<c>>
<1>1. Owned(heap) /\ Tree(heap, N) /\ N \in Nat /\ N \in DOMAIN heap
  BY DEF TheTree, Owned, Tree
<1>2. \A n \in N + 1..N : FALSE
  BY <1>1
<1>3. Apart(heap, N)
  BY <1>1, <1>2 DEF Apart
<1>4. Root \in 1..N
  BY <1>1 DEF Root, Owned
<1>5. c \in Calls(N)
  BY <1>4 DEF Calls
<1>6. Grip(c) = {} /\ c \notin Frame(N)
  BY <1>5, CallHas
<1> HIDE DEF c
<1>7. st \in Seq(Frame(N) \union Calls(N)) /\ Len(st) = 1 /\ st[1] = c /\ st # <<>>
  BY <1>5
<1>8. \A j \in 1..1 : j = 1
  OBVIOUS
<1> HIDE DEF st
<1>9. Stacked(heap, st, N)
  BY <1>6, <1>7, <1>8 DEF Stacked
<1>10. ~ Awaited(st, N)
  BY <1>6, <1>7 DEF Awaited
<1>11. Accounted(heap, st, N, result_)
  BY <1>2 DEF Accounted
<1>12. Cloning(heap, st, result_, N)
  BY <1>3, <1>9, <1>10, <1>11 DEF Cloning
<1>13. QED
  BY <1>1, <1>5, <1>10, <1>12 DEF st, c

LEMMA CopyBegins ==
  ASSUME TheTree, Visited, freed = <<>>, result_ = Null,
         phase' = "clone", stack' = <<[call |-> Root]>>, UNCHANGED <<heap, visited, result_, freed>>
  PROVE  Copying'
<1>1. Cloning(heap, <<[call |-> Root]>>, result_, Len(heap)) /\ Len(heap) \in DOMAIN heap
  BY CloningBegins
<1>2. \E M \in DOMAIN heap' : Cloning(heap', stack', result_', M)
  BY <1>1
<1>3. Visited'
  BY DEF Visited, HasObjects
<1>4. QED
  BY <1>2, <1>3 DEF Copying

\* What follows a node is not changed when the heap is not.
LEMMA NextUnchanged ==
  ASSUME heap' = heap
  PROVE  VisitedNext' = VisitedNext /\ DeletedNext' = DeletedNext
BY DEF VisitedNext, DeletedNext, Given

\* The root is no child.
LEMMA RootIsFree ==
  ASSUME NEW h, Owned(h)
  PROVE  \A n \in DOMAIN h : {Root} \intersect Hold(h[n]) = {}
BY DEF Owned

LEMMA DumpingKept ==
  ASSUME Dumping, phase' = "dump", UNCHANGED <<heap, visited, result_, freed>>
  PROVE  Dumping'
BY DEF Dumping, TheTree

LEMMA BuildingOn == ASSUME Building, Build PROVE Building'
<1>1. Growing'
  BY Builds DEF Building
<1>2. QED
  BY <1>1 DEF Building, Build, dumper

LEMMA BuildingEnds == ASSUME Building, Built PROVE Dumping'
<1>1. TheTree
  BY DEF Building, Growing, TheTree
<1>2. QED
  BY <1>1 DEF Building, Built, Dumping, TheTree, tree

LEMMA DumpingEnds == ASSUME Dumping, EndOfDump PROVE Copying' \/ Visiting'
<1>1. TheTree /\ freed = <<>> /\ visited = <<>> /\ result_ = Null
      /\ UNCHANGED <<heap, visited, result_, freed>>
  BY DEF Dumping, EndOfDump, tree
<1>2. CASE HasObjects
  <2>1. phase' = "clone" /\ stack' = <<[call |-> Root]>>
    BY <1>2 DEF EndOfDump
  <2>2. Visited
    BY <1>2 DEF Visited
  <2>3. QED
    BY <1>1, <2>1, <2>2, CopyBegins
<1>3. CASE ~ HasObjects
  <2>1. phase' = "visit" /\ stack' = <<Root>>
    BY <1>3 DEF EndOfDump
  <2>2. Root \in DOMAIN heap
    BY <1>1 DEF TheTree, Owned, Root
  <2>3. Worklist(heap, <<>>, <<Root>>, {Root}, VisitedNext)
    BY <2>2, WorklistStart
  <2>4. (~ HasObjects)' /\ TheTree'
    BY <1>1, <1>3 DEF HasObjects, TheTree
  <2>5. Worklist(heap', visited', stack', {Root}, VisitedNext')
    BY <1>1, <2>1, <2>3, NextUnchanged
  <2>6. QED
    BY <1>1, <2>1, <2>4, <2>5 DEF Visiting, Root
<1>4. QED
  BY <1>2, <1>3

LEMMA VisitingOn == ASSUME Visiting, Visit PROVE Visiting'
<1>1. /\ Owned(heap) /\ ~ HasObjects /\ Worklist(heap, visited, stack, {Root}, VisitedNext)
      /\ stack # <<>> /\ UNCHANGED <<heap, phase, result_, freed>>
  BY DEF Visiting, Visit, TheTree, tree
<1>2. Head(stack) \in DOMAIN heap
  BY <1>1, HeadAndTail DEF Worklist
<1>3. /\ visited' = Append(visited, Head(stack))
      /\ stack' = VisitedNext[Head(stack)] \o Tail(stack)
  BY <1>2 DEF Visit, VisitedNext
<1>4. Follows(heap, VisitedNext)
  BY <1>1, VisitsFollow
<1>5. \A n \in DOMAIN heap : {Root} \intersect Hold(heap[n]) = {}
  BY <1>1, RootIsFree
<1>6. Worklist(heap, visited', stack', {Root}, VisitedNext)
  BY <1>1, <1>3, <1>4, <1>5, WorklistStep
<1>7. Worklist(heap', visited', stack', {Root}, VisitedNext')
  BY <1>1, <1>6, NextUnchanged
<1>8. TheTree' /\ (~ HasObjects)'
  BY <1>1 DEF Visiting, TheTree, HasObjects
<1>9. QED
  BY <1>1, <1>7, <1>8 DEF Visiting, Root

LEMMA VisitingEnds == ASSUME Visiting, EndOfVisit PROVE Copying'
<1>1. /\ TheTree /\ ~ HasObjects /\ Worklist(heap, visited, <<>>, {Root}, VisitedNext)
      /\ phase' = "clone" /\ stack' = <<[call |-> Root]>>
      /\ UNCHANGED <<heap, visited, result_, freed>> /\ freed = <<>> /\ result_ = Null
  BY DEF Visiting, EndOfVisit, tree
<1> DEFINE N == Len(heap)
<1>2. Owned(heap) /\ Tree(heap, N) /\ DOMAIN heap = 1..N
  BY <1>1 DEF TheTree, Owned
<1>3. \A n \in 1..N : ToSet(VisitedNext[n]) = Hold(heap[n])
  BY <1>1, <1>2, VisitsFollow
<1>4. 1..N \subseteq ToSet(visited)
  BY <1>1, <1>2, <1>3, AllDone
<1>5. visited \in Seq(DOMAIN heap) /\ IsInjective(visited)
  BY <1>1 DEF Worklist
<1>6. Lists(visited, DOMAIN heap)
  BY <1>2, <1>4, <1>5, HeldBySeq DEF Lists
<1>7. QED
  BY <1>1, <1>6, CopyBegins DEF Visited

LEMMA CopyingOn == ASSUME Copying, CloneCall \/ CloneMember \/ recurse PROVE Copying'
<1>1. /\ phase = "clone" /\ freed = <<>>
      /\ UNCHANGED <<heap, phase, visited, result_, freed>>
  BY DEF Copying, CloneCall, CloneMember, recurse, tree
<1>2. PICK N \in DOMAIN heap : Cloning(heap, stack, result_, N)
  BY DEF Copying
<1>3. Cloning(heap, stack', result_, N)
  BY <1>2, CloningCall, CloningMember, CloningTakes
<1>4. \E M \in DOMAIN heap' : Cloning(heap', stack', result_', M)
  BY <1>1, <1>3
<1>5. result_' = Null => Visited'
  BY <1>1 DEF Copying, Visited, HasObjects
<1>6. QED
  BY <1>1, <1>4, <1>5 DEF Copying

LEMMA CopyingEndsOne == ASSUME Copying, CloneEnd PROVE Copying'
<1>1. /\ phase = "clone" /\ freed = <<>> /\ UNCHANGED <<phase, visited, freed>>
      /\ result_' = Len(heap')
  BY DEF Copying, CloneEnd
<1>2. PICK N \in DOMAIN heap : Cloning(heap, stack, result_, N)
  BY DEF Copying
<1>3. Cloning(heap', stack', result_', N)
  BY <1>2, CloningEnds
<1>4. N \in DOMAIN heap' /\ heap' \in Seq(Node)
  BY <1>3 DEF Cloning, Apart, Tree, Owned
<1>5. result_' # Null
  BY <1>1, <1>4, AstWalksAssumption
<1>6. QED
  BY <1>1, <1>3, <1>4, <1>5 DEF Copying

LEMMA DeletingBegins == ASSUME Copying, apply PROVE Deleting'
<1>1. /\ phase = "clone" /\ freed = <<>> /\ stack = <<>> /\ phase' = "delete" /\ stack' = <<Root>>
      /\ UNCHANGED <<heap, result_, freed>>
  BY DEF Copying, apply, tree
<1>2. PICK N \in DOMAIN heap : Cloning(heap, <<>>, result_, N)
  BY <1>1 DEF Copying
<1>3. Root \in DOMAIN heap
  BY <1>2 DEF Cloning, Apart, Owned, Root
<1>4. Worklist(heap, <<>>, <<Root>>, {Root}, DeletedNext)
  BY <1>3, WorklistStart
<1>5. Worklist(heap', freed', stack', {Root}, DeletedNext')
  BY <1>1, <1>4, NextUnchanged
<1>6. \E M \in DOMAIN heap' : Cloning(heap', <<>>, result_', M)
  BY <1>1, <1>2
<1>7. QED
  BY <1>1, <1>5, <1>6 DEF Deleting, Root

\* The root of the clone is no child either.
LEMMA RootsAreFree ==
  ASSUME NEW N, Cloning(heap, <<>>, result_, N)
  PROVE  /\ Owned(heap) /\ result_ \in DOMAIN heap /\ result_ # Root
         /\ \A n \in DOMAIN heap : result_ \notin Hold(heap[n])
         /\ \A n \in DOMAIN heap : {Root, result_} \intersect Hold(heap[n]) = {}
<1>1. Awaited(<<>>, N)
  BY DEF Awaited
<1>2. Loose(heap, <<>>, N, result_) /\ Owned(heap) /\ N \in DOMAIN heap
  BY <1>1 DEF Cloning, Apart, Tree
<1>3. DOMAIN heap = 1..Len(heap) /\ Len(heap) \in Nat
  BY <1>2 DEF Owned
<1>4. result_ \in DOMAIN heap /\ result_ # Root
  BY <1>2, <1>3 DEF Loose, Root
<1>5. QED
  BY <1>2, <1>4, RootIsFree DEF Loose

LEMMA DeletingOn == ASSUME Deleting \/ Exiting, delete PROVE Deleting' \/ Exiting'
<1>1. /\ stack # <<>> /\ UNCHANGED <<heap, phase, result_>>
      /\ \E N \in DOMAIN heap : Cloning(heap, <<>>, result_, N)
  BY DEF Deleting, Exiting, delete, tree
<1>2. PICK N \in DOMAIN heap : Cloning(heap, <<>>, result_, N)
  BY <1>1
<1>3. /\ Owned(heap) /\ \A n \in DOMAIN heap : {Root, result_} \intersect Hold(heap[n]) = {}
      /\ \A n \in DOMAIN heap : {Root} \intersect Hold(heap[n]) = {}
  BY <1>2, RootsAreFree, RootIsFree
<1>4. Follows(heap, DeletedNext)
  BY <1>3, DeletesFollow
<1>5. ASSUME NEW roots, Worklist(heap, freed, stack, roots, DeletedNext),
             \A n \in DOMAIN heap : roots \intersect Hold(heap[n]) = {}
      PROVE  Worklist(heap', freed', stack', roots, DeletedNext')
  <2>1. Head(stack) \in DOMAIN heap
    BY <1>1, <1>5, HeadAndTail DEF Worklist
  <2>2. /\ freed' = Append(freed, Head(stack))
        /\ stack' = DeletedNext[Head(stack)] \o Tail(stack)
    BY <2>1 DEF delete, DeletedNext
  <2>3. Worklist(heap, freed', stack', roots, DeletedNext)
    BY <1>1, <1>3, <1>4, <1>5, <2>2, WorklistStep
  <2>4. QED
    BY <1>1, <2>3, NextUnchanged
<1>6. \E M \in DOMAIN heap' : Cloning(heap', <<>>, result_', M)
  BY <1>1, <1>2
<1>7. CASE Deleting
  <2>1. Worklist(heap', freed', stack', {Root}, DeletedNext')
    BY <1>3, <1>5, <1>7 DEF Deleting
  <2>2. QED
    BY <1>1, <1>6, <1>7, <2>1 DEF Deleting, Root
<1>8. CASE Exiting
  <2>1. Worklist(heap', freed', stack', {Root, result_}, DeletedNext')
    BY <1>3, <1>5, <1>8 DEF Exiting
  <2>2. QED
    BY <1>1, <1>6, <1>8, <2>1 DEF Exiting, Root
<1>9. QED
  BY <1>7, <1>8

LEMMA ExitBegins == ASSUME Deleting, exit PROVE Exiting'
<1>1. /\ stack = <<>> /\ phase' = "exit" /\ stack' = <<result_>> /\ UNCHANGED <<heap, result_, freed>>
      /\ Worklist(heap, freed, <<>>, {Root}, DeletedNext)
  BY DEF Deleting, exit, tree
<1>2. PICK N \in DOMAIN heap : Cloning(heap, <<>>, result_, N)
  BY DEF Deleting
<1>3. /\ Owned(heap) /\ result_ \in DOMAIN heap /\ result_ # Root
      /\ \A n \in DOMAIN heap : result_ \notin Hold(heap[n])
      /\ \A n \in DOMAIN heap : {Root} \intersect Hold(heap[n]) = {}
  BY <1>2, RootsAreFree, RootIsFree
<1>4. result_ \notin ToSet(freed)
  BY <1>1, <1>3, DoneOnce
<1>5. ToSet(<<>>) = {} /\ ToSet(<<result_>>) = {result_} /\ IsInjective(<<result_>>)
      /\ <<result_>> \in Seq(DOMAIN heap)
  BY <1>3, None, Single DEF Lists
<1>6. Worklist(heap, freed, <<result_>>, {Root, result_}, DeletedNext)
  <2>1. /\ freed \in Seq(DOMAIN heap) /\ IsInjective(freed)
        /\ \A c \in ToSet(freed) : c \in {Root} \/ \E n \in ToSet(freed) : c \in Hold(heap[n])
        /\ \A n \in ToSet(freed) : ToSet(DeletedNext[n]) \subseteq ToSet(freed)
        /\ Root \in ToSet(freed)
    BY <1>1, <1>5 DEF Worklist
  <2>2. QED
    BY <2>1, <1>4, <1>5 DEF Worklist
<1>7. Worklist(heap', freed', stack', {Root, result_'}, DeletedNext')
  BY <1>1, <1>6, NextUnchanged
<1>8. \E M \in DOMAIN heap' : Cloning(heap', <<>>, result_', M)
  BY <1>1, <1>2
<1>9. QED
  BY <1>1, <1>7, <1>8 DEF Exiting, Root

LEMMA WalksNext == ASSUME WalksInv, Next PROVE WalksInv'
<1>1. CASE Build
  <2>1. Building
    BY <1>1, PhaseOf DEF Build
  <2>2. QED
    BY <1>1, <2>1, BuildingOn DEF WalksInv
<1>2. CASE Built
  <2>1. Building
    BY <1>2, PhaseOf DEF Built
  <2>2. QED
    BY <1>2, <2>1, BuildingEnds DEF WalksInv
<1>3. CASE DumpNode \/ DumpMember \/ DumpEnd
  <2>1. Dumping /\ phase' = "dump" /\ UNCHANGED <<heap, visited, result_, freed>>
    BY <1>3, PhaseOf DEF DumpNode, DumpMember, DumpEnd, tree
  <2>2. QED
    BY <2>1, DumpingKept DEF WalksInv
<1>4. CASE EndOfDump
  <2>1. Dumping
    BY <1>4, PhaseOf DEF EndOfDump
  <2>2. QED
    BY <1>4, <2>1, DumpingEnds DEF WalksInv
<1>5. CASE Visit
  <2>1. Visiting
    BY <1>5, PhaseOf DEF Visit
  <2>2. QED
    BY <1>5, <2>1, VisitingOn DEF WalksInv
<1>6. CASE EndOfVisit
  <2>1. Visiting
    BY <1>6, PhaseOf DEF EndOfVisit
  <2>2. QED
    BY <1>6, <2>1, VisitingEnds DEF WalksInv
<1>7. CASE CloneCall \/ CloneMember \/ recurse
  <2>1. Copying
    BY <1>7, PhaseOf DEF CloneCall, CloneMember, recurse, Copying
  <2>2. QED
    BY <1>7, <2>1, CopyingOn DEF WalksInv
<1>8. CASE CloneEnd
  <2>1. Copying
    BY <1>8, PhaseOf DEF CloneEnd
  <2>2. QED
    BY <1>8, <2>1, CopyingEndsOne DEF WalksInv
<1>9. CASE CheckDropped
  <2>1. phase' = "crash" /\ freed' = freed /\ phase \notin {"delete", "exit"}
    BY <1>9 DEF CheckDropped
  <2>2. freed = <<>>
    BY <2>1, NotFreedBefore
  <2>3. QED
    BY <2>1, <2>2 DEF WalksInv, Crashed
<1>10. CASE apply
  <2>1. Copying
    BY <1>10, PhaseOf DEF apply
  <2>2. QED
    BY <1>10, <2>1, DeletingBegins DEF WalksInv
<1>11. CASE delete
  <2>1. Deleting \/ Exiting
    BY <1>11, PhaseOf DEF delete
  <2>2. QED
    BY <1>11, <2>1, DeletingOn DEF WalksInv
<1>12. CASE exit
  <2>1. Deleting
    BY <1>12, PhaseOf DEF exit
  <2>2. QED
    BY <1>12, <2>1, ExitBegins DEF WalksInv
<1>13. QED
  BY <1>1, <1>2, <1>3, <1>4, <1>5, <1>6, <1>7, <1>8, <1>9, <1>10, <1>11, <1>12 DEF Next

LEMMA WalksStutter == ASSUME WalksInv, UNCHANGED vars PROVE WalksInv'
<1>1. UNCHANGED <<heap, todo, phase, stack, visited, result_, freed>>
  BY DEF vars, tree
<1>2. VisitedNext' = VisitedNext /\ DeletedNext' = DeletedNext
  BY <1>1, NextUnchanged
<1>3. Visited' <=> Visited
  BY <1>1 DEF Visited, HasObjects
<1>4. (TheTree' <=> TheTree) /\ (HasObjects' <=> HasObjects) /\ (Growing' <=> Growing)
  BY <1>1 DEF TheTree, HasObjects, Growing
<1>5. (Copying' <=> Copying) /\ (Deleting' <=> Deleting) /\ (Exiting' <=> Exiting)
  BY <1>1, <1>2, <1>3 DEF Copying, Deleting, Exiting
<1>6. QED
  BY <1>1, <1>2, <1>4, <1>5 DEF WalksInv, Building, Dumping, Visiting, Crashed

LEMMA WalksKept == Spec => []WalksInv
<1>1. Init => WalksInv
  BY WalksInit
<1>2. WalksInv /\ [Next]_vars => WalksInv'
  BY WalksNext, WalksStutter
<1>3. QED
  BY <1>1, <1>2, PTL DEF Spec

LEMMA OneOwnerOneDelete == WalksInv => NothingIsFreedTwice
<1> SUFFICES ASSUME WalksInv PROVE NothingIsFreedTwice
  OBVIOUS
<1>1. CASE phase \notin {"delete", "exit"}
  <2>1. freed = <<>> /\ ToSet(<<>>) = {} /\ IsInjective(<<>>)
    BY <1>1, NotFreedBefore, None DEF Lists
  <2>2. QED
    BY <1>1, <2>1 DEF NothingIsFreedTwice
<1>2. CASE Deleting \/ Exiting
  <2>1. PICK N \in DOMAIN heap : Cloning(heap, <<>>, result_, N)
    BY <1>2 DEF Deleting, Exiting
  <2>2. /\ Owned(heap) /\ result_ # Root
        /\ \A n \in DOMAIN heap : result_ \notin Hold(heap[n])
        /\ \A n \in DOMAIN heap : {Root, result_} \intersect Hold(heap[n]) = {}
        /\ \A n \in DOMAIN heap : {Root} \intersect Hold(heap[n]) = {}
    BY <2>1, RootsAreFree, RootIsFree
  <2>3. PICK roots : /\ Worklist(heap, freed, stack, roots, DeletedNext)
                     /\ \A n \in DOMAIN heap : roots \intersect Hold(heap[n]) = {}
                     /\ phase = "delete" => roots = {Root}
    BY <1>2, <2>2 DEF Deleting, Exiting
  <2>4. /\ IsInjective(freed) /\ ToSet(freed) \subseteq DOMAIN heap
        /\ \A n \in DOMAIN heap \ ToSet(freed) : Hold(heap[n]) \intersect ToSet(freed) = {}
        /\ result_ \notin roots => result_ \notin ToSet(freed)
    BY <2>2, <2>3, DoneOnce
  <2>5. \A n \in DOMAIN heap : ToSet(Children(n)) = Hold(heap[n])
    BY <2>2, ChildrenHeld DEF Owned
  <2>6. QED
    BY <2>2, <2>3, <2>4, <2>5 DEF NothingIsFreedTwice
<1>3. QED
  BY <1>1, <1>2, PhaseOf

\* No node is deleted twice, whatever the tree: the clone shares none with the
\* original (src/src/astclone/cloner.cc, the destructors of src/src/ast).
THEOREM NoDoubleDelete == Spec => []NothingIsFreedTwice
BY WalksKept, OneOwnerOneDelete, PTL

\* The DefaultVisitor goes through every node of a tree without objects, once
\* (src/src/ast/default-visitor.hxx).
THEOREM VisitsAreComplete == Spec => []EveryNodeIsVisited
<1>1. WalksInv => EveryNodeIsVisited
  <2>1. SUFFICES ASSUME WalksInv, phase = "clone", result_ = Null, ~ HasObjects
                 PROVE  IsInjective(visited) /\ ToSet(visited) = DOMAIN heap
    BY DEF EveryNodeIsVisited
  <2>2. Lists(visited, DOMAIN heap)
    BY <2>1, PhaseOf DEF Copying, Visited
  <2>3. QED
    BY <2>2 DEF Lists
<1>2. QED
  BY <1>1, WalksKept, PTL
=============================================================================

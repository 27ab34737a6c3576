--------------------------- MODULE ScopedMap_proofs ---------------------------
(***************************************************************************)
(* The symbol table keeps its types, and implements an Environment, for    *)
(* every set of keys and data and every nesting of scopes.                 *)
(***************************************************************************)
EXTENDS ScopedMap, SequenceTheorems, WellFoundedInduction, TLAPS

-----------------------------------------------------------------------------
(* Extrema of sets of natural numbers.                                     *)

LEMMA LeastNatural ==
  ASSUME NEW T, T \subseteq Nat, T # {}
  PROVE  \E x \in T : \A y \in T : x <= y
<1>1. PICK x \in T : \A y \in T : <<y, x>> \notin OpToRel(<, Nat)
  BY WFMin, NatLessThanWellFounded, Zenon
<1>2. \A y \in T : ~(y < x)
  <2> SUFFICES ASSUME NEW y \in T, y < x
               PROVE  FALSE
    OBVIOUS
  <2>1. y \in Nat /\ x \in Nat
    OBVIOUS
  <2>2. <<y, x>> \in OpToRel(<, Nat)
    BY <2>1, Zenon DEF OpToRel
  <2> QED  BY <1>1, <2>2
<1> QED  BY <1>2

LEMMA GreatestUpTo ==
  ASSUME NEW n \in Nat, NEW T, T \subseteq 1..n, T # {}
  PROVE  \E x \in T : \A y \in T : y <= x
<1> DEFINE Gaps == {g \in Nat : n - g \in T}
<1>1. Gaps \subseteq Nat
  OBVIOUS
<1>2. Gaps # {}
  <2>1. PICK t \in T : TRUE
    OBVIOUS
  <2>2. n - t \in Nat /\ n - (n - t) = t
    BY <2>1
  <2> QED  BY <2>1, <2>2
<1>3. PICK g \in Gaps : \A h \in Gaps : g <= h
  <2> HIDE DEF Gaps
  <2> QED  BY <1>1, <1>2, LeastNatural
<1>4. \A y \in T : n - y \in Gaps
  BY SMT
<1>5. \A y \in T : y <= n - g
  BY <1>3, <1>4, SMT
<1>6. n - g \in T
  BY <1>3
<1> QED  BY <1>5, <1>6

-----------------------------------------------------------------------------
(* What get answers.                                                       *)

LEMMA InnermostHolder ==
  ASSUME NEW s, NEW n \in Nat, NEW k, Holders(s, n, k) # {}
  PROVE  \E i \in Holders(s, n, k) : \A j \in Holders(s, n, k) : j <= i
<1>1. Holders(s, n, k) \subseteq 1..n
  BY DEF Holders
<1> QED  BY <1>1, GreatestUpTo

\* get only depends on the scopes it may search.
LEMMA GetAgrees ==
  ASSUME NEW s, NEW t, NEW n \in Nat, NEW k, \A i \in 1..n : s[i] = t[i]
  PROVE  GetIn(s, n, k) = GetIn(t, n, k)
<1>1. Holders(s, n, k) = Holders(t, n, k)
  BY DEF Holders
<1>2. CASE Holders(s, n, k) = {}
  BY <1>1, <1>2 DEF GetIn
<1>3. CASE Holders(s, n, k) # {}
  <2> DEFINE c == CHOOSE i \in Holders(s, n, k) :
                    \A j \in Holders(s, n, k) : j <= i
  <2>1. c \in Holders(s, n, k)
    BY <1>3, InnermostHolder
  <2>2. c \in 1..n
    BY <2>1 DEF Holders
  <2>3. GetIn(s, n, k) = s[c][k]
    BY <1>3 DEF GetIn
  <2>4. GetIn(t, n, k) = t[c][k]
    BY <1>1, <1>3 DEF GetIn
  <2> QED  BY <2>2, <2>3, <2>4
<1> QED  BY <1>2, <1>3

\* The last scope searched answers first.
LEMMA GetInnermost ==
  ASSUME NEW s, NEW n \in Nat, NEW k, k \in DOMAIN s[n + 1]
  PROVE  GetIn(s, n + 1, k) = s[n + 1][k]
<1> DEFINE H == Holders(s, n + 1, k)
           c == CHOOSE i \in H : \A j \in H : j <= i
<1>1. n + 1 \in H /\ H \subseteq 1..(n + 1)
  BY DEF Holders
<1>2. c \in H /\ \A j \in H : j <= c
  <2>1. H # {} /\ n + 1 \in Nat
    BY <1>1
  <2>2. \E i \in H : \A j \in H : j <= i
    BY <2>1, InnermostHolder
  <2> HIDE DEF H
  <2> QED  BY <2>2
<1>3. c = n + 1
  <2> HIDE DEF H, c
  <2> QED  BY <1>1, <1>2
<1>4. GetIn(s, n + 1, k) = s[c][k]
  BY <1>1 DEF GetIn
<1> QED  BY <1>3, <1>4

\* The others answer what it has not.
LEMMA GetOuter ==
  ASSUME NEW s, NEW n \in Nat, NEW k, k \notin DOMAIN s[n + 1]
  PROVE  GetIn(s, n + 1, k) = GetIn(s, n, k)
<1>1. Holders(s, n + 1, k) = Holders(s, n, k)
  <2>1. 1..(n + 1) = (1..n) \union {n + 1}
    OBVIOUS
  <2> QED  BY <2>1 DEF Holders
<1> DEFINE GetFrom(H) ==
             IF H = {} THEN Unbound
             ELSE s[CHOOSE i \in H : \A j \in H : j <= i][k]
<1>2. GetIn(s, n + 1, k) = GetFrom(Holders(s, n + 1, k))
  BY DEF GetIn
<1>3. GetIn(s, n, k) = GetFrom(Holders(s, n, k))
  BY DEF GetIn
<1> HIDE DEF GetFrom
<1> QED  BY <1>1, <1>2, <1>3

LEMMA GetNowhere ==
  ASSUME NEW s, NEW k
  PROVE  GetIn(s, 0, k) = Unbound
BY DEF GetIn, Holders

-----------------------------------------------------------------------------
(* Types.                                                                  *)

LEMMA EmptyMap == [k \in {} |-> Unbound] \in Map
BY DEF Map

LEMMA WithType ==
  ASSUME NEW m \in Map, NEW k \in Key, NEW d \in Data
  PROVE  /\ With(m, k, d) \in Map
         /\ DOMAIN With(m, k, d) = DOMAIN m \union {k}
         /\ With(m, k, d)[k] = d
         /\ \A j \in DOMAIN m \ {k} : With(m, k, d)[j] = m[j]
<1>1. PICK S \in SUBSET Key : m \in [S -> Data]
  BY DEF Map
<1>2. With(m, k, d) \in [S \union {k} -> Data]
  BY <1>1 DEF With
<1>3. S \union {k} \in SUBSET Key
  OBVIOUS
<1>4. With(m, k, d) \in Map
  BY <1>2, <1>3, Zenon DEF Map
<1> QED  BY <1>1, <1>4 DEF With

LEMMA EmptyOrNot ==
  ASSUME NEW S, NEW s \in Seq(S)
  PROVE  s = <<>> <=> Len(s) = 0
BY EmptySeq, Zenon

LEMMA AboveOne == ASSUME NEW n \in Nat, n # 0, n # 1 PROVE n > 1
OBVIOUS

LEMMA PopProperties ==
  ASSUME NEW S, NEW s \in Seq(S), Len(s) > 1
  PROVE  /\ SubSeq(s, 1, Len(s) - 1) \in Seq(S)
         /\ SubSeq(s, 1, Len(s) - 1) # <<>>
         /\ Len(SubSeq(s, 1, Len(s) - 1)) = Len(s) - 1
         /\ \A i \in 1..(Len(s) - 1) : SubSeq(s, 1, Len(s) - 1)[i] = s[i]
<1>1. \A i \in 1..(Len(s) - 1) : s[i] \in S
  OBVIOUS
<1>2. Len(s) - 1 \in Int /\ 1 <= Len(s) - 1
  OBVIOUS
<1>3. /\ SubSeq(s, 1, Len(s) - 1) \in Seq(S)
      /\ Len(SubSeq(s, 1, Len(s) - 1)) = Len(s) - 1
      /\ \A i \in 1..(Len(s) - 1) : SubSeq(s, 1, Len(s) - 1)[i] = s[i]
  BY <1>1, <1>2, SubSeqProperties
<1>4. Len(SubSeq(s, 1, Len(s) - 1)) # 0
  BY <1>2, <1>3
<1>5. SubSeq(s, 1, Len(s) - 1) # <<>>
  BY <1>3, <1>4, EmptyOrNot
<1> QED  BY <1>3, <1>5

\* TypeOK is inductive: the table is a stack of maps, never empty, whatever
\* sequence of calls it is given.
LEMMA NextTypeOK ==
  ASSUME TypeOK, [Next]_scopes
  PROVE  TypeOK'
<1> USE DEF TypeOK
<1>1. CASE scope_begin
  BY <1>1, EmptyMap, AppendProperties DEF scope_begin
<1>2. CASE scope_end
  <2>1. CASE Len(scopes) = 1
    BY <1>2, <2>1 DEF scope_end
  <2>2. CASE Len(scopes) # 1
    <3>1. Len(scopes) # 0
      BY EmptyOrNot
    <3>2. Len(scopes) \in Nat
      OBVIOUS
    <3>3. Len(scopes) > 1
      BY <2>2, <3>1, <3>2, AboveOne
    <3> QED  BY <1>2, <2>2, <3>3, PopProperties DEF scope_end
  <2> QED  BY <2>1, <2>2
<1>3. ASSUME NEW k \in Key, NEW d \in Data, put(k, d)
      PROVE  TypeOK'
  <2>1. scopes[Len(scopes)] \in Map
    OBVIOUS
  <2>2. With(scopes[Len(scopes)], k, d) \in Map
    BY <2>1, WithType
  <2> QED  BY <1>3, <2>2 DEF put
<1>4. CASE UNCHANGED scopes
  BY <1>4
<1> QED  BY <1>1, <1>2, <1>3, <1>4 DEF Next

\* Every reachable table has its types, for every set of keys and data.
THEOREM TypeCorrect == Spec => []TypeOK
<1>1. Init => TypeOK
  BY EmptyMap DEF Init, TypeOK
<1> QED  BY <1>1, NextTypeOK, PTL DEF Spec

-----------------------------------------------------------------------------
(* The table is an Environment.                                            *)

LEMMA GetType ==
  ASSUME NEW s \in Seq(Map), NEW n \in 0..Len(s), NEW k \in Key
  PROVE  GetIn(s, n, k) \in Data \union {Unbound}
<1>1. CASE Holders(s, n, k) = {}
  BY <1>1 DEF GetIn
<1>2. CASE Holders(s, n, k) # {}
  <2> DEFINE c == CHOOSE i \in Holders(s, n, k) :
                    \A j \in Holders(s, n, k) : j <= i
  <2>1. c \in Holders(s, n, k)
    BY <1>2, InnermostHolder
  <2>2. c \in 1..n /\ k \in DOMAIN s[c]
    BY <2>1 DEF Holders
  <2>3. GetIn(s, n, k) = s[c][k]
    BY <1>2 DEF GetIn
  <2> HIDE DEF c
  <2>4. s[c] \in Map
    BY <2>2
  <2>5. s[c][k] \in Data
    BY <2>2, <2>4 DEF Map
  <2> QED  BY <2>3, <2>5
<1> QED  BY <1>1, <1>2

LEMMA MeaningsAgree ==
  ASSUME NEW s, NEW t, NEW n \in Nat, \A i \in 1..n : s[i] = t[i]
  PROVE  MeaningsIn(s, n) = MeaningsIn(t, n)
BY GetAgrees DEF MeaningsIn

\* The global scope is empty at first.
LEMMA InitRefines == Init => Abstract!Init
<1> SUFFICES ASSUME Init
             PROVE  Abstract!Init
  OBVIOUS
<1>1. Len(scopes) = 1 /\ scopes[1] = [k \in {} |-> Unbound]
  BY DEF Init
<1>2. ASSUME NEW k \in Key
      PROVE  GetIn(scopes, 1, k) = Unbound
  <2>1. k \notin DOMAIN scopes[0 + 1]
    BY <1>1
  <2> QED  BY <2>1, GetOuter, GetNowhere
<1>3. MeaningsIn(scopes, Len(scopes)) = [k \in Key |-> Unbound]
  BY <1>1, <1>2 DEF MeaningsIn
<1>4. [n \in 1..(Len(scopes) - 1) |-> MeaningsIn(scopes, n)] = <<>>
  BY <1>1
<1> QED  BY <1>3, <1>4 DEF Abstract!Init

\* The meanings remembered when a scope is opened are the visible ones.
LEMMA BeginRefines ==
  ASSUME TypeOK, scope_begin
  PROVE  Abstract!Open
<1> DEFINE L == Len(scopes)
<1>1. L \in Nat /\ L >= 1
  BY EmptyOrNot DEF TypeOK
<1>2. /\ Len(scopes') = L + 1
      /\ \A i \in 1..L : scopes'[i] = scopes[i]
      /\ scopes'[L + 1] = [k \in {} |-> Unbound]
  BY EmptyMap, AppendProperties DEF TypeOK, scope_begin
<1>3. \A n \in 1..L : MeaningsIn(scopes', n) = MeaningsIn(scopes, n)
  BY <1>2, MeaningsAgree
<1>4. \A k \in Key : GetIn(scopes', L + 1, k) = GetIn(scopes', L, k)
  BY <1>1, <1>2, GetOuter
<1>5. MeaningsIn(scopes', Len(scopes')) = MeaningsIn(scopes, L)
  BY <1>1, <1>2, <1>3, <1>4 DEF MeaningsIn
<1>6. [n \in 1..(Len(scopes') - 1) |-> MeaningsIn(scopes', n)]
        = Append([n \in 1..(L - 1) |-> MeaningsIn(scopes, n)],
                 MeaningsIn(scopes, L))
  <2> DEFINE o == [n \in 1..(L - 1) |-> MeaningsIn(scopes, n)]
             p == [n \in 1..L |-> MeaningsIn(scopes, n)]
  <2>1. [n \in 1..(Len(scopes') - 1) |-> MeaningsIn(scopes', n)] = p
    BY <1>1, <1>2, <1>3
  <2>2. p = Append(o, MeaningsIn(scopes, L))
    <3> HIDE DEF L
    <3> QED  BY <1>1
  <2> QED  BY <2>1, <2>2
<1> QED  BY <1>5, <1>6 DEF Abstract!Open

\* The meanings given back when a scope is closed are those remembered last.
LEMMA EndRefines ==
  ASSUME TypeOK, scope_end
  PROVE  Abstract!Close \/ UNCHANGED scopes
<1> SUFFICES ASSUME Len(scopes) # 1
             PROVE  Abstract!Close
  BY DEF scope_end
<1> DEFINE L == Len(scopes)
           o == [n \in 1..(L - 1) |-> MeaningsIn(scopes, n)]
<1>1. L \in Nat /\ L # 0
  BY EmptyOrNot DEF TypeOK
<1>2. L > 1
  BY <1>1, AboveOne
<1>3. /\ Len(scopes') = L - 1
      /\ \A i \in 1..(L - 1) : scopes'[i] = scopes[i]
  BY <1>2, PopProperties DEF TypeOK, scope_end
<1>4. \A n \in 1..(L - 1) : MeaningsIn(scopes', n) = MeaningsIn(scopes, n)
  BY <1>1, <1>3, MeaningsAgree
<1>5. Len(o) = L - 1 /\ o # <<>> /\ o[Len(o)] = MeaningsIn(scopes, L - 1)
  <2> HIDE DEF L
  <2> QED  BY <1>1, <1>2
<1>6. MeaningsIn(scopes', Len(scopes')) = o[Len(o)]
  <2> HIDE DEF L, o
  <2> QED  BY <1>1, <1>2, <1>3, <1>4, <1>5
<1>7. [n \in 1..(Len(scopes') - 1) |-> MeaningsIn(scopes', n)]
        = SubSeq(o, 1, Len(o) - 1)
  <2>1. [n \in 1..(Len(scopes') - 1) |-> MeaningsIn(scopes', n)]
          = [n \in 1..(L - 2) |-> MeaningsIn(scopes, n)]
    <3> HIDE DEF L, o
    <3> QED  BY <1>1, <1>2, <1>3, <1>4
  <2>2. SubSeq(o, 1, L - 2) = [n \in 1..(L - 2) |-> MeaningsIn(scopes, n)]
    <3> HIDE DEF L
    <3> QED  BY <1>1, <1>2
  <2> HIDE DEF L, o
  <2> QED  BY <1>1, <1>5, <2>1, <2>2
<1> QED  BY <1>5, <1>6, <1>7 DEF Abstract!Close

\* What put leaves: the same scopes but for the innermost one, where only k
\* has changed.
LEMMA PutProperties ==
  ASSUME TypeOK, NEW k \in Key, NEW d \in Data, put(k, d), NEW m \in Nat,
         Len(scopes) = m + 1
  PROVE  /\ Len(scopes') = m + 1
         /\ \A i \in 1..m : scopes'[i] = scopes[i]
         /\ DOMAIN scopes'[m + 1] = DOMAIN scopes[m + 1] \union {k}
         /\ scopes'[m + 1][k] = d
         /\ \A j \in DOMAIN scopes[m + 1] \ {k} :
              scopes'[m + 1][j] = scopes[m + 1][j]
<1> DEFINE L == Len(scopes)
<1>1. L \in Nat /\ L # 0
  OBVIOUS
<1>2. L = m + 1
  OBVIOUS
<1>3. scopes[L] \in Map
  BY <1>1 DEF TypeOK
<1>4. /\ Len(scopes') = L
      /\ \A i \in 1..m : scopes'[i] = scopes[i]
      /\ scopes'[L] = With(scopes[L], k, d)
  BY <1>1, <1>2 DEF TypeOK, put
<1>5. /\ DOMAIN scopes'[m + 1] = DOMAIN scopes[m + 1] \union {k}
      /\ scopes'[m + 1][k] = d
      /\ \A j \in DOMAIN scopes[m + 1] \ {k} :
           scopes'[m + 1][j] = scopes[m + 1][j]
  <2>1. scopes[m + 1] \in Map /\ scopes'[m + 1] = With(scopes[m + 1], k, d)
    BY <1>2, <1>3, <1>4
  <2> DEFINE old == scopes[m + 1]
             new == scopes'[m + 1]
  <2>2. /\ DOMAIN new = DOMAIN old \union {k}
        /\ new[k] = d
        /\ \A j \in DOMAIN old \ {k} : new[j] = old[j]
    <3>1. old \in Map /\ new = With(old, k, d)
      BY <2>1
    <3> HIDE DEF old, new
    <3>2. /\ DOMAIN With(old, k, d) = DOMAIN old \union {k}
          /\ With(old, k, d)[k] = d
          /\ \A j \in DOMAIN old \ {k} : With(old, k, d)[j] = old[j]
      BY <3>1, WithType, Zenon
    <3> QED  BY <3>1, <3>2, Zenon
  <2> QED  BY <2>2
<1> QED  BY <1>2, <1>4, <1>5

LEMMA SomeScope == TypeOK => \E m \in Nat : Len(scopes) = m + 1
<1> SUFFICES ASSUME TypeOK PROVE \E m \in Nat : Len(scopes) = m + 1
  OBVIOUS
<1>1. Len(scopes) \in Nat /\ Len(scopes) # 0
  BY EmptyOrNot DEF TypeOK
<1>2. Len(scopes) - 1 \in Nat /\ Len(scopes) = (Len(scopes) - 1) + 1
  BY <1>1
<1> QED  BY <1>2

\* The innermost scope is searched first.
LEMMA PutIsFound ==
  ASSUME TypeOK, NEW k \in Key, NEW d \in Data, put(k, d)
  PROVE  GetIn(scopes', Len(scopes'), k) = d
<1>1. PICK m \in Nat : Len(scopes) = m + 1
  BY SomeScope
<1>2. Len(scopes') = m + 1 /\ k \in DOMAIN scopes'[m + 1] /\ scopes'[m + 1][k] = d
  BY <1>1, PutProperties
<1> QED  BY <1>2, GetInnermost

\* put only changes what its key means.
LEMMA PutRefines ==
  ASSUME TypeOK, NEW k \in Key, NEW d \in Data, put(k, d)
  PROVE  Abstract!Declare
<1> DEFINE L == Len(scopes)
<1>2. PICK m \in Nat : L = m + 1
  BY SomeScope
<1>4. Len(scopes') = L /\ \A i \in 1..m : scopes'[i] = scopes[i]
  BY <1>2, PutProperties
<1>5. /\ DOMAIN scopes'[m + 1] = DOMAIN scopes[m + 1] \union {k}
      /\ \A j \in DOMAIN scopes[m + 1] \ {k} :
           scopes'[m + 1][j] = scopes[m + 1][j]
  BY <1>2, PutProperties
<1>6. \A n \in 1..m : MeaningsIn(scopes', n) = MeaningsIn(scopes, n)
  BY <1>4, MeaningsAgree
<1>7. GetIn(scopes', L, k) = d
  BY <1>4, PutIsFound
<1>8. ASSUME NEW j \in Key, j # k
      PROVE  GetIn(scopes', L, j) = GetIn(scopes, L, j)
  <2>1. CASE j \in DOMAIN scopes[L]
    <3>1. j \in DOMAIN scopes'[m + 1] /\ scopes'[m + 1][j] = scopes[m + 1][j]
      BY <1>2, <1>8, <1>5, <2>1
    <3>2. GetIn(scopes', m + 1, j) = scopes'[m + 1][j]
      BY <3>1, GetInnermost
    <3>3. GetIn(scopes, m + 1, j) = scopes[m + 1][j]
      BY <1>2, <2>1, GetInnermost
    <3> QED  BY <1>2, <3>1, <3>2, <3>3
  <2>2. CASE j \notin DOMAIN scopes[L]
    <3>1. j \notin DOMAIN scopes'[m + 1]
      BY <1>2, <1>8, <1>5, <2>2
    <3>2. GetIn(scopes', m + 1, j) = GetIn(scopes', m, j)
      BY <3>1, GetOuter
    <3>3. GetIn(scopes, m + 1, j) = GetIn(scopes, m, j)
      BY <1>2, <2>2, GetOuter
    <3>4. GetIn(scopes', m, j) = GetIn(scopes, m, j)
      BY <1>4, GetAgrees
    <3> QED  BY <1>2, <3>2, <3>3, <3>4
  <2> QED  BY <2>1, <2>2
<1>9. MeaningsIn(scopes', Len(scopes')) = [MeaningsIn(scopes, L) EXCEPT ![k] = d]
  BY <1>4, <1>7, <1>8 DEF MeaningsIn
<1>10. [n \in 1..(Len(scopes') - 1) |-> MeaningsIn(scopes', n)]
        = [n \in 1..(L - 1) |-> MeaningsIn(scopes, n)]
  <2> HIDE DEF L
  <2> QED  BY <1>2, <1>4, <1>6
<1> QED  BY <1>9, <1>10 DEF Abstract!Declare

\* Every behaviour of the symbol table is, seen through its gets, one of the
\* stack of dictionaries: closing a scope undoes whatever its opening hid,
\* for every set of keys and data, and every nesting.
THEOREM ImplementsEnvironment == Spec => IsEnvironment
<1>1. ASSUME TypeOK, [Next]_scopes
      PROVE  [Abstract!Next]_<<MeaningsIn(scopes, Len(scopes)),
                [n \in 1..(Len(scopes) - 1) |-> MeaningsIn(scopes, n)]>>
  <2>1. CASE scope_begin
    BY <1>1, <2>1, BeginRefines DEF Abstract!Next
  <2>2. CASE scope_end
    <3>1. CASE Abstract!Close
      BY <3>1 DEF Abstract!Next
    <3>2. CASE UNCHANGED scopes
      BY <3>2
    <3> QED  BY <1>1, <2>2, <3>1, <3>2, EndRefines
  <2>3. ASSUME NEW k \in Key, NEW d \in Data, put(k, d)
        PROVE  Abstract!Next
    BY <1>1, <2>3, PutRefines DEF Abstract!Next
  <2>4. CASE UNCHANGED scopes
    BY <2>4
  <2> QED  BY <1>1, <2>1, <2>2, <2>3, <2>4 DEF Next
<1> QED  BY <1>1, InitRefines, TypeCorrect, PTL DEF Spec, IsEnvironment, Abstract!Spec

\* get returns what was put last, whatever the outer scopes hold, for every
\* set of keys and data, and every nesting.
THEOREM GetsWhatWasPut == Spec => PutShadows
<1>1. TypeOK => [\A k \in Key, d \in Data : put(k, d) => get(k)' = d]_scopes
  BY PutIsFound DEF get
<1> QED  BY <1>1, TypeCorrect, PTL DEF PutShadows
=============================================================================

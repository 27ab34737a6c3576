------------------------- MODULE AstResults_proofs -------------------------
(***************************************************************************)
(* Proofs about what the visitors make of a tree, for every tree the       *)
(* classes of Ast allow: the clone is a copy, what is left when both are   *)
(* deleted, and the dump draws each node and its links.                    *)
(***************************************************************************)
EXTENDS AstWalks_proofs

-----------------------------------------------------------------------------
(* What the destructors forget are names of types, which hold nothing.     *)

LEMMA BasesOfClasses ==
  \A k \in DOMAIN Class :
    Class[k].base \in {"Ast", "Exp", "Var", "Ty", "Dec", "CallExp", "FunctionDec", "ChunkInterface"}
BY DEF Class, Chunk, SimpleVar, FieldVar, SubscriptVar, ArrayExp, AssignExp, BreakExp, CallExp,
       CastExp, ForExp, IfExp, IntExp, LetExp, MethodCallExp, NilExp, ObjectExp, OpExp, RecordExp,
       SeqExp, StringExp, WhileExp, NameTy, ArrayTy, RecordTy, ClassTy, Field, FieldInit,
       FunctionDec, MethodDec, TypeDec, VarDec, ChunkList

LEMMA BelowNameTy == Below("NameTy") \subseteq {"NameTy"}
<1>1. SUFFICES ASSUME NEW k \in DOMAIN Class, "NameTy" \in Bases(k), k # "NameTy" PROVE FALSE
  BY DEF Below
<1> DEFINE b == Class[k].base
<1>2. b \in {"Ast", "Exp", "Var", "Ty", "Dec", "CallExp", "FunctionDec", "ChunkInterface"}
  BY BasesOfClasses
<1>3. Bases(k) = {k, b} \union (IF b \in DOMAIN BaseOfBase THEN {BaseOfBase[b]} ELSE {})
  BY DEF Bases
<1> HIDE DEF b
<1>4. b # "NameTy"
  BY <1>2
<1>5. b \in DOMAIN BaseOfBase => BaseOfBase[b] \in {"Exp", "Dec"}
  BY DEF BaseOfBase
<1>6. QED
  BY <1>1, <1>3, <1>4, <1>5

LEMMA ForgottenAreNames ==
  ASSUME NEW k \in DOMAIN Class, NEW mem \in ToSet(Members(k)), mem.name \in Forgotten(k)
  PROVE  mem.type = "NameTy"
<1>1. CASE k = "ObjectExp"
  <2>1. Members(k) = <<One("type_name", "NameTy")>>
    BY <1>1 DEF Members, Class, ObjectExp
  <2>2. QED
    BY <2>1 DEF ToSet, One
<1>2. CASE k = "ClassTy"
  <2>1. Members(k) = <<One("super", "NameTy"), One("chunks", "ChunkList")>>
    BY <1>2 DEF Members, Class, ClassTy
  <2>2. QED
    BY <2>1, <1>2 DEF ToSet, One, Forgotten
<1>3. QED
  BY <1>1, <1>2 DEF Forgotten

LEMMA NamesHoldNothing ==
  ASSUME NEW nd \in Node, nd.k = "NameTy"
  PROVE  Hold(nd) = {}
<1>1. Names("NameTy") = {}
  BY DEF Names, Members, Class, NameTy
<1>2. QED
  BY <1>1, NodeHas DEF Hold

\* The members that are forgotten are names of types.
OnlyNames(h) ==
  \A n \in DOMAIN h : \A x \in Forgotten(h[n].k) \intersect Names(h[n].k) :
    \A c \in ToSet(h[n].m[x]) : h[c].k = "NameTy"

LEMMA GrownNames ==
  ASSUME NEW h, NEW g, NEW s, NEW x, NEW n, NEW ks, Grown(h, g, s, x, n, ks), Owned(h), OnlyNames(h),
         x \in Forgotten(h[s].k) => \A i \in 1..n : ks[i] = "NameTy"
  PROVE  OnlyNames(g)
<1> DEFINE at == Len(h)
<1>1. /\ h \in Seq(Node) /\ DOMAIN h = 1..at /\ at \in Nat /\ n \in Nat /\ s \in 1..at
      /\ g \in Seq(Node) /\ DOMAIN g = 1..at + n
      /\ \A a \in at + 1..at + n : g[a] = Blank(ks[a - at])
      /\ \A a \in 1..at : a # s => g[a] = h[a]
      /\ g[s].k = h[s].k /\ g[s].m[x] = [i \in 1..n |-> at + i]
      /\ \A y \in Names(h[s].k) : y # x => g[s].m[y] = h[s].m[y]
      /\ ks \in [1..n -> DOMAIN Class]
  BY DEF Grown, Owned
<1>2. \A a \in 1..at : g[a].k = h[a].k
  BY <1>1
<1>3. \A a \in 1..at + n : a \in 1..at \/ a \in at + 1..at + n
  BY <1>1
<1>4. \A a \in 1..at : Hold(h[a]) \subseteq 1..at
  BY <1>1 DEF Owned
<1> HIDE DEF at
<1>5. ASSUME NEW a \in at + 1..at + n
      PROVE  /\ g[a].k = ks[a - at] /\ \A y \in Names(g[a].k) : ToSet(g[a].m[y]) = {}
  <2>1. a - at \in 1..n /\ ks[a - at] \in DOMAIN Class
    BY <1>1
  <2>2. /\ Blank(ks[a - at]).k = ks[a - at] /\ \A y \in Names(ks[a - at]) : Blank(ks[a - at]).m[y] = <<>>
    BY <2>1, BlankNode
  <2>3. QED
    BY <2>2, <1>1, None DEF Lists
<1>6. ASSUME NEW a \in 1..at, NEW y \in Forgotten(h[a].k) \intersect Names(h[a].k), NEW c \in ToSet(h[a].m[y])
      PROVE  g[c].k = "NameTy"
  <2>1. h[c].k = "NameTy"
    BY <1>1 DEF OnlyNames
  <2>2. c \in 1..at
    <3>1. h[a] \in Node
      BY <1>1
    <3>2. ToSet(h[a].m[y]) \subseteq Hold(h[a])
      BY <3>1, NodeHas
    <3>3. QED
      BY <3>2, <1>4
  <2>3. QED
    BY <2>1, <2>2, <1>2
<1>7. ASSUME x \in Forgotten(h[s].k), NEW c \in ToSet(g[s].m[x])
      PROVE  g[c].k = "NameTy"
  <2>1. PICK i \in 1..n : c = at + i
    BY <1>1, <1>7 DEF ToSet
  <2>2. c \in at + 1..at + n /\ c - at = i
    BY <2>1, <1>1
  <2>3. QED
    BY <2>1, <2>2, <1>5, <1>7
<1>8. SUFFICES ASSUME NEW a \in 1..at + n, NEW y \in Forgotten(g[a].k) \intersect Names(g[a].k),
                      NEW c \in ToSet(g[a].m[y])
               PROVE  g[c].k = "NameTy"
  BY <1>1 DEF OnlyNames
<1>9. CASE a \in at + 1..at + n
  BY <1>5, <1>9
<1>10. CASE a \in 1..at /\ a # s
  <2>1. g[a] = h[a]
    BY <1>1, <1>10
  <2>2. y \in Forgotten(h[a].k) \intersect Names(h[a].k) /\ c \in ToSet(h[a].m[y])
    BY <2>1
  <2>3. QED
    BY <2>2, <1>6, <1>10
<1>11. CASE a = s
  <2>1. CASE y = x
    BY <2>1, <1>1, <1>7, <1>11
  <2>2. CASE y # x
    BY <2>2, <1>1, <1>6, <1>11
  <2>3. QED
    BY <2>1, <2>2
<1>12. QED
  BY <1>3, <1>9, <1>10, <1>11

LEMMA BuildsNames == ASSUME Growing, Build, OnlyNames(heap) PROVE OnlyNames(heap')
<1> DEFINE slot == Head(todo)
           s == slot[1]
           x == slot[2].name
<1>1. Owned(heap) /\ Owing(heap, todo) /\ todo # <<>>
  BY DEF Growing, Build
<1>2. PICK n \in slot[2].min..(IF slot[2].many THEN MaxList ELSE 1) :
        \E ks \in [1..n -> Below(slot[2].type)] :
          heap' = [heap EXCEPT ![s].m[x] = [i \in 1..n |-> Len(heap) + i]]
                  \o [i \in 1..n |-> Blank(ks[i])]
  BY DEF Build
<1>3. PICK ks \in [1..n -> Below(slot[2].type)] :
        heap' = [heap EXCEPT ![s].m[x] = [i \in 1..n |-> Len(heap) + i]]
                \o [i \in 1..n |-> Blank(ks[i])]
  BY <1>2
<1>4. heap \in Seq(Node) /\ todo \in Seq(Slot(heap))
  BY <1>1 DEF Owned, Owing
<1>5. slot \in Slot(heap) /\ slot \in ToSet(todo)
  BY <1>1, <1>4, HeadAndTail
<1>6. /\ s \in DOMAIN heap /\ heap[s] \in Node /\ heap[s].k \in DOMAIN Class
      /\ slot[2] \in ToSet(Members(heap[s].k)) /\ x \in Names(heap[s].k)
  BY <1>4, <1>5, SlotHas, NodeHas
<1>7. heap[s].m[x] = <<>>
  BY <1>1, <1>5 DEF Owing
<1>8. n \in Nat /\ ks \in [1..n -> DOMAIN Class]
  <2>1. Known(Members(heap[s].k), PortsIn(heap[s].k))
    BY <1>6, EveryRow DEF Row
  <2>2. slot[2].min \in {0, 1}
    BY <2>1, <1>6 DEF Known, Ported, ToSet
  <2>3. \A i \in 1..n : ks[i] \in DOMAIN Class
    BY DEF Below
  <2>4. QED
    BY <2>2, <2>3, AstWalksAssumption
<1>9. x \in Forgotten(heap[s].k) => \A i \in 1..n : ks[i] = "NameTy"
  <2>1. SUFFICES ASSUME x \in Forgotten(heap[s].k), NEW i \in 1..n PROVE ks[i] = "NameTy"
    OBVIOUS
  <2>2. slot[2].type = "NameTy"
    BY <2>1, <1>6, ForgottenAreNames
  <2>3. ks[i] \in Below("NameTy")
    BY <2>2
  <2>4. QED
    BY <2>3, BelowNameTy
<1> HIDE DEF slot
<1>10. Grown(heap, heap', s, x, n, ks)
  BY <1>1, <1>3, <1>6, <1>7, <1>8, GrowsSo
<1>11. QED
  BY <1>1, <1>9, <1>10, GrownNames

-----------------------------------------------------------------------------
(* Which nodes are left to clone: of member x, which has s, those after    *)
(* the first d.                                                            *)

\* The call for the i-th node of the member is at o + i.
LeftAt(cs, x, s, d, o) ==
  /\ \A i \in d + 1..Len(s) : o + i \in 1..Len(cs) /\ cs[o + i] = <<x, s[i]>>
  /\ \A p \in 1..Len(cs) : cs[p][1] = x => p - o \in d + 1..Len(s)

CallsLeft(cs, x, s, d) == d \in 0..Len(s) /\ \E o \in Int : LeftAt(cs, x, s, d, o)

LEMMA CallsTail ==
  ASSUME NEW S, NEW cs \in Seq(S), cs # <<>>
  PROVE  /\ Len(cs) \in Nat \ {0} /\ Head(cs) = cs[1] /\ Tail(cs) \in Seq(S)
         /\ Len(Tail(cs)) = Len(cs) - 1 /\ \A p \in 1..Len(cs) - 1 : Tail(cs)[p] = cs[p + 1]
BY HeadTailProperties

LEMMA LeftTaken ==
  ASSUME NEW S, NEW cs \in Seq(S), cs # <<>>, NEW s \in Seq(Nat), NEW x, NEW d,
         CallsLeft(cs, x, s, d), Head(cs)[1] = x
  PROVE  d + 1 \in 1..Len(s) /\ Head(cs)[2] = s[d + 1] /\ CallsLeft(Tail(cs), x, s, d + 1)
<1>1. d \in 0..Len(s) /\ Len(s) \in Nat
  BY DEF CallsLeft
<1>2. PICK o \in Int : LeftAt(cs, x, s, d, o)
  BY DEF CallsLeft
<1>3. /\ Len(cs) \in Nat \ {0} /\ Head(cs) = cs[1]
      /\ Len(Tail(cs)) = Len(cs) - 1 /\ \A p \in 1..Len(cs) - 1 : Tail(cs)[p] = cs[p + 1]
  BY CallsTail
<1>4. 1 - o \in d + 1..Len(s)
  BY <1>2, <1>3 DEF LeftAt
<1>5. d + 1 \in d + 1..Len(s) /\ d + 1 \in 1..Len(s) /\ d + 1 \in 0..Len(s)
  BY <1>1, <1>4
<1>6. o + (d + 1) \in 1..Len(cs) /\ cs[o + (d + 1)] = <<x, s[d + 1]>>
  BY <1>2, <1>5 DEF LeftAt
<1>7. o + (d + 1) = 1
  BY <1>1, <1>4, <1>6
<1>8. ASSUME NEW i \in (d + 1) + 1..Len(s)
      PROVE  o - 1 + i \in 1..Len(Tail(cs)) /\ Tail(cs)[o - 1 + i] = <<x, s[i]>>
  <2>1. o + i \in 1..Len(cs) /\ cs[o + i] = <<x, s[i]>>
    BY <1>1, <1>2 DEF LeftAt
  <2>2. o - 1 + i \in 1..Len(cs) - 1 /\ (o - 1 + i) + 1 = o + i
    BY <1>1, <1>3, <1>7, <2>1
  <2>3. QED
    BY <1>3, <2>1, <2>2
<1>9. ASSUME NEW p \in 1..Len(Tail(cs)), Tail(cs)[p][1] = x
      PROVE  p - (o - 1) \in (d + 1) + 1..Len(s)
  <2>1. p + 1 \in 1..Len(cs) /\ cs[p + 1][1] = x /\ p \in 1..Len(cs) - 1
    BY <1>3, <1>9
  <2>2. (p + 1) - o \in d + 1..Len(s)
    BY <1>2, <2>1 DEF LeftAt
  <2>3. QED
    BY <1>1, <1>7, <2>1, <2>2
<1>10. o - 1 \in Int
  OBVIOUS
<1>11. LeftAt(Tail(cs), x, s, d + 1, o - 1)
  BY ONLY <1>8, <1>9, Zenon DEF LeftAt
<1>12. Head(cs)[2] = s[d + 1]
  BY <1>3, <1>6, <1>7
<1>13. CallsLeft(Tail(cs), x, s, d + 1)
  BY <1>5, <1>10, <1>11 DEF CallsLeft
<1>14. QED
  BY <1>5, <1>12, <1>13

LEMMA LeftOther ==
  ASSUME NEW S, NEW cs \in Seq(S), cs # <<>>, NEW s \in Seq(Nat), NEW x, NEW d,
         CallsLeft(cs, x, s, d), Head(cs)[1] # x
  PROVE  CallsLeft(Tail(cs), x, s, d)
<1>1. d \in 0..Len(s) /\ Len(s) \in Nat
  BY DEF CallsLeft
<1>2. PICK o \in Int : LeftAt(cs, x, s, d, o)
  BY DEF CallsLeft
<1>3. /\ Len(cs) \in Nat \ {0} /\ Head(cs) = cs[1]
      /\ Len(Tail(cs)) = Len(cs) - 1 /\ \A p \in 1..Len(cs) - 1 : Tail(cs)[p] = cs[p + 1]
  BY CallsTail
<1>4. ASSUME NEW i \in d + 1..Len(s)
      PROVE  o - 1 + i \in 1..Len(Tail(cs)) /\ Tail(cs)[o - 1 + i] = <<x, s[i]>>
  <2>1. o + i \in 1..Len(cs) /\ cs[o + i] = <<x, s[i]>> /\ <<x, s[i]>>[1] = x
    BY <1>2 DEF LeftAt
  <2>2. o + i # 1
    BY <1>3, <2>1
  <2>3. o - 1 + i \in 1..Len(cs) - 1 /\ (o - 1 + i) + 1 = o + i
    BY <1>1, <1>3, <2>1, <2>2
  <2>4. QED
    BY <1>3, <2>1, <2>3
<1>5. ASSUME NEW p \in 1..Len(Tail(cs)), Tail(cs)[p][1] = x
      PROVE  p - (o - 1) \in d + 1..Len(s)
  <2>1. p + 1 \in 1..Len(cs) /\ cs[p + 1][1] = x /\ p \in 1..Len(cs) - 1
    BY <1>3, <1>5
  <2>2. (p + 1) - o \in d + 1..Len(s)
    BY <1>2, <2>1 DEF LeftAt
  <2>3. QED
    BY <1>1, <2>1, <2>2
<1>6. o - 1 \in Int
  OBVIOUS
<1>7. LeftAt(Tail(cs), x, s, d, o - 1)
  BY ONLY <1>4, <1>5, Zenon DEF LeftAt
<1>8. QED
  BY <1>1, <1>6, <1>7 DEF CallsLeft

LEMMA LeftNone ==
  ASSUME NEW x, NEW s \in Seq(Nat), NEW d, CallsLeft(<<>>, x, s, d)
  PROVE  d = Len(s)
<1>1. d \in 0..Len(s) /\ Len(s) \in Nat /\ Len(<<>>) = 0
  BY DEF CallsLeft
<1>2. PICK o \in Int : LeftAt(<<>>, x, s, d, o)
  BY DEF CallsLeft
<1>3. \A i \in d + 1..Len(s) : o + i \in 1..0
  BY <1>1, <1>2 DEF LeftAt
<1>4. ~ d + 1 \in d + 1..Len(s)
  BY <1>1, <1>3
<1>5. QED
  BY <1>1, <1>4

LEMMA LeftAll ==
  ASSUME NEW N, NEW n \in 1..N, Apart(heap, N), NEW l, Lists(l, Names(heap[n].k)),
         NEW x \in Names(heap[n].k)
  PROVE  CallsLeft(AllCalls(n, l), x, heap[n].m[x], 0)
<1> DEFINE T == Names(heap[n].k) \X (1..N)
           s == heap[n].m[x]
           ss == [i \in DOMAIN l |-> CallsTo(n, l[i])]
           E == (Names(heap[n].k) \ {x}) \X (1..N)
<1>1. heap \in Seq(Node) /\ n \in DOMAIN heap
  BY DEF Apart, Owned, Tree
<1>2. \A y \in Names(heap[n].k) : heap[n].m[y] \in Seq(Nat) /\ ToSet(heap[n].m[y]) \subseteq 1..N
  <2>1. \A y \in Names(heap[n].k) : heap[n].m[y] \in Seq(Nat) /\ ToSet(heap[n].m[y]) \subseteq Hold(heap[n])
    BY <1>1, NodeHas
  <2>2. Hold(heap[n]) \subseteq 1..N
    <3>1. Hold(heap[n]) \subseteq n + 1..N /\ n \in Nat /\ N \in Nat
      BY <1>1 DEF Apart, Tree
    <3>2. n + 1..N \subseteq 1..N
      BY <3>1
    <3>3. QED
      BY <3>1, <3>2
  <2>3. QED
    BY <2>1, <2>2
<1>3. l \in Seq(Names(heap[n].k)) /\ ToSet(l) = Names(heap[n].k) /\ IsInjective(l)
  BY DEF Lists
<1>4. DOMAIN l = 1..Len(l) /\ Len(l) \in Nat /\ \A i \in 1..Len(l) : l[i] \in Names(heap[n].k)
  BY <1>3
<1>5. \A X : \A i \in 1..Len(l) : l[i] \in X => CallsTo(n, l[i]) \in Seq(X \X (1..N))
  <2>1. SUFFICES ASSUME NEW X, NEW i \in 1..Len(l), l[i] \in X
                 PROVE  CallsTo(n, l[i]) \in Seq(X \X (1..N))
    OBVIOUS
  <2>2. heap[n].m[l[i]] \in Seq(Nat) /\ ToSet(heap[n].m[l[i]]) \subseteq 1..N
    BY <1>2, <1>4
  <2>3. QED
    BY <2>1, <2>2, PairedWith DEF CallsTo
<1>6. PICK q \in 1..Len(l) : l[q] = x
  BY <1>3, <1>4 DEF ToSet
<1>7. \A i \in 1..Len(l) : i # q => l[i] \in Names(heap[n].k) \ {x}
  BY <1>3, <1>4, <1>6 DEF IsInjective
<1>8. /\ ss \in Seq(Seq(T)) /\ DOMAIN ss = 1..Len(l) /\ ss[q] = CallsTo(n, x)
      /\ \A i \in 1..Len(l) : ss[i] = CallsTo(n, l[i])
  <2>1. \A i \in 1..Len(l) : CallsTo(n, l[i]) \in Seq(T)
    BY <1>4, <1>5
  <2>2. [i \in 1..Len(l) |-> CallsTo(n, l[i])] \in Seq(Seq(T))
    BY <2>1, <1>4
  <2>3. QED
    BY <2>2, <1>4, <1>6
<1>9. \A r \in DOMAIN ss \ {q} : ToSet(ss[r]) \subseteq E
  <2>1. SUFFICES ASSUME NEW r \in 1..Len(l), r # q PROVE ToSet(ss[r]) \subseteq E
    BY <1>8
  <2>2. CallsTo(n, l[r]) \in Seq(E)
    BY <1>5, <1>7, <2>1
  <2>3. QED
    BY <1>8, <2>2, HeldBySeq
<1>10. AllCalls(n, l) = FlattenSeq(ss)
  BY DEF AllCalls
<1> HIDE DEF ss, E, T
<1>11. PICK o : Placed(AllCalls(n, l), ss[q], o, E)
  BY <1>8, <1>9, <1>10, FlattenPlaces
<1>12. /\ s \in Seq(Nat) /\ Len(s) \in Nat /\ DOMAIN s = 1..Len(s)
  BY <1>2
<1>13. /\ Len(ss[q]) = Len(s) /\ \A i \in 1..Len(s) : ss[q][i] = <<x, s[i]>>
  <2> HIDE DEF s
  <2>1. ss[q] = [j \in 1..Len(s) |-> <<x, s[j]>>]
    BY <1>8, <1>12 DEF CallsTo, s
  <2>2. QED
    BY <2>1, <1>12
<1> HIDE DEF s
<1>14. /\ o \in Nat
       /\ \A i \in 1..Len(s) : /\ o + i \in 1..Len(AllCalls(n, l))
                               /\ AllCalls(n, l)[o + i] = <<x, s[i]>>
       /\ \A p \in 1..Len(AllCalls(n, l)) : p - o \in 1..Len(s) \/ AllCalls(n, l)[p] \in E
  BY <1>11, <1>12, <1>13 DEF Placed
<1>15. \A p \in 1..Len(AllCalls(n, l)) : AllCalls(n, l)[p] \in E => AllCalls(n, l)[p][1] # x
  BY DEF E
<1>16. 0 \in 0..Len(s) /\ 0 + 1 = 1 /\ o \in Int
  BY <1>12, <1>14
<1>17. LeftAt(AllCalls(n, l), x, s, 0, o)
  BY <1>14, <1>15, <1>16 DEF LeftAt
<1>18. CallsLeft(AllCalls(n, l), x, s, 0)
  BY <1>16, <1>17 DEF CallsLeft
<1>19. QED
  BY <1>18 DEF s

-----------------------------------------------------------------------------
(* Trees that are alike.                                                   *)

\* The nodes of R are alike: their members are, one by one, but for an empty
\* sequence where the original has no else clause.
Pairwise(s, t, R) == Len(s) = Len(t) /\ \A i \in 1..Len(s) : <<s[i], t[i]>> \in R
Filled(h, x, s, t) == x = "elseclause" /\ s = <<>> /\ Len(t) = 1 /\ h[t[1]] = Blank("SeqExp")

Similar(h, N, R) ==
  \A a, b : <<a, b>> \in R =>
    /\ a \in 1..N /\ b \in N + 1..Len(h) /\ h[a].k = h[b].k
    /\ \A x \in Names(h[a].k) :
         Pairwise(h[a].m[x], h[b].m[x], R) \/ Filled(h, x, h[a].m[x], h[b].m[x])

\* What SameTree asks of every pair of nodes, of a function or of a set.
Pairs == (DOMAIN heap) \X (DOMAIN heap)

SameBody(g, p) ==
  /\ heap[p[1]].k = heap[p[2]].k
  /\ \A x \in DOMAIN heap[p[1]].m :
       \/ /\ Len(heap[p[1]].m[x]) = Len(heap[p[2]].m[x])
          /\ \A i \in DOMAIN heap[p[1]].m[x] : g[<<heap[p[1]].m[x][i], heap[p[2]].m[x][i]>>]
       \/ /\ x = "elseclause" /\ heap[p[1]].m[x] = <<>>
          /\ heap[heap[p[2]].m[x][1]] = Blank("SeqExp")

SameIn(U, p) ==
  /\ heap[p[1]].k = heap[p[2]].k
  /\ \A x \in DOMAIN heap[p[1]].m :
       \/ /\ Len(heap[p[1]].m[x]) = Len(heap[p[2]].m[x])
          /\ \A i \in DOMAIN heap[p[1]].m[x] : <<heap[p[1]].m[x][i], heap[p[2]].m[x][i]>> \in U
       \/ /\ x = "elseclause" /\ heap[p[1]].m[x] = <<>>
          /\ heap[heap[p[2]].m[x][1]] = Blank("SeqExp")

LEMMA SameGrows ==
  ASSUME NEW U, NEW V, U \subseteq V, NEW p, SameIn(U, p)
  PROVE  SameIn(V, p)
BY Zenon DEF SameIn

Comparison(g) == g = [p \in Pairs |-> SameBody(g, p)]

\* The nodes in the heap can be compared: the greatest set of pairs will do.
LEMMA ComparisonExists == ASSUME Owned(heap) PROVE \E g : Comparison(g)
<1> DEFINE Kept(U) == \A q \in U : SameIn(U, q)
           big == {p \in Pairs : \E U \in SUBSET Pairs : p \in U /\ Kept(U)}
           g == [p \in Pairs |-> p \in big]
<1>1. ASSUME NEW p \in big PROVE SameIn(big, p)
  <2>1. PICK U \in SUBSET Pairs : p \in U /\ Kept(U)
    OBVIOUS
  <2>2. U \subseteq big
    BY <2>1
  <2>3. SameIn(U, p)
    BY <2>1
  <2> HIDE DEF big
  <2>4. QED
    BY <2>2, <2>3, SameGrows
<1>2. ASSUME NEW p \in Pairs, SameIn(big, p) PROVE p \in big
  <2> DEFINE V == big \union {p}
  <2>1. V \in SUBSET Pairs /\ p \in V /\ big \subseteq V
    OBVIOUS
  <2>2. Kept(V)
    <3>1. SUFFICES ASSUME NEW q \in V PROVE SameIn(V, q)
      OBVIOUS
    <3>2. SameIn(big, q)
      <4>1. q \in big \/ q = p
        OBVIOUS
      <4> HIDE DEF big
      <4>2. QED
        BY <4>1, <1>1, <1>2
    <3> HIDE DEF big, V
    <3>3. QED
      BY <2>1, <3>2, SameGrows
  <2> HIDE DEF V, Kept
  <2>3. QED
    BY <2>1, <2>2
<1> HIDE DEF big
<1>3. ASSUME NEW p \in Pairs PROVE SameBody(g, p) <=> SameIn(big, p)
  <2> DEFINE a == heap[p[1]]
             b == heap[p[2]]
  <2>1. a \in Node /\ b \in Node
    BY DEF Owned, Pairs
  <2>2. /\ \A x \in DOMAIN a.m : a.m[x] \in Seq(Nat) /\ ToSet(a.m[x]) \subseteq Hold(a)
        /\ \A x \in DOMAIN b.m : b.m[x] \in Seq(Nat) /\ ToSet(b.m[x]) \subseteq Hold(b)
        /\ a.k = b.k => DOMAIN a.m = DOMAIN b.m
    BY <2>1, NodeHas
  <2>3. Hold(a) \subseteq DOMAIN heap /\ Hold(b) \subseteq DOMAIN heap
    BY DEF Owned, Pairs
  <2>4. ASSUME a.k = b.k, NEW x \in DOMAIN a.m, Len(a.m[x]) = Len(b.m[x]), NEW i \in DOMAIN a.m[x]
        PROVE  g[<<a.m[x][i], b.m[x][i]>>] <=> <<a.m[x][i], b.m[x][i]>> \in big
    <3>1. /\ DOMAIN a.m[x] = 1..Len(a.m[x]) /\ DOMAIN b.m[x] = 1..Len(b.m[x])
      BY <2>2, <2>4
    <3>2. a.m[x][i] \in ToSet(a.m[x]) /\ b.m[x][i] \in ToSet(b.m[x])
      BY <3>1, <2>4 DEF ToSet
    <3>3. a.m[x][i] \in DOMAIN heap /\ b.m[x][i] \in DOMAIN heap
      BY <3>2, <2>2, <2>3, <2>4
    <3> HIDE DEF a, b
    <3>4. QED
      BY <3>3 DEF Pairs
  <2> HIDE DEF g
  <2>5. QED
    BY <2>4, Zenon DEF SameBody, SameIn, a, b
<1>4. ASSUME NEW p \in Pairs PROVE (p \in big) = SameBody(g, p)
  <2>1. (p \in big) <=> SameBody(g, p)
    BY <1>1, <1>2, <1>3
  <2>2. SameBody(g, p) \in BOOLEAN
    BY DEF SameBody
  <2>3. QED
    BY <2>1, <2>2
<1>5. [p \in Pairs |-> p \in big] = [p \in Pairs |-> SameBody(g, p)]
  <2> HIDE DEF g
  <2>1. QED
    BY <1>4
<1>6. g = [p \in Pairs |-> SameBody(g, p)]
  BY <1>5
<1> HIDE DEF g
<1>7. QED
  BY <1>6 DEF Comparison

\* Pairs that are alike belong to trees that are the same.
LEMMA SameFound ==
  ASSUME NEW N, NEW R, Apart(heap, N), Similar(heap, N, R), NEW n, NEW copy, <<n, copy>> \in R
  PROVE  SameTree(n, copy)
<1> DEFINE same == CHOOSE g : Comparison(g)
<1>1. SameTree(n, copy) = same[<<n, copy>>]
  BY DEF SameTree, Comparison, SameBody, Pairs
<1>2. Owned(heap) /\ heap \in Seq(Node) /\ N \in Nat /\ DOMAIN heap = 1..Len(heap) /\ Len(heap) \in Nat
      /\ N \in DOMAIN heap
  BY DEF Apart, Owned, Tree
<1>3. Comparison(same)
  BY <1>2, ComparisonExists
<1> HIDE DEF same
<1>4. ASSUME NEW a, NEW b, <<a, b>> \in R
      PROVE  /\ a \in 1..N /\ b \in N + 1..Len(heap) /\ b \in Nat /\ <<a, b>> \in Pairs
             /\ same[<<a, b>>] <=> SameBody(same, <<a, b>>)
  <2>1. a \in 1..N /\ b \in N + 1..Len(heap)
    BY <1>4 DEF Similar
  <2>2. a \in DOMAIN heap /\ b \in DOMAIN heap /\ b \in Nat
    BY <2>1, <1>2
  <2>3. <<a, b>> \in Pairs
    BY <2>2 DEF Pairs
  <2>4. same[<<a, b>>] = SameBody(same, <<a, b>>)
    BY <1>3, <2>3, Zenon DEF Comparison
  <2>5. QED
    BY <2>1, <2>2, <2>3, <2>4
<1> DEFINE Bad == {b \in Nat : \E a : <<a, b>> \in R /\ ~ same[<<a, b>>]}
<1>5. SUFFICES ASSUME Bad # {} PROVE FALSE
  <2>1. copy \in Nat
    BY <1>4
  <2>2. QED
    BY <1>1, <2>1
<1>6. PICK b \in Bad : \A y \in Bad : b <= y
  <2>1. Bad \in SUBSET Nat
    OBVIOUS
  <2> HIDE DEF Bad
  <2>2. QED
    BY <1>5, <2>1, LeastElement
<1>7. PICK a : <<a, b>> \in R /\ ~ same[<<a, b>>]
  BY <1>6
<1>8. ASSUME NEW c, NEW d, <<c, d>> \in R, d < b PROVE same[<<c, d>>]
  <2>1. d \in Nat /\ b \in Nat
    BY <1>4, <1>6, <1>8
  <2>2. ~ b <= d
    BY <2>1, <1>8
  <2>3. QED
    BY <1>6, <1>8, <2>1, <2>2
<1>9. /\ a \in 1..N /\ b \in N + 1..Len(heap) /\ ~ SameBody(same, <<a, b>>)
      /\ heap[a].k = heap[b].k
      /\ \A x \in Names(heap[a].k) :
           Pairwise(heap[a].m[x], heap[b].m[x], R) \/ Filled(heap, x, heap[a].m[x], heap[b].m[x])
  BY <1>4, <1>7 DEF Similar
<1>10. /\ heap[a] \in Node /\ heap[b] \in Node /\ b \in Nat /\ Hold(heap[b]) \subseteq N + 1..b - 1
  BY <1>2, <1>9 DEF Apart
<1>11. /\ DOMAIN heap[a].m = Names(heap[a].k)
       /\ \A x \in Names(heap[a].k) :
            /\ heap[a].m[x] \in Seq(Nat) /\ heap[b].m[x] \in Seq(Nat)
            /\ ToSet(heap[b].m[x]) \subseteq Hold(heap[b])
  BY <1>9, <1>10, NodeHas
<1> HIDE DEF Bad
<1>12. ASSUME NEW x \in Names(heap[a].k), Pairwise(heap[a].m[x], heap[b].m[x], R),
              NEW i \in DOMAIN heap[a].m[x]
       PROVE  same[<<heap[a].m[x][i], heap[b].m[x][i]>>]
  <2>1. i \in 1..Len(heap[a].m[x]) /\ i \in DOMAIN heap[b].m[x]
    <3>1. /\ heap[a].m[x] \in Seq(Nat) /\ heap[b].m[x] \in Seq(Nat)
          /\ Len(heap[a].m[x]) = Len(heap[b].m[x])
      BY <1>11, <1>12 DEF Pairwise
    <3>2. DOMAIN heap[a].m[x] = 1..Len(heap[a].m[x]) /\ DOMAIN heap[b].m[x] = 1..Len(heap[b].m[x])
      BY <3>1
    <3>3. QED
      BY <3>1, <3>2, <1>12
  <2>2. heap[b].m[x][i] \in ToSet(heap[b].m[x])
    BY <2>1 DEF ToSet
  <2>3. heap[b].m[x][i] \in N + 1..b - 1
    BY <2>2, <1>10, <1>11
  <2>4. heap[b].m[x][i] < b
    BY <2>3, <1>2, <1>10
  <2>5. QED
    BY <1>8, <1>12, <2>1, <2>4 DEF Pairwise
<1>13. SameBody(same, <<a, b>>)
  <2>1. ASSUME NEW x \in Names(heap[a].k)
        PROVE \/ /\ Len(heap[a].m[x]) = Len(heap[b].m[x])
                 /\ \A i \in DOMAIN heap[a].m[x] : same[<<heap[a].m[x][i], heap[b].m[x][i]>>]
              \/ /\ x = "elseclause" /\ heap[a].m[x] = <<>>
                 /\ heap[heap[b].m[x][1]] = Blank("SeqExp")
    <3>1. CASE Pairwise(heap[a].m[x], heap[b].m[x], R)
      <4>1. Len(heap[a].m[x]) = Len(heap[b].m[x])
        BY <3>1 DEF Pairwise
      <4>2. QED
        BY <3>1, <4>1, <1>12
    <3>2. CASE Filled(heap, x, heap[a].m[x], heap[b].m[x])
      BY <3>2 DEF Filled
    <3>3. QED
      BY <3>1, <3>2, <1>9
  <2>2. <<a, b>>[1] = a /\ <<a, b>>[2] = b
    OBVIOUS
  <2>3. QED
    BY <2>1, <2>2, <1>9, <1>11 DEF SameBody
<1>14. QED
  BY <1>9, <1>13

-----------------------------------------------------------------------------
(* What is reached from a node.                                            *)

Kids(c) == ToSet(Children(c))
Whole(S) == \A e \in S : Kids(e) \subseteq S
Reaching(g) == g = [c \in DOMAIN heap |-> {c} \union UNION {g[d] : d \in Kids(c)}]

\* Each node reaches the least set it is in that holds the children of its own.
LEMMA ReachingExists ==
  ASSUME \A c \in DOMAIN heap : Kids(c) \subseteq DOMAIN heap
  PROVE  \E g : Reaching(g)
<1> DEFINE D == DOMAIN heap
           From(c) == {d \in D : \A S \in SUBSET D : c \in S /\ Whole(S) => d \in S}
           g == [c \in D |-> From(c)]
           Next1(c) == {c} \union UNION {g[d] : d \in Kids(c)}
<1>1. ASSUME NEW c \in D PROVE From(c) = Next1(c)
  <2>1. Kids(c) \subseteq D /\ \A d \in Kids(c) : g[d] = From(d)
    OBVIOUS
  <2>2. ASSUME NEW e \in Next1(c) PROVE e \in From(c)
    <3>1. CASE e = c
      BY <3>1
    <3>2. CASE e # c
      <4>1. PICK d \in Kids(c) : e \in From(d)
        BY <3>2, <2>1, <2>2
      <4>2. SUFFICES ASSUME NEW S \in SUBSET D, c \in S, Whole(S) PROVE e \in S
        BY <4>1
      <4>3. d \in S
        BY <4>2 DEF Whole
      <4>4. QED
        BY <4>1, <4>2, <4>3
    <3>3. QED
      BY <3>1, <3>2
  <2>3. Next1(c) \subseteq D
    BY <2>2
  <2>4. Whole(Next1(c))
    <3>1. SUFFICES ASSUME NEW e \in Next1(c), NEW x \in Kids(e) PROVE x \in Next1(c)
      BY DEF Whole
    <3>2. CASE e = c
      <4>1. x \in D /\ x \in From(x) /\ x \in Kids(c)
        BY <3>1, <3>2, <2>1
      <4> HIDE DEF From
      <4>2. QED
        BY <4>1, <2>1
    <3>3. CASE e # c
      <4>1. PICK d \in Kids(c) : e \in From(d)
        BY <3>3, <2>1, <3>1
      <4>2. x \in D
        BY <3>1, <2>3
      <4>3. x \in From(d)
        <5>1. SUFFICES ASSUME NEW S \in SUBSET D, d \in S, Whole(S) PROVE x \in S
          BY <4>2
        <5>2. e \in S
          BY <4>1, <5>1
        <5>3. QED
          BY <3>1, <5>1, <5>2 DEF Whole
      <4> HIDE DEF From
      <4>4. QED
        BY <4>3, <2>1
    <3>4. QED
      BY <3>2, <3>3
  <2>5. c \in Next1(c)
    OBVIOUS
  <2>6. From(c) \subseteq Next1(c)
    <3> HIDE DEF Next1
    <3>1. QED
      BY <2>3, <2>4, <2>5
  <2>7. QED
    BY <2>2, <2>6
<1>2. [c \in D |-> From(c)] = [c \in D |-> Next1(c)]
  <2> HIDE DEF From, Next1
  <2>1. QED
    BY <1>1
<1>3. g = [c \in D |-> {c} \union UNION {g[d] : d \in Kids(c)}]
  BY <1>2
<1> HIDE DEF g
<1>4. QED
  BY <1>3 DEF Reaching

LEMMA Reaches ==
  ASSUME \A c \in DOMAIN heap : Kids(c) \subseteq DOMAIN heap
  PROVE  \E g : /\ \A c \in DOMAIN heap : g[c] = {c} \union UNION {g[d] : d \in Kids(c)}
                /\ \A n : Reachable(n) = g[n]
<1> DEFINE below == CHOOSE g : Reaching(g)
<1>1. ASSUME NEW n PROVE Reachable(n) = below[n]
  BY DEF Reachable, Reaching, Kids
<1>2. Reaching(below)
  BY ReachingExists
<1> HIDE DEF below
<1>3. \A c \in DOMAIN heap : below[c] = {c} \union UNION {below[d] : d \in Kids(c)}
  BY <1>2, Zenon DEF Reaching
<1>4. QED
  BY <1>1, <1>3

\* The original and the clone reach no node of each other.
LEMMA ReachedApart ==
  ASSUME NEW N, Apart(heap, N), NEW n \in 1..N, NEW b \in N + 1..Len(heap)
  PROVE  Reachable(n) \intersect Reachable(b) = {}
<1>1. /\ heap \in Seq(Node) /\ N \in Nat /\ DOMAIN heap = 1..Len(heap) /\ Len(heap) \in Nat
      /\ N \in 1..Len(heap) /\ \A c \in DOMAIN heap : Hold(heap[c]) \subseteq DOMAIN heap
  BY DEF Apart, Owned, Tree
<1>2. \A c \in DOMAIN heap : Kids(c) = Hold(heap[c])
  BY <1>1, ChildrenHeld DEF Kids
<1>3. PICK g : /\ \A c \in DOMAIN heap : g[c] = {c} \union UNION {g[d] : d \in Kids(c)}
               /\ \A x : Reachable(x) = g[x]
  BY <1>1, <1>2, Reaches
<1>4. \A c \in DOMAIN heap : g[c] = {c} \union UNION {g[d] : d \in Hold(heap[c])}
  BY <1>2, <1>3
<1>5. /\ \A c \in 1..N : c \in DOMAIN heap /\ Hold(heap[c]) \subseteq c + 1..N
      /\ \A c \in N + 1..Len(heap) : c \in DOMAIN heap /\ Hold(heap[c]) \subseteq N + 1..c - 1
  BY <1>1 DEF Apart, Tree
<1>6. \A c \in N + 1..Len(heap) : g[c] \subseteq N + 1..Len(heap)
  <2> DEFINE Bad == {c \in N + 1..Len(heap) : ~ g[c] \subseteq N + 1..Len(heap)}
  <2>1. SUFFICES ASSUME Bad # {} PROVE FALSE
    OBVIOUS
  <2>2. PICK c \in Bad : \A y \in Bad : c <= y
    <3>1. Bad \in SUBSET Nat
      BY <1>1
    <3> HIDE DEF Bad
    <3>2. QED
      BY <2>1, <3>1, LeastElement
  <2>3. c \in N + 1..Len(heap) /\ c \in Nat /\ ~ g[c] \subseteq N + 1..Len(heap)
    BY <1>1
  <2>4. ASSUME NEW d \in Hold(heap[c]) PROVE g[d] \subseteq N + 1..Len(heap)
    <3>1. d \in N + 1..c - 1
      BY <1>5, <2>3
    <3>2. d \in N + 1..Len(heap) /\ ~ c <= d
      BY <1>1, <2>3, <3>1
    <3>3. QED
      BY <2>2, <3>2
  <2>5. QED
    BY <1>4, <1>5, <2>3, <2>4
<1>7. \A c \in 1..N : g[c] \subseteq 1..N
  <2> DEFINE Bad == {k \in Nat : \E c \in 1..N : k = N - c /\ ~ g[c] \subseteq 1..N}
  <2>1. SUFFICES ASSUME Bad # {} PROVE FALSE
    <3>1. SUFFICES ASSUME NEW c \in 1..N, ~ g[c] \subseteq 1..N PROVE FALSE
      OBVIOUS
    <3>2. N - c \in Nat
      BY <1>1
    <3>3. N - c \in Bad
      BY <3>1, <3>2
    <3>4. QED
      BY <2>1, <3>3
  <2>2. PICK k \in Bad : \A y \in Bad : k <= y
    <3>1. Bad \in SUBSET Nat
      OBVIOUS
    <3> HIDE DEF Bad
    <3>2. QED
      BY <2>1, <3>1, LeastElement
  <2>3. PICK c \in 1..N : k = N - c /\ ~ g[c] \subseteq 1..N
    BY <2>2
  <2>4. ASSUME NEW d \in Hold(heap[c]) PROVE g[d] \subseteq 1..N
    <3>1. d \in c + 1..N
      BY <1>5, <2>3
    <3>2. d \in 1..N /\ N - d \in Nat /\ ~ k <= N - d
      BY <1>1, <2>3, <3>1
    <3>3. QED
      BY <2>2, <3>2
  <2>5. QED
    BY <1>4, <1>5, <2>3, <2>4
<1>8. \A x \in N + 1..Len(heap) : x \notin 1..N
  BY <1>1
<1>9. QED
  BY <1>3, <1>6, <1>7, <1>8

-----------------------------------------------------------------------------
(* What was cloned so far is alike.                                        *)

\* What the visit at j is cloning.
Original(st, j) == IF j = 1 THEN Root ELSE Head(st[j - 1].calls)[2]

Progress(h, f, n, R) ==
  /\ f.k = h[n].k
  /\ \A x \in Names(f.k) :
       /\ CallsLeft(f.calls, x, h[n].m[x], Len(f.got[x]))
       /\ \A i \in 1..Len(f.got[x]) : <<h[n].m[x][i], f.got[x][i]>> \in R

InProgress(h, f, n, N, R) ==
  /\ n \in 1..N
  /\ f \in Calls(N) => f.call = n
  /\ f \in Frame(N) => Progress(h, f, n, R)

\* Every node of the clone is alike one of the original, or fills a place.
Explained(h, N, R) ==
  \A b \in N + 1..Len(h) : (\E a : <<a, b>> \in R) \/ h[b] = Blank("SeqExp")

Copies(h, st, r, N, R) ==
  /\ Similar(h, N, R) /\ Explained(h, N, R)
  /\ \A j \in 1..Len(st) : InProgress(h, st[j], Original(st, j), N, R)
  /\ Awaited(st, N) => <<Original(st, Len(st) + 1), r>> \in R

LEMMA SimilarLonger ==
  ASSUME NEW h, NEW N, NEW R, Apart(h, N), Similar(h, N, R),
         NEW g, Len(g) \in Nat, Len(h) <= Len(g), \A a \in DOMAIN h : g[a] = h[a]
  PROVE  Similar(g, N, R)
<1>1. /\ h \in Seq(Node) /\ N \in Nat /\ DOMAIN h = 1..Len(h) /\ Len(h) \in Nat /\ N \in 1..Len(h)
      /\ \A c \in DOMAIN h : Hold(h[c]) \subseteq DOMAIN h
  BY DEF Apart, Owned, Tree
<1>2. SUFFICES ASSUME NEW a, NEW b, <<a, b>> \in R
               PROVE  /\ a \in 1..N /\ b \in N + 1..Len(g) /\ g[a].k = g[b].k
                      /\ \A x \in Names(g[a].k) :
                           Pairwise(g[a].m[x], g[b].m[x], R) \/ Filled(g, x, g[a].m[x], g[b].m[x])
  BY DEF Similar
<1>3. /\ a \in 1..N /\ b \in N + 1..Len(h) /\ h[a].k = h[b].k
      /\ \A x \in Names(h[a].k) :
           Pairwise(h[a].m[x], h[b].m[x], R) \/ Filled(h, x, h[a].m[x], h[b].m[x])
  BY <1>2 DEF Similar
<1>4. a \in DOMAIN h /\ b \in DOMAIN h /\ b \in N + 1..Len(g)
  BY <1>1, <1>3
<1>5. g[a] = h[a] /\ g[b] = h[b]
  BY <1>4
<1>6. ASSUME NEW x \in Names(h[a].k), Filled(h, x, h[a].m[x], h[b].m[x])
      PROVE  Filled(g, x, h[a].m[x], h[b].m[x])
  <2>1. h[b].m[x] \in Seq(Nat) /\ ToSet(h[b].m[x]) \subseteq Hold(h[b])
    <3>1. h[b] \in Node
      BY <1>1, <1>4
    <3>2. QED
      BY <3>1, <1>3, NodeHas
  <2>2. h[b].m[x][1] \in ToSet(h[b].m[x])
    <3>1. Len(h[b].m[x]) = 1
      BY <1>6 DEF Filled
    <3>2. 1 \in DOMAIN h[b].m[x]
      BY <3>1, <2>1
    <3>3. QED
      BY <3>2 DEF ToSet
  <2>3. h[b].m[x][1] \in DOMAIN h
    BY <1>1, <1>4, <2>1, <2>2
  <2>4. QED
    BY <1>6, <2>3 DEF Filled
<1>7. QED
  BY <1>3, <1>4, <1>5, <1>6

LEMMA SimilarMore ==
  ASSUME NEW g, NEW N, NEW R, Similar(g, N, R), NEW n \in 1..N, NEW b \in N + 1..Len(g),
         g[n].k = g[b].k,
         \A x \in Names(g[n].k) :
           Pairwise(g[n].m[x], g[b].m[x], R) \/ Filled(g, x, g[n].m[x], g[b].m[x])
  PROVE  Similar(g, N, R \union {<<n, b>>})
<1> DEFINE Q == R \union {<<n, b>>}
<1>1. R \subseteq Q /\ \A c, d : <<c, d>> \in Q => <<c, d>> \in R \/ (c = n /\ d = b)
  OBVIOUS
<1> HIDE DEF Q
<1>2. \A s, t : Pairwise(s, t, R) => Pairwise(s, t, Q)
  BY <1>1 DEF Pairwise
<1>3. QED
  BY <1>1, <1>2 DEF Similar, Q

LEMMA ProgressKept ==
  ASSUME NEW h, NEW g, NEW f, NEW n, NEW N, NEW R, NEW Q, InProgress(h, f, n, N, R),
         g[n] = h[n], \A p \in R : p \in Q
  PROVE  InProgress(g, f, n, N, Q)
BY DEF InProgress, Progress

LEMMA CopyLonger ==
  ASSUME NEW h, NEW N, NEW R, Apart(h, N), Similar(h, N, R), Explained(h, N, R),
         NEW nd, NEW n \in 1..N, nd.k = h[n].k, Len(Append(h, nd)) = Len(h) + 1,
         Append(h, nd)[Len(h) + 1] = nd, \A a \in DOMAIN h : Append(h, nd)[a] = h[a],
         \A x \in Names(nd.k) :
           Pairwise(h[n].m[x], nd.m[x], R) \/ Filled(Append(h, nd), x, h[n].m[x], nd.m[x])
  PROVE  /\ Similar(Append(h, nd), N, R \union {<<n, Len(h) + 1>>})
         /\ Explained(Append(h, nd), N, R \union {<<n, Len(h) + 1>>})
<1> DEFINE g == Append(h, nd)
           b == Len(h) + 1
           Q == R \union {<<n, b>>}
<1>1. /\ N \in Nat /\ DOMAIN h = 1..Len(h) /\ Len(h) \in Nat /\ N \in 1..Len(h)
  BY DEF Apart, Owned, Tree
<1>2. g[b] = nd /\ Len(g) = b /\ \A a \in DOMAIN h : g[a] = h[a]
  OBVIOUS
<1> HIDE DEF g
<1>3. /\ b \in N + 1..Len(g) /\ Len(g) \in Nat /\ Len(h) <= Len(g) /\ g[n] = h[n]
      /\ \A c \in N + 1..Len(g) : c = b \/ c \in N + 1..Len(h)
      /\ \A c \in N + 1..Len(h) : c \in DOMAIN h
  BY <1>1, <1>2
<1>4. Similar(g, N, R)
  BY <1>2, <1>3, SimilarLonger
<1>5. \A x \in Names(g[n].k) :
        Pairwise(g[n].m[x], g[b].m[x], R) \/ Filled(g, x, g[n].m[x], g[b].m[x])
  BY <1>2, <1>3 DEF g
<1>6. Similar(g, N, Q)
  BY <1>2, <1>3, <1>4, <1>5, SimilarMore
<1>7. Explained(g, N, Q)
  BY <1>2, <1>3 DEF Explained
<1>8. QED
  BY <1>6, <1>7 DEF g

\* The visits below the top, when it is replaced by one that clones the same.
LEMMA BelowTheTop ==
  ASSUME NEW N, NEW R, NEW r, Stacked(heap, stack, N), stack # <<>>, Copies(heap, stack, r, N, R),
         NEW f \in Frame(N) \union Calls(N),
         InProgress(heap, f, Original(stack, Len(stack)), N, R)
  PROVE  \A j \in 1..Len(stack) :
           /\ Original(Append(Front(stack), f), j) = Original(stack, j)
           /\ InProgress(heap, Append(Front(stack), f)[j], Original(stack, j), N, R)
<1> DEFINE L == Len(stack)
           st == Append(Front(stack), f)
<1>1. /\ stack \in Seq(Frame(N) \union Calls(N)) /\ L \in Nat \ {0}
      /\ \A j \in 1..L : j < L \/ j = L
  BY TopIs DEF Stacked
<1>2. /\ Len(st) = L /\ st[L] = f
      /\ \A j \in 1..L : j < L => st[j] = stack[j]
  BY <1>1, TopReplaced
<1> HIDE DEF st
<1>3. ASSUME NEW j \in 1..L PROVE Original(st, j) = Original(stack, j)
  <2>1. CASE j = 1
    BY <2>1 DEF Original
  <2>2. CASE j # 1
    <3>1. j - 1 \in 1..L /\ j - 1 < L
      BY <2>2, <1>1
    <3>2. st[j - 1] = stack[j - 1]
      BY <3>1, <1>2
    <3>3. QED
      BY <3>2 DEF Original
  <2>3. QED
    BY <2>1, <2>2
<1>4. \A j \in 1..L : InProgress(heap, st[j], Original(stack, j), N, R)
  <2>1. \A j \in 1..L : InProgress(heap, stack[j], Original(stack, j), N, R)
    BY DEF Copies
  <2>2. QED
    BY <2>1, <1>1, <1>2
<1>5. QED
  BY <1>3, <1>4 DEF st

LEMMA CopiesCall ==
  ASSUME NEW N, NEW R, Cloning(heap, stack, result_, N), Copies(heap, stack, result_, N, R), CloneCall
  PROVE  Copies(heap, stack', result_, N, R)
<1> DEFINE n == Top.call
           f == Begun(n)
           L == Len(stack)
<1>1. stack # <<>> /\ "call" \in DOMAIN Top /\ Apart(heap, N) /\ Stacked(heap, stack, N)
  BY DEF CloneCall, Cloning
<1>2. /\ L \in Nat \ {0} /\ L \in 1..L /\ Top = stack[L] /\ Top \in Calls(N)
  BY <1>1, TopOfClone
<1>3. n \in 1..N
  BY <1>2, CallHas
<1>4. n = Original(stack, L)
  BY <1>2 DEF Copies, InProgress
<1>5. GoodFrame(f, N) /\ f.taking = FALSE
  BY <1>1, <1>3, NewFrame
<1>6. f \in Frame(N)
  BY <1>5 DEF GoodFrame
<1>7. heap[n] \in Node /\ heap[n].k \in DOMAIN Class
  <2>1. heap[n] \in Node
    BY <1>1, <1>3 DEF Apart, Owned, Tree
  <2>2. QED
    BY <2>1, NodeHas
<1>8. Progress(heap, f, n, R)
  <2> DEFINE k == heap[n].k
  <2>1. f.k = k /\ f.got = Blank(k).m /\ f.calls = AllCalls(n, Clones(k))
    BY DEF Begun
  <2>2. \A x \in Names(k) : f.got[x] = <<>> /\ Len(f.got[x]) = 0
    BY <2>1, <1>7, BlankNode
  <2>3. Lists(Clones(k), Names(k))
    BY <1>7, EveryRow DEF Row
  <2>4. \A x \in Names(k) : CallsLeft(f.calls, x, heap[n].m[x], 0)
    BY <2>1, <2>3, <1>1, <1>3, LeftAll
  <2>5. \A x \in Names(k) : \A i \in 1..Len(f.got[x]) : FALSE
    BY <2>2
  <2> HIDE DEF f, k
  <2>6. QED
    BY <2>1, <2>2, <2>4, <2>5 DEF Progress, k
<1>9. stack' = Append(Front(stack), f)
  BY DEF CloneCall, Begun, AllCalls, CallsTo
<1> HIDE DEF f, n
<1>10. InProgress(heap, f, n, N, R)
  BY <1>3, <1>6, <1>8, CallHas DEF InProgress
<1>11. /\ Len(stack') = L /\ stack'[L] = f
  <2>1. stack \in Seq(Frame(N) \union Calls(N)) /\ f \in Frame(N) \union Calls(N)
    BY <1>1, <1>6 DEF Stacked
  <2>2. QED
    BY <2>1, <1>1, <1>9, TopReplaced
<1>12. \A j \in 1..L : InProgress(heap, stack'[j], Original(stack', j), N, R)
  BY <1>1, <1>4, <1>6, <1>9, <1>10, BelowTheTop
<1>13. ~ Awaited(stack', N)
  <2>1. stack' # <<>>
    BY <1>2, <1>11
  <2>2. QED
    BY <2>1, <1>5, <1>11 DEF Awaited
<1>14. QED
  BY <1>11, <1>12, <1>13 DEF Copies

LEMMA CopiesMember ==
  ASSUME NEW N, NEW R, Cloning(heap, stack, result_, N), Copies(heap, stack, result_, N, R), CloneMember
  PROVE  Copies(heap, stack', result_, N, R)
<1> DEFINE L == Len(stack)
           f == Taking(Top)
           c == [call |-> Head(Top.calls)[2]]
           st == Append(Front(stack), f)
<1>1. /\ stack # <<>> /\ "calls" \in DOMAIN Top /\ Apart(heap, N) /\ Stacked(heap, stack, N)
      /\ Top.calls # <<>> /\ ~ Top.taking
  BY DEF CloneMember, Cloning
<1>2. L \in Nat \ {0} /\ L \in 1..L /\ Top = stack[L] /\ GoodFrame(Top, N)
  BY <1>1, TopOfClone
<1>3. /\ GoodFrame(f, N) /\ Head(Top.calls)[2] \in 1..N
  BY <1>1, <1>2, FrameTaking
<1>4. stack' = Append([stack EXCEPT ![L] = f], c)
  BY DEF CloneMember, Top, Taking
<1>5. c \in Calls(N) /\ c.call = Head(Top.calls)[2]
  BY <1>3 DEF Calls
<1>6. Top \in Frame(N) /\ f \in Frame(N) /\ stack \in Seq(Frame(N) \union Calls(N))
  BY <1>1, <1>2, <1>3 DEF GoodFrame, Stacked
<1>7. f.k = Top.k /\ f.got = Top.got /\ f.calls = Top.calls
  BY <1>6, FrameHas DEF Taking
<1>8. InProgress(heap, f, Original(stack, L), N, R)
  <2>1. InProgress(heap, Top, Original(stack, L), N, R)
    BY <1>2 DEF Copies
  <2>2. f \notin Calls(N)
    BY <1>6, CallHas
  <2> HIDE DEF f
  <2>3. QED
    BY <2>1, <2>2, <1>6, <1>7 DEF InProgress, Progress
<1> HIDE DEF f, c
<1>9. /\ st \in Seq(Frame(N) \union Calls(N)) /\ Len(st) = L /\ st[L] = f
      /\ [stack EXCEPT ![L] = f] = st
  BY <1>1, <1>6, TopReplaced
<1>10. \A j \in 1..L : /\ Original(st, j) = Original(stack, j)
                       /\ InProgress(heap, st[j], Original(stack, j), N, R)
  BY <1>1, <1>6, <1>8, BelowTheTop
<1> HIDE DEF st
<1>11. /\ stack' = Append(st, c) /\ Len(stack') = L + 1 /\ stack'[L + 1] = c
       /\ \A j \in 1..L : stack'[j] = st[j]
  BY <1>4, <1>9, AppendProperties
<1>12. \A j \in 1..L : Original(stack', j) = Original(st, j)
  <2>1. SUFFICES ASSUME NEW j \in 1..L PROVE Original(stack', j) = Original(st, j)
    OBVIOUS
  <2>2. CASE j = 1
    BY <2>2 DEF Original
  <2>3. CASE j # 1
    <3>1. j - 1 \in 1..L
      BY <2>3, <1>2
    <3>2. QED
      BY <3>1, <1>11 DEF Original
  <2>4. QED
    BY <2>2, <2>3
<1>13. Original(stack', L + 1) = Head(Top.calls)[2]
  <2>1. L + 1 # 1 /\ (L + 1) - 1 = L /\ stack'[L] = f
    BY <1>2, <1>9, <1>11
  <2>2. QED
    BY <2>1, <1>7 DEF Original
<1>14. InProgress(heap, c, Head(Top.calls)[2], N, R)
  BY <1>3, <1>5, CallHas DEF InProgress
<1>15. \A j \in 1..L + 1 : InProgress(heap, stack'[j], Original(stack', j), N, R)
  <2>1. \A j \in 1..L + 1 : j \in 1..L \/ j = L + 1
    BY <1>2
  <2>2. QED
    BY <2>1, <1>10, <1>11, <1>12, <1>13, <1>14
<1>16. ~ Awaited(stack', N)
  <2>1. c \notin Frame(N) /\ stack' # <<>>
    BY <1>2, <1>5, <1>11, CallHas
  <2>2. QED
    BY <2>1, <1>11 DEF Awaited
<1>17. QED
  BY <1>11, <1>15, <1>16 DEF Copies

\* What a visit has after it took one more node.
LEMMA TookHas ==
  ASSUME NEW N, NEW f \in Frame(N), f.calls # <<>>, NEW r \in Nat
  PROVE  /\ Took(f, r).k = f.k /\ Took(f, r).calls = Tail(f.calls) /\ Head(f.calls)[1] \in Names(f.k)
         /\ Took(f, r).got[Head(f.calls)[1]] = Append(f.got[Head(f.calls)[1]], r)
         /\ \A y \in Names(f.k) : y # Head(f.calls)[1] => Took(f, r).got[y] = f.got[y]
<1> DEFINE x == Head(f.calls)[1]
           s == Append(f.got[x], r)
           t == Tail(f.calls)
           g == [f.got EXCEPT ![x] = s]
<1>1. /\ f.got \in [Names(f.k) -> Seq(Nat)] /\ DOMAIN f = {"k", "got", "taking", "calls"}
      /\ f.calls \in Seq(Names(f.k) \X (1..N))
  BY FrameHas
<1>2. x \in Names(f.k)
  BY <1>1, HeadAndTail
<1>3. g[x] = s /\ \A y \in Names(f.k) : y # x => g[y] = f.got[y]
  BY <1>1, <1>2
<1>4. Took(f, r) = [f EXCEPT !.calls = t, !.taking = FALSE, !.got = g]
  BY DEF Took
<1> HIDE DEF g, t, s
<1>5. PICK c \in DOMAIN Class :
        f \in [k : {c}, got : [Names(c) -> Seq(Nat)], taking : BOOLEAN, calls : Seq(Names(c) \X (1..N))]
  BY DEF Frame
<1>6. Took(f, r).k = f.k /\ Took(f, r).calls = t /\ Took(f, r).got = g
  BY <1>4, <1>5
<1>7. QED
  BY <1>2, <1>3, <1>6 DEF s, t

LEMMA ProgressMade ==
  ASSUME NEW N, NEW n \in 1..N, heap[n] \in Node, NEW R, NEW f \in Frame(N), f.calls # <<>>,
         Progress(heap, f, n, R), NEW r \in Nat, <<Head(f.calls)[2], r>> \in R
  PROVE  Progress(heap, Took(f, r), n, R)
<1> DEFINE x == Head(f.calls)[1]
           F == Took(f, r)
<1>1. /\ F.k = f.k /\ F.calls = Tail(f.calls) /\ x \in Names(f.k)
      /\ F.got[x] = Append(f.got[x], r)
      /\ \A y \in Names(f.k) : y # x => F.got[y] = f.got[y]
  BY TookHas
<1>2. /\ f.got \in [Names(f.k) -> Seq(Nat)] /\ f.calls \in Seq(Names(f.k) \X (1..N))
  BY FrameHas
<1>3. /\ f.k = heap[n].k
      /\ \A y \in Names(f.k) : /\ CallsLeft(f.calls, y, heap[n].m[y], Len(f.got[y]))
                               /\ \A i \in 1..Len(f.got[y]) : <<heap[n].m[y][i], f.got[y][i]>> \in R
  BY DEF Progress
<1>4. \A y \in Names(f.k) : heap[n].m[y] \in Seq(Nat)
  BY <1>3, NodeHas
<1> HIDE DEF F
<1>5. ASSUME NEW y \in Names(f.k), y # x
      PROVE  CallsLeft(F.calls, y, heap[n].m[y], Len(F.got[y]))
  <2>1. CallsLeft(f.calls, y, heap[n].m[y], Len(f.got[y]))
    BY <1>3
  <2>2. CallsLeft(Tail(f.calls), y, heap[n].m[y], Len(f.got[y]))
    BY <2>1, <1>2, <1>4, <1>5, LeftOther
  <2>3. QED
    BY <2>2, <1>1, <1>5
<1> DEFINE s == f.got[x]
           d == Len(s)
<1>6. s \in Seq(Nat) /\ d \in Nat /\ Len(Append(s, r)) = d + 1 /\ Append(s, r)[d + 1] = r
      /\ \A i \in 1..d : Append(s, r)[i] = s[i]
  <2>1. s \in Seq(Nat)
    BY <1>1, <1>2
  <2> HIDE DEF s
  <2>2. d \in Nat
    BY ONLY <2>1, LenProperties
  <2>3. QED
    BY <2>1, <2>2, AppendProperties
<1>7. /\ Head(f.calls)[2] = heap[n].m[x][d + 1]
      /\ CallsLeft(Tail(f.calls), x, heap[n].m[x], d + 1)
  <2>1. CallsLeft(f.calls, x, heap[n].m[x], d)
    BY <1>1, <1>3
  <2>2. heap[n].m[x] \in Seq(Nat)
    BY <1>1, <1>4
  <2> HIDE DEF d
  <2>3. QED
    BY <2>1, <2>2, <1>2, LeftTaken
<1>8. CallsLeft(F.calls, x, heap[n].m[x], Len(F.got[x]))
  BY <1>1, <1>6, <1>7
<1>9. \A i \in 1..Len(F.got[x]) : <<heap[n].m[x][i], F.got[x][i]>> \in R
  <2>1. \A i \in 1..d : <<heap[n].m[x][i], s[i]>> \in R
    BY <1>1, <1>3
  <2> HIDE DEF d, s
  <2>2. \A i \in 1..d + 1 : i \in 1..d \/ i = d + 1
    BY <1>6
  <2>3. QED
    BY <2>1, <2>2, <1>1, <1>6, <1>7 DEF s
<1>10. QED
  BY <1>1, <1>3, <1>5, <1>8, <1>9 DEF Progress, F

LEMMA CopiesTakes ==
  ASSUME NEW N, NEW R, Cloning(heap, stack, result_, N), Copies(heap, stack, result_, N, R), recurse
  PROVE  Copies(heap, stack', result_, N, R)
<1> DEFINE L == Len(stack)
           f == Took(Top, result_)
           n == Original(stack, L)
<1>1. /\ stack # <<>> /\ "calls" \in DOMAIN Top /\ Apart(heap, N) /\ Stacked(heap, stack, N)
      /\ Top.taking
  BY DEF recurse, Cloning
<1>2. L \in Nat \ {0} /\ L \in 1..L /\ Top = stack[L] /\ GoodFrame(Top, N)
  BY <1>1, TopOfClone
<1>3. Top.calls # <<>> /\ Top \in Frame(N) /\ stack \in Seq(Frame(N) \union Calls(N))
  BY <1>1, <1>2 DEF GoodFrame, Stacked
<1>4. Awaited(stack, N)
  BY <1>1, <1>2, <1>3 DEF Awaited
<1>5. result_ \in Nat /\ result_ \notin Grip(Top)
  <2>1. Loose(heap, stack, N, result_)
    BY <1>4 DEF Cloning
  <2>2. result_ \in N + 1..Len(heap) /\ N \in Nat
    BY <2>1, <1>1 DEF Loose, Apart, Owned, Tree
  <2>3. QED
    BY <2>1, <2>2, <1>2 DEF Loose
<1>6. <<Head(Top.calls)[2], result_>> \in R
  <2>1. <<Original(stack, L + 1), result_>> \in R
    BY <1>4 DEF Copies
  <2>2. L + 1 # 1 /\ (L + 1) - 1 = L
    BY <1>2
  <2>3. Original(stack, L + 1) = Head(Top.calls)[2]
    BY <2>2, <1>2 DEF Original
  <2>4. QED
    BY <2>1, <2>3
<1>7. n \in 1..N /\ Progress(heap, Top, n, R)
  BY <1>2, <1>3 DEF Copies, InProgress
<1>8. heap[n] \in Node
  BY <1>1, <1>7 DEF Apart, Owned, Tree
<1>9. GoodFrame(f, N) /\ f.taking = FALSE
  BY <1>2, <1>3, <1>5, FrameTook
<1> HIDE DEF n
<1>10. Progress(heap, f, n, R)
  BY <1>3, <1>5, <1>6, <1>7, <1>8, ProgressMade
<1>11. stack' = [stack EXCEPT ![L] = f]
  BY DEF recurse, Top, Took
<1> HIDE DEF f
<1>12. f \in Frame(N)
  BY <1>9 DEF GoodFrame
<1>13. InProgress(heap, f, n, N, R)
  BY <1>7, <1>10, <1>12, CallHas DEF InProgress
<1>14. /\ Len(stack') = L /\ stack'[L] = f /\ stack' = Append(Front(stack), f)
  BY <1>1, <1>3, <1>11, <1>12, TopReplaced
<1>15. \A j \in 1..L : InProgress(heap, stack'[j], Original(stack', j), N, R)
  BY <1>1, <1>12, <1>13, <1>14, BelowTheTop DEF n
<1>16. ~ Awaited(stack', N)
  <2>1. stack' # <<>>
    BY <1>2, <1>14
  <2>2. QED
    BY <2>1, <1>9, <1>14 DEF Awaited
<1>17. QED
  BY <1>14, <1>15, <1>16 DEF Copies

\* A visit that has nothing left to clone has cloned every member.
LEMMA AllTaken ==
  ASSUME NEW N, NEW f \in Frame(N), NEW n, heap[n] \in Node, NEW R, Progress(heap, f, n, R), f.calls = <<>>
  PROVE  /\ Made(f).k = heap[n].k
         /\ \A x \in Names(f.k) : Pairwise(heap[n].m[x], f.got[x], R)
<1>1. /\ f.k = heap[n].k
      /\ \A y \in Names(f.k) : /\ CallsLeft(<<>>, y, heap[n].m[y], Len(f.got[y]))
                               /\ \A i \in 1..Len(f.got[y]) : <<heap[n].m[y][i], f.got[y][i]>> \in R
  BY DEF Progress
<1>2. \A y \in Names(f.k) : heap[n].m[y] \in Seq(Nat)
  BY <1>1, NodeHas
<1>3. \A y \in Names(f.k) : Len(f.got[y]) = Len(heap[n].m[y])
  BY <1>1, <1>2, LeftNone
<1>4. QED
  BY <1>1, <1>3 DEF Made, Pairwise

\* The visits that go on when the last one ends.
LEMMA OthersGoOn ==
  ASSUME NEW h, NEW N, NEW R, NEW r, Apart(h, N), Stacked(h, stack, N), stack # <<>>,
         Copies(h, stack, r, N, R),
         NEW g, \A a \in DOMAIN h : g[a] = h[a], NEW Q, \A p \in R : p \in Q,
         NEW b, <<Original(stack, Len(stack)), b>> \in Q, Similar(g, N, Q), Explained(g, N, Q)
  PROVE  Copies(g, Front(stack), b, N, Q)
<1> DEFINE L == Len(stack)
           st == Front(stack)
<1>1. /\ L \in Nat \ {0} /\ Len(st) = L - 1 /\ \A j \in 1..L - 1 : st[j] = stack[j]
  BY TopIs DEF Stacked
<1>2. \A n \in 1..N : g[n] = h[n]
  BY DEF Apart, Owned, Tree
<1> HIDE DEF st
<1>3. \A j \in 1..L : Original(st, j) = Original(stack, j)
  <2>1. SUFFICES ASSUME NEW j \in 1..L PROVE Original(st, j) = Original(stack, j)
    OBVIOUS
  <2>2. CASE j = 1
    BY <2>2 DEF Original
  <2>3. CASE j # 1
    <3>1. j - 1 \in 1..L - 1
      BY <2>3, <1>1
    <3>2. st[j - 1] = stack[j - 1]
      BY <3>1, <1>1
    <3>3. QED
      BY <3>2 DEF Original
  <2>4. QED
    BY <2>2, <2>3
<1>4. ASSUME NEW j \in 1..L - 1 PROVE InProgress(g, st[j], Original(st, j), N, Q)
  <2>1. j \in 1..L
    BY <1>1
  <2>2. InProgress(h, stack[j], Original(stack, j), N, R)
    BY <2>1 DEF Copies
  <2>3. g[Original(stack, j)] = h[Original(stack, j)]
    BY <2>2, <1>2 DEF InProgress
  <2>4. InProgress(g, stack[j], Original(stack, j), N, Q)
    BY <2>2, <2>3, ProgressKept
  <2>5. QED
    BY <2>1, <2>4, <1>1, <1>3
<1>5. <<Original(st, Len(st) + 1), b>> \in Q
  <2>1. Len(st) + 1 = L /\ L \in 1..L
    BY <1>1
  <2>2. QED
    BY <2>1, <1>3
<1>6. QED
  BY <1>1, <1>4, <1>5 DEF Copies, st

LEMMA CopiesEndAsIs ==
  ASSUME NEW N, NEW R, Cloning(heap, stack, result_, N), Copies(heap, stack, result_, N, R), CloneEnd,
         ~ (Top.k = "IfExp" /\ Top.got["elseclause"] = <<>>)
  PROVE  \E Q : Copies(heap', stack', result_', N, Q)
<1> DEFINE nd == Made(Top)
           L == Len(heap)
           n == Original(stack, Len(stack))
           Q == R \union {<<n, L + 1>>}
<1>1. /\ stack # <<>> /\ "calls" \in DOMAIN Top /\ Apart(heap, N) /\ Stacked(heap, stack, N)
      /\ Top.calls = <<>>
  BY DEF CloneEnd, Cloning
<1>2. /\ Top = stack[Len(stack)] /\ Len(stack) \in 1..Len(stack) /\ nd \in Node /\ Top \in Frame(N)
  BY <1>1, NothingToTake DEF GoodFrame
<1>3. heap' = heap \o <<nd>> /\ result_' = Len(heap') /\ stack' = Front(stack)
  BY DEF CloneEnd, Made
<1>4. heap \in Seq(Node) /\ n \in 1..N /\ Progress(heap, Top, n, R) /\ heap[n] \in Node
  <2>1. n \in 1..N /\ Progress(heap, Top, n, R)
    BY <1>2 DEF Copies, InProgress
  <2>2. QED
    BY <2>1, <1>1 DEF Apart, Owned, Tree
<1>5. nd.k = heap[n].k /\ \A x \in Names(nd.k) : Pairwise(heap[n].m[x], nd.m[x], R)
  <2>1. nd.k = Top.k /\ nd.m = Top.got
    BY DEF Made
  <2>2. QED
    BY <2>1, <1>1, <1>2, <1>4, AllTaken
<1> HIDE DEF nd, n
<1>6. /\ heap' = Append(heap, nd) /\ result_' = L + 1 /\ Len(Append(heap, nd)) = L + 1
      /\ Append(heap, nd)[L + 1] = nd
      /\ \A a \in DOMAIN heap : Append(heap, nd)[a] = heap[a]
  <2>1. Append(heap, nd) = heap \o <<nd>>
    BY <1>2, <1>4, AppendIsConcat
  <2>2. DOMAIN heap = 1..Len(heap)
    BY <1>4
  <2>3. QED
    BY <2>1, <2>2, <1>2, <1>3, <1>4, AppendProperties
<1>7. Similar(heap, N, R) /\ Explained(heap, N, R)
  BY DEF Copies
<1>8. Similar(Append(heap, nd), N, Q) /\ Explained(Append(heap, nd), N, Q)
  BY <1>1, <1>4, <1>5, <1>6, <1>7, CopyLonger
<1>9. (\A p \in R : p \in Q) /\ <<n, L + 1>> \in Q
  OBVIOUS
<1> HIDE DEF Q
<1>10. Copies(heap', stack', result_', N, Q)
  BY <1>1, <1>3, <1>6, <1>8, <1>9, OthersGoOn DEF n
<1>11. QED
  BY <1>10

LEMMA CopiesEndIf ==
  ASSUME NEW N, NEW R, Cloning(heap, stack, result_, N), Copies(heap, stack, result_, N, R), CloneEnd,
         Top.k = "IfExp", Top.got["elseclause"] = <<>>
  PROVE  \E Q : Copies(heap', stack', result_', N, Q)
<1> DEFINE L == Len(heap)
           empty == Blank("SeqExp")
           h == Append(heap, empty)
           nd == WithMember(Made(Top), "elseclause", <<L + 1>>)
           g == Append(h, nd)
           n == Original(stack, Len(stack))
           Q == R \union {<<n, Len(h) + 1>>}
<1>1. /\ stack # <<>> /\ "calls" \in DOMAIN Top /\ Apart(heap, N) /\ Stacked(heap, stack, N)
      /\ Top.calls = <<>>
  BY DEF CloneEnd, Cloning
<1>2. /\ Top = stack[Len(stack)] /\ Len(stack) \in 1..Len(stack) /\ Made(Top) \in Node /\ Top \in Frame(N)
  BY <1>1, NothingToTake DEF GoodFrame
<1>3. empty \in Node /\ Simple(empty) /\ Hold(empty) = {}
  BY IfExpIsAClass, BlankNode
<1>4. /\ Apart(h, N) /\ Len(h) = L + 1 /\ L \in Nat /\ DOMAIN heap = 1..L /\ DOMAIN h = 1..L + 1
      /\ h[L + 1] = empty /\ \A a \in DOMAIN heap : h[a] = heap[a]
      /\ heap \in Seq(Node)
  BY <1>1, <1>3, AnotherNode
<1>5. heap' = heap \o <<empty, nd>> /\ result_' = Len(heap') /\ stack' = Front(stack)
  <2>1. IfExp_ctor(Top.got) = <<empty, [k |-> "IfExp", m |-> [Top.got EXCEPT !["elseclause"] = <<L + 1>>]]>>
    BY DEF IfExp_ctor
  <2>2. nd = [k |-> "IfExp", m |-> [Top.got EXCEPT !["elseclause"] = <<L + 1>>]]
    BY DEF Made, WithMember
  <2> HIDE DEF empty, nd
  <2>3. QED
    BY <2>1, <2>2 DEF CloneEnd
<1>6. /\ Made(Top).k = "IfExp" /\ Made(Top).m = Top.got /\ Top.k = "IfExp"
      /\ "elseclause" \in Names("IfExp")
  <2>1. "elseclause" \in Names("IfExp")
    BY DEF Names, Members, Class, IfExp, One, Opt
  <2>2. QED
    BY <2>1 DEF Made
<1>7. /\ nd \in Node /\ nd.k = "IfExp" /\ nd.m["elseclause"] = <<L + 1>>
      /\ \A x \in Names("IfExp") : x # "elseclause" => nd.m[x] = Top.got[x]
  <2>1. <<L + 1>> \in Seq(Nat)
    BY <1>4
  <2> DEFINE s == <<L + 1>>
  <2> HIDE DEF s
  <2>2. s \in Seq(Nat)
    BY <2>1 DEF s
  <2>3. nd = WithMember(Made(Top), "elseclause", s)
    BY DEF s
  <2> HIDE DEF nd
  <2>4. nd \in Node /\ nd.k = "IfExp" /\ nd.m["elseclause"] = s
        /\ \A x \in Names("IfExp") : x # "elseclause" => nd.m[x] = Made(Top).m[x]
    BY <2>2, <2>3, <1>2, <1>6, NodeGiven
  <2>5. QED
    BY <2>4, <1>6 DEF s
<1>8. n \in 1..N /\ Progress(heap, Top, n, R) /\ heap[n] \in Node /\ h[n] = heap[n]
  <2>1. n \in 1..N /\ Progress(heap, Top, n, R)
    BY <1>2 DEF Copies, InProgress
  <2> HIDE DEF n, h
  <2>2. heap[n] \in Node /\ n \in DOMAIN heap
    BY <2>1, <1>1 DEF Apart, Owned, Tree
  <2>3. QED
    BY <2>1, <2>2, <1>4
<1> HIDE DEF empty, nd, h, n
<1>9. heap[n].k = "IfExp" /\ \A x \in Names("IfExp") : Pairwise(heap[n].m[x], Top.got[x], R)
  BY <1>1, <1>2, <1>6, <1>8, AllTaken
<1>10. h \in Seq(Node) /\ DOMAIN h = 1..Len(h)
  BY <1>4 DEF Apart, Owned
<1>11. /\ heap' = g /\ result_' = Len(h) + 1 /\ Len(g) = Len(h) + 1 /\ g[Len(h) + 1] = nd
       /\ \A a \in DOMAIN h : g[a] = h[a]
  <2>1. h = heap \o <<empty>>
    BY <1>3, <1>4, AppendIsConcat DEF h
  <2>2. g = h \o <<nd>>
    BY <1>7, <1>10, AppendIsConcat
  <2>3. <<empty>> \in Seq(Node) /\ <<nd>> \in Seq(Node) /\ <<empty>> \o <<nd>> = <<empty, nd>>
    BY <1>3, <1>7, TwoInARow
  <2>4. (heap \o <<empty>>) \o <<nd>> = heap \o (<<empty>> \o <<nd>>)
    BY <2>3, <1>4, ConcatAssociative
  <2>5. /\ Len(g) = Len(h) + 1 /\ g[Len(h) + 1] = nd
        /\ \A a \in DOMAIN h : g[a] = h[a]
    BY <1>7, <1>10, AppendProperties
  <2>6. heap' = g
    BY <2>1, <2>2, <2>3, <2>4, <1>5
  <2>7. QED
    BY <2>5, <2>6, <1>5
<1> HIDE DEF g
<1>12. Similar(h, N, R) /\ Explained(h, N, R)
  <2>1. Similar(heap, N, R) /\ Explained(heap, N, R)
    BY DEF Copies
  <2>2. Len(h) \in Nat /\ L <= Len(h)
    BY <1>4
  <2>3. Similar(h, N, R)
    BY <2>1, <2>2, <1>1, <1>4, SimilarLonger
  <2>4. \A b \in N + 1..Len(h) : b = L + 1 \/ (b \in N + 1..L /\ b \in DOMAIN heap)
    <3>1. N \in DOMAIN heap
      BY <1>1 DEF Apart, Tree
    <3>2. N \in Nat /\ N <= L
      BY <3>1, <1>4
    <3> HIDE DEF L
    <3>3. QED
      BY <3>2, <1>4
  <2>5. Explained(h, N, R)
    BY <2>1, <2>4, <1>4 DEF Explained, empty
  <2>6. QED
    BY <2>3, <2>5
<1>13. \A x \in Names(nd.k) : Pairwise(h[n].m[x], nd.m[x], R) \/ Filled(g, x, h[n].m[x], nd.m[x])
  <2>1. SUFFICES ASSUME NEW x \in Names("IfExp")
                 PROVE  Pairwise(heap[n].m[x], nd.m[x], R) \/ Filled(g, x, heap[n].m[x], nd.m[x])
    BY <1>7, <1>8
  <2>2. CASE x # "elseclause"
    BY <2>2, <1>7, <1>9
  <2>3. CASE x = "elseclause"
    <3>1. heap[n].m[x] \in Seq(Nat) /\ Len(heap[n].m[x]) = 0
      <4>1. Len(heap[n].m[x]) = Len(<<>>)
        BY <2>3, <1>6, <1>9 DEF Pairwise
      <4>2. QED
        BY <4>1, <1>8, <1>9, NodeHas
    <3>2. heap[n].m[x] = <<>>
      BY <3>1
    <3>3. Len(nd.m[x]) = 1 /\ nd.m[x][1] = L + 1
      BY <2>3, <1>7
    <3>4. g[L + 1] = Blank("SeqExp")
      BY <1>4, <1>11 DEF empty
    <3>5. QED
      BY <2>3, <3>2, <3>3, <3>4 DEF Filled
  <2>4. QED
    BY <2>2, <2>3
<1>14. Similar(g, N, Q) /\ Explained(g, N, Q)
  <2>1. nd.k = h[n].k
    BY <1>7, <1>8, <1>9
  <2>2. QED
    BY <2>1, <1>4, <1>8, <1>11, <1>12, <1>13, CopyLonger DEF g
<1>15. /\ \A a \in DOMAIN heap : g[a] = heap[a]
       /\ (\A p \in R : p \in Q) /\ <<n, Len(h) + 1>> \in Q
  BY <1>4, <1>11
<1> HIDE DEF Q
<1>16. Copies(heap', stack', result_', N, Q)
  BY <1>1, <1>5, <1>11, <1>14, <1>15, OthersGoOn DEF n
<1>17. QED
  BY <1>16

-----------------------------------------------------------------------------
(* The clone is a copy, and what leaks.                                    *)

NamesUpTo(h, N) ==
  \A n \in 1..N : \A x \in Forgotten(h[n].k) \intersect Names(h[n].k) :
    \A c \in ToSet(h[n].m[x]) : h[c].k = "NameTy"

Copied(h, st, r) == \E N, R : Cloning(h, st, r, N) /\ Copies(h, st, r, N, R) /\ NamesUpTo(h, N)

AlikeInv ==
  /\ phase \in {"build", "dump", "visit"} => OnlyNames(heap)
  /\ phase = "clone" => Copied(heap, stack, result_)
  /\ phase \in {"delete", "exit"} => Copied(heap, <<>>, result_)

LEMMA AlikeInit == ASSUME Init PROVE AlikeInv
<1>1. PICK k \in DOMAIN Class : heap = <<Blank(k)>>
  BY DEF Init
<1>2. DOMAIN heap = {1} /\ heap[1] = Blank(k)
  BY <1>1
<1>3. \A x \in Names(k) : Blank(k).m[x] = <<>> /\ Blank(k).k = k
  BY BlankNode
<1>4. Blank(k).k = k
  BY BlankNode
<1>5. OnlyNames(heap)
  BY <1>2, <1>3, <1>4, None DEF OnlyNames, Lists
<1>6. QED
  BY <1>5 DEF Init, AlikeInv

LEMMA CopiedBegins ==
  ASSUME TheTree, OnlyNames(heap)
  PROVE  Copied(heap, <<[call |-> Root]>>, result_)
<1> DEFINE N == Len(heap)
           c == [call |-> Root]
           st == <<c>>
<1>1. /\ Cloning(heap, st, result_, N) /\ c \in Calls(N) /\ ~ Awaited(st, N)
      /\ N \in DOMAIN heap /\ heap \in Seq(Node)
  BY CloningBegins DEF TheTree, Owned
<1>2. /\ DOMAIN heap = 1..N /\ N \in Nat /\ \A b \in N + 1..N : FALSE
      /\ Root \in 1..N /\ c.call = Root
  BY <1>1 DEF Root
<1>3. Len(st) = 1 /\ st[1] = c /\ \A j \in 1..1 : j = 1
  OBVIOUS
<1>4. NamesUpTo(heap, N)
  BY <1>2 DEF NamesUpTo, OnlyNames
<1>5. c \notin Frame(N)
  BY <1>1, CallHas
<1> HIDE DEF N, c, st
<1>6. Similar(heap, N, {}) /\ Explained(heap, N, {})
  BY <1>2 DEF Similar, Explained
<1>7. InProgress(heap, c, Root, N, {}) /\ Original(st, 1) = Root
  BY <1>2, <1>5 DEF InProgress, Original
<1>8. Copies(heap, st, result_, N, {})
  BY <1>1, <1>3, <1>6, <1>7 DEF Copies
<1>9. QED
  BY <1>1, <1>4, <1>8 DEF Copied, st, c

LEMMA Extends ==
  ASSUME NEW S, NEW h \in Seq(S), NEW T, NEW t \in Seq(T)
  PROVE  \A a \in DOMAIN h : (h \o t)[a] = h[a]
<1>1. h \in Seq(S \union T) /\ t \in Seq(S \union T) /\ DOMAIN h = 1..Len(h)
  OBVIOUS
<1>2. QED
  BY <1>1, ConcatProperties

LEMMA HeapStays ==
  ASSUME CloneEnd, heap \in Seq(Node)
  PROVE  \A a \in DOMAIN heap : heap'[a] = heap[a]
<1> DEFINE p == Blank("SeqExp")
           q == [k |-> "IfExp", m |-> [Top.got EXCEPT !["elseclause"] = <<Len(heap) + 1>>]]
           r == [k |-> Top.k, m |-> Top.got]
<1>1. heap' = heap \o <<p, q>> \/ heap' = heap \o <<r>>
  BY DEF CloneEnd, IfExp_ctor
<1> HIDE DEF p, q, r
<1>2. <<p, q>> \in Seq({p, q}) /\ <<r>> \in Seq({r})
  OBVIOUS
<1>3. QED
  BY <1>1, <1>2, Extends

LEMMA NamesStay ==
  ASSUME NEW N, Apart(heap, N), NamesUpTo(heap, N), NEW g, \A a \in DOMAIN heap : g[a] = heap[a]
  PROVE  NamesUpTo(g, N)
<1>1. /\ \A n \in 1..N : n \in DOMAIN heap /\ heap[n] \in Node
      /\ \A n \in DOMAIN heap : Hold(heap[n]) \subseteq DOMAIN heap
  BY DEF Apart, Owned, Tree
<1>2. ASSUME NEW n \in 1..N, NEW x \in Names(heap[n].k), NEW c \in ToSet(heap[n].m[x])
      PROVE  c \in DOMAIN heap
  BY <1>1, <1>2, NodeHas
<1>3. \A n \in 1..N : g[n] = heap[n]
  BY <1>1
<1>4. QED
  BY <1>2, <1>3 DEF NamesUpTo

LEMMA CopiedOn ==
  ASSUME Copied(heap, stack, result_), CloneCall \/ CloneMember \/ recurse
  PROVE  Copied(heap', stack', result_')
<1>1. UNCHANGED <<heap, result_>>
  BY DEF CloneCall, CloneMember, recurse, tree
<1>2. PICK N, R : Cloning(heap, stack, result_, N) /\ Copies(heap, stack, result_, N, R)
                  /\ NamesUpTo(heap, N)
  BY DEF Copied
<1>3. Cloning(heap, stack', result_, N)
  BY <1>2, CloningCall, CloningMember, CloningTakes
<1>4. Copies(heap, stack', result_, N, R)
  BY <1>2, CopiesCall, CopiesMember, CopiesTakes
<1>5. QED
  BY <1>1, <1>2, <1>3, <1>4 DEF Copied

LEMMA CopiedEndsOne ==
  ASSUME Copied(heap, stack, result_), CloneEnd
  PROVE  Copied(heap', stack', result_')
<1>1. PICK N, R : Cloning(heap, stack, result_, N) /\ Copies(heap, stack, result_, N, R)
                  /\ NamesUpTo(heap, N)
  BY DEF Copied
<1>2. Cloning(heap', stack', result_', N)
  BY <1>1, CloningEnds
<1>3. PICK Q : Copies(heap', stack', result_', N, Q)
  BY <1>1, CopiesEndAsIs, CopiesEndIf
<1>4. Apart(heap, N) /\ heap \in Seq(Node)
  BY <1>1 DEF Cloning, Apart, Owned
<1>5. NamesUpTo(heap', N)
  BY <1>1, <1>4, HeapStays, NamesStay
<1>6. QED
  BY <1>2, <1>3, <1>5 DEF Copied

LEMMA AlikeNext == ASSUME WalksInv, AlikeInv, Next PROVE AlikeInv'
<1>1. CASE Build
  <2>1. Growing /\ phase = "build" /\ phase' = "build"
    BY <1>1, PhaseOf DEF Build, Building
  <2>2. OnlyNames(heap')
    BY <1>1, <2>1, BuildsNames DEF AlikeInv
  <2>3. QED
    BY <2>1, <2>2 DEF AlikeInv
<1>2. CASE \/ Built \/ DumpNode \/ DumpMember \/ DumpEnd \/ Visit
           \/ (EndOfDump /\ ~ HasObjects)
  <2>1. /\ phase \in {"build", "dump", "visit"} /\ phase' \in {"dump", "visit"} /\ heap' = heap
    BY <1>2 DEF Built, DumpNode, DumpMember, DumpEnd, Visit, EndOfDump, tree
  <2>2. QED
    BY <2>1 DEF AlikeInv
<1>3. CASE (EndOfDump /\ HasObjects) \/ EndOfVisit
  <2>1. /\ phase \in {"dump", "visit"} /\ phase' = "clone" /\ stack' = <<[call |-> Root]>>
        /\ UNCHANGED <<heap, result_>>
    BY <1>3 DEF EndOfDump, EndOfVisit, tree
  <2>2. TheTree /\ OnlyNames(heap)
    BY <2>1, PhaseOf DEF Dumping, Visiting, AlikeInv
  <2>3. Copied(heap', stack', result_')
    BY <2>1, <2>2, CopiedBegins
  <2>4. QED
    BY <2>1, <2>3 DEF AlikeInv
<1>4. CASE CloneCall \/ CloneMember \/ recurse \/ CloneEnd
  <2>1. phase = "clone" /\ phase' = "clone"
    BY <1>4 DEF CloneCall, CloneMember, recurse, CloneEnd
  <2>2. Copied(heap', stack', result_')
    BY <1>4, <2>1, CopiedOn, CopiedEndsOne DEF AlikeInv
  <2>3. QED
    BY <2>1, <2>2 DEF AlikeInv
<1>5. CASE CheckDropped
  BY <1>5 DEF CheckDropped, AlikeInv
<1>6. CASE apply \/ delete \/ exit
  <2>1. /\ phase \in {"clone", "delete", "exit"}
        /\ phase = "clone" => stack = <<>>
        /\ phase' \in {"delete", "exit"} /\ UNCHANGED <<heap, result_>>
    BY <1>6 DEF apply, delete, exit, tree
  <2>2. Copied(heap, <<>>, result_)
    BY <2>1 DEF AlikeInv
  <2>3. QED
    BY <2>1, <2>2 DEF AlikeInv
<1>7. QED
  BY <1>1, <1>2, <1>3, <1>4, <1>5, <1>6 DEF Next

LEMMA AlikeKept == Spec => []AlikeInv
<1>1. Init => AlikeInv
  BY AlikeInit
<1>2. WalksInv /\ AlikeInv /\ [Next]_vars => AlikeInv'
  <2>1. AlikeInv /\ UNCHANGED vars => AlikeInv'
    BY DEF AlikeInv, vars, tree
  <2>2. QED
    BY <2>1, AlikeNext
<1>3. QED
  BY <1>1, <1>2, WalksKept, PTL DEF Spec

\* The clone is a tree like the original, of other nodes, whatever the tree
\* (src/src/astclone/cloner.cc).
THEOREM ClonesAreCopies == Spec => []TheCloneIsACopy
<1>1. AlikeInv => TheCloneIsACopy
  <2>1. SUFFICES ASSUME AlikeInv, phase = "clone", stack = <<>>
                 PROVE  SameTree(Root, result_) /\ Reachable(Root) \intersect Reachable(result_) = {}
    BY DEF TheCloneIsACopy
  <2>2. PICK N, R : Cloning(heap, <<>>, result_, N) /\ Copies(heap, <<>>, result_, N, R)
    BY <2>1 DEF AlikeInv, Copied
  <2>3. <<Root, result_>> \in R
    <3>1. Awaited(<<>>, N) /\ Len(<<>>) + 1 = 1
      BY DEF Awaited
    <3>2. QED
      BY <3>1, <2>2 DEF Copies, Original
  <2>4. Similar(heap, N, R) /\ Apart(heap, N)
    BY <2>2 DEF Copies, Cloning
  <2>5. Root \in 1..N /\ result_ \in N + 1..Len(heap)
    BY <2>3, <2>4 DEF Similar
  <2>6. SameTree(Root, result_)
    BY <2>3, <2>4, SameFound
  <2>7. QED
    BY <2>4, <2>5, <2>6, ReachedApart
<1>2. QED
  BY <1>1, AlikeKept, PTL

\* The names of types of the clone are those of the original.
LEMMA CloneNames ==
  ASSUME NEW N, NEW R, Apart(heap, N), Similar(heap, N, R), Explained(heap, N, R), NamesUpTo(heap, N)
  PROVE  OnlyNames(heap)
<1>1. /\ heap \in Seq(Node) /\ N \in Nat /\ DOMAIN heap = 1..Len(heap) /\ Len(heap) \in Nat
      /\ N \in 1..Len(heap)
  BY DEF Apart, Owned, Tree
<1>2. SUFFICES ASSUME NEW n \in DOMAIN heap, NEW x \in Forgotten(heap[n].k), x \in Names(heap[n].k),
                      NEW c \in ToSet(heap[n].m[x])
               PROVE  heap[c].k = "NameTy"
  BY DEF OnlyNames
<1>3. CASE n \in 1..N
  BY <1>2, <1>3 DEF NamesUpTo
<1>4. CASE n \in N + 1..Len(heap)
  <2>1. heap[n] # Blank("SeqExp")
    <3>1. Blank("SeqExp").k = "SeqExp"
      BY IfExpIsAClass, BlankNode
    <3>2. Forgotten("SeqExp") = {}
      BY DEF Forgotten
    <3>3. QED
      BY <3>1, <3>2, <1>2
  <2>2. PICK a : <<a, n>> \in R
    BY <1>4, <2>1 DEF Explained
  <2>3. /\ a \in 1..N /\ heap[a].k = heap[n].k
        /\ Pairwise(heap[a].m[x], heap[n].m[x], R) \/ x = "elseclause"
    BY <2>2, <1>2 DEF Similar, Filled
  <2>4. x # "elseclause"
    BY <1>2 DEF Forgotten
  <2>5. Pairwise(heap[a].m[x], heap[n].m[x], R)
    BY <2>3, <2>4
  <2>6. heap[n].m[x] \in Seq(Nat) /\ heap[a].m[x] \in Seq(Nat)
    <3>1. heap[n] \in Node /\ heap[a] \in Node
      BY <1>1, <1>2, <2>3
    <3>2. QED
      BY <3>1, <1>2, <2>3, NodeHas
  <2>7. PICK i \in 1..Len(heap[n].m[x]) : c = heap[n].m[x][i]
    BY <1>2, <2>6 DEF ToSet
  <2>8. i \in DOMAIN heap[a].m[x] /\ <<heap[a].m[x][i], c>> \in R
    <3>1. Len(heap[a].m[x]) = Len(heap[n].m[x])
      BY <2>5 DEF Pairwise
    <3>2. DOMAIN heap[a].m[x] = 1..Len(heap[a].m[x])
      BY <2>6
    <3>3. QED
      BY <3>1, <3>2, <2>5, <2>7 DEF Pairwise
  <2>9. heap[a].m[x][i] \in ToSet(heap[a].m[x])
    BY <2>8 DEF ToSet
  <2>10. heap[heap[a].m[x][i]].k = "NameTy"
    BY <1>2, <2>3, <2>9 DEF NamesUpTo
  <2>11. heap[heap[a].m[x][i]].k = heap[c].k
    BY <2>8 DEF Similar
  <2>12. QED
    BY <2>10, <2>11
<1>5. n \in 1..N \/ n \in N + 1..Len(heap)
  BY <1>1
<1>6. QED
  BY <1>3, <1>4, <1>5

\* A node that its owner forgot.
Lost(n) == \E p \in DOMAIN heap : \E x \in Forgotten(heap[p].k) \intersect Names(heap[p].k) :
             n \in ToSet(heap[p].m[x])

\* A node that was not freed, but whose owner was, is lost; and it holds nothing,
\* so that no other one follows it.
LEMMA LostWith ==
  ASSUME Owned(heap), OnlyNames(heap), NEW done,
         \A n \in done : n \in DOMAIN heap /\ ToSet(DeletedNext[n]) \subseteq done,
         NEW c, c \notin done, NEW p \in DOMAIN heap, c \in Hold(heap[p]), p \in done \/ Lost(p)
  PROVE  Lost(c)
<1>1. heap[p] \in Node
  BY DEF Owned
<1>2. PICK x \in Names(heap[p].k) : c \in ToSet(heap[p].m[x])
  BY <1>1, NodeHas DEF Hold
<1>3. CASE p \in done
  <2>1. c \notin ToSet(DeletedNext[p])
    BY <1>3
  <2>2. ToSet(DeletedNext[p]) = UNION {ToSet(heap[p].m[y]) : y \in Names(heap[p].k) \ Forgotten(heap[p].k)}
    BY DeletesFollow
  <2>3. x \in Forgotten(heap[p].k)
    BY <1>2, <2>1, <2>2
  <2>4. QED
    BY <1>2, <2>3 DEF Lost
<1>4. CASE Lost(p)
  <2>1. heap[p].k = "NameTy"
    BY <1>4 DEF Lost, OnlyNames
  <2>2. Hold(heap[p]) = {}
    BY <1>1, <2>1, NamesHoldNothing
  <2>3. QED
    BY <2>2
<1>5. QED
  BY <1>3, <1>4

LEMMA OnlyLostLeak ==
  ASSUME NEW N, Cloning(heap, <<>>, result_, N), OnlyNames(heap), NEW done,
         \A n \in done : n \in DOMAIN heap /\ ToSet(DeletedNext[n]) \subseteq done,
         Root \in done, result_ \in done, NEW c0 \in DOMAIN heap, c0 \notin done
  PROVE  Lost(c0)
<1>1. /\ Owned(heap) /\ N \in Nat /\ DOMAIN heap = 1..Len(heap) /\ Len(heap) \in Nat
      /\ N \in 1..Len(heap)
  BY DEF Cloning, Apart, Owned, Tree
<1>2. /\ \A n \in 1..N : Hold(heap[n]) \subseteq n + 1..N
      /\ \A c \in 2..N : \E n \in 1..N : c \in Hold(heap[n])
      /\ \A n \in N + 1..Len(heap) : Hold(heap[n]) \subseteq N + 1..n - 1
  BY DEF Cloning, Apart, Tree
<1>3. \A c \in N + 1..Len(heap) : (\E n \in DOMAIN heap : c \in Hold(heap[n])) \/ c = result_
  <2>1. Len(<<>>) = 0 /\ \A j \in 1..0 : FALSE
    OBVIOUS
  <2>2. Accounted(heap, <<>>, N, result_)
    BY DEF Cloning
  <2>3. QED
    BY <2>1, <2>2 DEF Accounted
<1>4. \A c \in 1..N : c \in done \/ Lost(c)
  <2> DEFINE Bad == {c \in 1..N : ~ (c \in done \/ Lost(c))}
  <2>1. SUFFICES ASSUME Bad # {} PROVE FALSE
    OBVIOUS
  <2>2. PICK c \in Bad : \A y \in Bad : c <= y
    <3>1. Bad \in SUBSET Nat
      BY <1>1
    <3> HIDE DEF Bad
    <3>2. QED
      BY <2>1, <3>1, LeastElement
  <2>3. c \in 2..N /\ c \notin done /\ ~ Lost(c)
    BY <1>1 DEF Root
  <2>4. PICK p \in 1..N : c \in Hold(heap[p])
    BY <1>2, <2>3
  <2>5. ~ c <= p /\ p \in DOMAIN heap
    <3>1. c \in p + 1..N /\ p \in 1..N
      BY <1>2, <2>4
    <3>2. \A i \in 1..N : i \in 1..Len(heap)
      BY <1>1
    <3> HIDE DEF Bad
    <3>3. ~ c <= p
      BY <3>1, <1>1
    <3>4. QED
      BY <3>1, <3>2, <3>3, <1>1
  <2>6. p \in done \/ Lost(p)
    BY <2>2, <2>4, <2>5
  <2>7. QED
    BY <1>1, <2>3, <2>4, <2>5, <2>6, LostWith
<1>5. \A c \in N + 1..Len(heap) : c \in done \/ Lost(c)
  <2> DEFINE Bad == {k \in Nat : \E c \in N + 1..Len(heap) : k = Len(heap) - c /\ ~ (c \in done \/ Lost(c))}
  <2>1. SUFFICES ASSUME Bad # {} PROVE FALSE
    <3>1. SUFFICES ASSUME NEW c \in N + 1..Len(heap), ~ (c \in done \/ Lost(c)) PROVE FALSE
      OBVIOUS
    <3>2. Len(heap) - c \in Bad
      BY <1>1, <3>1
    <3>3. QED
      BY <2>1, <3>2
  <2>2. PICK k \in Bad : \A y \in Bad : k <= y
    <3>1. Bad \in SUBSET Nat
      OBVIOUS
    <3> HIDE DEF Bad
    <3>2. QED
      BY <2>1, <3>1, LeastElement
  <2>3. PICK c \in N + 1..Len(heap) : k = Len(heap) - c /\ ~ (c \in done \/ Lost(c))
    BY <2>2
  <2>4. PICK p \in DOMAIN heap : c \in Hold(heap[p])
    BY <1>3, <2>3
  <2>5. p \in N + 1..Len(heap) /\ c \in N + 1..p - 1
    <3>1. p \notin 1..N
      <4>1. SUFFICES ASSUME p \in 1..N PROVE FALSE
        OBVIOUS
      <4>2. c \in p + 1..N
        BY <4>1, <1>2, <2>4
      <4>3. QED
        BY <4>2, <2>3, <1>1
    <3>2. p \in N + 1..Len(heap)
      <4>1. p \in 1..Len(heap)
        BY <2>4, <1>1
      <4> HIDE DEF Bad
      <4>2. QED
        BY <3>1, <4>1, <1>1
    <3>3. QED
      BY <3>2, <1>2, <2>4
  <2>6. Len(heap) - p \in Nat /\ ~ k <= Len(heap) - p
    BY <1>1, <2>3, <2>5
  <2>7. p \in done \/ Lost(p)
    BY <2>2, <2>5, <2>6
  <2>8. QED
    BY <1>1, <2>3, <2>4, <2>7, LostWith
<1>6. c0 \in 1..N \/ c0 \in N + 1..Len(heap)
  BY <1>1
<1>7. QED
  BY <1>4, <1>5, <1>6

\* At the end nothing leaks but what two destructors of nodes of objects forget
\* (src/src/ast/object-exp.cc, src/src/ast/class-ty.cc).
THEOREM NothingElseLeaks == Spec => []OnlyObjectsLeak
<1>1. WalksInv /\ AlikeInv => OnlyObjectsLeak
  <2>1. SUFFICES ASSUME WalksInv, AlikeInv, phase = "exit", stack = <<>>,
                        NEW c \in DOMAIN heap, c \notin ToSet(freed)
                 PROVE  \E p \in DOMAIN heap :
                          \/ heap[p].k = "ObjectExp" /\ c \in ToSet(heap[p].m["type_name"])
                          \/ heap[p].k = "ClassTy" /\ c \in ToSet(heap[p].m["super"])
    BY DEF OnlyObjectsLeak
  <2>2. PICK N, R : /\ Cloning(heap, <<>>, result_, N) /\ Copies(heap, <<>>, result_, N, R)
                    /\ NamesUpTo(heap, N)
    BY <2>1 DEF AlikeInv, Copied
  <2>3. OnlyNames(heap)
    BY <2>2, CloneNames DEF Cloning, Copies
  <2>4. Worklist(heap, freed, <<>>, {Root, result_}, DeletedNext) /\ ToSet(<<>>) = {}
    BY <2>1, PhaseOf, None DEF Exiting, Lists
  <2>5. /\ \A n \in ToSet(freed) : n \in DOMAIN heap /\ ToSet(DeletedNext[n]) \subseteq ToSet(freed)
        /\ Root \in ToSet(freed) /\ result_ \in ToSet(freed)
    BY <2>4, HeldBySeq DEF Worklist
  <2>6. Lost(c)
    BY <2>1, <2>2, <2>3, <2>5, OnlyLostLeak
  <2>7. QED
    BY <2>6 DEF Lost, Forgotten
<1>2. QED
  BY <1>1, WalksKept, AlikeKept, PTL

-----------------------------------------------------------------------------
(* Dumping: the links that leave a node start from ports it has. *)

\* For every node, its ports.
Porting == [n \in DOMAIN heap |-> PortsOf(n)]

\* The links that may leave a node, and those still to draw, to different nodes.
Link(h, Q, n) == {d \in [field : Q[n], node : Hold(h[n])] : d.field # Null}
Ends(s) == {d.node : d \in ToSet(s)}
ByNode(s) == \A d, e \in ToSet(s) : d.node = e.node => d = e
ToDraw(h, Q, n, s) == s \in Seq(Link(h, Q, n)) /\ IsInjective(s) /\ ByNode(s)

Numbered(ref, size, i) == IF size > 1 THEN <<ref, i - 1>> ELSE <<ref>>

LEMMA FieldPorted ==
  ASSUME TheTree, NEW n \in DOMAIN heap, NEW x \in Names(heap[n].k), NEW i \in 1..Len(heap[n].m[x])
  PROVE  LET field == Numbered(PortOf(heap[n].k, x), Len(heap[n].m[x]), i) IN
         field \in PortsOf(n) /\ field # Null
<1> DEFINE k == heap[n].k
           z == Len(heap[n].m[x])
           ref == PortOf(k, x)
           field == Numbered(ref, z, i)
<1>1. /\ heap[n] \in Node /\ k \in DOMAIN Class /\ heap[n].m[x] \in Seq(Nat)
      /\ Lists(DotOf(k).members, Names(k)) /\ Known(Members(k), PortsIn(k))
  <2>1. heap[n] \in Node
    BY DEF TheTree, Owned
  <2>2. k \in DOMAIN Class /\ heap[n].m[x] \in Seq(Nat)
    BY <2>1, NodeHas
  <2>3. QED
    BY <2>1, <2>2, EveryRow DEF Row
<1>2. z \in Nat \ {0} /\ i \in 1..z
  BY <1>1
<1>3. ref \in Fields
  <2>1. Names(k) \subseteq Fields
    BY <1>1 DEF Names, Fields
  <2>2. "nodename" \in Fields
    BY DEF Fields
  <2>3. QED
    BY <2>1, <2>2 DEF PortOf
<1>4. field # Null
  <2> HIDE DEF ref, z
  <2>1. CASE z > 1
    <3>1. field = <<ref, i - 1>> /\ i - 1 \in Nat
      BY <1>2, <2>1 DEF Numbered
    <3>2. <<ref, i - 1>> \in Fields \X Nat
      BY <1>3, <3>1
    <3>3. QED
      BY <3>1, <3>2, FieldAssumption
  <2>2. CASE ~ (z > 1)
    <3>1. field = <<ref>>
      BY <2>2 DEF Numbered
    <3>2. <<ref>> \in Seq(Fields)
      BY <1>3
    <3>3. QED
      BY <3>1, <3>2, FieldAssumption
  <2>3. QED
    BY <2>1, <2>2
<1>5. CASE IsList(k, x)
  <2>1. x \in {y \in ToSet(DotOf(k).members) : IsList(k, y)}
    BY <1>1, <1>5 DEF Lists
  <2>2. node_html_port_list(ref, z) \subseteq PortsOf(n)
    BY <2>1 DEF PortsOf
  <2>3. field \in node_html_port_list(ref, z)
    <3> HIDE DEF ref, z
    <3>1. CASE z > 1
      <4>1. field = <<ref, i - 1>> /\ i - 1 \in 0..(z - 1)
        BY <1>2, <3>1 DEF Numbered
      <4>2. QED
        BY <4>1, <3>1 DEF node_html_port_list
    <3>2. CASE ~ (z > 1)
      BY <3>2 DEF Numbered, node_html_port_list
    <3>3. QED
      BY <3>1, <3>2
  <2>4. QED
    BY <1>4, <2>2, <2>3
<1>6. CASE ~ IsList(k, x)
  <2>1. PICK q \in DOMAIN Members(k) : Members(k)[q].name = x
    BY DEF Names
  <2>2. ~ Members(k)[q].many /\ Members(k)[q] \in ToSet(Members(k))
    BY <2>1, <1>6 DEF IsList, ToSet
  <2>3. x \in PortsIn(k)
    BY <1>1, <2>1, <2>2 DEF Known, Ported
  <2>4. ref = x /\ x \in DotOf(k).ports
    BY <2>3 DEF PortsIn, PortOf
  <2>5. z <= 1
    BY <2>1, <2>2 DEF TheTree, Arity
  <2>6. field = <<x>>
    BY <1>2, <2>4, <2>5 DEF Numbered
  <2>7. heap[n].m[x] # <<>>
    BY <1>2
  <2>8. x \in Ports(n)
    BY <2>4, <2>7 DEF Ports
  <2>9. QED
    BY <1>4, <2>6, <2>8 DEF PortsOf
<1>7. QED
  BY <1>5, <1>6

\* The links to one member.
LEMMA ListDumped ==
  ASSUME TheTree, NEW n \in DOMAIN heap, NEW x \in Names(heap[n].k)
  PROVE  LET s == dump_list(PortOf(heap[n].k, x), heap[n].m[x]) IN
         ToDraw(heap, Porting, n, s) /\ Ends(s) = ToSet(heap[n].m[x])
<1> DEFINE t == heap[n].m[x]
           ref == PortOf(heap[n].k, x)
           s == dump_list(ref, t)
           L == Link(heap, Porting, n)
<1>1. t \in Seq(Nat) /\ ToSet(t) \subseteq Hold(heap[n]) /\ IsInjective(t)
  <2>1. heap[n] \in Node /\ Simple(heap[n])
    BY DEF TheTree, Owned
  <2>2. QED
    BY <2>1, NodeHas DEF Simple
<1>2. \A i \in 1..Len(t) : Numbered(ref, Len(t), i) \in Porting[n] /\ Numbered(ref, Len(t), i) # Null
  BY FieldPorted DEF Porting
<1> HIDE DEF ref, t
<1>3. DOMAIN t = 1..Len(t) /\ Len(t) \in Nat /\ \A i \in 1..Len(t) : t[i] \in Hold(heap[n])
  BY <1>1, HeldBySeq
<1>4. s = [i \in 1..Len(t) |-> [field |-> Numbered(ref, Len(t), i), node |-> t[i]]]
  BY <1>3 DEF dump_list, Numbered
<1> HIDE DEF s
<1>5. \A i \in 1..Len(t) : s[i] \in L
  <2>1. SUFFICES ASSUME NEW i \in 1..Len(t) PROVE s[i] \in L
    OBVIOUS
  <2>2. s[i] = [field |-> Numbered(ref, Len(t), i), node |-> t[i]]
    BY <1>4
  <2>3. QED
    BY <2>2, <1>2, <1>3 DEF Link
<1>6. s \in Seq(L) /\ DOMAIN s = 1..Len(t) /\ \A i \in 1..Len(t) : s[i].node = t[i]
  BY <1>3, <1>4, <1>5
<1>7. \A i, j \in 1..Len(t) : s[i].node = s[j].node => i = j
  BY <1>1, <1>3, <1>6 DEF IsInjective
<1>8. IsInjective(s) /\ ByNode(s)
  BY <1>6, <1>7 DEF IsInjective, ByNode, ToSet
<1>9. Ends(s) = ToSet(t)
  BY <1>3, <1>6 DEF Ends, ToSet
<1>10. QED
  BY <1>6, <1>8, <1>9 DEF ToDraw, s, t, ref

\* The links that leave a node, one to each of its members.
LEMMA DumpsOf ==
  ASSUME TheTree, NEW n \in DOMAIN heap
  PROVE  ToDraw(heap, Porting, n, Dumps(n)) /\ Ends(Dumps(n)) = Hold(heap[n])
<1> DEFINE k == heap[n].k
           l == DotOf(k).members
           L == Link(heap, Porting, n)
           D(x) == dump_list(PortOf(k, x), heap[n].m[x])
           ss == [i \in DOMAIN l |-> D(l[i])]
<1>1. heap[n] \in Node /\ Simple(heap[n]) /\ k \in DOMAIN Class /\ Lists(l, Names(k))
      /\ DOMAIN heap[n].m = Names(k)
  <2>1. heap[n] \in Node /\ Simple(heap[n])
    BY DEF TheTree, Owned
  <2>2. k \in DOMAIN Class /\ DOMAIN heap[n].m = Names(k)
    BY <2>1, NodeHas
  <2>3. QED
    BY <2>1, <2>2, EveryRow DEF Row
<1>2. Dumps(n) = FlattenSeq(ss)
  BY DEF Dumps
<1>3. \A x \in Names(k) : ToDraw(heap, Porting, n, D(x)) /\ Ends(D(x)) = ToSet(heap[n].m[x])
  BY ListDumped
<1>4. \A x, y \in Names(k) : x # y => ToSet(heap[n].m[x]) \intersect ToSet(heap[n].m[y]) = {}
  BY <1>1 DEF Simple
<1>5. Hold(heap[n]) = UNION {ToSet(heap[n].m[x]) : x \in Names(k)}
  BY <1>1 DEF Hold
<1> HIDE DEF D, l, k, L
<1>6. /\ DOMAIN l = 1..Len(l) /\ Len(l) \in Nat /\ \A i \in DOMAIN l : l[i] \in Names(k)
      /\ \A i, j \in DOMAIN l : i # j => l[i] # l[j]
      /\ \A x \in Names(k) : \E i \in DOMAIN l : l[i] = x
  BY <1>1, HeldBySeq DEF Lists, IsInjective, ToSet
<1>7. DOMAIN ss = DOMAIN l /\ \A i \in DOMAIN l : ss[i] = D(l[i])
  OBVIOUS
<1>8. ss \in Seq(Seq(L))
  <2>1. \A i \in 1..Len(l) : D(l[i]) \in Seq(L)
    BY <1>3, <1>6 DEF ToDraw, L
  <2>2. QED
    BY <2>1, <1>6
<1> HIDE DEF ss
<1>9. \A i \in DOMAIN ss : IsInjective(ss[i]) /\ ByNode(ss[i]) /\ Ends(ss[i]) = ToSet(heap[n].m[l[i]])
  BY <1>3, <1>6, <1>7 DEF ToDraw
<1>10. \A i, j \in DOMAIN ss : i # j => Ends(ss[i]) \intersect Ends(ss[j]) = {}
  <2>1. SUFFICES ASSUME NEW i \in DOMAIN ss, NEW j \in DOMAIN ss, i # j
                 PROVE  Ends(ss[i]) \intersect Ends(ss[j]) = {}
    OBVIOUS
  <2>2. l[i] \in Names(k) /\ l[j] \in Names(k) /\ l[i] # l[j]
    BY <2>1, <1>6, <1>7
  <2>3. QED
    BY <2>2, <1>4, <1>9
<1>11. \A i, j \in DOMAIN ss : i # j => ToSet(ss[i]) \intersect ToSet(ss[j]) = {}
  BY <1>10 DEF Ends
<1>12. /\ FlattenSeq(ss) \in Seq(L) /\ IsInjective(FlattenSeq(ss))
       /\ ToSet(FlattenSeq(ss)) = UNION {ToSet(ss[i]) : i \in DOMAIN ss}
  BY <1>8, <1>9, <1>11, FlattenHolds
<1> DEFINE fl == FlattenSeq(ss)
<1> HIDE DEF fl
<1>13. ByNode(fl)
  <2>1. SUFFICES ASSUME NEW d \in ToSet(fl), NEW e \in ToSet(fl), d.node = e.node PROVE d = e
    BY DEF ByNode
  <2>2. PICK i \in DOMAIN ss : d \in ToSet(ss[i])
    BY <1>12 DEF fl
  <2>3. PICK j \in DOMAIN ss : e \in ToSet(ss[j])
    BY <1>12 DEF fl
  <2>4. d.node \in Ends(ss[i]) /\ e.node \in Ends(ss[j])
    BY <2>2, <2>3 DEF Ends
  <2>5. i = j
    BY <2>1, <2>4, <1>10
  <2>6. QED
    BY <2>1, <2>2, <2>3, <2>5, <1>9 DEF ByNode
<1>14. Ends(fl) = Hold(heap[n])
  <2>1. Ends(fl) = UNION {Ends(ss[i]) : i \in DOMAIN ss}
    BY <1>12 DEF Ends, fl
  <2>2. UNION {Ends(ss[i]) : i \in DOMAIN ss} = UNION {ToSet(heap[n].m[l[i]]) : i \in DOMAIN l}
    BY <1>7, <1>9
  <2>3. UNION {ToSet(heap[n].m[l[i]]) : i \in DOMAIN l} = UNION {ToSet(heap[n].m[x]) : x \in Names(k)}
    BY <1>6
  <2>4. QED
    BY <2>1, <2>2, <2>3, <1>5
<1>15. QED
  BY <1>2, <1>12, <1>13, <1>14 DEF ToDraw, fl, L

\* A visit under way, and one about to begin.
FieldsIn(Q) == {Null} \union UNION {Q[n] : n \in DOMAIN Q}
Sketch(h, Q) ==
  [node : DOMAIN h, dumps : Seq([field : FieldsIn(Q), node : Nat]),
   old_parent_id : Nat \union {Null}, old_parent_field : FieldsIn(Q)]
Asked(h) == [call : DOMAIN h]

\* The nodes printed, and those that a visit has yet to reach.
Pages(h, Q) == {<<n, Q[n]>> : n \in DOMAIN h}
Printed(ps) == {ps[i][1] : i \in DOMAIN ps}
Due(f) == IF "call" \in DOMAIN f THEN {f.call} ELSE Ends(f.dumps)
AllDue(st) == UNION {Due(st[j]) : j \in 1..Len(st)}

GoodSketch(h, Q, ps, f) ==
  f \in Sketch(h, Q) /\ f.node \in Printed(ps) /\ ToDraw(h, Q, f.node, f.dumps)

\* No node is due twice, nor after it was printed.
Sketched(h, Q, st, ps) ==
  /\ st \in Seq(Sketch(h, Q) \union Asked(h))
  /\ \A j \in 1..Len(st) : GoodSketch(h, Q, ps, st[j]) \/ (j = Len(st) /\ st[j] \in Asked(h))
  /\ \A j \in 1..Len(st) : Due(st[j]) \intersect Printed(ps) = {}
  /\ \A i, j \in 1..Len(st) : i # j => Due(st[i]) \intersect Due(st[j]) = {}

\* What a node printed holds is printed, or due; nothing else is, but the root.
Covered(h, Q, st, ps) ==
  /\ ps \in Seq(Pages(h, Q))
  /\ \A i, j \in DOMAIN ps : ps[i][1] = ps[j][1] => i = j
  /\ \A c \in Printed(ps) \union AllDue(st) : c = Root \/ \E n \in Printed(ps) : c \in Hold(h[n])
  /\ \A n \in Printed(ps) : Hold(h[n]) \subseteq Printed(ps) \union AllDue(st)
  /\ Root \in Printed(ps) \union AllDue(st)

\* The parent of a node about to be visited is the node under visit below it.
Parents(h, Q, st, id, field) ==
  /\ id \in Nat \union {Null} /\ field \in FieldsIn(Q)
  /\ \A j \in 1..Len(st) : j > 1 /\ st[j] \in Sketch(h, Q) => st[j].old_parent_id = st[j - 1].node
  /\ st # <<>> /\ st[Len(st)] \in Sketch(h, Q) => id = st[Len(st)].node
  /\ st # <<>> /\ st[Len(st)] \in Asked(h) /\ Len(st) = 1 => st[1].call = Root /\ field = Null
  /\ st # <<>> /\ st[Len(st)] \in Asked(h) /\ Len(st) > 1 =>
       /\ id = st[Len(st) - 1].node
       /\ [field |-> field, node |-> st[Len(st)].call] \in Link(h, Q, id)

\* The links go from a port of a node printed to what it holds, and to all.
Linked(h, Q, ps, ls) ==
  /\ \A l \in ls : \E n \in Printed(ps) : \E d \in Link(h, Q, n) : l = <<n, d.field, d.node>>
  /\ \A c \in Printed(ps) : c = Root \/ \E l \in ls : l[3] = c

Drawn(h, Q, st, ps, ls, id, field) ==
  Sketched(h, Q, st, ps) /\ Covered(h, Q, st, ps) /\ Parents(h, Q, st, id, field) /\ Linked(h, Q, ps, ls)

LEMMA SketchHas ==
  ASSUME NEW h, NEW Q, NEW f \in Sketch(h, Q)
  PROVE  /\ f.node \in DOMAIN h /\ f.old_parent_id \in Nat \union {Null}
         /\ f.old_parent_field \in FieldsIn(Q)
         /\ DOMAIN f = {"node", "dumps", "old_parent_id", "old_parent_field"}
         /\ Due(f) = Ends(f.dumps) /\ f \notin Asked(h)
<1>1. /\ f.node \in DOMAIN h /\ f.old_parent_id \in Nat \union {Null}
      /\ f.old_parent_field \in FieldsIn(Q)
      /\ DOMAIN f = {"node", "dumps", "old_parent_id", "old_parent_field"}
  BY DEF Sketch
<1>2. Due(f) = Ends(f.dumps)
  BY <1>1 DEF Due
<1>3. f \notin Asked(h)
  <2>1. SUFFICES ASSUME f \in Asked(h) PROVE FALSE
    OBVIOUS
  <2>2. DOMAIN f = {"call"}
    BY <2>1 DEF Asked
  <2>3. QED
    BY <2>2, <1>1
<1>4. QED
  BY <1>1, <1>2, <1>3

LEMMA AskedHas ==
  ASSUME NEW h, NEW f \in Asked(h)
  PROVE  /\ f.call \in DOMAIN h /\ DOMAIN f = {"call"} /\ Due(f) = {f.call}
         /\ \A Q : f \notin Sketch(h, Q)
<1>1. f.call \in DOMAIN h /\ DOMAIN f = {"call"}
  BY DEF Asked
<1>2. Due(f) = {f.call}
  BY <1>1 DEF Due
<1>3. QED
  BY <1>1, <1>2, SketchHas

\* The next link, and the others.
LEMMA NextLink ==
  ASSUME NEW h, NEW Q, NEW n, NEW s, ToDraw(h, Q, n, s), s # <<>>
  PROVE  /\ Head(s) \in Link(h, Q, n) /\ ToDraw(h, Q, n, Tail(s))
         /\ Ends(s) = {Head(s).node} \union Ends(Tail(s))
         /\ Head(s).node \notin Ends(Tail(s))
<1>1. /\ Head(s) \in Link(h, Q, n) /\ Tail(s) \in Seq(Link(h, Q, n))
      /\ ToSet(s) = {Head(s)} \union ToSet(Tail(s))
      /\ IsInjective(Tail(s)) /\ Head(s) \notin ToSet(Tail(s))
  BY HeadAndTail DEF ToDraw
<1>2. \A d, e \in ToSet(s) : d.node = e.node => d = e
  BY DEF ToDraw, ByNode
<1>3. ToDraw(h, Q, n, Tail(s))
  BY <1>1, <1>2 DEF ToDraw, ByNode
<1>4. QED
  BY <1>1, <1>2, <1>3 DEF Ends

LEMMA OnePage ==
  ASSUME NEW h, NEW Q, NEW ps \in Seq(Pages(h, Q)), NEW c \in DOMAIN h, c \notin Printed(ps),
         \A i, j \in DOMAIN ps : ps[i][1] = ps[j][1] => i = j
  PROVE  LET qs == Append(ps, <<c, Q[c]>>) IN
         /\ qs \in Seq(Pages(h, Q)) /\ Printed(qs) = Printed(ps) \union {c}
         /\ \A i, j \in DOMAIN qs : qs[i][1] = qs[j][1] => i = j
<1> DEFINE p == <<c, Q[c]>>
           qs == Append(ps, p)
           L == Len(ps)
<1>1. p \in Pages(h, Q) /\ p[1] = c
  BY DEF Pages
<1> HIDE DEF p
<1>2. /\ qs \in Seq(Pages(h, Q)) /\ Len(qs) = L + 1 /\ qs[L + 1] = p
      /\ \A i \in 1..L : qs[i] = ps[i]
  BY <1>1, AppendProperties
<1>3. L \in Nat /\ DOMAIN ps = 1..L /\ \A i \in 1..L + 1 : i \in 1..L \/ i = L + 1
  OBVIOUS
<1>4. DOMAIN qs = 1..L + 1
  BY <1>2
<1> HIDE DEF qs, L
<1>5. \A i \in 1..L : qs[i][1] = ps[i][1] /\ ps[i][1] # c
  BY <1>2, <1>3 DEF Printed
<1>6. qs[L + 1][1] = c
  BY <1>1, <1>2
<1>7. L + 1 \in 1..L + 1 /\ 1..L \subseteq 1..L + 1
  BY <1>3
<1>8. Printed(qs) = Printed(ps) \union {c}
  BY <1>3, <1>4, <1>5, <1>6, <1>7 DEF Printed
<1>9. \A i, j \in 1..L + 1 : qs[i][1] = qs[j][1] => i = j
  BY <1>3, <1>5, <1>6
<1>10. QED
  BY <1>2, <1>4, <1>8, <1>9 DEF qs, p

LEMMA TopOfDump ==
  ASSUME NEW h, NEW Q, NEW st, NEW ps, Sketched(h, Q, st, ps), st # <<>>
  PROVE  LET L == Len(st)  S == Sketch(h, Q) \union Asked(h) IN
         /\ st \in Seq(S) /\ L \in Nat \ {0} /\ L \in 1..L
         /\ \A j \in 1..L : j < L \/ j = L
         /\ \A j \in 1..L : j < L => GoodSketch(h, Q, ps, st[j])
         /\ GoodSketch(h, Q, ps, st[L]) \/ st[L] \in Asked(h)
         /\ L > 1 => L - 1 \in 1..L /\ L - 1 < L
         /\ L = 1 \/ L > 1
<1>1. /\ st \in Seq(Sketch(h, Q) \union Asked(h)) /\ Len(st) \in Nat \ {0} /\ Len(st) \in 1..Len(st)
      /\ \A j \in 1..Len(st) : j < Len(st) \/ j = Len(st)
  BY TopIs DEF Sketched
<1>2. \A j \in 1..Len(st) : j < Len(st) => j # Len(st)
  BY <1>1
<1>3. \A j \in 1..Len(st) : j < Len(st) => GoodSketch(h, Q, ps, st[j])
  BY <1>2 DEF Sketched
<1>4. GoodSketch(h, Q, ps, st[Len(st)]) \/ st[Len(st)] \in Asked(h)
  BY <1>1 DEF Sketched
<1>5. /\ Len(st) > 1 => Len(st) - 1 \in 1..Len(st) /\ Len(st) - 1 < Len(st)
      /\ Len(st) = 1 \/ Len(st) > 1
  <2> DEFINE L == Len(st)
  <2>1. L \in Nat \ {0}
    BY <1>1
  <2> HIDE DEF L
  <2>2. (L > 1 => L - 1 \in 1..L /\ L - 1 < L) /\ (L = 1 \/ L > 1)
    BY ONLY <2>1
  <2>3. QED
    BY <2>2 DEF L
<1>6. QED
  BY <1>1, <1>3, <1>4, <1>5

\* What is due, the top apart.
DueBelow(st) == UNION {Due(st[j]) : j \in {i \in 1..Len(st) : i < Len(st)}}

LEMMA DueAtTop ==
  ASSUME NEW S, NEW st \in Seq(S), st # <<>>
  PROVE  AllDue(st) = DueBelow(st) \union Due(st[Len(st)])
<1>1. Len(st) \in 1..Len(st) /\ \A j \in 1..Len(st) : j < Len(st) \/ j = Len(st)
  BY TopIs
<1>2. QED
  BY <1>1 DEF AllDue, DueBelow

\* A node held by what is not printed is neither printed nor due.
LEMMA NotYet ==
  ASSUME NEW h, Owned(h), NEW Q, NEW st, NEW ps, Covered(h, Q, st, ps), NEW c \in DOMAIN h, c \notin Printed(ps)
  PROVE  Hold(h[c]) \intersect (Printed(ps) \union AllDue(st)) = {}
<1>1. SUFFICES ASSUME NEW e \in Hold(h[c]), e \in Printed(ps) \union AllDue(st) PROVE FALSE
  OBVIOUS
<1>2. e # Root
  BY <1>1 DEF Owned
<1>3. PICK n \in Printed(ps) : e \in Hold(h[n])
  BY <1>1, <1>2 DEF Covered
<1>4. n \in DOMAIN h
  BY DEF Covered, Printed, Pages
<1>5. QED
  BY <1>1, <1>3, <1>4, TheOwner

LEMMA DueAreNodes ==
  ASSUME NEW h, Owned(h), NEW Q, NEW st, NEW ps, Sketched(h, Q, st, ps), Covered(h, Q, st, ps)
  PROVE  Printed(ps) \subseteq DOMAIN h /\ AllDue(st) \subseteq DOMAIN h
<1>1. Printed(ps) \subseteq DOMAIN h
  BY DEF Covered, Printed, Pages
<1>2. Root \in DOMAIN h /\ \A n \in DOMAIN h : Hold(h[n]) \subseteq DOMAIN h
  BY DEF Owned, Root
<1>3. QED
  BY <1>1, <1>2 DEF Covered

-----------------------------------------------------------------------------
(* A node is printed. *)

Page(c, s, id, field) ==
  [node |-> c, dumps |-> s, old_parent_id |-> id, old_parent_field |-> field]

LEMMA PageIsSketch ==
  ASSUME NEW h, Owned(h), NEW Q, DOMAIN Q = DOMAIN h, NEW c \in DOMAIN h, NEW s, ToDraw(h, Q, c, s),
         NEW id \in Nat \union {Null}, NEW field \in FieldsIn(Q)
  PROVE  Page(c, s, id, field) \in Sketch(h, Q) /\ Due(Page(c, s, id, field)) = Ends(s)
<1>1. Hold(h[c]) \subseteq Nat
  BY NodeHas DEF Owned
<1>2. Link(h, Q, c) \subseteq [field : FieldsIn(Q), node : Nat]
  BY <1>1 DEF Link, FieldsIn
<1>3. s \in Seq([field : FieldsIn(Q), node : Nat])
  BY <1>2, SeqMonotonic DEF ToDraw
<1>4. Page(c, s, id, field) \in Sketch(h, Q)
  BY <1>3 DEF Page, Sketch
<1>5. Page(c, s, id, field).dumps = s
  BY DEF Page
<1>6. QED
  BY <1>4, <1>5, SketchHas

LEMMA DrawnCall ==
  ASSUME NEW h, Owned(h), NEW Q, DOMAIN Q = DOMAIN h, NEW st, NEW ps, NEW ls, NEW id, NEW field,
         Drawn(h, Q, st, ps, ls, id, field), st # <<>>,
         NEW c \in DOMAIN h, st[Len(st)] \in Asked(h), st[Len(st)].call = c,
         NEW s, ToDraw(h, Q, c, s), Ends(s) = Hold(h[c])
  PROVE  Drawn(h, Q, Append(Front(st), Page(c, s, id, field)), Append(ps, <<c, Q[c]>>),
               IF field = Null THEN ls ELSE ls \union {<<id, field, c>>}, c, field)
<1> DEFINE S == Sketch(h, Q) \union Asked(h)
           L == Len(st)
           g == Page(c, s, id, field)
           st1 == Append(Front(st), g)
           ps1 == Append(ps, <<c, Q[c]>>)
           ls1 == IF field = Null THEN ls ELSE ls \union {<<id, field, c>>}
<1>1. Sketched(h, Q, st, ps) /\ Covered(h, Q, st, ps) /\ Parents(h, Q, st, id, field) /\ Linked(h, Q, ps, ls)
  BY DEF Drawn
<1>2. /\ st \in Seq(S) /\ L \in Nat \ {0} /\ L \in 1..L
      /\ \A j \in 1..L : j < L \/ j = L
      /\ \A j \in 1..L : j < L => GoodSketch(h, Q, ps, st[j])
      /\ L > 1 => L - 1 \in 1..L /\ L - 1 < L
      /\ L = 1 \/ L > 1
  BY <1>1, TopOfDump
<1>3. g \in Sketch(h, Q) /\ Due(g) = Hold(h[c]) /\ g.node = c /\ g.dumps = s /\ g.old_parent_id = id
  <2>1. id \in Nat \union {Null} /\ field \in FieldsIn(Q)
    BY <1>1 DEF Parents
  <2>2. QED
    BY <2>1, PageIsSketch DEF Page
<1> HIDE DEF g
<1>4. /\ st1 \in Seq(S) /\ Len(st1) = L /\ st1[L] = g
      /\ \A j \in 1..L : j < L => st1[j] = st[j]
  BY <1>2, <1>3, TopReplaced
<1> HIDE DEF st1
<1>5. Due(st[L]) = {c} /\ st[L] \notin Sketch(h, Q)
  BY AskedHas
<1>6. c \notin Printed(ps)
  BY <1>1, <1>2, <1>5 DEF Sketched
<1>7. /\ ps1 \in Seq(Pages(h, Q)) /\ Printed(ps1) = Printed(ps) \union {c}
      /\ \A i, j \in DOMAIN ps1 : ps1[i][1] = ps1[j][1] => i = j
  BY <1>1, <1>6, OnePage DEF Covered
<1> HIDE DEF ps1
<1>8. Hold(h[c]) \intersect (Printed(ps) \union AllDue(st)) = {}
  BY <1>1, <1>6, NotYet
<1>9. c \notin Hold(h[c]) /\ \A j \in 1..L : Due(st[j]) \subseteq AllDue(st)
  BY <1>2, <1>5, <1>8 DEF AllDue
<1>10. /\ \A j \in 1..L : Due(st[j]) \intersect Printed(ps) = {}
       /\ \A i, j \in 1..L : i # j => Due(st[i]) \intersect Due(st[j]) = {}
  BY <1>1 DEF Sketched
<1>11. \A j \in 1..L : j < L => Due(st1[j]) = Due(st[j]) /\ c \notin Due(st[j])
  <2>1. SUFFICES ASSUME NEW j \in 1..L, j < L
                 PROVE  Due(st1[j]) = Due(st[j]) /\ c \notin Due(st[j])
    OBVIOUS
  <2>2. j # L
    BY <2>1, <1>2
  <2>3. Due(st[j]) \intersect Due(st[L]) = {}
    BY <2>1, <2>2, <1>2, <1>10
  <2>4. QED
    BY <2>1, <2>3, <1>4, <1>5
<1>12. Due(st1[L]) = Hold(h[c])
  BY <1>3, <1>4
<1>13. Sketched(h, Q, st1, ps1)
  <2>1. \A j \in 1..L : GoodSketch(h, Q, ps1, st1[j])
    <3>1. GoodSketch(h, Q, ps1, g)
      BY <1>3, <1>7 DEF GoodSketch
    <3>2. \A j \in 1..L : j < L => GoodSketch(h, Q, ps1, st1[j])
      BY <1>2, <1>4, <1>7 DEF GoodSketch
    <3>3. QED
      BY <3>1, <3>2, <1>2, <1>4
  <2>2. \A j \in 1..L : Due(st1[j]) \intersect Printed(ps1) = {}
    <3>1. Hold(h[c]) \intersect Printed(ps1) = {}
      BY <1>7, <1>8, <1>9
    <3>2. \A j \in 1..L : j < L => Due(st1[j]) \intersect Printed(ps1) = {}
      BY <1>7, <1>10, <1>11
    <3>3. QED
      BY <3>1, <3>2, <1>2, <1>12
  <2>3. ASSUME NEW i \in 1..L, NEW j \in 1..L, i # j
        PROVE  Due(st1[i]) \intersect Due(st1[j]) = {}
    <3>1. CASE i < L /\ j < L
      BY <3>1, <2>3, <1>10, <1>11
    <3>2. CASE i = L /\ j < L
      BY <3>2, <1>8, <1>9, <1>11, <1>12
    <3>3. CASE j = L /\ i < L
      BY <3>3, <1>8, <1>9, <1>11, <1>12
    <3>4. QED
      BY <3>1, <3>2, <3>3, <2>3, <1>2
  <2>4. QED
    BY <2>1, <2>2, <2>3, <1>4 DEF Sketched
<1>14. AllDue(st1) \union {c} = AllDue(st) \union Hold(h[c])
  <2>1. AllDue(st) = DueBelow(st) \union {c}
    BY <1>2, <1>5, DueAtTop
  <2>2. AllDue(st1) = DueBelow(st1) \union Hold(h[c])
    <3>1. st1 # <<>>
      BY <1>2, <1>4
    <3>2. QED
      BY <3>1, <1>4, <1>12, DueAtTop
  <2>3. DueBelow(st1) = DueBelow(st)
    BY <1>4, <1>11 DEF DueBelow
  <2>4. QED
    BY <2>1, <2>2, <2>3
<1>15. Covered(h, Q, st1, ps1)
  <2>1. Printed(ps1) \union AllDue(st1) = Printed(ps) \union AllDue(st) \union Hold(h[c])
    <3>1. c \in AllDue(st)
      BY <1>2, <1>5, <1>9
    <3>2. QED
      BY <3>1, <1>7, <1>14
  <2>2. /\ \A e \in Printed(ps) \union AllDue(st) : e = Root \/ \E n \in Printed(ps) : e \in Hold(h[n])
        /\ \A n \in Printed(ps) : Hold(h[n]) \subseteq Printed(ps) \union AllDue(st)
        /\ Root \in Printed(ps) \union AllDue(st)
    BY <1>1 DEF Covered
  <2>3. \A e \in Printed(ps1) \union AllDue(st1) : e = Root \/ \E n \in Printed(ps1) : e \in Hold(h[n])
    BY <2>1, <2>2, <1>7
  <2>4. \A n \in Printed(ps1) : Hold(h[n]) \subseteq Printed(ps1) \union AllDue(st1)
    BY <2>1, <2>2, <1>7
  <2>5. QED
    BY <2>1, <2>2, <2>3, <2>4, <1>7 DEF Covered
<1>16. Parents(h, Q, st1, c, field)
  <2>1. c \in Nat \union {Null} /\ field \in FieldsIn(Q)
    BY <1>1 DEF Parents, Owned
  <2>2. L > 1 => id = st[L - 1].node
    BY <1>1, <1>2 DEF Parents
  <2>3. ASSUME NEW j \in 1..L, j > 1 PROVE st1[j].old_parent_id = st1[j - 1].node
    <3>1. j - 1 \in 1..L /\ j - 1 < L
      BY <2>3, <1>2
    <3>2. CASE j < L
      <4>1. st[j] \in Sketch(h, Q)
        BY <3>2, <1>2 DEF GoodSketch
      <4>2. st[j].old_parent_id = st[j - 1].node
        BY <4>1, <2>3, <1>1 DEF Parents
      <4>3. QED
        BY <4>2, <3>1, <3>2, <1>4
    <3>3. CASE j = L
      BY <3>1, <3>3, <2>2, <2>3, <1>3, <1>4
    <3>4. QED
      BY <3>2, <3>3, <1>2
  <2>4. st1[L] \notin Asked(h) /\ st1[L].node = c
    BY <1>3, <1>4, SketchHas
  <2>5. QED
    BY <2>1, <2>3, <2>4, <1>4 DEF Parents
<1>17. Linked(h, Q, ps1, ls1)
  <2>1. /\ \A l \in ls : \E n \in Printed(ps) : \E d \in Link(h, Q, n) : l = <<n, d.field, d.node>>
        /\ \A e \in Printed(ps) : e = Root \/ \E l \in ls : l[3] = e
    BY <1>1 DEF Linked
  <2>2. CASE L = 1
    <3>1. c = Root /\ ls1 = ls
      BY <2>2, <1>1, <1>2 DEF Parents
    <3>2. QED
      BY <3>1, <2>1, <1>7 DEF Linked
  <2>3. CASE L > 1
    <3> DEFINE d == [field |-> field, node |-> c]
    <3>1. id = st[L - 1].node /\ d \in Link(h, Q, id)
      <4>1. id = st[L - 1].node /\ [field |-> field, node |-> st[L].call] \in Link(h, Q, id)
        BY <2>3, <1>1 DEF Parents
      <4>2. QED
        BY <4>1
    <3>2. id \in Printed(ps)
      <4>1. GoodSketch(h, Q, ps, st[L - 1])
        BY <2>3, <1>2
      <4>2. QED
        BY <4>1, <3>1 DEF GoodSketch
    <3>3. d.field = field /\ d.node = c /\ field # Null
      BY <3>1 DEF Link
    <3>4. ls1 = ls \union {<<id, field, c>>}
      BY <3>3
    <3> HIDE DEF d, ls1
    <3>5. \A l \in ls1 : \E n \in Printed(ps1) : \E dd \in Link(h, Q, n) : l = <<n, dd.field, dd.node>>
      <4>1. SUFFICES ASSUME NEW l \in ls1
                     PROVE  \E n \in Printed(ps1) : \E dd \in Link(h, Q, n) : l = <<n, dd.field, dd.node>>
        OBVIOUS
      <4>2. CASE l \in ls
        <5>1. PICK n \in Printed(ps) : \E dd \in Link(h, Q, n) : l = <<n, dd.field, dd.node>>
          BY <4>2, <2>1
        <5>2. QED
          BY <5>1, <1>7
      <4>3. CASE l = <<id, field, c>>
        <5>1. l = <<id, d.field, d.node>> /\ id \in Printed(ps1)
          BY <4>3, <3>2, <3>3, <1>7
        <5>2. QED
          BY <5>1, <3>1
      <4>4. QED
        BY <4>1, <4>2, <4>3, <3>4
    <3>6. \A e \in Printed(ps1) : e = Root \/ \E l \in ls1 : l[3] = e
      <4>1. <<id, field, c>>[3] = c /\ <<id, field, c>> \in ls1
        BY <3>4
      <4>2. QED
        BY <4>1, <2>1, <3>4, <1>7
    <3>7. QED
      BY <3>5, <3>6 DEF Linked
  <2>4. QED
    BY <2>2, <2>3, <1>2
<1>18. Drawn(h, Q, st1, ps1, ls1, c, field)
  BY <1>13, <1>15, <1>16, <1>17 DEF Drawn
<1>19. QED
  BY <1>18 DEF st1, ps1, g

-----------------------------------------------------------------------------
(* The visit goes on to a member. *)

Fewer(f) == [f EXCEPT !.dumps = Tail(@)]

LEMMA FewerLinks ==
  ASSUME NEW h, NEW Q, NEW ps, NEW f, GoodSketch(h, Q, ps, f), f.dumps # <<>>
  PROVE  /\ GoodSketch(h, Q, ps, Fewer(f)) /\ Fewer(f).node = f.node
         /\ Fewer(f).old_parent_id = f.old_parent_id
         /\ Head(f.dumps) \in Link(h, Q, f.node)
         /\ \A e : e \in Due(f) <=> (e = Head(f.dumps).node \/ e \in Due(Fewer(f)))
         /\ Head(f.dumps).node \notin Due(Fewer(f))
<1>1. f \in Sketch(h, Q) /\ f.node \in Printed(ps) /\ ToDraw(h, Q, f.node, f.dumps)
  BY DEF GoodSketch
<1>2. /\ Head(f.dumps) \in Link(h, Q, f.node) /\ ToDraw(h, Q, f.node, Tail(f.dumps))
      /\ Ends(f.dumps) = {Head(f.dumps).node} \union Ends(Tail(f.dumps))
      /\ Head(f.dumps).node \notin Ends(Tail(f.dumps))
  BY <1>1, NextLink
<1>3. Tail(f.dumps) \in Seq([field : FieldsIn(Q), node : Nat])
  BY <1>1 DEF Sketch
<1> DEFINE t == Tail(f.dumps)
           A == DOMAIN h
           D == Seq([field : FieldsIn(Q), node : Nat])
           B == Nat \union {Null}
           C == FieldsIn(Q)
<1>5. /\ Fewer(f) \in Sketch(h, Q) /\ Fewer(f).node = f.node /\ Fewer(f).dumps = t
      /\ Fewer(f).old_parent_id = f.old_parent_id
  <2>1. f \in [node : A, dumps : D, old_parent_id : B, old_parent_field : C]
    BY <1>1 DEF Sketch
  <2>2. t \in D
    BY <1>3
  <2>3. Fewer(f) = [f EXCEPT !.dumps = t]
    BY DEF Fewer
  <2> HIDE DEF t, A, B, C, D
  <2>4. /\ Fewer(f) \in [node : A, dumps : D, old_parent_id : B, old_parent_field : C]
        /\ Fewer(f).node = f.node /\ Fewer(f).dumps = t /\ Fewer(f).old_parent_id = f.old_parent_id
    BY <2>1, <2>2, <2>3
  <2>5. QED
    BY <2>4 DEF Sketch, A, B, C, D
<1>6. Due(f) = Ends(f.dumps) /\ Due(Fewer(f)) = Ends(Tail(f.dumps))
  BY <1>1, <1>5, SketchHas
<1>7. QED
  BY <1>1, <1>2, <1>5, <1>6 DEF GoodSketch

LEMMA DrawnMember ==
  ASSUME NEW h, Owned(h), NEW Q, DOMAIN Q = DOMAIN h, NEW st, NEW ps, NEW ls, NEW id, NEW field,
         Drawn(h, Q, st, ps, ls, id, field), st # <<>>,
         st[Len(st)] \in Sketch(h, Q), st[Len(st)].dumps # <<>>
  PROVE  LET f == st[Len(st)] IN
         Drawn(h, Q, Append(Append(Front(st), Fewer(f)), [call |-> Head(f.dumps).node]), ps, ls,
               id, Head(f.dumps).field)
<1> DEFINE S == Sketch(h, Q) \union Asked(h)
           L == Len(st)
           f == st[L]
           d == Head(f.dumps)
           c == [call |-> d.node]
           st1 == Append(Front(st), Fewer(f))
           st2 == Append(st1, c)
<1>1. Sketched(h, Q, st, ps) /\ Covered(h, Q, st, ps) /\ Parents(h, Q, st, id, field) /\ Linked(h, Q, ps, ls)
  BY DEF Drawn
<1>2. /\ st \in Seq(S) /\ L \in Nat \ {0} /\ L \in 1..L
      /\ \A j \in 1..L : j < L \/ j = L
      /\ \A j \in 1..L : j < L => GoodSketch(h, Q, ps, st[j])
      /\ GoodSketch(h, Q, ps, st[L]) \/ st[L] \in Asked(h)
  BY <1>1, TopOfDump
<1>3. GoodSketch(h, Q, ps, f) /\ f.dumps # <<>>
  BY <1>2, SketchHas
<1>4. /\ GoodSketch(h, Q, ps, Fewer(f)) /\ Fewer(f).node = f.node
      /\ Fewer(f).old_parent_id = f.old_parent_id
      /\ d \in Link(h, Q, f.node) /\ d.node \notin Due(Fewer(f))
      /\ Due(f) = {d.node} \union Due(Fewer(f))
  <2>1. /\ GoodSketch(h, Q, ps, Fewer(f)) /\ Fewer(f).node = f.node
        /\ Fewer(f).old_parent_id = f.old_parent_id
        /\ d \in Link(h, Q, f.node) /\ d.node \notin Due(Fewer(f))
        /\ \A e : e \in Due(f) <=> (e = d.node \/ e \in Due(Fewer(f)))
    BY <1>3, FewerLinks
  <2> HIDE DEF d
  <2>2. Due(f) = {d.node} \union Due(Fewer(f))
    BY <2>1
  <2>3. QED
    BY <2>1, <2>2
<1>5. Fewer(f) \in Sketch(h, Q)
  BY <1>4 DEF GoodSketch
<1>6. /\ st1 \in Seq(S) /\ Len(st1) = L /\ st1[L] = Fewer(f)
      /\ \A j \in 1..L : j < L => st1[j] = st[j]
  BY <1>2, <1>5, TopReplaced
<1> HIDE DEF st1
<1>7. d.node \in DOMAIN h /\ f.node \in DOMAIN h /\ d = [field |-> d.field, node |-> d.node]
  <2>1. f.node \in DOMAIN h
    BY SketchHas
  <2>2. Hold(h[f.node]) \subseteq DOMAIN h
    BY <2>1 DEF Owned
  <2>3. QED
    BY <1>4, <2>1, <2>2 DEF Link
<1> HIDE DEF d
<1>8. c \in Asked(h) /\ c.call = d.node
  BY <1>7 DEF Asked
<1> HIDE DEF c
<1>9. Due(c) = {d.node} /\ c \notin Sketch(h, Q)
  BY <1>8, AskedHas
<1>10. /\ st2 \in Seq(S) /\ Len(st2) = L + 1 /\ st2[L + 1] = c
       /\ \A j \in 1..L : st2[j] = st1[j]
  BY <1>6, <1>8, AppendProperties
<1> HIDE DEF st2
<1>11. /\ \A j \in 1..L : j < L => st2[j] = st[j]
       /\ st2[L] = Fewer(f) /\ st2[L + 1] = c
       /\ \A j \in 1..L + 1 : (j \in 1..L /\ j < L) \/ j = L \/ j = L + 1
       /\ L + 1 \in 1..L + 1 /\ L \in 1..L + 1 /\ L + 1 > 1 /\ L + 1 - 1 = L
       /\ 1..L \subseteq 1..L + 1
       /\ \A j \in 1..L + 1 : j = L + 1 \/ j \in 1..L
  BY <1>2, <1>6, <1>10
<1>12. /\ \A j \in 1..L : Due(st[j]) \intersect Printed(ps) = {}
       /\ \A i, j \in 1..L : i # j => Due(st[i]) \intersect Due(st[j]) = {}
  BY <1>1 DEF Sketched
<1>13. \A j \in 1..L : Due(st2[j]) \subseteq Due(st[j]) /\ d.node \notin Due(st2[j])
  <2>1. SUFFICES ASSUME NEW j \in 1..L
                 PROVE  Due(st2[j]) \subseteq Due(st[j]) /\ d.node \notin Due(st2[j])
    OBVIOUS
  <2>2. CASE j = L
    BY <2>2, <1>4, <1>11
  <2>3. CASE j < L
    <3>1. j # L
      BY <2>3, <1>2
    <3>2. Due(st[j]) \intersect Due(st[L]) = {}
      BY <3>1, <1>2, <1>12
    <3>3. QED
      BY <3>2, <2>3, <1>4, <1>11
  <2>4. QED
    BY <2>2, <2>3, <1>2
<1>14. Sketched(h, Q, st2, ps)
  <2>1. \A j \in 1..L + 1 : GoodSketch(h, Q, ps, st2[j]) \/ (j = L + 1 /\ st2[j] \in Asked(h))
    BY <1>2, <1>4, <1>8, <1>11
  <2>2. \A j \in 1..L + 1 : Due(st2[j]) \intersect Printed(ps) = {}
    <3>1. d.node \notin Printed(ps)
      BY <1>2, <1>4, <1>12
    <3>2. QED
      BY <3>1, <1>9, <1>11, <1>12, <1>13
  <2>3. ASSUME NEW i \in 1..L + 1, NEW j \in 1..L + 1, i # j
        PROVE  Due(st2[i]) \intersect Due(st2[j]) = {}
    <3>1. CASE i \in 1..L /\ j \in 1..L
      BY <3>1, <2>3, <1>12, <1>13
    <3>2. CASE i = L + 1 /\ j \in 1..L
      BY <3>2, <1>9, <1>11, <1>13
    <3>3. CASE j = L + 1 /\ i \in 1..L
      BY <3>3, <1>9, <1>11, <1>13
    <3>4. QED
      BY <3>1, <3>2, <3>3, <2>3, <1>11
  <2>4. QED
    BY <2>1, <2>2, <2>3, <1>10 DEF Sketched
<1>15. AllDue(st2) = AllDue(st)
  <2>1. AllDue(st) = DueBelow(st) \union Due(f)
    BY <1>2, DueAtTop
  <2>2. AllDue(st1) = DueBelow(st1) \union Due(Fewer(f))
    <3>1. st1 # <<>>
      BY <1>2, <1>6
    <3>2. QED
      BY <3>1, <1>6, DueAtTop
  <2>3. DueBelow(st1) = DueBelow(st)
    BY <1>6 DEF DueBelow
  <2>4. AllDue(st2) = AllDue(st1) \union {d.node}
    BY <1>6, <1>9, <1>10, <1>11 DEF AllDue
  <2>5. QED
    BY <2>1, <2>2, <2>3, <2>4, <1>4
<1>16. Covered(h, Q, st2, ps)
  BY <1>1, <1>15 DEF Covered
<1>17. Parents(h, Q, st2, id, d.field)
  <2>1. id = f.node /\ id \in Nat \union {Null}
    BY <1>1 DEF Parents
  <2>2. d.field \in FieldsIn(Q)
    BY <1>4, <1>7 DEF Link, FieldsIn
  <2>3. ASSUME NEW j \in 1..L + 1, j > 1, st2[j] \in Sketch(h, Q)
        PROVE  st2[j].old_parent_id = st2[j - 1].node
    <3>1. j \in 1..L
      BY <2>3, <1>9, <1>11
    <3>2. j - 1 \in 1..L /\ j - 1 < L
      BY <2>3, <3>1, <1>2
    <3>3. st[j] \in Sketch(h, Q) /\ st[j].old_parent_id = st2[j].old_parent_id
      BY <2>3, <3>1, <1>2, <1>4, <1>11
    <3>4. st[j].old_parent_id = st[j - 1].node
      BY <2>3, <3>1, <3>3, <1>1 DEF Parents
    <3>5. QED
      BY <3>2, <3>3, <3>4, <1>11
  <2>4. L + 1 # 1
    BY <1>2
  <2>5. [field |-> d.field, node |-> st2[L + 1].call] \in Link(h, Q, id) /\ id = st2[L + 1 - 1].node
    BY <2>1, <1>4, <1>7, <1>8, <1>11
  <2>6. QED
    <3> DEFINE P == L + 1
    <3>1. /\ Len(st2) = P /\ st2[P] = c /\ c \notin Sketch(h, Q) /\ P # 1
          /\ \A j \in 1..P : j > 1 /\ st2[j] \in Sketch(h, Q) => st2[j].old_parent_id = st2[j - 1].node
          /\ [field |-> d.field, node |-> st2[P].call] \in Link(h, Q, id) /\ id = st2[P - 1].node
      BY <2>3, <2>4, <2>5, <1>9, <1>10
    <3> HIDE DEF P
    <3>2. QED
      BY <3>1, <2>1, <2>2 DEF Parents
<1>18. Drawn(h, Q, st2, ps, ls, id, d.field)
  BY <1>1, <1>14, <1>16, <1>17 DEF Drawn
<1>19. QED
  BY <1>18 DEF st2, st1, c, d

-----------------------------------------------------------------------------
(* The end of a visit. *)

LEMMA DrawnEnd ==
  ASSUME NEW h, Owned(h), NEW Q, NEW st, NEW ps, NEW ls, NEW id, NEW field,
         Drawn(h, Q, st, ps, ls, id, field), st # <<>>,
         st[Len(st)] \in Sketch(h, Q), st[Len(st)].dumps = <<>>
  PROVE  LET f == st[Len(st)] IN
         Drawn(h, Q, Front(st), ps, ls, f.old_parent_id, f.old_parent_field)
<1> DEFINE S == Sketch(h, Q) \union Asked(h)
           L == Len(st)
           f == st[L]
           st1 == Front(st)
<1>1. Sketched(h, Q, st, ps) /\ Covered(h, Q, st, ps) /\ Parents(h, Q, st, id, field) /\ Linked(h, Q, ps, ls)
  BY DEF Drawn
<1>2. /\ st \in Seq(S) /\ L \in Nat \ {0} /\ L \in 1..L
      /\ \A j \in 1..L : j < L \/ j = L
      /\ \A j \in 1..L : j < L => GoodSketch(h, Q, ps, st[j])
  BY <1>1, TopOfDump
<1>3. st1 \in Seq(S) /\ Len(st1) = L - 1 /\ \A j \in 1..L - 1 : st1[j] = st[j]
  BY <1>2, TopIs
<1> HIDE DEF st1
<1>4. /\ \A j \in 1..L - 1 : j \in 1..L /\ j < L
      /\ \A j \in 1..L : j < L => j \in 1..L - 1
  BY <1>2
<1>5. \A j \in 1..L - 1 : GoodSketch(h, Q, ps, st1[j]) /\ st1[j] \in Sketch(h, Q) /\ st1[j] \notin Asked(h)
  BY <1>2, <1>3, <1>4, SketchHas DEF GoodSketch
<1>6. Due(f) = {}
  BY SketchHas DEF Ends, ToSet
<1>7. AllDue(st1) = AllDue(st)
  <2>1. AllDue(st) = DueBelow(st) \union Due(f)
    BY <1>2, DueAtTop
  <2>2. AllDue(st1) = DueBelow(st)
    BY <1>3, <1>4 DEF AllDue, DueBelow
  <2>3. QED
    BY <2>1, <2>2, <1>6
<1>8. Sketched(h, Q, st1, ps)
  <2>1. /\ \A j \in 1..L : Due(st[j]) \intersect Printed(ps) = {}
        /\ \A i, j \in 1..L : i # j => Due(st[i]) \intersect Due(st[j]) = {}
    BY <1>1 DEF Sketched
  <2>2. QED
    BY <2>1, <1>3, <1>4, <1>5 DEF Sketched
<1>9. Covered(h, Q, st1, ps)
  BY <1>1, <1>7 DEF Covered
<1>10. Parents(h, Q, st1, f.old_parent_id, f.old_parent_field)
  <2>1. f.old_parent_id \in Nat \union {Null} /\ f.old_parent_field \in FieldsIn(Q)
    BY SketchHas
  <2>2. ASSUME NEW j \in 1..L - 1, j > 1 PROVE st1[j].old_parent_id = st1[j - 1].node
    <3>1. j \in 1..L /\ j - 1 \in 1..L - 1 /\ st[j] \in Sketch(h, Q)
      <4>1. st[j] \in Sketch(h, Q) /\ j \in 1..L
        BY <1>3, <1>4, <1>5
      <4> HIDE DEF L
      <4>2. j - 1 \in 1..L - 1
        BY ONLY <2>2, <1>2
      <4>3. QED
        BY <4>1, <4>2
    <3>2. st[j].old_parent_id = st[j - 1].node
      BY <3>1, <2>2, <1>1 DEF Parents
    <3>3. QED
      BY <3>1, <3>2, <1>3
  <2>3. ASSUME st1 # <<>>
        PROVE  L - 1 \in 1..L - 1 /\ f.old_parent_id = st1[L - 1].node
    <3>1. L - 1 # 0
      BY <2>3, <1>3
    <3>2. L - 1 \in 1..L - 1 /\ L > 1
      <4> HIDE DEF L
      <4>1. QED
        BY <3>1, <1>2
    <3>3. f.old_parent_id = st[L - 1].node
      BY <3>2, <1>1, <1>2 DEF Parents
    <3>4. QED
      BY <3>2, <3>3, <1>3
  <2>4. QED
    BY <2>1, <2>2, <2>3, <1>3, <1>5 DEF Parents
<1>11. Drawn(h, Q, st1, ps, ls, f.old_parent_id, f.old_parent_field)
  BY <1>1, <1>8, <1>9, <1>10 DEF Drawn
<1>12. QED
  BY <1>11 DEF st1

-----------------------------------------------------------------------------
(* From the first node to the last. *)

LEMMA DrawnStart ==
  ASSUME NEW h, Owned(h), NEW Q
  PROVE  Drawn(h, Q, <<[call |-> Root]>>, <<>>, {}, Null, Null)
<1> DEFINE c == [call |-> Root]
           st == <<c>>
<1>1. Root \in DOMAIN h
  BY DEF Owned, Root
<1>2. c \in Asked(h) /\ c.call = Root
  BY <1>1 DEF Asked
<1> HIDE DEF c
<1>3. Due(c) = {Root} /\ c \notin Sketch(h, Q)
  BY <1>2, AskedHas
<1>4. Len(st) = 1 /\ st[1] = c /\ st \in Seq(Sketch(h, Q) \union Asked(h)) /\ \A j \in 1..1 : j = 1
  BY <1>2
<1> HIDE DEF st
<1>5. Printed(<<>>) = {}
  BY DEF Printed
<1>6. AllDue(st) = {Root}
  BY <1>3, <1>4 DEF AllDue
<1>7. Sketched(h, Q, st, <<>>)
  BY <1>2, <1>4, <1>5 DEF Sketched
<1>8. Covered(h, Q, st, <<>>)
  BY <1>5, <1>6 DEF Covered
<1>9. Parents(h, Q, st, Null, Null)
  BY <1>2, <1>3, <1>4 DEF Parents, FieldsIn
<1>10. Linked(h, Q, <<>>, {})
  BY <1>5 DEF Linked
<1>11. QED
  BY <1>7, <1>8, <1>9, <1>10 DEF Drawn, st, c

AllDrawn(h, ps, ls) ==
  /\ h \in Seq(Node)
  /\ IsInjective([i \in DOMAIN ps |-> ps[i][1]]) /\ Printed(ps) = DOMAIN h
  /\ {<<l[1], l[3]>> : l \in ls} = UNION {{<<n, c>> : c \in Hold(h[n])} : n \in DOMAIN h}

\* When no visit is under way, all is printed and linked.
LEMMA DrawnAll ==
  ASSUME NEW h, Owned(h), Tree(h, Len(h)), NEW Q, NEW ps, NEW ls, NEW id, NEW field,
         Drawn(h, Q, <<>>, ps, ls, id, field)
  PROVE  AllDrawn(h, ps, ls)
<1> DEFINE N == Len(h)
<1>1. Covered(h, Q, <<>>, ps) /\ Linked(h, Q, ps, ls)
  BY DEF Drawn
<1>2. AllDue(<<>>) = {}
  BY DEF AllDue
<1>3. /\ Root \in Printed(ps) /\ \A n \in Printed(ps) : Hold(h[n]) \subseteq Printed(ps)
      /\ Printed(ps) \subseteq DOMAIN h
      /\ \A i, j \in DOMAIN ps : ps[i][1] = ps[j][1] => i = j
  BY <1>1, <1>2 DEF Covered, Printed, Pages
<1>4. DOMAIN h = 1..N /\ N \in Nat /\ h \in Seq(Node)
  BY DEF Owned
<1>5. /\ \A n \in 1..N : Hold(h[n]) \subseteq n + 1..N
      /\ \A c \in 2..N : \E n \in 1..N : c \in Hold(h[n])
  BY DEF Tree
<1> HIDE DEF N
<1> DEFINE Bad == {n \in Nat : n \in 1..N /\ n \notin Printed(ps)}
<1>6. Bad = {}
  <2>1. SUFFICES ASSUME Bad # {} PROVE FALSE
    OBVIOUS
  <2>2. PICK c \in Bad : \A j \in Bad : c <= j
    <3>1. Bad \in SUBSET Nat
      OBVIOUS
    <3> HIDE DEF Bad
    <3>2. QED
      BY <2>1, <3>1, LeastElement
  <2>3. c \in 2..N
    BY <1>3, <1>4 DEF Root
  <2>4. PICK n \in 1..N : c \in Hold(h[n])
    BY <2>3, <1>5
  <2>5. n < c
    BY <2>3, <2>4, <1>5
  <2>6. n \in Printed(ps)
    BY <2>2, <2>4, <2>5
  <2>7. QED
    BY <2>4, <2>6, <1>3
<1>7. Printed(ps) = DOMAIN h
  <2>1. \A n \in 1..N : n \in Nat
    BY <1>4
  <2>2. \A n \in 1..N : n \in Printed(ps)
    BY <2>1, <1>6
  <2>3. QED
    BY <2>2, <1>3, <1>4
<1>8. IsInjective([i \in DOMAIN ps |-> ps[i][1]])
  BY <1>3 DEF IsInjective
<1>9. /\ \A l \in ls : \E n \in Printed(ps) : \E d \in Link(h, Q, n) : l = <<n, d.field, d.node>>
      /\ \A c \in Printed(ps) : c = Root \/ \E l \in ls : l[3] = c
  BY <1>1 DEF Linked
<1>10. \A l \in ls : l[1] \in DOMAIN h /\ l[3] \in Hold(h[l[1]])
  BY <1>7, <1>9 DEF Link
<1>11. ASSUME NEW n \in DOMAIN h, NEW c \in Hold(h[n])
       PROVE  \E l \in ls : <<n, c>> = <<l[1], l[3]>>
  <2>1. c \in Printed(ps) /\ c # Root
    BY <1>7 DEF Owned
  <2>2. PICK l \in ls : l[3] = c
    BY <2>1, <1>9
  <2>3. l[1] = n
    BY <2>2, <1>10, TheOwner
  <2>4. QED
    BY <2>2, <2>3
<1>12. {<<l[1], l[3]>> : l \in ls} = UNION {{<<n, c>> : c \in Hold(h[n])} : n \in DOMAIN h}
  BY <1>10, <1>11
<1>13. QED
  BY <1>4, <1>7, <1>8, <1>12 DEF AllDrawn

-----------------------------------------------------------------------------
(* The invariant of the dump. *)

DumpInv ==
  /\ phase = "build" => ports = <<>> /\ links = {} /\ parent_id = Null /\ parent_field = Null
  /\ phase = "dump" => Drawn(heap, Porting, stack, ports, links, parent_id, parent_field)
  /\ phase \in {"visit", "clone"} /\ result_ = Null => AllDrawn(heap, ports, links)

LEMMA DumpInit == ASSUME Init PROVE DumpInv
BY DEF Init, DumpInv

\* The ports of a node are those of its class and members.
LEMMA PortsUnchanged == ASSUME heap' = heap PROVE Porting' = Porting
BY DEF Porting, PortsOf, Ports

LEMMA DumpingHas ==
  ASSUME WalksInv, DumpInv, phase = "dump"
  PROVE  /\ TheTree /\ Owned(heap) /\ Tree(heap, Len(heap)) /\ DOMAIN Porting = DOMAIN heap
         /\ Drawn(heap, Porting, stack, ports, links, parent_id, parent_field)
         /\ Sketched(heap, Porting, stack, ports)
BY PhaseOf DEF Dumping, TheTree, DumpInv, Drawn, Porting

LEMMA DumpsNode == ASSUME WalksInv, DumpInv, DumpNode PROVE DumpInv'
<1>1. /\ phase = "dump" /\ stack # <<>> /\ "call" \in DOMAIN Top
      /\ phase' = "dump" /\ heap' = heap /\ parent_field' = parent_field
  BY DEF DumpNode, tree
<1>2. /\ TheTree /\ Owned(heap) /\ DOMAIN Porting = DOMAIN heap
      /\ Drawn(heap, Porting, stack, ports, links, parent_id, parent_field)
      /\ Sketched(heap, Porting, stack, ports)
  BY <1>1, DumpingHas
<1> DEFINE c == Top.call
<1>3. stack[Len(stack)] \in Asked(heap) /\ c \in DOMAIN heap
  <2>1. GoodSketch(heap, Porting, ports, stack[Len(stack)]) \/ stack[Len(stack)] \in Asked(heap)
    BY <1>1, <1>2, TopOfDump
  <2>2. stack[Len(stack)] \in Asked(heap)
    BY <2>1, <1>1, SketchHas DEF GoodSketch, Top
  <2>3. QED
    BY <2>2, AskedHas DEF Top
<1>4. ToDraw(heap, Porting, c, Dumps(c)) /\ Ends(Dumps(c)) = Hold(heap[c])
  BY <1>2, <1>3, DumpsOf
<1>5. /\ parent_id' = c /\ ports' = Append(ports, <<c, Porting[c]>>)
      /\ links' = IF parent_field = Null THEN links ELSE links \union {<<parent_id, parent_field, c>>}
      /\ stack' = Append(Front(stack), Page(c, Dumps(c), parent_id, parent_field))
  BY <1>3 DEF DumpNode, Porting, Page
<1>6. Drawn(heap, Porting, stack', ports', links', parent_id', parent_field)
  <2>1. stack[Len(stack)].call = c
    BY DEF Top
  <2> DEFINE s == Dumps(c)
  <2> HIDE DEF c, s
  <2>2. Drawn(heap, Porting, Append(Front(stack), Page(c, s, parent_id, parent_field)),
              Append(ports, <<c, Porting[c]>>),
              IF parent_field = Null THEN links ELSE links \union {<<parent_id, parent_field, c>>},
              c, parent_field)
    BY <2>1, <1>1, <1>2, <1>3, <1>4, DrawnCall DEF s
  <2>3. QED
    BY <2>2, <1>5 DEF s
<1>7. Porting' = Porting
  BY <1>1, PortsUnchanged
<1>8. QED
  BY <1>1, <1>6, <1>7 DEF DumpInv

LEMMA DumpsMember == ASSUME WalksInv, DumpInv, DumpMember PROVE DumpInv'
<1> DEFINE f == stack[Len(stack)]
<1>1. /\ phase = "dump" /\ stack # <<>> /\ "dumps" \in DOMAIN f /\ f.dumps # <<>>
      /\ phase' = "dump" /\ UNCHANGED <<heap, parent_id, ports, links>>
      /\ parent_field' = Head(f.dumps).field
      /\ stack' = Append([stack EXCEPT ![Len(stack)].dumps = Tail(@)], [call |-> Head(f.dumps).node])
  BY DEF DumpMember, tree, Top
<1>2. /\ TheTree /\ Owned(heap) /\ DOMAIN Porting = DOMAIN heap
      /\ Drawn(heap, Porting, stack, ports, links, parent_id, parent_field)
      /\ Sketched(heap, Porting, stack, ports)
  BY <1>1, DumpingHas
<1>3. stack \in Seq(Sketch(heap, Porting) \union Asked(heap)) /\ GoodSketch(heap, Porting, ports, f)
  <2>1. /\ stack \in Seq(Sketch(heap, Porting) \union Asked(heap))
        /\ GoodSketch(heap, Porting, ports, f) \/ f \in Asked(heap)
    BY <1>1, <1>2, TopOfDump
  <2>2. f \in Asked(heap) => DOMAIN f = {"call"}
    BY AskedHas
  <2>3. QED
    BY <2>1, <2>2, <1>1
<1>4. f \in Sketch(heap, Porting) /\ Fewer(f) \in Sketch(heap, Porting)
  BY <1>1, <1>3, FewerLinks DEF GoodSketch
<1>5. [stack EXCEPT ![Len(stack)].dumps = Tail(@)] = Append(Front(stack), Fewer(f))
  <2>1. [stack EXCEPT ![Len(stack)].dumps = Tail(@)] = [stack EXCEPT ![Len(stack)] = Fewer(f)]
    BY DEF Fewer
  <2> DEFINE g == Fewer(f)
  <2> HIDE DEF f, g
  <2>2. g \in Sketch(heap, Porting) \union Asked(heap)
    BY <1>4 DEF g
  <2>3. [stack EXCEPT ![Len(stack)] = g] = Append(Front(stack), g)
    BY <2>2, <1>1, <1>3, TopReplaced
  <2>4. QED
    BY <2>1, <2>3 DEF g
<1>6. Drawn(heap, Porting, stack', ports, links, parent_id, parent_field')
  <2>1. Drawn(heap, Porting, Append(Append(Front(stack), Fewer(f)), [call |-> Head(f.dumps).node]),
              ports, links, parent_id, Head(f.dumps).field)
    BY <1>1, <1>2, <1>4, DrawnMember
  <2>2. QED
    BY <2>1, <1>1, <1>5
<1>7. Porting' = Porting
  BY <1>1, PortsUnchanged
<1>8. QED
  BY <1>1, <1>6, <1>7 DEF DumpInv

LEMMA DumpsEnd == ASSUME WalksInv, DumpInv, DumpEnd PROVE DumpInv'
<1> DEFINE f == stack[Len(stack)]
<1>1. /\ phase = "dump" /\ stack # <<>> /\ "dumps" \in DOMAIN f /\ f.dumps = <<>>
      /\ phase' = "dump" /\ UNCHANGED <<heap, ports, links>>
      /\ parent_id' = f.old_parent_id /\ parent_field' = f.old_parent_field
      /\ stack' = Front(stack)
  BY DEF DumpEnd, tree, Top
<1>2. /\ TheTree /\ Owned(heap) /\ DOMAIN Porting = DOMAIN heap
      /\ Drawn(heap, Porting, stack, ports, links, parent_id, parent_field)
      /\ Sketched(heap, Porting, stack, ports)
  BY <1>1, DumpingHas
<1>3. f \in Sketch(heap, Porting)
  <2>1. GoodSketch(heap, Porting, ports, f) \/ f \in Asked(heap)
    BY <1>1, <1>2, TopOfDump
  <2>2. f \in Asked(heap) => DOMAIN f = {"call"}
    BY AskedHas
  <2>3. QED
    BY <2>1, <2>2, <1>1 DEF GoodSketch
<1>4. Drawn(heap, Porting, Front(stack), ports, links, f.old_parent_id, f.old_parent_field)
  BY <1>1, <1>2, <1>3, DrawnEnd
<1>5. Porting' = Porting
  BY <1>1, PortsUnchanged
<1>6. QED
  BY <1>1, <1>4, <1>5 DEF DumpInv

LEMMA DumpBegins == ASSUME WalksInv, DumpInv, Built PROVE DumpInv'
<1>1. /\ phase = "build" /\ phase' = "dump" /\ stack' = <<[call |-> Root]>>
      /\ UNCHANGED <<heap, ports, links, parent_id, parent_field>>
  BY DEF Built, tree, dumper
<1>2. Owned(heap)
  BY <1>1, PhaseOf DEF Building, Growing
<1>3. Drawn(heap, Porting, <<[call |-> Root]>>, <<>>, {}, Null, Null)
  BY <1>2, DrawnStart
<1>4. ports = <<>> /\ links = {} /\ parent_id = Null /\ parent_field = Null
  BY <1>1 DEF DumpInv
<1>5. Porting' = Porting
  BY <1>1, PortsUnchanged
<1>6. Drawn(heap, Porting, stack', ports, links, parent_id, parent_field)
  BY <1>1, <1>3, <1>4
<1>7. QED
  BY <1>1, <1>5, <1>6 DEF DumpInv

LEMMA DumpIsOver == ASSUME WalksInv, DumpInv, EndOfDump PROVE DumpInv'
<1>1. /\ phase = "dump" /\ stack = <<>> /\ phase' \in {"visit", "clone"}
      /\ UNCHANGED <<heap, ports, links>>
  BY DEF EndOfDump, tree, dumper
<1>2. AllDrawn(heap, ports, links)
  BY <1>1, DumpingHas, DrawnAll
<1>3. QED
  BY <1>1, <1>2 DEF DumpInv

LEMMA DumpNext == ASSUME WalksInv, DumpInv, Next PROVE DumpInv'
<1>1. CASE Build
  BY <1>1 DEF Build, DumpInv, dumper
<1>2. CASE Built
  BY <1>2, DumpBegins
<1>3. CASE DumpNode \/ DumpMember \/ DumpEnd
  BY <1>3, DumpsNode, DumpsMember, DumpsEnd
<1>4. CASE EndOfDump
  BY <1>4, DumpIsOver
<1>5. CASE Visit \/ EndOfVisit \/ CloneCall \/ CloneMember \/ recurse
  <2>1. /\ phase \in {"visit", "clone"} /\ phase' \in {"visit", "clone"}
        /\ UNCHANGED <<heap, ports, links, result_>>
    BY <1>5 DEF Visit, EndOfVisit, CloneCall, CloneMember, recurse, tree, dumper
  <2>2. QED
    BY <2>1 DEF DumpInv
\* A node of the clone is no null pointer.
<1>6. CASE CloneEnd
  <2>1. phase' = "clone" /\ result_' = Len(heap')
    BY <1>6 DEF CloneEnd
  <2>2. WalksInv'
    BY <1>6, WalksNext DEF Next
  <2>3. Copying'
    BY <2>1, <2>2 DEF WalksInv, Building, Dumping, Visiting, Copying, Crashed, Deleting, Exiting
  <2>4. heap' \in Seq(Node)
    BY <2>3 DEF Copying, Cloning, Apart, Owned
  <2>5. result_' # Null
    BY <2>1, <2>4, AstWalksAssumption
  <2>6. QED
    BY <2>1, <2>5 DEF DumpInv
<1>7. CASE CheckDropped \/ apply \/ delete \/ exit
  <2>1. phase' \in {"crash", "delete", "exit"}
    BY <1>7 DEF CheckDropped, apply, delete, exit
  <2>2. QED
    BY <2>1 DEF DumpInv
<1>8. QED
  BY <1>1, <1>2, <1>3, <1>4, <1>5, <1>6, <1>7 DEF Next

LEMMA DumpKept == Spec => []DumpInv
<1>1. Init => DumpInv
  BY DumpInit
<1>2. WalksInv /\ DumpInv /\ [Next]_vars => DumpInv'
  <2>1. ASSUME DumpInv, UNCHANGED vars PROVE DumpInv'
    <3>1. UNCHANGED <<heap, phase, stack, ports, links, parent_id, parent_field, result_>>
      BY <2>1 DEF vars, tree, dumper
    <3>2. Porting' = Porting
      BY <3>1, PortsUnchanged
    <3>3. QED
      BY <3>1, <3>2, <2>1 DEF DumpInv
  <2>2. QED
    BY <2>1, DumpNext
<1>3. QED
  BY <1>1, <1>2, WalksKept, PTL DEF Spec

\* A link of the dump starts from a port that the node it leaves was printed
\* with, whatever the tree (src/src/ast/dumper-dot.cc).
THEOREM LinksFindTheirPorts == Spec => []LinksHavePorts
<1>1. DumpInv => LinksHavePorts
  <2>1. SUFFICES ASSUME DumpInv, phase = "dump", NEW l \in links
                 PROVE  \E i \in DOMAIN ports : ports[i][1] = l[1] /\ l[2] \in ports[i][2]
    BY DEF LinksHavePorts
  <2>2. ports \in Seq(Pages(heap, Porting)) /\ Linked(heap, Porting, ports, links)
    BY <2>1 DEF DumpInv, Drawn, Covered
  <2>3. PICK n \in Printed(ports) : \E d \in Link(heap, Porting, n) : l = <<n, d.field, d.node>>
    BY <2>2 DEF Linked
  <2>4. l[1] = n /\ l[2] \in Porting[n]
    BY <2>3 DEF Link
  <2>5. PICK i \in DOMAIN ports : ports[i][1] = n
    BY DEF Printed
  <2>6. ports[i] \in Pages(heap, Porting)
    BY <2>2
  <2>7. ports[i][2] = Porting[n]
    BY <2>5, <2>6 DEF Pages
  <2>8. QED
    BY <2>4, <2>5, <2>7
<1>2. QED
  BY <1>1, DumpKept, PTL

\* The dump shows each node of the tree once, linked from its parent and from
\* no other, whatever the tree (src/src/ast/dumper-dot.cc).
THEOREM DumpsShowTheTree == Spec => []TheDumpIsTheTree
<1>1. DumpInv => TheDumpIsTheTree
  <2>1. SUFFICES ASSUME DumpInv, phase \in {"visit", "clone"}, result_ = Null
                 PROVE  /\ IsInjective([i \in DOMAIN ports |-> ports[i][1]])
                        /\ {ports[i][1] : i \in DOMAIN ports} = DOMAIN heap
                        /\ {<<l[1], l[3]>> : l \in links} =
                             UNION {{<<n, c>> : c \in ToSet(Children(n))} : n \in DOMAIN heap}
    BY DEF TheDumpIsTheTree
  <2>2. AllDrawn(heap, ports, links)
    BY <2>1 DEF DumpInv
  <2>3. \A n \in DOMAIN heap : ToSet(Children(n)) = Hold(heap[n])
    BY <2>2, ChildrenHeld DEF AllDrawn
  <2>4. UNION {{<<n, c>> : c \in ToSet(Children(n))} : n \in DOMAIN heap}
          = UNION {{<<n, c>> : c \in Hold(heap[n])} : n \in DOMAIN heap}
    BY <2>3
  <2>5. QED
    BY <2>2, <2>4 DEF AllDrawn, Printed
<1>2. QED
  BY <1>1, DumpKept, PTL
=============================================================================

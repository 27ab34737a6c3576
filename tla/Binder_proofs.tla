---------------------------- MODULE Binder_proofs ----------------------------
(***************************************************************************)
(* Proofs about the Binder, for every program and every depth: its tables  *)
(* and its loop stack follow the constructs being visited, its flags are   *)
(* only up inside those that raise them, and it implements LexicalScoping. *)
(***************************************************************************)
EXTENDS Binder, FiniteSetTheorems, SequenceTheorems, WellFoundedInduction, TLAPS

Names == FunName \union TypName \union VarName
Scope == UNION {[S -> Node] : S \in SUBSET Names}
IsTable(m) == m \in Seq(Scope) /\ m # <<>>

\* The types, of the declarations in the tables included.
Types ==
  /\ IsTable(scoped_map_fun_) /\ IsTable(scoped_map_var_) /\ IsTable(scoped_map_typ_)
  /\ loop_stack_ \in Seq(Loop)
  /\ is_main_defined_ \in BOOLEAN /\ error_ \in BOOLEAN /\ done \in BOOLEAN
  /\ in_loop_ \in BOOLEAN /\ in_formals_ \in BOOLEAN /\ in_vardec_ \in BOOLEAN
  /\ walk \in Seq(Frame)
  /\ decs \in 0..MaxDecs
  /\ named = Nothing \/ named.node \in Node \union Loop

-----------------------------------------------------------------------------
(* Tables. *)

\* A nonempty set of naturals that has a bound has a greatest element.
LEMMA GreatestUpTo ==
  ASSUME NEW n \in Nat, NEW T, T \subseteq 1..n, T # {}
  PROVE  \E x \in T : \A y \in T : y <= x
<1> DEFINE Gaps == {g \in Nat : n - g \in T}
           R == OpToRel(<, Nat)
<1>1. Gaps \subseteq Nat
  OBVIOUS
<1>2. Gaps # {}
  <2>1. PICK t \in T : TRUE
    OBVIOUS
  <2>2. n - t \in Nat /\ n - (n - t) = t
    BY <2>1
  <2> QED  BY <2>1, <2>2
<1>3. PICK g \in Gaps : \A h \in Gaps : <<h, g>> \notin R
  <2> HIDE DEF Gaps
  <2> QED  BY <1>1, <1>2, WFMin, NatLessThanWellFounded, Zenon
<1>4. g \in Nat /\ n - g \in T
  BY <1>3
<1>5. ASSUME NEW y \in T
      PROVE  y <= n - g
  <2>1. y \in 1..n /\ n - y \in Nat /\ n - (n - y) = y
    OBVIOUS
  <2>2. n - y \in Gaps
    BY <2>1
  <2>3. n - y < g => <<n - y, g>> \in R
    BY <1>4, <2>1 DEF OpToRel
  <2>4. ~(n - y < g)
    <3> HIDE DEF Gaps, R
    <3> QED  BY <1>3, <2>2, <2>3
  <2> QED  BY <1>4, <2>1, <2>4
<1> QED  BY <1>4, <1>5

\* What is found in a table is a declaration.
LEMMA FoundType ==
  ASSUME NEW m, IsTable(m), NEW k
  PROVE  /\ Fun!GetIn(m, Len(m), k) \in Node \union {Unbound}
         /\ Var!GetIn(m, Len(m), k) \in Node \union {Unbound}
         /\ Typ!GetIn(m, Len(m), k) \in Node \union {Unbound}
<1> DEFINE H == {i \in 1..Len(m) : k \in DOMAIN m[i]}
           c == CHOOSE i \in H : \A j \in H : j <= i
           Found == IF H = {} THEN Unbound ELSE m[c][k]
<1>1. Found \in Node \union {Unbound}
  <2>1. CASE H = {}
    BY <2>1
  <2>2. CASE H # {}
    <3>1. Len(m) \in Nat /\ H \subseteq 1..Len(m)
      BY DEF IsTable
    <3>2. \E i \in H : \A j \in H : j <= i
      <4> HIDE DEF H
      <4> QED  BY <2>2, <3>1, GreatestUpTo
    <3>3. c \in H
      <4> HIDE DEF H
      <4> QED  BY <3>2
    <3>4. c \in 1..Len(m) /\ k \in DOMAIN m[c]
      BY <3>3
    <3> HIDE DEF c
    <3>5. m[c] \in Scope
      BY <3>4 DEF IsTable
    <3>6. m[c][k] \in Node
      BY <3>4, <3>5 DEF Scope
    <3> QED  BY <2>2, <3>6
  <2> QED  BY <2>1, <2>2
<1>2. Found = Fun!GetIn(m, Len(m), k)
  BY DEF Fun!GetIn, Fun!Holders
<1>3. Found = Var!GetIn(m, Len(m), k)
  BY DEF Var!GetIn, Var!Holders
<1>4. Found = Typ!GetIn(m, Len(m), k)
  BY DEF Typ!GetIn, Typ!Holders
<1> HIDE DEF Found
<1> QED  BY <1>1, <1>2, <1>3, <1>4

\* Declaring a name keeps the depth.
LEMMA PutTable ==
  ASSUME NEW m, IsTable(m), NEW k \in Names, NEW d \in Node
  PROVE  /\ IsTable([m EXCEPT ![Len(m)] = Fun!With(@, k, d)])
         /\ IsTable([m EXCEPT ![Len(m)] = Var!With(@, k, d)])
         /\ IsTable([m EXCEPT ![Len(m)] = Typ!With(@, k, d)])
         /\ Len([m EXCEPT ![Len(m)] = Fun!With(@, k, d)]) = Len(m)
         /\ Len([m EXCEPT ![Len(m)] = Var!With(@, k, d)]) = Len(m)
         /\ Len([m EXCEPT ![Len(m)] = Typ!With(@, k, d)]) = Len(m)
<1> DEFINE last == m[Len(m)]
           w == [j \in DOMAIN last \union {k} |-> IF j = k THEN d ELSE last[j]]
           p == [m EXCEPT ![Len(m)] = w]
<1>1. last \in Scope /\ Len(m) \in 1..Len(m)
  BY DEF IsTable
<1>2. w \in Scope
  <2>1. PICK S \in SUBSET Names : last \in [S -> Node]
    BY <1>1 DEF Scope
  <2>2. w \in [S \union {k} -> Node]
    BY <2>1
  <2>3. S \union {k} \in SUBSET Names
    OBVIOUS
  <2> HIDE DEF w
  <2> QED  BY <2>2, <2>3 DEF Scope
<1>3. IsTable(p) /\ Len(p) = Len(m)
  <2> HIDE DEF w
  <2> QED  BY <1>1, <1>2 DEF IsTable
<1>4. /\ w = Fun!With(last, k, d)
      /\ w = Var!With(last, k, d)
      /\ w = Typ!With(last, k, d)
  BY DEF Fun!With, Var!With, Typ!With
<1> HIDE DEF w
<1> QED  BY <1>3, <1>4

\* Opening and closing a scope.
LEMMA OpenTable ==
  ASSUME NEW m, IsTable(m)
  PROVE  /\ IsTable(Append(m, [k \in {} |-> Unbound]))
         /\ Len(Append(m, [k \in {} |-> Unbound])) = Len(m) + 1
<1>1. [k \in {} |-> Unbound] \in Scope
  BY DEF Scope
<1> QED  BY <1>1 DEF IsTable

LEMMA CloseTable ==
  ASSUME NEW m, IsTable(m), Len(m) # 1
  PROVE  /\ IsTable(SubSeq(m, 1, Len(m) - 1))
         /\ Len(SubSeq(m, 1, Len(m) - 1)) = Len(m) - 1
<1> DEFINE n == Len(m) - 1
<1>1. m \in Seq(Scope) /\ m # <<>>
  BY DEF IsTable
<1>2. n \in Nat \ {0} /\ n <= Len(m) /\ n \in Int
  BY <1>1
<1>3. \A i \in 1..n : m[i] \in Scope
  BY <1>1, <1>2
<1> HIDE DEF n
<1>4. /\ SubSeq(m, 1, n) \in Seq(Scope)
      /\ Len(SubSeq(m, 1, n)) = IF 1 <= n THEN n - 1 + 1 ELSE 0
  BY <1>2, <1>3, SubSeqProperties
<1>5. Len(SubSeq(m, 1, n)) = n
  BY <1>2, <1>4
<1>6. SubSeq(m, 1, n) # <<>>
  BY <1>2, <1>5
<1> QED  BY <1>4, <1>5, <1>6 DEF n, IsTable

\* What the three tables may undergo.
Closed(m, n) == IF Len(m) = 1 THEN n = m ELSE Len(n) = Len(m) - 1

LEMMA FunTable ==
  ASSUME IsTable(scoped_map_fun_)
  PROVE  /\ \A k \in Names, d \in Node :
                Fun!put(k, d) => IsTable(scoped_map_fun_') /\ Len(scoped_map_fun_') = Len(scoped_map_fun_)
         /\ Fun!scope_begin => IsTable(scoped_map_fun_') /\ Len(scoped_map_fun_') = Len(scoped_map_fun_) + 1
         /\ Fun!scope_end => IsTable(scoped_map_fun_') /\ Closed(scoped_map_fun_, scoped_map_fun_')
<1>1. ASSUME NEW k \in Names, NEW d \in Node, Fun!put(k, d)
      PROVE  IsTable(scoped_map_fun_') /\ Len(scoped_map_fun_') = Len(scoped_map_fun_)
  BY <1>1, PutTable DEF Fun!put
<1>2. Fun!scope_begin => IsTable(scoped_map_fun_') /\ Len(scoped_map_fun_') = Len(scoped_map_fun_) + 1
  BY OpenTable DEF Fun!scope_begin
<1>3. Fun!scope_end => IsTable(scoped_map_fun_') /\ Closed(scoped_map_fun_, scoped_map_fun_')
  BY CloseTable DEF Fun!scope_end, Closed
<1> QED  BY <1>1, <1>2, <1>3

LEMMA VarTable ==
  ASSUME IsTable(scoped_map_var_)
  PROVE  /\ \A k \in Names, d \in Node :
                Var!put(k, d) => IsTable(scoped_map_var_') /\ Len(scoped_map_var_') = Len(scoped_map_var_)
         /\ Var!scope_begin => IsTable(scoped_map_var_') /\ Len(scoped_map_var_') = Len(scoped_map_var_) + 1
         /\ Var!scope_end => IsTable(scoped_map_var_') /\ Closed(scoped_map_var_, scoped_map_var_')
<1>1. ASSUME NEW k \in Names, NEW d \in Node, Var!put(k, d)
      PROVE  IsTable(scoped_map_var_') /\ Len(scoped_map_var_') = Len(scoped_map_var_)
  BY <1>1, PutTable DEF Var!put
<1>2. Var!scope_begin => IsTable(scoped_map_var_') /\ Len(scoped_map_var_') = Len(scoped_map_var_) + 1
  BY OpenTable DEF Var!scope_begin
<1>3. Var!scope_end => IsTable(scoped_map_var_') /\ Closed(scoped_map_var_, scoped_map_var_')
  BY CloseTable DEF Var!scope_end, Closed
<1> QED  BY <1>1, <1>2, <1>3

LEMMA TypTable ==
  ASSUME IsTable(scoped_map_typ_)
  PROVE  /\ \A k \in Names, d \in Node :
                Typ!put(k, d) => IsTable(scoped_map_typ_') /\ Len(scoped_map_typ_') = Len(scoped_map_typ_)
         /\ Typ!scope_begin => IsTable(scoped_map_typ_') /\ Len(scoped_map_typ_') = Len(scoped_map_typ_) + 1
         /\ Typ!scope_end => IsTable(scoped_map_typ_') /\ Closed(scoped_map_typ_, scoped_map_typ_')
<1>1. ASSUME NEW k \in Names, NEW d \in Node, Typ!put(k, d)
      PROVE  IsTable(scoped_map_typ_') /\ Len(scoped_map_typ_') = Len(scoped_map_typ_)
  BY <1>1, PutTable DEF Typ!put
<1>2. Typ!scope_begin => IsTable(scoped_map_typ_') /\ Len(scoped_map_typ_') = Len(scoped_map_typ_) + 1
  BY OpenTable DEF Typ!scope_begin
<1>3. Typ!scope_end => IsTable(scoped_map_typ_') /\ Closed(scoped_map_typ_, scoped_map_typ_')
  BY CloseTable DEF Typ!scope_end, Closed
<1> QED  BY <1>1, <1>2, <1>3

-----------------------------------------------------------------------------
(* How a step changes walk. *)

Chunks == {"funchunk", "typchunk"}

\* The frames up to the n-th stay, in the same part but for a loop whose
\* variable has been visited and for chunks.
Survive(n) ==
  \A i \in 1..n :
    /\ i \in DOMAIN walk' /\ walk'[i].kind = walk[i].kind
    /\ \/ walk'[i].part = walk[i].part
       \/ walk[i].kind \in Chunks
       \/ walk[i].kind = "for" /\ walk'[i].part = "hi"

Pushed(kind, part) ==
  /\ Len(walk') = Len(walk) + 1 /\ Survive(Len(walk))
  /\ walk'[Len(walk) + 1].kind = kind /\ walk'[Len(walk) + 1].part = part

Popped == walk # <<>> /\ Len(walk') = Len(walk) - 1 /\ Survive(Len(walk) - 1)

Kept == Len(walk') = Len(walk) /\ Survive(Len(walk))

Turned(part) ==
  /\ walk # <<>> /\ Len(walk') = Len(walk) /\ Survive(Len(walk) - 1)
  /\ walk'[Len(walk)].kind = Top.kind /\ walk'[Len(walk)].part = part

LEMMA EnterWalk ==
  ASSUME walk \in Seq(Frame), NEW kind \in Kind, NEW part \in Part, Enter(kind, part)
  PROVE  walk' \in Seq(Frame) /\ Pushed(kind, part) /\ Len(walk) < MaxDepth
<1> DEFINE new == [kind |-> kind, part |-> part, todo |-> <<>>]
<1>1. new \in Frame /\ new.kind = kind /\ new.part = part
  BY DEF Frame
<1>2. walk' = Append(walk, new) /\ Len(walk) < MaxDepth
  BY DEF Enter
<1> HIDE DEF new
<1>3. /\ walk' \in Seq(Frame) /\ Len(walk') = Len(walk) + 1
      /\ walk'[Len(walk) + 1] = new
      /\ \A i \in 1..Len(walk) : i \in DOMAIN walk' /\ walk'[i] = walk[i]
  BY <1>1, <1>2
<1> QED  BY <1>1, <1>2, <1>3 DEF Pushed, Survive

LEMMA ReturnWalk ==
  ASSUME walk \in Seq(Frame), walk # <<>>, Return
  PROVE  walk' \in Seq(Frame) /\ Popped
<1> DEFINE n == Len(walk) - 1
<1>1. n \in Nat /\ n \in Int /\ 1 \in Int /\ \A i \in 1..n : walk[i] \in Frame
  OBVIOUS
<1>2. walk' = SubSeq(walk, 1, n)
  BY DEF Return
<1> HIDE DEF n
<1>3. /\ SubSeq(walk, 1, n) \in Seq(Frame)
      /\ Len(SubSeq(walk, 1, n)) = IF 1 <= n THEN n - 1 + 1 ELSE 0
      /\ \A i \in 1..n - 1 + 1 : SubSeq(walk, 1, n)[i] = walk[1 + i - 1]
  BY <1>1, SubSeqProperties
<1>4. walk' \in Seq(Frame) /\ Len(walk') = n /\ \A i \in 1..n : walk'[i] = walk[i]
  BY <1>1, <1>2, <1>3
<1>5. Survive(n)
  BY <1>4 DEF Survive
<1> QED  BY <1>4, <1>5 DEF n, Popped

LEMMA SameWalk == UNCHANGED walk => Kept
BY DEF Kept, Survive

\* Another frame takes the place of the last.
LEMMA ReplaceTop ==
  ASSUME walk \in Seq(Frame), walk # <<>>, NEW new \in Frame,
         walk' = [walk EXCEPT ![Len(walk)] = new]
  PROVE  /\ walk' \in Seq(Frame) /\ Len(walk') = Len(walk)
         /\ walk'[Len(walk)] = new
         /\ \A i \in 1..(Len(walk) - 1) : i \in DOMAIN walk' /\ walk'[i] = walk[i]
OBVIOUS

LEMMA GoToWalk ==
  ASSUME walk \in Seq(Frame), walk # <<>>, NEW part \in Part, GoTo(part)
  PROVE  walk' \in Seq(Frame) /\ Turned(part)
<1> DEFINE new == [Top EXCEPT !.part = part]
<1>1. Top \in Frame /\ Len(walk) \in 1..Len(walk)
  BY DEF Top
<1>2. new \in Frame /\ new.kind = Top.kind /\ new.part = part
  BY <1>1 DEF Frame
<1>3. walk' = [walk EXCEPT ![Len(walk)] = new]
  BY DEF GoTo, Top
<1> HIDE DEF new
<1>4. /\ walk' \in Seq(Frame) /\ Len(walk') = Len(walk)
      /\ walk'[Len(walk)] = new
      /\ \A i \in 1..(Len(walk) - 1) : i \in DOMAIN walk' /\ walk'[i] = walk[i]
  BY <1>2, <1>3, ReplaceTop, Zenon
<1> QED  BY <1>2, <1>4 DEF Turned, Survive

\* A declaration met by the first loop over a chunk, or a formal.
LEMMA HeaderWalk ==
  ASSUME walk \in Seq(Frame), walk # <<>>, NEW n \in Names, decs \in 0..MaxDecs,
         decs < MaxDecs,
         walk' = [walk EXCEPT ![Len(walk)].todo =
                    Append(@, [name |-> n, node |-> decs + 1])]
  PROVE  walk' \in Seq(Frame) /\ Kept
<1> DEFINE d == [name |-> n, node |-> decs + 1]
           new == [Top EXCEPT !.todo = Append(@, d)]
<1>1. Top \in Frame /\ Len(walk) \in 1..Len(walk)
  BY DEF Top
<1>2. d \in Dec
  BY BinderAssumption DEF Dec, Node, Names
<1>3. walk' = [walk EXCEPT ![Len(walk)] = new]
  BY DEF Top
<1>4. new \in Frame /\ new.kind = Top.kind /\ new.part = Top.part
  <2> HIDE DEF d
  <2>1. Top.todo \in Seq(Dec) /\ Append(Top.todo, d) \in Seq(Dec)
    BY <1>1, <1>2 DEF Frame
  <2> QED  BY <1>1, <2>1 DEF Frame
<1> HIDE DEF new
<1>5. /\ walk' \in Seq(Frame) /\ Len(walk') = Len(walk)
      /\ walk'[Len(walk)] = new
      /\ \A i \in 1..(Len(walk) - 1) : i \in DOMAIN walk' /\ walk'[i] = walk[i]
  BY <1>3, <1>4, ReplaceTop, Zenon
<1>6. \A i \in 1..Len(walk) : i \in DOMAIN walk' /\ walk'[i].kind = walk[i].kind
                              /\ walk'[i].part = walk[i].part
  BY <1>4, <1>5 DEF Top
<1> QED  BY <1>5, <1>6 DEF Kept, Survive

\* The second loop over a chunk visits the next declaration.
LEMMA VisitWalk ==
  ASSUME walk \in Seq(Frame), NEW chunk \in Chunks, NEW kind \in Kind,
         NEW part \in Part, Visit(chunk, kind, part)
  PROVE  /\ walk' \in Seq(Frame) /\ Pushed(kind, part) /\ walk # <<>>
         /\ Head(Top.todo) \in Dec
<1> DEFINE top == [Top EXCEPT !.part = "body", !.todo = Tail(@)]
           new == [kind |-> kind, part |-> part, todo |-> <<>>]
<1>1. walk # <<>> /\ Top.kind = chunk /\ Top.todo # <<>>
  BY DEF Visit, In
<1>2. Top \in Frame /\ Len(walk) \in 1..Len(walk)
  BY <1>1 DEF Top
<1>3. Top.todo \in Seq(Dec) /\ Head(Top.todo) \in Dec /\ Tail(Top.todo) \in Seq(Dec)
  BY <1>1, <1>2 DEF Frame
<1>4. top \in Frame /\ top.kind = chunk
  BY <1>1, <1>2, <1>3 DEF Frame, Part
<1>5. new \in Frame /\ new.kind = kind /\ new.part = part
  BY DEF Frame
<1>6. walk' = Append([walk EXCEPT ![Len(walk)] = top], new)
  BY DEF Visit, Top
<1> HIDE DEF top, new
<1>7. /\ walk' \in Seq(Frame) /\ Len(walk') = Len(walk) + 1
      /\ walk'[Len(walk) + 1] = new /\ walk'[Len(walk)] = top
      /\ \A i \in 1..(Len(walk) - 1) : i \in DOMAIN walk' /\ walk'[i] = walk[i]
  BY <1>2, <1>4, <1>5, <1>6
<1>8. Survive(Len(walk))
  <2> SUFFICES ASSUME NEW i \in 1..Len(walk)
               PROVE  /\ i \in DOMAIN walk' /\ walk'[i].kind = walk[i].kind
                      /\ \/ walk'[i].part = walk[i].part
                         \/ walk[i].kind \in Chunks
    BY DEF Survive
  <2>1. CASE i = Len(walk)
    BY <1>1, <1>4, <1>7, <2>1 DEF Top
  <2>2. CASE i # Len(walk)
    BY <1>7, <2>2
  <2> QED  BY <2>1, <2>2
<1> QED  BY <1>1, <1>3, <1>5, <1>7, <1>8 DEF Pushed

\* The end of a variable, after which its loop is at its upper bound.
LEMMA LeaveVarWalk ==
  ASSUME walk \in Seq(Frame), walk # <<>>, NEW up, up = Len(walk) - 1,
         walk' = [i \in 1..up |->
                    IF i = up /\ walk[i].kind = "for" THEN [walk[i] EXCEPT !.part = "hi"]
                                                      ELSE walk[i]]
  PROVE  walk' \in Seq(Frame) /\ Popped
<1>1. up \in Nat /\ \A i \in 1..up : walk[i] \in Frame
  OBVIOUS
<1>2. \A i \in 1..up : /\ walk'[i] \in Frame
                       /\ walk'[i].kind = walk[i].kind
                       /\ \/ walk'[i].part = walk[i].part
                          \/ walk[i].kind = "for" /\ walk'[i].part = "hi"
  BY <1>1 DEF Frame, Part
<1>3. walk' \in [1..up -> Frame]
  BY <1>2
<1>4. walk' \in Seq(Frame) /\ Len(walk') = up /\ DOMAIN walk' = 1..up
  BY <1>1, <1>3
<1> QED  BY <1>2, <1>4 DEF Popped, Survive

-----------------------------------------------------------------------------
(* How a step changes the tables and the loops with walk. *)

FunKinds == {"let", "fundec"}
VarKinds == {"let", "fundec", "for", "while"}
TypKinds == {"let"}
LoopKinds == {"for", "while"}
One(kind, kinds) == IF kind \in kinds THEN 1 ELSE 0

SameDepths ==
  /\ Len(scoped_map_fun_') = Len(scoped_map_fun_)
  /\ Len(scoped_map_var_') = Len(scoped_map_var_)
  /\ Len(scoped_map_typ_') = Len(scoped_map_typ_)

Stays ==
  /\ Len(walk') = Len(walk) /\ \A i \in 1..Len(walk) : walk'[i].kind = walk[i].kind
  /\ SameDepths /\ loop_stack_' = loop_stack_

Pushes(kind) ==
  /\ Len(walk') = Len(walk) + 1 /\ walk'[Len(walk) + 1].kind = kind
  /\ \A i \in 1..Len(walk) : walk'[i].kind = walk[i].kind
  /\ Len(scoped_map_fun_') = Len(scoped_map_fun_) + One(kind, FunKinds)
  /\ Len(scoped_map_var_') = Len(scoped_map_var_) + One(kind, VarKinds)
  /\ Len(scoped_map_typ_') = Len(scoped_map_typ_) + One(kind, TypKinds)
  /\ loop_stack_' = IF kind \in LoopKinds THEN Append(loop_stack_, Len(walk) + 1)
                                          ELSE loop_stack_

ClosedIf(kinds, m, n) == IF Top.kind \in kinds THEN Closed(m, n) ELSE Len(n) = Len(m)

Pops ==
  /\ walk # <<>> /\ Len(walk') = Len(walk) - 1
  /\ \A i \in 1..(Len(walk) - 1) : walk'[i].kind = walk[i].kind
  /\ ClosedIf(FunKinds, scoped_map_fun_, scoped_map_fun_')
  /\ ClosedIf(VarKinds, scoped_map_var_, scoped_map_var_')
  /\ ClosedIf(TypKinds, scoped_map_typ_, scoped_map_typ_')
  /\ loop_stack_' = IF Top.kind \in LoopKinds
                    THEN SubSeq(loop_stack_, 1, Len(loop_stack_) - 1)
                    ELSE loop_stack_

Shaped == Stays \/ Pops \/ \E kind \in Kind : Pushes(kind)

LEMMA KeptStays ==
  ASSUME Kept, UNCHANGED loop_stack_, SameDepths
  PROVE  Shaped
BY DEF Kept, Survive, Stays, Shaped

LEMMA TurnedStays ==
  ASSUME walk \in Seq(Frame), NEW part, Turned(part), UNCHANGED loop_stack_, SameDepths
  PROVE  Shaped
<1>1. \A i \in 1..Len(walk) : walk'[i].kind = walk[i].kind
  <2> SUFFICES ASSUME NEW i \in 1..Len(walk) PROVE walk'[i].kind = walk[i].kind
    OBVIOUS
  <2>1. CASE i = Len(walk)
    BY <2>1 DEF Turned, Top
  <2>2. CASE i # Len(walk)
    BY <2>2 DEF Turned, Survive
  <2> QED  BY <2>1, <2>2
<1> QED  BY <1>1 DEF Turned, Stays, Shaped

LEMMA PushedPushes ==
  ASSUME NEW kind \in Kind, NEW part, Pushed(kind, part),
         Len(scoped_map_fun_') = Len(scoped_map_fun_) + One(kind, FunKinds),
         Len(scoped_map_var_') = Len(scoped_map_var_) + One(kind, VarKinds),
         Len(scoped_map_typ_') = Len(scoped_map_typ_) + One(kind, TypKinds),
         loop_stack_' = IF kind \in LoopKinds THEN Append(loop_stack_, Len(walk) + 1)
                                              ELSE loop_stack_
  PROVE  Shaped
<1>1. Pushes(kind)
  BY DEF Pushed, Survive, Pushes
<1> QED  BY <1>1 DEF Shaped

LEMMA PoppedPops ==
  ASSUME Popped,
         ClosedIf(FunKinds, scoped_map_fun_, scoped_map_fun_'),
         ClosedIf(VarKinds, scoped_map_var_, scoped_map_var_'),
         ClosedIf(TypKinds, scoped_map_typ_, scoped_map_typ_'),
         loop_stack_' = IF Top.kind \in LoopKinds
                        THEN SubSeq(loop_stack_, 1, Len(loop_stack_) - 1)
                        ELSE loop_stack_
  PROVE  Shaped
<1>1. Pops
  BY DEF Popped, Survive, Pops
<1> QED  BY <1>1 DEF Shaped

LEMMA ShorterLoops ==
  ASSUME loop_stack_ \in Seq(Loop)
  PROVE  SubSeq(loop_stack_, 1, Len(loop_stack_) - 1) \in Seq(Loop)
<1> DEFINE n == Len(loop_stack_) - 1
<1>1. n \in Int /\ 1 \in Int /\ \A i \in 1..n : loop_stack_[i] \in Loop
  OBVIOUS
<1> HIDE DEF n
<1>2. SubSeq(loop_stack_, 1, n) \in Seq(Loop)
  BY <1>1, SubSeqProperties
<1> QED  BY <1>2 DEF n

LEMMA BoundType ==
  ASSUME NEW space, NEW n, NEW found \in Node \union {Unbound}, Bind(space, n, found),
         error_ \in BOOLEAN
  PROVE  error_' \in BOOLEAN /\ (named' = Nothing \/ named'.node \in Node)
<1>1. CASE found = Unbound
  BY <1>1 DEF Bind
<1>2. CASE found # Unbound
  <2>1. named' = [space |-> space, name |-> n, node |-> found] /\ error_' = error_
    BY <1>2 DEF Bind
  <2>2. found \in Node
    BY <1>2
  <2> QED  BY <2>1, <2>2
<1> QED  BY <1>1, <1>2

\* Every step keeps the types, and changes the tables and the loops as it
\* changes walk.
LEMMA StepTypes ==
  ASSUME Types, Next
  PROVE  Types' /\ Shaped
<1> USE DEF Types
<1>0. /\ Len(scoped_map_fun_) \in Nat /\ Len(scoped_map_var_) \in Nat
      /\ Len(scoped_map_typ_) \in Nat
  BY DEF IsTable
<1>1. ASSUME FunctionChunk PROVE Types' /\ Shaped
  <2>1. walk' \in Seq(Frame) /\ Pushed("funchunk", "decs")
    BY <1>1, EnterWalk DEF FunctionChunk, Kind, Part
  <2>2. Shaped
    BY <1>0, <1>1, <2>1, PushedPushes DEF FunctionChunk, maps, Kind, One, FunKinds, VarKinds, TypKinds, LoopKinds
  <2> QED  BY <1>1, <2>1, <2>2 DEF FunctionChunk, maps, flags
<1>2. ASSUME TypeChunk PROVE Types' /\ Shaped
  <2>1. walk' \in Seq(Frame) /\ Pushed("typchunk", "decs")
    BY <1>2, EnterWalk DEF TypeChunk, Kind, Part
  <2>2. Shaped
    BY <1>0, <1>2, <2>1, PushedPushes DEF TypeChunk, maps, Kind, One, FunKinds, VarKinds, TypKinds, LoopKinds
  <2> QED  BY <1>2, <2>1, <2>2 DEF TypeChunk, maps, flags
<1>3. ASSUME NEW n \in FunName, FunctionHeader(n) PROVE Types' /\ Shaped
  <2>1. /\ n \in Names /\ decs + 1 \in Node /\ decs' = decs + 1 /\ decs < MaxDecs
        /\ decs' \in 0..MaxDecs /\ named'.node \in Node
    BY <1>3, BinderAssumption DEF FunctionHeader, Header, Declares, Names, Node
  <2>2. walk' \in Seq(Frame) /\ Kept
    <3>1. walk # <<>> /\ walk' = [walk EXCEPT ![Len(walk)].todo =
                                    Append(@, [name |-> n, node |-> decs + 1])]
      BY <1>3 DEF FunctionHeader, Header, In
    <3> QED  BY <2>1, <3>1, HeaderWalk
  <2>3. /\ SameDepths /\ error_' \in BOOLEAN
        /\ IsTable(scoped_map_fun_') /\ IsTable(scoped_map_var_') /\ IsTable(scoped_map_typ_')
    BY <1>3, <2>1, FunTable DEF FunctionHeader, Header, SameDepths, maps
  <2>4. Shaped
    BY <1>3, <2>2, <2>3, KeptStays DEF FunctionHeader, Header
  <2> QED  BY <1>3, <2>1, <2>2, <2>3, <2>4 DEF FunctionHeader, Header, flags
<1>4. ASSUME NEW n \in TypName, TypeHeader(n) PROVE Types' /\ Shaped
  <2>1. /\ n \in Names /\ decs + 1 \in Node /\ decs' = decs + 1 /\ decs < MaxDecs
        /\ decs' \in 0..MaxDecs /\ named'.node \in Node
    BY <1>4, BinderAssumption DEF TypeHeader, Header, Declares, Names, Node
  <2>2. walk' \in Seq(Frame) /\ Kept
    <3>1. walk # <<>> /\ walk' = [walk EXCEPT ![Len(walk)].todo =
                                    Append(@, [name |-> n, node |-> decs + 1])]
      BY <1>4 DEF TypeHeader, Header, In
    <3> QED  BY <2>1, <3>1, HeaderWalk
  <2>3. /\ SameDepths /\ error_' \in BOOLEAN
        /\ IsTable(scoped_map_fun_') /\ IsTable(scoped_map_var_') /\ IsTable(scoped_map_typ_')
    BY <1>4, <2>1, TypTable DEF TypeHeader, Header, SameDepths, maps
  <2>4. Shaped
    BY <1>4, <2>2, <2>3, KeptStays DEF TypeHeader, Header
  <2> QED  BY <1>4, <2>1, <2>2, <2>3, <2>4 DEF TypeHeader, Header, flags
<1>5. ASSUME NEW n \in VarName, Formal(n) PROVE Types' /\ Shaped
  <2>1. /\ n \in Names /\ decs + 1 \in Node /\ decs' = decs + 1 /\ decs < MaxDecs
        /\ decs' \in 0..MaxDecs /\ named'.node \in Node
    BY <1>5, BinderAssumption DEF Formal, Declares, Names, Node
  <2>2. walk' \in Seq(Frame) /\ Kept
    <3>1. walk # <<>> /\ walk' = [walk EXCEPT ![Len(walk)].todo =
                                    Append(@, [name |-> n, node |-> decs + 1])]
      BY <1>5 DEF Formal, In
    <3> QED  BY <2>1, <3>1, HeaderWalk
  <2>3. /\ SameDepths /\ error_' \in BOOLEAN
        /\ IsTable(scoped_map_fun_') /\ IsTable(scoped_map_var_') /\ IsTable(scoped_map_typ_')
    BY <1>5, <2>1, VarTable DEF Formal, SameDepths, maps
  <2>4. Shaped
    BY <1>5, <2>2, <2>3, KeptStays DEF Formal
  <2> QED  BY <1>5, <2>1, <2>2, <2>3, <2>4 DEF Formal, flags
<1>6. ASSUME FunctionDec PROVE Types' /\ Shaped
  <2> DEFINE d == Head(Top.todo)
  <2>1. walk' \in Seq(Frame) /\ Pushed("fundec", "formals") /\ d \in Dec
    BY <1>6, VisitWalk DEF FunctionDec, Kind, Part, Chunks
  <2>2. d.name \in Names /\ d.node \in Node
    BY <2>1 DEF Dec, Names
  <2> DEFINE m == [scoped_map_fun_ EXCEPT ![Len(scoped_map_fun_)] = Fun!With(@, d.name, d.node)]
  <2>3. IsTable(m) /\ Len(m) = Len(scoped_map_fun_)
    BY <2>2, PutTable
  <2>4. scoped_map_fun_' = Append(m, [k \in {} |-> Unbound])
    BY <1>6 DEF FunctionDec
  <2> HIDE DEF m
  <2>5. IsTable(scoped_map_fun_') /\ Len(scoped_map_fun_') = Len(scoped_map_fun_) + 1
    BY <2>3, <2>4, OpenTable
  <2>6. IsTable(scoped_map_var_') /\ Len(scoped_map_var_') = Len(scoped_map_var_) + 1
    BY <1>6, VarTable DEF FunctionDec
  <2>7. Shaped
    BY <1>0, <1>6, <2>1, <2>5, <2>6, PushedPushes DEF FunctionDec, Kind, One, FunKinds, VarKinds, TypKinds, LoopKinds
  <2>8. is_main_defined_' \in BOOLEAN /\ error_' \in BOOLEAN
    BY <1>6 DEF FunctionDec
  <2> QED  BY <1>6, <2>1, <2>5, <2>6, <2>7, <2>8 DEF FunctionDec
<1>7. ASSUME TypeDec PROVE Types' /\ Shaped
  <2> DEFINE d == Head(Top.todo)
  <2>1. walk' \in Seq(Frame) /\ Pushed("typedec", "body") /\ d \in Dec
    BY <1>7, VisitWalk DEF TypeDec, Kind, Part, Chunks
  <2>2. d.name \in Names /\ d.node \in Node
    BY <2>1 DEF Dec, Names
  <2>3. IsTable(scoped_map_typ_') /\ Len(scoped_map_typ_') = Len(scoped_map_typ_)
    BY <1>7, <2>2, TypTable DEF TypeDec
  <2>4. Shaped
    BY <1>0, <1>7, <2>1, <2>3, PushedPushes DEF TypeDec, Kind, One, FunKinds, VarKinds, TypKinds, LoopKinds
  <2> QED  BY <1>7, <2>1, <2>3, <2>4 DEF TypeDec, flags
<1>8. ASSUME EndOfFormals PROVE Types' /\ Shaped
  <2>1. walk' \in Seq(Frame) /\ Turned("body")
    BY <1>8, GoToWalk DEF EndOfFormals, In, Part
  <2>2. Shaped
    BY <1>8, <2>1, TurnedStays DEF EndOfFormals, maps, SameDepths
  <2> QED  BY <1>8, <2>1, <2>2 DEF EndOfFormals, maps
<1>9. ASSUME LeaveFunctionDec PROVE Types' /\ Shaped
  <2>1. walk' \in Seq(Frame) /\ Popped
    BY <1>9, ReturnWalk DEF LeaveFunctionDec, In
  <2>2. /\ IsTable(scoped_map_fun_') /\ IsTable(scoped_map_var_') /\ IsTable(scoped_map_typ_')
    BY <1>9, FunTable, VarTable DEF LeaveFunctionDec
  <2>3. Shaped
    <3>1. ClosedIf(FunKinds, scoped_map_fun_, scoped_map_fun_')
      BY <1>9, FunTable DEF LeaveFunctionDec, In, ClosedIf, FunKinds
    <3>2. ClosedIf(VarKinds, scoped_map_var_, scoped_map_var_')
      BY <1>9, VarTable DEF LeaveFunctionDec, In, ClosedIf, VarKinds
    <3>3. ClosedIf(TypKinds, scoped_map_typ_, scoped_map_typ_')
      BY <1>9 DEF LeaveFunctionDec, In, ClosedIf, TypKinds
    <3>4. loop_stack_' = IF Top.kind \in LoopKinds
                         THEN SubSeq(loop_stack_, 1, Len(loop_stack_) - 1)
                         ELSE loop_stack_
      BY <1>9 DEF LeaveFunctionDec, In, LoopKinds
    <3> QED  BY <2>1, <3>1, <3>2, <3>3, <3>4, PoppedPops
  <2> QED  BY <1>9, <2>1, <2>2, <2>3 DEF LeaveFunctionDec, flags
<1>10. ASSUME LeaveDec PROVE Types' /\ Shaped
  <2>1. walk' \in Seq(Frame) /\ Popped
    BY <1>10, ReturnWalk DEF LeaveDec, In
  <2>2. /\ IsTable(scoped_map_fun_') /\ IsTable(scoped_map_var_') /\ IsTable(scoped_map_typ_')
    BY <1>10 DEF LeaveDec, maps
  <2>3. Shaped
    <3>1. ClosedIf(FunKinds, scoped_map_fun_, scoped_map_fun_')
      BY <1>10 DEF LeaveDec, maps, In, ClosedIf, FunKinds
    <3>2. ClosedIf(VarKinds, scoped_map_var_, scoped_map_var_')
      BY <1>10 DEF LeaveDec, maps, In, ClosedIf, VarKinds
    <3>3. ClosedIf(TypKinds, scoped_map_typ_, scoped_map_typ_')
      BY <1>10 DEF LeaveDec, maps, In, ClosedIf, TypKinds
    <3>4. loop_stack_' = IF Top.kind \in LoopKinds
                         THEN SubSeq(loop_stack_, 1, Len(loop_stack_) - 1)
                         ELSE loop_stack_
      BY <1>10 DEF LeaveDec, In, LoopKinds
    <3> QED  BY <2>1, <3>1, <3>2, <3>3, <3>4, PoppedPops
  <2> QED  BY <1>10, <2>1, <2>2, <2>3 DEF LeaveDec, flags
<1>11. ASSUME NEW n \in VarName, VarDec(n) PROVE Types' /\ Shaped
  <2>1. /\ n \in Names /\ decs + 1 \in Node
        /\ decs' \in 0..MaxDecs /\ named'.node \in Node
    BY <1>11, BinderAssumption DEF VarDec, Declares, Names, Node
  <2>2. walk' \in Seq(Frame) /\ Pushed("vardec", "body")
    BY <1>11, EnterWalk DEF VarDec, Kind, Part
  <2>3. IsTable(scoped_map_var_') /\ Len(scoped_map_var_') = Len(scoped_map_var_)
    BY <1>11, <2>1, VarTable DEF VarDec
  <2>4. Shaped
    BY <1>0, <1>11, <2>2, <2>3, PushedPushes DEF VarDec, Kind, One, FunKinds, VarKinds, TypKinds, LoopKinds
  <2> QED  BY <1>11, <2>1, <2>2, <2>3, <2>4 DEF VarDec
<1>12. ASSUME LeaveVarDec PROVE Types' /\ Shaped
  <2>1. walk' \in Seq(Frame) /\ Popped
    BY <1>12, LeaveVarWalk DEF LeaveVarDec, In
  <2>2. /\ IsTable(scoped_map_fun_') /\ IsTable(scoped_map_var_') /\ IsTable(scoped_map_typ_')
    BY <1>12 DEF LeaveVarDec, maps
  <2>3. Shaped
    <3>1. ClosedIf(FunKinds, scoped_map_fun_, scoped_map_fun_')
      BY <1>12 DEF LeaveVarDec, maps, In, ClosedIf, FunKinds
    <3>2. ClosedIf(VarKinds, scoped_map_var_, scoped_map_var_')
      BY <1>12 DEF LeaveVarDec, maps, In, ClosedIf, VarKinds
    <3>3. ClosedIf(TypKinds, scoped_map_typ_, scoped_map_typ_')
      BY <1>12 DEF LeaveVarDec, maps, In, ClosedIf, TypKinds
    <3>4. loop_stack_' = IF Top.kind \in LoopKinds
                         THEN SubSeq(loop_stack_, 1, Len(loop_stack_) - 1)
                         ELSE loop_stack_
      BY <1>12 DEF LeaveVarDec, In, LoopKinds
    <3> QED  BY <2>1, <3>1, <3>2, <3>3, <3>4, PoppedPops
  <2> QED  BY <1>12, <2>1, <2>2, <2>3 DEF LeaveVarDec
<1>13. ASSUME LetExp PROVE Types' /\ Shaped
  <2>1. walk' \in Seq(Frame) /\ Pushed("let", "decs")
    BY <1>13, EnterWalk DEF LetExp, Kind, Part
  <2>2. /\ IsTable(scoped_map_fun_') /\ Len(scoped_map_fun_') = Len(scoped_map_fun_) + 1
        /\ IsTable(scoped_map_var_') /\ Len(scoped_map_var_') = Len(scoped_map_var_) + 1
        /\ IsTable(scoped_map_typ_') /\ Len(scoped_map_typ_') = Len(scoped_map_typ_) + 1
    BY <1>13, FunTable, VarTable, TypTable DEF LetExp
  <2>3. Shaped
    BY <1>13, <2>1, <2>2, PushedPushes DEF LetExp, Kind, One, FunKinds, VarKinds, TypKinds, LoopKinds
  <2> QED  BY <1>13, <2>1, <2>2, <2>3 DEF LetExp, flags
<1>14. ASSUME EndOfDecs PROVE Types' /\ Shaped
  <2>1. walk' \in Seq(Frame) /\ Turned("body")
    BY <1>14, GoToWalk DEF EndOfDecs, In, Part
  <2>2. Shaped
    BY <1>14, <2>1, TurnedStays DEF EndOfDecs, maps, SameDepths
  <2> QED  BY <1>14, <2>1, <2>2 DEF EndOfDecs, maps, flags
<1>15. ASSUME LeaveLet PROVE Types' /\ Shaped
  <2>1. walk' \in Seq(Frame) /\ Popped
    BY <1>15, ReturnWalk DEF LeaveLet, In
  <2>2. /\ IsTable(scoped_map_fun_') /\ IsTable(scoped_map_var_') /\ IsTable(scoped_map_typ_')
    BY <1>15, FunTable, VarTable, TypTable DEF LeaveLet
  <2>3. Shaped
    <3>1. ClosedIf(FunKinds, scoped_map_fun_, scoped_map_fun_')
      BY <1>15, FunTable DEF LeaveLet, In, ClosedIf, FunKinds
    <3>2. ClosedIf(VarKinds, scoped_map_var_, scoped_map_var_')
      BY <1>15, VarTable DEF LeaveLet, In, ClosedIf, VarKinds
    <3>3. ClosedIf(TypKinds, scoped_map_typ_, scoped_map_typ_')
      BY <1>15, TypTable DEF LeaveLet, In, ClosedIf, TypKinds
    <3>4. loop_stack_' = IF Top.kind \in LoopKinds
                         THEN SubSeq(loop_stack_, 1, Len(loop_stack_) - 1)
                         ELSE loop_stack_
      BY <1>15 DEF LeaveLet, In, LoopKinds
    <3> QED  BY <2>1, <3>1, <3>2, <3>3, <3>4, PoppedPops
  <2> QED  BY <1>15, <2>1, <2>2, <2>3 DEF LeaveLet, flags
<1>16. ASSUME NEW kind \in LoopKinds, NEW part \in Part, EnterLoop(kind, part)
      PROVE  Types' /\ Shaped
  <2>0. kind \in Kind
    BY DEF LoopKinds, Kind
  <2>1. walk' \in Seq(Frame) /\ Pushed(kind, part) /\ Len(walk) < MaxDepth
    BY <1>16, <2>0, EnterWalk DEF EnterLoop
  <2>2. IsTable(scoped_map_var_') /\ Len(scoped_map_var_') = Len(scoped_map_var_) + 1
    BY <1>16, VarTable DEF EnterLoop
  <2>3. Shaped
    BY <1>0, <1>16, <2>0, <2>1, <2>2, PushedPushes DEF EnterLoop, One, FunKinds, VarKinds, TypKinds, LoopKinds
  <2>4. loop_stack_' \in Seq(Loop)
    <3>1. Len(walk) + 1 \in Loop /\ loop_stack_' = Append(loop_stack_, Len(walk) + 1)
      BY <1>16, <2>1, BinderAssumption DEF EnterLoop, Loop
    <3> QED  BY <3>1
  <2> QED  BY <1>16, <2>1, <2>2, <2>3, <2>4 DEF EnterLoop
<1>17. ASSUME LoopBody PROVE Types' /\ Shaped
  <2>1. walk' \in Seq(Frame) /\ Turned("body")
    BY <1>17, GoToWalk DEF LoopBody, In, Part
  <2>2. Shaped
    BY <1>17, <2>1, TurnedStays DEF LoopBody, maps, SameDepths
  <2> QED  BY <1>17, <2>1, <2>2 DEF LoopBody, maps
<1>18. ASSUME LeaveLoop PROVE Types' /\ Shaped
  <2>1. walk' \in Seq(Frame) /\ Popped
    BY <1>18, ReturnWalk DEF LeaveLoop, In
  <2>2. /\ IsTable(scoped_map_fun_') /\ IsTable(scoped_map_var_') /\ IsTable(scoped_map_typ_')
    BY <1>18, VarTable DEF LeaveLoop
  <2>3. Shaped
    <3>1. ClosedIf(FunKinds, scoped_map_fun_, scoped_map_fun_')
      BY <1>18 DEF LeaveLoop, In, ClosedIf, FunKinds
    <3>2. ClosedIf(VarKinds, scoped_map_var_, scoped_map_var_')
      BY <1>18, VarTable DEF LeaveLoop, In, ClosedIf, VarKinds
    <3>3. ClosedIf(TypKinds, scoped_map_typ_, scoped_map_typ_')
      BY <1>18 DEF LeaveLoop, In, ClosedIf, TypKinds
    <3>4. loop_stack_' = IF Top.kind \in LoopKinds
                         THEN SubSeq(loop_stack_, 1, Len(loop_stack_) - 1)
                         ELSE loop_stack_
      BY <1>18 DEF LeaveLoop, In, LoopKinds
    <3> QED  BY <2>1, <3>1, <3>2, <3>3, <3>4, PoppedPops
  <2>4. loop_stack_' \in Seq(Loop)
    BY <1>18, ShorterLoops DEF LeaveLoop
  <2> QED  BY <1>18, <2>1, <2>2, <2>3, <2>4 DEF LeaveLoop, flags
<1>19. ASSUME NEW n \in FunName, CallExp(n) PROVE Types' /\ Shaped
  <2>1. walk' \in Seq(Frame) /\ Pushed("call", "body")
    BY <1>19, EnterWalk DEF CallExp, Kind, Part
  <2>2. Shaped
    BY <1>0, <1>19, <2>1, PushedPushes DEF CallExp, maps, Kind, One, FunKinds, VarKinds, TypKinds, LoopKinds
  <2>3. error_' \in BOOLEAN /\ (named' = Nothing \/ named'.node \in Node)
    BY <1>19, FoundType, BoundType DEF CallExp, Fun!get
  <2> QED  BY <1>19, <2>1, <2>2, <2>3 DEF CallExp, maps
<1>20. ASSUME LeaveCall PROVE Types' /\ Shaped
  <2>1. walk' \in Seq(Frame) /\ Popped
    BY <1>20, ReturnWalk DEF LeaveCall, In
  <2>2. /\ IsTable(scoped_map_fun_') /\ IsTable(scoped_map_var_') /\ IsTable(scoped_map_typ_')
    BY <1>20 DEF LeaveCall, maps
  <2>3. Shaped
    <3>1. ClosedIf(FunKinds, scoped_map_fun_, scoped_map_fun_')
      BY <1>20 DEF LeaveCall, maps, In, ClosedIf, FunKinds
    <3>2. ClosedIf(VarKinds, scoped_map_var_, scoped_map_var_')
      BY <1>20 DEF LeaveCall, maps, In, ClosedIf, VarKinds
    <3>3. ClosedIf(TypKinds, scoped_map_typ_, scoped_map_typ_')
      BY <1>20 DEF LeaveCall, maps, In, ClosedIf, TypKinds
    <3>4. loop_stack_' = IF Top.kind \in LoopKinds
                         THEN SubSeq(loop_stack_, 1, Len(loop_stack_) - 1)
                         ELSE loop_stack_
      BY <1>20 DEF LeaveCall, In, LoopKinds
    <3> QED  BY <2>1, <3>1, <3>2, <3>3, <3>4, PoppedPops
  <2> QED  BY <1>20, <2>1, <2>2, <2>3 DEF LeaveCall
<1>21. ASSUME NEW n \in VarName, SimpleVar(n) PROVE Types' /\ Shaped
  <2>1. error_' \in BOOLEAN /\ (named' = Nothing \/ named'.node \in Node)
    BY <1>21, FoundType, BoundType DEF SimpleVar, Var!get
  <2>2. Shaped
    BY <1>21, SameWalk, KeptStays DEF SimpleVar, maps, SameDepths
  <2> QED  BY <1>21, <2>1, <2>2 DEF SimpleVar, maps, flags
<1>22. ASSUME NEW n \in TypName, NameTy(n) PROVE Types' /\ Shaped
  <2>1. error_' \in BOOLEAN /\ (named' = Nothing \/ named'.node \in Node)
    BY <1>22, FoundType, BoundType DEF NameTy, Typ!get
  <2>2. Shaped
    BY <1>22, SameWalk, KeptStays DEF NameTy, maps, SameDepths
  <2> QED  BY <1>22, <2>1, <2>2 DEF NameTy, maps, flags
<1>23. ASSUME BreakExp PROVE Types' /\ Shaped
  <2>1. error_' \in BOOLEAN /\ (named' = Nothing \/ named'.node \in Loop)
    <3>1. CASE Refused
      BY <1>23, <3>1 DEF BreakExp
    <3>2. CASE ~Refused
      <4>1. loop_stack_[Len(loop_stack_)] \in Loop
        BY <3>2 DEF Refused
      <4> QED  BY <1>23, <3>2, <4>1 DEF BreakExp
    <3> QED  BY <3>1, <3>2
  <2>2. Shaped
    BY <1>23, SameWalk, KeptStays DEF BreakExp, maps, SameDepths
  <2> QED  BY <1>23, <2>1, <2>2 DEF BreakExp, maps, flags
<1>24. ASSUME Finish PROVE Types' /\ Shaped
  <2>1. Shaped
    BY <1>24, SameWalk, KeptStays DEF Finish, maps, SameDepths
  <2> QED  BY <1>24, <2>1 DEF Finish, maps, flags
<1> QED
  BY <1>1, <1>2, <1>3, <1>4, <1>5, <1>6, <1>7, <1>8, <1>9, <1>10, <1>11, <1>12, <1>13, <1>14, <1>15, <1>16, <1>17, <1>18, <1>19, <1>20, <1>21, <1>22, <1>23, <1>24
     DEF Next, ForExp, WhileExp, LoopKinds, Part

LEMMA InitTypes == Init => Types
<1>1. IsTable(<<[k \in {} |-> Unbound]>>)
  <2>1. [k \in {} |-> Unbound] \in Scope
    BY DEF Scope
  <2> QED  BY <2>1 DEF IsTable
<1>2. <<>> \in Seq(Loop) /\ <<>> \in Seq(Frame) /\ 0 \in 0..MaxDecs
  BY BinderAssumption
<1> QED  BY <1>1, <1>2 DEF Init, Fun!Init, Var!Init, Typ!Init, Types

LEMMA TypesGoOn == Types /\ [Next]_vars => Types'
<1>1. Types /\ UNCHANGED vars => Types'
  BY DEF Types, vars, maps, flags
<1> QED  BY <1>1, StepTypes

LEMMA AlwaysTypes == Spec => []Types
BY InitTypes, TypesGoOn, PTL DEF Spec

\* The state keeps its types, and the tables only hold declarations that were
\* visited or may be.
THEOREM TypeCorrect == Spec => []TypeOK
<1>1. Types => TypeOK
  <2> SUFFICES ASSUME Types PROVE TypeOK
    OBVIOUS
  <2>1. ASSUME NEW m, IsTable(m)
        PROVE  m # <<>> /\ \A i \in DOMAIN m : Range(m[i]) \subseteq Node
    <3>1. \A f \in Scope : Range(f) \subseteq Node
      BY DEF Scope, Range
    <3> QED  BY <2>1, <3>1 DEF IsTable
  <2>2. \A m \in {scoped_map_fun_, scoped_map_var_, scoped_map_typ_} : IsTable(m)
    BY DEF Types
  <2>3. {is_main_defined_, error_, done} \union {flags[i] : i \in 1..3} \subseteq BOOLEAN
    BY DEF Types, flags
  <2> QED  BY <2>1, <2>2, <2>3 DEF Types, TypeOK
<1> QED  BY <1>1, AlwaysTypes, PTL

-----------------------------------------------------------------------------
(* The tables are as deep as the constructs. *)

Count(w, n, kinds) == Cardinality({j \in 1..n : w[j].kind \in kinds})

LEMMA CountStep ==
  ASSUME NEW w, NEW v, NEW n \in Nat, NEW kinds,
         \A i \in 1..n : v[i].kind = w[i].kind
  PROVE  /\ Count(w, n, kinds) \in Nat
         /\ Count(v, n, kinds) = Count(w, n, kinds)
         /\ Count(v, n + 1, kinds) = Count(w, n, kinds) + One(v[n + 1].kind, kinds)
<1> DEFINE A == {j \in 1..n : w[j].kind \in kinds}
           B == {j \in 1..n : v[j].kind \in kinds}
           C == {j \in 1..(n + 1) : v[j].kind \in kinds}
<1>1. A = B
  OBVIOUS
<1>2. IsFiniteSet(A) /\ Cardinality(A) \in Nat
  <2>1. IsFiniteSet(1..n)
    BY FS_Interval
  <2>2. A \subseteq 1..n
    OBVIOUS
  <2> HIDE DEF A
  <2> QED  BY <2>1, <2>2, FS_Subset, FS_CardinalityType
<1>3. n + 1 \notin A
  OBVIOUS
<1>4. Cardinality(C) = Cardinality(A) + One(v[n + 1].kind, kinds)
  <2>1. CASE v[n + 1].kind \in kinds
    <3>1. C = A \union {n + 1}
      BY <2>1
    <3> HIDE DEF A, C
    <3>2. Cardinality(C) = Cardinality(A) + 1
      BY <1>2, <1>3, <3>1, FS_AddElement
    <3> QED  BY <2>1, <3>2 DEF One
  <2>2. CASE v[n + 1].kind \notin kinds
    <3>1. C = A
      BY <2>2
    <3> HIDE DEF A, C
    <3> QED  BY <1>2, <2>2, <3>1 DEF One
  <2> QED  BY <2>1, <2>2
<1> QED  BY <1>1, <1>2, <1>4 DEF Count

\* The depths, without the detour by the position after the last.
LEMMA ScopesAreCounted ==
  ASSUME walk \in Seq(Frame)
  PROVE  ScopesMatchConstructs <=>
           /\ Len(scoped_map_fun_) = 1 + Count(walk, Len(walk), FunKinds)
           /\ Len(scoped_map_var_) = 1 + Count(walk, Len(walk), VarKinds)
           /\ Len(scoped_map_typ_) = 1 + Count(walk, Len(walk), TypKinds)
<1>1. (Len(walk) + 1) - 1 = Len(walk)
  OBVIOUS
<1> QED
  BY <1>1 DEF ScopesMatchConstructs, OpenFun, OpenVar, OpenTyp, Around, Count,
              FunKinds, VarKinds, TypKinds

\* The depth of a table, d then e, that constructs of some kinds open and
\* close, when the constructs being visited are w then v.
Follows(w, v, kinds, d, e) ==
  \/ /\ Len(v) = Len(w) /\ e = d
     /\ \A i \in 1..Len(w) : v[i].kind = w[i].kind
  \/ /\ Len(v) = Len(w) + 1 /\ e = d + One(v[Len(w) + 1].kind, kinds)
     /\ \A i \in 1..Len(w) : v[i].kind = w[i].kind
  \/ /\ w # <<>> /\ Len(v) = Len(w) - 1
     /\ IF w[Len(w)].kind \in kinds THEN IF d = 1 THEN e = d ELSE e = d - 1 ELSE e = d
     /\ \A i \in 1..(Len(w) - 1) : v[i].kind = w[i].kind

LEMMA DepthFollows ==
  ASSUME NEW w \in Seq(Frame), NEW v \in Seq(Frame), NEW kinds,
         NEW d \in Nat, NEW e \in Nat, d = 1 + Count(w, Len(w), kinds),
         Follows(w, v, kinds, d, e)
  PROVE  e = 1 + Count(v, Len(v), kinds)
<1>1. Len(w) \in Nat /\ Len(v) \in Nat
  OBVIOUS
<1>2. CASE /\ Len(v) = Len(w) /\ e = d
           /\ \A i \in 1..Len(w) : v[i].kind = w[i].kind
  <2>1. \A i \in 1..Len(w) : v[i].kind = w[i].kind
    BY <1>2
  <2>2. Count(v, Len(w), kinds) = Count(w, Len(w), kinds)
    BY <1>1, <2>1, CountStep
  <2> QED  BY <1>2, <2>2
<1>3. CASE /\ Len(v) = Len(w) + 1 /\ e = d + One(v[Len(w) + 1].kind, kinds)
           /\ \A i \in 1..Len(w) : v[i].kind = w[i].kind
  <2>1. \A i \in 1..Len(w) : v[i].kind = w[i].kind
    BY <1>3
  <2>2. /\ Count(w, Len(w), kinds) \in Nat
        /\ Count(v, Len(w) + 1, kinds)
             = Count(w, Len(w), kinds) + One(v[Len(w) + 1].kind, kinds)
    BY <1>1, <2>1, CountStep
  <2>3. One(v[Len(w) + 1].kind, kinds) \in Nat
    BY DEF One
  <2> QED  BY <1>3, <2>2, <2>3
<1>4. CASE /\ w # <<>> /\ Len(v) = Len(w) - 1
           /\ IF w[Len(w)].kind \in kinds THEN IF d = 1 THEN e = d ELSE e = d - 1 ELSE e = d
           /\ \A i \in 1..(Len(w) - 1) : v[i].kind = w[i].kind
  <2>1. Len(v) + 1 = Len(w)
    BY <1>1, <1>4
  <2>2. \A i \in 1..Len(v) : w[i].kind = v[i].kind
    BY <1>4
  <2>3. /\ Count(v, Len(v), kinds) \in Nat
        /\ Count(w, Len(v) + 1, kinds)
             = Count(v, Len(v), kinds) + One(w[Len(v) + 1].kind, kinds)
    BY <1>1, <2>2, CountStep
  <2>4. d = 1 + (Count(v, Len(v), kinds) + One(w[Len(w)].kind, kinds))
    BY <2>1, <2>3
  <2>5. CASE w[Len(w)].kind \in kinds
    BY <1>4, <2>3, <2>4, <2>5 DEF One
  <2>6. CASE w[Len(w)].kind \notin kinds
    BY <1>4, <2>3, <2>4, <2>6 DEF One
  <2> QED  BY <2>5, <2>6
<1> QED  BY <1>2, <1>3, <1>4 DEF Follows

LEMMA StepScopes ==
  ASSUME Types, ScopesMatchConstructs, [Next]_vars
  PROVE  ScopesMatchConstructs'
<1>1. CASE UNCHANGED vars
  BY <1>1 DEF vars, maps, ScopesMatchConstructs, OpenFun, OpenVar, OpenTyp, Around
<1>2. CASE Next
  <2>1. Types' /\ Shaped /\ walk \in Seq(Frame) /\ walk' \in Seq(Frame)
    BY <1>2, StepTypes DEF Types
  <2>2. /\ Len(scoped_map_fun_) \in Nat /\ Len(scoped_map_fun_') \in Nat
        /\ Len(scoped_map_var_) \in Nat /\ Len(scoped_map_var_') \in Nat
        /\ Len(scoped_map_typ_) \in Nat /\ Len(scoped_map_typ_') \in Nat
    BY <2>1 DEF Types, IsTable
  <2>3. /\ Len(scoped_map_fun_) = 1 + Count(walk, Len(walk), FunKinds)
        /\ Len(scoped_map_var_) = 1 + Count(walk, Len(walk), VarKinds)
        /\ Len(scoped_map_typ_) = 1 + Count(walk, Len(walk), TypKinds)
    BY <2>1, ScopesAreCounted
  <2>4. /\ Follows(walk, walk', FunKinds, Len(scoped_map_fun_), Len(scoped_map_fun_'))
        /\ Follows(walk, walk', VarKinds, Len(scoped_map_var_), Len(scoped_map_var_'))
        /\ Follows(walk, walk', TypKinds, Len(scoped_map_typ_), Len(scoped_map_typ_'))
    <3>1. CASE Stays
      BY <3>1, Zenon DEF Stays, SameDepths, Follows
    <3>2. ASSUME NEW kind \in Kind, Pushes(kind) PROVE <2>4!:
      BY <3>2, Zenon DEF Pushes, Follows
    <3>3. CASE Pops
      BY <3>3 DEF Pops, ClosedIf, Closed, Follows, Top
    <3> QED  BY <2>1, <3>1, <3>2, <3>3 DEF Shaped
  <2>5. Len(scoped_map_fun_') = 1 + Count(walk', Len(walk'), FunKinds)
    BY <2>1, <2>2, <2>3, <2>4, DepthFollows
  <2>6. Len(scoped_map_var_') = 1 + Count(walk', Len(walk'), VarKinds)
    BY <2>1, <2>2, <2>3, <2>4, DepthFollows
  <2>7. Len(scoped_map_typ_') = 1 + Count(walk', Len(walk'), TypKinds)
    BY <2>1, <2>2, <2>3, <2>4, DepthFollows
  <2>8. (Len(walk') + 1) - 1 = Len(walk')
    BY <2>1
  <2> QED
    BY <2>5, <2>6, <2>7, <2>8
       DEF ScopesMatchConstructs, OpenFun, OpenVar, OpenTyp, Around, Count,
           FunKinds, VarKinds, TypKinds
<1> QED  BY <1>1, <1>2

\* Whatever the program, each table is as deep as the constructs being
\* visited that open it.
THEOREM ScopesFollow == Spec => []ScopesMatchConstructs
<1>1. Init => ScopesMatchConstructs
  <2> SUFFICES ASSUME Init PROVE ScopesMatchConstructs
    OBVIOUS
  <2>1. Count(walk, Len(walk), FunKinds) = 0 /\ Count(walk, Len(walk), VarKinds) = 0
        /\ Count(walk, Len(walk), TypKinds) = 0
    <3>1. walk = <<>> /\ 1..0 = {}
      BY DEF Init
    <3> QED  BY <3>1, FS_EmptySet DEF Count
  <2> QED  BY <2>1, ScopesAreCounted, InitTypes
           DEF Init, Fun!Init, Var!Init, Typ!Init, Types
<1>2. Types /\ ScopesMatchConstructs /\ [Next]_vars => ScopesMatchConstructs'
  BY StepScopes
<1> QED  BY <1>1, <1>2, AlwaysTypes, PTL DEF Spec

-----------------------------------------------------------------------------
(* Breaks. *)

\* The loop stack holds the loops being visited, outermost first.
LoopsFollow ==
  /\ \A k \in DOMAIN loop_stack_ :
       loop_stack_[k] \in DOMAIN walk /\ walk[loop_stack_[k]].kind \in LoopKinds
  /\ \A j, k \in DOMAIN loop_stack_ : j < k => loop_stack_[j] < loop_stack_[k]
  /\ \A i \in DOMAIN walk :
       walk[i].kind \in LoopKinds => \E k \in DOMAIN loop_stack_ : loop_stack_[k] = i

LEMMA LoopsStay ==
  ASSUME Types, Types', LoopsFollow, Stays
  PROVE  LoopsFollow'
<1>1. DOMAIN walk' = DOMAIN walk /\ \A i \in DOMAIN walk : walk'[i].kind = walk[i].kind
  BY DEF Stays, Types
<1>2. loop_stack_' = loop_stack_
  BY DEF Stays
<1> QED  BY <1>1, <1>2 DEF LoopsFollow

LEMMA LoopsPushed ==
  ASSUME Types, Types', LoopsFollow, NEW kind, Pushes(kind)
  PROVE  LoopsFollow'
<1> DEFINE n == Len(walk)
           top == Len(loop_stack_)
<1>1. /\ n \in Nat /\ DOMAIN walk = 1..n /\ DOMAIN walk' = 1..(n + 1)
      /\ walk'[n + 1].kind = kind
      /\ \A i \in 1..n : walk'[i].kind = walk[i].kind
  BY DEF Pushes, Types
<1>2. CASE kind \notin LoopKinds
  <2>1. loop_stack_' = loop_stack_
    BY <1>2 DEF Pushes
  <2> HIDE DEF n
  <2>2. \A i \in DOMAIN walk' : walk'[i].kind \in LoopKinds => i \in 1..n
    BY <1>1, <1>2
  <2> QED  BY <1>1, <2>1, <2>2 DEF LoopsFollow
<1>3. CASE kind \in LoopKinds
  <2>1. loop_stack_' = Append(loop_stack_, n + 1)
    BY <1>3 DEF Pushes
  <2>2. /\ top \in Nat /\ DOMAIN loop_stack_ = 1..top /\ DOMAIN loop_stack_' = 1..(top + 1)
        /\ loop_stack_'[top + 1] = n + 1
        /\ \A k \in 1..top : loop_stack_'[k] = loop_stack_[k]
    BY <1>1, <2>1 DEF Types
  <2> HIDE DEF n, top
  <2>3. \A k \in 1..top : loop_stack_[k] \in 1..n
    BY <1>1, <2>2 DEF LoopsFollow
  <2>4. \A k \in DOMAIN loop_stack_' :
          loop_stack_'[k] \in DOMAIN walk' /\ walk'[loop_stack_'[k]].kind \in LoopKinds
    <3> SUFFICES ASSUME NEW k \in 1..(top + 1)
                 PROVE  loop_stack_'[k] \in 1..(n + 1)
                        /\ walk'[loop_stack_'[k]].kind \in LoopKinds
      BY <1>1, <2>2
    <3>1. CASE k = top + 1
      BY <1>1, <1>3, <2>2, <3>1
    <3>2. CASE k \in 1..top
      <4>1. loop_stack_[k] \in 1..n /\ walk[loop_stack_[k]].kind \in LoopKinds
        BY <2>2, <2>3, <3>2 DEF LoopsFollow
      <4>2. loop_stack_'[k] = loop_stack_[k]
        BY <2>2, <3>2
      <4>3. walk'[loop_stack_[k]].kind \in LoopKinds
        BY <1>1, <4>1
      <4> QED  BY <1>1, <4>1, <4>2, <4>3
    <3> QED  BY <2>2, <3>1, <3>2
  <2>5. \A j, k \in DOMAIN loop_stack_' : j < k => loop_stack_'[j] < loop_stack_'[k]
    <3> SUFFICES ASSUME NEW j \in 1..(top + 1), NEW k \in 1..(top + 1), j < k
                 PROVE  loop_stack_'[j] < loop_stack_'[k]
      BY <2>2
    <3>1. j \in 1..top
      BY <2>2
    <3>2. CASE k = top + 1
      BY <1>1, <2>2, <2>3, <3>1, <3>2
    <3>3. CASE k \in 1..top
      BY <2>2, <3>1, <3>3 DEF LoopsFollow
    <3> QED  BY <2>2, <3>2, <3>3
  <2>6. ASSUME NEW i \in DOMAIN walk', walk'[i].kind \in LoopKinds
        PROVE  \E k \in DOMAIN loop_stack_' : loop_stack_'[k] = i
    <3>1. CASE i = n + 1
      BY <2>2, <3>1
    <3>2. CASE i \in 1..n
      <4>1. PICK k \in DOMAIN loop_stack_ : loop_stack_[k] = i
        BY <1>1, <2>6, <3>2 DEF LoopsFollow
      <4> QED  BY <2>2, <4>1
    <3> QED  BY <1>1, <3>1, <3>2
  <2> QED  BY <2>4, <2>5, <2>6 DEF LoopsFollow
<1> QED  BY <1>2, <1>3

LEMMA LoopsPopped ==
  ASSUME Types, Types', LoopsFollow, Pops
  PROVE  LoopsFollow'
<1> DEFINE n == Len(walk)
           top == Len(loop_stack_)
<1>1. /\ n \in Nat \ {0} /\ DOMAIN walk = 1..n /\ DOMAIN walk' = 1..(n - 1)
      /\ \A i \in 1..(n - 1) : walk'[i].kind = walk[i].kind
  BY DEF Pops, Types
<1>2. CASE Top.kind \notin LoopKinds
  <2>1. loop_stack_' = loop_stack_ /\ walk[n].kind \notin LoopKinds
    BY <1>2 DEF Pops, Top
  <2> HIDE DEF n
  <2>2. \A k \in DOMAIN loop_stack_ : loop_stack_[k] \in 1..(n - 1)
    BY <1>1, <2>1 DEF LoopsFollow
  <2> QED  BY <1>1, <2>1, <2>2 DEF LoopsFollow
<1>3. CASE Top.kind \in LoopKinds
  <2>0. loop_stack_' = SubSeq(loop_stack_, 1, top - 1) /\ walk[n].kind \in LoopKinds
    BY <1>3 DEF Pops, Top
  <2>1. top \in Nat /\ DOMAIN loop_stack_ = 1..top /\ loop_stack_ \in Seq(Loop)
    BY DEF Types
  <2> HIDE DEF n
  <2>2. PICK last \in 1..top : loop_stack_[last] = n
    BY <1>1, <2>0, <2>1 DEF LoopsFollow
  <2>3. \A k \in 1..top : loop_stack_[k] \in 1..n
    BY <1>1, <2>1 DEF LoopsFollow
  <2>4. last = top
    <3> HIDE DEF top
    <3>1. ASSUME last < top PROVE FALSE
      <4>1. top \in 1..top /\ loop_stack_[top] \in 1..n
        BY <2>1, <2>2, <2>3
      <4>2. loop_stack_[last] < loop_stack_[top]
        BY <2>1, <2>2, <3>1, <4>1 DEF LoopsFollow
      <4> QED  BY <1>1, <2>2, <4>1, <4>2
    <3> QED  BY <2>1, <2>2, <3>1
  <2>5. /\ top # 0 /\ DOMAIN loop_stack_' = 1..(top - 1)
        /\ \A k \in 1..(top - 1) : loop_stack_'[k] = loop_stack_[k]
    <3>1. top # 0 /\ top - 1 \in Nat /\ top - 1 \in Int /\ 1 \in Int
      BY <2>1, <2>2
    <3>2. \A k \in 1..(top - 1) : loop_stack_[k] \in Loop
      BY <2>1
    <3> DEFINE m == top - 1
    <3> HIDE DEF m
    <3>3. /\ SubSeq(loop_stack_, 1, m) \in Seq(Loop)
          /\ Len(SubSeq(loop_stack_, 1, m)) = IF 1 <= m THEN m - 1 + 1 ELSE 0
          /\ \A i \in 1..m - 1 + 1 : SubSeq(loop_stack_, 1, m)[i] = loop_stack_[1 + i - 1]
      BY <3>1, <3>2, SubSeqProperties DEF m
    <3>4. m \in Nat /\ loop_stack_' = SubSeq(loop_stack_, 1, m)
      BY <2>0, <3>1 DEF m
    <3>5. DOMAIN loop_stack_' = 1..m /\ \A k \in 1..m : loop_stack_'[k] = loop_stack_[k]
      BY <3>3, <3>4
    <3> QED  BY <3>1, <3>5 DEF m
  <2> HIDE DEF top
  <2>6. ASSUME NEW k \in 1..(top - 1)
        PROVE  loop_stack_[k] \in 1..(n - 1)
    <3>1. k \in 1..top /\ top \in 1..top /\ k < top /\ loop_stack_[top] = n
      BY <2>1, <2>2, <2>4
    <3>2. loop_stack_[k] < loop_stack_[top]
      BY <2>1, <3>1 DEF LoopsFollow
    <3>3. loop_stack_[k] \in 1..n
      BY <2>3, <3>1
    <3> QED  BY <1>1, <3>1, <3>2, <3>3
  <2>7. ASSUME NEW i \in 1..(n - 1), walk[i].kind \in LoopKinds
        PROVE  \E k \in 1..(top - 1) : loop_stack_[k] = i
    <3>1. PICK k \in 1..top : loop_stack_[k] = i
      BY <1>1, <2>1, <2>7 DEF LoopsFollow
    <3>2. k # top
      BY <1>1, <2>2, <2>4, <3>1
    <3> QED  BY <2>1, <3>1, <3>2
  <2>8. ASSUME NEW k \in DOMAIN loop_stack_'
        PROVE  loop_stack_'[k] \in DOMAIN walk' /\ walk'[loop_stack_'[k]].kind \in LoopKinds
    <3>1. k \in 1..(top - 1) /\ k \in 1..top /\ loop_stack_'[k] = loop_stack_[k]
      BY <2>1, <2>5
    <3>2. walk[loop_stack_[k]].kind \in LoopKinds
      BY <2>1, <3>1 DEF LoopsFollow
    <3>3. loop_stack_[k] \in 1..(n - 1)
      BY <2>6, <3>1
    <3>4. walk'[loop_stack_[k]].kind = walk[loop_stack_[k]].kind
      BY <1>1, <3>3
    <3> QED  BY <1>1, <3>1, <3>2, <3>3, <3>4
  <2>9. \A j, k \in DOMAIN loop_stack_' : j < k => loop_stack_'[j] < loop_stack_'[k]
    BY <2>1, <2>5 DEF LoopsFollow
  <2>10. \A i \in DOMAIN walk' : walk'[i].kind \in LoopKinds =>
           \E k \in DOMAIN loop_stack_' : loop_stack_'[k] = i
    BY <1>1, <2>5, <2>7
  <2> QED  BY <2>8, <2>9, <2>10 DEF LoopsFollow
<1> QED  BY <1>2, <1>3

LEMMA StepLoops ==
  ASSUME Types, LoopsFollow, [Next]_vars
  PROVE  LoopsFollow'
<1>1. CASE UNCHANGED vars
  BY <1>1 DEF vars, LoopsFollow
<1>2. CASE Next
  BY <1>2, StepTypes, LoopsStay, LoopsPushed, LoopsPopped DEF Shaped
<1> QED  BY <1>1, <1>2

\* A step binds a break only when it visits it, to the last loop pushed.
LEMMA BindsLoop ==
  ASSUME Types, Next, BoundLoop'
  PROVE  /\ loop_stack_ # <<>> /\ named'.node = loop_stack_[Len(loop_stack_)]
         /\ UNCHANGED <<walk, loop_stack_>>
<1>1. named' # Nothing /\ named'.space = "loop"
  BY DEF BoundLoop
<1>2. ASSUME NEW space \in {"fun", "var", "typ"}, NEW n, NEW d,
             Bind(space, n, d) \/ Declares(space, n)
      PROVE  FALSE
  <2>1. \A r : named' # [space |-> space, name |-> n, node |-> r]
    BY <1>1
  <2> QED  BY <1>1, <1>2, <2>1 DEF Bind, Declares
<1>3. ASSUME NEW n, FunctionHeader(n) \/ TypeHeader(n) \/ Formal(n) \/ VarDec(n)
      PROVE  FALSE
  BY <1>2, <1>3 DEF FunctionHeader, TypeHeader, Header, Formal, VarDec
<1>4. ASSUME NEW n, CallExp(n) \/ SimpleVar(n) \/ NameTy(n)
      PROVE  FALSE
  BY <1>1, <1>2, <1>4, Zenon DEF CallExp, SimpleVar, NameTy
<1>5. ~FunctionChunk /\ ~TypeChunk /\ ~FunctionDec /\ ~EndOfFormals /\ ~LeaveFunctionDec
      /\ ~TypeDec /\ ~LeaveDec /\ ~LeaveVarDec /\ ~LetExp /\ ~EndOfDecs /\ ~LeaveLet
  BY <1>1, Zenon DEF FunctionChunk, TypeChunk, FunctionDec, EndOfFormals, LeaveFunctionDec,
       TypeDec, LeaveDec, LeaveVarDec, LetExp, EndOfDecs, LeaveLet
<1>6. ~ForExp /\ ~WhileExp /\ ~LoopBody /\ ~LeaveLoop /\ ~LeaveCall /\ ~Finish
  BY <1>1, Zenon DEF ForExp, WhileExp, EnterLoop, LoopBody, LeaveLoop, LeaveCall, Finish
<1>7. BreakExp
  BY <1>3, <1>4, <1>5, <1>6, Zenon DEF Next
<1>8. ~Refused
  BY <1>1, <1>7 DEF BreakExp
<1>9. named'.node = loop_stack_[Len(loop_stack_)]
  <2>1. named' = [space |-> "loop", name |-> "break",
                  node |-> loop_stack_[Len(loop_stack_)]]
    BY <1>7, <1>8 DEF BreakExp
  <2> QED  BY <2>1
<1> QED  BY <1>7, <1>8, <1>9 DEF BreakExp, Refused

LEMMA LastLoop ==
  ASSUME Types, LoopsFollow, loop_stack_ # <<>>
  PROVE  LET last == loop_stack_[Len(loop_stack_)] IN
           /\ last \in DOMAIN walk /\ IsLoop(last)
           /\ \A i \in (last + 1)..Len(walk) : ~IsLoop(i)
<1> DEFINE top == Len(loop_stack_)
           last == loop_stack_[top]
<1>1. /\ top \in Nat \ {0} /\ DOMAIN loop_stack_ = 1..top
      /\ DOMAIN walk = 1..Len(walk) /\ Len(walk) \in Nat
  BY DEF Types
<1> HIDE DEF top
<1>2. last \in DOMAIN walk /\ walk[last].kind \in LoopKinds
  BY <1>1 DEF LoopsFollow
<1>3. ASSUME NEW i \in (last + 1)..Len(walk), walk[i].kind \in LoopKinds
      PROVE  FALSE
  <2>1. i \in DOMAIN walk /\ last \in Nat /\ i > last
    BY <1>1, <1>2
  <2>2. PICK k \in 1..top : loop_stack_[k] = i
    BY <1>1, <1>3, <2>1 DEF LoopsFollow
  <2>3. k # top
    BY <2>1, <2>2
  <2>4. k < top
    BY <1>1, <2>2, <2>3
  <2>5. loop_stack_[k] < last
    BY <1>1, <2>4 DEF LoopsFollow
  <2> QED  BY <2>1, <2>2, <2>5
<1> QED  BY <1>2, <1>3 DEF IsLoop, LoopKinds, top

\* Whatever the program, a break is bound to the innermost loop around it.
THEOREM BreaksAreBound == Spec => []BreaksInnermostLoop
<1> DEFINE Inv == Types /\ LoopsFollow /\ BreaksInnermostLoop
<1>1. Init => Inv
  BY InitTypes DEF Init, LoopsFollow, BreaksInnermostLoop, BoundLoop
<1>2. Inv /\ [Next]_vars => Inv'
  <2> SUFFICES ASSUME Inv, [Next]_vars PROVE Inv'
    OBVIOUS
  <2>1. Types' /\ LoopsFollow'
    BY TypesGoOn, StepLoops
  <2>2. BreaksInnermostLoop'
    <3>1. CASE UNCHANGED vars
      BY <3>1 DEF vars, BreaksInnermostLoop, BoundLoop, IsLoop
    <3>2. CASE Next /\ BoundLoop'
      <4>1. /\ loop_stack_ # <<>> /\ named'.node = loop_stack_[Len(loop_stack_)]
            /\ UNCHANGED <<walk, loop_stack_>>
        BY <3>2, BindsLoop
      <4> QED  BY <4>1, LastLoop DEF BreaksInnermostLoop, IsLoop
    <3>3. CASE ~BoundLoop'
      BY <3>3 DEF BreaksInnermostLoop
    <3> QED  BY <3>1, <3>2, <3>3
  <2> QED  BY <2>1, <2>2
<1>3. Inv => BreaksInnermostLoop
  OBVIOUS
<1> QED  BY <1>1, <1>2, <1>3, PTL DEF Spec

-----------------------------------------------------------------------------
(* Flags. *)

Within(kind, parts) == \E i \in DOMAIN walk : walk[i].kind = kind /\ walk[i].part \in parts

InLoop == Within("for", {"vardec", "hi"}) \/ Within("while", {"test"})
InFormals == Within("call", {"body"}) \/ Within("fundec", {"formals"})
InVardec == Within("vardec", {"body"})

LEMMA FlagsAre ==
  FlagsAreJustified <=> /\ in_loop_ => InLoop
                        /\ in_formals_ => InFormals
                        /\ in_vardec_ => InVardec
BY DEF FlagsAreJustified, InLoop, InFormals, InVardec, Within

\* What surrounds the visit, but for the innermost construct, still does.
LEMMA StillWithin ==
  ASSUME walk \in Seq(Frame), NEW n \in Nat, Survive(n), NEW kind, kind \notin Chunks,
         NEW parts, kind = "for" => "hi" \in parts, Within(kind, parts),
         \/ n = Len(walk)
         \/ n = Len(walk) - 1 /\ ~(Top.kind = kind /\ Top.part \in parts)
  PROVE  Within(kind, parts)'
<1>1. PICK i \in DOMAIN walk : walk[i].kind = kind /\ walk[i].part \in parts
  BY DEF Within
<1>2. i \in 1..n
  BY <1>1 DEF Top
<1>3. i \in DOMAIN walk' /\ walk'[i].kind = kind /\ walk'[i].part \in parts
  BY <1>1, <1>2 DEF Survive
<1> QED  BY <1>3 DEF Within

\* A step that ends no construct, and only raises a flag where it may.
LEMMA FlagsOnEntry ==
  ASSUME walk \in Seq(Frame), FlagsAreJustified, Survive(Len(walk)),
         in_loop_' => in_loop_ \/ InLoop',
         in_formals_' => in_formals_ \/ InFormals',
         in_vardec_' => in_vardec_ \/ InVardec'
  PROVE  FlagsAreJustified'
<1>1. ASSUME NEW kind, NEW parts, kind \notin Chunks, kind = "for" => "hi" \in parts,
             Within(kind, parts)
      PROVE  Within(kind, parts)'
  BY <1>1, StillWithin
<1>2. "for" \notin Chunks /\ "while" \notin Chunks /\ "call" \notin Chunks
      /\ "fundec" \notin Chunks /\ "vardec" \notin Chunks
  BY DEF Chunks
<1>3. InLoop => InLoop'
  BY <1>1, <1>2 DEF InLoop
<1>4. InFormals => InFormals'
  BY <1>1, <1>2 DEF InFormals
<1>5. InVardec => InVardec'
  BY <1>1, <1>2 DEF InVardec
<1> QED
  BY <1>3, <1>4, <1>5, FlagsAre DEF FlagsAreJustified, InLoop, InFormals, InVardec, Within

\* A step that ends the innermost construct, or this part of it, and lowers
\* the flag it had raised.
LEMMA FlagsOnExit ==
  ASSUME walk \in Seq(Frame), walk # <<>>, FlagsAreJustified, Survive(Len(walk) - 1),
         in_loop_' => /\ in_loop_
                      /\ ~(Top.kind = "for" /\ Top.part \in {"vardec", "hi"})
                      /\ ~(Top.kind = "while" /\ Top.part \in {"test"}),
         in_formals_' => /\ in_formals_
                         /\ ~(Top.kind = "call" /\ Top.part \in {"body"})
                         /\ ~(Top.kind = "fundec" /\ Top.part \in {"formals"}),
         in_vardec_' => in_vardec_ /\ ~(Top.kind = "vardec" /\ Top.part \in {"body"})
  PROVE  FlagsAreJustified'
<1> DEFINE n == Len(walk) - 1
<1>1. n \in Nat /\ n = Len(walk) - 1
  OBVIOUS
<1>2. ASSUME NEW kind, NEW parts, kind \notin Chunks, kind = "for" => "hi" \in parts,
             Within(kind, parts), ~(Top.kind = kind /\ Top.part \in parts)
      PROVE  Within(kind, parts)'
  <2> HIDE DEF n
  <2>1. Survive(n)
    BY DEF n
  <2> QED  BY <1>1, <1>2, <2>1, StillWithin
<1>3. "for" \notin Chunks /\ "while" \notin Chunks /\ "call" \notin Chunks
      /\ "fundec" \notin Chunks /\ "vardec" \notin Chunks
  BY DEF Chunks
<1>4. in_loop_' => InLoop'
  BY <1>2, <1>3, FlagsAre DEF InLoop
<1>5. in_formals_' => InFormals'
  BY <1>2, <1>3, FlagsAre DEF InFormals
<1>6. in_vardec_' => InVardec'
  BY <1>2, <1>3, FlagsAre DEF InVardec
<1> QED
  BY <1>4, <1>5, <1>6 DEF FlagsAreJustified, InLoop, InFormals, InVardec, Within

LEMMA StepFlags ==
  ASSUME Types, FlagsAreJustified, Next
  PROVE  FlagsAreJustified'
<1>0. walk \in Seq(Frame) /\ decs \in 0..MaxDecs
  BY DEF Types
<1>1. ASSUME FunctionChunk PROVE FlagsAreJustified'
  <2>1. Pushed("funchunk", "decs")
    BY <1>0, <1>1, EnterWalk DEF FunctionChunk, Kind, Part
  <2> QED  BY <1>0, <1>1, <2>1, FlagsOnEntry DEF FunctionChunk, Pushed, flags
<1>2. ASSUME TypeChunk PROVE FlagsAreJustified'
  <2>1. Pushed("typchunk", "decs")
    BY <1>0, <1>2, EnterWalk DEF TypeChunk, Kind, Part
  <2> QED  BY <1>0, <1>2, <2>1, FlagsOnEntry DEF TypeChunk, Pushed, flags
<1>3. ASSUME LetExp PROVE FlagsAreJustified'
  <2>1. Pushed("let", "decs")
    BY <1>0, <1>3, EnterWalk DEF LetExp, Kind, Part
  <2> QED  BY <1>0, <1>3, <2>1, FlagsOnEntry DEF LetExp, Pushed, flags
<1>4. ASSUME NEW n \in FunName, FunctionHeader(n) PROVE FlagsAreJustified'
  <2>1. /\ n \in Names /\ decs < MaxDecs /\ walk # <<>>
        /\ walk' = [walk EXCEPT ![Len(walk)].todo =
                      Append(@, [name |-> n, node |-> decs + 1])]
    BY <1>4 DEF FunctionHeader, Header, In, Declares, Names
  <2>2. Kept
    BY <1>0, <2>1, HeaderWalk
  <2> QED  BY <1>0, <1>4, <2>2, FlagsOnEntry DEF FunctionHeader, Header, Kept, flags
<1>5. ASSUME NEW n \in TypName, TypeHeader(n) PROVE FlagsAreJustified'
  <2>1. /\ n \in Names /\ decs < MaxDecs /\ walk # <<>>
        /\ walk' = [walk EXCEPT ![Len(walk)].todo =
                      Append(@, [name |-> n, node |-> decs + 1])]
    BY <1>5 DEF TypeHeader, Header, In, Declares, Names
  <2>2. Kept
    BY <1>0, <2>1, HeaderWalk
  <2> QED  BY <1>0, <1>5, <2>2, FlagsOnEntry DEF TypeHeader, Header, Kept, flags
<1>6. ASSUME NEW n \in VarName, Formal(n) PROVE FlagsAreJustified'
  <2>1. /\ n \in Names /\ decs < MaxDecs /\ walk # <<>>
        /\ walk' = [walk EXCEPT ![Len(walk)].todo =
                      Append(@, [name |-> n, node |-> decs + 1])]
    BY <1>6 DEF Formal, In, Declares, Names
  <2>2. Kept
    BY <1>0, <2>1, HeaderWalk
  <2> QED  BY <1>0, <1>6, <2>2, FlagsOnEntry DEF Formal, Kept, flags
<1>7. ASSUME FunctionDec PROVE FlagsAreJustified'
  <2>1. Pushed("fundec", "formals") /\ walk' \in Seq(Frame)
    BY <1>0, <1>7, VisitWalk DEF FunctionDec, Kind, Part, Chunks
  <2>2. InFormals'
    BY <2>1 DEF Pushed, InFormals, Within
  <2> QED  BY <1>0, <1>7, <2>1, <2>2, FlagsOnEntry DEF FunctionDec, Pushed, flags
<1>8. ASSUME TypeDec PROVE FlagsAreJustified'
  <2>1. Pushed("typedec", "body") /\ walk' \in Seq(Frame)
    BY <1>0, <1>8, VisitWalk DEF TypeDec, Kind, Part, Chunks
  <2> QED  BY <1>0, <1>8, <2>1, FlagsOnEntry DEF TypeDec, Pushed, flags
<1>9. ASSUME NEW n \in VarName, VarDec(n) PROVE FlagsAreJustified'
  <2>1. Pushed("vardec", "body") /\ walk' \in Seq(Frame)
    BY <1>0, <1>9, EnterWalk DEF VarDec, Kind, Part
  <2>2. InVardec'
    BY <2>1 DEF Pushed, InVardec, Within
  <2> QED  BY <1>0, <1>9, <2>1, <2>2, FlagsOnEntry DEF VarDec, Pushed
<1>10. ASSUME NEW n \in FunName, CallExp(n) PROVE FlagsAreJustified'
  <2>1. Pushed("call", "body") /\ walk' \in Seq(Frame)
    BY <1>0, <1>10, EnterWalk DEF CallExp, Kind, Part
  <2>2. InFormals'
    BY <2>1 DEF Pushed, InFormals, Within
  <2> QED  BY <1>0, <1>10, <2>1, <2>2, FlagsOnEntry DEF CallExp, Pushed
<1>11. ASSUME ForExp \/ WhileExp PROVE FlagsAreJustified'
  <2>1. /\ walk' \in Seq(Frame)
        /\ Pushed("for", "vardec") \/ Pushed("while", "test")
    BY <1>0, <1>11, EnterWalk DEF ForExp, WhileExp, EnterLoop, Kind, Part
  <2>2. InLoop'
    BY <2>1 DEF Pushed, InLoop, Within
  <2> QED  BY <1>0, <1>11, <2>1, <2>2, FlagsOnEntry DEF ForExp, WhileExp, EnterLoop, Pushed
<1>12. ASSUME EndOfFormals PROVE FlagsAreJustified'
  <2>1. walk # <<>> /\ Turned("body")
    BY <1>0, <1>12, GoToWalk DEF EndOfFormals, In, Part
  <2> QED  BY <1>0, <1>12, <2>1, FlagsOnExit DEF EndOfFormals, In, Turned, flags
<1>13. ASSUME EndOfDecs PROVE FlagsAreJustified'
  <2>1. walk # <<>> /\ Turned("body")
    BY <1>0, <1>13, GoToWalk DEF EndOfDecs, In, Part
  <2> QED  BY <1>0, <1>13, <2>1, FlagsOnExit DEF EndOfDecs, In, Turned, flags
<1>14. ASSUME LoopBody PROVE FlagsAreJustified'
  <2>1. walk # <<>> /\ Turned("body")
    BY <1>0, <1>14, GoToWalk DEF LoopBody, In, Part
  <2> QED  BY <1>0, <1>14, <2>1, FlagsOnExit DEF LoopBody, In, Turned, flags
<1>15. ASSUME LeaveFunctionDec PROVE FlagsAreJustified'
  <2>1. Popped
    BY <1>0, <1>15, ReturnWalk DEF LeaveFunctionDec, In
  <2> QED  BY <1>0, <1>15, <2>1, FlagsOnExit DEF LeaveFunctionDec, In, Popped, flags
<1>16. ASSUME LeaveDec PROVE FlagsAreJustified'
  <2>1. Popped
    BY <1>0, <1>16, ReturnWalk DEF LeaveDec, In
  <2> QED  BY <1>0, <1>16, <2>1, FlagsOnExit DEF LeaveDec, In, Popped, flags
<1>17. ASSUME LeaveVarDec PROVE FlagsAreJustified'
  <2>1. Popped
    BY <1>0, <1>17, LeaveVarWalk DEF LeaveVarDec, In
  <2> QED  BY <1>0, <1>17, <2>1, FlagsOnExit DEF LeaveVarDec, In, Popped, flags
<1>18. ASSUME LeaveLet PROVE FlagsAreJustified'
  <2>1. Popped
    BY <1>0, <1>18, ReturnWalk DEF LeaveLet, In
  <2> QED  BY <1>0, <1>18, <2>1, FlagsOnExit DEF LeaveLet, In, Popped, flags
<1>19. ASSUME LeaveLoop PROVE FlagsAreJustified'
  <2>1. Popped
    BY <1>0, <1>19, ReturnWalk DEF LeaveLoop, In
  <2> QED  BY <1>0, <1>19, <2>1, FlagsOnExit DEF LeaveLoop, In, Popped, flags
<1>20. ASSUME LeaveCall PROVE FlagsAreJustified'
  <2>1. Popped
    BY <1>0, <1>20, ReturnWalk DEF LeaveCall, In
  <2> QED  BY <1>0, <1>20, <2>1, FlagsOnExit DEF LeaveCall, In, Popped, flags
<1>21. ASSUME UNCHANGED walk, UNCHANGED flags PROVE FlagsAreJustified'
  BY <1>21 DEF FlagsAreJustified, flags
<1> QED
  BY <1>1, <1>2, <1>3, <1>4, <1>5, <1>6, <1>7, <1>8, <1>9, <1>10, <1>11, <1>12, <1>13, <1>14, <1>15, <1>16, <1>17, <1>18, <1>19, <1>20, <1>21
     DEF Next, SimpleVar, NameTy, BreakExp, Finish

\* Whatever the program, a flag that refuses breaks is only up inside a
\* construct that raises it.
THEOREM FlagsFollow == Spec => []FlagsAreJustified
<1>1. Init => FlagsAreJustified
  BY DEF Init, FlagsAreJustified
<1>2. Types /\ FlagsAreJustified /\ [Next]_vars => FlagsAreJustified'
  <2>1. FlagsAreJustified /\ UNCHANGED vars => FlagsAreJustified'
    BY DEF vars, flags, FlagsAreJustified
  <2> QED  BY <2>1, StepFlags
<1> QED  BY <1>1, <1>2, AlwaysTypes, PTL DEF Spec

-----------------------------------------------------------------------------
(* The functions of a chunk may call each other: while one of them is      *)
(* being visited, the others keep their meaning where the chunk stands.    *)

-----------------------------------------------------------------------------
(* What get answers. *)

LEMMA Innermost ==
  ASSUME NEW s, NEW n \in Nat, NEW k, Fun!Holders(s, n, k) # {}
  PROVE  \E i \in Fun!Holders(s, n, k) : \A j \in Fun!Holders(s, n, k) : j <= i
<1>1. Fun!Holders(s, n, k) \subseteq 1..n
  BY DEF Fun!Holders
<1> QED  BY <1>1, GreatestUpTo

\* get only looks at the scopes it searches, and in them at this name.
Agree(s, t, n, k) ==
  \A i \in 1..n : /\ k \in DOMAIN s[i] <=> k \in DOMAIN t[i]
                  /\ k \in DOMAIN s[i] => s[i][k] = t[i][k]

LEMMA GetAgrees ==
  ASSUME NEW s, NEW t, NEW n \in Nat, NEW k, Agree(s, t, n, k)
  PROVE  Fun!GetIn(s, n, k) = Fun!GetIn(t, n, k)
<1>1. Fun!Holders(s, n, k) = Fun!Holders(t, n, k)
  BY DEF Fun!Holders, Agree
<1>2. CASE Fun!Holders(s, n, k) = {}
  BY <1>1, <1>2 DEF Fun!GetIn
<1>3. CASE Fun!Holders(s, n, k) # {}
  <2> DEFINE c == CHOOSE i \in Fun!Holders(s, n, k) :
                    \A j \in Fun!Holders(s, n, k) : j <= i
  <2>1. c \in Fun!Holders(s, n, k)
    BY <1>3, Innermost
  <2>2. c \in 1..n /\ k \in DOMAIN s[c]
    BY <2>1 DEF Fun!Holders
  <2>3. Fun!GetIn(s, n, k) = s[c][k]
    BY <1>3 DEF Fun!GetIn
  <2>4. Fun!GetIn(t, n, k) = t[c][k]
    BY <1>1, <1>3 DEF Fun!GetIn
  <2> HIDE DEF c
  <2> QED  BY <2>2, <2>3, <2>4 DEF Agree
<1> QED  BY <1>2, <1>3

\* The last scope searched answers first.
LEMMA GetInnermost ==
  ASSUME NEW s, NEW n \in Nat \ {0}, NEW k, k \in DOMAIN s[n]
  PROVE  Fun!GetIn(s, n, k) = s[n][k]
<1> DEFINE H == Fun!Holders(s, n, k)
           c == CHOOSE i \in H : \A j \in H : j <= i
<1>1. n \in H /\ H \subseteq 1..n
  BY DEF Fun!Holders
<1>2. c \in H /\ \A j \in H : j <= c
  <2>1. \E i \in H : \A j \in H : j <= i
    BY <1>1, Innermost
  <2> HIDE DEF H
  <2> QED  BY <2>1
<1>3. c = n
  <2> HIDE DEF H, c
  <2> QED  BY <1>1, <1>2
<1>4. Fun!GetIn(s, n, k) = s[c][k]
  BY <1>1 DEF Fun!GetIn
<1> QED  BY <1>3, <1>4

\* The meaning of names after one has been put in the last scope.
HasPut(s, t, k, d) ==
  /\ t[Len(s)] = Fun!With(s[Len(s)], k, d)
  /\ \A i \in 1..(Len(s) - 1) : t[i] = s[i]

LEMMA GetAfterPut ==
  ASSUME NEW s, IsTable(s), NEW k, NEW d, NEW t, HasPut(s, t, k, d)
  PROVE  /\ \A n \in 0..(Len(s) - 1) : \A j : Fun!GetIn(t, n, j) = Fun!GetIn(s, n, j)
         /\ \A j : j # k => Fun!GetIn(t, Len(s), j) = Fun!GetIn(s, Len(s), j)
         /\ Fun!GetIn(t, Len(s), k) = d
<1> DEFINE n == Len(s)
           w == Fun!With(s[n], k, d)
<1>1. /\ n \in Nat \ {0} /\ t[n] = w
      /\ \A i \in 1..(n - 1) : t[i] = s[i]
  BY DEF IsTable, HasPut
<1>2. /\ DOMAIN w = DOMAIN s[n] \union {k} /\ w[k] = d
      /\ \A j \in DOMAIN s[n] : j # k => w[j] = s[n][j]
  BY DEF Fun!With
<1> HIDE DEF n, w
<1>3. ASSUME NEW m \in 0..(n - 1), NEW j
      PROVE  Fun!GetIn(t, m, j) = Fun!GetIn(s, m, j)
  <2>1. m \in Nat /\ \A i \in 1..m : t[i] = s[i]
    BY <1>1
  <2>2. Agree(t, s, m, j)
    BY <2>1 DEF Agree
  <2> QED  BY <2>1, <2>2, GetAgrees
<1>4. ASSUME NEW j, j # k
      PROVE  Fun!GetIn(t, n, j) = Fun!GetIn(s, n, j)
  <2>1. ASSUME NEW i \in 1..n
        PROVE  /\ j \in DOMAIN t[i] <=> j \in DOMAIN s[i]
               /\ j \in DOMAIN t[i] => t[i][j] = s[i][j]
    <3>1. CASE i = n
      BY <1>1, <1>2, <1>4, <3>1
    <3>2. CASE i \in 1..(n - 1)
      BY <1>1, <3>2
    <3> QED  BY <1>1, <3>1, <3>2
  <2>2. n \in Nat /\ Agree(t, s, n, j)
    BY <1>1, <2>1 DEF Agree
  <2> QED  BY <2>2, GetAgrees
<1>5. Fun!GetIn(t, n, k) = d
  <2>1. n \in Nat \ {0} /\ k \in DOMAIN t[n] /\ t[n][k] = d
    BY <1>1, <1>2
  <2>2. Fun!GetIn(t, n, k) = t[n][k]
    BY <2>1, GetInnermost, Zenon
  <2> QED  BY <2>1, <2>2
<1> QED  BY <1>3, <1>4, <1>5 DEF n

-----------------------------------------------------------------------------
(* Where chunks stand. *)

\* A function of the chunk that is the i-th construct means its declaration.
ChunkHolds(w, i, table) ==
  /\ \A j \in DOMAIN w[i].todo :
       Fun!GetIn(table, 1 + Count(w, i - 1, FunKinds), w[i].todo[j].name)
         = w[i].todo[j].node
  /\ \A j, k \in DOMAIN w[i].todo : w[i].todo[j].name = w[i].todo[k].name => j = k
  /\ i < Len(w) => w[i + 1].kind = "fundec"

Chunked(w, table) ==
  \A i \in DOMAIN w : w[i].kind = "funchunk" => ChunkHolds(w, i, table)

\* Within a chunk, what is put goes to deeper scopes.
LEMMA CountGrows ==
  ASSUME NEW w, NEW n \in Nat, NEW m \in 0..n, NEW kinds
  PROVE  /\ Count(w, m, kinds) \in Nat /\ Count(w, n, kinds) \in Nat
         /\ Count(w, m, kinds) <= Count(w, n, kinds)
<1> DEFINE A == {j \in 1..m : w[j].kind \in kinds}
           B == {j \in 1..n : w[j].kind \in kinds}
<1>1. IsFiniteSet(1..n) /\ B \subseteq 1..n /\ A \subseteq B
  BY FS_Interval
<1> HIDE DEF A, B
<1>2. IsFiniteSet(B)
  BY <1>1, FS_Subset
<1>3. /\ Cardinality(A) \in Nat /\ Cardinality(B) \in Nat
      /\ Cardinality(A) <= Cardinality(B)
  BY <1>1, <1>2, FS_Subset, FS_CardinalityType
<1> QED  BY <1>3 DEF A, B, Count

LEMMA CountSame ==
  ASSUME NEW w, NEW v, NEW n \in Nat, NEW kinds, \A i \in 1..n : v[i].kind = w[i].kind
  PROVE  Count(v, n, kinds) = Count(w, n, kinds)
<1>1. {j \in 1..n : w[j].kind \in kinds} = {j \in 1..n : v[j].kind \in kinds}
  OBVIOUS
<1> QED  BY <1>1 DEF Count

LEMMA CountNext ==
  ASSUME NEW w, NEW n \in Nat, NEW kinds
  PROVE  /\ Count(w, n, kinds) \in Nat
         /\ Count(w, n + 1, kinds) = Count(w, n, kinds) + One(w[n + 1].kind, kinds)
<1>1. \A i \in 1..n : w[i].kind = w[i].kind
  OBVIOUS
<1> QED  BY <1>1, CountStep

LEMMA ChunkDepth ==
  ASSUME NEW w \in Seq(Frame), NEW i \in DOMAIN w, w[i].kind = "funchunk",
         i < Len(w) => w[i + 1].kind = "fundec"
  PROVE  /\ Count(w, i - 1, FunKinds) \in Nat /\ Count(w, Len(w), FunKinds) \in Nat
         /\ i < Len(w) => Count(w, i - 1, FunKinds) < Count(w, Len(w), FunKinds)
         /\ i = Len(w) => Count(w, i - 1, FunKinds) = Count(w, Len(w), FunKinds)
<1>1. i \in 1..Len(w) /\ Len(w) \in Nat /\ i - 1 \in Nat /\ i \in Nat /\ (i - 1) + 1 = i
  OBVIOUS
<1>2. /\ Count(w, i - 1, FunKinds) \in Nat
      /\ Count(w, i, FunKinds) = Count(w, i - 1, FunKinds)
  <2>1. /\ Count(w, i - 1, FunKinds) \in Nat
        /\ Count(w, (i - 1) + 1, FunKinds)
             = Count(w, i - 1, FunKinds) + One(w[(i - 1) + 1].kind, FunKinds)
    BY <1>1, CountNext
  <2>2. One(w[i].kind, FunKinds) = 0
    BY DEF One, FunKinds
  <2> QED  BY <1>1, <2>1, <2>2
<1>3. Count(w, Len(w), FunKinds) \in Nat
  BY <1>1, CountGrows
<1>4. CASE i < Len(w)
  <2>1. Count(w, i + 1, FunKinds)
             = Count(w, i, FunKinds) + One(w[i + 1].kind, FunKinds)
    BY <1>1, CountNext
  <2>2. One(w[i + 1].kind, FunKinds) = 1
    BY <1>4 DEF One, FunKinds
  <2>3. i + 1 \in 0..Len(w)
    BY <1>1, <1>4
  <2>4. Count(w, i + 1, FunKinds) <= Count(w, Len(w), FunKinds)
    BY <1>1, <2>3, CountGrows
  <2> QED  BY <1>2, <1>3, <1>4, <2>1, <2>2, <2>4
<1>5. CASE i = Len(w)
  BY <1>2, <1>3, <1>5
<1> QED  BY <1>1, <1>2, <1>3, <1>4, <1>5

-----------------------------------------------------------------------------
(* Steps that leave the chunks of functions alone. *)

Nowhere == [k \in {} |-> Unbound]

\* The scopes up to the n-th are searched as before.
SameUpTo(n) == \A j, m : m \in 0..n =>
  Fun!GetIn(scoped_map_fun_', m, j) = Fun!GetIn(scoped_map_fun_, m, j)

LEMMA SameScopes ==
  ASSUME NEW n \in Nat, \A i \in 1..n : scoped_map_fun_'[i] = scoped_map_fun_[i]
  PROVE  SameUpTo(n)
<1> SUFFICES ASSUME NEW j, NEW m \in 0..n
             PROVE  Fun!GetIn(scoped_map_fun_', m, j) = Fun!GetIn(scoped_map_fun_, m, j)
  BY DEF SameUpTo
<1>1. m \in Nat /\ Agree(scoped_map_fun_', scoped_map_fun_, m, j)
  BY DEF Agree
<1> QED  BY <1>1, GetAgrees

\* The frames that stay have their declarations still to visit, and a new one
\* has none and is not within a chunk of functions.
SameTodos ==
  \A i \in DOMAIN walk' :
    \/ /\ i \in DOMAIN walk /\ walk'[i].kind = walk[i].kind
       /\ walk[i].kind = "funchunk" => walk'[i].todo = walk[i].todo
    \/ /\ i = Len(walk) + 1 /\ walk'[i].todo = <<>>
       /\ walk # <<>> => Top.kind # "funchunk"

\* The scopes that stay are as they were.
SameTable ==
  \/ Len(walk') >= Len(walk) /\ scoped_map_fun_' = scoped_map_fun_
  \/ Len(walk') >= Len(walk) /\ scoped_map_fun_' = Append(scoped_map_fun_, Nowhere)
  \/ /\ walk # <<>> /\ Len(walk') = Len(walk) - 1
     /\ \/ scoped_map_fun_' = scoped_map_fun_
        \/ Top.kind \in FunKinds /\ Fun!scope_end

LEMMA CalmStep ==
  ASSUME Types, Types', ScopesMatchConstructs, Chunked(walk, scoped_map_fun_),
         SameTodos, SameTable
  PROVE  Chunked(walk', scoped_map_fun_')
<1> DEFINE n == Len(walk)
<1>1. /\ walk \in Seq(Frame) /\ walk' \in Seq(Frame) /\ n \in Nat
      /\ DOMAIN walk = 1..n /\ DOMAIN walk' = 1..Len(walk') /\ Len(walk') \in Nat
      /\ IsTable(scoped_map_fun_) /\ Len(scoped_map_fun_) \in Nat \ {0}
      /\ \A i \in DOMAIN walk' : walk'[i] \in Frame
  BY DEF Types, IsTable
<1>2. Len(scoped_map_fun_) = 1 + Count(walk, n, FunKinds)
  BY <1>1, ScopesAreCounted
<1> SUFFICES ASSUME NEW i \in DOMAIN walk', walk'[i].kind = "funchunk"
             PROVE  ChunkHolds(walk', i, scoped_map_fun_')
  BY DEF Chunked
<1>3. CASE i = n + 1 /\ walk'[i].todo = <<>>
  <2>1. ASSUME i < Len(walk') PROVE FALSE
    <3>1. i + 1 \in DOMAIN walk' /\ i + 1 \notin DOMAIN walk /\ i + 1 # n + 1
      BY <1>1, <1>3, <2>1
    <3> QED  BY <3>1 DEF SameTodos
  <2>2. DOMAIN walk'[i].todo = {}
    BY <1>3
  <2> QED  BY <2>1, <2>2 DEF ChunkHolds
<1>4. CASE /\ i \in DOMAIN walk /\ walk[i].kind = "funchunk"
           /\ walk'[i].todo = walk[i].todo
  <2> DEFINE depth == 1 + Count(walk, i - 1, FunKinds)
  <2>1. ChunkHolds(walk, i, scoped_map_fun_)
    BY <1>4 DEF Chunked
  <2>2. i < n => walk[i + 1].kind = "fundec"
    BY <2>1 DEF ChunkHolds
  <2>3. /\ depth \in Nat
        /\ i < n => depth < Len(scoped_map_fun_)
        /\ i = n => depth = Len(scoped_map_fun_)
    BY <1>1, <1>2, <1>4, <2>2, ChunkDepth
  <2>4. Count(walk', i - 1, FunKinds) = Count(walk, i - 1, FunKinds)
    <3>1. i - 1 \in Nat
      BY <1>1, <1>4
    <3>2. \A j \in 1..(i - 1) : walk'[j].kind = walk[j].kind
      BY <1>1, <1>4 DEF SameTodos
    <3> QED  BY <3>1, <3>2, CountSame
  <2>5. \A j \in 1..depth : scoped_map_fun_'[j] = scoped_map_fun_[j]
    <3> HIDE DEF depth
    <3>1. CASE scoped_map_fun_' = scoped_map_fun_
      BY <3>1
    <3>2. CASE scoped_map_fun_' = Append(scoped_map_fun_, Nowhere)
      <4>1. depth <= Len(scoped_map_fun_)
        BY <1>1, <1>4, <2>3
      <4>2. scoped_map_fun_ \in Seq(Scope)
        BY <1>1 DEF IsTable
      <4> QED  BY <2>3, <3>2, <4>1, <4>2
    <3>3. CASE /\ Len(walk') = n - 1 /\ Fun!scope_end
      <4>1. i < n /\ depth < Len(scoped_map_fun_)
        BY <1>1, <2>3, <3>3
      <4>2. CASE Len(scoped_map_fun_) = 1
        BY <3>3, <4>2 DEF Fun!scope_end
      <4>3. CASE Len(scoped_map_fun_) # 1
        <5> DEFINE m == Len(scoped_map_fun_) - 1
        <5>1. m \in Nat /\ m \in Int /\ 1 \in Int /\ depth <= m
          BY <1>1, <2>3, <4>1
        <5>2. \A j \in 1..m : scoped_map_fun_[j] \in Scope
          BY <1>1 DEF IsTable
        <5>3. scoped_map_fun_' = SubSeq(scoped_map_fun_, 1, m)
          BY <3>3, <4>3 DEF Fun!scope_end
        <5> HIDE DEF m
        <5>4. \A j \in 1..m - 1 + 1 : SubSeq(scoped_map_fun_, 1, m)[j] = scoped_map_fun_[1 + j - 1]
          BY <5>1, <5>2, SubSeqProperties
        <5>5. \A j \in 1..m : scoped_map_fun_'[j] = scoped_map_fun_[j]
          BY <5>1, <5>3, <5>4
        <5> QED  BY <2>3, <5>1, <5>5
      <4> QED  BY <4>2, <4>3
    <3> QED  BY <3>1, <3>2, <3>3 DEF SameTable
  <2>6. SameUpTo(depth)
    <3> HIDE DEF depth
    <3> QED  BY <2>3, <2>5, SameScopes
  <2>7. depth \in 0..depth
    BY <2>3
  <2>8. i < Len(walk') => walk'[i + 1].kind = "fundec"
    <3> SUFFICES ASSUME i < Len(walk') PROVE walk'[i + 1].kind = "fundec"
      OBVIOUS
    <3>1. i + 1 \in DOMAIN walk' /\ i \in Nat
      BY <1>1
    <3>2. CASE i < n
      BY <1>1, <2>2, <3>1, <3>2 DEF SameTodos
    <3>3. CASE i = n
      <4>1. walk # <<>> /\ Top.kind = "funchunk"
        BY <1>1, <1>4, <3>3 DEF Top
      <4> QED  BY <1>1, <3>1, <3>3, <4>1 DEF SameTodos
    <3> QED  BY <1>1, <1>4, <3>2, <3>3
  <2>9. ASSUME NEW j \in DOMAIN walk'[i].todo
        PROVE  Fun!GetIn(scoped_map_fun_', 1 + Count(walk', i - 1, FunKinds),
                         walk'[i].todo[j].name) = walk'[i].todo[j].node
    <3>1. Fun!GetIn(scoped_map_fun_, depth, walk[i].todo[j].name) = walk[i].todo[j].node
      BY <1>4, <2>1, <2>9 DEF ChunkHolds
    <3>2. Fun!GetIn(scoped_map_fun_', depth, walk[i].todo[j].name)
            = Fun!GetIn(scoped_map_fun_, depth, walk[i].todo[j].name)
      <4> HIDE DEF depth
      <4> QED  BY <2>6, <2>7 DEF SameUpTo
    <3> QED  BY <1>4, <2>4, <3>1, <3>2
  <2> QED  BY <1>4, <2>1, <2>8, <2>9 DEF ChunkHolds
<1> QED  BY <1>3, <1>4 DEF SameTodos

-----------------------------------------------------------------------------
(* Steps on a chunk of functions. *)

\* The frames under the last are as they were, and none is a chunk whose scope
\* the last one's chunk puts a name in.
LEMMA ChunksBelow ==
  ASSUME Types, Types', ScopesMatchConstructs, Chunked(walk, scoped_map_fun_),
         walk # <<>>, NEW m \in Nat, Len(scoped_map_fun_) = m + 1, SameUpTo(m),
         NEW i \in 1..(Len(walk) - 1), walk[i].kind = "funchunk",
         Len(walk') >= Len(walk), walk'[Len(walk)].kind = Top.kind,
         \A j \in 1..(Len(walk) - 1) : walk'[j] = walk[j]
  PROVE  ChunkHolds(walk', i, scoped_map_fun_')
<1> DEFINE n == Len(walk)
           depth == 1 + Count(walk, i - 1, FunKinds)
<1>1. /\ walk \in Seq(Frame) /\ n \in Nat /\ i \in DOMAIN walk /\ i < n /\ i \in Nat
      /\ walk' \in Seq(Frame) /\ Len(walk') \in Nat
  BY DEF Types
<1>2. Len(scoped_map_fun_) = 1 + Count(walk, n, FunKinds)
  BY <1>1, ScopesAreCounted
<1>3. ChunkHolds(walk, i, scoped_map_fun_)
  BY <1>1 DEF Chunked
<1>4. walk[i + 1].kind = "fundec"
  BY <1>1, <1>3 DEF ChunkHolds
<1>5. depth \in 0..m
  <2>1. Count(walk, i - 1, FunKinds) \in Nat /\ Count(walk, n, FunKinds) \in Nat
        /\ Count(walk, i - 1, FunKinds) < Count(walk, n, FunKinds)
    BY <1>1, <1>4, ChunkDepth
  <2> QED  BY <1>2, <2>1
<1>6. Count(walk', i - 1, FunKinds) = Count(walk, i - 1, FunKinds)
  <2>1. i - 1 \in Nat /\ \A j \in 1..(i - 1) : walk'[j].kind = walk[j].kind
    BY <1>1
  <2> QED  BY <2>1, CountSame
<1>7. walk'[i] = walk[i]
  OBVIOUS
<1>8. walk'[i + 1].kind = "fundec"
  <2>1. CASE i + 1 = n
    BY <1>4, <2>1 DEF Top
  <2>2. CASE i + 1 \in 1..(n - 1)
    BY <1>4, <2>2
  <2> QED  BY <1>1, <2>1, <2>2
<1>9. \A j : Fun!GetIn(scoped_map_fun_', depth, j) = Fun!GetIn(scoped_map_fun_, depth, j)
  <2> HIDE DEF depth
  <2> QED  BY <1>5 DEF SameUpTo
<1> QED  BY <1>3, <1>6, <1>7, <1>8, <1>9 DEF ChunkHolds

\* A function declared by the first loop over its chunk.
LEMMA HeaderStep ==
  ASSUME Types, Types', ScopesMatchConstructs, Chunked(walk, scoped_map_fun_),
         NEW n \in FunName, FunctionHeader(n), ~error_'
  PROVE  Chunked(walk', scoped_map_fun_')
<1> DEFINE top == Len(walk)
           d == [name |-> n, node |-> decs + 1]
           depth == Len(scoped_map_fun_)
<1>1. /\ walk # <<>> /\ Top.kind = "funchunk" /\ n \notin Declared(Top)
      /\ Fun!put(n, decs + 1)
      /\ walk' = [walk EXCEPT ![Len(walk)].todo = Append(@, d)]
  BY DEF FunctionHeader, Header, In
<1>2. /\ walk \in Seq(Frame) /\ walk' \in Seq(Frame) /\ top \in Nat \ {0}
      /\ Top \in Frame /\ top \in DOMAIN walk
      /\ IsTable(scoped_map_fun_) /\ depth \in Nat \ {0}
  BY <1>1 DEF Types, IsTable, Top
<1>3. /\ Len(walk') = top /\ DOMAIN walk' = 1..top
      /\ walk'[top] = [Top EXCEPT !.todo = Append(@, d)]
      /\ \A i \in 1..(top - 1) : walk'[i] = walk[i]
  BY <1>1, <1>2 DEF Top
<1>4. /\ \A m \in 0..(depth - 1) : \A j :
            Fun!GetIn(scoped_map_fun_', m, j) = Fun!GetIn(scoped_map_fun_, m, j)
      /\ \A j : j # n =>
            Fun!GetIn(scoped_map_fun_', depth, j) = Fun!GetIn(scoped_map_fun_, depth, j)
      /\ Fun!GetIn(scoped_map_fun_', depth, n) = decs + 1
  <2>1. HasPut(scoped_map_fun_, scoped_map_fun_', n, decs + 1)
    BY <1>1, <1>2 DEF Fun!put, IsTable, HasPut
  <2> QED  BY <1>2, <2>1, GetAfterPut
<1>5. Top.todo \in Seq(Dec)
  BY <1>2 DEF Frame
<1>6. ChunkHolds(walk, top, scoped_map_fun_)
  BY <1>1, <1>2 DEF Chunked, Top
<1>7. depth = 1 + Count(walk, top - 1, FunKinds)
  <2>1. depth = 1 + Count(walk, top, FunKinds)
    BY <1>2, ScopesAreCounted
  <2>2. Count(walk, top - 1, FunKinds) = Count(walk, top, FunKinds)
    BY <1>1, <1>2, ChunkDepth DEF Top
  <2> QED  BY <2>1, <2>2
<1>8. depth = 1 + Count(walk', top - 1, FunKinds)
  <2>1. top - 1 \in Nat /\ \A j \in 1..(top - 1) : walk'[j].kind = walk[j].kind
    BY <1>2, <1>3
  <2>2. Count(walk', top - 1, FunKinds) = Count(walk, top - 1, FunKinds)
    BY <2>1, CountSame
  <2> QED  BY <1>7, <2>2
<1> SUFFICES ASSUME NEW i \in DOMAIN walk', walk'[i].kind = "funchunk"
             PROVE  ChunkHolds(walk', i, scoped_map_fun_')
  BY DEF Chunked
<1>9. CASE i # top
  <2>1. i \in 1..(top - 1) /\ walk[i].kind = "funchunk" /\ walk'[top].kind = Top.kind
    BY <1>2, <1>3, <1>9 DEF Frame
  <2> DEFINE m == depth - 1
  <2>2. m \in Nat /\ Len(scoped_map_fun_) = m + 1 /\ SameUpTo(m)
    BY <1>2, <1>4 DEF SameUpTo
  <2> HIDE DEF m, d
  <2>3. Len(walk') >= Len(walk)
    BY <1>2, <1>3
  <2> QED  BY <1>1, <1>3, <2>1, <2>2, <2>3, ChunksBelow
<1>10. CASE i = top
  <2> DEFINE old == Top.todo
             new == walk'[top].todo
  <2>1. new = Append(old, d)
    BY <1>2, <1>3 DEF Frame
  <2> HIDE DEF d
  <2>2. /\ Len(old) \in Nat /\ DOMAIN old = 1..Len(old) /\ DOMAIN new = 1..(Len(old) + 1)
        /\ new[Len(old) + 1] = d
        /\ \A j \in 1..Len(old) : new[j] = old[j]
    BY <1>5, <2>1
  <2>3. \A j \in DOMAIN old : old[j].name # n
    BY <1>1 DEF Declared
  <2>4. d.name = n /\ d.node = decs + 1
    BY DEF d
  <2>5. /\ \A j \in DOMAIN old : Fun!GetIn(scoped_map_fun_, depth, old[j].name) = old[j].node
        /\ \A j, k \in DOMAIN old : old[j].name = old[k].name => j = k
    BY <1>6, <1>7 DEF ChunkHolds, Top
  <2> HIDE DEF old, new
  <2>6. ASSUME NEW j \in DOMAIN new
        PROVE  Fun!GetIn(scoped_map_fun_', depth, new[j].name) = new[j].node
    <3>1. CASE j = Len(old) + 1
      BY <1>4, <2>2, <2>4, <3>1
    <3>2. CASE j \in DOMAIN old
      BY <1>4, <2>2, <2>3, <2>5, <3>2
    <3> QED  BY <2>2, <3>1, <3>2
  <2>7. ASSUME NEW j \in DOMAIN new, NEW k \in DOMAIN new, new[j].name = new[k].name
        PROVE  j = k
    <3>1. CASE j \in DOMAIN old /\ k \in DOMAIN old
      BY <2>2, <2>5, <2>7, <3>1
    <3>2. CASE j \notin DOMAIN old \/ k \notin DOMAIN old
      BY <2>2, <2>3, <2>4, <2>7, <3>2
    <3> QED  BY <3>1, <3>2
  <2>8. ~(top < Len(walk'))
    BY <1>2, <1>3
  <2> QED  BY <1>8, <1>10, <2>6, <2>7, <2>8 DEF ChunkHolds, new
<1> QED  BY <1>9, <1>10

\* The second loop over a chunk: the function visited next is put again, and
\* means what it did.
LEMMA VisitStep ==
  ASSUME Types, Types', ScopesMatchConstructs, Chunked(walk, scoped_map_fun_), FunctionDec
  PROVE  Chunked(walk', scoped_map_fun_')
<1> DEFINE top == Len(walk)
           d == Head(Top.todo)
           depth == Len(scoped_map_fun_)
           new == [Top EXCEPT !.part = "body", !.todo = Tail(@)]
           callee == [kind |-> "fundec", part |-> "formals", todo |-> <<>>]
<1>1. /\ walk # <<>> /\ Top.kind = "funchunk" /\ Top.todo # <<>>
      /\ scoped_map_fun_' =
           Append([scoped_map_fun_ EXCEPT ![Len(scoped_map_fun_)] = Fun!With(@, d.name, d.node)],
                  Nowhere)
      /\ walk' = Append([walk EXCEPT ![Len(walk)] = new], callee)
  BY DEF FunctionDec, Visit, In, Nowhere, Top
<1>2. /\ walk \in Seq(Frame) /\ walk' \in Seq(Frame) /\ top \in Nat \ {0}
      /\ Top \in Frame /\ top \in DOMAIN walk
      /\ IsTable(scoped_map_fun_) /\ depth \in Nat \ {0}
  BY <1>1 DEF Types, IsTable, Top
<1>3. Top.todo \in Seq(Dec) /\ new.kind = "funchunk" /\ new.todo = Tail(Top.todo)
  BY <1>1, <1>2 DEF Frame
<1>4. /\ Len(walk') = top + 1 /\ DOMAIN walk' = 1..(top + 1)
      /\ walk'[top] = new /\ walk'[top + 1] = callee
      /\ \A i \in 1..(top - 1) : walk'[i] = walk[i]
  <2> HIDE DEF new, callee
  <2> QED  BY <1>1, <1>2
<1>5. HasPut(scoped_map_fun_, scoped_map_fun_', d.name, d.node)
  <2> HIDE DEF d
  <2>1. scoped_map_fun_ \in Seq(Scope)
    BY <1>2 DEF IsTable
  <2> DEFINE w == Fun!With(scoped_map_fun_[depth], d.name, d.node)
             t == [scoped_map_fun_ EXCEPT ![Len(scoped_map_fun_)] = w]
  <2>2. scoped_map_fun_' = Append(t, Nowhere)
    BY <1>1
  <2> HIDE DEF w
  <2>3. Len(t) = depth /\ t[depth] = w /\ \A i \in 1..(depth - 1) : t[i] = scoped_map_fun_[i]
    BY <1>2, <2>1
  <2>4. t \in Seq(Scope \union {w})
    BY <1>2, <2>1
  <2> HIDE DEF t
  <2>5. \A i \in 1..depth : scoped_map_fun_'[i] = t[i]
    BY <1>2, <2>2, <2>3, <2>4
  <2> QED  BY <1>2, <2>3, <2>5 DEF HasPut, w
<1>6. /\ \A m \in 0..(depth - 1) : \A j :
            Fun!GetIn(scoped_map_fun_', m, j) = Fun!GetIn(scoped_map_fun_, m, j)
      /\ \A j : j # d.name =>
            Fun!GetIn(scoped_map_fun_', depth, j) = Fun!GetIn(scoped_map_fun_, depth, j)
  <2> HIDE DEF d
  <2> QED  BY <1>2, <1>5, GetAfterPut
<1>7. ChunkHolds(walk, top, scoped_map_fun_)
  BY <1>1, <1>2 DEF Chunked, Top
<1>8. depth = 1 + Count(walk, top - 1, FunKinds)
  <2>1. depth = 1 + Count(walk, top, FunKinds)
    BY <1>2, ScopesAreCounted
  <2>2. Count(walk, top - 1, FunKinds) = Count(walk, top, FunKinds)
    BY <1>1, <1>2, ChunkDepth DEF Top
  <2> QED  BY <2>1, <2>2
<1>9. depth = 1 + Count(walk', top - 1, FunKinds)
  <2>1. top - 1 \in Nat /\ \A j \in 1..(top - 1) : walk'[j].kind = walk[j].kind
    BY <1>2, <1>4
  <2>2. Count(walk', top - 1, FunKinds) = Count(walk, top - 1, FunKinds)
    BY <2>1, CountSame
  <2> QED  BY <1>8, <2>2
<1> SUFFICES ASSUME NEW i \in DOMAIN walk', walk'[i].kind = "funchunk"
             PROVE  ChunkHolds(walk', i, scoped_map_fun_')
  BY DEF Chunked
<1>10. i # top + 1
  <2>1. callee.kind # "funchunk"
    OBVIOUS
  <2> HIDE DEF callee, new, d
  <2> QED  BY <1>4, <2>1
<1>11. CASE i # top
  <2>1. i \in 1..(top - 1) /\ walk[i].kind = "funchunk" /\ walk'[top].kind = Top.kind
    <3> HIDE DEF new, callee, d
    <3>1. i \in 1..(top - 1)
      BY <1>2, <1>4, <1>10, <1>11
    <3> QED  BY <1>1, <1>3, <1>4, <3>1
  <2> DEFINE m == depth - 1
  <2>2. m \in Nat /\ Len(scoped_map_fun_) = m + 1 /\ SameUpTo(m)
    BY <1>2, <1>6 DEF SameUpTo
  <2> HIDE DEF m, d, new, callee
  <2>3. Len(walk') >= Len(walk)
    BY <1>2, <1>4
  <2> QED  BY <1>1, <1>4, <2>1, <2>2, <2>3, ChunksBelow
<1>12. CASE i = top
  <2> DEFINE old == Top.todo
             rest == walk'[top].todo
  <2>1. rest = Tail(old) /\ old # <<>> /\ old \in Seq(Dec) /\ d = Head(old)
    BY <1>1, <1>3, <1>4
  <2>2. /\ \A j \in DOMAIN old : Fun!GetIn(scoped_map_fun_, depth, old[j].name) = old[j].node
        /\ \A j, k \in DOMAIN old : old[j].name = old[k].name => j = k
    BY <1>7, <1>8 DEF ChunkHolds, Top
  <2> HIDE DEF old, rest, d, new, callee
  <2>3. /\ Len(old) \in Nat \ {0} /\ DOMAIN old = 1..Len(old) /\ old[1] = d
        /\ DOMAIN rest = 1..(Len(old) - 1)
        /\ \A j \in DOMAIN rest : rest[j] = old[j + 1]
    BY <2>1
  <2>4. \A j \in DOMAIN rest : j + 1 \in DOMAIN old /\ j \in Nat
    BY <2>3
  <2>5. ASSUME NEW j \in DOMAIN rest
        PROVE  Fun!GetIn(scoped_map_fun_', depth, rest[j].name) = rest[j].node
    <3>1. 1 \in DOMAIN old /\ j + 1 # 1
      BY <2>3, <2>4
    <3>2. old[j + 1].name # d.name
      BY <2>2, <2>3, <2>4, <3>1
    <3>3. Fun!GetIn(scoped_map_fun_, depth, old[j + 1].name) = old[j + 1].node
      BY <2>2, <2>4
    <3> QED  BY <1>6, <2>3, <3>2, <3>3
  <2>6. ASSUME NEW j \in DOMAIN rest, NEW k \in DOMAIN rest, rest[j].name = rest[k].name
        PROVE  j = k
    <3>1. j + 1 = k + 1
      BY <2>2, <2>3, <2>4, <2>6
    <3> QED  BY <2>4, <3>1
  <2>7. walk'[top + 1].kind = "fundec"
    BY <1>4 DEF callee
  <2> QED  BY <1>9, <1>12, <2>5, <2>6, <2>7 DEF ChunkHolds, rest
<1> QED  BY <1>11, <1>12

-----------------------------------------------------------------------------
(* All steps. *)

LEMMA EnterCalm ==
  ASSUME walk \in Seq(Frame), NEW kind \in Kind, NEW part \in Part, Enter(kind, part),
         walk # <<>> => Top.kind # "funchunk"
  PROVE  SameTodos /\ Len(walk') >= Len(walk)
<1> DEFINE new == [kind |-> kind, part |-> part, todo |-> <<>>]
<1>1. new \in Frame /\ new.todo = <<>>
  BY DEF Frame
<1>2. walk' = Append(walk, new)
  BY DEF Enter
<1> HIDE DEF new
<1> QED  BY <1>1, <1>2 DEF SameTodos

LEMMA ReturnCalm ==
  ASSUME walk \in Seq(Frame), walk # <<>>, Return
  PROVE  SameTodos /\ Len(walk') = Len(walk) - 1
<1> DEFINE n == Len(walk) - 1
<1>1. n \in Nat /\ n \in Int /\ 1 \in Int /\ \A i \in 1..n : walk[i] \in Frame
  OBVIOUS
<1>2. walk' = SubSeq(walk, 1, n)
  BY DEF Return
<1> HIDE DEF n
<1>3. /\ SubSeq(walk, 1, n) \in Seq(Frame)
      /\ Len(SubSeq(walk, 1, n)) = IF 1 <= n THEN n - 1 + 1 ELSE 0
      /\ \A i \in 1..n - 1 + 1 : SubSeq(walk, 1, n)[i] = walk[1 + i - 1]
  BY <1>1, SubSeqProperties
<1>4. walk' \in Seq(Frame) /\ Len(walk') = n /\ \A i \in 1..n : walk'[i] = walk[i]
  BY <1>1, <1>2, <1>3
<1>5. DOMAIN walk' = 1..n /\ \A i \in 1..n : i \in DOMAIN walk
  BY <1>4 DEF n
<1> QED  BY <1>4, <1>5 DEF SameTodos, n

LEMMA ReplacedCalm ==
  ASSUME walk \in Seq(Frame), walk # <<>>, NEW new \in Frame,
         new.kind = Top.kind, Top.kind = "funchunk" => new.todo = Top.todo,
         walk' \in Seq(Frame), Len(walk') = Len(walk), walk'[Len(walk)] = new,
         \A i \in 1..(Len(walk) - 1) : i \in DOMAIN walk' /\ walk'[i] = walk[i]
  PROVE  SameTodos /\ Len(walk') >= Len(walk)
<1>1. DOMAIN walk' = 1..Len(walk) /\ DOMAIN walk = 1..Len(walk) /\ Len(walk) \in Nat
  OBVIOUS
<1>2. ASSUME NEW i \in DOMAIN walk'
      PROVE  /\ i \in DOMAIN walk /\ walk'[i].kind = walk[i].kind
             /\ walk[i].kind = "funchunk" => walk'[i].todo = walk[i].todo
  <2>1. CASE i = Len(walk)
    BY <1>1, <2>1 DEF Top
  <2>2. CASE i \in 1..(Len(walk) - 1)
    BY <1>1, <2>2
  <2> QED  BY <1>1, <2>1, <2>2
<1> QED  BY <1>1, <1>2 DEF SameTodos

LEMMA ReplaceCalm ==
  ASSUME walk \in Seq(Frame), walk # <<>>, NEW new \in Frame,
         new.kind = Top.kind, Top.kind = "funchunk" => new.todo = Top.todo,
         walk' = [walk EXCEPT ![Len(walk)] = new]
  PROVE  SameTodos /\ Len(walk') >= Len(walk)
<1>1. /\ walk' \in Seq(Frame) /\ Len(walk') = Len(walk)
      /\ walk'[Len(walk)] = new
      /\ \A i \in 1..(Len(walk) - 1) : i \in DOMAIN walk' /\ walk'[i] = walk[i]
  BY ReplaceTop, Zenon
<1> QED  BY <1>1, ReplacedCalm, Zenon

LEMMA GoToCalm ==
  ASSUME walk \in Seq(Frame), walk # <<>>, NEW part \in Part, GoTo(part)
  PROVE  SameTodos /\ Len(walk') >= Len(walk)
<1> DEFINE new == [Top EXCEPT !.part = part]
<1>1. Top \in Frame
  BY DEF Top
<1>2. new \in Frame /\ new.kind = Top.kind /\ new.todo = Top.todo
  BY <1>1 DEF Frame
<1>3. walk' = [walk EXCEPT ![Len(walk)] = new]
  BY DEF GoTo, Top
<1> HIDE DEF new
<1> QED  BY <1>2, <1>3, ReplaceCalm

LEMMA HeaderCalm ==
  ASSUME walk \in Seq(Frame), walk # <<>>, Top.kind # "funchunk",
         NEW n \in Names, decs \in 0..MaxDecs, decs < MaxDecs,
         walk' = [walk EXCEPT ![Len(walk)].todo =
                    Append(@, [name |-> n, node |-> decs + 1])]
  PROVE  SameTodos /\ Len(walk') >= Len(walk)
<1> DEFINE d == [name |-> n, node |-> decs + 1]
           new == [Top EXCEPT !.todo = Append(@, d)]
<1>1. Top \in Frame /\ d \in Dec
  BY BinderAssumption DEF Top, Dec, Node, Names
<1>2. new \in Frame /\ new.kind = Top.kind
  <2> HIDE DEF d
  <2>1. Top.todo \in Seq(Dec) /\ Append(Top.todo, d) \in Seq(Dec)
    BY <1>1 DEF Frame
  <2> QED  BY <1>1, <2>1 DEF Frame
<1>3. walk' = [walk EXCEPT ![Len(walk)] = new]
  BY DEF Top
<1> HIDE DEF new
<1> QED  BY <1>2, <1>3, ReplaceCalm

LEMMA VisitTypeCalm ==
  ASSUME walk \in Seq(Frame), Visit("typchunk", "typedec", "body")
  PROVE  SameTodos /\ Len(walk') >= Len(walk)
<1> DEFINE top == [Top EXCEPT !.part = "body", !.todo = Tail(@)]
           new == [kind |-> "typedec", part |-> "body", todo |-> <<>>]
<1>1. /\ walk # <<>> /\ Top.kind = "typchunk" /\ Top.todo # <<>>
      /\ walk' = Append([walk EXCEPT ![Len(walk)] = top], new)
  BY DEF Visit, In, Top
<1>2. Top \in Frame /\ Len(walk) \in Nat
  BY <1>1 DEF Top
<1>3. /\ top.kind = "typchunk" /\ new.todo = <<>>
      /\ top \in Frame /\ new \in Frame
  <2>1. Top.todo \in Seq(Dec) /\ Tail(Top.todo) \in Seq(Dec)
    BY <1>1, <1>2 DEF Frame
  <2>2. top \in Frame /\ top.kind = "typchunk"
    BY <1>1, <1>2, <2>1 DEF Frame, Part
  <2>3. new \in Frame /\ new.todo = <<>>
    BY DEF Frame, Part, Kind
  <2> QED  BY <2>2, <2>3
<1> HIDE DEF top, new
<1>4. /\ DOMAIN walk' = 1..(Len(walk) + 1) /\ Len(walk') = Len(walk) + 1
      /\ walk'[Len(walk) + 1] = new /\ walk'[Len(walk)] = top
      /\ \A i \in 1..(Len(walk) - 1) : walk'[i] = walk[i]
  BY <1>1, <1>2, <1>3
<1>5. ASSUME NEW i \in DOMAIN walk', i # Len(walk) + 1
      PROVE  /\ i \in DOMAIN walk /\ walk'[i].kind = walk[i].kind
             /\ walk[i].kind = "funchunk" => walk'[i].todo = walk[i].todo
  <2>1. CASE i = Len(walk)
    BY <1>1, <1>2, <1>3, <1>4, <2>1 DEF Top
  <2>2. CASE i \in 1..(Len(walk) - 1)
    BY <1>2, <1>4, <2>2
  <2> QED  BY <1>2, <1>4, <1>5, <2>1, <2>2
<1>6. walk'[Len(walk) + 1].todo = <<>> /\ Top.kind # "funchunk"
  BY <1>1, <1>3, <1>4
<1> QED  BY <1>2, <1>4, <1>5, <1>6 DEF SameTodos

LEMMA LeaveVarCalm ==
  ASSUME walk \in Seq(Frame), walk # <<>>, NEW up, up = Len(walk) - 1,
         walk' = [i \in 1..up |->
                    IF i = up /\ walk[i].kind = "for" THEN [walk[i] EXCEPT !.part = "hi"]
                                                      ELSE walk[i]]
  PROVE  SameTodos /\ Len(walk') = Len(walk) - 1
<1>1. up \in Nat /\ \A i \in 1..up : walk[i] \in Frame /\ i \in DOMAIN walk
  OBVIOUS
<1>2. \A i \in 1..up : walk'[i].kind = walk[i].kind /\ walk'[i].todo = walk[i].todo
  BY <1>1 DEF Frame
<1>3. DOMAIN walk' = 1..up /\ Len(walk') = up
  BY <1>1
<1> QED  BY <1>1, <1>2, <1>3 DEF SameTodos

\* Every step keeps the functions of the chunks, unless something is diagnosed.
LEMMA StepChunks ==
  ASSUME Types, Types', ScopesMatchConstructs, Chunked(walk, scoped_map_fun_),
         Next, ~error_'
  PROVE  Chunked(walk', scoped_map_fun_')
<1>0. /\ Types /\ Types' /\ ScopesMatchConstructs /\ Chunked(walk, scoped_map_fun_)
      /\ walk \in Seq(Frame) /\ decs \in 0..MaxDecs
  BY DEF Types
<1>1. ASSUME FunctionChunk PROVE Chunked(walk', scoped_map_fun_')
  <2>1. Enter("funchunk", "decs") /\ (walk # <<>> => Top.kind # "funchunk")
    BY <1>1 DEF FunctionChunk, AtDecs, AtExp, In
  <2>2. SameTodos /\ Len(walk') >= Len(walk)
    BY <1>0, <2>1, EnterCalm DEF Kind, Part
  <2>3. SameTable
    BY <1>1, <2>2 DEF FunctionChunk, SameTable, maps
  <2> QED  BY <1>0, <2>2, <2>3, CalmStep
<1>2. ASSUME TypeChunk PROVE Chunked(walk', scoped_map_fun_')
  <2>1. Enter("typchunk", "decs") /\ (walk # <<>> => Top.kind # "funchunk")
    BY <1>2 DEF TypeChunk, AtDecs, AtExp, In
  <2>2. SameTodos /\ Len(walk') >= Len(walk)
    BY <1>0, <2>1, EnterCalm DEF Kind, Part
  <2>3. SameTable
    BY <1>2, <2>2 DEF TypeChunk, SameTable, maps
  <2> QED  BY <1>0, <2>2, <2>3, CalmStep
<1>3. ASSUME LetExp PROVE Chunked(walk', scoped_map_fun_')
  <2>1. Enter("let", "decs") /\ (walk # <<>> => Top.kind # "funchunk")
    BY <1>3 DEF LetExp, AtDecs, AtExp, In
  <2>2. SameTodos /\ Len(walk') >= Len(walk)
    BY <1>0, <2>1, EnterCalm DEF Kind, Part
  <2>3. SameTable
    BY <1>3, <2>2 DEF LetExp, SameTable, maps, Fun!scope_begin, Nowhere
  <2> QED  BY <1>0, <2>2, <2>3, CalmStep
<1>4. ASSUME ForExp PROVE Chunked(walk', scoped_map_fun_')
  <2>1. Enter("for", "vardec") /\ (walk # <<>> => Top.kind # "funchunk")
    BY <1>4 DEF ForExp, EnterLoop, AtDecs, AtExp, In
  <2>2. SameTodos /\ Len(walk') >= Len(walk)
    BY <1>0, <2>1, EnterCalm DEF Kind, Part
  <2>3. SameTable
    BY <1>4, <2>2 DEF ForExp, EnterLoop, SameTable, maps
  <2> QED  BY <1>0, <2>2, <2>3, CalmStep
<1>5. ASSUME WhileExp PROVE Chunked(walk', scoped_map_fun_')
  <2>1. Enter("while", "test") /\ (walk # <<>> => Top.kind # "funchunk")
    BY <1>5 DEF WhileExp, EnterLoop, AtDecs, AtExp, In
  <2>2. SameTodos /\ Len(walk') >= Len(walk)
    BY <1>0, <2>1, EnterCalm DEF Kind, Part
  <2>3. SameTable
    BY <1>5, <2>2 DEF WhileExp, EnterLoop, SameTable, maps
  <2> QED  BY <1>0, <2>2, <2>3, CalmStep
<1>6. ASSUME NEW n \in VarName, VarDec(n) PROVE Chunked(walk', scoped_map_fun_')
  <2>1. Enter("vardec", "body") /\ (walk # <<>> => Top.kind # "funchunk")
    BY <1>6 DEF VarDec, AtDecs, AtExp, In
  <2>2. SameTodos /\ Len(walk') >= Len(walk)
    BY <1>0, <2>1, EnterCalm DEF Kind, Part
  <2>3. SameTable
    BY <1>6, <2>2 DEF VarDec, SameTable, maps
  <2> QED  BY <1>0, <2>2, <2>3, CalmStep
<1>7. ASSUME NEW n \in FunName, CallExp(n) PROVE Chunked(walk', scoped_map_fun_')
  <2>1. Enter("call", "body") /\ (walk # <<>> => Top.kind # "funchunk")
    BY <1>7 DEF CallExp, AtDecs, AtExp, In
  <2>2. SameTodos /\ Len(walk') >= Len(walk)
    BY <1>0, <2>1, EnterCalm DEF Kind, Part
  <2>3. SameTable
    BY <1>7, <2>2 DEF CallExp, SameTable, maps
  <2> QED  BY <1>0, <2>2, <2>3, CalmStep
<1>8. ASSUME NEW n \in TypName, TypeHeader(n) PROVE Chunked(walk', scoped_map_fun_')
  <2>1. /\ walk # <<>> /\ Top.kind # "funchunk" /\ n \in Names /\ decs < MaxDecs
        /\ walk' = [walk EXCEPT ![Len(walk)].todo =
                      Append(@, [name |-> n, node |-> decs + 1])]
    BY <1>8 DEF TypeHeader, Header, In, Declares, Names
  <2>2. SameTodos /\ Len(walk') >= Len(walk)
    BY <1>0, <2>1, HeaderCalm
  <2>3. scoped_map_fun_' = scoped_map_fun_
    BY <1>8 DEF TypeHeader, Header, maps
  <2> QED  BY <1>0, <2>2, <2>3, CalmStep DEF SameTable
<1>9. ASSUME NEW n \in VarName, Formal(n) PROVE Chunked(walk', scoped_map_fun_')
  <2>1. /\ walk # <<>> /\ Top.kind # "funchunk" /\ n \in Names /\ decs < MaxDecs
        /\ walk' = [walk EXCEPT ![Len(walk)].todo =
                      Append(@, [name |-> n, node |-> decs + 1])]
    BY <1>9 DEF Formal, In, Declares, Names
  <2>2. SameTodos /\ Len(walk') >= Len(walk)
    BY <1>0, <2>1, HeaderCalm
  <2>3. scoped_map_fun_' = scoped_map_fun_
    BY <1>9 DEF Formal, maps
  <2> QED  BY <1>0, <2>2, <2>3, CalmStep DEF SameTable
<1>10. ASSUME TypeDec PROVE Chunked(walk', scoped_map_fun_')
  <2>1. SameTodos /\ Len(walk') >= Len(walk)
    BY <1>0, <1>10, VisitTypeCalm DEF TypeDec
  <2> QED  BY <1>0, <1>10, <2>1, CalmStep DEF TypeDec, SameTable
<1>11. ASSUME EndOfFormals PROVE Chunked(walk', scoped_map_fun_')
  <2>1. SameTodos /\ Len(walk') >= Len(walk)
    BY <1>0, <1>11, GoToCalm DEF EndOfFormals, In, Part
  <2> QED  BY <1>0, <1>11, <2>1, CalmStep DEF EndOfFormals, SameTable, maps
<1>12. ASSUME EndOfDecs PROVE Chunked(walk', scoped_map_fun_')
  <2>1. SameTodos /\ Len(walk') >= Len(walk)
    BY <1>0, <1>12, GoToCalm DEF EndOfDecs, In, Part
  <2> QED  BY <1>0, <1>12, <2>1, CalmStep DEF EndOfDecs, SameTable, maps
<1>13. ASSUME LoopBody PROVE Chunked(walk', scoped_map_fun_')
  <2>1. SameTodos /\ Len(walk') >= Len(walk)
    BY <1>0, <1>13, GoToCalm DEF LoopBody, In, Part
  <2> QED  BY <1>0, <1>13, <2>1, CalmStep DEF LoopBody, SameTable, maps
<1>14. ASSUME LeaveFunctionDec PROVE Chunked(walk', scoped_map_fun_')
  <2>1. walk # <<>> /\ SameTodos /\ Len(walk') = Len(walk) - 1
    BY <1>0, <1>14, ReturnCalm DEF LeaveFunctionDec, In
  <2>2. Top.kind \in FunKinds /\ Fun!scope_end
    BY <1>14 DEF LeaveFunctionDec, In, FunKinds
  <2> QED  BY <1>0, <2>1, <2>2, CalmStep DEF SameTable
<1>15. ASSUME LeaveLet PROVE Chunked(walk', scoped_map_fun_')
  <2>1. walk # <<>> /\ SameTodos /\ Len(walk') = Len(walk) - 1
    BY <1>0, <1>15, ReturnCalm DEF LeaveLet, In
  <2>2. Top.kind \in FunKinds /\ Fun!scope_end
    BY <1>15 DEF LeaveLet, In, FunKinds
  <2> QED  BY <1>0, <2>1, <2>2, CalmStep DEF SameTable
<1>16. ASSUME LeaveDec PROVE Chunked(walk', scoped_map_fun_')
  <2>1. walk # <<>> /\ SameTodos /\ Len(walk') = Len(walk) - 1
    BY <1>0, <1>16, ReturnCalm DEF LeaveDec, In
  <2>2. scoped_map_fun_' = scoped_map_fun_
    BY <1>16 DEF LeaveDec, maps
  <2> QED  BY <1>0, <2>1, <2>2, CalmStep DEF SameTable
<1>17. ASSUME LeaveVarDec PROVE Chunked(walk', scoped_map_fun_')
  <2>1. walk # <<>> /\ SameTodos /\ Len(walk') = Len(walk) - 1
    BY <1>0, <1>17, LeaveVarCalm DEF LeaveVarDec, In
  <2>2. scoped_map_fun_' = scoped_map_fun_
    BY <1>17 DEF LeaveVarDec, maps
  <2> QED  BY <1>0, <2>1, <2>2, CalmStep DEF SameTable
<1>18. ASSUME LeaveLoop PROVE Chunked(walk', scoped_map_fun_')
  <2>1. walk # <<>> /\ SameTodos /\ Len(walk') = Len(walk) - 1
    BY <1>0, <1>18, ReturnCalm DEF LeaveLoop, In
  <2>2. scoped_map_fun_' = scoped_map_fun_
    BY <1>18 DEF LeaveLoop, maps
  <2> QED  BY <1>0, <2>1, <2>2, CalmStep DEF SameTable
<1>19. ASSUME LeaveCall PROVE Chunked(walk', scoped_map_fun_')
  <2>1. walk # <<>> /\ SameTodos /\ Len(walk') = Len(walk) - 1
    BY <1>0, <1>19, ReturnCalm DEF LeaveCall, In
  <2>2. scoped_map_fun_' = scoped_map_fun_
    BY <1>19 DEF LeaveCall, maps
  <2> QED  BY <1>0, <2>1, <2>2, CalmStep DEF SameTable
<1>20. ASSUME UNCHANGED walk, UNCHANGED maps PROVE Chunked(walk', scoped_map_fun_')
  BY <1>20 DEF maps
<1> QED
  BY <1>0, <1>1, <1>2, <1>3, <1>4, <1>5, <1>6, <1>7, <1>8, <1>9, <1>10,
     <1>11, <1>12, <1>13, <1>14, <1>15, <1>16, <1>17, <1>18, <1>19, <1>20,
     HeaderStep, VisitStep
     DEF Next, SimpleVar, NameTy, BreakExp, Finish

\* What was diagnosed stays diagnosed.
LEMMA ErrorStays == Types /\ error_ /\ [Next]_vars => error_'
<1> SUFFICES ASSUME Types, error_, [Next]_vars PROVE error_'
  OBVIOUS
<1>1. CASE UNCHANGED vars
  BY <1>1 DEF vars
<1>2. ASSUME NEW n, FunctionHeader(n) \/ TypeHeader(n) \/ Formal(n) \/ VarDec(n) PROVE error_'
  BY <1>2 DEF FunctionHeader, TypeHeader, Header, Formal, VarDec
<1>3. ASSUME NEW n, CallExp(n) \/ NameTy(n) \/ SimpleVar(n) PROVE error_'
  BY <1>3 DEF CallExp, NameTy, SimpleVar, Bind
<1>4. ASSUME FunctionDec \/ BreakExp \/ Finish PROVE error_'
  BY <1>4 DEF FunctionDec, BreakExp, Finish
<1>5. ASSUME \/ FunctionChunk \/ TypeChunk \/ EndOfFormals \/ LeaveFunctionDec
             \/ TypeDec \/ LeaveDec \/ LeaveVarDec \/ LetExp \/ EndOfDecs \/ LeaveLet
             \/ ForExp \/ WhileExp \/ LoopBody \/ LeaveLoop \/ LeaveCall
      PROVE error_'
  BY <1>5 DEF FunctionChunk, TypeChunk, EndOfFormals, LeaveFunctionDec, TypeDec, LeaveDec,
     LeaveVarDec, LetExp, EndOfDecs, LeaveLet, ForExp, WhileExp, EnterLoop, LoopBody,
     LeaveLoop, LeaveCall
<1> QED  BY <1>1, <1>2, <1>3, <1>4, <1>5 DEF Next

\* What is known of the chunks of functions, until something is diagnosed.
LEMMA AlwaysChunked == Spec => [](error_ \/ Chunked(walk, scoped_map_fun_))
<1> DEFINE Inv == error_ \/ Chunked(walk, scoped_map_fun_)
<1>1. Init => Inv
  BY DEF Init, Chunked
<1>2. Types /\ Types' /\ ScopesMatchConstructs /\ Inv /\ [Next]_vars => Inv'
  <2> SUFFICES ASSUME Types, Types', ScopesMatchConstructs, Inv, [Next]_vars PROVE Inv'
    OBVIOUS
  <2>1. CASE error_
    BY <2>1, ErrorStays
  <2>2. CASE UNCHANGED vars
    BY <2>2 DEF vars, maps
  <2>3. CASE ~error_ /\ Next
    <3>1. Chunked(walk, scoped_map_fun_)
      BY <2>3
    <3>2. ASSUME ~error_' PROVE Chunked(walk', scoped_map_fun_')
      BY <2>3, <3>1, <3>2, StepChunks
    <3> QED  BY <3>2
  <2> QED  BY <2>1, <2>2, <2>3
<1> QED  BY <1>1, <1>2, AlwaysTypes, ScopesFollow, PTL DEF Spec

\* Whatever the program, until a chunk of functions has been visited, each
\* function still to visit means its declaration where the chunk stands.
THEOREM ChunksRecursive == Spec => []ChunksAreRecursive
<1>1. Types /\ (error_ \/ Chunked(walk, scoped_map_fun_)) => ChunksAreRecursive
  <2> SUFFICES ASSUME Types, Chunked(walk, scoped_map_fun_),
                      NEW i \in DOMAIN walk, walk[i].kind = "funchunk",
                      NEW d \in Range(walk[i].todo)
               PROVE  Fun!GetIn(scoped_map_fun_, OpenFun(i), d.name) = d.node
    BY DEF ChunksAreRecursive
  <2>1. OpenFun(i) = 1 + Count(walk, i - 1, FunKinds)
    BY DEF OpenFun, Around, Count, FunKinds
  <2>2. PICK j \in DOMAIN walk[i].todo : d = walk[i].todo[j]
    BY DEF Range
  <2> QED  BY <2>1, <2>2 DEF Chunked, ChunkHolds
<1> QED  BY <1>1, AlwaysTypes, AlwaysChunked, PTL

-----------------------------------------------------------------------------
(* What names mean, in a table and in the three of them.                   *)

Spaces == {"fun", "var", "typ"}
KindsOf == [fun |-> FunKinds, var |-> VarKinds, typ |-> TypKinds]
Tables == [fun |-> scoped_map_fun_, var |-> scoped_map_var_, typ |-> scoped_map_typ_]

\* The meanings that the first n scopes of a table give.
Meant(table, n) == [k \in Names |-> Fun!GetIn(table, n, k)]

\* How many scopes are searched where the i-th construct of w opens.
Depth(w, i, kinds) == 1 + Count(w, i - 1, kinds)

\* What names mean there, in tables A.
At(w, A, i) == [s \in Spaces |-> Meant(A[s], Depth(w, i, KindsOf[s]))]
Here(w, A) == At(w, A, Len(w) + 1)

\* The constructs that restore the meanings of names when they end.
Opening(w, i) == w[i].kind \in VarKinds
Nth(w, j) == CHOOSE i \in DOMAIN w : Opening(w, i) /\ Count(w, i, VarKinds) = j
Outer(w, A) == [j \in 1..Count(w, Len(w), VarKinds) |-> At(w, A, Nth(w, j))]

-----------------------------------------------------------------------------
(* Tables. *)

\* The first n scopes give the same meanings.
Keeps(s, t, n) == \A m \in 0..n : Meant(t, m) = Meant(s, m)

LEMMA KeepsSame == ASSUME NEW s, NEW n PROVE Keeps(s, s, n)
BY DEF Keeps

LEMMA KeepsLess ==
  ASSUME NEW s, NEW t, NEW n \in Nat, NEW m \in 0..n, Keeps(s, t, n)
  PROVE  Keeps(s, t, m) /\ Meant(t, m) = Meant(s, m)
BY DEF Keeps

LEMMA KeepsBack == ASSUME NEW s, NEW t, NEW n, Keeps(s, t, n) PROVE Keeps(t, s, n)
BY DEF Keeps

\* Scopes that are the same.
LEMMA SameKeeps ==
  ASSUME NEW s, NEW t, NEW n \in Nat, \A i \in 1..n : t[i] = s[i]
  PROVE  Keeps(s, t, n)
<1> SUFFICES ASSUME NEW m \in 0..n, NEW k \in Names
             PROVE  Fun!GetIn(t, m, k) = Fun!GetIn(s, m, k)
  BY DEF Keeps, Meant
<1>1. m \in Nat /\ Agree(t, s, m, k)
  BY DEF Agree
<1> QED  BY <1>1, GetAgrees

\* get only depends on the scopes that hold the name.
LEMMA SameHolders ==
  ASSUME NEW s, NEW k, NEW n, NEW m, Fun!Holders(s, n, k) = Fun!Holders(s, m, k)
  PROVE  Fun!GetIn(s, n, k) = Fun!GetIn(s, m, k)
<1> DEFINE From(H) == IF H = {} THEN Unbound
                      ELSE s[CHOOSE i \in H : \A j \in H : j <= i][k]
<1>1. /\ Fun!GetIn(s, n, k) = From(Fun!Holders(s, n, k))
      /\ Fun!GetIn(s, m, k) = From(Fun!Holders(s, m, k))
  BY DEF Fun!GetIn
<1> HIDE DEF From
<1> QED  BY <1>1

\* A fresh scope changes no meaning.
LEMMA BeginKeeps ==
  ASSUME NEW s, IsTable(s), NEW t, t = Append(s, Nowhere)
  PROVE  /\ Keeps(s, t, Len(s))
         /\ Meant(t, Len(s) + 1) = Meant(s, Len(s))
<1> DEFINE n == Len(s)
<1>1. /\ n \in Nat /\ s \in Seq(Scope) /\ t[n + 1] = Nowhere
      /\ \A i \in 1..n : t[i] = s[i]
  BY DEF IsTable
<1>2. Keeps(s, t, n)
  BY <1>1, SameKeeps
<1>3. ASSUME NEW k \in Names
      PROVE  Fun!GetIn(t, n + 1, k) = Fun!GetIn(s, n, k)
  <2>1. k \notin DOMAIN Nowhere
    BY DEF Nowhere
  <2>2. Fun!Holders(t, n + 1, k) = Fun!Holders(t, n, k)
    <3> HIDE DEF n
    <3>1. ASSUME NEW i \in 1..(n + 1), k \in DOMAIN t[i] PROVE i \in 1..n
      <4>1. i # n + 1
        BY <1>1, <2>1, <3>1
      <4>2. n \in Nat
        BY <1>1
      <4> QED  BY <4>1, <4>2
    <3>2. \A i \in 1..n : i \in 1..(n + 1)
      BY <1>1
    <3> QED  BY <3>1, <3>2 DEF Fun!Holders
  <2>3. Fun!GetIn(t, n + 1, k) = Fun!GetIn(t, n, k)
    BY <2>2, SameHolders
  <2>4. Agree(t, s, n, k)
    BY <1>1 DEF Agree
  <2> QED  BY <1>1, <2>3, <2>4, GetAgrees
<1> QED  BY <1>2, <1>3 DEF Meant

\* Closing a scope keeps the meanings under it.
LEMMA EndKeeps ==
  ASSUME NEW s, IsTable(s), Len(s) # 1, NEW t, t = SubSeq(s, 1, Len(s) - 1)
  PROVE  Keeps(s, t, Len(s) - 1) /\ Len(t) = Len(s) - 1
<1> DEFINE n == Len(s) - 1
<1>1. /\ n \in Nat \ {0} /\ n \in Int /\ 1 \in Int
      /\ \A i \in 1..n : s[i] \in Scope
  BY DEF IsTable
<1>2. t = SubSeq(s, 1, n)
  OBVIOUS
<1> HIDE DEF n
<1>3. /\ Len(SubSeq(s, 1, n)) = IF 1 <= n THEN n - 1 + 1 ELSE 0
      /\ \A i \in 1..n - 1 + 1 : SubSeq(s, 1, n)[i] = s[1 + i - 1]
  BY <1>1, SubSeqProperties
<1>4. Len(t) = n /\ \A i \in 1..n : t[i] = s[i]
  BY <1>1, <1>2, <1>3
<1>5. Keeps(s, t, n)
  BY <1>1, <1>4, SameKeeps
<1> QED  BY <1>4, <1>5 DEF n

\* Putting a name changes what it means in the last scope, and nothing else.
LEMMA PutMeans ==
  ASSUME NEW s, IsTable(s), NEW k \in Names, NEW d, NEW t, HasPut(s, t, k, d)
  PROVE  /\ Keeps(s, t, Len(s) - 1)
         /\ Meant(t, Len(s)) = [Meant(s, Len(s)) EXCEPT ![k] = d]
<1>1. /\ \A n \in 0..(Len(s) - 1) : \A j : Fun!GetIn(t, n, j) = Fun!GetIn(s, n, j)
      /\ \A j : j # k => Fun!GetIn(t, Len(s), j) = Fun!GetIn(s, Len(s), j)
      /\ Fun!GetIn(t, Len(s), k) = d
  BY GetAfterPut
<1>2. Keeps(s, t, Len(s) - 1)
  BY <1>1 DEF Keeps, Meant
<1>3. ASSUME NEW j \in Names
      PROVE  Meant(t, Len(s))[j] = [Meant(s, Len(s)) EXCEPT ![k] = d][j]
  BY <1>1 DEF Meant
<1>4. /\ DOMAIN Meant(t, Len(s)) = Names
      /\ DOMAIN [Meant(s, Len(s)) EXCEPT ![k] = d] = Names
  BY DEF Meant
<1>5. /\ Meant(t, Len(s)) = [j \in Names |-> Meant(t, Len(s))[j]]
      /\ [Meant(s, Len(s)) EXCEPT ![k] = d]
           = [j \in Names |-> [Meant(s, Len(s)) EXCEPT ![k] = d][j]]
  BY DEF Meant
<1> QED  BY <1>2, <1>3, <1>5, Zenon

\* Putting a name as what it means already changes nothing.
LEMMA PutAgain ==
  ASSUME NEW s, IsTable(s), NEW k, NEW d, NEW t, HasPut(s, t, k, d),
         Fun!GetIn(s, Len(s), k) = d
  PROVE  Keeps(s, t, Len(s))
<1>1. /\ \A n \in 0..(Len(s) - 1) : \A j : Fun!GetIn(t, n, j) = Fun!GetIn(s, n, j)
      /\ \A j : j # k => Fun!GetIn(t, Len(s), j) = Fun!GetIn(s, Len(s), j)
      /\ Fun!GetIn(t, Len(s), k) = d
  BY GetAfterPut
<1>2. Len(s) \in Nat
  BY DEF IsTable
<1>3. ASSUME NEW n \in 0..Len(s), NEW j
      PROVE  Fun!GetIn(t, n, j) = Fun!GetIn(s, n, j)
  <2>1. n = Len(s) \/ n \in 0..(Len(s) - 1)
    BY <1>2
  <2> QED  BY <1>1, <2>1
<1> QED  BY <1>3 DEF Keeps, Meant

-----------------------------------------------------------------------------
(* The constructs that are open. *)

LEMMA Counted ==
  ASSUME NEW w, NEW n \in Nat \ {0}, NEW kinds
  PROVE  /\ Count(w, n - 1, kinds) \in Nat /\ Count(w, n, kinds) \in Nat
         /\ Count(w, n, kinds) = Count(w, n - 1, kinds) + One(w[n].kind, kinds)
<1>1. n - 1 \in Nat /\ (n - 1) + 1 = n
  OBVIOUS
<1>2. /\ Count(w, n - 1, kinds) \in Nat
      /\ Count(w, (n - 1) + 1, kinds)
           = Count(w, n - 1, kinds) + One(w[(n - 1) + 1].kind, kinds)
  BY <1>1, CountNext
<1>3. One(w[n].kind, kinds) \in Nat
  BY DEF One
<1> QED  BY <1>1, <1>2, <1>3

LEMMA CountNone == ASSUME NEW w, NEW kinds PROVE Count(w, 0, kinds) = 0
<1>1. {j \in 1..0 : w[j].kind \in kinds} = {}
  OBVIOUS
<1> QED  BY <1>1, FS_EmptySet DEF Count

\* No two have the same number.
LEMMA OneEach ==
  ASSUME NEW w, NEW i \in Nat \ {0}, NEW h \in Nat \ {0}, Opening(w, i), Opening(w, h),
         Count(w, i, VarKinds) = Count(w, h, VarKinds)
  PROVE  i = h
<1>1. ASSUME NEW a \in Nat \ {0}, NEW b \in Nat \ {0}, a < b, Opening(w, b)
      PROVE  Count(w, a, VarKinds) # Count(w, b, VarKinds)
  <2>1. /\ Count(w, b - 1, VarKinds) \in Nat
        /\ Count(w, b, VarKinds) = Count(w, b - 1, VarKinds) + 1
    BY <1>1, Counted DEF One, Opening
  <2>2. b - 1 \in Nat /\ a \in 0..(b - 1)
    BY <1>1
  <2>3. Count(w, a, VarKinds) \in Nat /\ Count(w, a, VarKinds) <= Count(w, b - 1, VarKinds)
    BY <2>2, CountGrows
  <2> QED  BY <2>1, <2>3
<1> QED  BY <1>1

\* Each number is that of one.
LEMMA NthExists ==
  ASSUME NEW w, NEW n \in Nat, NEW j \in 1..Count(w, n, VarKinds)
  PROVE  \E i \in 1..n : Opening(w, i) /\ Count(w, i, VarKinds) = j
<1> DEFINE T == {i \in 1..n : Count(w, i - 1, VarKinds) < j}
<1>1. Count(w, n, VarKinds) \in Nat /\ j \in Nat \ {0}
  BY CountGrows
<1>2. n # 0
  BY <1>1, CountNone
<1>3. T \subseteq 1..n /\ 1 \in T
  <2>1. 1 - 1 = 0 /\ 1 \in 1..n
    BY <1>2
  <2> QED  BY <1>1, <2>1, CountNone
<1>4. PICK x \in T : \A y \in T : y <= x
  <2> HIDE DEF T
  <2> QED  BY <1>3, GreatestUpTo
<1>5. x \in 1..n /\ Count(w, x - 1, VarKinds) < j /\ x \in Nat \ {0}
  BY <1>4
<1>6. Count(w, x, VarKinds) >= j
  <2>1. CASE x = n
    BY <1>1, <2>1
  <2>2. CASE x # n
    <3>1. x + 1 \in 1..n /\ (x + 1) - 1 = x /\ ~(x + 1 <= x)
      BY <1>5, <2>2
    <3>2. ~(Count(w, x, VarKinds) < j)
      BY <1>4, <3>1
    <3>3. Count(w, x, VarKinds) \in Nat
      BY <1>5, CountGrows
    <3> QED  BY <1>1, <3>2, <3>3
  <2> QED  BY <2>1, <2>2
<1>7. /\ Count(w, x - 1, VarKinds) \in Nat /\ Count(w, x, VarKinds) \in Nat
      /\ Count(w, x, VarKinds) = Count(w, x - 1, VarKinds) + One(w[x].kind, VarKinds)
  BY <1>5, Counted
<1>8. CASE w[x].kind \in VarKinds
  <2>1. Count(w, x, VarKinds) = j
    BY <1>1, <1>5, <1>6, <1>7, <1>8 DEF One
  <2> QED  BY <1>5, <1>8, <2>1 DEF Opening
<1>9. CASE w[x].kind \notin VarKinds
  BY <1>1, <1>5, <1>6, <1>7, <1>9 DEF One
<1> QED  BY <1>8, <1>9

LEMMA NthIs ==
  ASSUME NEW w \in Seq(Frame), NEW i \in DOMAIN w, Opening(w, i)
  PROVE  Nth(w, Count(w, i, VarKinds)) = i
<1> DEFINE j == Count(w, i, VarKinds)
           P(h) == Opening(w, h) /\ Count(w, h, VarKinds) = j
<1>1. i \in DOMAIN w /\ P(i)
  OBVIOUS
<1>2. ASSUME NEW h \in DOMAIN w, P(h) PROVE h = i
  <2>1. h \in Nat \ {0} /\ i \in Nat \ {0}
    OBVIOUS
  <2> QED  BY <1>2, <2>1, OneEach
<1>3. Nth(w, j) = CHOOSE h \in DOMAIN w : P(h)
  BY DEF Nth
<1> HIDE DEF P, j
<1>4. (CHOOSE h \in DOMAIN w : P(h)) = i
  BY <1>1, <1>2
<1> QED  BY <1>3, <1>4 DEF j

\* The j-th one among the first n constructs, which two visits share.
LEMMA NthShared ==
  ASSUME NEW w \in Seq(Frame), NEW v \in Seq(Frame), NEW n \in Nat,
         n <= Len(w), n <= Len(v), \A i \in 1..n : v[i].kind = w[i].kind,
         NEW j \in 1..Count(w, n, VarKinds)
  PROVE  /\ Nth(w, j) \in 1..n /\ Nth(v, j) = Nth(w, j)
         /\ Opening(w, Nth(w, j)) /\ Count(w, Nth(w, j), VarKinds) = j
<1>1. PICK i \in 1..n : Opening(w, i) /\ Count(w, i, VarKinds) = j
  BY NthExists
<1>2. i \in DOMAIN w /\ i \in DOMAIN v /\ i \in Nat
  OBVIOUS
<1>3. Nth(w, j) = i
  BY <1>1, <1>2, NthIs
<1>4. Opening(v, i) /\ Count(v, i, VarKinds) = j
  <2>1. \A h \in 1..i : v[h].kind = w[h].kind
    OBVIOUS
  <2>2. Count(v, i, VarKinds) = Count(w, i, VarKinds)
    BY <1>2, <2>1, CountSame
  <2> QED  BY <1>1, <2>2 DEF Opening
<1>5. Nth(v, j) = i
  BY <1>2, <1>4, NthIs
<1> QED  BY <1>1, <1>3, <1>5

-----------------------------------------------------------------------------
(* What the steps of LexicalScoping ask of walk and of the tables. *)

\* w and v share their first n constructs; w opens nothing after them; the
\* tables are as deep as the constructs say.
Shares(w, v, n) == n <= Len(w) /\ n <= Len(v) /\ \A i \in 1..n : v[i].kind = w[i].kind
Flat(w, n) == \A i \in (n + 1)..Len(w) : ~Opening(w, i)
Fits(w, A) == \A s \in Spaces : IsTable(A[s]) /\ Len(A[s]) = Depth(w, Len(w) + 1, KindsOf[s])

LEMMA KindsIncluded ==
  ASSUME NEW s \in Spaces
  PROVE  KindsOf[s] \subseteq VarKinds
BY DEF Spaces, KindsOf, FunKinds, VarKinds, TypKinds

LEMMA SameDepth ==
  ASSUME NEW w, NEW v, NEW n \in Nat, Shares(w, v, n), NEW i \in 1..(n + 1), NEW kinds
  PROVE  Depth(v, i, kinds) = Depth(w, i, kinds) /\ Depth(w, i, kinds) \in Nat \ {0}
<1> DEFINE m == i - 1
<1>1. m \in Nat /\ \A j \in 1..m : v[j].kind = w[j].kind
  BY DEF Shares
<1> HIDE DEF m
<1>2. Count(v, m, kinds) = Count(w, m, kinds)
  BY <1>1, CountSame
<1>3. Count(w, m, kinds) \in Nat
  BY <1>1, CountNext
<1> QED  BY <1>2, <1>3 DEF Depth, m

LEMMA DepthGrows ==
  ASSUME NEW w, NEW n \in Nat, NEW i \in 1..n, NEW kinds
  PROVE  /\ Depth(w, i, kinds) \in Nat /\ Depth(w, n, kinds) \in Nat
         /\ Depth(w, i, kinds) <= Depth(w, n, kinds)
<1>1. n - 1 \in Nat /\ i - 1 \in 0..(n - 1)
  OBVIOUS
<1>2. /\ Count(w, i - 1, kinds) \in Nat /\ Count(w, n - 1, kinds) \in Nat
      /\ Count(w, i - 1, kinds) <= Count(w, n - 1, kinds)
  BY <1>1, CountGrows
<1> QED  BY <1>2 DEF Depth

LEMMA CountFlat ==
  ASSUME NEW w \in Seq(Frame), NEW n \in Nat, n <= Len(w), Flat(w, n),
         NEW kinds, kinds \subseteq VarKinds
  PROVE  Count(w, Len(w), kinds) = Count(w, n, kinds)
<1>1. ASSUME NEW j \in 1..Len(w), w[j].kind \in kinds PROVE j \in 1..n
  <2>1. Opening(w, j)
    BY <1>1 DEF Opening
  <2>2. j \notin (n + 1)..Len(w)
    BY <2>1 DEF Flat
  <2> QED  BY <2>2
<1>2. {j \in 1..Len(w) : w[j].kind \in kinds} = {j \in 1..n : w[j].kind \in kinds}
  BY <1>1
<1> QED  BY <1>2 DEF Count

LEMMA DepthFlat ==
  ASSUME NEW w \in Seq(Frame), NEW n \in Nat, n <= Len(w), Flat(w, n), NEW s \in Spaces
  PROVE  Depth(w, Len(w) + 1, KindsOf[s]) = Depth(w, n + 1, KindsOf[s])
<1>1. (Len(w) + 1) - 1 = Len(w) /\ (n + 1) - 1 = n
  OBVIOUS
<1> QED  BY <1>1, CountFlat, KindsIncluded DEF Depth

\* Meanings where a construct that stays opens.
LEMMA AtSame ==
  ASSUME NEW w, NEW v, NEW n \in Nat, Shares(w, v, n), NEW i \in 1..(n + 1),
         NEW A, NEW B, \A s \in Spaces : Keeps(A[s], B[s], Depth(w, i, KindsOf[s]))
  PROVE  At(v, B, i) = At(w, A, i)
<1>1. ASSUME NEW s \in Spaces
      PROVE  Meant(B[s], Depth(v, i, KindsOf[s])) = Meant(A[s], Depth(w, i, KindsOf[s]))
  <2>1. Depth(v, i, KindsOf[s]) = Depth(w, i, KindsOf[s]) /\ Depth(w, i, KindsOf[s]) \in Nat
    BY SameDepth
  <2> QED  BY <2>1 DEF Keeps
<1> QED  BY <1>1 DEF At

\* The meanings to restore, when nothing that restores them begins or ends.
LEMMA OuterSame ==
  ASSUME NEW w \in Seq(Frame), NEW v \in Seq(Frame), NEW n \in Nat, Shares(w, v, n),
         Flat(w, n), Flat(v, n), NEW A, NEW B,
         \A i \in 1..n : Opening(w, i) => At(v, B, i) = At(w, A, i)
  PROVE  Outer(v, B) = Outer(w, A)
<1>1. n <= Len(w) /\ n <= Len(v) /\ \A i \in 1..n : v[i].kind = w[i].kind
  BY DEF Shares
<1>2. /\ Count(w, Len(w), VarKinds) = Count(w, n, VarKinds)
      /\ Count(v, Len(v), VarKinds) = Count(v, n, VarKinds)
      /\ Count(v, n, VarKinds) = Count(w, n, VarKinds)
  BY <1>1, CountFlat, CountSame
<1>3. ASSUME NEW j \in 1..Count(w, n, VarKinds)
      PROVE  At(v, B, Nth(v, j)) = At(w, A, Nth(w, j))
  <2>1. Nth(w, j) \in 1..n /\ Nth(v, j) = Nth(w, j) /\ Opening(w, Nth(w, j))
    BY <1>1, NthShared
  <2> QED  BY <2>1
<1> QED  BY <1>2, <1>3 DEF Outer

\* One more is open.
LEMMA OuterPush ==
  ASSUME NEW w \in Seq(Frame), NEW v \in Seq(Frame), NEW n \in Nat,
         Len(w) = n, Len(v) = n + 1, Shares(w, v, n), Opening(v, n + 1), NEW A, NEW B,
         \A i \in 1..n : Opening(w, i) => At(v, B, i) = At(w, A, i)
  PROVE  Outer(v, B) = Append(Outer(w, A), At(v, B, n + 1))
<1> DEFINE c == Count(w, n, VarKinds)
           F(j) == At(w, A, Nth(w, j))
           G(j) == At(v, B, Nth(v, j))
           S == {F(j) : j \in 1..c} \union {G(c + 1)}
           s == [j \in 1..c |-> F(j)]
<1>1. n <= Len(w) /\ n <= Len(v) /\ \A i \in 1..n : v[i].kind = w[i].kind
  BY DEF Shares
<1>2. c \in Nat /\ Count(v, n + 1, VarKinds) = c + 1
  <2>0. \A i \in 1..n : v[i].kind = w[i].kind
    BY <1>1
  <2> HIDE DEF c, F, G, S, s
  <2>1. /\ Count(w, n, VarKinds) \in Nat
        /\ Count(v, n + 1, VarKinds) = Count(w, n, VarKinds) + One(v[n + 1].kind, VarKinds)
    <3>1. Count(v, n, VarKinds) = Count(w, n, VarKinds)
      BY <2>0, CountSame
    <3>2. /\ Count(v, n, VarKinds) \in Nat
          /\ Count(v, n + 1, VarKinds) = Count(v, n, VarKinds) + One(v[n + 1].kind, VarKinds)
      BY CountNext
    <3> QED  BY <3>1, <3>2
  <2>2. One(v[n + 1].kind, VarKinds) = 1
    BY DEF One, Opening
  <2> QED  BY <2>1, <2>2 DEF c
<1>3. ASSUME NEW j \in 1..c
      PROVE  G(j) = F(j)
  <2>1. Nth(w, j) \in 1..n /\ Nth(v, j) = Nth(w, j) /\ Opening(w, Nth(w, j))
    BY <1>1, NthShared
  <2> QED  BY <2>1
<1>4. G(c + 1) = At(v, B, n + 1)
  <2>1. n + 1 \in DOMAIN v
    BY <1>1
  <2>2. Nth(v, c + 1) = n + 1
    BY <1>2, <2>1, NthIs
  <2> QED  BY <2>2
<1>5. Outer(w, A) = s /\ Outer(v, B) = [j \in 1..(c + 1) |-> G(j)]
  BY <1>2 DEF Outer
<1> HIDE DEF c, F, G
<1>6. s \in Seq(S) /\ Len(s) = c /\ G(c + 1) \in S
  BY <1>2
<1>7. \A j \in 1..c : s[j] = F(j)
  OBVIOUS
<1> HIDE DEF s, S
<1>8. Append(s, G(c + 1)) = [j \in 1..(c + 1) |-> IF j = c + 1 THEN G(c + 1) ELSE s[j]]
  BY <1>2, <1>6
<1>9. \A j \in 1..(c + 1) : G(j) = IF j = c + 1 THEN G(c + 1) ELSE s[j]
  BY <1>2, <1>3, <1>7
<1>10. Append(s, G(c + 1)) = [j \in 1..(c + 1) |-> G(j)]
  BY <1>8, <1>9
<1> QED  BY <1>4, <1>5, <1>10

-----------------------------------------------------------------------------
(* The steps. *)

\* Nothing that restores meanings begins or ends, and no meaning changes.
LEMMA NothingMeant ==
  ASSUME NEW w \in Seq(Frame), NEW v \in Seq(Frame), NEW n \in Nat, Shares(w, v, n),
         Flat(w, n), Flat(v, n), NEW A, NEW B, Fits(w, A), Fits(v, B),
         \A s \in Spaces : Keeps(A[s], B[s], Len(A[s]))
  PROVE  Here(v, B) = Here(w, A) /\ Outer(v, B) = Outer(w, A)
<1>1. n <= Len(w) /\ n <= Len(v)
  BY DEF Shares
<1>2. ASSUME NEW s \in Spaces
      PROVE  /\ Depth(w, n + 1, KindsOf[s]) = Len(A[s]) /\ Len(A[s]) \in Nat
             /\ Len(B[s]) = Len(A[s])
  <2>1. /\ Len(A[s]) = Depth(w, n + 1, KindsOf[s])
        /\ Len(B[s]) = Depth(v, n + 1, KindsOf[s])
    BY <1>1, DepthFlat DEF Fits
  <2>2. n + 1 \in 1..(n + 1)
    OBVIOUS
  <2>3. /\ Depth(v, n + 1, KindsOf[s]) = Depth(w, n + 1, KindsOf[s])
        /\ Depth(w, n + 1, KindsOf[s]) \in Nat
    BY <2>2, SameDepth
  <2> QED  BY <2>1, <2>3
<1>3. Here(v, B) = Here(w, A)
  <2>1. ASSUME NEW s \in Spaces
        PROVE  Meant(B[s], Len(B[s])) = Meant(A[s], Len(A[s]))
    BY <1>2 DEF Keeps
  <2> QED  BY <2>1 DEF Here, At, Fits
<1>4. ASSUME NEW i \in 1..n
      PROVE  At(v, B, i) = At(w, A, i)
  <2>1. ASSUME NEW s \in Spaces
        PROVE  Keeps(A[s], B[s], Depth(w, i, KindsOf[s]))
    <3>1. i \in 1..(n + 1) /\ n + 1 \in Nat
      OBVIOUS
    <3>2. Depth(w, i, KindsOf[s]) \in Nat /\ Depth(w, i, KindsOf[s]) <= Len(A[s])
      BY <1>2, <3>1, DepthGrows
    <3>3. Depth(w, i, KindsOf[s]) \in 0..Len(A[s])
      BY <1>2, <3>2
    <3> QED  BY <1>2, <3>3, KeepsLess
  <2>2. i \in 1..(n + 1)
    OBVIOUS
  <2> QED  BY <2>1, <2>2, AtSame
<1> QED  BY <1>3, <1>4, OuterSame

\* A name that gets another meaning, which what is open outside does not see.
Redefined(e, s, k, d) == [e EXCEPT ![s] = [@ EXCEPT ![k] = d]]
OthersKeep(A, B, s) == \A r \in Spaces : r # s => Keeps(A[r], B[r], Len(A[r]))
OpensBelow(w, n, kinds, depth) ==
  \A i \in 1..n : Opening(w, i) => Depth(w, i, kinds) < depth

LEMMA OneMeant ==
  ASSUME NEW w \in Seq(Frame), NEW v \in Seq(Frame), NEW n \in Nat, Shares(w, v, n),
         Flat(w, n), Flat(v, n), NEW A, NEW B, Fits(w, A), Fits(v, B),
         NEW s \in Spaces, NEW k \in Names, NEW d, HasPut(A[s], B[s], k, d),
         OthersKeep(A, B, s), OpensBelow(w, n, KindsOf[s], Len(A[s]))
  PROVE  Here(v, B) = Redefined(Here(w, A), s, k, d) /\ Outer(v, B) = Outer(w, A)
<1>1. n <= Len(w) /\ n <= Len(v)
  BY DEF Shares
<1>2. ASSUME NEW r \in Spaces
      PROVE  /\ Depth(w, n + 1, KindsOf[r]) = Len(A[r]) /\ Len(A[r]) \in Nat
             /\ Len(B[r]) = Len(A[r])
  <2>1. /\ Len(A[r]) = Depth(w, n + 1, KindsOf[r])
        /\ Len(B[r]) = Depth(v, n + 1, KindsOf[r])
    BY <1>1, DepthFlat DEF Fits
  <2>2. n + 1 \in 1..(n + 1)
    OBVIOUS
  <2>3. /\ Depth(v, n + 1, KindsOf[r]) = Depth(w, n + 1, KindsOf[r])
        /\ Depth(w, n + 1, KindsOf[r]) \in Nat
    BY <2>2, SameDepth
  <2> QED  BY <2>1, <2>3
<1>3. /\ Keeps(A[s], B[s], Len(A[s]) - 1)
      /\ Meant(B[s], Len(A[s])) = [Meant(A[s], Len(A[s])) EXCEPT ![k] = d]
  BY PutMeans DEF Fits
<1>4. Here(v, B) = Redefined(Here(w, A), s, k, d)
  <2>1. ASSUME NEW r \in Spaces, r # s
        PROVE  Meant(B[r], Len(B[r])) = Meant(A[r], Len(A[r]))
    BY <1>2, <2>1 DEF Keeps, OthersKeep
  <2>2. /\ Here(w, A) = [r \in Spaces |-> Meant(A[r], Len(A[r]))]
        /\ Here(v, B) = [r \in Spaces |-> Meant(B[r], Len(B[r]))]
    BY DEF Here, At, Fits
  <2>3. Meant(B[s], Len(B[s])) = [Meant(A[s], Len(A[s])) EXCEPT ![k] = d]
    BY <1>2, <1>3
  <2> DEFINE M(r) == Meant(A[r], Len(A[r]))
             L(r) == Meant(B[r], Len(B[r]))
             m == [M(s) EXCEPT ![k] = d]
  <2>4. /\ \A r \in Spaces : r # s => L(r) = M(r)
        /\ L(s) = m
        /\ Here(w, A) = [r \in Spaces |-> M(r)] /\ Here(v, B) = [r \in Spaces |-> L(r)]
    BY <2>1, <2>2, <2>3
  <2> HIDE DEF L, m
  <2>5. Here(w, A)[s] = M(s)
    BY <2>2
  <2> HIDE DEF M
  <2>6. [Here(w, A) EXCEPT ![s] = m] = [r \in Spaces |-> IF r = s THEN m ELSE M(r)]
    BY <2>4
  <2>7. Here(v, B) = [Here(w, A) EXCEPT ![s] = m]
    BY <2>4, <2>6
  <2> QED  BY <2>5, <2>7 DEF m, Redefined
<1>5. ASSUME NEW i \in 1..n, Opening(w, i)
      PROVE  At(v, B, i) = At(w, A, i)
  <2>1. ASSUME NEW r \in Spaces
        PROVE  Keeps(A[r], B[r], Depth(w, i, KindsOf[r]))
    <3>1. i \in 1..(n + 1) /\ n + 1 \in Nat
      OBVIOUS
    <3>2. Depth(w, i, KindsOf[r]) \in Nat /\ Depth(w, i, KindsOf[r]) <= Len(A[r])
      BY <1>2, <3>1, DepthGrows
    <3>3. CASE r = s
      <4>1. Depth(w, i, KindsOf[s]) < Len(A[s]) /\ Len(A[s]) \in Nat
        BY <1>2, <1>5 DEF OpensBelow
      <4>2. Len(A[s]) - 1 \in Nat /\ Depth(w, i, KindsOf[s]) \in 0..(Len(A[s]) - 1)
        BY <3>2, <3>3, <4>1
      <4> QED  BY <1>3, <3>3, <4>2, KeepsLess
    <3>4. CASE r # s
      <4>1. Depth(w, i, KindsOf[r]) \in 0..Len(A[r])
        BY <1>2, <3>2
      <4>2. Keeps(A[r], B[r], Len(A[r]))
        BY <3>4 DEF OthersKeep
      <4> QED  BY <1>2, <4>1, <4>2, KeepsLess
    <3> QED  BY <3>3, <3>4
  <2>2. i \in 1..(n + 1)
    OBVIOUS
  <2> QED  BY <2>1, <2>2, AtSame
<1> QED  BY <1>4, <1>5, OuterSame

\* A construct that restores meanings begins: those it restores are those here.
LEMMA OneOpens ==
  ASSUME NEW w \in Seq(Frame), NEW v \in Seq(Frame), NEW n \in Nat,
         Len(w) = n, Len(v) = n + 1, Shares(w, v, n), Opening(v, n + 1),
         NEW A, NEW B, Fits(w, A), Fits(v, B),
         \A s \in Spaces : /\ Keeps(A[s], B[s], Len(A[s]))
                           /\ Meant(B[s], Len(B[s])) = Meant(A[s], Len(A[s]))
  PROVE  Here(v, B) = Here(w, A) /\ Outer(v, B) = Append(Outer(w, A), Here(w, A))
<1>1. ASSUME NEW s \in Spaces
      PROVE  Depth(w, n + 1, KindsOf[s]) = Len(A[s]) /\ Len(A[s]) \in Nat
  BY DEF Fits, IsTable
<1>2. Here(v, B) = Here(w, A)
  BY DEF Here, At, Fits
<1>3. ASSUME NEW i \in 1..(n + 1)
      PROVE  At(v, B, i) = At(w, A, i)
  <2>1. ASSUME NEW s \in Spaces
        PROVE  Keeps(A[s], B[s], Depth(w, i, KindsOf[s]))
    <3>1. n + 1 \in Nat
      OBVIOUS
    <3>2. Depth(w, i, KindsOf[s]) \in Nat /\ Depth(w, i, KindsOf[s]) <= Len(A[s])
      BY <1>1, <3>1, DepthGrows
    <3>3. Depth(w, i, KindsOf[s]) \in 0..Len(A[s])
      BY <1>1, <3>2
    <3> QED  BY <1>1, <3>3, KeepsLess
  <2> QED  BY <2>1, AtSame
<1>4. Outer(v, B) = Append(Outer(w, A), At(v, B, n + 1))
  <2>1. \A i \in 1..n : i \in 1..(n + 1)
    OBVIOUS
  <2> QED  BY <1>3, <2>1, OuterPush
<1>5. At(v, B, n + 1) = Here(w, A)
  <2>1. n + 1 \in 1..(n + 1)
    OBVIOUS
  <2> QED  BY <1>3, <2>1 DEF Here
<1> QED  BY <1>2, <1>4, <1>5

\* It ends, and restores them.
LEMMA OneCloses ==
  ASSUME NEW w \in Seq(Frame), NEW v \in Seq(Frame), NEW n \in Nat,
         Len(v) = n, Len(w) = n + 1, Shares(v, w, n), Opening(w, n + 1),
         NEW A, NEW B, Fits(w, A), Fits(v, B),
         \A s \in Spaces : Keeps(A[s], B[s], Len(B[s]))
  PROVE  Outer(w, A) = Append(Outer(v, B), Here(v, B))
<1>1. ASSUME NEW s \in Spaces
      PROVE  /\ Depth(v, n + 1, KindsOf[s]) = Len(B[s]) /\ Len(B[s]) \in Nat
             /\ Keeps(B[s], A[s], Len(B[s]))
  BY KeepsBack DEF Fits, IsTable
<1>2. ASSUME NEW i \in 1..(n + 1)
      PROVE  At(w, A, i) = At(v, B, i)
  <2>1. ASSUME NEW s \in Spaces
        PROVE  Keeps(B[s], A[s], Depth(v, i, KindsOf[s]))
    <3>1. n + 1 \in Nat
      OBVIOUS
    <3>2. Depth(v, i, KindsOf[s]) \in Nat /\ Depth(v, i, KindsOf[s]) <= Len(B[s])
      BY <1>1, <3>1, DepthGrows
    <3>3. Depth(v, i, KindsOf[s]) \in 0..Len(B[s])
      BY <1>1, <3>2
    <3> QED  BY <1>1, <3>3, KeepsLess
  <2> QED  BY <2>1, AtSame
<1>3. Outer(w, A) = Append(Outer(v, B), At(w, A, n + 1))
  <2>1. \A i \in 1..n : i \in 1..(n + 1)
    OBVIOUS
  <2> QED  BY <1>2, <2>1, OuterPush
<1>4. At(w, A, n + 1) = Here(v, B)
  <2>1. n + 1 \in 1..(n + 1)
    OBVIOUS
  <2> QED  BY <1>2, <2>1 DEF Here
<1> QED  BY <1>3, <1>4

-----------------------------------------------------------------------------
(* The refinement mapping of Binder, in these terms. *)

Env == Here(walk, Tables)
Outers == Outer(walk, Tables)

LEMMA FitsHere == Types /\ ScopesMatchConstructs => Fits(walk, Tables)
<1> SUFFICES ASSUME Types, ScopesMatchConstructs, NEW s \in Spaces
             PROVE  /\ IsTable(Tables[s])
                    /\ Len(Tables[s]) = Depth(walk, Len(walk) + 1, KindsOf[s])
  BY DEF Fits
<1>1. walk \in Seq(Frame) /\ (Len(walk) + 1) - 1 = Len(walk)
  BY DEF Types
<1>2. /\ Len(scoped_map_fun_) = 1 + Count(walk, Len(walk), FunKinds)
      /\ Len(scoped_map_var_) = 1 + Count(walk, Len(walk), VarKinds)
      /\ Len(scoped_map_typ_) = 1 + Count(walk, Len(walk), TypKinds)
  BY <1>1, ScopesAreCounted
<1>3. IsTable(scoped_map_fun_) /\ IsTable(scoped_map_var_) /\ IsTable(scoped_map_typ_)
  BY DEF Types
<1>4. CASE s = "fun"
  BY <1>1, <1>2, <1>3, <1>4 DEF Tables, KindsOf, Depth
<1>5. CASE s = "var"
  BY <1>1, <1>2, <1>3, <1>5 DEF Tables, KindsOf, Depth
<1>6. CASE s = "typ"
  BY <1>1, <1>2, <1>3, <1>6 DEF Tables, KindsOf, Depth
<1> QED  BY <1>4, <1>5, <1>6 DEF Spaces

LEMMA FitsNext == (Types /\ ScopesMatchConstructs)' => Fits(walk', Tables')
<1>1. (Types /\ ScopesMatchConstructs)' => Fits(walk, Tables)'
  BY FitsHere, PTL
<1> QED  BY <1>1

MappedEnv == EnvAt(Len(walk) + 1)
MappedOuter == [j \in 1..Cardinality({i \in DOMAIN walk : Opens(i)}) |-> EnvAt(NthOpen(j))]
MappedNamed == IF BoundLoop THEN Nothing ELSE named

LEMMA MappedAt == ASSUME NEW i PROVE EnvAt(i) = At(walk, Tables, i)
<1> DEFINE f == Meant(scoped_map_fun_, OpenFun(i))
           v == Meant(scoped_map_var_, OpenVar(i))
           t == Meant(scoped_map_typ_, OpenTyp(i))
<1>1. EnvAt(i) = [fun |-> f, var |-> v, typ |-> t]
  <2>1. FunName \union VarName \union TypName = Names
    BY DEF Names
  <2>2. f = [n \in Names |-> Fun!GetIn(scoped_map_fun_, OpenFun(i), n)]
    BY DEF Meant
  <2>3. v = [n \in Names |-> Var!GetIn(scoped_map_var_, OpenVar(i), n)]
    BY DEF Meant, Fun!GetIn, Var!GetIn, Fun!Holders, Var!Holders
  <2>4. t = [n \in Names |-> Typ!GetIn(scoped_map_typ_, OpenTyp(i), n)]
    BY DEF Meant, Fun!GetIn, Typ!GetIn, Fun!Holders, Typ!Holders
  <2> HIDE DEF f, v, t
  <2> QED  BY <2>1, <2>2, <2>3, <2>4 DEF EnvAt
<1>2. /\ OpenFun(i) = Depth(walk, i, FunKinds)
      /\ OpenVar(i) = Depth(walk, i, VarKinds)
      /\ OpenTyp(i) = Depth(walk, i, TypKinds)
  BY DEF OpenFun, OpenVar, OpenTyp, Around, Depth, Count, FunKinds, VarKinds, TypKinds
<1>3. At(walk, Tables, i) = [s \in Spaces |-> IF s = "fun" THEN f ELSE IF s = "var" THEN v ELSE t]
  <2>1. ASSUME NEW s \in Spaces
        PROVE  Meant(Tables[s], Depth(walk, i, KindsOf[s]))
                 = IF s = "fun" THEN f ELSE IF s = "var" THEN v ELSE t
    BY <1>2 DEF Spaces, Tables, KindsOf
  <2> HIDE DEF f, v, t
  <2> QED  BY <2>1 DEF At
<1> HIDE DEF f, v, t
<1>4. [fun |-> f, var |-> v, typ |-> t]
        = [s \in Spaces |-> IF s = "fun" THEN f ELSE IF s = "var" THEN v ELSE t]
  BY DEF Spaces
<1> QED  BY <1>1, <1>3, <1>4

LEMMA Mapped == Types => MappedEnv = Env /\ MappedOuter = Outers
<1> SUFFICES ASSUME Types PROVE MappedEnv = Env /\ MappedOuter = Outers
  OBVIOUS
<1>1. MappedEnv = Env
  BY MappedAt DEF MappedEnv, Env, Here
<1>2. DOMAIN walk = 1..Len(walk)
  BY DEF Types
<1>3. \A i : Opens(i) <=> Opening(walk, i)
  BY DEF Opens, Opening, VarKinds
<1>4. Cardinality({i \in DOMAIN walk : Opens(i)}) = Count(walk, Len(walk), VarKinds)
  BY <1>2 DEF Count, Opens, VarKinds
<1>5. ASSUME NEW j
      PROVE  NthOpen(j) = Nth(walk, j)
  <2>1. \A i : Cardinality({h \in 1..i : Opens(h)}) = Count(walk, i, VarKinds)
    BY DEF Count, Opens, VarKinds
  <2> QED  BY <1>3, <2>1 DEF NthOpen, Nth
<1>6. ASSUME NEW j
      PROVE  EnvAt(NthOpen(j)) = At(walk, Tables, Nth(walk, j))
  BY <1>5, MappedAt
<1> QED  BY <1>1, <1>4, <1>6 DEF MappedOuter, Outers, Outer

LEMMA MappedNext == Types' => MappedEnv' = Env' /\ MappedOuter' = Outers'
<1>1. Types' => (MappedEnv = Env /\ MappedOuter = Outers)'
  BY Mapped, PTL
<1> QED  BY <1>1

-----------------------------------------------------------------------------
(* The steps of LexicalScoping, in these terms. *)

\* What is known of a step on a program in which nothing is wrong.
Right == Types /\ Types' /\ error_ = FALSE /\ error_' = FALSE

LEMMA MapErr ==
  ASSUME error_' = TRUE
  PROVE  Lexical!Next
BY DEF Lexical!Next, Lexical!Err

LEMMA MapWalk ==
  ASSUME Right, Env' = Env, Outers' = Outers, named' = Nothing \/ BoundLoop'
  PROVE  Lexical!Next
<1>1. MappedEnv' = MappedEnv /\ MappedOuter' = MappedOuter
  BY Mapped, MappedNext DEF Right
<1>2. MappedNamed' = Nothing
  BY DEF MappedNamed, BoundLoop
<1>3. Lexical!Walk
  BY <1>1, <1>2 DEF Lexical!Walk, MappedEnv, MappedOuter, MappedNamed, Right
<1> QED  BY <1>3 DEF Lexical!Next, Right

LEMMA MapEnter ==
  ASSUME Right, Env' = Env, Outers' = Append(Outers, Env), named' = Nothing
  PROVE  Lexical!Next
<1>1. MappedEnv' = MappedEnv /\ MappedOuter' = Append(MappedOuter, MappedEnv)
  BY Mapped, MappedNext DEF Right
<1>2. MappedNamed' = Nothing
  BY DEF MappedNamed, BoundLoop
<1>3. Lexical!Enter
  BY <1>1, <1>2 DEF Lexical!Enter, MappedEnv, MappedOuter, MappedNamed, Right
<1> QED  BY <1>3 DEF Lexical!Next, Right

LEMMA MapLeave ==
  ASSUME Right, Outers = Append(Outers', Env'), named' = Nothing
  PROVE  Lexical!Next
<1>1. MappedOuter = Append(MappedOuter', MappedEnv')
  BY Mapped, MappedNext DEF Right
<1>2. MappedNamed' = Nothing
  BY DEF MappedNamed, BoundLoop
<1>3. /\ MappedOuter # <<>>
      /\ MappedEnv' = MappedOuter[Len(MappedOuter)]
      /\ MappedOuter' = SubSeq(MappedOuter, 1, Len(MappedOuter) - 1)
  <2> DEFINE c == Count(walk', Len(walk'), VarKinds)
             S == {Outers'[j] : j \in 1..c} \union {Env'}
  <2>1. c \in Nat
    <3>1. Len(walk') \in Nat
      BY DEF Right, Types
    <3> QED  BY <3>1, CountNext
  <2>2. Outers' = [j \in 1..c |-> Outers'[j]]
    BY DEF Outers, Outer
  <2> HIDE DEF c
  <2>3. Outers' \in Seq(S) /\ Env' \in S
    BY <2>1, <2>2
  <2>4. MappedOuter' \in Seq(S) /\ MappedEnv' \in S
    BY <2>3, MappedNext DEF Right
  <2> HIDE DEF S
  <2>5. ASSUME NEW q \in Seq(S), NEW e \in S
        PROVE  /\ Append(q, e) # <<>> /\ Append(q, e)[Len(Append(q, e))] = e
               /\ q = SubSeq(Append(q, e), 1, Len(Append(q, e)) - 1)
    BY <2>5
  <2> QED  BY <1>1, <2>4, <2>5
<1>4. Lexical!Leave
  BY <1>2, <1>3 DEF Lexical!Leave, MappedEnv, MappedOuter, MappedNamed, Right
<1> QED  BY <1>4 DEF Lexical!Next, Right

LEMMA MapDeclare ==
  ASSUME Right, NEW s \in Spaces, NEW n \in Names, NEW d \in Node,
         Env' = Redefined(Env, s, n, d), Outers' = Outers,
         named' = [space |-> s, name |-> n, node |-> d]
  PROVE  Lexical!Next
<1>1. /\ MappedEnv' = [MappedEnv EXCEPT ![s] = [@ EXCEPT ![n] = d]]
      /\ MappedOuter' = MappedOuter
  BY Mapped, MappedNext DEF Right, Redefined
<1>2. named'.space = s /\ s # "loop"
  BY DEF Spaces
<1>3. MappedNamed' = [space |-> s, name |-> n, node |-> d]
  BY <1>2 DEF MappedNamed, BoundLoop
<1>4. [MappedEnv EXCEPT ![s] = [@ EXCEPT ![n] = d]] = [MappedEnv EXCEPT ![s][n] = d]
  OBVIOUS
<1>5. n \in FunName \union VarName \union TypName
  BY DEF Names
<1>6. Lexical!Declare
  BY <1>1, <1>3, <1>4, <1>5
     DEF Lexical!Declare, MappedEnv, MappedOuter, MappedNamed, Right, Spaces
<1> QED  BY <1>6 DEF Lexical!Next, Right

LEMMA MapUse ==
  ASSUME Right, NEW s \in Spaces, NEW n \in Names, Env' = Env, Outers' = Outers,
         Env[s][n] # Unbound, named' = [space |-> s, name |-> n, node |-> Env[s][n]]
  PROVE  Lexical!Next
<1>1. MappedEnv' = MappedEnv /\ MappedOuter' = MappedOuter
  BY Mapped, MappedNext DEF Right
<1>2. named'.space = s /\ s # "loop"
  BY DEF Spaces
<1>3. /\ MappedEnv[s][n] # Unbound
      /\ MappedNamed' = [space |-> s, name |-> n, node |-> MappedEnv[s][n]]
  BY <1>2, Mapped DEF MappedNamed, BoundLoop, Right
<1>4. n \in FunName \union VarName \union TypName
  BY DEF Names
<1>5. Lexical!Use
  BY <1>1, <1>3, <1>4
     DEF Lexical!Use, MappedEnv, MappedOuter, MappedNamed, Right, Spaces
<1> QED  BY <1>5 DEF Lexical!Next, Right

-----------------------------------------------------------------------------
(* What the steps of the Binder do to walk and to the tables. *)

Fitted == Fits(walk, Tables) /\ Fits(walk', Tables')

\* The constructs that begin or end with this step restore no meaning.
Plain(n) == Shares(walk, walk', n) /\ Flat(walk, n) /\ Flat(walk', n)

LEMMA KeptPlain ==
  ASSUME Types, Types', Len(walk') = Len(walk), \A i \in 1..Len(walk) : walk'[i].kind = walk[i].kind
  PROVE  Len(walk) \in Nat /\ Plain(Len(walk))
<1>1. Len(walk) \in Nat
  BY DEF Types
<1>2. ((Len(walk) + 1)..Len(walk)) = {}
  BY <1>1
<1> QED  BY <1>1, <1>2 DEF Plain, Shares, Flat

LEMMA TurnedPlain ==
  ASSUME Types, Types', NEW part, Turned(part)
  PROVE  Len(walk) \in Nat /\ Plain(Len(walk))
<1>1. \A i \in 1..Len(walk) : walk'[i].kind = walk[i].kind
  <2>1. ASSUME NEW i \in 1..Len(walk) PROVE walk'[i].kind = walk[i].kind
    <3>1. i = Len(walk) \/ i \in 1..(Len(walk) - 1)
      BY DEF Types
    <3> QED  BY <3>1 DEF Turned, Survive, Top
  <2> QED  BY <2>1
<1> QED  BY <1>1, KeptPlain DEF Turned

LEMMA PushedShares ==
  ASSUME Types, NEW kind, NEW part, Pushed(kind, part)
  PROVE  /\ Len(walk) \in Nat /\ Len(walk') = Len(walk) + 1
         /\ Shares(walk, walk', Len(walk)) /\ walk'[Len(walk) + 1].kind = kind
<1>1. Len(walk) \in Nat
  BY DEF Types
<1> QED  BY <1>1 DEF Pushed, Survive, Shares

LEMMA PushedPlain ==
  ASSUME Types, NEW kind, NEW part, Pushed(kind, part), kind \notin VarKinds
  PROVE  Len(walk) \in Nat /\ Plain(Len(walk))
<1>1. /\ Len(walk) \in Nat /\ Len(walk') = Len(walk) + 1
      /\ Shares(walk, walk', Len(walk)) /\ walk'[Len(walk) + 1].kind = kind
  BY PushedShares
<1>2. ((Len(walk) + 1)..Len(walk)) = {} /\ ((Len(walk) + 1)..Len(walk')) = {Len(walk) + 1}
  BY <1>1
<1> QED  BY <1>1, <1>2 DEF Plain, Flat, Opening

LEMMA PoppedShares ==
  ASSUME Types, Popped
  PROVE  /\ Len(walk) - 1 \in Nat /\ Len(walk') = Len(walk) - 1
         /\ Shares(walk, walk', Len(walk) - 1) /\ Shares(walk', walk, Len(walk) - 1)
<1>1. Len(walk) \in Nat \ {0}
  BY DEF Types, Popped
<1> QED  BY <1>1 DEF Popped, Survive, Shares

LEMMA PoppedPlain ==
  ASSUME Types, Popped, Top.kind \notin VarKinds
  PROVE  Len(walk) - 1 \in Nat /\ Plain(Len(walk) - 1)
<1> DEFINE n == Len(walk) - 1
<1>1. n \in Nat /\ Len(walk') = n /\ Shares(walk, walk', n) /\ Len(walk) = n + 1
  BY PoppedShares DEF Types
<1> HIDE DEF n
<1>2. ((n + 1)..Len(walk)) = {Len(walk)} /\ ((n + 1)..Len(walk')) = {}
  BY <1>1
<1>3. Flat(walk, n) /\ Flat(walk', n)
  BY <1>2 DEF Flat, Opening, Top
<1>4. Plain(n)
  BY <1>1, <1>3 DEF Plain
<1> QED  BY <1>1, <1>4 DEF n

\* No table changes a meaning.
KeptTables == \A s \in Spaces : Keeps(Tables[s], Tables'[s], Len(Tables[s]))

LEMMA EachKept ==
  ASSUME Keeps(scoped_map_fun_, scoped_map_fun_', Len(scoped_map_fun_)),
         Keeps(scoped_map_var_, scoped_map_var_', Len(scoped_map_var_)),
         Keeps(scoped_map_typ_, scoped_map_typ_', Len(scoped_map_typ_))
  PROVE  KeptTables
BY DEF KeptTables, Spaces, Tables

LEMMA MapsKept == ASSUME UNCHANGED maps PROVE KeptTables
BY KeepsSame, EachKept DEF maps

LEMMA Quiet ==
  ASSUME Right, Fitted, NEW n \in Nat, Plain(n), KeptTables
  PROVE  Env' = Env /\ Outers' = Outers
<1>1. walk \in Seq(Frame) /\ walk' \in Seq(Frame)
  BY DEF Right, Types
<1>2. Here(walk', Tables') = Here(walk, Tables) /\ Outer(walk', Tables') = Outer(walk, Tables)
  BY <1>1, NothingMeant DEF Fitted, Plain, KeptTables
<1> QED  BY <1>2 DEF Env, Outers

\* One table changes one meaning.
OthersStay(s) == \A r \in Spaces : r # s => Tables'[r] = Tables[r]

LEMMA OneRedefined ==
  ASSUME Right, Fitted, NEW n \in Nat, Plain(n), NEW s \in Spaces, NEW k \in Names, NEW d,
         HasPut(Tables[s], Tables'[s], k, d), OthersStay(s),
         OpensBelow(walk, n, KindsOf[s], Len(Tables[s]))
  PROVE  Env' = Redefined(Env, s, k, d) /\ Outers' = Outers
<1>1. walk \in Seq(Frame) /\ walk' \in Seq(Frame)
  BY DEF Right, Types
<1>2. OthersKeep(Tables, Tables', s)
  BY KeepsSame DEF OthersKeep, OthersStay
<1>3. /\ Shares(walk, walk', n) /\ Flat(walk, n) /\ Flat(walk', n)
      /\ Fits(walk, Tables) /\ Fits(walk', Tables')
  BY DEF Fitted, Plain
<1>4. /\ Here(walk', Tables') = Redefined(Here(walk, Tables), s, k, d)
      /\ Outer(walk', Tables') = Outer(walk, Tables)
  BY <1>1, <1>2, <1>3, OneMeant
<1> QED  BY <1>4 DEF Env, Outers

\* Where a construct that opens a scope of the variables stands.
LEMMA OpensVariables ==
  ASSUME NEW w \in Seq(Frame), NEW i \in DOMAIN w, NEW kinds, w[i].kind \in kinds
  PROVE  /\ Depth(w, i, kinds) \in Nat /\ Depth(w, Len(w) + 1, kinds) \in Nat
         /\ Depth(w, i, kinds) < Depth(w, Len(w) + 1, kinds)
<1>1. i \in Nat \ {0} /\ i + 1 \in 1..(Len(w) + 1) /\ (i + 1) - 1 = i /\ Len(w) + 1 \in Nat
  OBVIOUS
<1>2. /\ Count(w, i - 1, kinds) \in Nat
      /\ Count(w, i, kinds) = Count(w, i - 1, kinds) + 1
  BY <1>1, Counted DEF One
<1>3. Depth(w, i, kinds) \in Nat /\ Depth(w, i + 1, kinds) = Depth(w, i, kinds) + 1
  BY <1>1, <1>2 DEF Depth
<1>4. /\ Depth(w, Len(w) + 1, kinds) \in Nat
      /\ Depth(w, i + 1, kinds) <= Depth(w, Len(w) + 1, kinds)
  BY <1>1, DepthGrows
<1> QED  BY <1>3, <1>4

-----------------------------------------------------------------------------
(* Where chunks stand: in a let, or at the bottom; and nothing is visited  *)
(* within a chunk of types but one of its declarations, which declares     *)
(* nothing.                                                                *)

Stand(w) ==
  \A i \in DOMAIN w :
    /\ w[i].kind \in Chunks /\ i # 1 => w[i - 1].kind = "let"
    /\ w[i].kind = "typchunk" =>
         i = Len(w) \/ (i + 1 = Len(w) /\ w[i + 1].kind = "typedec")

\* What may be visited where the visitor is.
Rightful(kind) ==
  /\ kind \in Chunks /\ walk # <<>> => Top.kind = "let"
  /\ walk # <<>> => Top.kind # "typedec"
  /\ walk # <<>> /\ Top.kind = "typchunk" => kind = "typedec"

SameKinds == Len(walk') = Len(walk) /\ \A i \in 1..Len(walk) : walk'[i].kind = walk[i].kind

Moves ==
  \/ SameKinds
  \/ Popped
  \/ \E kind, part : /\ Pushed(kind, part) /\ Rightful(kind)
                     /\ walk'[Len(walk) + 1].todo = <<>>

LEMMA StandSame ==
  ASSUME Types, Types', Stand(walk), SameKinds
  PROVE  Stand(walk')
<1>1. /\ DOMAIN walk = 1..Len(walk) /\ DOMAIN walk' = 1..Len(walk) /\ Len(walk) \in Nat
      /\ Len(walk') = Len(walk)
  BY DEF Types, SameKinds
<1>2. \A i \in 1..Len(walk) : walk'[i].kind = walk[i].kind
  BY DEF SameKinds
<1>3. ASSUME NEW i \in 1..Len(walk), walk[i].kind \in Chunks, i # 1
      PROVE  walk'[i - 1].kind = "let"
  <2>1. i - 1 \in 1..Len(walk)
    BY <1>3
  <2> QED  BY <1>1, <1>2, <1>3, <2>1 DEF Stand
<1>4. ASSUME NEW i \in 1..Len(walk), walk[i].kind = "typchunk"
      PROVE  i = Len(walk) \/ (i + 1 = Len(walk) /\ walk'[i + 1].kind = "typedec")
  <2>1. i = Len(walk) \/ (i + 1 = Len(walk) /\ walk[i + 1].kind = "typedec")
    BY <1>1, <1>4 DEF Stand
  <2>2. i + 1 = Len(walk) => i + 1 \in 1..Len(walk)
    BY <1>1
  <2> QED  BY <1>2, <2>1, <2>2
<1> QED  BY <1>1, <1>2, <1>3, <1>4 DEF Stand

LEMMA StandPopped ==
  ASSUME Types, Types', Stand(walk), Popped
  PROVE  Stand(walk')
<1> DEFINE n == Len(walk) - 1
<1>1. /\ DOMAIN walk = 1..(n + 1) /\ DOMAIN walk' = 1..n /\ n \in Nat
      /\ Len(walk') = n /\ Len(walk) = n + 1
      /\ \A i \in 1..n : walk'[i].kind = walk[i].kind
  BY DEF Types, Popped, Survive
<1> HIDE DEF n
<1>2. ASSUME NEW i \in 1..n, walk[i].kind \in Chunks, i # 1
      PROVE  walk'[i - 1].kind = "let"
  <2>1. i - 1 \in 1..n /\ i \in 1..(n + 1)
    BY <1>1, <1>2
  <2> QED  BY <1>1, <1>2, <2>1 DEF Stand
<1>3. ASSUME NEW i \in 1..n, walk[i].kind = "typchunk"
      PROVE  i = n
  <2>1. i \in 1..(n + 1)
    BY <1>1
  <2>2. i = n + 1 \/ i + 1 = n + 1
    BY <1>1, <1>3, <2>1 DEF Stand
  <2> QED  BY <1>1, <2>2
<1> QED  BY <1>1, <1>2, <1>3 DEF Stand

LEMMA StandPushed ==
  ASSUME Types, Types', Stand(walk), NEW kind, NEW part, Pushed(kind, part), Rightful(kind)
  PROVE  Stand(walk')
<1> DEFINE n == Len(walk)
<1>1. /\ DOMAIN walk = 1..n /\ DOMAIN walk' = 1..(n + 1) /\ n \in Nat
      /\ Len(walk') = n + 1 /\ walk'[n + 1].kind = kind
      /\ \A i \in 1..n : walk'[i].kind = walk[i].kind
      /\ walk # <<>> <=> n # 0
  BY DEF Types, Pushed, Survive
<1>2. Top = walk[n]
  BY DEF Top
<1> HIDE DEF n
<1>3. ASSUME NEW i \in 1..(n + 1), walk'[i].kind \in Chunks, i # 1
      PROVE  walk'[i - 1].kind = "let"
  <2>1. CASE i \in 1..n
    <3>1. i - 1 \in 1..n
      BY <1>1, <1>3, <2>1
    <3> QED  BY <1>1, <1>3, <2>1, <3>1 DEF Stand
  <2>2. CASE i = n + 1
    <3>1. n # 0 /\ n \in 1..n /\ i - 1 = n /\ kind \in Chunks
      BY <1>1, <1>3, <2>2
    <3> QED  BY <1>1, <1>2, <3>1 DEF Rightful
  <2> QED  BY <1>1, <2>1, <2>2
<1>4. ASSUME NEW i \in 1..(n + 1), walk'[i].kind = "typchunk", i # n + 1
      PROVE  i = n /\ kind = "typedec"
  <2>1. i \in 1..n /\ n \in 1..n /\ n # 0 /\ i \in Nat
    BY <1>1, <1>4
  <2>2. i = n \/ (i + 1 = n /\ walk[i + 1].kind = "typedec")
    BY <1>1, <1>4, <2>1 DEF Stand, n
  <2>3. walk[n].kind # "typedec" /\ (walk[n].kind = "typchunk" => kind = "typedec")
    BY <1>1, <1>2, <2>1 DEF Rightful
  <2>4. i + 1 # n \/ walk[i + 1].kind # "typedec"
    BY <2>3
  <2> QED  BY <1>1, <1>4, <2>1, <2>2, <2>3, <2>4
<1> QED  BY <1>1, <1>3, <1>4 DEF Stand

LEMMA KeptKinds == ASSUME Kept PROVE SameKinds
BY DEF Kept, Survive, SameKinds

LEMMA TurnedKinds == ASSUME Types, NEW part, Turned(part) PROVE SameKinds
<1>1. ASSUME NEW i \in 1..Len(walk) PROVE walk'[i].kind = walk[i].kind
  <2>1. i = Len(walk) \/ i \in 1..(Len(walk) - 1)
    BY DEF Types
  <2> QED  BY <2>1 DEF Turned, Survive, Top
<1> QED  BY <1>1 DEF Turned, SameKinds

\* Entering a construct.
LEMMA Entered ==
  ASSUME Types, NEW kind \in Kind, NEW part \in Part, Enter(kind, part)
  PROVE  Pushed(kind, part) /\ walk'[Len(walk) + 1].todo = <<>>
<1> DEFINE new == [kind |-> kind, part |-> part, todo |-> <<>>]
<1>1. new \in Frame /\ new.todo = <<>> /\ walk \in Seq(Frame)
  BY DEF Frame, Types
<1>2. walk' = Append(walk, new)
  BY DEF Enter
<1> HIDE DEF new
<1> QED  BY <1>1, <1>2, EnterWalk

LEMMA Visited ==
  ASSUME Types, NEW chunk \in Chunks, NEW kind \in Kind, NEW part \in Part,
         Visit(chunk, kind, part)
  PROVE  /\ walk # <<>> /\ Top.kind = chunk /\ Top \in Frame /\ Head(Top.todo) \in Dec
         /\ Top.todo \in Seq(Dec) /\ Top.todo # <<>>
         /\ Pushed(kind, part) /\ walk'[Len(walk) + 1].todo = <<>>
         /\ walk'[Len(walk)].todo = Tail(Top.todo)
<1> DEFINE top == [Top EXCEPT !.part = "body", !.todo = Tail(@)]
           new == [kind |-> kind, part |-> part, todo |-> <<>>]
<1>1. /\ walk # <<>> /\ Top.kind = chunk /\ Top.todo # <<>> /\ walk \in Seq(Frame)
      /\ walk' = Append([walk EXCEPT ![Len(walk)] = top], new)
  BY DEF Visit, In, Top, Types
<1>2. Top \in Frame /\ Len(walk) \in 1..Len(walk) /\ Top.todo \in Seq(Dec)
  <2> HIDE DEF top, new
  <2>1. Top \in Frame /\ Len(walk) \in 1..Len(walk)
    BY <1>1 DEF Top
  <2> QED  BY <2>1 DEF Frame
<1>3. top \in Frame /\ new \in Frame /\ new.todo = <<>> /\ top.todo = Tail(Top.todo)
  <2>1. Tail(Top.todo) \in Seq(Dec)
    BY <1>1, <1>2
  <2>2. top \in Frame /\ top.todo = Tail(Top.todo)
    BY <1>2, <2>1 DEF Frame, Part
  <2>3. new \in Frame /\ new.todo = <<>>
    BY DEF Frame
  <2> QED  BY <2>2, <2>3
<1>4. Pushed(kind, part) /\ Head(Top.todo) \in Dec
  BY <1>1, VisitWalk
<1> HIDE DEF top, new
<1>5. walk'[Len(walk) + 1] = new /\ walk'[Len(walk)] = top
  BY <1>1, <1>2, <1>3
<1> QED  BY <1>1, <1>2, <1>3, <1>4, <1>5

LEMMA StepMoves ==
  ASSUME Types, Next
  PROVE  Moves
<1>0. walk \in Seq(Frame) /\ decs \in 0..MaxDecs
  BY DEF Types
<1> USE DEF Moves
<1>1. ASSUME FunctionChunk PROVE Moves
  <2>1. Enter("funchunk", "decs") /\ Rightful("funchunk")
    BY <1>1 DEF FunctionChunk, AtDecs, In, Rightful
  <2> QED  BY <2>1, Entered DEF Kind, Part
<1>2. ASSUME TypeChunk PROVE Moves
  <2>1. Enter("typchunk", "decs") /\ Rightful("typchunk")
    BY <1>2 DEF TypeChunk, AtDecs, In, Rightful
  <2> QED  BY <2>1, Entered DEF Kind, Part
<1>3. ASSUME NEW n, FunctionHeader(n) \/ TypeHeader(n) \/ Formal(n), n \in Names PROVE Moves
  <2>1. /\ walk # <<>> /\ decs < MaxDecs
        /\ walk' = [walk EXCEPT ![Len(walk)].todo =
                      Append(@, [name |-> n, node |-> decs + 1])]
    BY <1>3 DEF FunctionHeader, TypeHeader, Header, Formal, In, Declares
  <2>2. Kept
    BY <1>0, <1>3, <2>1, HeaderWalk
  <2> QED  BY <2>2, KeptKinds
<1>4. ASSUME FunctionDec PROVE Moves
  <2>1. Visit("funchunk", "fundec", "formals")
    BY <1>4 DEF FunctionDec
  <2>2. Rightful("fundec")
    BY <2>1 DEF Visit, In, Rightful, Chunks
  <2> QED  BY <2>1, <2>2, Visited DEF Kind, Part, Chunks
<1>5. ASSUME TypeDec PROVE Moves
  <2>1. Visit("typchunk", "typedec", "body")
    BY <1>5 DEF TypeDec
  <2>2. Rightful("typedec")
    BY <2>1 DEF Visit, In, Rightful, Chunks
  <2> QED  BY <2>1, <2>2, Visited DEF Kind, Part, Chunks
<1>6. ASSUME EndOfFormals \/ EndOfDecs \/ LoopBody PROVE Moves
  <2>1. GoTo("body") /\ walk # <<>> /\ "body" \in Part
    BY <1>6 DEF EndOfFormals, EndOfDecs, LoopBody, In, Part
  <2> QED  BY <1>0, <2>1, GoToWalk, TurnedKinds
<1>7. ASSUME LeaveFunctionDec \/ LeaveDec \/ LeaveLet \/ LeaveLoop \/ LeaveCall PROVE Moves
  <2>1. walk # <<>> /\ Return
    BY <1>7 DEF LeaveFunctionDec, LeaveDec, LeaveLet, LeaveLoop, LeaveCall, In
  <2> QED  BY <1>0, <2>1, ReturnWalk
<1>8. ASSUME LeaveVarDec PROVE Moves
  BY <1>0, <1>8, LeaveVarWalk DEF LeaveVarDec, In
<1>9. ASSUME NEW n, VarDec(n) PROVE Moves
  <2>1. Enter("vardec", "body") /\ Rightful("vardec")
    BY <1>9 DEF VarDec, AtDecs, In, Rightful, Chunks
  <2> QED  BY <2>1, Entered DEF Kind, Part
<1>10. ASSUME LetExp PROVE Moves
  <2>1. Enter("let", "decs") /\ Rightful("let")
    BY <1>10 DEF LetExp, AtExp, In, Rightful, Chunks
  <2> QED  BY <2>1, Entered DEF Kind, Part
<1>11. ASSUME NEW kind \in LoopKinds, NEW part \in Part, EnterLoop(kind, part) PROVE Moves
  <2>1. Enter(kind, part) /\ Rightful(kind) /\ kind \in Kind
    BY <1>11 DEF EnterLoop, AtExp, In, Rightful, Chunks, LoopKinds, Kind
  <2> QED  BY <2>1, Entered
<1>12. ASSUME NEW n, CallExp(n) PROVE Moves
  <2>1. Enter("call", "body") /\ Rightful("call")
    BY <1>12 DEF CallExp, AtExp, In, Rightful, Chunks
  <2> QED  BY <2>1, Entered DEF Kind, Part
<1>13. ASSUME UNCHANGED walk PROVE Moves
  BY <1>13, SameWalk, KeptKinds
<1>14. FunName \subseteq Names /\ TypName \subseteq Names /\ VarName \subseteq Names
  BY DEF Names
<1>15. /\ ForExp => EnterLoop("for", "vardec") /\ "for" \in LoopKinds /\ "vardec" \in Part
       /\ WhileExp => EnterLoop("while", "test") /\ "while" \in LoopKinds /\ "test" \in Part
  BY DEF ForExp, WhileExp, LoopKinds, Part
<1>16. \A n : SimpleVar(n) \/ NameTy(n) \/ BreakExp \/ Finish => UNCHANGED walk
  BY DEF SimpleVar, NameTy, BreakExp, Finish
<1> QED
  BY <1>1, <1>2, <1>3, <1>4, <1>5, <1>6, <1>7, <1>8, <1>9, <1>10, <1>11, <1>12, <1>13,
     <1>14, <1>15, <1>16 DEF Next

LEMMA StepStand ==
  ASSUME Types, Types', Stand(walk), Next
  PROVE  Stand(walk')
BY StepMoves, StandSame, StandPopped, StandPushed DEF Moves

LEMMA AlwaysStand == Spec => []Stand(walk)
<1>1. Init => Stand(walk)
  BY DEF Init, Stand
<1>2. Types /\ Types' /\ Stand(walk) /\ [Next]_vars => Stand(walk)'
  <2>1. Stand(walk) /\ UNCHANGED vars => Stand(walk')
    BY DEF vars
  <2> QED  BY <2>1, StepStand
<1> QED  BY <1>1, <1>2, AlwaysTypes, PTL DEF Spec

-----------------------------------------------------------------------------
(* Chunks of types: as nothing is declared among the types while one of    *)
(* them is visited, each still means its declaration.                      *)

ListHolds(todo, table) ==
  /\ \A j \in DOMAIN todo : Fun!GetIn(table, Len(table), todo[j].name) = todo[j].node
  /\ \A j, k \in DOMAIN todo : todo[j].name = todo[k].name => j = k

TypesHold(w, table) ==
  \A i \in DOMAIN w : w[i].kind = "typchunk" => ListHolds(w[i].todo, table)

LEMMA PutIs ==
  ASSUME NEW s, IsTable(s), NEW k, NEW d,
         NEW t, t = [s EXCEPT ![Len(s)] = Fun!With(@, k, d)]
  PROVE  HasPut(s, t, k, d)
<1> DEFINE w == Fun!With(s[Len(s)], k, d)
<1>1. Len(s) \in DOMAIN s /\ DOMAIN s = 1..Len(s) /\ t = [s EXCEPT ![Len(s)] = w]
  BY DEF IsTable
<1> HIDE DEF w
<1>2. t[Len(s)] = w /\ \A i \in 1..(Len(s) - 1) : t[i] = s[i]
  BY <1>1
<1> QED  BY <1>2 DEF HasPut, w

LEMMA VarPutIs ==
  ASSUME Types, NEW k, NEW d, Var!put(k, d)
  PROVE  HasPut(scoped_map_var_, scoped_map_var_', k, d)
BY PutIs DEF Types, Var!put, Var!With, Fun!With

LEMMA TypPutIs ==
  ASSUME Types, NEW k, NEW d, Typ!put(k, d)
  PROVE  HasPut(scoped_map_typ_, scoped_map_typ_', k, d)
BY PutIs DEF Types, Typ!put, Typ!With, Fun!With

LEMMA ListPut ==
  ASSUME NEW todo \in Seq(Dec), NEW s, IsTable(s), NEW n, NEW m, NEW t, HasPut(s, t, n, m),
         Len(t) = Len(s), ListHolds(todo, s), \A j \in DOMAIN todo : todo[j].name # n,
         NEW d \in Dec, d.name = n, d.node = m
  PROVE  ListHolds(Append(todo, d), t)
<1> DEFINE l == Append(todo, d)
<1>1. /\ DOMAIN todo = 1..Len(todo) /\ Len(todo) \in Nat /\ DOMAIN l = 1..(Len(todo) + 1)
      /\ l[Len(todo) + 1] = d /\ \A j \in 1..Len(todo) : l[j] = todo[j]
  OBVIOUS
<1> HIDE DEF l
<1>2. /\ \A j : j # n => Fun!GetIn(t, Len(t), j) = Fun!GetIn(s, Len(s), j)
      /\ Fun!GetIn(t, Len(t), n) = m
  BY GetAfterPut
<1>3. ASSUME NEW j \in DOMAIN l
      PROVE  Fun!GetIn(t, Len(t), l[j].name) = l[j].node
  <2>1. CASE j = Len(todo) + 1
    BY <1>1, <1>2, <2>1
  <2>2. CASE j \in 1..Len(todo)
    BY <1>1, <1>2, <2>2 DEF ListHolds
  <2> QED  BY <1>1, <2>1, <2>2
<1>4. ASSUME NEW j \in DOMAIN l, NEW k \in DOMAIN l, l[j].name = l[k].name
      PROVE  j = k
  <2>1. CASE j \in 1..Len(todo) /\ k \in 1..Len(todo)
    BY <1>1, <1>4, <2>1 DEF ListHolds
  <2>2. CASE j = Len(todo) + 1 \/ k = Len(todo) + 1
    BY <1>1, <1>4, <2>2
  <2> QED  BY <1>1, <2>1, <2>2
<1>5. ListHolds(l, t)
  BY <1>3, <1>4 DEF ListHolds
<1> QED  BY <1>5 DEF l

LEMMA ListTail ==
  ASSUME NEW todo \in Seq(Dec), todo # <<>>, NEW s, IsTable(s), NEW t,
         HasPut(s, t, Head(todo).name, Head(todo).node), Len(t) = Len(s), ListHolds(todo, s)
  PROVE  ListHolds(Tail(todo), t) /\ Keeps(s, t, Len(s))
<1> DEFINE l == Tail(todo)
           d == Head(todo)
<1>1. /\ DOMAIN todo = 1..Len(todo) /\ Len(todo) \in Nat /\ DOMAIN l = 1..(Len(todo) - 1)
      /\ d = todo[1] /\ 1 \in 1..Len(todo)
      /\ \A j \in 1..(Len(todo) - 1) : l[j] = todo[j + 1] /\ j + 1 \in 1..Len(todo) /\ j + 1 # 1
  OBVIOUS
<1> HIDE DEF l
<1>2. Fun!GetIn(s, Len(s), d.name) = d.node
  BY <1>1 DEF ListHolds
<1>3. HasPut(s, t, d.name, d.node)
  OBVIOUS
<1> HIDE DEF d
<1>4. Keeps(s, t, Len(s))
  BY <1>2, <1>3, PutAgain
<1>5. \A j : Fun!GetIn(t, Len(t), j) = Fun!GetIn(s, Len(s), j)
  BY <1>2, <1>3, GetAfterPut
<1>6. ASSUME NEW j \in DOMAIN l
      PROVE  Fun!GetIn(t, Len(t), l[j].name) = l[j].node
  BY <1>1, <1>5 DEF ListHolds
<1>7. ASSUME NEW j \in DOMAIN l, NEW k \in DOMAIN l, l[j].name = l[k].name
      PROVE  j = k
  <2>1. j + 1 = k + 1
    BY <1>1, <1>7 DEF ListHolds
  <2> QED  BY <1>1, <2>1
<1>8. ListHolds(l, t)
  BY <1>6, <1>7 DEF ListHolds
<1> QED  BY <1>4, <1>8 DEF l

\* Away from chunks of types.
Elsewhere == walk # <<>> => Top.kind \notin {"typchunk", "typedec"}

LEMMA ElsewhereHolds ==
  ASSUME Types, Types', Stand(walk), Moves, Elsewhere
  PROVE  TypesHold(walk', scoped_map_typ_')
<1>1. ASSUME NEW i \in DOMAIN walk
      PROVE  walk[i].kind # "typchunk"
  <2>1. walk # <<>> /\ Len(walk) \in Nat /\ i \in 1..Len(walk)
    BY DEF Types
  <2>2. walk[Len(walk)].kind \notin {"typchunk", "typedec"}
    BY <2>1 DEF Elsewhere, Top
  <2>3. walk[i].kind = "typchunk" =>
          i = Len(walk) \/ (i + 1 = Len(walk) /\ walk[i + 1].kind = "typedec")
    BY DEF Stand
  <2>4. i + 1 = Len(walk) => walk[i + 1].kind = walk[Len(walk)].kind
    OBVIOUS
  <2> QED  BY <2>2, <2>3, <2>4
<1>2. ASSUME NEW i \in DOMAIN walk'
      PROVE  walk'[i].kind # "typchunk" \/ walk'[i].todo = <<>>
  <2>1. DOMAIN walk = 1..Len(walk) /\ DOMAIN walk' = 1..Len(walk') /\ Len(walk) \in Nat
    BY DEF Types
  <2>2. CASE SameKinds
    BY <1>1, <2>1, <2>2 DEF SameKinds
  <2>3. CASE Popped
    <3>1. i \in 1..(Len(walk) - 1) /\ i \in DOMAIN walk
      BY <2>1, <2>3 DEF Popped
    <3>2. walk'[i].kind = walk[i].kind
      BY <2>3, <3>1 DEF Popped, Survive
    <3> QED  BY <1>1, <3>1, <3>2
  <2>4. ASSUME NEW kind, NEW part, Pushed(kind, part), walk'[Len(walk) + 1].todo = <<>>
        PROVE  walk'[i].kind # "typchunk" \/ walk'[i].todo = <<>>
    <3>1. i = Len(walk) + 1 \/ i \in 1..Len(walk)
      BY <2>1, <2>4 DEF Pushed
    <3>2. i \in 1..Len(walk) => walk'[i].kind = walk[i].kind
      BY <2>4 DEF Pushed, Survive
    <3> QED  BY <1>1, <2>1, <2>4, <3>1, <3>2
  <2> QED  BY <2>2, <2>3, <2>4 DEF Moves
<1>3. ListHolds(<<>>, scoped_map_typ_')
  BY DEF ListHolds
<1> QED  BY <1>2, <1>3 DEF TypesHold

\* Where the chunk of types is that is being visited.
LEMMA OneTypeChunk ==
  ASSUME Types, Stand(walk), walk # <<>>, NEW i \in DOMAIN walk, walk[i].kind = "typchunk",
         Top.kind = "typchunk"
  PROVE  i = Len(walk)
<1>1. Len(walk) \in Nat /\ i \in 1..Len(walk)
  BY DEF Types
<1>2. i = Len(walk) \/ (i + 1 = Len(walk) /\ walk[i + 1].kind = "typedec")
  BY DEF Stand
<1> QED  BY <1>1, <1>2 DEF Top

LEMMA TypeHeaderHolds ==
  ASSUME Types, Types', Stand(walk), TypesHold(walk, scoped_map_typ_),
         NEW n \in TypName, TypeHeader(n), error_' = FALSE
  PROVE  TypesHold(walk', scoped_map_typ_')
<1> DEFINE d == [name |-> n, node |-> decs + 1]
           new == [Top EXCEPT !.todo = Append(@, d)]
<1>1. /\ walk # <<>> /\ Top.kind = "typchunk" /\ decs < MaxDecs /\ n \notin Declared(Top)
      /\ walk' = [walk EXCEPT ![Len(walk)].todo = Append(@, d)] /\ Typ!put(n, decs + 1)
  BY DEF TypeHeader, Header, In, Declares
<1>2. walk \in Seq(Frame) /\ decs \in 0..MaxDecs
  BY DEF Types
<1>3. n \in Names /\ decs + 1 \in Node /\ d \in Dec /\ d.name = n /\ d.node = decs + 1
  BY <1>1, <1>2, BinderAssumption DEF Names, Node, Dec
<1>4. Top \in Frame /\ walk' = [walk EXCEPT ![Len(walk)] = new]
  BY <1>1, <1>2 DEF Top
<1> HIDE DEF d
<1>5. Top.todo \in Seq(Dec)
  BY <1>4 DEF Frame
<1>6. new.todo = Append(Top.todo, d) /\ new.kind = Top.kind
  BY <1>4 DEF Frame
<1> HIDE DEF new
<1>7. Len(walk') = Len(walk) /\ walk'[Len(walk)] = new /\ DOMAIN walk' = DOMAIN walk
  BY <1>1, <1>2, <1>4
<1>8. \A i \in DOMAIN walk : i # Len(walk) => walk'[i] = walk[i]
  BY <1>1, <1>2, <1>4
<1>9. ListHolds(Append(Top.todo, d), scoped_map_typ_')
  <2>1. IsTable(scoped_map_typ_) /\ HasPut(scoped_map_typ_, scoped_map_typ_', n, decs + 1)
    BY <1>1, TypPutIs DEF Types
  <2>2. Len(scoped_map_typ_') = Len(scoped_map_typ_)
    BY <1>1, <1>3, <2>1, TypTable
  <2>3. ListHolds(Top.todo, scoped_map_typ_)
    <3>1. Len(walk) \in DOMAIN walk
      BY <1>1, <1>2
    <3> QED  BY <1>1, <3>1 DEF TypesHold, Top
  <2>4. \A j \in DOMAIN Top.todo : Top.todo[j].name # n
    BY <1>1 DEF Declared
  <2> QED  BY <1>3, <1>5, <2>1, <2>2, <2>3, <2>4, ListPut
<1>10. ASSUME NEW i \in DOMAIN walk', walk'[i].kind = "typchunk"
       PROVE  i = Len(walk)
  BY <1>1, <1>7, <1>8, <1>10, OneTypeChunk
<1> QED  BY <1>6, <1>7, <1>9, <1>10 DEF TypesHold

\* The type visited now means its declaration already.
LEMMA TypeDecKeeps ==
  ASSUME Types, TypesHold(walk, scoped_map_typ_), TypeDec
  PROVE  /\ ListHolds(Tail(Top.todo), scoped_map_typ_')
         /\ Keeps(scoped_map_typ_, scoped_map_typ_', Len(scoped_map_typ_))
<1>1. Visit("typchunk", "typedec", "body")
  BY DEF TypeDec
<1>2. /\ walk # <<>> /\ Top.kind = "typchunk" /\ Head(Top.todo) \in Dec
      /\ Top.todo \in Seq(Dec) /\ Top.todo # <<>>
  BY <1>1, Visited DEF Kind, Part, Chunks
<1>3. Head(Top.todo).name \in Names /\ Head(Top.todo).node \in Node
  BY <1>2 DEF Dec, Names
<1>4. Typ!put(Head(Top.todo).name, Head(Top.todo).node)
  BY DEF TypeDec
<1>5. /\ IsTable(scoped_map_typ_)
      /\ HasPut(scoped_map_typ_, scoped_map_typ_', Head(Top.todo).name, Head(Top.todo).node)
  BY <1>4, TypPutIs DEF Types
<1>6. Len(scoped_map_typ_') = Len(scoped_map_typ_)
  BY <1>3, <1>4, <1>5, TypTable
<1>7. ListHolds(Top.todo, scoped_map_typ_)
  <2>1. Len(walk) \in DOMAIN walk
    BY <1>2 DEF Types
  <2> QED  BY <1>2, <2>1 DEF TypesHold, Top
<1> QED  BY <1>2, <1>5, <1>6, <1>7, ListTail

LEMMA TypeDecHolds ==
  ASSUME Types, Types', Stand(walk), TypesHold(walk, scoped_map_typ_), TypeDec
  PROVE  TypesHold(walk', scoped_map_typ_')
<1>1. Visit("typchunk", "typedec", "body")
  BY DEF TypeDec
<1>2. /\ walk # <<>> /\ Top.kind = "typchunk"
      /\ Pushed("typedec", "body") /\ walk'[Len(walk)].todo = Tail(Top.todo)
  BY <1>1, Visited DEF Kind, Part, Chunks
<1>3. DOMAIN walk' = 1..(Len(walk) + 1) /\ DOMAIN walk = 1..Len(walk) /\ Len(walk) \in Nat
  BY <1>2 DEF Types, Pushed
<1>4. ASSUME NEW i \in DOMAIN walk', walk'[i].kind = "typchunk"
      PROVE  i = Len(walk)
  <2>1. i # Len(walk) + 1
    BY <1>2, <1>4 DEF Pushed
  <2>2. i \in DOMAIN walk /\ walk[i].kind = "typchunk"
    BY <1>2, <1>3, <1>4, <2>1 DEF Pushed, Survive
  <2> QED  BY <1>2, <2>2, OneTypeChunk
<1> QED  BY <1>2, <1>4, TypeDecKeeps DEF TypesHold

LEMMA LeaveDecHolds ==
  ASSUME Types, Types', TypesHold(walk, scoped_map_typ_), LeaveDec
  PROVE  TypesHold(walk', scoped_map_typ_')
<1> DEFINE n == Len(walk) - 1
<1>1. walk # <<>> /\ Return /\ scoped_map_typ_' = scoped_map_typ_ /\ walk \in Seq(Frame)
  BY DEF LeaveDec, In, maps, Types
<1>2. n \in Nat /\ n \in Int /\ 1 \in Int /\ \A i \in 1..n : walk[i] \in Frame /\ i \in DOMAIN walk
  BY <1>1
<1>3. walk' = SubSeq(walk, 1, n)
  BY <1>1 DEF Return
<1> HIDE DEF n
<1>4. /\ SubSeq(walk, 1, n) \in Seq(Frame)
      /\ Len(SubSeq(walk, 1, n)) = IF 1 <= n THEN n - 1 + 1 ELSE 0
      /\ \A i \in 1..n - 1 + 1 : SubSeq(walk, 1, n)[i] = walk[1 + i - 1]
  BY <1>2, SubSeqProperties
<1>5. DOMAIN walk' = 1..n /\ \A i \in 1..n : walk'[i] = walk[i]
  BY <1>2, <1>3, <1>4
<1> QED  BY <1>1, <1>2, <1>5 DEF TypesHold

\* What may happen in a chunk of types.
LEMMA InTypes ==
  ASSUME Next, walk # <<>>, Top.kind \in {"typchunk", "typedec"}
  PROVE  \/ \E n \in TypName : TypeHeader(n) \/ NameTy(n)
         \/ TypeDec \/ LeaveDec
<1>1. ASSUME NEW n \in FunName, FunctionHeader(n) \/ CallExp(n) PROVE FALSE
  BY <1>1 DEF FunctionHeader, Header, CallExp, AtExp, In
<1>2. ASSUME NEW n \in VarName, Formal(n) \/ VarDec(n) \/ SimpleVar(n) PROVE FALSE
  BY <1>2 DEF Formal, VarDec, SimpleVar, AtExp, AtDecs, In
<1>3. ASSUME FunctionChunk \/ TypeChunk \/ FunctionDec \/ EndOfFormals \/ LeaveFunctionDec PROVE FALSE
  BY <1>3 DEF FunctionChunk, TypeChunk, FunctionDec, Visit, EndOfFormals, LeaveFunctionDec, AtDecs, In
<1>4. ASSUME LeaveVarDec \/ LetExp \/ EndOfDecs \/ LeaveLet \/ ForExp \/ WhileExp PROVE FALSE
  BY <1>4 DEF LeaveVarDec, LetExp, EndOfDecs, LeaveLet, ForExp, WhileExp, EnterLoop, AtExp, In
<1>5. ASSUME LoopBody \/ LeaveLoop \/ LeaveCall \/ BreakExp \/ Finish PROVE FALSE
  BY <1>5 DEF LoopBody, LeaveLoop, LeaveCall, BreakExp, Finish, AtExp, In
<1> QED  BY <1>1, <1>2, <1>3, <1>4, <1>5 DEF Next

LEMMA StepTypesHold ==
  ASSUME Types, Types', Stand(walk), TypesHold(walk, scoped_map_typ_), Next, error_' = FALSE
  PROVE  TypesHold(walk', scoped_map_typ_')
<1>1. CASE Elsewhere
  BY <1>1, StepMoves, ElsewhereHolds
<1>2. CASE ~Elsewhere
  <2>1. ASSUME NEW n \in TypName, NameTy(n) PROVE TypesHold(walk', scoped_map_typ_')
    BY <2>1 DEF NameTy, maps
  <2> QED  BY <1>2, <2>1, InTypes, TypeHeaderHolds, TypeDecHolds, LeaveDecHolds DEF Elsewhere
<1> QED  BY <1>1, <1>2

LEMMA AlwaysTypesHold == Spec => [](error_ \/ TypesHold(walk, scoped_map_typ_))
<1> DEFINE Inv == error_ \/ TypesHold(walk, scoped_map_typ_)
<1>1. Init => Inv
  BY DEF Init, TypesHold
<1>2. Types /\ Types' /\ Stand(walk) /\ Inv /\ [Next]_vars => Inv'
  <2> SUFFICES ASSUME Types, Types', Stand(walk), Inv, [Next]_vars PROVE Inv'
    OBVIOUS
  <2>1. CASE error_
    BY <2>1, ErrorStays
  <2>2. CASE UNCHANGED vars
    BY <2>2 DEF vars, maps
  <2>3. CASE ~error_ /\ Next
    <3>1. TypesHold(walk, scoped_map_typ_) /\ error_' \in BOOLEAN
      BY <2>3 DEF Types
    <3>2. ASSUME error_' = FALSE PROVE TypesHold(walk', scoped_map_typ_')
      BY <2>3, <3>1, <3>2, StepTypesHold
    <3> QED  BY <3>1, <3>2
  <2> QED  BY <2>1, <2>2, <2>3
<1> QED  BY <1>1, <1>2, AlwaysTypes, AlwaysStand, PTL DEF Spec

-----------------------------------------------------------------------------
(* Each kind of step, in these terms. *)

\* A declaration goes to a deeper scope than any meaning to restore.
LEMMA VariablesOpen ==
  ASSUME Types
  PROVE  OpensBelow(walk, Len(walk), VarKinds, Depth(walk, Len(walk) + 1, VarKinds))
<1> SUFFICES ASSUME NEW i \in 1..Len(walk), Opening(walk, i)
             PROVE  Depth(walk, i, VarKinds) < Depth(walk, Len(walk) + 1, VarKinds)
  BY DEF OpensBelow
<1>1. walk \in Seq(Frame) /\ i \in DOMAIN walk /\ walk[i].kind \in VarKinds
  BY DEF Types, Opening
<1> QED  BY <1>1, OpensVariables

LEMMA ChunksOpen ==
  ASSUME Types, Stand(walk), walk # <<>>, Top.kind \in Chunks, NEW kinds, "let" \in kinds
  PROVE  OpensBelow(walk, Len(walk), kinds, Depth(walk, Len(walk) + 1, kinds))
<1> DEFINE n == Len(walk)
<1> SUFFICES ASSUME NEW i \in 1..n, Opening(walk, i)
             PROVE  Depth(walk, i, kinds) < Depth(walk, n + 1, kinds)
  BY DEF OpensBelow
<1>1. walk \in Seq(Frame) /\ n \in Nat \ {0} /\ n \in DOMAIN walk /\ walk[n].kind \in Chunks
  BY DEF Types, Top
<1>2. i # n
  BY <1>1 DEF Opening, VarKinds, Chunks
<1>3. n # 1 /\ n - 1 \in DOMAIN walk /\ n - 1 \in Nat /\ i \in 1..(n - 1)
  BY <1>1, <1>2
<1>4. walk[n - 1].kind \in kinds
  BY <1>1, <1>3 DEF Stand
<1>5. /\ Depth(walk, n - 1, kinds) \in Nat /\ Depth(walk, n + 1, kinds) \in Nat
      /\ Depth(walk, n - 1, kinds) < Depth(walk, n + 1, kinds)
  BY <1>1, <1>3, <1>4, OpensVariables
<1>6. /\ Depth(walk, i, kinds) \in Nat
      /\ Depth(walk, i, kinds) <= Depth(walk, n - 1, kinds)
  BY <1>3, DepthGrows
<1> QED  BY <1>5, <1>6

LEMMA DeclareStep ==
  ASSUME Right, Fitted, Plain(Len(walk)), NEW s \in Spaces, NEW k \in Names, NEW d \in Node,
         HasPut(Tables[s], Tables'[s], k, d), OthersStay(s),
         OpensBelow(walk, Len(walk), KindsOf[s], Depth(walk, Len(walk) + 1, KindsOf[s])),
         named' = [space |-> s, name |-> k, node |-> d]
  PROVE  Lexical!Next
<1>1. Len(walk) \in Nat
  BY DEF Right, Types
<1>2. Len(Tables[s]) = Depth(walk, Len(walk) + 1, KindsOf[s])
  BY DEF Fitted, Fits
<1>3. OpensBelow(walk, Len(walk), KindsOf[s], Len(Tables[s]))
  BY <1>2
<1>4. Env' = Redefined(Env, s, k, d) /\ Outers' = Outers
  BY <1>1, <1>3, OneRedefined
<1> QED  BY <1>4, MapDeclare

\* A table whose scopes mean the same, below and now.
Passes(s, t) == Keeps(s, t, Len(s)) /\ Meant(t, Len(t)) = Meant(s, Len(s))

LEMMA PassesSame == ASSUME NEW s PROVE Passes(s, s)
BY KeepsSame DEF Passes

LEMMA PassesBegin ==
  ASSUME NEW s, IsTable(s), NEW t, t = Append(s, Nowhere)
  PROVE  Passes(s, t)
<1>1. Keeps(s, t, Len(s)) /\ Meant(t, Len(s) + 1) = Meant(s, Len(s))
  BY BeginKeeps
<1>2. Len(t) = Len(s) + 1
  BY DEF IsTable
<1> QED  BY <1>1, <1>2 DEF Passes

LEMMA EnterStep ==
  ASSUME Right, Fitted, NEW kind \in VarKinds, NEW part, Pushed(kind, part),
         Passes(scoped_map_fun_, scoped_map_fun_'), Passes(scoped_map_var_, scoped_map_var_'),
         Passes(scoped_map_typ_, scoped_map_typ_'), named' = Nothing
  PROVE  Lexical!Next
<1>1. walk \in Seq(Frame) /\ walk' \in Seq(Frame)
  BY DEF Right, Types
<1>2. /\ Len(walk) \in Nat /\ Len(walk') = Len(walk) + 1
      /\ Shares(walk, walk', Len(walk)) /\ Opening(walk', Len(walk) + 1)
  BY PushedShares DEF Right, Opening
<1>3. /\ Fits(walk, Tables) /\ Fits(walk', Tables')
      /\ \A s \in Spaces : /\ Keeps(Tables[s], Tables'[s], Len(Tables[s]))
                           /\ Meant(Tables'[s], Len(Tables'[s])) = Meant(Tables[s], Len(Tables[s]))
  BY DEF Fitted, Spaces, Tables, Passes
<1>4. /\ Here(walk', Tables') = Here(walk, Tables)
      /\ Outer(walk', Tables') = Append(Outer(walk, Tables), Here(walk, Tables))
  BY <1>1, <1>2, <1>3, OneOpens
<1> QED  BY <1>4, MapEnter DEF Env, Outers

\* A scope that the construct opened ends with it.
LEMMA DeepEnough ==
  ASSUME Types, walk # <<>>, NEW kinds, Top.kind \in kinds
  PROVE  Depth(walk, Len(walk) + 1, kinds) # 1
<1>1. Len(walk) \in Nat \ {0} /\ (Len(walk) + 1) - 1 = Len(walk)
  BY DEF Types
<1>2. /\ Count(walk, Len(walk) - 1, kinds) \in Nat
      /\ Count(walk, Len(walk), kinds) = Count(walk, Len(walk) - 1, kinds) + 1
  BY <1>1, Counted DEF One, Top
<1> QED  BY <1>1, <1>2 DEF Depth

LEMMA LeaveStep ==
  ASSUME Right, Fitted, Popped, Top.kind \in VarKinds, named' = Nothing,
         Keeps(scoped_map_fun_, scoped_map_fun_', Len(scoped_map_fun_')),
         Keeps(scoped_map_var_, scoped_map_var_', Len(scoped_map_var_')),
         Keeps(scoped_map_typ_, scoped_map_typ_', Len(scoped_map_typ_'))
  PROVE  Lexical!Next
<1>1. walk \in Seq(Frame) /\ walk' \in Seq(Frame)
  BY DEF Right, Types
<1>2. /\ Len(walk') \in Nat /\ Len(walk) = Len(walk') + 1
      /\ Shares(walk', walk, Len(walk')) /\ Opening(walk, Len(walk') + 1)
  <2>1. /\ Len(walk) - 1 \in Nat /\ Len(walk') = Len(walk) - 1
        /\ Shares(walk', walk, Len(walk) - 1)
    BY PoppedShares DEF Right
  <2>2. Len(walk) = Len(walk') + 1
    BY <1>1, <2>1
  <2> QED  BY <2>1, <2>2 DEF Opening, Top
<1>3. /\ Fits(walk, Tables) /\ Fits(walk', Tables')
      /\ \A s \in Spaces : Keeps(Tables[s], Tables'[s], Len(Tables'[s]))
  BY DEF Fitted, Spaces, Tables
<1>4. Outer(walk, Tables) = Append(Outer(walk', Tables'), Here(walk', Tables'))
  BY <1>1, <1>2, <1>3, OneCloses
<1> QED  BY <1>4, MapLeave DEF Env, Outers

-----------------------------------------------------------------------------
(* Each step of the Binder is one of LexicalScoping. *)

Known ==
  /\ Right /\ Fitted /\ ScopesMatchConstructs
  /\ Stand(walk) /\ Chunked(walk, scoped_map_fun_) /\ TypesHold(walk, scoped_map_typ_)

LEMMA Looked ==
  ASSUME Fitted, NEW s \in Spaces, NEW n \in Names
  PROVE  Env[s][n] = Fun!GetIn(Tables[s], Len(Tables[s]), n)
<1>1. Len(Tables[s]) = Depth(walk, Len(walk) + 1, KindsOf[s])
  BY DEF Fitted, Fits
<1>2. Env[s] = Meant(Tables[s], Len(Tables[s]))
  BY <1>1 DEF Env, Here, At
<1> QED  BY <1>2 DEF Meant

\* Steps that neither declare nor use.
LEMMA SmallSteps ==
  ASSUME Known, \/ FunctionChunk \/ TypeChunk \/ EndOfFormals \/ EndOfDecs \/ LoopBody
                \/ LeaveDec \/ LeaveVarDec \/ LeaveCall \/ Finish
  PROVE  Lexical!Next
<1>0. Right /\ Fitted /\ Types /\ Types' /\ walk \in Seq(Frame)
  BY DEF Known, Right, Types
<1>1. named' = Nothing /\ UNCHANGED maps
  BY DEF FunctionChunk, TypeChunk, EndOfFormals, EndOfDecs, LoopBody, LeaveDec,
     LeaveVarDec, LeaveCall, Finish
<1>2. KeptTables
  BY <1>1, MapsKept
<1>3. CASE FunctionChunk
  <2>1. Pushed("funchunk", "decs")
    BY <1>0, <1>3, Entered DEF FunctionChunk, Kind, Part
  <2>2. Len(walk) \in Nat /\ Plain(Len(walk))
    BY <1>0, <2>1, PushedPlain DEF VarKinds
  <2> QED  BY <1>0, <1>1, <1>2, <2>2, Quiet, MapWalk
<1>4. CASE TypeChunk
  <2>1. Pushed("typchunk", "decs")
    BY <1>0, <1>4, Entered DEF TypeChunk, Kind, Part
  <2>2. Len(walk) \in Nat /\ Plain(Len(walk))
    BY <1>0, <2>1, PushedPlain DEF VarKinds
  <2> QED  BY <1>0, <1>1, <1>2, <2>2, Quiet, MapWalk
<1>5. CASE EndOfFormals \/ EndOfDecs \/ LoopBody
  <2>1. GoTo("body") /\ walk # <<>> /\ "body" \in Part
    BY <1>5 DEF EndOfFormals, EndOfDecs, LoopBody, In, Part
  <2>2. Turned("body")
    BY <1>0, <2>1, GoToWalk
  <2>3. Len(walk) \in Nat /\ Plain(Len(walk))
    BY <1>0, <2>2, TurnedPlain
  <2> QED  BY <1>0, <1>1, <1>2, <2>3, Quiet, MapWalk
<1>6. CASE LeaveDec \/ LeaveVarDec \/ LeaveCall
  <2>1. Popped
    BY <1>0, <1>6, ReturnWalk, LeaveVarWalk DEF LeaveDec, LeaveVarDec, LeaveCall, In
  <2>2. Top.kind \notin VarKinds
    BY <1>6 DEF LeaveDec, LeaveVarDec, LeaveCall, In, VarKinds
  <2>3. Len(walk) - 1 \in Nat /\ Plain(Len(walk) - 1)
    BY <1>0, <2>1, <2>2, PoppedPlain
  <2> QED  BY <1>0, <1>1, <1>2, <2>3, Quiet, MapWalk
<1>7. CASE Finish
  <2>1. UNCHANGED walk
    BY <1>7 DEF Finish
  <2>2. Len(walk) \in Nat /\ Plain(Len(walk))
    BY <1>0, <2>1, KeptPlain
  <2> QED  BY <1>0, <1>1, <1>2, <2>2, Quiet, MapWalk
<1> QED  BY <1>3, <1>4, <1>5, <1>6, <1>7

LEMMA TypeDecStep ==
  ASSUME Known, TypeDec
  PROVE  Lexical!Next
<1>0. Right /\ Fitted /\ Types /\ TypesHold(walk, scoped_map_typ_)
  BY DEF Known, Right
<1>1. Keeps(scoped_map_typ_, scoped_map_typ_', Len(scoped_map_typ_))
  BY <1>0, TypeDecKeeps
<1>2. KeptTables
  <2>1. scoped_map_fun_' = scoped_map_fun_ /\ scoped_map_var_' = scoped_map_var_
    BY DEF TypeDec
  <2> QED  BY <1>1, <2>1, KeepsSame, EachKept
<1>3. Pushed("typedec", "body")
  BY <1>0, Visited DEF TypeDec, Kind, Part, Chunks
<1>4. Len(walk) \in Nat /\ Plain(Len(walk))
  BY <1>0, <1>3, PushedPlain DEF VarKinds
<1>5. named' = Nothing
  BY DEF TypeDec
<1> QED  BY <1>0, <1>2, <1>4, <1>5, Quiet, MapWalk

\* Uses.
LEMMA CallStep ==
  ASSUME Known, NEW n \in FunName, CallExp(n)
  PROVE  Lexical!Next
<1>0. Right /\ Fitted /\ Types /\ n \in Names /\ "fun" \in Spaces
  BY DEF Known, Right, Names, Spaces
<1>1. KeptTables
  BY MapsKept DEF CallExp
<1>2. Pushed("call", "body")
  BY <1>0, Entered DEF CallExp, Kind, Part
<1>3. Len(walk) \in Nat /\ Plain(Len(walk))
  BY <1>0, <1>2, PushedPlain DEF VarKinds
<1>4. Env' = Env /\ Outers' = Outers
  BY <1>0, <1>1, <1>3, Quiet
<1>5. Env["fun"][n] = Fun!get(n)
  <2>1. Env["fun"][n] = Fun!GetIn(Tables["fun"], Len(Tables["fun"]), n)
    BY <1>0, Looked
  <2> QED  BY <2>1 DEF Tables, Fun!get
<1>6. Fun!get(n) # Unbound /\ named' = [space |-> "fun", name |-> n, node |-> Fun!get(n)]
  BY <1>0 DEF CallExp, Bind, Right
<1> QED  BY <1>0, <1>4, <1>5, <1>6, MapUse

LEMMA VarStep ==
  ASSUME Known, NEW n \in VarName, SimpleVar(n)
  PROVE  Lexical!Next
<1>0. Right /\ Fitted /\ Types /\ Types' /\ n \in Names /\ "var" \in Spaces
  BY DEF Known, Right, Names, Spaces
<1>1. KeptTables
  BY MapsKept DEF SimpleVar
<1>2. UNCHANGED walk
  BY DEF SimpleVar
<1>3. Len(walk) \in Nat /\ Plain(Len(walk))
  BY <1>0, <1>2, KeptPlain
<1>4. Env' = Env /\ Outers' = Outers
  BY <1>0, <1>1, <1>3, Quiet
<1>5. Env["var"][n] = Var!get(n)
  <2>1. Env["var"][n] = Fun!GetIn(Tables["var"], Len(Tables["var"]), n)
    BY <1>0, Looked
  <2> QED  BY <2>1 DEF Tables, Var!get, Var!GetIn, Var!Holders, Fun!GetIn, Fun!Holders
<1>6. Var!get(n) # Unbound /\ named' = [space |-> "var", name |-> n, node |-> Var!get(n)]
  BY <1>0 DEF SimpleVar, Bind, Right
<1> QED  BY <1>0, <1>4, <1>5, <1>6, MapUse

LEMMA TypStep ==
  ASSUME Known, NEW n \in TypName, NameTy(n)
  PROVE  Lexical!Next
<1>0. Right /\ Fitted /\ Types /\ Types' /\ n \in Names /\ "typ" \in Spaces
  BY DEF Known, Right, Names, Spaces
<1>1. KeptTables
  BY MapsKept DEF NameTy
<1>2. UNCHANGED walk
  BY DEF NameTy
<1>3. Len(walk) \in Nat /\ Plain(Len(walk))
  BY <1>0, <1>2, KeptPlain
<1>4. Env' = Env /\ Outers' = Outers
  BY <1>0, <1>1, <1>3, Quiet
<1>5. CASE named' = Nothing
  BY <1>0, <1>4, <1>5, MapWalk
<1>6. CASE named' # Nothing
  <2>1. Env["typ"][n] = Typ!get(n)
    <3>1. Env["typ"][n] = Fun!GetIn(Tables["typ"], Len(Tables["typ"]), n)
      BY <1>0, Looked
    <3> QED  BY <3>1 DEF Tables, Typ!get, Typ!GetIn, Typ!Holders, Fun!GetIn, Fun!Holders
  <2>2. Typ!get(n) # Unbound /\ named' = [space |-> "typ", name |-> n, node |-> Typ!get(n)]
    BY <1>0, <1>6 DEF NameTy, Bind, Right
  <2> QED  BY <1>0, <1>4, <2>1, <2>2, MapUse
<1> QED  BY <1>5, <1>6

LEMMA BreakStep ==
  ASSUME Known, BreakExp
  PROVE  Lexical!Next
<1>0. Right /\ Fitted /\ Types /\ Types'
  BY DEF Known, Right
<1>1. KeptTables
  BY MapsKept DEF BreakExp
<1>2. UNCHANGED walk
  BY DEF BreakExp
<1>3. Len(walk) \in Nat /\ Plain(Len(walk))
  BY <1>0, <1>2, KeptPlain
<1>4. Env' = Env /\ Outers' = Outers
  BY <1>0, <1>1, <1>3, Quiet
<1>5. named' = Nothing \/ BoundLoop'
  BY DEF BreakExp, BoundLoop
<1> QED  BY <1>0, <1>4, <1>5, MapWalk

\* Declarations.
LEMMA HeadedPlain ==
  ASSUME Types, Types', walk # <<>>, NEW n \in Names, decs < MaxDecs,
         walk' = [walk EXCEPT ![Len(walk)].todo =
                    Append(@, [name |-> n, node |-> decs + 1])]
  PROVE  Plain(Len(walk))
<1>1. walk \in Seq(Frame) /\ decs \in 0..MaxDecs
  BY DEF Types
<1>2. Kept
  BY <1>1, HeaderWalk
<1> QED  BY <1>2, KeptPlain DEF Kept, Survive

LEMMA NodeNext == ASSUME Types, decs < MaxDecs PROVE decs + 1 \in Node
BY BinderAssumption DEF Types, Node

LEMMA FunctionHeaderStep ==
  ASSUME Known, NEW n \in FunName, FunctionHeader(n)
  PROVE  Lexical!Next
<1>0. Right /\ Fitted /\ Types /\ Types' /\ Stand(walk) /\ n \in Names /\ "fun" \in Spaces
  BY DEF Known, Right, Names, Spaces
<1>1. /\ walk # <<>> /\ Top.kind = "funchunk" /\ decs < MaxDecs
      /\ walk' = [walk EXCEPT ![Len(walk)].todo =
                    Append(@, [name |-> n, node |-> decs + 1])]
      /\ named' = [space |-> "fun", name |-> n, node |-> decs + 1]
      /\ Fun!put(n, decs + 1)
      /\ scoped_map_var_' = scoped_map_var_ /\ scoped_map_typ_' = scoped_map_typ_
  BY <1>0 DEF FunctionHeader, Header, In, Declares, Right
<1>2. Plain(Len(walk)) /\ decs + 1 \in Node
  BY <1>0, <1>1, HeadedPlain, NodeNext
<1>3. HasPut(scoped_map_fun_, scoped_map_fun_', n, decs + 1)
  BY <1>0, <1>1, PutIs DEF Types, Fun!put
<1>4. HasPut(Tables["fun"], Tables'["fun"], n, decs + 1) /\ OthersStay("fun")
  BY <1>1, <1>3 DEF Tables, OthersStay, Spaces
<1>5. OpensBelow(walk, Len(walk), KindsOf["fun"], Depth(walk, Len(walk) + 1, KindsOf["fun"]))
  <2>1. OpensBelow(walk, Len(walk), FunKinds, Depth(walk, Len(walk) + 1, FunKinds))
    BY <1>0, <1>1, ChunksOpen DEF Chunks, FunKinds
  <2> QED  BY <2>1 DEF KindsOf
<1> QED  BY <1>0, <1>1, <1>2, <1>4, <1>5, DeclareStep

LEMMA TypeHeaderStep ==
  ASSUME Known, NEW n \in TypName, TypeHeader(n)
  PROVE  Lexical!Next
<1>0. Right /\ Fitted /\ Types /\ Types' /\ Stand(walk) /\ n \in Names /\ "typ" \in Spaces
  BY DEF Known, Right, Names, Spaces
<1>1. /\ walk # <<>> /\ Top.kind = "typchunk" /\ decs < MaxDecs
      /\ walk' = [walk EXCEPT ![Len(walk)].todo =
                    Append(@, [name |-> n, node |-> decs + 1])]
      /\ named' = [space |-> "typ", name |-> n, node |-> decs + 1]
      /\ Typ!put(n, decs + 1)
      /\ scoped_map_fun_' = scoped_map_fun_ /\ scoped_map_var_' = scoped_map_var_
  BY <1>0 DEF TypeHeader, Header, In, Declares, Right
<1>2. Plain(Len(walk)) /\ decs + 1 \in Node
  BY <1>0, <1>1, HeadedPlain, NodeNext
<1>3. HasPut(scoped_map_typ_, scoped_map_typ_', n, decs + 1)
  BY <1>0, <1>1, TypPutIs
<1>4. HasPut(Tables["typ"], Tables'["typ"], n, decs + 1) /\ OthersStay("typ")
  BY <1>1, <1>3 DEF Tables, OthersStay, Spaces
<1>5. OpensBelow(walk, Len(walk), KindsOf["typ"], Depth(walk, Len(walk) + 1, KindsOf["typ"]))
  <2>1. OpensBelow(walk, Len(walk), TypKinds, Depth(walk, Len(walk) + 1, TypKinds))
    BY <1>0, <1>1, ChunksOpen DEF Chunks, TypKinds
  <2> QED  BY <2>1 DEF KindsOf
<1> QED  BY <1>0, <1>1, <1>2, <1>4, <1>5, DeclareStep

LEMMA VariableStep ==
  ASSUME Known, NEW n \in VarName, Formal(n) \/ VarDec(n)
  PROVE  Lexical!Next
<1>0. Right /\ Fitted /\ Types /\ Types' /\ n \in Names /\ "var" \in Spaces
  BY DEF Known, Right, Names, Spaces
<1>1. /\ decs < MaxDecs /\ Var!put(n, decs + 1)
      /\ named' = [space |-> "var", name |-> n, node |-> decs + 1]
      /\ scoped_map_fun_' = scoped_map_fun_ /\ scoped_map_typ_' = scoped_map_typ_
  BY DEF Formal, VarDec, Declares
<1>2. decs + 1 \in Node
  BY <1>0, <1>1, NodeNext
<1>3. Plain(Len(walk))
  <2>1. CASE Formal(n)
    <3>1. walk # <<>> /\ walk' = [walk EXCEPT ![Len(walk)].todo =
                                    Append(@, [name |-> n, node |-> decs + 1])]
      BY <2>1 DEF Formal, In
    <3> QED  BY <1>0, <1>1, <3>1, HeadedPlain
  <2>2. CASE VarDec(n)
    <3>1. Pushed("vardec", "body")
      BY <1>0, <2>2, Entered DEF VarDec, Kind, Part
    <3> QED  BY <1>0, <3>1, PushedPlain DEF VarKinds
  <2> QED  BY <2>1, <2>2
<1>4. HasPut(scoped_map_var_, scoped_map_var_', n, decs + 1)
  BY <1>0, <1>1, VarPutIs
<1>5. HasPut(Tables["var"], Tables'["var"], n, decs + 1) /\ OthersStay("var")
  BY <1>1, <1>4 DEF Tables, OthersStay, Spaces
<1>6. OpensBelow(walk, Len(walk), KindsOf["var"], Depth(walk, Len(walk) + 1, KindsOf["var"]))
  BY <1>0, VariablesOpen DEF KindsOf
<1> QED  BY <1>0, <1>1, <1>2, <1>3, <1>5, <1>6, DeclareStep

\* Constructs that open scopes, and their ends.
LEMMA FunctionDecStep ==
  ASSUME Known, FunctionDec
  PROVE  Lexical!Next
<1> DEFINE m == scoped_map_fun_
           d == Head(Top.todo)
           p == [m EXCEPT ![Len(m)] = Fun!With(@, d.name, d.node)]
<1>0. /\ Right /\ Fitted /\ Types /\ ScopesMatchConstructs /\ walk \in Seq(Frame)
      /\ Chunked(walk, m) /\ IsTable(m) /\ IsTable(scoped_map_var_)
  BY DEF Known, Right, Types
<1>1. /\ walk # <<>> /\ Top.kind = "funchunk" /\ d \in Dec
      /\ Top.todo \in Seq(Dec) /\ Top.todo # <<>> /\ Pushed("fundec", "formals")
  BY <1>0, Visited DEF FunctionDec, Kind, Part, Chunks
<1>2. d.name \in Names /\ d.node \in Node /\ 1 \in DOMAIN Top.todo /\ d = Top.todo[1]
  BY <1>1 DEF Dec, Names
<1>3. m' = Append(p, Nowhere)
  BY DEF FunctionDec, Nowhere
<1>4. IsTable(p) /\ Len(p) = Len(m)
  BY <1>0, <1>2, PutTable
<1>5. HasPut(m, p, d.name, d.node)
  BY <1>0, PutIs
<1>6. Fun!GetIn(m, Len(m), d.name) = d.node
  <2>1. Len(walk) \in DOMAIN walk /\ Len(walk) \in Nat /\ ~(Len(walk) < Len(walk))
        /\ walk[Len(walk)] = Top
    BY <1>0, <1>1 DEF Top
  <2>2. ChunkHolds(walk, Len(walk), m)
    BY <1>0, <1>1, <2>1 DEF Chunked
  <2>3. Count(walk, Len(walk) - 1, FunKinds) = Count(walk, Len(walk), FunKinds)
    BY <1>0, <1>1, <2>1, ChunkDepth
  <2>4. Len(m) = 1 + Count(walk, Len(walk), FunKinds)
    BY <1>0, ScopesAreCounted
  <2> HIDE DEF d, m, p
  <2>5. Fun!GetIn(m, 1 + Count(walk, Len(walk) - 1, FunKinds), d.name) = d.node
    BY <1>2, <2>1, <2>2 DEF ChunkHolds
  <2> QED  BY <2>3, <2>4, <2>5
<1> HIDE DEF d, p
<1>7. Keeps(m, p, Len(m))
  BY <1>0, <1>5, <1>6, PutAgain
<1>8. Passes(m, m')
  <2>1. Keeps(p, m', Len(p)) /\ Meant(m', Len(m')) = Meant(p, Len(p))
    BY <1>3, <1>4, PassesBegin DEF Passes
  <2>2. Len(m) \in 0..Len(m)
    BY <1>0 DEF IsTable
  <2> QED  BY <1>4, <1>7, <2>1, <2>2 DEF Passes, Keeps
<1>9. Passes(scoped_map_var_, scoped_map_var_') /\ Passes(scoped_map_typ_, scoped_map_typ_')
  BY <1>0, PassesBegin, PassesSame DEF FunctionDec, Var!scope_begin, Nowhere
<1>10. named' = Nothing /\ "fundec" \in VarKinds
  BY DEF FunctionDec, VarKinds
<1> QED  BY <1>0, <1>1, <1>8, <1>9, <1>10, EnterStep

LEMMA LetStep ==
  ASSUME Known, LetExp
  PROVE  Lexical!Next
<1>0. /\ Right /\ Fitted /\ Types /\ IsTable(scoped_map_fun_) /\ IsTable(scoped_map_var_)
      /\ IsTable(scoped_map_typ_)
  BY DEF Known, Right, Types
<1>1. Pushed("let", "decs") /\ "let" \in VarKinds /\ named' = Nothing
  BY <1>0, Entered DEF LetExp, Kind, Part, VarKinds
<1>2. /\ Passes(scoped_map_fun_, scoped_map_fun_') /\ Passes(scoped_map_var_, scoped_map_var_')
      /\ Passes(scoped_map_typ_, scoped_map_typ_')
  BY <1>0, PassesBegin DEF LetExp, Fun!scope_begin, Var!scope_begin, Typ!scope_begin, Nowhere
<1> QED  BY <1>0, <1>1, <1>2, EnterStep

LEMMA LoopStep ==
  ASSUME Known, NEW kind \in LoopKinds, NEW part \in Part, EnterLoop(kind, part)
  PROVE  Lexical!Next
<1>0. Right /\ Fitted /\ Types /\ IsTable(scoped_map_var_) /\ kind \in Kind /\ kind \in VarKinds
  BY DEF Known, Right, Types, LoopKinds, VarKinds, Kind
<1>1. Pushed(kind, part) /\ named' = Nothing
  BY <1>0, Entered DEF EnterLoop
<1>2. /\ Passes(scoped_map_fun_, scoped_map_fun_') /\ Passes(scoped_map_var_, scoped_map_var_')
      /\ Passes(scoped_map_typ_, scoped_map_typ_')
  BY <1>0, PassesBegin, PassesSame DEF EnterLoop, Var!scope_begin, Nowhere
<1> QED  BY <1>0, <1>1, <1>2, EnterStep

LEMMA Closes ==
  ASSUME Fitted, Types, walk # <<>>, NEW s \in Spaces, Top.kind \in KindsOf[s],
         NEW t, \/ Len(Tables[s]) = 1 /\ t = Tables[s]
                \/ Len(Tables[s]) # 1 /\ t = SubSeq(Tables[s], 1, Len(Tables[s]) - 1)
  PROVE  Keeps(Tables[s], t, Len(t))
<1>1. IsTable(Tables[s]) /\ Len(Tables[s]) = Depth(walk, Len(walk) + 1, KindsOf[s])
  BY DEF Fitted, Fits
<1>2. Len(Tables[s]) # 1
  BY <1>1, DeepEnough
<1> QED  BY <1>1, <1>2, EndKeeps

LEMMA EndStep ==
  ASSUME Known, LeaveFunctionDec \/ LeaveLet \/ LeaveLoop
  PROVE  Lexical!Next
<1>0. Right /\ Fitted /\ Types /\ walk \in Seq(Frame)
  BY DEF Known, Right, Types
<1>1. walk # <<>> /\ Return /\ Top.kind \in VarKinds /\ named' = Nothing /\ Var!scope_end
  BY DEF LeaveFunctionDec, LeaveLet, LeaveLoop, In, VarKinds
<1>2. Popped
  BY <1>0, <1>1, ReturnWalk
<1>3. /\ "fun" \in Spaces /\ "var" \in Spaces /\ "typ" \in Spaces
      /\ Tables["fun"] = scoped_map_fun_ /\ Tables["var"] = scoped_map_var_
      /\ Tables["typ"] = scoped_map_typ_
      /\ KindsOf["fun"] = FunKinds /\ KindsOf["var"] = VarKinds /\ KindsOf["typ"] = TypKinds
  BY DEF Spaces, Tables, KindsOf
<1>4. Keeps(scoped_map_var_, scoped_map_var_', Len(scoped_map_var_'))
  BY <1>0, <1>1, <1>3, Closes DEF Var!scope_end
<1>5. Keeps(scoped_map_fun_, scoped_map_fun_', Len(scoped_map_fun_'))
  <2>1. CASE Top.kind \in FunKinds /\ Fun!scope_end
    BY <1>0, <1>1, <1>3, <2>1, Closes DEF Fun!scope_end
  <2>2. CASE scoped_map_fun_' = scoped_map_fun_
    BY <2>2, KeepsSame
  <2> QED  BY <2>1, <2>2 DEF LeaveFunctionDec, LeaveLet, LeaveLoop, In, FunKinds
<1>6. Keeps(scoped_map_typ_, scoped_map_typ_', Len(scoped_map_typ_'))
  <2>1. CASE Top.kind \in TypKinds /\ Typ!scope_end
    BY <1>0, <1>1, <1>3, <2>1, Closes DEF Typ!scope_end
  <2>2. CASE scoped_map_typ_' = scoped_map_typ_
    BY <2>2, KeepsSame
  <2> QED  BY <2>1, <2>2 DEF LeaveFunctionDec, LeaveLet, LeaveLoop, In, TypKinds
<1> QED  BY <1>0, <1>1, <1>2, <1>4, <1>5, <1>6, LeaveStep

\* All of them.
LEMMA StepBinds ==
  ASSUME Known, Next
  PROVE  Lexical!Next
<1>1. /\ ForExp => EnterLoop("for", "vardec") /\ "for" \in LoopKinds /\ "vardec" \in Part
      /\ WhileExp => EnterLoop("while", "test") /\ "while" \in LoopKinds /\ "test" \in Part
  BY DEF ForExp, WhileExp, LoopKinds, Part
<1>2. ForExp \/ WhileExp => Lexical!Next
  BY <1>1, LoopStep
<1> QED
  BY <1>2, SmallSteps, TypeDecStep, CallStep, VarStep, TypStep, BreakStep,
     FunctionHeaderStep, TypeHeaderStep, VariableStep, FunctionDecStep, LetStep, EndStep
     DEF Next

LexicalVars == <<MappedEnv, MappedOuter, MappedNamed, ~error_>>

\* Nothing happens to what LexicalScoping speaks of.
LEMMA StutterBinds ==
  ASSUME UNCHANGED vars
  PROVE  UNCHANGED LexicalVars
BY DEF vars, maps, LexicalVars, MappedEnv, MappedOuter, MappedNamed, BoundLoop, EnvAt,
       NthOpen, Opens, OpenFun, OpenVar, OpenTyp, Around,
       Fun!GetIn, Var!GetIn, Typ!GetIn, Fun!Holders, Var!Holders, Typ!Holders

LEMMA InitBinds == Init => Lexical!Init
<1> SUFFICES ASSUME Init PROVE Lexical!Init
  OBVIOUS
<1>1. /\ scoped_map_fun_ = <<Nowhere>> /\ scoped_map_var_ = <<Nowhere>>
      /\ scoped_map_typ_ = <<Nowhere>> /\ walk = <<>> /\ named = Nothing /\ error_ = FALSE
  BY DEF Init, Fun!Init, Var!Init, Typ!Init, Nowhere
<1>2. Meant(<<Nowhere>>, 1) = [n \in Names |-> Unbound]
  <2>1. ASSUME NEW n PROVE Fun!GetIn(<<Nowhere>>, 1, n) = Unbound
    <3>1. \A i \in 1..1 : n \notin DOMAIN <<Nowhere>>[i]
      BY DEF Nowhere
    <3>2. Fun!Holders(<<Nowhere>>, 1, n) = {}
      BY <3>1 DEF Fun!Holders
    <3> QED  BY <3>2 DEF Fun!GetIn
  <2> QED  BY <2>1 DEF Meant
<1>3. Len(walk) = 0 /\ 0 + 1 = 1 /\ 1 - 1 = 0 /\ 1 + 0 = 1
  BY <1>1
<1>4. \A s \in Spaces : Tables[s] = <<Nowhere>> /\ Depth(walk, 1, KindsOf[s]) = 1
  BY <1>1, <1>3, CountNone DEF Spaces, Tables, Depth
<1>5. Env = [s \in Spaces |-> [n \in Names |-> Unbound]]
  BY <1>2, <1>3, <1>4 DEF Env, Here, At
<1>6. Outers = <<>>
  <2>1. Count(walk, Len(walk), VarKinds) = 0
    BY <1>3, CountNone
  <2> QED  BY <2>1 DEF Outers, Outer
<1>7. MappedEnv = Env /\ MappedOuter = Outers
  BY InitTypes, Mapped
<1>8. MappedNamed = Nothing
  BY <1>1 DEF MappedNamed, BoundLoop
<1> QED
  BY <1>1, <1>5, <1>6, <1>7, <1>8
     DEF Lexical!Init, MappedEnv, MappedOuter, MappedNamed, Names, Spaces

\* "Binding identifier uses to their definitions" (binder.hh): whatever the
\* program, its size and its depth, until something is diagnosed each use is
\* bound to the declaration that lexical scoping gives it.  The three tables,
\* which different constructs open, mean together what LexicalScoping says.
THEOREM BindsLexically == Spec => IsLexicalScoping
<1>1. Init => Lexical!Init
  BY InitBinds
<1>2. /\ Types /\ Types' /\ ScopesMatchConstructs /\ ScopesMatchConstructs' /\ Stand(walk)
      /\ (error_ \/ Chunked(walk, scoped_map_fun_)) /\ (error_ \/ TypesHold(walk, scoped_map_typ_))
      /\ [Next]_vars
      => [Lexical!Next]_LexicalVars
  <2> SUFFICES ASSUME Types, Types', ScopesMatchConstructs, ScopesMatchConstructs', Stand(walk),
                      error_ \/ Chunked(walk, scoped_map_fun_),
                      error_ \/ TypesHold(walk, scoped_map_typ_), [Next]_vars
               PROVE  [Lexical!Next]_LexicalVars
    OBVIOUS
  <2>1. CASE UNCHANGED vars
    BY <2>1, StutterBinds
  <2>2. CASE error_' = TRUE
    BY <2>2, MapErr
  <2>3. CASE Next /\ error_' # TRUE
    <3>1. error_' = FALSE /\ error_ = FALSE
      BY <2>3, ErrorStays DEF Types
    <3>2. Fits(walk, Tables) /\ Fits(walk', Tables')
      BY FitsHere, FitsNext
    <3>3. Known
      BY <3>1, <3>2 DEF Known, Right, Fitted
    <3> QED  BY <2>3, <3>3, StepBinds
  <2> QED  BY <2>1, <2>2, <2>3
<1>3. Lexical!Init /\ [][Lexical!Next]_LexicalVars => IsLexicalScoping
  BY DEF IsLexicalScoping, Lexical!Spec, LexicalVars, MappedEnv, MappedOuter, MappedNamed
<1> QED
  BY <1>1, <1>2, <1>3, AlwaysTypes, ScopesFollow, AlwaysStand, AlwaysChunked,
     AlwaysTypesHold, PTL DEF Spec
=============================================================================

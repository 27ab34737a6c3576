--------------------------- MODULE Lifting_proofs ---------------------------
(***************************************************************************)
(* Whatever the program, the names, the flags and the lifted variables are *)
(* what the passes are meant to compute.                                   *)
(***************************************************************************)
EXTENDS Lifting, SequenceTheorems, WellFoundedInduction, TLAPS

Decs == [kind : {"fun", "prim", "typ", "var"}, name : STRING \union {"formal"}, owner : Nat]
Ops == {"chunk", "endchunk", "dec", "end", "use"}
Events == [op : Ops, id : Nat, within : Nat, scope : SUBSET Nat]
Frames == [kind : {"let", "fun", "funchunk", "typchunk"}, id : Nat, decs : Seq(Nat), todo : Seq(Nat)]

-----------------------------------------------------------------------------
(* How a program nests.  Before event p, L[p] has the starts of the chunks *)
(* being visited and F[p] the functions; home[d] is where the chunk of the *)
(* function d starts.                                                      *)

Fun(ds, d) == ds[d].kind \in {"fun", "prim"}
InSpace(ds, d) == IF ds[d].kind = "prim" THEN "fun" ELSE ds[d].kind
IsDec(e, d) == e.op = "dec" /\ e.id = d
Met(prog, d, p) == \E r \in DOMAIN prog : r < p /\ IsDec(prog[r], d)

\* The chunk k started there, where what was before it was being visited.
Started(prog, L, F, p, k) ==
  LET s == L[p][k] IN
  /\ s \in DOMAIN prog /\ s < p /\ prog[s].op = "chunk"
  /\ Len(L[s]) = k - 1 /\ Len(F[s]) = k - 1
  /\ \A j \in 1..(k - 1) : L[s][j] = L[p][j] /\ F[s][j] = F[p][j]

\* The function k is of the chunk k; a primitive has none in it.
Entered(prog, ds, L, F, home, p, k) ==
  LET f == F[p][k] IN
  /\ f \in DOMAIN ds /\ Fun(ds, f) /\ home[f] = L[p][k] /\ Met(prog, f, p)
  /\ k < Len(L[p]) => ds[f].kind = "fun"

Standing(prog, ds, L, F, home, p) ==
  /\ L[p] \in Seq(Nat) /\ F[p] \in Seq(DOMAIN ds)
  /\ Len(L[p]) = Len(F[p]) \/ Len(L[p]) = Len(F[p]) + 1
  /\ \A k \in 1..Len(L[p]) : Started(prog, L, F, p, k)
  /\ \A k \in 1..Len(F[p]) : Entered(prog, ds, L, F, home, p, k)

\* A use is of what is in scope.
WellUsed(prog, ds, home, p) ==
  LET e == prog[p] IN
  /\ e.id \in e.scope /\ e.scope \subseteq DOMAIN ds
  /\ \A d \in e.scope : InSpace(ds, d) = InSpace(ds, e.id) /\ home[d] < p
  /\ ds[e.id].kind = "var" => Met(prog, e.id, p) /\ ds[e.id].owner \in DOMAIN ds
                              /\ ds[ds[e.id].owner].kind = "fun"

Leads(prog, ds, L, F, home, p) ==
  LET e == prog[p]  l == Len(L[p])  f == Len(F[p]) IN
  \/ /\ e.op = "chunk" /\ l = f /\ (f > 0 => ds[F[p][f]].kind = "fun")
     /\ L[p + 1] = Append(L[p], p) /\ F[p + 1] = F[p]
  \/ /\ e.op = "endchunk" /\ l = f + 1
     /\ L[p + 1] = Front(L[p]) /\ F[p + 1] = F[p]
  \/ /\ e.op = "dec" /\ e.id \in DOMAIN ds /\ Fun(ds, e.id) /\ l = f + 1
     /\ L[p + 1] = L[p] /\ F[p + 1] = Append(F[p], e.id) /\ home[e.id] = L[p][l]
  \/ /\ e.op = "end" /\ l = f /\ f > 0 /\ e.id = F[p][f]
     /\ L[p + 1] = L[p] /\ F[p + 1] = Front(F[p])
  \/ /\ e.op \in {"dec", "use"} /\ e.id \in DOMAIN ds /\ l = f /\ f > 0
     /\ L[p + 1] = L[p] /\ F[p + 1] = F[p]
     /\ \/ e.op = "dec" /\ ds[e.id].kind = "typ"
        \/ e.op = "dec" /\ ds[e.id].kind = "var" /\ ds[e.id].owner = F[p][f]
        \/ /\ e.op = "use" /\ e.within = F[p][f] /\ ds[e.within].kind = "fun"
           /\ WellUsed(prog, ds, home, p)

Nested(prog, ds, L, F, home) ==
  /\ prog \in Seq(Events) /\ ds \in Seq(Decs) /\ (\A d \in DOMAIN ds : home[d] \in Nat)
  /\ L[1] = <<>> /\ F[1] = <<>>
  /\ \A p \in 1..(Len(prog) + 1) : Standing(prog, ds, L, F, home, p)
  /\ \A p \in DOMAIN prog : Leads(prog, ds, L, F, home, p)
  /\ \A p, q \in DOMAIN prog :
       prog[p].op = "dec" /\ prog[q].op = "dec" /\ prog[p].id = prog[q].id => p = q

\* What was written before an event is added stays.
Extends(prog, ds, L, F, home, prog2, ds2, L2, F2, home2) ==
  /\ Len(prog) <= Len(prog2) /\ \A p \in DOMAIN prog : prog2[p] = prog[p]
  /\ Len(ds) <= Len(ds2) /\ \A d \in DOMAIN ds : ds2[d] = ds[d] /\ home2[d] = home[d]
  /\ \A p \in 1..(Len(prog) + 1) : L2[p] = L[p] /\ F2[p] = F[p]

\* What is being visited at a point stays so while more is written.
LEMMA StandingStays ==
  ASSUME NEW prog, NEW ds, NEW L, NEW F, NEW home, NEW prog2, NEW ds2, NEW L2, NEW F2, NEW home2,
         prog \in Seq(Events), prog2 \in Seq(Events), ds \in Seq(Decs), ds2 \in Seq(Decs),
         Extends(prog, ds, L, F, home, prog2, ds2, L2, F2, home2),
         NEW p \in 1..(Len(prog) + 1), Standing(prog, ds, L, F, home, p)
  PROVE  Standing(prog2, ds2, L2, F2, home2, p)
<1>0. /\ DOMAIN prog = 1..Len(prog) /\ DOMAIN prog2 = 1..Len(prog2) /\ Len(prog) \in Nat
      /\ DOMAIN ds = 1..Len(ds) /\ DOMAIN ds2 = 1..Len(ds2) /\ Len(ds) \in Nat /\ Len(ds2) \in Nat
      /\ Len(prog2) \in Nat
  OBVIOUS
<1>1. L2[p] = L[p] /\ F2[p] = F[p] /\ DOMAIN ds \subseteq DOMAIN ds2 /\ DOMAIN prog \subseteq DOMAIN prog2
  BY <1>0 DEF Extends
<1>2. L2[p] \in Seq(Nat) /\ F2[p] \in Seq(DOMAIN ds2)
  BY <1>1 DEF Standing
<1>3. \A d \in DOMAIN ds : Met(prog, d, p) => Met(prog2, d, p)
  BY <1>1 DEF Extends, Met
<1>4. ASSUME NEW k \in 1..Len(L[p]) PROVE Started(prog2, L2, F2, p, k)
  <2>1. Started(prog, L, F, p, k)
    BY DEF Standing
  <2>2. L[p][k] \in DOMAIN prog
    BY <2>1 DEF Started
  <2>3. L[p][k] \in 1..(Len(prog) + 1)
    BY <2>2, <1>0
  <2>4. L2[L[p][k]] = L[L[p][k]] /\ F2[L[p][k]] = F[L[p][k]] /\ prog2[L[p][k]] = prog[L[p][k]]
    BY <2>2, <2>3 DEF Extends
  <2> QED BY <1>1, <2>1, <2>2, <2>4 DEF Started
<1>5. ASSUME NEW k \in 1..Len(F[p]) PROVE Entered(prog2, ds2, L2, F2, home2, p, k)
  <2>1. Entered(prog, ds, L, F, home, p, k)
    BY DEF Standing
  <2>2. F[p][k] \in DOMAIN ds
    BY <2>1 DEF Entered
  <2>3. ds2[F[p][k]] = ds[F[p][k]] /\ home2[F[p][k]] = home[F[p][k]]
    BY <2>2 DEF Extends
  <2> QED BY <1>1, <1>3, <2>1, <2>2, <2>3 DEF Entered, Fun
<1>6. Len(L2[p]) = Len(F2[p]) \/ Len(L2[p]) = Len(F2[p]) + 1
  BY <1>1 DEF Standing
<1> QED BY <1>1, <1>2, <1>4, <1>5, <1>6 DEF Standing

\* So does what an event leads to.
LEMMA LeadsStays ==
  ASSUME NEW prog, NEW ds, NEW L, NEW F, NEW home, NEW prog2, NEW ds2, NEW L2, NEW F2, NEW home2,
         prog \in Seq(Events), prog2 \in Seq(Events), ds \in Seq(Decs), ds2 \in Seq(Decs),
         Extends(prog, ds, L, F, home, prog2, ds2, L2, F2, home2),
         NEW p \in DOMAIN prog, Standing(prog, ds, L, F, home, p), Leads(prog, ds, L, F, home, p)
  PROVE  Leads(prog2, ds2, L2, F2, home2, p)
<1>0. /\ DOMAIN prog = 1..Len(prog) /\ DOMAIN prog2 = 1..Len(prog2) /\ Len(prog) \in Nat
      /\ DOMAIN ds = 1..Len(ds) /\ DOMAIN ds2 = 1..Len(ds2) /\ Len(ds) \in Nat /\ Len(ds2) \in Nat
      /\ Len(prog2) \in Nat
  OBVIOUS
<1>a. p \in 1..(Len(prog) + 1) /\ p + 1 \in 1..(Len(prog) + 1)
  BY <1>0
<1>1. /\ L2[p] = L[p] /\ F2[p] = F[p] /\ L2[p + 1] = L[p + 1] /\ F2[p + 1] = F[p + 1]
      /\ prog2[p] = prog[p] /\ DOMAIN ds \subseteq DOMAIN ds2 /\ DOMAIN prog \subseteq DOMAIN prog2
  BY <1>0, <1>a DEF Extends
<1>2. \A d \in DOMAIN ds : Met(prog, d, p) => Met(prog2, d, p)
  BY <1>1 DEF Extends, Met
<1>3. \A d \in DOMAIN ds : ds2[d] = ds[d] /\ home2[d] = home[d]
  BY DEF Extends
<1>4. Len(F[p]) > 0 => F[p][Len(F[p])] \in DOMAIN ds
  BY ElementOfSeq DEF Standing
<1>5. WellUsed(prog, ds, home, p) => WellUsed(prog2, ds2, home2, p)
  <2>1. SUFFICES ASSUME WellUsed(prog, ds, home, p) PROVE WellUsed(prog2, ds2, home2, p)
    OBVIOUS
  <2>2. prog[p].id \in DOMAIN ds /\ prog[p].id \in prog[p].scope
    BY <2>1 DEF WellUsed
  <2>3. \A d \in prog[p].scope : InSpace(ds2, d) = InSpace(ds2, prog[p].id) /\ home2[d] < p
    BY <1>3, <2>1, <2>2 DEF WellUsed, InSpace
  <2> QED BY <1>1, <1>2, <1>3, <2>1, <2>2, <2>3 DEF WellUsed
<1> QED BY <1>1, <1>3, <1>4, <1>5 DEF Leads, Fun
\* A sequence without its last element.
LEMMA Fronts ==
  ASSUME NEW S, NEW s \in Seq(S), Len(s) > 0
  PROVE  /\ Front(s) \in Seq(S) /\ Len(Front(s)) = Len(s) - 1
         /\ \A j \in 1..(Len(s) - 1) : Front(s)[j] = s[j]
<1>1. Len(s) \in Nat /\ 1 \in 1..(Len(s) + 1) /\ Len(s) - 1 \in (1 - 1)..Len(s)
  OBVIOUS
<1>2. /\ SubSeq(s, 1, Len(s) - 1) \in Seq(S)
      /\ Len(SubSeq(s, 1, Len(s) - 1)) = IF 1 <= Len(s) - 1 THEN (Len(s) - 1) - 1 + 1 ELSE 0
      /\ \A i \in 1..((Len(s) - 1) - 1 + 1) : SubSeq(s, 1, Len(s) - 1)[i] = s[1 + i - 1]
  BY <1>1, SubSeqProperties
<1>3. \A j \in 1..(Len(s) - 1) : 1 + j - 1 = j /\ j \in 1..((Len(s) - 1) - 1 + 1)
  BY <1>1
<1>4. Len(Front(s)) = Len(s) - 1
  <2>1. ASSUME NEW n \in Nat PROVE n - 1 >= 0 => (IF 1 <= n - 1 THEN (n - 1) - 1 + 1 ELSE 0) = n - 1
    OBVIOUS
  <2>2. Len(s) - 1 >= 0
    BY <1>1
  <2> QED BY <1>1, <1>2, <2>1, <2>2, Zenon DEF Front
<1>5. Front(s) \in Seq(S)
  BY <1>2 DEF Front
<1>6. ASSUME NEW j \in 1..(Len(s) - 1) PROVE Front(s)[j] = s[j]
  BY <1>2, <1>3 DEF Front
<1> QED BY <1>4, <1>5, <1>6

\* A sequence with one element more.
LEMMA Appends ==
  ASSUME NEW S, NEW s \in Seq(S), NEW x \in S
  PROVE  /\ Append(s, x) \in Seq(S) /\ Len(Append(s, x)) = Len(s) + 1
         /\ \A j \in 1..Len(s) : Append(s, x)[j] = s[j]
         /\ Append(s, x)[Len(s) + 1] = x
BY AppendProperties

\* An event leads from a place that is well nested to another.
LEMMA StandsNext ==
  ASSUME NEW prog \in Seq(Events), NEW ds \in Seq(Decs), NEW L, NEW F, NEW home,
         NEW p \in DOMAIN prog,
         Standing(prog, ds, L, F, home, p), Leads(prog, ds, L, F, home, p)
  PROVE  Standing(prog, ds, L, F, home, p + 1)
<1> DEFINE l == Len(L[p])
           f == Len(F[p])
           e == prog[p]
<1>0. /\ p \in Nat /\ L[p] \in Seq(Nat) /\ F[p] \in Seq(DOMAIN ds) /\ l \in Nat /\ f \in Nat
      /\ e \in Events /\ (l = f \/ l = f + 1)
  BY ElementOfSeq DEF Standing
<1>1. \A k \in 1..l : Started(prog, L, F, p, k)
  BY DEF Standing
<1>2. \A k \in 1..f : Entered(prog, ds, L, F, home, p, k)
  BY DEF Standing
<1>a. l = Len(L[p]) /\ f = Len(F[p])
  OBVIOUS
<1> HIDE DEF l, f
<1>3. \A d : Met(prog, d, p) => Met(prog, d, p + 1)
  BY <1>0 DEF Met

<1>4. ASSUME NEW k \in 1..l, L[p + 1][k] = L[p][k], \A j \in 1..(k - 1) : L[p + 1][j] = L[p][j],
             \A j \in 1..(k - 1) : F[p + 1][j] = F[p][j]
      PROVE  Started(prog, L, F, p + 1, k)
  <2>1. Started(prog, L, F, p, k)
    BY <1>1
  <2>2. prog \in Seq(Events) /\ L[p][k] < p + 1
    BY <2>1, <1>0 DEF Started
  <2> QED BY <1>4, <2>1, <2>2 DEF Started
<1>5. ASSUME NEW k \in 1..f, F[p + 1][k] = F[p][k], L[p + 1][k] = L[p][k],
             k < Len(L[p + 1]) => k < l \/ ds[F[p][k]].kind = "fun"
      PROVE  Entered(prog, ds, L, F, home, p + 1, k)
  <2>1. Entered(prog, ds, L, F, home, p, k)
    BY <1>2
  <2>2. k < l => ds[F[p][k]].kind = "fun"
    BY <2>1, <1>a DEF Entered
  <2> QED BY <1>3, <1>5, <2>1, <2>2 DEF Entered
<1>b. l \in Nat /\ f \in Nat /\ p \in Nat
  BY <1>0
<1>6. CASE /\ e.op = "chunk" /\ l = f /\ (f > 0 => ds[F[p][f]].kind = "fun")
           /\ L[p + 1] = Append(L[p], p) /\ F[p + 1] = F[p]
  <2>0. L[p + 1] = Append(L[p], p)
    BY <1>6
  <2>1. /\ L[p + 1] \in Seq(Nat) /\ Len(L[p + 1]) = l + 1 /\ L[p + 1][l + 1] = p
        /\ \A k \in 1..l : L[p + 1][k] = L[p][k]
    BY <1>0, <1>a, <2>0, Appends
  <2>2. ASSUME NEW k \in 1..l PROVE Started(prog, L, F, p + 1, k)
    <3>1. \A j \in 1..(k - 1) : j \in 1..l
      BY <1>b
    <3> QED BY <1>4, <1>6, <2>1, <3>1
  <2>3. Started(prog, L, F, p + 1, l + 1)
    <3>1. /\ l + 1 - 1 = l /\ Len(L[p]) = l /\ Len(F[p]) = l /\ p < p + 1
      BY <1>a, <1>b, <1>6
    <3> QED BY <1>6, <2>1, <3>1 DEF Started
  <2>4. ASSUME NEW k \in 1..f PROVE Entered(prog, ds, L, F, home, p + 1, k)
    <3>1. k \in 1..l /\ (k < l \/ (k = f /\ f > 0))
      BY <1>b, <1>6
    <3> QED BY <1>5, <1>6, <2>1, <3>1
  <2>5. Len(F[p + 1]) = f /\ F[p + 1] \in Seq(DOMAIN ds) /\ l + 1 = f + 1
    BY <1>0, <1>a, <1>6
  <2> QED BY <2>1, <2>2, <2>3, <2>4, <2>5, <1>b DEF Standing
<1>7. CASE /\ e.op = "endchunk" /\ l = f + 1
           /\ L[p + 1] = Front(L[p]) /\ F[p + 1] = F[p]
  <2>0. Len(L[p]) > 0 /\ l - 1 = f
    BY <1>a, <1>b, <1>7
  <2>1. /\ L[p + 1] \in Seq(Nat) /\ Len(L[p + 1]) = l - 1
        /\ \A k \in 1..(l - 1) : L[p + 1][k] = L[p][k]
    <3>1. L[p] \in Seq(Nat) /\ L[p + 1] = Front(L[p])
      BY <1>0, <1>7
    <3> QED BY <1>a, <2>0, <3>1, Fronts
  <2>2. ASSUME NEW k \in 1..f PROVE Started(prog, L, F, p + 1, k)
    <3>1. k \in 1..l /\ k \in 1..(l - 1) /\ \A j \in 1..(k - 1) : j \in 1..(l - 1)
      BY <1>b, <1>7
    <3> QED BY <1>4, <1>7, <2>1, <3>1
  <2>4. ASSUME NEW k \in 1..f PROVE Entered(prog, ds, L, F, home, p + 1, k)
    <3>1. k \in 1..(l - 1) /\ k < l
      BY <1>b, <1>7
    <3> QED BY <1>5, <1>7, <2>1, <3>1
  <2>5. Len(F[p + 1]) = f /\ F[p + 1] \in Seq(DOMAIN ds)
    BY <1>0, <1>a, <1>7
  <2> QED BY <2>0, <2>1, <2>2, <2>4, <2>5, <1>b DEF Standing
<1>8. CASE /\ e.op = "dec" /\ e.id \in DOMAIN ds /\ Fun(ds, e.id) /\ l = f + 1
           /\ L[p + 1] = L[p] /\ F[p + 1] = Append(F[p], e.id) /\ home[e.id] = L[p][l]
  <2>0. F[p + 1] = Append(F[p], e.id) /\ e.id \in DOMAIN ds
    BY <1>8
  <2>1. /\ F[p + 1] \in Seq(DOMAIN ds) /\ Len(F[p + 1]) = f + 1 /\ F[p + 1][f + 1] = e.id
        /\ \A k \in 1..f : F[p + 1][k] = F[p][k]
    BY <1>0, <1>a, <2>0, Appends
  <2>2. ASSUME NEW k \in 1..l PROVE Started(prog, L, F, p + 1, k)
    <3>1. \A j \in 1..(k - 1) : j \in 1..f
      BY <1>b, <1>8
    <3> QED BY <1>4, <1>8, <2>1, <3>1
  <2>3. Met(prog, e.id, p + 1)
    BY <1>b, <1>8 DEF Met, IsDec
  <2>5. Len(L[p + 1]) = l /\ L[p + 1] \in Seq(Nat)
    BY <1>0, <1>a, <1>8
  <2>4. Entered(prog, ds, L, F, home, p + 1, f + 1)
    <3>1. ~(f + 1 < l)
      BY <1>b, <1>8
    <3> QED BY <1>8, <2>1, <2>3, <2>5, <3>1 DEF Entered
  <2>6. ASSUME NEW k \in 1..f PROVE Entered(prog, ds, L, F, home, p + 1, k)
    <3>1. k < l
      BY <1>b, <1>8
    <3> QED BY <1>5, <1>8, <2>1, <3>1
  <2>7. \A k \in 1..(f + 1) : k \in 1..f \/ k = f + 1
    BY <1>b
  <2> QED BY <1>8, <2>1, <2>2, <2>4, <2>5, <2>6, <2>7 DEF Standing
<1>9. CASE /\ e.op = "end" /\ l = f /\ f > 0 /\ e.id = F[p][f]
           /\ L[p + 1] = L[p] /\ F[p + 1] = Front(F[p])
  <2>0. Len(F[p]) > 0 /\ F[p + 1] = Front(F[p])
    BY <1>a, <1>9
  <2>1. /\ F[p + 1] \in Seq(DOMAIN ds) /\ Len(F[p + 1]) = f - 1
        /\ \A k \in 1..(f - 1) : F[p + 1][k] = F[p][k]
    BY <1>0, <1>a, <2>0, Fronts
  <2>2. ASSUME NEW k \in 1..l PROVE Started(prog, L, F, p + 1, k)
    <3>1. \A j \in 1..(k - 1) : j \in 1..(f - 1)
      BY <1>b, <1>9
    <3> QED BY <1>4, <1>9, <2>1, <3>1
  <2>4. ASSUME NEW k \in 1..(f - 1) PROVE Entered(prog, ds, L, F, home, p + 1, k)
    <3>1. k \in 1..f /\ k < l
      BY <1>b, <1>9
    <3> QED BY <1>5, <1>9, <2>1, <3>1
  <2>6. Len(L[p + 1]) = l /\ L[p + 1] \in Seq(Nat)
    BY <1>0, <1>a, <1>9
  <2>5. l = (f - 1) + 1
    BY <1>b, <1>9
  <2> QED BY <2>1, <2>2, <2>4, <2>5, <2>6 DEF Standing
<1>10. CASE l = f /\ L[p + 1] = L[p] /\ F[p + 1] = F[p]
  <2>2. ASSUME NEW k \in 1..l PROVE Started(prog, L, F, p + 1, k)
    BY <1>4, <1>10
  <2>4. ASSUME NEW k \in 1..f PROVE Entered(prog, ds, L, F, home, p + 1, k)
    <3>1. Len(L[p + 1]) = l
      BY <1>a, <1>10
    <3> QED BY <1>5, <1>10, <3>1
  <2> QED BY <1>0, <1>a, <1>10, <2>2, <2>4 DEF Standing
<1> QED BY <1>a, <1>6, <1>7, <1>8, <1>9, <1>10 DEF Leads

Then(T, n, t) == [p \in 1..(n + 1) |-> IF p <= n THEN T[p] ELSE t]

\* More declarations change nothing in what was written.
LEMMA MoreDeclared ==
  ASSUME NEW prog, NEW ds, NEW L, NEW F, NEW home, NEW ds2 \in Seq(Decs),
         NEW home2, \A d \in DOMAIN ds2 : home2[d] \in Nat,
         Nested(prog, ds, L, F, home),
         Len(ds) <= Len(ds2), \A d \in DOMAIN ds : ds2[d] = ds[d] /\ home2[d] = home[d]
  PROVE  Nested(prog, ds2, L, F, home2)
<1>1. prog \in Seq(Events) /\ ds \in Seq(Decs) /\ DOMAIN prog = 1..Len(prog) /\ Len(prog) \in Nat
  BY DEF Nested
<1>2. Extends(prog, ds, L, F, home, prog, ds2, L, F, home2)
  BY <1>1 DEF Extends
<1>3. \A p \in 1..(Len(prog) + 1) : Standing(prog, ds, L, F, home, p)
  BY DEF Nested
<1>4. \A p \in DOMAIN prog : Leads(prog, ds, L, F, home, p) /\ p \in 1..(Len(prog) + 1)
  BY <1>1 DEF Nested
<1>5. \A p \in 1..(Len(prog) + 1) : Standing(prog, ds2, L, F, home2, p)
  BY <1>1, <1>2, <1>3, StandingStays
<1>6. \A p \in DOMAIN prog : Leads(prog, ds2, L, F, home2, p)
  BY <1>1, <1>2, <1>3, <1>4, LeadsStays
<1> QED BY <1>1, <1>5, <1>6 DEF Nested

\* An event that leads somewhere is added.
LEMMA EventAdded ==
  ASSUME NEW prog, NEW ds, NEW L, NEW F, NEW home, Nested(prog, ds, L, F, home),
         NEW e \in Events, NEW l2, NEW f2,
         e.op = "dec" => ~Met(prog, e.id, Len(prog) + 1),
         Leads(Append(prog, e), ds, Then(L, Len(prog) + 1, l2), Then(F, Len(prog) + 1, f2),
               home, Len(prog) + 1)
  PROVE  Nested(Append(prog, e), ds, Then(L, Len(prog) + 1, l2), Then(F, Len(prog) + 1, f2), home)
<1> DEFINE n == Len(prog)
           prog2 == Append(prog, e)
           L2 == Then(L, n + 1, l2)
           F2 == Then(F, n + 1, f2)
<1>1. /\ prog \in Seq(Events) /\ ds \in Seq(Decs) /\ DOMAIN prog = 1..n /\ n \in Nat
      /\ prog2 \in Seq(Events) /\ Len(prog2) = n + 1 /\ DOMAIN prog2 = 1..(n + 1)
      /\ prog2[n + 1] = e /\ \A p \in 1..n : prog2[p] = prog[p]
  BY Appends, AppendProperties DEF Nested
<1>2. /\ \A p \in 1..(n + 1) : L2[p] = L[p] /\ F2[p] = F[p]
  BY <1>1 DEF Then
<1>3. Leads(prog2, ds, L2, F2, home, n + 1)
  OBVIOUS
<1> HIDE DEF n, prog2, L2, F2
<1>4. Extends(prog, ds, L, F, home, prog2, ds, L2, F2, home)
  <2>1. n = Len(prog)
    BY DEF n
  <2> QED BY <1>1, <1>2, <2>1 DEF Extends
<1>5. \A p \in 1..(n + 1) : Standing(prog, ds, L, F, home, p)
  BY DEF Nested, n
<1>6. \A p \in 1..(n + 1) : Standing(prog2, ds, L2, F2, home, p)
  BY <1>1, <1>4, <1>5, StandingStays DEF n
<1>7. \A p \in 1..n : Leads(prog, ds, L, F, home, p) /\ p \in 1..(n + 1)
  <2>1. \A p \in 1..n : p \in DOMAIN prog /\ p \in 1..(n + 1)
    BY <1>1
  <2> QED BY <2>1 DEF Nested
<1>8. \A p \in 1..n : Leads(prog2, ds, L2, F2, home, p)
  BY <1>1, <1>4, <1>5, <1>7, LeadsStays
<1>9. \A p \in 1..(n + 1) : Leads(prog2, ds, L2, F2, home, p)
  BY <1>1, <1>3, <1>8
<1>10. n + 1 \in 1..(n + 1) /\ n + 1 \in DOMAIN prog2
  BY <1>1
<1>11. Standing(prog2, ds, L2, F2, home, (n + 1) + 1)
  BY <1>1, <1>6, <1>9, <1>10, StandsNext
<1>12. \A p \in 1..(Len(prog2) + 1) : Standing(prog2, ds, L2, F2, home, p)
  <2>1. \A p \in 1..((n + 1) + 1) : p \in 1..(n + 1) \/ p = (n + 1) + 1
    BY <1>1
  <2> QED BY <1>1, <1>6, <1>11, <2>1
<1>13. ASSUME NEW p \in DOMAIN prog2, NEW q \in DOMAIN prog2,
              prog2[p].op = "dec", prog2[q].op = "dec", prog2[p].id = prog2[q].id
       PROVE  p = q
  <2>1. \A r \in 1..n : ~(e.op = "dec" /\ IsDec(prog[r], e.id))
    BY <1>1 DEF Met, n
  <2>2. CASE p \in 1..n /\ q \in 1..n
    BY <1>1, <1>13, <2>2 DEF Nested
  <2>3. CASE p = n + 1 /\ q \in 1..n
    BY <1>1, <1>13, <2>1, <2>3 DEF IsDec
  <2>4. CASE q = n + 1 /\ p \in 1..n
    BY <1>1, <1>13, <2>1, <2>4 DEF IsDec
  <2> QED BY <1>1, <2>2, <2>3, <2>4
<1>14. (\A d \in DOMAIN ds : home[d] \in Nat) /\ L2[1] = <<>> /\ F2[1] = <<>>
  BY <1>1, <1>2 DEF Nested
<1> QED BY <1>1, <1>9, <1>12, <1>13, <1>14 DEF Nested, prog2, L2, F2, n

-----------------------------------------------------------------------------
(* A program being written: l and f are the chunks and the functions its   *)
(* next event is in, wk has a frame for each, and one for a chunk of types,*)
(* which is always the last.                                               *)

End(prog) == Len(prog) + 1
Begun(prog, d) == Met(prog, d, End(prog))

\* What is in scope can be used.
Usable(prog, ds, d) ==
  /\ d \in DOMAIN ds
  /\ ds[d].kind = "var" => /\ Begun(prog, d) /\ ds[d].owner \in DOMAIN ds
                           /\ ds[ds[d].owner].kind = "fun"

\* What the chunk i has still to declare.
ToDeclare(prog, ds, wk, l, home, i, d) ==
  /\ d \in DOMAIN ds /\ ~Begun(prog, d)
  /\ \/ wk[i].kind = "typchunk" /\ ds[d].kind = "typ"
     \/ /\ wk[i].kind = "funchunk" /\ ds[d].kind = "fun"
        /\ \A k \in 1..Len(l) : i = 2 * k - 1 => home[d] = l[k]

FramesFit(wk, ds, l, f) ==
  /\ wk \in Seq(Frames) /\ Len(wk) > 0 /\ wk[1].kind = "let"
  /\ \/ wk[Len(wk)].kind # "typchunk" /\ Len(wk) = Len(l) + Len(f)
     \/ wk[Len(wk)].kind = "typchunk" /\ Len(wk) = Len(l) + Len(f) + 1 /\ Len(l) = Len(f)
  /\ \A k \in 1..Len(f) : LET w == wk[2 * k] IN
       w.kind = "fun" /\ w.id = f[k] /\ ds[f[k]].kind = "fun"
  /\ \A k \in 1..Len(l) : k > 1 => wk[2 * k - 1].kind = "funchunk"

InFrames(prog, ds, wk, l, home) ==
  \A i \in DOMAIN wk :
    /\ \A j \in DOMAIN wk[i].decs : Usable(prog, ds, wk[i].decs[j])
    /\ \A j \in DOMAIN wk[i].todo : ToDeclare(prog, ds, wk, l, home, i, wk[i].todo[j])

OncePending(prog, ds, wk) ==
  /\ \A i, i2 \in DOMAIN wk : \A j \in DOMAIN wk[i].todo, j2 \in DOMAIN wk[i2].todo :
       wk[i].todo[j] = wk[i2].todo[j2] => i = i2 /\ j = j2
  /\ \A d \in DOMAIN ds :
       Begun(prog, d) \/ \E i \in DOMAIN wk : \E j \in DOMAIN wk[i].todo : wk[i].todo[j] = d

Walked(prog, ds, wk, l, f, home) ==
  /\ FramesFit(wk, ds, l, f) /\ InFrames(prog, ds, wk, l, home) /\ OncePending(prog, ds, wk)

Writing(prog, ds, wk, L, F, home) ==
  /\ Nested(prog, ds, L, F, home)
  /\ \A d \in DOMAIN ds : home[d] <= Len(prog)
  /\ Walked(prog, ds, wk, L[End(prog)], F[End(prog)], home)

\* What is in it was there or is the new element.
LEMMA AppendIs ==
  ASSUME NEW s \in Seq(Nat), NEW x \in Nat, NEW j \in DOMAIN Append(s, x)
  PROVE  (j \in DOMAIN s /\ Append(s, x)[j] = s[j]) \/ Append(s, x)[j] = x
<1>1. DOMAIN s = 1..Len(s) /\ Len(s) \in Nat /\ DOMAIN Append(s, x) = 1..(Len(s) + 1)
  BY AppendProperties
<1>2. j \in DOMAIN s \/ j = Len(s) + 1
  BY <1>1
<1> QED BY <1>1, <1>2, Appends

\* The members of a frame.
LEMMA FrameIs ==
  ASSUME NEW wk \in Seq(Frames), NEW i \in DOMAIN wk
  PROVE  /\ wk[i] \in Frames /\ wk[i].kind \in {"let", "fun", "funchunk", "typchunk"}
         /\ wk[i].id \in Nat /\ wk[i].decs \in Seq(Nat) /\ wk[i].todo \in Seq(Nat)
<1>1. DOMAIN wk = 1..Len(wk)
  OBVIOUS
<1>2. wk[i] \in Frames
  BY <1>1, ElementOfSeq
<1> QED BY <1>2 DEF Frames

\* The types of a program being written.
LEMMA WrittenTypes ==
  ASSUME NEW prog, NEW ds, NEW wk, NEW L, NEW F, NEW home, Writing(prog, ds, wk, L, F, home)
  PROVE  /\ prog \in Seq(Events) /\ ds \in Seq(Decs) /\ (\A d \in DOMAIN ds : home[d] \in Nat)
         /\ DOMAIN prog = 1..Len(prog) /\ Len(prog) \in Nat
         /\ DOMAIN ds = 1..Len(ds) /\ Len(ds) \in Nat
         /\ wk \in Seq(Frames) /\ DOMAIN wk = 1..Len(wk) /\ Len(wk) \in Nat /\ Len(wk) > 0
         /\ End(prog) \in Nat /\ End(prog) = Len(prog) + 1 /\ End(prog) \in 1..(Len(prog) + 1)
         /\ L[End(prog)] \in Seq(Nat) /\ F[End(prog)] \in Seq(DOMAIN ds)
         /\ Len(L[End(prog)]) \in Nat /\ Len(F[End(prog)]) \in Nat
<1>1. prog \in Seq(Events) /\ ds \in Seq(Decs) /\ (\A d \in DOMAIN ds : home[d] \in Nat)
  BY DEF Writing, Nested
<1>2. /\ DOMAIN prog = 1..Len(prog) /\ Len(prog) \in Nat
      /\ DOMAIN ds = 1..Len(ds) /\ Len(ds) \in Nat
  BY <1>1
<1>3. End(prog) \in 1..(Len(prog) + 1) /\ End(prog) \in Nat /\ End(prog) = Len(prog) + 1
  BY <1>2 DEF End
<1>4. Standing(prog, ds, L, F, home, End(prog))
  BY <1>3 DEF Writing, Nested
<1>5. L[End(prog)] \in Seq(Nat) /\ F[End(prog)] \in Seq(DOMAIN ds)
  BY <1>4 DEF Standing
<1>6. wk \in Seq(Frames) /\ Len(wk) > 0
  BY DEF Writing, Walked, FramesFit
<1>7. DOMAIN wk = 1..Len(wk) /\ Len(wk) \in Nat
  BY <1>6
<1> QED BY <1>1, <1>2, <1>3, <1>5, <1>6, <1>7

\* What the last frame says of where the program is.
LEMMA TopIs ==
  ASSUME NEW prog, NEW ds, NEW wk, NEW L, NEW F, NEW home, Writing(prog, ds, wk, L, F, home),
         NEW l, NEW f, l = L[End(prog)], f = F[End(prog)], NEW top, top = wk[Len(wk)]
  PROVE  /\ Len(l) = Len(f) \/ Len(l) = Len(f) + 1
         /\ top \in Frames /\ Len(wk) \in DOMAIN wk
         /\ top.kind = "fun" => /\ Len(l) = Len(f) /\ Len(f) > 0 /\ Len(wk) = 2 * Len(f)
                                /\ top.id = f[Len(f)] /\ f[Len(f)] \in DOMAIN ds
                                /\ ds[f[Len(f)]].kind = "fun"
         /\ top.kind = "funchunk" => /\ Len(l) = Len(f) + 1 /\ Len(wk) = 2 * Len(l) - 1
                                     /\ Len(f) > 0
         /\ top.kind = "typchunk" => /\ Len(l) = Len(f) /\ Len(f) > 0 /\ Len(wk) = 2 * Len(f) + 1
         /\ top.kind = "let" => Len(wk) = 1 /\ Len(l) = 1 /\ Len(f) = 0
<1> DEFINE m == Len(wk)
           a == Len(l)
           b == Len(f)
<1>0. FramesFit(wk, ds, l, f)
  BY DEF Writing, Walked
<1>1. wk \in Seq(Frames) /\ m \in Nat /\ m > 0 /\ DOMAIN wk = 1..m
  BY WrittenTypes
<1>2. m \in DOMAIN wk /\ top = wk[m] /\ top \in Frames
  BY <1>1, FrameIs
<1>3. a \in Nat /\ b \in Nat /\ f \in Seq(DOMAIN ds)
  BY WrittenTypes
<1>4. Standing(prog, ds, L, F, home, End(prog))
  <2>1. End(prog) \in 1..(Len(prog) + 1)
    BY WrittenTypes
  <2> QED BY <2>1 DEF Writing, Nested
<1>5. a = b \/ a = b + 1
  BY <1>4 DEF Standing
<1>6. /\ top.kind # "typchunk" => m = a + b
      /\ top.kind = "typchunk" => m = a + b + 1 /\ a = b
  BY <1>0 DEF FramesFit
<1>7. \A k \in 1..b : wk[2 * k].kind = "fun" /\ wk[2 * k].id = f[k] /\ ds[f[k]].kind = "fun"
  BY <1>0 DEF FramesFit
<1>8. \A k \in 1..a : k > 1 => wk[2 * k - 1].kind = "funchunk"
  BY <1>0 DEF FramesFit
<1>9. wk[1].kind = "let"
  BY <1>0 DEF FramesFit
<1> HIDE DEF m, a, b
<1>10. CASE top.kind = "typchunk"
  <2>1. m = 2 * b + 1 /\ a = b
    BY <1>3, <1>6, <1>10
  <2>2. m # 1
    BY <1>2, <1>9, <1>10
  <2>3. b > 0
    BY <2>1, <2>2, <1>3
  <2> QED BY <1>1, <1>2, <1>5, <1>10, <2>1, <2>3 DEF m, a, b
<1>11. CASE top.kind # "typchunk" /\ a = b
  <2>1. m = 2 * b /\ b > 0 /\ b \in 1..b
    BY <1>1, <1>3, <1>6, <1>11
  <2>2. top.kind = "fun" /\ top.id = f[b] /\ ds[f[b]].kind = "fun"
    BY <1>2, <1>7, <2>1
  <2>3. f[b] \in DOMAIN ds
    BY <1>3, <2>1, ElementOfSeq DEF b
  <2> QED BY <1>1, <1>2, <1>5, <1>11, <2>1, <2>2, <2>3 DEF m, a, b
<1>12. CASE top.kind # "typchunk" /\ a = b + 1 /\ b > 0
  <2>1. m = 2 * a - 1 /\ a > 1 /\ a \in 1..a
    BY <1>1, <1>3, <1>6, <1>12
  <2>2. top.kind = "funchunk"
    BY <1>2, <1>8, <2>1
  <2> QED BY <1>1, <1>2, <1>5, <1>12, <2>1, <2>2 DEF m, a, b
<1>13. CASE top.kind # "typchunk" /\ a = b + 1 /\ ~(b > 0)
  <2>1. m = 1 /\ a = 1 /\ b = 0
    BY <1>1, <1>3, <1>6, <1>13
  <2>2. top.kind = "let"
    BY <1>2, <1>9, <2>1
  <2> QED BY <1>1, <1>2, <1>5, <1>13, <2>1, <2>2 DEF m, a, b
<1> QED BY <1>5, <1>10, <1>11, <1>12, <1>13

\* How many chunks and functions are open says what is being written.
LEMMA WhereTheTopIs ==
  ASSUME NEW prog, NEW ds, NEW wk, NEW L, NEW F, NEW home, Writing(prog, ds, wk, L, F, home)
  PROVE  LET l == L[End(prog)]  f == F[End(prog)] IN
         /\ Len(l) = Len(f) \/ Len(l) = Len(f) + 1
         /\ wk[Len(wk)] \in Frames /\ Len(wk) \in DOMAIN wk
         /\ wk[Len(wk)].kind = "fun" =>
              /\ Len(l) = Len(f) /\ Len(f) > 0 /\ Len(wk) = 2 * Len(f)
              /\ wk[Len(wk)].id = f[Len(f)] /\ f[Len(f)] \in DOMAIN ds /\ ds[f[Len(f)]].kind = "fun"
         /\ wk[Len(wk)].kind = "funchunk" =>
              Len(l) = Len(f) + 1 /\ Len(wk) = 2 * Len(l) - 1 /\ Len(f) > 0
         /\ wk[Len(wk)].kind = "typchunk" => Len(l) = Len(f) /\ Len(f) > 0 /\ Len(wk) = 2 * Len(f) + 1
         /\ wk[Len(wk)].kind = "let" => Len(wk) = 1 /\ Len(l) = 1 /\ Len(f) = 0
<1>1. PICK l, f, top : l = L[End(prog)] /\ f = F[End(prog)] /\ top = wk[Len(wk)]
  OBVIOUS
<1>2. /\ Len(l) = Len(f) \/ Len(l) = Len(f) + 1
      /\ top \in Frames /\ Len(wk) \in DOMAIN wk
  BY <1>1, TopIs
<1>3. top.kind = "fun" => /\ Len(l) = Len(f) /\ Len(f) > 0 /\ Len(wk) = 2 * Len(f)
                          /\ top.id = f[Len(f)] /\ f[Len(f)] \in DOMAIN ds
                          /\ ds[f[Len(f)]].kind = "fun"
  BY <1>1, TopIs
<1>4. top.kind = "funchunk" => Len(l) = Len(f) + 1 /\ Len(wk) = 2 * Len(l) - 1 /\ Len(f) > 0
  BY <1>1, TopIs
<1>5. top.kind = "typchunk" => Len(l) = Len(f) /\ Len(f) > 0 /\ Len(wk) = 2 * Len(f) + 1
  BY <1>1, TopIs
<1>6. top.kind = "let" => Len(wk) = 1 /\ Len(l) = 1 /\ Len(f) = 0
  BY <1>1, TopIs
<1> QED BY <1>1, <1>2, <1>3, <1>4, <1>5, <1>6

\* In a function, as many functions are open as chunks, and it is the last.
LEMMA TopIsFun ==
  ASSUME NEW prog, NEW ds, NEW wk, NEW L, NEW F, NEW home, Writing(prog, ds, wk, L, F, home),
         wk[Len(wk)].kind = "fun"
  PROVE  LET l == L[End(prog)]  f == F[End(prog)] IN
         /\ Len(l) = Len(f) /\ Len(f) > 0 /\ Len(wk) = 2 * Len(f) /\ wk[Len(wk)].id = f[Len(f)]
         /\ f[Len(f)] \in DOMAIN ds /\ ds[f[Len(f)]].kind = "fun" /\ Len(wk) \in DOMAIN wk
BY WhereTheTopIs

\* What an event written at the end changes.
LEMMA NewEvent ==
  ASSUME NEW prog, NEW ds, NEW wk, NEW L, NEW F, NEW home, Writing(prog, ds, wk, L, F, home),
         NEW e \in Events
  PROVE  /\ Append(prog, e)[End(prog)] = e
         /\ \A T, t : Then(T, End(prog), t)[End(prog)] = T[End(prog)]
                      /\ Then(T, End(prog), t)[End(prog) + 1] = t
         /\ \A c : Met(prog, c, End(prog)) => Met(Append(prog, e), c, End(prog))
         /\ Len(Append(prog, e)) = End(prog) /\ End(Append(prog, e)) = End(prog) + 1
         /\ \A c : Begun(Append(prog, e), c) <=> Begun(prog, c) \/ IsDec(e, c)
<1> DEFINE n == End(prog)
           prog2 == Append(prog, e)
<1>1. prog \in Seq(Events) /\ DOMAIN prog = 1..Len(prog) /\ n \in Nat /\ n = Len(prog) + 1
      /\ Len(prog) \in Nat
  BY WrittenTypes
<1>2. /\ prog2 \in Seq(Events) /\ Len(prog2) = n /\ prog2[n] = e
      /\ \A p \in DOMAIN prog : prog2[p] = prog[p]
  BY <1>1, Appends
<1>3. DOMAIN prog2 = 1..n /\ DOMAIN prog \subseteq DOMAIN prog2 /\ End(prog2) = n + 1
  BY <1>1, <1>2 DEF End
<1> HIDE DEF n, prog2
<1>4. \A T, t : Then(T, n, t)[n] = T[n] /\ Then(T, n, t)[n + 1] = t
  <2>1. n + 1 \in 1..(n + 1) /\ n \in 1..(n + 1) /\ ~(n + 1 <= n) /\ n <= n
    BY <1>1
  <2> QED BY <2>1 DEF Then
<1>5. \A c : Met(prog, c, n) => Met(prog2, c, n)
  BY <1>2, <1>3 DEF Met
<1>6. ASSUME NEW c PROVE Begun(prog2, c) <=> Begun(prog, c) \/ IsDec(e, c)
  <2>2. ASSUME Begun(prog, c) PROVE Begun(prog2, c)
    <3>1. PICK r \in DOMAIN prog : r < n /\ IsDec(prog[r], c)
      BY <2>2 DEF Begun, Met, n
    <3>2. r < n + 1
      BY <1>1, <3>1
    <3> QED BY <1>2, <1>3, <3>1, <3>2 DEF Begun, Met
  <2>3. ASSUME IsDec(e, c) PROVE Begun(prog2, c)
    <3>1. n \in DOMAIN prog2 /\ n < n + 1
      BY <1>1, <1>3
    <3> QED BY <1>2, <1>3, <2>3, <3>1 DEF Begun, Met
  <2>4. ASSUME Begun(prog2, c), ~IsDec(e, c) PROVE Begun(prog, c)
    <3>1. PICK r \in DOMAIN prog2 : IsDec(prog2[r], c)
      BY <2>4 DEF Begun, Met
    <3>2. r \in DOMAIN prog /\ r < n
      BY <1>1, <1>2, <1>3, <2>4, <3>1
    <3> QED BY <1>2, <3>1, <3>2 DEF Begun, Met, n
  <2> QED BY <2>2, <2>3, <2>4
<1> QED BY <1>2, <1>3, <1>4, <1>5, <1>6 DEF n, prog2

\* An event is added, after declarations if there are any.
LEMMA Added ==
  ASSUME NEW prog, NEW ds, NEW wk, NEW L, NEW F, NEW home, Writing(prog, ds, wk, L, F, home),
         NEW ds2, NEW home2, Nested(prog, ds2, L, F, home2),
         \A d \in DOMAIN ds2 : home2[d] <= End(prog),
         NEW e \in Events, e.op = "dec" => ~Begun(prog, e.id), NEW l2, NEW f2,
         Leads(Append(prog, e), ds2, Then(L, End(prog), l2), Then(F, End(prog), f2), home2, End(prog))
  PROVE  /\ Nested(Append(prog, e), ds2, Then(L, End(prog), l2), Then(F, End(prog), f2), home2)
         /\ \A d \in DOMAIN ds2 : home2[d] <= Len(Append(prog, e))
<1>2. Nested(Append(prog, e), ds2, Then(L, End(prog), l2), Then(F, End(prog), f2), home2)
  BY EventAdded DEF Begun, End
<1> QED BY <1>2, NewEvent

\* A declaration in scope stays one while more is declared.
LEMMA UsableStays ==
  ASSUME NEW prog, NEW ds, NEW prog2, NEW ds2, NEW d, Usable(prog, ds, d),
         \A c \in DOMAIN ds : c \in DOMAIN ds2 /\ ds2[c] = ds[c],
         \A c : Begun(prog, c) => Begun(prog2, c)
  PROVE  Usable(prog2, ds2, d)
BY DEF Usable

\* So does one still to write.
LEMMA ToDeclareStays ==
  ASSUME NEW prog, NEW ds, NEW wk, NEW l, NEW home, NEW prog2, NEW ds2, NEW wk2, NEW l2, NEW home2,
         NEW i, NEW d, ToDeclare(prog, ds, wk, l, home, i, d),
         \A c \in DOMAIN ds : c \in DOMAIN ds2 /\ ds2[c] = ds[c] /\ home2[c] = home[c],
         Begun(prog2, d) => Begun(prog, d), wk2[i].kind = wk[i].kind,
         \A k \in 1..Len(l2) : i = 2 * k - 1 => k \in 1..Len(l) /\ l2[k] = l[k]
  PROVE  ToDeclare(prog2, ds2, wk2, l2, home2, i, d)
BY DEF ToDeclare

\* The frames stay as they are, but for what they declare.
LEMMA FramesStay ==
  ASSUME NEW wk, NEW ds, NEW l \in Seq(Nat), NEW f \in Seq(DOMAIN ds), FramesFit(wk, ds, l, f),
         Len(l) = Len(f) \/ Len(l) = Len(f) + 1,
         NEW ds2, \A c \in DOMAIN ds : c \in DOMAIN ds2 /\ ds2[c] = ds[c],
         NEW wk2 \in Seq(Frames), Len(wk2) = Len(wk),
         \A i \in DOMAIN wk : wk2[i].kind = wk[i].kind /\ wk2[i].id = wk[i].id
  PROVE  FramesFit(wk2, ds2, l, f)
<1>1. wk \in Seq(Frames) /\ Len(wk) > 0 /\ wk[1].kind = "let"
  BY DEF FramesFit
<1>2. DOMAIN wk = 1..Len(wk) /\ Len(wk) \in DOMAIN wk /\ 1 \in DOMAIN wk
  BY <1>1
<1>4. \/ wk[Len(wk)].kind # "typchunk" /\ Len(wk) = Len(l) + Len(f)
      \/ wk[Len(wk)].kind = "typchunk" /\ Len(wk) = Len(l) + Len(f) + 1 /\ Len(l) = Len(f)
  BY DEF FramesFit
<1>5. ASSUME NEW k \in 1..Len(f)
      PROVE  wk2[2 * k].kind = "fun" /\ wk2[2 * k].id = f[k] /\ ds2[f[k]].kind = "fun"
  <2>1. wk[2 * k].kind = "fun" /\ wk[2 * k].id = f[k] /\ ds[f[k]].kind = "fun"
    BY DEF FramesFit
  <2>2. f[k] \in DOMAIN ds
    BY ElementOfSeq
  <2>3. 2 * k \in DOMAIN wk
    BY <1>2, <1>4
  <2> QED BY <2>1, <2>2, <2>3
<1>6. ASSUME NEW k \in 1..Len(l), k > 1
      PROVE  wk2[2 * k - 1].kind = "funchunk"
  <2>1. wk[2 * k - 1].kind = "funchunk"
    BY <1>6 DEF FramesFit
  <2>2. 2 * k - 1 \in DOMAIN wk
    BY <1>2, <1>4
  <2> QED BY <2>1, <2>2
<1>7. wk2[1].kind = "let" /\ Len(wk2) > 0
  BY <1>1, <1>2
<1>8. wk2[Len(wk2)].kind = wk[Len(wk)].kind
  BY <1>2
<1> QED BY <1>4, <1>5, <1>6, <1>7, <1>8 DEF FramesFit

\* A use is added in the function being written.
LEMMA UseWritten ==
  ASSUME NEW prog, NEW ds, NEW wk, NEW L, NEW F, NEW home, Writing(prog, ds, wk, L, F, home),
         NEW f, f = F[End(prog)], Len(f) > 0, Len(L[End(prog)]) = Len(f),
         NEW e \in Events, e.op = "use", e.within = f[Len(f)], ds[e.within].kind = "fun",
         e.id \in e.scope,
         \A d \in e.scope : Usable(prog, ds, d) /\ InSpace(ds, d) = InSpace(ds, e.id)
  PROVE  \E L2, F2, home2 : Writing(Append(prog, e), ds, wk, L2, F2, home2)
<1>1. PICK l, n : l = L[End(prog)] /\ n = End(prog)
  OBVIOUS
<1>2. PICK L2, F2, prog2 : L2 = Then(L, n, l) /\ F2 = Then(F, n, f) /\ prog2 = Append(prog, e)
  OBVIOUS
<1>3. /\ ds \in Seq(Decs) /\ (\A d \in DOMAIN ds : home[d] \in Nat) /\ Len(ds) \in Nat /\ n \in Nat
      /\ \A d \in DOMAIN ds : home[d] < n
  <2>1. \A d \in DOMAIN ds : home[d] <= Len(prog)
    BY DEF Writing
  <2> QED BY <1>1, <2>1, WrittenTypes
<1>n. /\ prog2[n] = e /\ L2[n] = L[n] /\ F2[n] = F[n] /\ L2[n + 1] = l /\ F2[n + 1] = f
      /\ \A c : Met(prog, c, n) => Met(prog2, c, n)
      /\ Len(prog2) = n /\ End(prog2) = n + 1
      /\ \A c : Begun(prog2, c) <=> Begun(prog, c)
  <2>1. \A c : ~IsDec(e, c)
    BY DEF IsDec
  <2> QED BY <1>1, <1>2, <2>1, NewEvent
<1>4. Leads(prog2, ds, L2, F2, home, n)
  <2>1. e.scope \subseteq DOMAIN ds /\ e.id \in DOMAIN ds
    BY DEF Usable
  <2>2. \A d \in e.scope : InSpace(ds, d) = InSpace(ds, e.id) /\ home[d] < n
    BY <1>3, <2>1
  <2>3. ds[e.id].kind = "var" =>
          /\ Met(prog2, e.id, n) /\ ds[e.id].owner \in DOMAIN ds /\ ds[ds[e.id].owner].kind = "fun"
    BY <1>1, <1>n DEF Usable, Begun
  <2>4. WellUsed(prog2, ds, home, n)
    BY <1>n, <2>1, <2>2, <2>3 DEF WellUsed
  <2> QED BY <1>1, <1>n, <2>1, <2>4 DEF Leads
<1>5. /\ Nested(prog2, ds, L2, F2, home) /\ \A d \in DOMAIN ds : home[d] <= Len(prog2)
  <2>1. \A d \in DOMAIN ds : home[d] <= n
    BY <1>3
  <2>2. Nested(prog, ds, L, F, home)
    BY DEF Writing
  <2> QED BY <1>1, <1>2, <1>4, <2>1, <2>2, Added
<1>6. Walked(prog2, ds, wk, l, f, home)
  <2>1. Walked(prog, ds, wk, l, f, home)
    BY <1>1 DEF Writing
  <2> QED BY <1>n, <2>1 DEF Walked, InFrames, OncePending, Usable, ToDeclare
<1>7. Writing(prog2, ds, wk, L2, F2, home)
  BY <1>5, <1>6, <1>n DEF Writing
<1> QED BY <1>2, <1>7

\* Only declarations are met.
LEMMA MetIsDeclared ==
  ASSUME NEW prog, NEW ds, NEW L, NEW F, NEW home, Nested(prog, ds, L, F, home),
         NEW d, NEW p, Met(prog, d, p)
  PROVE  d \in DOMAIN ds
<1>1. PICK r \in DOMAIN prog : prog[r].op = "dec" /\ prog[r].id = d
  BY DEF Met, IsDec
<1>2. Leads(prog, ds, L, F, home, r)
  BY DEF Nested
<1> QED BY <1>1, <1>2 DEF Leads

\* A declaration of a variable, met as it is made.
LEMMA VarDecWritten ==
  ASSUME NEW prog, NEW ds, NEW wk, NEW L, NEW F, NEW home, Writing(prog, ds, wk, L, F, home),
         wk[Len(wk)].kind = "fun", NEW dec \in Decs, dec.kind = "var", NEW f,
         f = F[End(prog)], dec.owner = f[Len(f)],
         NEW e \in Events, IsDec(e, Len(ds) + 1)
  PROVE  \E L2, F2, home2 :
           Writing(Append(prog, e), Append(ds, dec),
                   [wk EXCEPT ![Len(wk)].decs = Append(@, Len(ds) + 1)], L2, F2, home2)
<1>1. PICK l, n, d, m : l = L[End(prog)] /\ n = End(prog) /\ d = Len(ds) + 1 /\ m = Len(wk)
  OBVIOUS
<1>2. PICK L2, F2, prog2, ds2, home2, wk2 :
        /\ L2 = Then(L, n, l) /\ F2 = Then(F, n, f) /\ prog2 = Append(prog, e)
        /\ ds2 = Append(ds, dec) /\ home2 = [c \in 1..d |-> IF c < d THEN home[c] ELSE 0]
        /\ wk2 = [wk EXCEPT ![m].decs = Append(@, d)]
  OBVIOUS
<1>3. /\ ds \in Seq(Decs) /\ (\A c \in DOMAIN ds : home[c] \in Nat) /\ Len(ds) \in Nat /\ n \in Nat /\ d \in Nat
      /\ DOMAIN ds = 1..Len(ds) /\ n > 0 /\ \A c \in DOMAIN ds : home[c] <= n
      /\ wk \in Seq(Frames) /\ DOMAIN wk = 1..m /\ m \in Nat
  <2>1. \A c \in DOMAIN ds : home[c] <= Len(prog)
    BY DEF Writing
  <2> QED BY <1>1, <2>1, WrittenTypes
<1>4. /\ Len(l) = Len(f) /\ Len(f) > 0 /\ f[Len(f)] \in DOMAIN ds /\ ds[f[Len(f)]].kind = "fun"
      /\ m \in DOMAIN wk
  BY <1>1, WhereTheTopIs
<1>5. /\ ds2 \in Seq(Decs) /\ Len(ds2) = d /\ DOMAIN ds2 = 1..d /\ ds2[d] = dec
      /\ \A c \in DOMAIN ds : c \in DOMAIN ds2 /\ ds2[c] = ds[c]
  BY <1>1, <1>2, <1>3, Appends
<1>6. (\A c \in DOMAIN ds2 : home2[c] \in Nat) /\ \A c \in DOMAIN ds : home2[c] = home[c]
  BY <1>1, <1>2, <1>3, <1>5
<1>7. \A c \in DOMAIN ds2 : home2[c] <= n
  BY <1>1, <1>2, <1>3, <1>5
<1>8. ~Begun(prog, d)
  <2>1. d \notin DOMAIN ds
    BY <1>1, <1>3
  <2> QED BY <2>1, MetIsDeclared DEF Begun, Writing
<1>n. /\ prog2[n] = e /\ L2[n] = L[n] /\ F2[n] = F[n] /\ L2[n + 1] = l /\ F2[n + 1] = f
      /\ Len(prog2) = n /\ End(prog2) = n + 1
      /\ \A c : Begun(prog2, c) <=> Begun(prog, c) \/ c = d
  <2>1. \A c : IsDec(e, c) <=> c = d
    BY <1>1 DEF IsDec
  <2> QED BY <1>1, <1>2, <2>1, NewEvent
<1>9. Leads(prog2, ds2, L2, F2, home2, n)
  <2>1. e.op = "dec" /\ e.id = d /\ d \in DOMAIN ds2
    BY <1>1, <1>3, <1>5 DEF IsDec
  <2> QED BY <1>1, <1>4, <1>5, <1>n, <2>1 DEF Leads
<1>10. /\ Nested(prog2, ds2, L2, F2, home2) /\ \A c \in DOMAIN ds2 : home2[c] <= Len(prog2)
  <2>2. Len(ds) <= Len(ds2)
    BY <1>1, <1>3, <1>5
  <2>3. e.id = d
    BY <1>1 DEF IsDec
  <2>4. Nested(prog, ds2, L, F, home2)
    BY <1>5, <1>6, <2>2, MoreDeclared DEF Writing
  <2> QED BY <1>1, <1>2, <1>7, <1>8, <1>9, <2>3, <2>4, Added
<1>11. /\ wk2 \in Seq(Frames) /\ Len(wk2) = m /\ DOMAIN wk2 = DOMAIN wk
       /\ \A i \in DOMAIN wk : /\ wk2[i].kind = wk[i].kind /\ wk2[i].id = wk[i].id
                               /\ wk2[i].todo = wk[i].todo
                               /\ i # m => wk2[i].decs = wk[i].decs
       /\ wk2[m].decs = Append(wk[m].decs, d)
  <2>1. wk[m] \in Frames /\ wk[m].decs \in Seq(Nat)
    BY <1>3, <1>4, FrameIs
  <2>2. [wk[m] EXCEPT !.decs = Append(@, d)] \in Frames
    BY <1>3, <2>1, Appends DEF Frames
  <2>3. wk2 = [wk EXCEPT ![m] = [wk[m] EXCEPT !.decs = Append(@, d)]]
    BY <1>2
  <2>4. wk2 \in Seq(Frames) /\ Len(wk2) = m /\ DOMAIN wk2 = DOMAIN wk
    BY <1>1, <1>3, <1>4, <2>2, <2>3, ExceptSeq
  <2> QED BY <1>3, <1>4, <2>1, <2>3, <2>4 DEF Frames
<1>w. Walked(prog, ds, wk, l, f, home)
  BY <1>1 DEF Writing
<1>12. FramesFit(wk2, ds2, l, f)
  <2>1. l \in Seq(Nat) /\ f \in Seq(DOMAIN ds)
    BY <1>1, WrittenTypes
  <2>2. FramesFit(wk, ds, l, f)
    BY <1>w DEF Walked
  <2>3. Len(wk2) = Len(wk) /\ \A i \in DOMAIN wk : wk2[i].kind = wk[i].kind /\ wk2[i].id = wk[i].id
    BY <1>1, <1>11
  <2>4. Len(l) = Len(f) \/ Len(l) = Len(f) + 1
    BY <1>4
  <2>5. \A c \in DOMAIN ds : c \in DOMAIN ds2 /\ ds2[c] = ds[c]
    BY <1>5
  <2>6. wk2 \in Seq(Frames)
    BY <1>11
  <2> QED BY <2>1, <2>2, <2>3, <2>4, <2>5, <2>6, FramesStay
<1>13. Usable(prog2, ds2, d)
  <2>1. d \in DOMAIN ds2 /\ Begun(prog2, d)
    BY <1>3, <1>5, <1>n, <1>1
  <2> QED BY <1>4, <1>5, <2>1 DEF Usable
<1>14. InFrames(prog2, ds2, wk2, l, home2)
  <2>1. \A c : Usable(prog, ds, c) => Usable(prog2, ds2, c)
    BY <1>5, <1>n, UsableStays
  <2>2. ASSUME NEW i \in DOMAIN wk2, NEW j \in DOMAIN wk2[i].decs
        PROVE  Usable(prog2, ds2, wk2[i].decs[j])
    <3>1. CASE i # m
      BY <1>11, <1>w, <2>1, <3>1 DEF Walked, InFrames
    <3>2. CASE i = m
      <4>1. wk[m].decs \in Seq(Nat)
        BY <1>3, <1>4, FrameIs
      <4>2. \/ j \in DOMAIN wk[m].decs /\ wk2[m].decs[j] = wk[m].decs[j]
            \/ wk2[m].decs[j] = d
        <5>1. wk2[m].decs = Append(wk[m].decs, d) /\ j \in DOMAIN Append(wk[m].decs, d)
          BY <1>11, <3>2
        <5>2. d \in Nat
          BY <1>3
        <5> QED BY <4>1, <5>1, <5>2, AppendIs
      <4>4. j \in DOMAIN wk[m].decs => Usable(prog, ds, wk[m].decs[j])
        BY <1>4, <1>w DEF Walked, InFrames
      <4> QED BY <1>13, <2>1, <3>2, <4>2, <4>4
    <3> QED BY <3>1, <3>2
  <2>3. ASSUME NEW i \in DOMAIN wk2, NEW j \in DOMAIN wk2[i].todo
        PROVE  ToDeclare(prog2, ds2, wk2, l, home2, i, wk2[i].todo[j])
    <3>1. ToDeclare(prog, ds, wk, l, home, i, wk[i].todo[j]) /\ wk2[i].todo = wk[i].todo
      BY <1>11, <1>w DEF Walked, InFrames
    <3>2. wk[i].todo[j] \in DOMAIN ds
      BY <3>1 DEF ToDeclare
    <3>3. wk[i].todo[j] # d
      BY <1>1, <1>3, <3>2
    <3>4. /\ Begun(prog2, wk[i].todo[j]) => Begun(prog, wk[i].todo[j])
          /\ wk2[i].kind = wk[i].kind
      BY <1>11, <1>n, <3>3
    <3> QED BY <1>5, <1>6, <3>1, <3>4, ToDeclareStays
  <2> QED BY <2>2, <2>3 DEF InFrames
<1>15. OncePending(prog2, ds2, wk2)
  <2>1. \A c \in DOMAIN ds2 : c \in DOMAIN ds \/ c = d
    BY <1>1, <1>3, <1>5
  <2>2. OncePending(prog, ds, wk)
    BY <1>w DEF Walked
  <2>3. ASSUME NEW i \in DOMAIN wk2, NEW i2 \in DOMAIN wk2,
               NEW j \in DOMAIN wk2[i].todo, NEW j2 \in DOMAIN wk2[i2].todo,
               wk2[i].todo[j] = wk2[i2].todo[j2]
        PROVE  i = i2 /\ j = j2
    BY <1>11, <2>2, <2>3 DEF OncePending
  <2>4. ASSUME NEW c \in DOMAIN ds2
        PROVE  Begun(prog2, c) \/ \E i \in DOMAIN wk2 : \E j \in DOMAIN wk2[i].todo : wk2[i].todo[j] = c
    BY <1>n, <1>11, <2>1, <2>2, <2>4 DEF OncePending
  <2> QED BY <2>3, <2>4 DEF OncePending
<1>16. Writing(prog2, ds2, wk2, L2, F2, home2)
  BY <1>10, <1>12, <1>14, <1>15, <1>n DEF Writing, Walked
<1> QED BY <1>1, <1>2, <1>16

ChunkFrame(kind, q, k) ==
  [kind |-> kind, id |-> 0, decs |-> [i \in 1..k |-> q + i], todo |-> [i \in 1..k |-> q + i]]

\* The frame of a chunk that declares what ds2 adds to ds.
IsChunk(fr, ds, ds2) ==
  /\ fr \in Frames
  /\ \A j \in DOMAIN fr.decs : fr.decs[j] \in DOMAIN ds2 /\ fr.decs[j] \notin DOMAIN ds
  /\ \A j \in DOMAIN fr.todo : fr.todo[j] \in DOMAIN ds2 /\ fr.todo[j] \notin DOMAIN ds
  /\ \A i, j \in DOMAIN fr.todo : fr.todo[i] = fr.todo[j] => i = j
  /\ \A c \in DOMAIN ds2 : c \in DOMAIN ds \/ \E j \in DOMAIN fr.todo : fr.todo[j] = c

Homes(ds, ds2, home, h) == [c \in DOMAIN ds2 |-> IF c \in DOMAIN ds THEN home[c] ELSE h]

\* Declarations are added, that are not met yet.
Adding(ds, news, kind, home, h, ds2, home2, fr) ==
  /\ ds2 = ds \o news /\ home2 = Homes(ds, ds2, home, h)
  /\ fr = ChunkFrame(kind, Len(ds), Len(news))

\* What a new chunk declares is added to what was.
LEMMA Declared ==
  ASSUME NEW ds \in Seq(Decs), NEW news \in Seq(Decs), NEW kind \in {"funchunk", "typchunk"},
         NEW home, NEW h, NEW ds2, NEW home2, NEW fr,
         Adding(ds, news, kind, home, h, ds2, home2, fr)
  PROVE  /\ ds2 \in Seq(Decs) /\ Len(ds) <= Len(ds2)
         /\ \A c \in DOMAIN ds : c \in DOMAIN ds2 /\ ds2[c] = ds[c] /\ home2[c] = home[c]
         /\ \A c \in DOMAIN ds2 : c \notin DOMAIN ds => home2[c] = h /\ \E i \in DOMAIN news : ds2[c] = news[i]
         /\ IsChunk(fr, ds, ds2) /\ fr.kind = kind
<1>0. /\ ds2 = ds \o news /\ home2 = Homes(ds, ds2, home, h)
      /\ fr = ChunkFrame(kind, Len(ds), Len(news))
  BY DEF Adding
<1>1. PICK q, k : q = Len(ds) /\ k = Len(news)
  OBVIOUS
<1>2. q \in Nat /\ k \in Nat /\ DOMAIN ds = 1..q /\ DOMAIN news = 1..k
  BY <1>1
<1>3. /\ ds2 \in Seq(Decs) /\ Len(ds2) = q + k
      /\ \A i \in 1..(q + k) : ds2[i] = IF i <= q THEN ds[i] ELSE news[i - q]
  BY <1>0, <1>1, ConcatProperties
<1>4. DOMAIN ds2 = 1..(q + k)
  BY <1>3
<1>5. ASSUME NEW c \in DOMAIN ds2, c \notin DOMAIN ds
      PROVE  c - q \in 1..k /\ q + (c - q) = c /\ ds2[c] = news[c - q]
  <2>1. c \in 1..(q + k) /\ ~(c <= q)
    BY <1>2, <1>4, <1>5
  <2>2. c - q \in 1..k /\ q + (c - q) = c
    BY <1>2, <2>1
  <2> QED BY <1>3, <2>1, <2>2
<1>6. ASSUME NEW c \in DOMAIN ds PROVE c \in DOMAIN ds2 /\ ds2[c] = ds[c]
  <2>1. c \in 1..(q + k) /\ c <= q
    BY <1>2
  <2> QED BY <1>3, <1>4, <2>1
<1>7. q <= Len(ds2)
  BY <1>2, <1>3
<1>8. /\ fr.kind = kind /\ fr.id = 0 /\ fr.decs = [i \in 1..k |-> q + i]
      /\ fr.todo = [i \in 1..k |-> q + i]
  BY <1>0, <1>1 DEF ChunkFrame
<1>9. fr \in Frames
  <2>1. [i \in 1..k |-> q + i] \in Seq(Nat)
    BY <1>2
  <2> QED BY <1>0, <1>1, <2>1 DEF ChunkFrame, Frames
<1>10. ASSUME NEW i \in 1..k
       PROVE  q + i \in DOMAIN ds2 /\ q + i \notin DOMAIN ds
  BY <1>2, <1>4
<1>11. \A i, j \in 1..k : q + i = q + j => i = j
  BY <1>2
<1>12. \A c \in DOMAIN ds2 : c \in DOMAIN ds \/ \E j \in DOMAIN fr.todo : fr.todo[j] = c
  BY <1>5, <1>8
<1>13. IsChunk(fr, ds, ds2)
  BY <1>8, <1>9, <1>10, <1>11, <1>12 DEF IsChunk
<1>14. \A c \in DOMAIN ds2 : c \notin DOMAIN ds => home2[c] = h /\ \E i \in DOMAIN news : ds2[c] = news[i]
  <2>1. SUFFICES ASSUME NEW c \in DOMAIN ds2, c \notin DOMAIN ds
                 PROVE  home2[c] = h /\ \E i \in DOMAIN news : ds2[c] = news[i]
    OBVIOUS
  <2>2. c - q \in DOMAIN news /\ ds2[c] = news[c - q]
    BY <1>2, <1>5, <2>1
  <2> QED BY <1>0, <2>1, <2>2 DEF Homes
<1>15. \A c \in DOMAIN ds : home2[c] = home[c]
  BY <1>0, <1>6 DEF Homes
<1> QED BY <1>1, <1>3, <1>6, <1>7, <1>8, <1>13, <1>14, <1>15

\* A chunk is opened: it has everything still to declare.
Kept(ds, home, ds2, home2) ==
  \A c \in DOMAIN ds : c \in DOMAIN ds2 /\ ds2[c] = ds[c] /\ home2[c] = home[c]
SameStarts(wk, l, l2) ==
  \A i \in DOMAIN wk : \A c \in 1..Len(l2) : i = 2 * c - 1 => c \in 1..Len(l) /\ l2[c] = l[c]
Opened(prog2, ds, ds2, wk2, l2, home2, i) ==
  \A c \in DOMAIN ds2 : c \notin DOMAIN ds =>
    ToDeclare(prog2, ds2, wk2, l2, home2, i, c) /\ ds2[c].kind # "var"

\* The frames still fit with the frame of a new chunk on top.
LEMMA ChunkWalked ==
  ASSUME NEW prog, NEW ds, NEW wk, NEW L, NEW F, NEW home, Writing(prog, ds, wk, L, F, home),
         NEW prog2, NEW ds2, NEW home2, NEW l2, NEW fr, IsChunk(fr, ds, ds2),
         \A c : Begun(prog2, c) <=> Begun(prog, c),
         Kept(ds, home, ds2, home2), SameStarts(wk, L[End(prog)], l2),
         Opened(prog2, ds, ds2, Append(wk, fr), l2, home2, Len(wk) + 1)
  PROVE  /\ InFrames(prog2, ds2, Append(wk, fr), l2, home2)
         /\ OncePending(prog2, ds2, Append(wk, fr))
<1>1. PICK l, f, wk2, m, new :
        /\ l = L[End(prog)] /\ f = F[End(prog)] /\ wk2 = Append(wk, fr) /\ m = Len(wk)
        /\ new = Len(wk) + 1
  OBVIOUS
<1>2. /\ wk \in Seq(Frames) /\ DOMAIN wk = 1..m /\ m \in Nat /\ Walked(prog, ds, wk, l, f, home)
      /\ fr \in Frames
  BY <1>1, WrittenTypes DEF Writing, IsChunk
<1>3. wk2 \in Seq(Frames) /\ Len(wk2) = m + 1 /\ (\A i \in 1..m : wk2[i] = wk[i]) /\ wk2[m + 1] = fr
  BY <1>1, <1>2, Appends
<1>4. /\ \A i \in DOMAIN wk : i \in DOMAIN wk2 /\ wk2[i] = wk[i]
      /\ \A i \in DOMAIN wk2 : i \in DOMAIN wk \/ i = new
      /\ new \in DOMAIN wk2 /\ wk2[new] = fr
  BY <1>1, <1>2, <1>3
<1>5. \A c \in DOMAIN ds2 : c \notin DOMAIN ds =>
        ToDeclare(prog2, ds2, wk2, l2, home2, new, c) /\ ds2[c].kind # "var"
  BY <1>1 DEF Opened
<1>k. \A c \in DOMAIN ds : c \in DOMAIN ds2 /\ ds2[c] = ds[c] /\ home2[c] = home[c]
  BY DEF Kept
<1>6. ASSUME NEW i \in DOMAIN wk, NEW j \in DOMAIN wk[i].todo
      PROVE  /\ ToDeclare(prog, ds, wk, l, home, i, wk[i].todo[j]) /\ wk[i].todo[j] \in DOMAIN ds
             /\ ToDeclare(prog2, ds2, wk2, l2, home2, i, wk[i].todo[j])
  <2>1. ToDeclare(prog, ds, wk, l, home, i, wk[i].todo[j])
    BY <1>2 DEF Walked, InFrames
  <2>2. \A c \in 1..Len(l2) : i = 2 * c - 1 => c \in 1..Len(l) /\ l2[c] = l[c]
    BY <1>1 DEF SameStarts
  <2>3. wk2[i].kind = wk[i].kind
    BY <1>2, <1>3
  <2>4. wk[i].todo[j] \in DOMAIN ds
    BY <2>1 DEF ToDeclare
  <2>5. Begun(prog2, wk[i].todo[j]) => Begun(prog, wk[i].todo[j])
    OBVIOUS
  <2>6. \A c \in DOMAIN ds : c \in DOMAIN ds2 /\ ds2[c] = ds[c] /\ home2[c] = home[c]
    BY <1>k
  <2> QED BY <2>1, <2>2, <2>3, <2>4, <2>5, <2>6, ToDeclareStays
<1>7. ASSUME NEW i \in DOMAIN wk2
      PROVE  /\ \A j \in DOMAIN wk2[i].decs : Usable(prog2, ds2, wk2[i].decs[j])
             /\ \A j \in DOMAIN wk2[i].todo : ToDeclare(prog2, ds2, wk2, l2, home2, i, wk2[i].todo[j])
  <2>1. CASE i \in DOMAIN wk
    <3>1. \A j \in DOMAIN wk[i].decs : Usable(prog, ds, wk[i].decs[j])
      BY <1>2, <2>1 DEF Walked, InFrames
    <3>2. \A j \in DOMAIN wk[i].decs : Usable(prog2, ds2, wk[i].decs[j])
      BY <1>k, <3>1, UsableStays
    <3> QED BY <1>4, <1>6, <2>1, <3>2
  <2>2. CASE i = new
    <3>1. \A c \in DOMAIN ds2 : c \in DOMAIN ds \/ Usable(prog2, ds2, c)
      BY <1>5 DEF Usable
    <3> QED BY <1>4, <1>5, <2>2, <3>1 DEF IsChunk
  <2> QED BY <1>4, <2>1, <2>2
<1>8. ASSUME NEW i \in DOMAIN wk2, NEW i2 \in DOMAIN wk2,
             NEW j \in DOMAIN wk2[i].todo, NEW j2 \in DOMAIN wk2[i2].todo,
             wk2[i].todo[j] = wk2[i2].todo[j2]
      PROVE  i = i2 /\ j = j2
  <2>1. CASE i \in DOMAIN wk /\ i2 \in DOMAIN wk
    BY <1>2, <1>4, <1>8, <2>1 DEF Walked, OncePending
  <2>2. CASE i = new /\ i2 = new
    BY <1>4, <1>8, <2>2 DEF IsChunk
  <2>3. CASE i \in DOMAIN wk /\ i2 = new
    BY <1>4, <1>6, <1>8, <2>3 DEF IsChunk
  <2>4. CASE i = new /\ i2 \in DOMAIN wk
    BY <1>4, <1>6, <1>8, <2>4 DEF IsChunk
  <2> QED BY <1>4, <2>1, <2>2, <2>3, <2>4
<1>9. ASSUME NEW c \in DOMAIN ds2
      PROVE  Begun(prog2, c) \/ \E i \in DOMAIN wk2 : \E j \in DOMAIN wk2[i].todo : wk2[i].todo[j] = c
  <2>1. CASE c \in DOMAIN ds
    <3>1. Begun(prog, c) \/ \E i \in DOMAIN wk : \E j \in DOMAIN wk[i].todo : wk[i].todo[j] = c
      BY <1>2, <2>1 DEF Walked, OncePending
    <3> QED BY <1>4, <3>1
  <2>2. CASE c \notin DOMAIN ds
    BY <1>4, <2>2 DEF IsChunk
  <2> QED BY <2>1, <2>2
<1> QED BY <1>1, <1>7, <1>8, <1>9 DEF InFrames, OncePending

\* A chunk of types may be begun.
LEMMA TypeChunkWritten ==
  ASSUME NEW prog, NEW ds, NEW wk, NEW L, NEW F, NEW home, Writing(prog, ds, wk, L, F, home),
         wk[Len(wk)].kind = "fun", NEW news \in Seq(Decs), \A i \in DOMAIN news : news[i].kind = "typ"
  PROVE  \E L2, F2, home2 :
           Writing(prog, ds \o news, Append(wk, ChunkFrame("typchunk", Len(ds), Len(news))), L2, F2, home2)
<1>1. PICK l, f, m, ds2, fr :
        /\ l = L[End(prog)] /\ f = F[End(prog)] /\ m = Len(wk)
        /\ ds2 = ds \o news /\ fr = ChunkFrame("typchunk", Len(ds), Len(news))
  OBVIOUS
<1>2. PICK home2, wk2 : home2 = Homes(ds, ds2, home, 0) /\ wk2 = Append(wk, fr)
  OBVIOUS
<1>3. /\ ds \in Seq(Decs) /\ (\A d \in DOMAIN ds : home[d] \in Nat)
      /\ wk \in Seq(Frames) /\ DOMAIN wk = 1..m /\ m \in Nat
      /\ l \in Seq(Nat) /\ f \in Seq(DOMAIN ds) /\ Len(l) \in Nat /\ Len(f) \in Nat /\ Len(prog) \in Nat
  BY <1>1, WrittenTypes
<1>4. Len(l) = Len(f) /\ Len(f) > 0 /\ m = 2 * Len(f)
  BY <1>1, TopIsFun
<1>5. /\ ds2 \in Seq(Decs) /\ Len(ds) <= Len(ds2)
      /\ \A c \in DOMAIN ds : c \in DOMAIN ds2 /\ ds2[c] = ds[c] /\ home2[c] = home[c]
      /\ \A c \in DOMAIN ds2 : c \notin DOMAIN ds => home2[c] = 0 /\ \E i \in DOMAIN news : ds2[c] = news[i]
      /\ IsChunk(fr, ds, ds2) /\ fr.kind = "typchunk"
  <2>1. Adding(ds, news, "typchunk", home, 0, ds2, home2, fr)
    BY <1>1, <1>2 DEF Adding
  <2>2. ds \in Seq(Decs) /\ "typchunk" \in {"funchunk", "typchunk"}
    BY <1>3
  <2> QED BY <2>1, <2>2, Declared
<1>r. fr \in Frames
  BY <1>5 DEF IsChunk
<1>6. \A c \in DOMAIN ds2 : c \in DOMAIN ds \/ ds2[c].kind = "typ"
  BY <1>5
<1>7. \A d \in DOMAIN ds2 : home2[d] \in Nat /\ home2[d] <= Len(prog)
  <2>1. \A d \in DOMAIN ds : home[d] <= Len(prog)
    BY DEF Writing
  <2>2. ASSUME NEW d \in DOMAIN ds PROVE home2[d] \in Nat /\ home2[d] <= Len(prog)
    BY <1>3, <1>5, <2>1
  <2>3. \A d \in DOMAIN ds2 : d \notin DOMAIN ds => home2[d] = 0
    BY <1>5
  <2> QED BY <1>3, <2>2, <2>3
<1>8. Nested(prog, ds2, L, F, home2)
  <2>1. ds2 \in Seq(Decs) /\ Len(ds) <= Len(ds2)
    BY <1>5
  <2>2. \A d \in DOMAIN ds : ds2[d] = ds[d] /\ home2[d] = home[d]
    BY <1>5
  <2>3. \A d \in DOMAIN ds2 : home2[d] \in Nat
    BY <1>7
  <2>4. Nested(prog, ds, L, F, home)
    BY DEF Writing
  <2> QED BY <2>1, <2>2, <2>3, <2>4, MoreDeclared
<1>9. wk2 \in Seq(Frames) /\ Len(wk2) = m + 1 /\ (\A i \in 1..m : wk2[i] = wk[i]) /\ wk2[m + 1] = fr
  BY <1>1, <1>2, <1>3, <1>r, Appends
<1>10. \A c : Begun(prog, c) => c \in DOMAIN ds
  BY MetIsDeclared DEF Begun, Writing
<1>11. \A c \in DOMAIN ds2 : c \notin DOMAIN ds =>
         ToDeclare(prog, ds2, wk2, l, home2, m + 1, c) /\ ds2[c].kind # "var"
  BY <1>5, <1>6, <1>9, <1>10 DEF ToDeclare
<1>12. InFrames(prog, ds2, wk2, l, home2) /\ OncePending(prog, ds2, wk2)
  <2>1. SameStarts(wk, L[End(prog)], l)
    BY <1>1 DEF SameStarts
  <2>2. \A c : Begun(prog, c) <=> Begun(prog, c)
    OBVIOUS
  <2>3. Kept(ds, home, ds2, home2)
    BY <1>5 DEF Kept
  <2>4. IsChunk(fr, ds, ds2)
    BY <1>5
  <2>5. Opened(prog, ds, ds2, Append(wk, fr), l, home2, Len(wk) + 1)
    BY <1>1, <1>2, <1>11 DEF Opened
  <2>6. /\ InFrames(prog, ds2, Append(wk, fr), l, home2)
        /\ OncePending(prog, ds2, Append(wk, fr))
    BY <2>1, <2>2, <2>3, <2>4, <2>5, ChunkWalked
  <2> QED BY <1>2, <2>6
<1>13. FramesFit(wk2, ds2, l, f)
  <2>1. FramesFit(wk, ds, l, f)
    BY <1>1 DEF Writing, Walked
  <2>2. wk2[1] = wk[1] /\ wk[1].kind = "let"
    BY <1>3, <1>4, <1>9, <2>1 DEF FramesFit
  <2>3. ASSUME NEW c \in 1..Len(f)
        PROVE  wk2[2 * c].kind = "fun" /\ wk2[2 * c].id = f[c] /\ ds2[f[c]].kind = "fun"
    <3>1. wk[2 * c].kind = "fun" /\ wk[2 * c].id = f[c] /\ ds[f[c]].kind = "fun"
      BY <2>1 DEF FramesFit
    <3>2. 2 * c \in 1..m
      BY <1>3, <1>4
    <3>3. f[c] \in DOMAIN ds
      BY <1>3, ElementOfSeq
    <3> QED BY <1>5, <1>9, <3>1, <3>2, <3>3
  <2>4. ASSUME NEW c \in 1..Len(l), c > 1 PROVE wk2[2 * c - 1].kind = "funchunk"
    <3>1. wk[2 * c - 1].kind = "funchunk"
      BY <2>1, <2>4 DEF FramesFit
    <3>2. 2 * c - 1 \in 1..m
      BY <1>3, <1>4
    <3> QED BY <1>9, <3>1, <3>2
  <2>5. Len(wk2) > 0 /\ Len(wk2) = Len(l) + Len(f) + 1 /\ wk2[Len(wk2)].kind = "typchunk"
    BY <1>3, <1>4, <1>5, <1>9
  <2> QED BY <1>4, <1>9, <2>2, <2>3, <2>4, <2>5 DEF FramesFit
<1>14. Writing(prog, ds2, wk2, L, F, home2)
  BY <1>1, <1>7, <1>8, <1>12, <1>13 DEF Writing, Walked
<1> QED BY <1>1, <1>2, <1>14

\* A chunk of functions may be begun, and is an event.
LEMMA FunChunkWritten ==
  ASSUME NEW prog, NEW ds, NEW wk, NEW L, NEW F, NEW home, Writing(prog, ds, wk, L, F, home),
         wk[Len(wk)].kind = "fun", NEW news \in Seq(Decs), \A i \in DOMAIN news : news[i].kind = "fun",
         NEW e \in Events, e.op = "chunk"
  PROVE  \E L2, F2, home2 :
           Writing(Append(prog, e), ds \o news,
                   Append(wk, ChunkFrame("funchunk", Len(ds), Len(news))), L2, F2, home2)
<1>1. PICK l, f, n, m, ds2, fr :
        /\ l = L[End(prog)] /\ f = F[End(prog)] /\ m = Len(wk) /\ n = End(prog)
        /\ ds2 = ds \o news /\ fr = ChunkFrame("funchunk", Len(ds), Len(news))
  OBVIOUS
<1>2. PICK home2, wk2, l2, L2, F2, prog2 :
        /\ home2 = Homes(ds, ds2, home, n) /\ wk2 = Append(wk, fr) /\ l2 = Append(l, n)
        /\ prog2 = Append(prog, e) /\ L2 = Then(L, n, l2) /\ F2 = Then(F, n, f)
  OBVIOUS
<1>3. /\ ds \in Seq(Decs) /\ (\A d \in DOMAIN ds : home[d] \in Nat) /\ n = Len(prog) + 1
      /\ wk \in Seq(Frames) /\ DOMAIN wk = 1..m /\ m \in Nat /\ n \in Nat
      /\ l \in Seq(Nat) /\ f \in Seq(DOMAIN ds) /\ Len(l) \in Nat /\ Len(f) \in Nat /\ Len(prog) \in Nat
  BY <1>1, WrittenTypes
<1>4. /\ Len(l) = Len(f) /\ Len(f) > 0 /\ m = 2 * Len(f)
      /\ f[Len(f)] \in DOMAIN ds /\ ds[f[Len(f)]].kind = "fun"
  BY <1>1, TopIsFun
<1>l. l2 \in Seq(Nat) /\ Len(l2) = Len(l) + 1 /\ (\A j \in 1..Len(l) : l2[j] = l[j]) /\ l2[Len(l) + 1] = n
  BY <1>2, <1>3, Appends
<1>5. /\ ds2 \in Seq(Decs) /\ Len(ds) <= Len(ds2)
      /\ \A c \in DOMAIN ds : c \in DOMAIN ds2 /\ ds2[c] = ds[c] /\ home2[c] = home[c]
      /\ \A c \in DOMAIN ds2 : c \notin DOMAIN ds => home2[c] = n /\ \E i \in DOMAIN news : ds2[c] = news[i]
      /\ IsChunk(fr, ds, ds2) /\ fr.kind = "funchunk"
  <2>1. Adding(ds, news, "funchunk", home, n, ds2, home2, fr)
    BY <1>1, <1>2 DEF Adding
  <2>2. ds \in Seq(Decs) /\ "funchunk" \in {"funchunk", "typchunk"}
    BY <1>3
  <2> QED BY <2>1, <2>2, Declared
<1>r. fr \in Frames
  BY <1>5 DEF IsChunk
<1>6. \A c \in DOMAIN ds2 : c \notin DOMAIN ds => ds2[c].kind = "fun" /\ home2[c] = n
  BY <1>5
<1>7. \A d \in DOMAIN ds2 : home2[d] \in Nat /\ home2[d] <= n
  <2>1. \A d \in DOMAIN ds : home[d] <= Len(prog)
    BY DEF Writing
  <2>2. ASSUME NEW d \in DOMAIN ds PROVE home2[d] \in Nat /\ home2[d] <= n
    <3>1. home[d] \in Nat /\ home[d] <= Len(prog) /\ home2[d] = home[d]
      BY <1>3, <1>5, <2>1
    <3> QED BY <1>3, <3>1
  <2>3. \A d \in DOMAIN ds2 : d \notin DOMAIN ds => home2[d] = n
    BY <1>5
  <2> QED BY <1>3, <2>2, <2>3
<1>8. Nested(prog, ds2, L, F, home2)
  <2>1. ds2 \in Seq(Decs) /\ Len(ds) <= Len(ds2)
    BY <1>5
  <2>2. \A d \in DOMAIN ds : ds2[d] = ds[d] /\ home2[d] = home[d]
    BY <1>5
  <2>3. \A d \in DOMAIN ds2 : home2[d] \in Nat
    BY <1>7
  <2>4. Nested(prog, ds, L, F, home)
    BY DEF Writing
  <2> QED BY <2>1, <2>2, <2>3, <2>4, MoreDeclared
<1>n. /\ prog2[n] = e /\ L2[n] = L[n] /\ F2[n] = F[n] /\ L2[n + 1] = l2 /\ F2[n + 1] = f
      /\ Len(prog2) = n /\ End(prog2) = n + 1
      /\ \A c : Begun(prog2, c) <=> Begun(prog, c)
  <2>1. \A c : ~IsDec(e, c)
    BY DEF IsDec
  <2>2. /\ Append(prog, e)[End(prog)] = e
        /\ \A T, t : Then(T, End(prog), t)[End(prog)] = T[End(prog)]
                     /\ Then(T, End(prog), t)[End(prog) + 1] = t
        /\ Len(Append(prog, e)) = End(prog) /\ End(Append(prog, e)) = End(prog) + 1
        /\ \A c : Begun(Append(prog, e), c) <=> Begun(prog, c) \/ IsDec(e, c)
    BY NewEvent
  <2> QED BY <1>1, <1>2, <2>1, <2>2
<1>a. Leads(prog2, ds2, L2, F2, home2, n)
  <2>1. ds2[f[Len(f)]].kind = "fun"
    BY <1>4, <1>5
  <2> QED BY <1>1, <1>2, <1>4, <1>n, <2>1 DEF Leads
<1>b. Nested(prog2, ds2, L2, F2, home2) /\ \A c \in DOMAIN ds2 : home2[c] <= Len(prog2)
  <2>1. e.op # "dec"
    OBVIOUS
  <2>2. /\ \A d \in DOMAIN ds2 : home2[d] <= End(prog)
        /\ Leads(Append(prog, e), ds2, Then(L, End(prog), l2), Then(F, End(prog), f), home2, End(prog))
    BY <1>1, <1>2, <1>7, <1>a
  <2>3. /\ Nested(Append(prog, e), ds2, Then(L, End(prog), l2), Then(F, End(prog), f), home2)
        /\ \A d \in DOMAIN ds2 : home2[d] <= Len(Append(prog, e))
    BY <1>8, <2>1, <2>2, Added
  <2> QED BY <1>1, <1>2, <2>3
<1>9. wk2 \in Seq(Frames) /\ Len(wk2) = m + 1 /\ (\A i \in 1..m : wk2[i] = wk[i]) /\ wk2[m + 1] = fr
  BY <1>1, <1>2, <1>3, <1>r, Appends
<1>10. \A c : Begun(prog2, c) => c \in DOMAIN ds
  BY <1>n, MetIsDeclared DEF Begun, Writing
<1>11. \A c \in DOMAIN ds2 : c \notin DOMAIN ds =>
         ToDeclare(prog2, ds2, wk2, l2, home2, m + 1, c) /\ ds2[c].kind # "var"
  <2>1. ASSUME NEW c \in 1..Len(l2), m + 1 = 2 * c - 1 PROVE n = l2[c]
    <3>1. c = Len(l) + 1
      BY <1>3, <1>4, <1>l, <2>1
    <3> QED BY <1>l, <3>1
  <2> QED BY <1>5, <1>6, <1>9, <1>10, <2>1 DEF ToDeclare
<1>12. InFrames(prog2, ds2, wk2, l2, home2) /\ OncePending(prog2, ds2, wk2)
  <2>1. SameStarts(wk, L[End(prog)], l2)
    <3>1. ASSUME NEW i \in DOMAIN wk, NEW c \in 1..Len(l2), i = 2 * c - 1 PROVE c \in 1..Len(l)
      BY <1>3, <1>4, <1>l, <3>1
    <3> QED BY <1>1, <1>l, <3>1 DEF SameStarts
  <2>2. \A c : Begun(prog2, c) <=> Begun(prog, c)
    BY <1>n
  <2>3. Kept(ds, home, ds2, home2)
    BY <1>5 DEF Kept
  <2>4. IsChunk(fr, ds, ds2)
    BY <1>5
  <2>5. Opened(prog2, ds, ds2, Append(wk, fr), l2, home2, Len(wk) + 1)
    BY <1>1, <1>2, <1>11 DEF Opened
  <2>6. /\ InFrames(prog2, ds2, Append(wk, fr), l2, home2)
        /\ OncePending(prog2, ds2, Append(wk, fr))
    BY <2>1, <2>2, <2>3, <2>4, <2>5, ChunkWalked
  <2> QED BY <1>2, <2>6
<1>13. FramesFit(wk2, ds2, l2, f)
  <2>1. FramesFit(wk, ds, l, f)
    BY <1>1 DEF Writing, Walked
  <2>2. wk2[1] = wk[1] /\ wk[1].kind = "let"
    BY <1>3, <1>4, <1>9, <2>1 DEF FramesFit
  <2>3. ASSUME NEW c \in 1..Len(f)
        PROVE  wk2[2 * c].kind = "fun" /\ wk2[2 * c].id = f[c] /\ ds2[f[c]].kind = "fun"
    <3>1. wk[2 * c].kind = "fun" /\ wk[2 * c].id = f[c] /\ ds[f[c]].kind = "fun"
      BY <2>1 DEF FramesFit
    <3>2. 2 * c \in 1..m
      BY <1>3, <1>4
    <3>3. f[c] \in DOMAIN ds
      BY <1>3, ElementOfSeq
    <3> QED BY <1>5, <1>9, <3>1, <3>2, <3>3
  <2>4. ASSUME NEW c \in 1..Len(l2), c > 1 PROVE wk2[2 * c - 1].kind = "funchunk"
    <3>1. CASE c = Len(l) + 1
      <4>1. 2 * c - 1 = m + 1
        BY <1>3, <1>4, <3>1
      <4> QED BY <1>5, <1>9, <4>1
    <3>2. CASE c \in 1..Len(l)
      <4>1. wk[2 * c - 1].kind = "funchunk"
        BY <2>1, <2>4, <3>2 DEF FramesFit
      <4>2. 2 * c - 1 \in 1..m
        BY <1>3, <1>4, <3>2
      <4> QED BY <1>9, <4>1, <4>2
    <3> QED BY <1>3, <1>l, <3>1, <3>2
  <2>5. Len(wk2) > 0 /\ Len(wk2) = Len(l2) + Len(f) /\ wk2[Len(wk2)].kind # "typchunk"
    <3>1. wk2[m + 1].kind = "funchunk" /\ Len(wk2) = m + 1 /\ m \in Nat /\ Len(f) \in Nat
      BY <1>3, <1>5, <1>9
    <3>2. m + 1 = Len(l2) + Len(f)
      BY <1>3, <1>4, <1>l
    <3> QED BY <3>1, <3>2
  <2> QED BY <1>4, <1>9, <2>2, <2>3, <2>4, <2>5 DEF FramesFit
<1>14. Writing(prog2, ds2, wk2, L2, F2, home2)
  BY <1>1, <1>b, <1>n, <1>12, <1>13 DEF Writing, Walked
<1> QED BY <1>1, <1>2, <1>14


\* A sequence without its first element.
LEMMA TailIs ==
  ASSUME NEW s \in Seq(Nat), s # <<>>
  PROVE  /\ Tail(s) \in Seq(Nat) /\ Head(s) = s[1] /\ 1 \in DOMAIN s
         /\ \A j \in DOMAIN Tail(s) : j + 1 \in DOMAIN s /\ j + 1 # 1 /\ Tail(s)[j] = s[j + 1]
         /\ \A j, k \in DOMAIN Tail(s) : j + 1 = k + 1 => j = k
         /\ \A j \in DOMAIN s : j # 1 => \E k \in DOMAIN Tail(s) : Tail(s)[k] = s[j]
<1>1. Len(s) \in Nat /\ Len(s) > 0 /\ DOMAIN s = 1..Len(s)
  BY EmptySeq
<1>2. Tail(s) \in Seq(Nat) /\ Len(Tail(s)) = Len(s) - 1
      /\ \A i \in 1..Len(Tail(s)) : Tail(s)[i] = s[i + 1]
  BY HeadTailProperties
<1>3. DOMAIN Tail(s) = 1..(Len(s) - 1)
  BY <1>2
<1>4. \A j \in DOMAIN Tail(s) : j + 1 \in DOMAIN s /\ j + 1 # 1 /\ Tail(s)[j] = s[j + 1]
  BY <1>1, <1>2, <1>3
<1>5. \A j, k \in DOMAIN Tail(s) : j + 1 = k + 1 => j = k
  BY <1>1, <1>3
<1>6. ASSUME NEW j \in DOMAIN s, j # 1 PROVE \E k \in DOMAIN Tail(s) : Tail(s)[k] = s[j]
  <2>1. j - 1 \in DOMAIN Tail(s) /\ (j - 1) + 1 = j
    BY <1>1, <1>3, <1>6
  <2> QED BY <1>4, <2>1
<1>7. Head(s) = s[1] /\ 1 \in DOMAIN s
  BY <1>1
<1> QED BY <1>2, <1>4, <1>5, <1>6, <1>7

\* The first thing the last frame has to declare is declared.
Popped(wk, wk2) == wk2 = [wk EXCEPT ![Len(wk)].todo = Tail(@)]

\* Taking the next declaration of the innermost chunk changes no other frame.
LEMMA PoppedFrames ==
  ASSUME NEW wk \in Seq(Frames), Len(wk) \in DOMAIN wk, wk[Len(wk)].todo # <<>>,
         NEW wk2, Popped(wk, wk2)
  PROVE  /\ wk2 \in Seq(Frames) /\ Len(wk2) = Len(wk) /\ DOMAIN wk2 = DOMAIN wk
         /\ \A i \in DOMAIN wk : /\ wk2[i].kind = wk[i].kind /\ wk2[i].id = wk[i].id
                                 /\ wk2[i].decs = wk[i].decs
                                 /\ i # Len(wk) => wk2[i].todo = wk[i].todo
         /\ wk2[Len(wk)].todo = Tail(wk[Len(wk)].todo)
<1>1. PICK m : m = Len(wk)
  OBVIOUS
<1>2. DOMAIN wk = 1..m /\ m \in DOMAIN wk
  BY <1>1
<1>3. wk[m] \in Frames /\ wk[m].todo \in Seq(Nat)
  BY <1>2, FrameIs
<1>4. [wk[m] EXCEPT !.todo = Tail(@)] \in Frames
  BY <1>1, <1>3, TailIs DEF Frames
<1>5. wk2 = [wk EXCEPT ![m] = [wk[m] EXCEPT !.todo = Tail(@)]]
  BY <1>1 DEF Popped
<1>6. wk2 \in Seq(Frames) /\ Len(wk2) = m /\ DOMAIN wk2 = DOMAIN wk
  BY <1>1, <1>2, <1>4, <1>5, ExceptSeq
<1>7. /\ wk2[m].kind = wk[m].kind /\ wk2[m].id = wk[m].id /\ wk2[m].decs = wk[m].decs
      /\ wk2[m].todo = Tail(wk[m].todo)
  BY <1>2, <1>3, <1>5 DEF Frames
<1>8. \A i \in DOMAIN wk : i # m => wk2[i] = wk[i]
  BY <1>5
<1> QED BY <1>1, <1>6, <1>7, <1>8

\* The declaration taken is no longer one to write.
LEMMA PoppedWalk ==
  ASSUME NEW prog, NEW ds, NEW wk \in Seq(Frames), NEW l, NEW home, NEW prog2, NEW wk2, NEW d,
         Len(wk) \in DOMAIN wk, wk[Len(wk)].todo # <<>>, d = Head(wk[Len(wk)].todo),
         Popped(wk, wk2), InFrames(prog, ds, wk, l, home), OncePending(prog, ds, wk),
         \A c : Begun(prog2, c) <=> Begun(prog, c) \/ c = d
  PROVE  InFrames(prog2, ds, wk2, l, home) /\ OncePending(prog2, ds, wk2)
<1>1. PICK m, s : m = Len(wk) /\ s = wk[m].todo
  OBVIOUS
<1>2. /\ wk2 \in Seq(Frames) /\ Len(wk2) = m /\ DOMAIN wk2 = DOMAIN wk
      /\ \A i \in DOMAIN wk : /\ wk2[i].kind = wk[i].kind /\ wk2[i].id = wk[i].id
                              /\ wk2[i].decs = wk[i].decs
                              /\ i # m => wk2[i].todo = wk[i].todo
      /\ wk2[m].todo = Tail(s)
  BY <1>1, PoppedFrames
<1>3. s \in Seq(Nat) /\ s # <<>> /\ m \in DOMAIN wk /\ d = Head(s)
  BY <1>1, FrameIs
<1>4. /\ d = s[1] /\ 1 \in DOMAIN s
      /\ \A j \in DOMAIN Tail(s) : j + 1 \in DOMAIN s /\ j + 1 # 1 /\ Tail(s)[j] = s[j + 1]
      /\ \A j, k \in DOMAIN Tail(s) : j + 1 = k + 1 => j = k
      /\ \A j \in DOMAIN s : j # 1 => \E k \in DOMAIN Tail(s) : Tail(s)[k] = s[j]
  BY <1>3, TailIs
<1>5. \A i, i2 \in DOMAIN wk : \A j \in DOMAIN wk[i].todo, j2 \in DOMAIN wk[i2].todo :
        wk[i].todo[j] = wk[i2].todo[j2] => i = i2 /\ j = j2
  BY DEF OncePending
<1>6. ASSUME NEW i \in DOMAIN wk2, NEW j \in DOMAIN wk2[i].todo
      PROVE  \E k \in DOMAIN wk[i].todo : /\ wk2[i].todo[j] = wk[i].todo[k] /\ wk[i].todo[k] # d
                                          /\ k = IF i = m THEN j + 1 ELSE j
  <2>1. CASE i # m
    <3>1. wk[i].todo[j] # d /\ j \in DOMAIN wk[i].todo
      BY <1>1, <1>2, <1>3, <1>4, <1>5, <2>1
    <3> QED BY <1>2, <2>1, <3>1
  <2>2. CASE i = m
    <3>1. j \in DOMAIN Tail(s) /\ wk2[i].todo[j] = Tail(s)[j]
      BY <1>2, <2>2
    <3>2. j + 1 \in DOMAIN s /\ j + 1 # 1 /\ Tail(s)[j] = s[j + 1]
      BY <1>4, <3>1
    <3>3. s[j + 1] # d
      BY <1>1, <1>3, <1>4, <1>5, <3>2
    <3> QED BY <1>1, <2>2, <3>1, <3>2, <3>3
  <2> QED BY <2>1, <2>2
<1>7. InFrames(prog2, ds, wk2, l, home)
  <2>1. ASSUME NEW i \in DOMAIN wk2, NEW j \in DOMAIN wk2[i].decs
        PROVE  Usable(prog2, ds, wk2[i].decs[j])
    <3>1. Usable(prog, ds, wk2[i].decs[j])
      BY <1>2 DEF InFrames
    <3> QED BY <3>1 DEF Usable
  <2>2. ASSUME NEW i \in DOMAIN wk2, NEW j \in DOMAIN wk2[i].todo
        PROVE  ToDeclare(prog2, ds, wk2, l, home, i, wk2[i].todo[j])
    <3>1. PICK k \in DOMAIN wk[i].todo : wk2[i].todo[j] = wk[i].todo[k] /\ wk[i].todo[k] # d
      BY <1>6
    <3>2. ToDeclare(prog, ds, wk, l, home, i, wk[i].todo[k])
      BY <1>2 DEF InFrames
    <3>3. wk2[i].kind = wk[i].kind /\ (Begun(prog2, wk[i].todo[k]) <=> Begun(prog, wk[i].todo[k]))
      BY <1>2, <3>1
    <3> QED BY <3>1, <3>2, <3>3 DEF ToDeclare
  <2> QED BY <2>1, <2>2 DEF InFrames
<1>8. ASSUME NEW i \in DOMAIN wk2, NEW i2 \in DOMAIN wk2,
             NEW j \in DOMAIN wk2[i].todo, NEW j2 \in DOMAIN wk2[i2].todo,
             wk2[i].todo[j] = wk2[i2].todo[j2]
      PROVE  i = i2 /\ j = j2
  <2>1. PICK k \in DOMAIN wk[i].todo : /\ wk2[i].todo[j] = wk[i].todo[k]
                                       /\ k = IF i = m THEN j + 1 ELSE j
    BY <1>6
  <2>2. PICK k2 \in DOMAIN wk[i2].todo : /\ wk2[i2].todo[j2] = wk[i2].todo[k2]
                                         /\ k2 = IF i2 = m THEN j2 + 1 ELSE j2
    BY <1>6
  <2>3. i = i2 /\ k = k2
    <3>1. wk[i].todo[k] = wk[i2].todo[k2]
      BY <1>8, <2>1, <2>2
    <3>2. i \in DOMAIN wk /\ i2 \in DOMAIN wk
      BY <1>2
    <3> QED BY <1>5, <3>1, <3>2
  <2>4. CASE i = m
    <3>1. j \in DOMAIN Tail(s) /\ j2 \in DOMAIN Tail(s) /\ j + 1 = j2 + 1
      BY <1>2, <2>1, <2>2, <2>3, <2>4
    <3> QED BY <1>4, <2>3, <3>1
  <2> QED BY <2>1, <2>2, <2>3, <2>4
<1>9. ASSUME NEW c \in DOMAIN ds
      PROVE  Begun(prog2, c) \/ \E i \in DOMAIN wk2 : \E j \in DOMAIN wk2[i].todo : wk2[i].todo[j] = c
  <2>1. CASE Begun(prog, c) \/ c = d
    BY <2>1
  <2>2. CASE ~Begun(prog, c) /\ c # d
    <3>1. PICK i \in DOMAIN wk : \E j \in DOMAIN wk[i].todo : wk[i].todo[j] = c
      BY <2>2 DEF OncePending
    <3>2. PICK j \in DOMAIN wk[i].todo : wk[i].todo[j] = c
      BY <3>1
    <3>3. CASE i # m
      BY <1>2, <3>2, <3>3
    <3>4. CASE i = m
      <4>1. j \in DOMAIN s /\ j # 1 /\ s[j] = c
        BY <1>1, <1>4, <2>2, <3>2, <3>4
      <4>2. PICK k \in DOMAIN Tail(s) : Tail(s)[k] = c
        BY <1>4, <4>1
      <4> QED BY <1>2, <1>3, <4>2
    <3> QED BY <3>3, <3>4
  <2> QED BY <2>1, <2>2
<1> QED BY <1>7, <1>8, <1>9 DEF OncePending

\* Where the last frame is that has something to declare.
LEMMA NextToDeclare ==
  ASSUME NEW prog, NEW ds, NEW wk, NEW L, NEW F, NEW home, Writing(prog, ds, wk, L, F, home),
         NEW d, wk[Len(wk)].todo # <<>>, d = Head(wk[Len(wk)].todo)
  PROVE  /\ d \in DOMAIN ds /\ ~Begun(prog, d) /\ ds[d].kind \in {"typ", "fun"}
         /\ ds[d].kind = "typ" => wk[Len(wk)].kind = "typchunk"
         /\ ds[d].kind = "fun" => /\ wk[Len(wk)].kind = "funchunk"
                                  /\ home[d] = L[End(prog)][Len(L[End(prog)])]
<1>1. PICK m, l : m = Len(wk) /\ l = L[End(prog)]
  OBVIOUS
<1>2. /\ wk \in Seq(Frames) /\ m \in DOMAIN wk /\ Len(l) \in Nat
      /\ InFrames(prog, ds, wk, l, home) /\ (wk[m].kind = "funchunk" => m = 2 * Len(l) - 1 /\ Len(l) > 0)
  <2>1. wk \in Seq(Frames) /\ DOMAIN wk = 1..m /\ m \in Nat /\ m > 0 /\ Len(l) \in Nat
        /\ Len(F[End(prog)]) \in Nat
    BY <1>1, WrittenTypes
  <2>2. wk[m].kind = "funchunk" => Len(l) = Len(F[End(prog)]) + 1 /\ m = 2 * Len(l) - 1
    BY <1>1, WhereTheTopIs
  <2> QED BY <1>1, <2>1, <2>2 DEF Writing, Walked
<1>3. wk[m].todo \in Seq(Nat)
  BY <1>2, FrameIs
<1>4. 1 \in DOMAIN wk[m].todo /\ d = wk[m].todo[1]
  BY <1>1, <1>3, TailIs
<1>5. ToDeclare(prog, ds, wk, l, home, m, d)
  BY <1>2, <1>4 DEF InFrames
<1>6. CASE wk[m].kind = "typchunk" /\ ds[d].kind = "typ"
  BY <1>1, <1>5, <1>6 DEF ToDeclare
<1>7. CASE wk[m].kind = "funchunk" /\ ds[d].kind = "fun"
  <2>1. Len(l) \in 1..Len(l) /\ m = 2 * Len(l) - 1
    BY <1>2, <1>7
  <2>2. \A k \in 1..Len(l) : m = 2 * k - 1 => home[d] = l[k]
    BY <1>5, <1>7 DEF ToDeclare
  <2>3. home[d] = l[Len(l)]
    BY <2>1, <2>2
  <2> QED BY <1>1, <1>5, <1>7, <2>3 DEF ToDeclare
<1> QED BY <1>5, <1>6, <1>7 DEF ToDeclare

FunFrame(d) == [kind |-> "fun", id |-> d, decs |-> <<>>, todo |-> <<>>]

\* The function taken from its chunk becomes the innermost construct.
LEMMA FunPushed ==
  ASSUME NEW prog, NEW ds, NEW wk, NEW l \in Seq(Nat), NEW f \in Seq(DOMAIN ds), NEW home, NEW d,
         Walked(prog, ds, wk, l, f, home), wk[Len(wk)].kind = "funchunk", Len(l) = Len(f) + 1,
         d \in DOMAIN ds, d \in Nat, ds[d].kind = "fun"
  PROVE  Walked(prog, ds, Append(wk, FunFrame(d)), l, Append(f, d), home)
<1>1. PICK m, fr : m = Len(wk) /\ fr = FunFrame(d)
  OBVIOUS
<1>2. PICK wk2, f2 : wk2 = Append(wk, fr) /\ f2 = Append(f, d)
  OBVIOUS
<1>3. FramesFit(wk, ds, l, f) /\ InFrames(prog, ds, wk, l, home) /\ OncePending(prog, ds, wk)
  BY DEF Walked
<1>4. /\ wk \in Seq(Frames) /\ m \in Nat /\ DOMAIN wk = 1..m /\ m = Len(l) + Len(f) /\ m > 0
      /\ wk[1].kind = "let" /\ Len(l) \in Nat /\ Len(f) \in Nat
  BY <1>1, <1>3 DEF FramesFit
<1>5. fr \in Frames /\ fr.kind = "fun" /\ fr.id = d /\ fr.decs = <<>> /\ fr.todo = <<>>
  BY <1>1 DEF FunFrame, Frames
<1>6. wk2 \in Seq(Frames) /\ Len(wk2) = m + 1 /\ (\A i \in 1..m : wk2[i] = wk[i]) /\ wk2[m + 1] = fr
  <2>1. wk \in Seq(Frames) /\ fr \in Frames
    BY <1>4, <1>5
  <2>2. /\ Append(wk, fr) \in Seq(Frames) /\ Len(Append(wk, fr)) = Len(wk) + 1
        /\ \A j \in 1..Len(wk) : Append(wk, fr)[j] = wk[j]
        /\ Append(wk, fr)[Len(wk) + 1] = fr
    BY <2>1, Appends
  <2> QED BY <1>1, <1>2, <2>2
<1>7. f2 \in Seq(DOMAIN ds) /\ Len(f2) = Len(f) + 1 /\ (\A k \in 1..Len(f) : f2[k] = f[k])
      /\ f2[Len(f) + 1] = d
  BY <1>2, Appends
<1>8. FramesFit(wk2, ds, l, f2)
  <2>1. wk2[1].kind = "let" /\ Len(wk2) > 0
    BY <1>4, <1>6
  <2>2. wk2[Len(wk2)].kind # "typchunk" /\ Len(wk2) = Len(l) + Len(f2)
    <3>1. wk2[m + 1].kind = "fun" /\ m + 1 = Len(l) + (Len(f) + 1)
      BY <1>4, <1>5, <1>6
    <3> QED BY <1>6, <1>7, <3>1
  <2>3. ASSUME NEW k \in 1..Len(f2)
        PROVE  wk2[2 * k].kind = "fun" /\ wk2[2 * k].id = f2[k] /\ ds[f2[k]].kind = "fun"
    <3>1. CASE k \in 1..Len(f)
      <4>1. wk[2 * k].kind = "fun" /\ wk[2 * k].id = f[k] /\ ds[f[k]].kind = "fun"
        BY <1>3, <3>1 DEF FramesFit
      <4>2. 2 * k \in 1..m
        BY <1>4, <3>1
      <4> QED BY <1>6, <1>7, <3>1, <4>1, <4>2
    <3>2. CASE k = Len(f) + 1
      <4>1. 2 * k = m + 1
        BY <1>4, <3>2
      <4> QED BY <1>5, <1>6, <1>7, <3>2, <4>1
    <3> QED BY <1>4, <1>7, <3>1, <3>2
  <2>4. ASSUME NEW k \in 1..Len(l), k > 1 PROVE wk2[2 * k - 1].kind = "funchunk"
    <3>1. wk[2 * k - 1].kind = "funchunk"
      BY <1>3, <2>4 DEF FramesFit
    <3>2. 2 * k - 1 \in 1..m
      BY <1>4
    <3> QED BY <1>6, <3>1, <3>2
  <2> QED BY <1>6, <2>1, <2>2, <2>3, <2>4 DEF FramesFit
<1>9. /\ \A i \in DOMAIN wk2 : \/ i \in DOMAIN wk /\ wk2[i] = wk[i]
                               \/ wk2[i].decs = <<>> /\ wk2[i].todo = <<>>
      /\ \A i \in DOMAIN wk : i \in DOMAIN wk2 /\ wk2[i] = wk[i]
  <2>1. DOMAIN wk2 = 1..(m + 1)
    BY <1>6
  <2>2. \A i \in DOMAIN wk2 : i \in 1..m \/ i = m + 1
    <3>1. m \in Nat
      BY <1>4
    <3>2. \A i \in 1..(m + 1) : i \in 1..m \/ i = m + 1
      BY <3>1
    <3> QED BY <2>1, <3>2
  <2>3. \A i \in 1..m : i \in DOMAIN wk2
    BY <1>4, <2>1
  <2> QED BY <1>4, <1>5, <1>6, <2>2, <2>3
<1>10. DOMAIN <<>> = {}
  OBVIOUS
<1>11. InFrames(prog, ds, wk2, l, home)
  BY <1>3, <1>9, <1>10 DEF InFrames, ToDeclare
<1>12. OncePending(prog, ds, wk2)
  BY <1>3, <1>9, <1>10 DEF OncePending
<1> QED BY <1>1, <1>2, <1>8, <1>11, <1>12 DEF Walked

\* A function is met, and entered.
LEMMA FunDecWritten ==
  ASSUME NEW prog, NEW ds, NEW wk, NEW L, NEW F, NEW home, Writing(prog, ds, wk, L, F, home),
         NEW d, wk[Len(wk)].todo # <<>>, d = Head(wk[Len(wk)].todo), ds[d].kind = "fun",
         NEW e \in Events, IsDec(e, d), NEW wk2, Popped(wk, wk2)
  PROVE  \E L2, F2, home2 :
           Writing(Append(prog, e), ds, Append(wk2, FunFrame(d)), L2, F2, home2)
<1>1. PICK l, f, n, m : l = L[End(prog)] /\ f = F[End(prog)] /\ n = End(prog) /\ m = Len(wk)
  OBVIOUS
<1>2. PICK f2, L2, F2, prog2 :
        f2 = Append(f, d) /\ L2 = Then(L, n, l) /\ F2 = Then(F, n, f2) /\ prog2 = Append(prog, e)
  OBVIOUS
<1>3. /\ ds \in Seq(Decs) /\ n = Len(prog) + 1 /\ n \in Nat /\ Len(prog) \in Nat
      /\ wk \in Seq(Frames) /\ m \in DOMAIN wk
      /\ l \in Seq(Nat) /\ f \in Seq(DOMAIN ds) /\ DOMAIN ds = 1..Len(ds) /\ Len(ds) \in Nat
  BY <1>1, WrittenTypes, TopIs
<1>4. /\ d \in DOMAIN ds /\ ~Begun(prog, d) /\ wk[m].kind = "funchunk" /\ home[d] = l[Len(l)]
      /\ Len(l) = Len(f) + 1
  BY <1>1, NextToDeclare, WhereTheTopIs
<1>n. /\ prog2[n] = e /\ L2[n] = L[n] /\ F2[n] = F[n] /\ L2[n + 1] = l /\ F2[n + 1] = f2
      /\ Len(prog2) = n /\ End(prog2) = n + 1
      /\ \A c : Begun(prog2, c) <=> Begun(prog, c) \/ c = d
  <2>1. \A c : IsDec(e, c) <=> c = d
    BY DEF IsDec
  <2>2. /\ Append(prog, e)[End(prog)] = e
        /\ \A T, t : Then(T, End(prog), t)[End(prog)] = T[End(prog)]
                     /\ Then(T, End(prog), t)[End(prog) + 1] = t
        /\ Len(Append(prog, e)) = End(prog) /\ End(Append(prog, e)) = End(prog) + 1
        /\ \A c : Begun(Append(prog, e), c) <=> Begun(prog, c) \/ IsDec(e, c)
    BY NewEvent
  <2> QED BY <1>1, <1>2, <2>1, <2>2
<1>5. Leads(prog2, ds, L2, F2, home, n)
  <2>1. e.op = "dec" /\ e.id = d
    BY DEF IsDec
  <2> QED BY <1>1, <1>2, <1>4, <1>n, <2>1 DEF Leads, Fun
<1>6. Nested(prog2, ds, L2, F2, home) /\ \A c \in DOMAIN ds : home[c] <= Len(prog2)
  <2>1. e.op = "dec" => ~Begun(prog, e.id)
    BY <1>4 DEF IsDec
  <2>2. \A c \in DOMAIN ds : home[c] <= End(prog)
    <3>1. \A c \in DOMAIN ds : home[c] <= Len(prog) /\ home[c] \in Nat
      BY WrittenTypes DEF Writing
    <3> QED BY <1>1, <1>3, <3>1
  <2>3. Leads(Append(prog, e), ds, Then(L, End(prog), l), Then(F, End(prog), f2), home, End(prog))
    BY <1>1, <1>2, <1>5
  <2>4. Nested(prog, ds, L, F, home)
    BY DEF Writing
  <2>5. /\ Nested(Append(prog, e), ds, Then(L, End(prog), l), Then(F, End(prog), f2), home)
        /\ \A c \in DOMAIN ds : home[c] <= Len(Append(prog, e))
    BY <2>1, <2>2, <2>3, <2>4, Added
  <2> QED BY <1>1, <1>2, <2>5
<1>7. /\ wk2 \in Seq(Frames) /\ Len(wk2) = m /\ DOMAIN wk2 = DOMAIN wk
      /\ \A i \in DOMAIN wk : wk2[i].kind = wk[i].kind /\ wk2[i].id = wk[i].id
  BY <1>1, <1>3, PoppedFrames
<1>w. FramesFit(wk, ds, l, f) /\ InFrames(prog, ds, wk, l, home) /\ OncePending(prog, ds, wk)
  BY <1>1 DEF Writing, Walked
<1>8. FramesFit(wk2, ds, l, f)
  <2>1. Len(l) = Len(f) \/ Len(l) = Len(f) + 1
    BY <1>4
  <2>2. \A c \in DOMAIN ds : c \in DOMAIN ds /\ ds[c] = ds[c]
    OBVIOUS
  <2> QED BY <1>1, <1>3, <1>7, <1>w, <2>1, <2>2, FramesStay
<1>9. InFrames(prog2, ds, wk2, l, home) /\ OncePending(prog2, ds, wk2)
  <2>1. Len(wk) \in DOMAIN wk /\ wk \in Seq(Frames)
    BY <1>1, <1>3
  <2>2. \A c : Begun(prog2, c) <=> Begun(prog, c) \/ c = d
    BY <1>n
  <2>3. InFrames(prog, ds, wk, l, home) /\ OncePending(prog, ds, wk)
    BY <1>w
  <2> QED BY <2>1, <2>2, <2>3, PoppedWalk
<1>10. Walked(prog2, ds, Append(wk2, FunFrame(d)), l, f2, home)
  <2>1. Walked(prog2, ds, wk2, l, f, home)
    BY <1>8, <1>9 DEF Walked
  <2>2. wk2[Len(wk2)].kind = "funchunk" /\ d \in Nat
    BY <1>3, <1>4, <1>7
  <2> QED BY <1>2, <1>3, <1>4, <2>1, <2>2, FunPushed
<1>11. Writing(prog2, ds, Append(wk2, FunFrame(d)), L2, F2, home)
  BY <1>6, <1>10, <1>n DEF Writing
<1> QED BY <1>2, <1>11

\* A type is met; what it is of is then a use like another.
LEMMA TypeDecWritten ==
  ASSUME NEW prog, NEW ds, NEW wk, NEW L, NEW F, NEW home, Writing(prog, ds, wk, L, F, home),
         NEW d, wk[Len(wk)].todo # <<>>, d = Head(wk[Len(wk)].todo), ds[d].kind = "typ",
         NEW e \in Events, IsDec(e, d), NEW wk2, Popped(wk, wk2)
  PROVE  \E L2, F2, home2 : /\ Writing(Append(prog, e), ds, wk2, L2, F2, home2)
                            /\ F2[End(Append(prog, e))] = F[End(prog)]
<1>1. PICK l, f, n, m : l = L[End(prog)] /\ f = F[End(prog)] /\ n = End(prog) /\ m = Len(wk)
  OBVIOUS
<1>2. PICK L2, F2, prog2 : L2 = Then(L, n, l) /\ F2 = Then(F, n, f) /\ prog2 = Append(prog, e)
  OBVIOUS
<1>3. /\ ds \in Seq(Decs) /\ n = Len(prog) + 1 /\ n \in Nat /\ Len(prog) \in Nat
      /\ wk \in Seq(Frames) /\ m \in DOMAIN wk
      /\ l \in Seq(Nat) /\ f \in Seq(DOMAIN ds) /\ DOMAIN ds = 1..Len(ds) /\ Len(ds) \in Nat
  BY <1>1, WrittenTypes, TopIs
<1>4. /\ d \in DOMAIN ds /\ ~Begun(prog, d) /\ wk[m].kind = "typchunk"
      /\ Len(l) = Len(f) /\ Len(f) > 0
  BY <1>1, NextToDeclare, WhereTheTopIs
<1>n. /\ prog2[n] = e /\ L2[n] = L[n] /\ F2[n] = F[n] /\ L2[n + 1] = l /\ F2[n + 1] = f
      /\ Len(prog2) = n /\ End(prog2) = n + 1
      /\ \A c : Begun(prog2, c) <=> Begun(prog, c) \/ c = d
  <2>1. \A c : IsDec(e, c) <=> c = d
    BY DEF IsDec
  <2>2. /\ Append(prog, e)[End(prog)] = e
        /\ \A T, t : Then(T, End(prog), t)[End(prog)] = T[End(prog)]
                     /\ Then(T, End(prog), t)[End(prog) + 1] = t
        /\ Len(Append(prog, e)) = End(prog) /\ End(Append(prog, e)) = End(prog) + 1
        /\ \A c : Begun(Append(prog, e), c) <=> Begun(prog, c) \/ IsDec(e, c)
    BY NewEvent
  <2> QED BY <1>1, <1>2, <2>1, <2>2
<1>5. Leads(prog2, ds, L2, F2, home, n)
  <2>1. e.op = "dec" /\ e.id = d
    BY DEF IsDec
  <2> QED BY <1>1, <1>2, <1>4, <1>n, <2>1 DEF Leads
<1>6. Nested(prog2, ds, L2, F2, home) /\ \A c \in DOMAIN ds : home[c] <= Len(prog2)
  <2>1. e.op = "dec" => ~Begun(prog, e.id)
    BY <1>4 DEF IsDec
  <2>2. \A c \in DOMAIN ds : home[c] <= End(prog)
    <3>1. \A c \in DOMAIN ds : home[c] <= Len(prog) /\ home[c] \in Nat
      BY WrittenTypes DEF Writing
    <3> QED BY <1>1, <1>3, <3>1
  <2>3. Leads(Append(prog, e), ds, Then(L, End(prog), l), Then(F, End(prog), f), home, End(prog))
    BY <1>1, <1>2, <1>5
  <2>4. Nested(prog, ds, L, F, home)
    BY DEF Writing
  <2>5. /\ Nested(Append(prog, e), ds, Then(L, End(prog), l), Then(F, End(prog), f), home)
        /\ \A c \in DOMAIN ds : home[c] <= Len(Append(prog, e))
    BY <2>1, <2>2, <2>3, <2>4, Added
  <2> QED BY <1>1, <1>2, <2>5
<1>7. /\ wk2 \in Seq(Frames) /\ Len(wk2) = m /\ DOMAIN wk2 = DOMAIN wk
      /\ \A i \in DOMAIN wk : wk2[i].kind = wk[i].kind /\ wk2[i].id = wk[i].id
  BY <1>1, <1>3, PoppedFrames
<1>w. FramesFit(wk, ds, l, f) /\ InFrames(prog, ds, wk, l, home) /\ OncePending(prog, ds, wk)
  BY <1>1 DEF Writing, Walked
<1>8. FramesFit(wk2, ds, l, f)
  <2>1. Len(l) = Len(f) \/ Len(l) = Len(f) + 1
    BY <1>4
  <2>2. \A c \in DOMAIN ds : c \in DOMAIN ds /\ ds[c] = ds[c]
    OBVIOUS
  <2> QED BY <1>1, <1>3, <1>7, <1>w, <2>1, <2>2, FramesStay
<1>9. InFrames(prog2, ds, wk2, l, home) /\ OncePending(prog2, ds, wk2)
  <2>1. Len(wk) \in DOMAIN wk /\ wk \in Seq(Frames)
    BY <1>1, <1>3
  <2>2. \A c : Begun(prog2, c) <=> Begun(prog, c) \/ c = d
    BY <1>n
  <2>3. InFrames(prog, ds, wk, l, home) /\ OncePending(prog, ds, wk)
    BY <1>w
  <2> QED BY <2>1, <2>2, <2>3, PoppedWalk
<1>11. Writing(prog2, ds, wk2, L2, F2, home)
  BY <1>6, <1>8, <1>9, <1>n DEF Writing, Walked
<1> QED BY <1>1, <1>2, <1>11, <1>n

\* The first elements of a sequence.
LEMMA Shortens ==
  ASSUME NEW S, NEW s \in Seq(S), NEW k \in Nat, k <= Len(s)
  PROVE  /\ SubSeq(s, 1, k) \in Seq(S) /\ Len(SubSeq(s, 1, k)) = k
         /\ \A j \in 1..k : SubSeq(s, 1, k)[j] = s[j]
<1>1. 1 \in 1..(Len(s) + 1) /\ k \in (1 - 1)..Len(s) /\ Len(s) \in Nat
  OBVIOUS
<1>2. /\ SubSeq(s, 1, k) \in Seq(S)
      /\ Len(SubSeq(s, 1, k)) = IF 1 <= k THEN k - 1 + 1 ELSE 0
      /\ \A i \in 1..(k - 1 + 1) : SubSeq(s, 1, k)[i] = s[1 + i - 1]
  BY <1>1, SubSeqProperties
<1>3. (IF 1 <= k THEN k - 1 + 1 ELSE 0) = k
  OBVIOUS
<1>4. \A j \in 1..k : 1 + j - 1 = j /\ j \in 1..(k - 1 + 1)
  OBVIOUS
<1> QED BY <1>2, <1>3, <1>4

\* The last frame is over: what it declared is in the frame below, or out of scope.
Dropped(wk, wk2) ==
  /\ wk2 \in Seq(Frames)
  /\ \A i \in DOMAIN wk2 :
       /\ i \in DOMAIN wk /\ wk2[i].kind = wk[i].kind /\ wk2[i].id = wk[i].id
       /\ wk2[i].todo = wk[i].todo
       /\ \A j \in DOMAIN wk2[i].decs : \E i2 \in DOMAIN wk : \E j2 \in DOMAIN wk[i2].decs :
            wk2[i].decs[j] = wk[i2].decs[j2]
  /\ \A i \in DOMAIN wk : i \in DOMAIN wk2 \/ wk[i].todo = <<>>

Shorter(s, s2) == Len(s2) <= Len(s) /\ \A k \in 1..Len(s2) : s2[k] = s[k]

\* The frames still fit when the innermost construct has ended.
LEMMA DroppedWalk ==
  ASSUME NEW prog, NEW ds, NEW wk, NEW l \in Seq(Nat), NEW f \in Seq(DOMAIN ds), NEW home,
         Walked(prog, ds, wk, l, f, home), NEW prog2, \A c : Begun(prog2, c) <=> Begun(prog, c),
         NEW wk2, NEW l2 \in Seq(Nat), NEW f2 \in Seq(DOMAIN ds),
         Dropped(wk, wk2), Shorter(l, l2), Shorter(f, f2),
         Len(l2) = Len(f2) \/ Len(l2) = Len(f2) + 1, Len(wk2) = Len(l2) + Len(f2), Len(wk2) > 0,
         wk2[Len(wk2)].kind # "typchunk"
  PROVE  Walked(prog2, ds, wk2, l2, f2, home)
<1>1. FramesFit(wk, ds, l, f) /\ InFrames(prog, ds, wk, l, home) /\ OncePending(prog, ds, wk)
  BY DEF Walked
<1>2. PICK m, a, b : m = Len(wk2) /\ a = Len(l2) /\ b = Len(f2)
  OBVIOUS
<1>3. /\ m \in Nat /\ a \in Nat /\ b \in Nat /\ (a = b \/ a = b + 1) /\ m = a + b /\ m > 0
      /\ wk2 \in Seq(Frames) /\ DOMAIN wk2 = 1..m
  BY <1>2 DEF Dropped
<1>4. \A k \in 1..a : k \in 1..Len(l) /\ l2[k] = l[k]
  BY <1>2, <1>3 DEF Shorter
<1>5. \A k \in 1..b : k \in 1..Len(f) /\ f2[k] = f[k]
  BY <1>2, <1>3 DEF Shorter
<1>6. /\ \A k \in 1..b : 2 * k \in DOMAIN wk2
      /\ \A k \in 1..a : 2 * k - 1 \in DOMAIN wk2
      /\ 1 \in DOMAIN wk2
  BY <1>3
<1>7. FramesFit(wk2, ds, l2, f2)
  <2>1. wk2[1].kind = "let"
    BY <1>1, <1>6 DEF FramesFit, Dropped
  <2>2. ASSUME NEW k \in 1..b
        PROVE  wk2[2 * k].kind = "fun" /\ wk2[2 * k].id = f2[k] /\ ds[f2[k]].kind = "fun"
    <3>1. wk[2 * k].kind = "fun" /\ wk[2 * k].id = f[k] /\ ds[f[k]].kind = "fun"
      BY <1>1, <1>5 DEF FramesFit
    <3> QED BY <1>5, <1>6, <3>1 DEF Dropped
  <2>3. ASSUME NEW k \in 1..a, k > 1 PROVE wk2[2 * k - 1].kind = "funchunk"
    <3>1. wk[2 * k - 1].kind = "funchunk"
      BY <1>1, <1>4, <2>3 DEF FramesFit
    <3> QED BY <1>6, <3>1 DEF Dropped
  <2> QED BY <1>2, <1>3, <2>1, <2>2, <2>3 DEF FramesFit
<1>8. InFrames(prog2, ds, wk2, l2, home)
  <2>1. ASSUME NEW i \in DOMAIN wk2, NEW j \in DOMAIN wk2[i].decs
        PROVE  Usable(prog2, ds, wk2[i].decs[j])
    <3>1. PICK i2 \in DOMAIN wk : \E j2 \in DOMAIN wk[i2].decs : wk2[i].decs[j] = wk[i2].decs[j2]
      BY DEF Dropped
    <3>2. Usable(prog, ds, wk2[i].decs[j])
      BY <1>1, <3>1 DEF InFrames
    <3> QED BY <3>2 DEF Usable
  <2>2. ASSUME NEW i \in DOMAIN wk2, NEW j \in DOMAIN wk2[i].todo
        PROVE  ToDeclare(prog2, ds, wk2, l2, home, i, wk2[i].todo[j])
    <3>1. i \in DOMAIN wk /\ wk2[i].kind = wk[i].kind /\ wk2[i].todo = wk[i].todo
      BY DEF Dropped
    <3>2. ToDeclare(prog, ds, wk, l, home, i, wk2[i].todo[j])
      BY <1>1, <3>1 DEF InFrames
    <3> QED BY <1>2, <1>4, <3>1, <3>2 DEF ToDeclare
  <2> QED BY <2>1, <2>2 DEF InFrames
<1>9. OncePending(prog2, ds, wk2)
  <2>1. ASSUME NEW i \in DOMAIN wk2, NEW i2 \in DOMAIN wk2,
               NEW j \in DOMAIN wk2[i].todo, NEW j2 \in DOMAIN wk2[i2].todo,
               wk2[i].todo[j] = wk2[i2].todo[j2]
        PROVE  i = i2 /\ j = j2
    <3>1. /\ i \in DOMAIN wk /\ wk2[i].todo = wk[i].todo
          /\ i2 \in DOMAIN wk /\ wk2[i2].todo = wk[i2].todo
      BY DEF Dropped
    <3> QED BY <1>1, <2>1, <3>1 DEF OncePending
  <2>2. ASSUME NEW c \in DOMAIN ds, ~Begun(prog2, c)
        PROVE  \E i \in DOMAIN wk2 : \E j \in DOMAIN wk2[i].todo : wk2[i].todo[j] = c
    <3>1. PICK i \in DOMAIN wk : \E j \in DOMAIN wk[i].todo : wk[i].todo[j] = c
      BY <1>1, <2>2 DEF OncePending
    <3>2. i \in DOMAIN wk2
      <4>1. DOMAIN <<>> = {}
        OBVIOUS
      <4> QED BY <3>1, <4>1 DEF Dropped
    <3>3. wk2[i].todo = wk[i].todo
      BY <3>2 DEF Dropped
    <3> QED BY <3>1, <3>2, <3>3
  <2> QED BY <2>1, <2>2 DEF OncePending
<1> QED BY <1>7, <1>8, <1>9 DEF Walked

\* The frame of a function is dropped.
LEMMA FrontDropped ==
  ASSUME NEW wk \in Seq(Frames), Len(wk) > 0, wk[Len(wk)].todo = <<>>
  PROVE  Dropped(wk, Front(wk)) /\ Len(Front(wk)) = Len(wk) - 1
         /\ \A i \in 1..(Len(wk) - 1) : Front(wk)[i] = wk[i]
<1>1. PICK m, wk2 : m = Len(wk) /\ wk2 = Front(wk)
  OBVIOUS
<1>2. wk2 \in Seq(Frames) /\ Len(wk2) = m - 1 /\ \A j \in 1..(m - 1) : wk2[j] = wk[j]
  BY <1>1, Fronts
<1>3. m \in Nat /\ m > 0 /\ DOMAIN wk = 1..m
  BY <1>1
<1>4. DOMAIN wk2 = 1..(m - 1)
  BY <1>2, <1>3
<1>5. \A i \in DOMAIN wk2 : i \in DOMAIN wk /\ wk2[i] = wk[i]
  BY <1>2, <1>3, <1>4
<1>6. \A i \in DOMAIN wk : i \in DOMAIN wk2 \/ i = m
  BY <1>3, <1>4
<1> QED BY <1>1, <1>2, <1>5, <1>6 DEF Dropped

\* The frame of a chunk is dropped, and what it declared kept.
Merged(wk) == Append(SubSeq(wk, 1, Len(wk) - 2),
                     [wk[Len(wk) - 1] EXCEPT !.decs = @ \o wk[Len(wk)].decs])

\* A chunk that ends hands what it declares to the function around it.
LEMMA MergedDropped ==
  ASSUME NEW wk \in Seq(Frames), Len(wk) > 1, wk[Len(wk)].todo = <<>>
  PROVE  /\ Dropped(wk, Merged(wk)) /\ Len(Merged(wk)) = Len(wk) - 1
         /\ Merged(wk)[Len(wk) - 1].kind = wk[Len(wk) - 1].kind
<1>1. PICK m, s, fr, wk2, n : /\ m = Len(wk) /\ s = SubSeq(wk, 1, m - 2) /\ n = m - 1
                           /\ fr = [wk[m - 1] EXCEPT !.decs = @ \o wk[m].decs] /\ wk2 = Append(s, fr)
  OBVIOUS
<1>2. m \in Nat /\ m > 1 /\ DOMAIN wk = 1..m /\ m - 2 \in Nat /\ m - 2 <= Len(wk)
  BY <1>1
<1>3. s \in Seq(Frames) /\ Len(s) = m - 2 /\ \A j \in 1..(m - 2) : s[j] = wk[j]
  BY <1>1, <1>2, Shortens
<1>4. m \in DOMAIN wk /\ n \in DOMAIN wk /\ n \in Nat /\ m - 2 = n - 1 /\ n > 0 /\ m - 1 = n
  BY <1>1, <1>2
<1>5. wk[m] \in Frames /\ wk[n] \in Frames
  BY <1>4, FrameIs
<1>d. wk[m].decs \in Seq(Nat) /\ wk[n].decs \in Seq(Nat)
  BY <1>4, FrameIs
<1>c. PICK c : c = wk[n].decs \o wk[m].decs
  OBVIOUS
<1>6. c \in Seq(Nat)
  BY <1>d, <1>c
<1>7. /\ fr.kind = wk[n].kind /\ fr.id = wk[n].id /\ fr.todo = wk[n].todo
      /\ fr.decs = c /\ fr \in Frames
  BY <1>1, <1>4, <1>5, <1>6, <1>c DEF Frames
<1>8. /\ wk2 \in Seq(Frames) /\ Len(wk2) = n /\ \A j \in 1..(n - 1) : wk2[j] = wk[j]
      /\ wk2[n] = fr
  <2>1. s \in Seq(Frames) /\ fr \in Frames
    BY <1>3, <1>7
  <2>2. /\ Append(s, fr) \in Seq(Frames) /\ Len(Append(s, fr)) = Len(s) + 1
        /\ \A j \in 1..Len(s) : Append(s, fr)[j] = s[j]
        /\ Append(s, fr)[Len(s) + 1] = fr
    BY <2>1, Appends
  <2>3. Len(s) = n - 1 /\ Len(s) + 1 = n
    BY <1>3, <1>4
  <2> QED BY <1>1, <1>3, <1>4, <2>2, <2>3
<1>9. DOMAIN wk2 = 1..n
  BY <1>8
<1>10. \A i \in DOMAIN wk2 : i \in DOMAIN wk /\ (i = n \/ wk2[i] = wk[i])
  BY <1>2, <1>4, <1>8, <1>9
<1>11. \A i \in DOMAIN wk : i \in DOMAIN wk2 \/ i = m
  BY <1>2, <1>4, <1>9
<1>12. \A j \in DOMAIN c : \/ \E j2 \in DOMAIN wk[n].decs : c[j] = wk[n].decs[j2]
                           \/ \E j2 \in DOMAIN wk[m].decs : c[j] = wk[m].decs[j2]
  <2>0. PICK s1, s2 : s1 = wk[n].decs /\ s2 = wk[m].decs
    OBVIOUS
  <2>1. s1 \in Seq(Nat) /\ s2 \in Seq(Nat)
    BY <1>d, <2>0
  <2>2. /\ Len(s1 \o s2) = Len(s1) + Len(s2) /\ s1 \o s2 \in Seq(Nat)
        /\ \A i \in 1..(Len(s1) + Len(s2)) :
             (s1 \o s2)[i] = IF i <= Len(s1) THEN s1[i] ELSE s2[i - Len(s1)]
    BY <2>1, ConcatProperties
  <2>3. PICK k1, k2 : k1 = Len(s1) /\ k2 = Len(s2)
    OBVIOUS
  <2>4. k1 \in Nat /\ k2 \in Nat /\ DOMAIN s1 = 1..k1 /\ DOMAIN s2 = 1..k2
    BY <2>1, <2>3
  <2>5. c = s1 \o s2
    BY <1>c, <2>0
  <2>6. DOMAIN c = 1..(k1 + k2) /\ \A i \in 1..(k1 + k2) : c[i] = IF i <= k1 THEN s1[i] ELSE s2[i - k1]
    BY <2>2, <2>3, <2>5
  <2>7. ASSUME NEW j \in DOMAIN c
        PROVE  (\E j2 \in DOMAIN s1 : c[j] = s1[j2]) \/ (\E j2 \in DOMAIN s2 : c[j] = s2[j2])
    <3>1. CASE j <= k1
      BY <2>4, <2>6, <3>1
    <3>2. CASE ~(j <= k1)
      <4>1. j - k1 \in 1..k2
        BY <2>4, <2>6, <3>2
      <4> QED BY <2>4, <2>6, <3>2, <4>1
    <3> QED BY <3>1, <3>2
  <2> QED BY <2>0, <2>7
<1>13. Dropped(wk, wk2)
  <2>1. ASSUME NEW i \in DOMAIN wk2
        PROVE  /\ i \in DOMAIN wk /\ wk2[i].kind = wk[i].kind /\ wk2[i].id = wk[i].id
               /\ wk2[i].todo = wk[i].todo
               /\ \A j \in DOMAIN wk2[i].decs : \E i2 \in DOMAIN wk : \E j2 \in DOMAIN wk[i2].decs :
                    wk2[i].decs[j] = wk[i2].decs[j2]
    <3>1. CASE i = n
      <4>1. wk2[i].decs = c
        BY <1>7, <1>8, <3>1
      <4> QED BY <1>4, <1>7, <1>8, <1>12, <3>1, <4>1
    <3>2. CASE i # n
      BY <1>10, <3>2
    <3> QED BY <3>1, <3>2
  <2>2. \A i \in DOMAIN wk : i \in DOMAIN wk2 \/ wk[i].todo = <<>>
    BY <1>1, <1>11
  <2> QED BY <1>8, <2>1, <2>2 DEF Dropped
<1>14. Merged(wk) = wk2
  BY <1>1 DEF Merged
<1> QED BY <1>1, <1>4, <1>7, <1>8, <1>13, <1>14

\* A function is over.
LEMMA EndWritten ==
  ASSUME NEW prog, NEW ds, NEW wk, NEW L, NEW F, NEW home, Writing(prog, ds, wk, L, F, home),
         wk[Len(wk)].kind = "fun", wk[Len(wk)].todo = <<>>,
         NEW e \in Events, e.op = "end", e.id = wk[Len(wk)].id
  PROVE  \E L2, F2, home2 : Writing(Append(prog, e), ds, Front(wk), L2, F2, home2)
<1>1. PICK l, f, n, m : l = L[End(prog)] /\ f = F[End(prog)] /\ n = End(prog) /\ m = Len(wk)
  OBVIOUS
<1>2. PICK f2, L2, F2, prog2, wk2 :
        /\ f2 = Front(f) /\ L2 = Then(L, n, l) /\ F2 = Then(F, n, f2) /\ prog2 = Append(prog, e)
        /\ wk2 = Front(wk)
  OBVIOUS
<1>3. /\ ds \in Seq(Decs) /\ n = Len(prog) + 1 /\ n \in Nat /\ Len(prog) \in Nat
      /\ wk \in Seq(Frames) /\ m \in Nat
      /\ l \in Seq(Nat) /\ f \in Seq(DOMAIN ds) /\ Len(f) \in Nat /\ Len(l) \in Nat
  BY <1>1, WrittenTypes
<1>4. Len(l) = Len(f) /\ Len(f) > 0 /\ m = 2 * Len(f) /\ wk[m].id = f[Len(f)]
  BY <1>1, TopIsFun
<1>5. f2 \in Seq(DOMAIN ds) /\ Len(f2) = Len(f) - 1 /\ \A j \in 1..(Len(f) - 1) : f2[j] = f[j]
  BY <1>2, <1>3, <1>4, Fronts
<1>n. /\ prog2[n] = e /\ L2[n] = L[n] /\ F2[n] = F[n] /\ L2[n + 1] = l /\ F2[n + 1] = f2
      /\ Len(prog2) = n /\ End(prog2) = n + 1
      /\ \A c : Begun(prog2, c) <=> Begun(prog, c)
  <2>1. \A c : ~IsDec(e, c)
    BY DEF IsDec
  <2>2. /\ Append(prog, e)[End(prog)] = e
        /\ \A T, t : Then(T, End(prog), t)[End(prog)] = T[End(prog)]
                     /\ Then(T, End(prog), t)[End(prog) + 1] = t
        /\ Len(Append(prog, e)) = End(prog) /\ End(Append(prog, e)) = End(prog) + 1
        /\ \A c : Begun(Append(prog, e), c) <=> Begun(prog, c) \/ IsDec(e, c)
    BY NewEvent
  <2> QED BY <1>1, <1>2, <2>1, <2>2
<1>6. Leads(prog2, ds, L2, F2, home, n)
  <2>1. e.id = f[Len(f)]
    BY <1>1, <1>4
  <2> QED BY <1>1, <1>2, <1>4, <1>n, <2>1 DEF Leads
<1>7. Nested(prog2, ds, L2, F2, home) /\ \A c \in DOMAIN ds : home[c] <= Len(prog2)
  <2>1. e.op # "dec"
    OBVIOUS
  <2>2. \A c \in DOMAIN ds : home[c] <= End(prog)
    <3>1. \A c \in DOMAIN ds : home[c] <= Len(prog) /\ home[c] \in Nat
      BY WrittenTypes DEF Writing
    <3> QED BY <1>1, <1>3, <3>1
  <2>3. Leads(Append(prog, e), ds, Then(L, End(prog), l), Then(F, End(prog), f2), home, End(prog))
    BY <1>1, <1>2, <1>6
  <2>4. Nested(prog, ds, L, F, home)
    BY DEF Writing
  <2>5. /\ Nested(Append(prog, e), ds, Then(L, End(prog), l), Then(F, End(prog), f2), home)
        /\ \A c \in DOMAIN ds : home[c] <= Len(Append(prog, e))
    BY <2>1, <2>2, <2>3, <2>4, Added
  <2> QED BY <1>1, <1>2, <2>5
<1>8. Dropped(wk, wk2) /\ Len(wk2) = m - 1 /\ \A i \in 1..(m - 1) : wk2[i] = wk[i]
  <2>1. Len(wk) > 0
    BY <1>1, <1>3, <1>4
  <2> QED BY <1>1, <1>2, <1>3, <2>1, FrontDropped
<1>w. Walked(prog, ds, wk, l, f, home)
  BY <1>1 DEF Writing
<1>9. wk2[Len(wk2)].kind # "typchunk"
  <2>1. FramesFit(wk, ds, l, f)
    BY <1>w DEF Walked
  <2>2. CASE Len(l) = 1
    <3>1. m - 1 = 1
      BY <1>4, <2>2
    <3>2. wk[1].kind = "let" /\ wk2[1] = wk[1] /\ Len(wk2) = 1
      BY <1>8, <2>1, <3>1 DEF FramesFit
    <3> QED BY <3>2
  <2>3. CASE Len(l) > 1
    <3>1. m - 1 \in 1..(m - 1) /\ m - 1 = 2 * Len(l) - 1 /\ Len(l) \in 1..Len(l)
      BY <1>3, <1>4, <2>3
    <3>2. wk[2 * Len(l) - 1].kind = "funchunk"
      BY <2>1, <2>3, <3>1 DEF FramesFit
    <3> QED BY <1>8, <3>1, <3>2
  <2> QED BY <1>3, <1>4, <2>2, <2>3
<1>10. Shorter(l, l) /\ Shorter(f, f2)
  BY <1>3, <1>5 DEF Shorter
<1>11. Walked(prog2, ds, wk2, l, f2, home)
  <2>1. Len(l) = Len(f2) + 1 /\ Len(wk2) = Len(l) + Len(f2) /\ Len(wk2) > 0
    BY <1>3, <1>4, <1>5, <1>8
  <2>2. \A c : Begun(prog2, c) <=> Begun(prog, c)
    BY <1>n
  <2> QED BY <1>3, <1>5, <1>8, <1>9, <1>10, <1>w, <2>1, <2>2, DroppedWalk
<1>12. Writing(prog2, ds, wk2, L2, F2, home)
  BY <1>7, <1>11, <1>n DEF Writing
<1> QED BY <1>2, <1>12

\* What is below a chunk is a function.
LEMMA BelowAChunk ==
  ASSUME NEW wk, NEW ds, NEW l, NEW f, FramesFit(wk, ds, l, f), Len(f) \in Nat, Len(f) > 0,
         Len(wk) = 2 * Len(f) + 1
  PROVE  wk[Len(wk) - 1].kind = "fun"
<1>1. Len(f) \in 1..Len(f) /\ Len(wk) - 1 = 2 * Len(f)
  OBVIOUS
<1> QED BY <1>1 DEF FramesFit

\* A chunk of types is over: no event says so.
LEMMA TypeEndWritten ==
  ASSUME NEW prog, NEW ds, NEW wk, NEW L, NEW F, NEW home, Writing(prog, ds, wk, L, F, home),
         wk[Len(wk)].kind = "typchunk", wk[Len(wk)].todo = <<>>
  PROVE  Writing(prog, ds, Merged(wk), L, F, home)
<1>1. PICK l, f, m, wk2 : l = L[End(prog)] /\ f = F[End(prog)] /\ m = Len(wk) /\ wk2 = Merged(wk)
  OBVIOUS
<1>3. /\ wk \in Seq(Frames) /\ m \in Nat
      /\ l \in Seq(Nat) /\ f \in Seq(DOMAIN ds) /\ Len(f) \in Nat /\ Len(l) \in Nat
  BY <1>1, WrittenTypes
<1>4. Len(l) = Len(f) /\ Len(f) > 0 /\ m = 2 * Len(f) + 1
  BY <1>1, WhereTheTopIs
<1>w. Walked(prog, ds, wk, l, f, home)
  BY <1>1 DEF Writing
<1>5. wk[m - 1].kind = "fun"
  BY <1>1, <1>3, <1>4, <1>w, BelowAChunk DEF Walked
<1>8. Dropped(wk, wk2) /\ Len(wk2) = m - 1 /\ wk2[m - 1].kind = wk[m - 1].kind
  <2>1. Len(wk) > 1
    BY <1>1, <1>3, <1>4
  <2> QED BY <1>1, <1>3, <2>1, MergedDropped
<1>9. wk2[Len(wk2)].kind # "typchunk"
  BY <1>5, <1>8
<1>10. Shorter(l, l) /\ Shorter(f, f)
  BY <1>3 DEF Shorter
<1>11. Walked(prog, ds, wk2, l, f, home)
  <2>1. Len(l) = Len(f) /\ Len(wk2) = Len(l) + Len(f) /\ Len(wk2) > 0
    BY <1>3, <1>4, <1>8
  <2>2. \A c : Begun(prog, c) <=> Begun(prog, c)
    OBVIOUS
  <2> QED BY <1>3, <1>8, <1>9, <1>10, <1>w, <2>1, <2>2, DroppedWalk
<1> QED BY <1>1, <1>11 DEF Writing

\* A chunk of functions is over.
LEMMA FunChunkEndWritten ==
  ASSUME NEW prog, NEW ds, NEW wk, NEW L, NEW F, NEW home, Writing(prog, ds, wk, L, F, home),
         wk[Len(wk)].kind = "funchunk", wk[Len(wk)].todo = <<>>,
         NEW e \in Events, e.op = "endchunk"
  PROVE  \E L2, F2, home2 : Writing(Append(prog, e), ds, Merged(wk), L2, F2, home2)
<1>1. PICK l, f, n, m : l = L[End(prog)] /\ f = F[End(prog)] /\ n = End(prog) /\ m = Len(wk)
  OBVIOUS
<1>2. PICK l2, L2, F2, prog2, wk2 :
        /\ l2 = Front(l) /\ L2 = Then(L, n, l2) /\ F2 = Then(F, n, f) /\ prog2 = Append(prog, e)
        /\ wk2 = Merged(wk)
  OBVIOUS
<1>3. /\ ds \in Seq(Decs) /\ n = Len(prog) + 1 /\ n \in Nat /\ Len(prog) \in Nat
      /\ wk \in Seq(Frames) /\ m \in Nat
      /\ l \in Seq(Nat) /\ f \in Seq(DOMAIN ds) /\ Len(f) \in Nat /\ Len(l) \in Nat
  BY <1>1, WrittenTypes
<1>4. Len(l) = Len(f) + 1 /\ Len(f) > 0 /\ m = 2 * Len(f) + 1
  <2>1. Len(l) = Len(f) + 1 /\ m = 2 * Len(l) - 1 /\ Len(f) > 0
    BY <1>1, WhereTheTopIs
  <2> QED BY <1>3, <2>1
<1>5. l2 \in Seq(Nat) /\ Len(l2) = Len(l) - 1 /\ \A j \in 1..(Len(l) - 1) : l2[j] = l[j]
  <2>1. Len(l) > 0
    BY <1>3, <1>4
  <2> QED BY <1>2, <1>3, <2>1, Fronts
<1>n. /\ prog2[n] = e /\ L2[n] = L[n] /\ F2[n] = F[n] /\ L2[n + 1] = l2 /\ F2[n + 1] = f
      /\ Len(prog2) = n /\ End(prog2) = n + 1
      /\ \A c : Begun(prog2, c) <=> Begun(prog, c)
  <2>1. \A c : ~IsDec(e, c)
    BY DEF IsDec
  <2>2. /\ Append(prog, e)[End(prog)] = e
        /\ \A T, t : Then(T, End(prog), t)[End(prog)] = T[End(prog)]
                     /\ Then(T, End(prog), t)[End(prog) + 1] = t
        /\ Len(Append(prog, e)) = End(prog) /\ End(Append(prog, e)) = End(prog) + 1
        /\ \A c : Begun(Append(prog, e), c) <=> Begun(prog, c) \/ IsDec(e, c)
    BY NewEvent
  <2> QED BY <1>1, <1>2, <2>1, <2>2
<1>6. Leads(prog2, ds, L2, F2, home, n)
  BY <1>1, <1>2, <1>4, <1>n DEF Leads
<1>7. Nested(prog2, ds, L2, F2, home) /\ \A c \in DOMAIN ds : home[c] <= Len(prog2)
  <2>1. e.op # "dec"
    OBVIOUS
  <2>2. \A c \in DOMAIN ds : home[c] <= End(prog)
    <3>1. \A c \in DOMAIN ds : home[c] <= Len(prog) /\ home[c] \in Nat
      BY WrittenTypes DEF Writing
    <3> QED BY <1>1, <1>3, <3>1
  <2>3. Leads(Append(prog, e), ds, Then(L, End(prog), l2), Then(F, End(prog), f), home, End(prog))
    BY <1>1, <1>2, <1>6
  <2>4. Nested(prog, ds, L, F, home)
    BY DEF Writing
  <2>5. /\ Nested(Append(prog, e), ds, Then(L, End(prog), l2), Then(F, End(prog), f), home)
        /\ \A c \in DOMAIN ds : home[c] <= Len(Append(prog, e))
    BY <2>1, <2>2, <2>3, <2>4, Added
  <2> QED BY <1>1, <1>2, <2>5
<1>w. Walked(prog, ds, wk, l, f, home)
  BY <1>1 DEF Writing
<1>a. wk[m - 1].kind = "fun"
  BY <1>1, <1>3, <1>4, <1>w, BelowAChunk DEF Walked
<1>8. Dropped(wk, wk2) /\ Len(wk2) = m - 1 /\ wk2[m - 1].kind = wk[m - 1].kind
  <2>1. Len(wk) > 1
    BY <1>1, <1>3, <1>4
  <2> QED BY <1>1, <1>2, <1>3, <2>1, MergedDropped
<1>9. wk2[Len(wk2)].kind # "typchunk"
  BY <1>a, <1>8
<1>10. Shorter(l, l2) /\ Shorter(f, f)
  BY <1>3, <1>5 DEF Shorter
<1>11. Walked(prog2, ds, wk2, l2, f, home)
  <2>1. Len(l2) = Len(f) /\ Len(wk2) = Len(l2) + Len(f) /\ Len(wk2) > 0
    BY <1>3, <1>4, <1>5, <1>8
  <2>2. \A c : Begun(prog2, c) <=> Begun(prog, c)
    BY <1>n
  <2> QED BY <1>3, <1>5, <1>8, <1>9, <1>10, <1>w, <2>1, <2>2, DroppedWalk
<1>12. Writing(prog2, ds, wk2, L2, F2, home)
  BY <1>7, <1>11, <1>n DEF Writing
<1> QED BY <1>2, <1>12

-----------------------------------------------------------------------------
(* A program as a whole.                                                   *)

Whole(prog, ds, L, F, home) ==
  /\ Nested(prog, ds, L, F, home)
  /\ L[End(prog)] = <<>> /\ F[End(prog)] = <<>>
  /\ \A d \in DOMAIN ds : Begun(prog, d)

\* The program is over, with nothing left to declare.
LEMMA AllWritten ==
  ASSUME NEW prog, NEW ds, NEW wk, NEW L, NEW F, NEW home, Writing(prog, ds, wk, L, F, home),
         Len(wk) = 1, NEW e \in Events, e.op = "endchunk"
  PROVE  \E L2, F2, home2 : Whole(Append(prog, e), ds, L2, F2, home2)
<1>1. PICK l, f, n : l = L[End(prog)] /\ f = F[End(prog)] /\ n = End(prog)
  OBVIOUS
<1>2. PICK l2, L2, F2, prog2 :
        /\ l2 = Front(l) /\ L2 = Then(L, n, l2) /\ F2 = Then(F, n, f) /\ prog2 = Append(prog, e)
  OBVIOUS
<1>3. /\ ds \in Seq(Decs) /\ n = Len(prog) + 1 /\ n \in Nat /\ Len(prog) \in Nat
      /\ wk \in Seq(Frames) /\ DOMAIN wk = {1}
      /\ l \in Seq(Nat) /\ f \in Seq(DOMAIN ds) /\ Len(f) \in Nat /\ Len(l) \in Nat
  BY <1>1, WrittenTypes
<1>4. wk[1].kind = "let" /\ Len(l) = 1 /\ Len(f) = 0
  <2>1. wk[1].kind = "let"
    BY DEF Writing, Walked, FramesFit
  <2>2. wk[Len(wk)].kind = "let" => Len(wk) = 1 /\ Len(l) = 1 /\ Len(f) = 0
    BY <1>1, WhereTheTopIs
  <2> QED BY <2>1, <2>2
<1>5. l2 = <<>> /\ f = <<>>
  <2>1. l2 \in Seq(Nat) /\ Len(l2) = 0
    <3>1. Len(l) > 0 /\ l \in Seq(Nat)
      BY <1>3, <1>4
    <3>2. Front(l) \in Seq(Nat) /\ Len(Front(l)) = Len(l) - 1
      BY <3>1, Fronts
    <3> QED BY <1>2, <1>4, <3>2
  <2> QED BY <1>3, <1>4, <2>1, EmptySeq
<1>n. /\ prog2[n] = e /\ L2[n] = L[n] /\ F2[n] = F[n] /\ L2[n + 1] = l2 /\ F2[n + 1] = f
      /\ Len(prog2) = n /\ End(prog2) = n + 1
      /\ \A c : Begun(prog2, c) <=> Begun(prog, c)
  <2>1. \A c : ~IsDec(e, c)
    BY DEF IsDec
  <2>2. /\ Append(prog, e)[End(prog)] = e
        /\ \A T, t : Then(T, End(prog), t)[End(prog)] = T[End(prog)]
                     /\ Then(T, End(prog), t)[End(prog) + 1] = t
        /\ Len(Append(prog, e)) = End(prog) /\ End(Append(prog, e)) = End(prog) + 1
        /\ \A c : Begun(Append(prog, e), c) <=> Begun(prog, c) \/ IsDec(e, c)
    BY NewEvent
  <2> QED BY <1>1, <1>2, <2>1, <2>2
<1>6. Leads(prog2, ds, L2, F2, home, n)
  <2>1. Len(l) = Len(f) + 1
    BY <1>4
  <2> QED BY <1>1, <1>2, <1>n, <2>1 DEF Leads
<1>7. Nested(prog2, ds, L2, F2, home) /\ \A c \in DOMAIN ds : home[c] <= Len(prog2)
  <2>1. e.op # "dec"
    OBVIOUS
  <2>2. \A c \in DOMAIN ds : home[c] <= End(prog)
    <3>1. \A c \in DOMAIN ds : home[c] <= Len(prog) /\ home[c] \in Nat
      BY WrittenTypes DEF Writing
    <3> QED BY <1>1, <1>3, <3>1
  <2>3. Leads(Append(prog, e), ds, Then(L, End(prog), l2), Then(F, End(prog), f), home, End(prog))
    BY <1>1, <1>2, <1>6
  <2>4. Nested(prog, ds, L, F, home)
    BY DEF Writing
  <2>5. /\ Nested(Append(prog, e), ds, Then(L, End(prog), l2), Then(F, End(prog), f), home)
        /\ \A c \in DOMAIN ds : home[c] <= Len(Append(prog, e))
    BY <2>1, <2>2, <2>3, <2>4, Added
  <2> QED BY <1>1, <1>2, <2>5
<1>8. \A c \in DOMAIN ds : Begun(prog2, c)
  <2>1. InFrames(prog, ds, wk, l, home) /\ OncePending(prog, ds, wk)
    BY <1>1 DEF Writing, Walked
  <2>2. \A i \in DOMAIN wk : \A j \in DOMAIN wk[i].todo : FALSE
    BY <1>3, <1>4, <2>1 DEF InFrames, ToDeclare
  <2> QED BY <1>n, <2>1, <2>2 DEF OncePending
<1>9. Whole(prog2, ds, L2, F2, home)
  BY <1>5, <1>7, <1>8, <1>n DEF Whole
<1> QED BY <1>2, <1>9

-----------------------------------------------------------------------------
(* The steps that write a program.                                         *)

\* An event that is not a use.
LEMMA EventIs ==
  ASSUME NEW op \in Ops, NEW id \in Nat
  PROVE  Event(op, id) \in Events /\ Event(op, id).op = op /\ Event(op, id).id = id
BY DEF Event, Events

\* The function being written is the last of those open.
LEMMA OwnerIs ==
  ASSUME NEW L, NEW F, NEW home, Writing(program, decs, walk, L, F, home),
         walk[Len(walk)].kind \in {"fun", "typchunk"}, NEW f, f = F[End(program)]
  PROVE  /\ Owner = f[Len(f)] /\ Len(f) > 0 /\ Len(L[End(program)]) = Len(f)
         /\ Owner \in DOMAIN decs /\ Owner \in Nat /\ decs[Owner].kind = "fun"
<1>1. PICK m, b, l : m = Len(walk) /\ b = Len(f) /\ l = L[End(program)]
  OBVIOUS
<1>2. /\ DOMAIN walk = 1..m /\ m \in Nat /\ b \in Nat /\ f \in Seq(DOMAIN decs)
      /\ DOMAIN decs = 1..Len(decs) /\ Len(decs) \in Nat
  BY <1>1, WrittenTypes
<1>3. /\ Len(l) = b /\ b > 0
      /\ (walk[m].kind = "fun" /\ m = 2 * b) \/ (walk[m].kind = "typchunk" /\ m = 2 * b + 1)
  BY <1>1, WhereTheTopIs
<1>4. b \in 1..b
  BY <1>2, <1>3
<1>5. walk[2 * b].kind = "fun" /\ walk[2 * b].id = f[b] /\ decs[f[b]].kind = "fun"
  BY <1>1, <1>4 DEF Writing, Walked, FramesFit
<1>6. PICK c : c = 2 * b
  OBVIOUS
<1>7. c \in DOMAIN walk /\ walk[c].kind = "fun" /\ \A j \in DOMAIN walk : walk[j].kind = "fun" => j <= c
  <2>1. \A j \in 1..m : j <= c \/ j = m
    BY <1>2, <1>3, <1>6
  <2>2. c \in 1..m /\ (m = c \/ walk[m].kind # "fun")
    BY <1>2, <1>3, <1>6
  <2>3. c <= c
    BY <1>2, <1>6
  <2> QED BY <1>2, <1>5, <1>6, <2>1, <2>2, <2>3
<1>8. PICK g : g = CHOOSE i \in DOMAIN walk :
                    /\ walk[i].kind = "fun"
                    /\ \A j \in DOMAIN walk : walk[j].kind = "fun" => j <= i
  OBVIOUS
<1>9. g \in DOMAIN walk /\ walk[g].kind = "fun" /\ \A j \in DOMAIN walk : walk[j].kind = "fun" => j <= g
  BY <1>7, <1>8
<1>10. g = c
  <2>1. g <= c /\ c <= g /\ g \in Nat /\ c \in Nat
    BY <1>2, <1>7, <1>9
  <2> QED BY <2>1
<1>11. Owner = f[b]
  BY <1>5, <1>6, <1>8, <1>10 DEF Owner
<1>12. f[b] \in DOMAIN decs
  BY <1>1, <1>2, <1>4, ElementOfSeq
<1>13. f[b] \in Nat
  BY <1>2, <1>12
<1> QED BY <1>1, <1>3, <1>5, <1>11, <1>12, <1>13

\* What is in scope has been declared where a use may mean it.
LEMMA InScopeIsUsable ==
  ASSUME NEW L, NEW F, NEW home, Writing(program, decs, walk, L, F, home), NEW d \in InScope
  PROVE  Usable(program, decs, d) /\ d \in Nat
<1>1. PICK i \in DOMAIN walk : d \in ToSet(walk[i].decs)
  BY DEF InScope
<1>2. PICK j \in DOMAIN walk[i].decs : d = walk[i].decs[j]
  BY <1>1 DEF ToSet
<1>3. Usable(program, decs, d)
  BY <1>2 DEF Writing, Walked, InFrames
<1>4. DOMAIN decs = 1..Len(decs)
  BY WrittenTypes
<1> QED BY <1>3, <1>4 DEF Usable

\* A use is within the function being written, and its scope has only what it may mean.
LEMMA UseIs ==
  ASSUME NEW L, NEW F, NEW home, Writing(program, decs, walk, L, F, home),
         walk[Len(walk)].kind \in {"fun", "typchunk"}, NEW d \in Visible
  PROVE  /\ Use(d) \in Events /\ Use(d).op = "use" /\ Use(d).within = Owner
         /\ Use(d).id = d /\ d \in Use(d).scope
         /\ \A c \in Use(d).scope : Usable(program, decs, c) /\ InSpace(decs, c) = InSpace(decs, d)
<1>1. d \in InScope
  BY DEF Visible
<1>2. \A c \in InScope : Usable(program, decs, c) /\ c \in Nat
  BY InScopeIsUsable
<1>3. Owner \in Nat
  BY OwnerIs
<1>4. \A c : Space(c) = InSpace(decs, c)
  BY DEF Space, InSpace
<1> QED BY <1>1, <1>2, <1>3, <1>4 DEF Use, Events, Ops

\* A use keeps the program well nested.
LEMMA WriteUseWrites ==
  ASSUME NEW L, NEW F, NEW home, Writing(program, decs, walk, L, F, home), WriteUse
  PROVE  \E L2, F2, home2 : Writing(program', decs', walk', L2, F2, home2)
<1>1. walk[Len(walk)].kind = "fun" /\ decs' = decs /\ walk' = walk
  BY DEF WriteUse, AtExp, Top
<1>2. PICK d \in Visible : program' = Append(program, Use(d))
  BY DEF WriteUse
<1>3. PICK f, e : f = F[End(program)] /\ e = Use(d)
  OBVIOUS
<1>4. e.within = f[Len(f)] /\ Len(f) > 0 /\ Len(L[End(program)]) = Len(f) /\ decs[e.within].kind = "fun"
  BY <1>1, <1>3, OwnerIs, UseIs
<1>5. /\ e \in Events /\ e.op = "use" /\ e.id \in e.scope
      /\ \A c \in e.scope : Usable(program, decs, c) /\ InSpace(decs, c) = InSpace(decs, e.id)
  BY <1>1, <1>3, UseIs
<1>6. \E L2, F2, home2 : Writing(Append(program, e), decs, walk, L2, F2, home2)
  BY <1>3, <1>4, <1>5, UseWritten
<1> QED BY <1>1, <1>2, <1>3, <1>6

\* A variable does.
LEMMA WriteVarDecWrites ==
  ASSUME NEW L, NEW F, NEW home, Writing(program, decs, walk, L, F, home), WriteVarDec
  PROVE  \E L2, F2, home2 : Writing(program', decs', walk', L2, F2, home2)
<1>1. /\ walk[Len(walk)].kind = "fun"
      /\ decs' = Append(decs, Declare("var", VarName, Owner))
      /\ program' = Append(program, Event("dec", Len(decs) + 1))
      /\ walk' = [walk EXCEPT ![Len(walk)].decs = Append(@, Len(decs) + 1)]
  BY DEF WriteVarDec, AtExp, Top
<1>2. PICK f, e, dec : /\ f = F[End(program)] /\ e = Event("dec", Len(decs) + 1)
                       /\ dec = Declare("var", VarName, Owner)
  OBVIOUS
<1>3. Owner = f[Len(f)] /\ Owner \in Nat
  BY <1>1, <1>2, OwnerIs
<1>4. dec \in Decs /\ dec.kind = "var" /\ dec.owner = f[Len(f)]
  BY <1>2, <1>3, NamesAssumption DEF Declare, Decs
<1>5. e \in Events /\ IsDec(e, Len(decs) + 1)
  <2>1. Len(decs) + 1 \in Nat
    BY WrittenTypes
  <2> QED BY <1>2, <2>1, EventIs DEF Ops, IsDec
<1>6. \E L2, F2, home2 :
        Writing(Append(program, e), Append(decs, dec),
                [walk EXCEPT ![Len(walk)].decs = Append(@, Len(decs) + 1)], L2, F2, home2)
  BY <1>1, <1>2, <1>4, <1>5, VarDecWritten
<1> QED BY <1>1, <1>2, <1>6

\* The names are strings.
LEMMA NameOf ==
  ASSUME NEW Ns \in Seq(STRING), Len(Ns) > 0, NEW i \in Nat
  PROVE  Ns[1 + (i % Len(Ns))] \in STRING
<1>1. Len(Ns) \in Nat
  OBVIOUS
<1>2. i % Len(Ns) \in 0..(Len(Ns) - 1)
  BY <1>1
<1>3. 1 + (i % Len(Ns)) \in 1..Len(Ns)
  BY <1>1, <1>2
<1> QED BY <1>3, ElementOfSeq

\* The start of a chunk does.
LEMMA WriteChunkWrites ==
  ASSUME NEW L, NEW F, NEW home, Writing(program, decs, walk, L, F, home), WriteChunk
  PROVE  \E L2, F2, home2 : Writing(program', decs', walk', L2, F2, home2)
<1>1. walk[Len(walk)].kind = "fun"
  BY DEF WriteChunk, AtExp, Top
<1>2. PICK kind \in {"fun", "typ"}, k \in 1..MaxChunk :
        LET Ns == IF kind = "fun" THEN FunName ELSE TypName
            ids == [i \in 1..k |-> Len(decs) + i] IN
        /\ decs' = decs \o [i \in 1..k |-> Declare(kind, Ns[1 + (ids[i] % Len(Ns))], Owner)]
        /\ walk' = Append(walk, [kind |-> ChunkOf(kind), id |-> 0, decs |-> ids, todo |-> ids])
        /\ program' = IF kind = "fun" THEN Append(program, Event("chunk", 0)) ELSE program
  BY Zenon DEF WriteChunk
<1>3. PICK Ns, news, e :
        /\ Ns = (IF kind = "fun" THEN FunName ELSE TypName)
        /\ news = [i \in 1..k |-> Declare(kind, Ns[1 + ((Len(decs) + i) % Len(Ns))], Owner)]
        /\ e = Event("chunk", 0)
  OBVIOUS
<1>4. Ns \in Seq(STRING) /\ Len(Ns) > 0
  <2>1. /\ FunName \in Seq(STRING) /\ TypName \in Seq(STRING) /\ MaxChunk \in Nat /\ MaxChunk # 0
        /\ MaxChunk <= Len(FunName) /\ MaxChunk <= Len(TypName)
    BY NamesAssumption
  <2>2. Len(FunName) > 0 /\ Len(TypName) > 0
    BY <2>1
  <2> QED BY <1>3, <2>1, <2>2
<1>5. k \in Nat /\ Len(decs) \in Nat
  BY NamesAssumption, WrittenTypes
<1>6. ASSUME NEW i \in 1..k
      PROVE  Declare(kind, Ns[1 + ((Len(decs) + i) % Len(Ns))], Owner) \in Decs
  <2>1. Len(decs) + i \in Nat
    BY <1>5
  <2>2. Ns[1 + ((Len(decs) + i) % Len(Ns))] \in STRING
    BY <1>4, <2>1, NameOf
  <2>3. Owner \in Nat
    BY <1>1, OwnerIs
  <2>4. kind \in {"fun", "prim", "typ", "var"}
    OBVIOUS
  <2> QED BY <2>2, <2>3, <2>4 DEF Declare, Decs
<1>7. news \in Seq(Decs) /\ Len(news) = k /\ DOMAIN news = 1..k
  BY <1>3, <1>5, <1>6
<1>8. \A i \in DOMAIN news : news[i].kind = kind
  BY <1>3, <1>7 DEF Declare
<1>9. /\ decs' = decs \o news
      /\ walk' = Append(walk, ChunkFrame(ChunkOf(kind), Len(decs), Len(news)))
      /\ program' = IF kind = "fun" THEN Append(program, e) ELSE program
  <2>1. \A i \in 1..k : [j \in 1..k |-> Len(decs) + j][i] = Len(decs) + i
    OBVIOUS
  <2>2. news = [i \in 1..k |-> Declare(kind, Ns[1 + ([j \in 1..k |-> Len(decs) + j][i] % Len(Ns))], Owner)]
    BY <1>3, <2>1
  <2>3. decs' = decs \o news
    BY <1>2, <1>3, <2>2, Zenon
  <2>4. walk' = Append(walk, [kind |-> ChunkOf(kind), id |-> 0, decs |-> [i \in 1..k |-> Len(decs) + i],
                              todo |-> [i \in 1..k |-> Len(decs) + i]])
    BY <1>2, Zenon
  <2>5. program' = IF kind = "fun" THEN Append(program, e) ELSE program
    BY <1>2, <1>3, Zenon
  <2> QED BY <1>7, <2>3, <2>4, <2>5 DEF ChunkFrame
<1>10. CASE kind = "fun"
  <2>1. ChunkOf(kind) = "funchunk"
    BY <1>10 DEF ChunkOf
  <2>2. e \in Events /\ e.op = "chunk"
    BY <1>3, EventIs DEF Ops
  <2>3. \A i \in DOMAIN news : news[i].kind = "fun"
    BY <1>8, <1>10
  <2>4. \E L2, F2, home2 :
          Writing(Append(program, e), decs \o news,
                  Append(walk, ChunkFrame("funchunk", Len(decs), Len(news))), L2, F2, home2)
    BY <1>1, <1>7, <2>2, <2>3, FunChunkWritten
  <2> QED BY <1>9, <1>10, <2>1, <2>4
<1>11. CASE kind = "typ"
  <2>1. ChunkOf(kind) = "typchunk"
    BY <1>11 DEF ChunkOf
  <2>3. \A i \in DOMAIN news : news[i].kind = "typ"
    BY <1>8, <1>11
  <2>4. \E L2, F2, home2 :
          Writing(program, decs \o news,
                  Append(walk, ChunkFrame("typchunk", Len(decs), Len(news))), L2, F2, home2)
    BY <1>1, <1>7, <2>3, TypeChunkWritten
  <2> QED BY <1>9, <1>11, <2>1, <2>4
<1> QED BY <1>10, <1>11

\* A function does.
LEMMA WriteFunDecWrites ==
  ASSUME NEW L, NEW F, NEW home, Writing(program, decs, walk, L, F, home), WriteFunDec
  PROVE  \E L2, F2, home2 : Writing(program', decs', walk', L2, F2, home2)
<1>1. PICK d, wk2, e : /\ d = Head(walk[Len(walk)].todo) /\ e = Event("dec", d)
                       /\ wk2 = [walk EXCEPT ![Len(walk)].todo = Tail(@)]
  OBVIOUS
<1>2. /\ walk[Len(walk)].todo # <<>> /\ decs[d].kind = "fun"
      /\ walk' = Append(wk2, FunFrame(d))
      /\ program' = Append(program, e) /\ decs' = decs
  BY <1>1 DEF WriteFunDec, AtDecs, Top, FunFrame
<1>3. Popped(walk, wk2)
  BY <1>1 DEF Popped
<1>4. e \in Events /\ IsDec(e, d)
  <2>1. d \in DOMAIN decs /\ DOMAIN decs = 1..Len(decs)
    BY <1>1, <1>2, NextToDeclare, WrittenTypes
  <2>2. d \in Nat
    BY <2>1
  <2> QED BY <1>1, <2>2, EventIs DEF Ops, IsDec
<1>5. \E L2, F2, home2 : Writing(Append(program, e), decs, Append(wk2, FunFrame(d)), L2, F2, home2)
  BY <1>1, <1>2, <1>3, <1>4, FunDecWritten
<1> QED BY <1>2, <1>5

\* A type does.
LEMMA WriteTypeDecWrites ==
  ASSUME NEW L, NEW F, NEW home, Writing(program, decs, walk, L, F, home), WriteTypeDec
  PROVE  \E L2, F2, home2 : Writing(program', decs', walk', L2, F2, home2)
<1>1. PICK d, wk2, e : /\ d = Head(walk[Len(walk)].todo) /\ e = Event("dec", d)
                       /\ wk2 = [walk EXCEPT ![Len(walk)].todo = Tail(@)]
  OBVIOUS
<1>2. walk[Len(walk)].todo # <<>> /\ decs[d].kind = "typ" /\ walk' = wk2 /\ decs' = decs
  BY <1>1 DEF WriteTypeDec, AtDecs, Top
<1>3. PICK ty \in {<<>>} \union {<<Use(c)>> : c \in {c \in Visible : decs[c].kind = "typ"}} :
        program' = program \o <<e>> \o ty
  BY <1>1 DEF WriteTypeDec, Top
<1>4. Popped(walk, wk2)
  BY <1>1 DEF Popped
<1>5. walk[Len(walk)].kind = "typchunk"
  BY <1>1, <1>2, NextToDeclare
<1>6. e \in Events /\ IsDec(e, d)
  <2>1. d \in DOMAIN decs /\ DOMAIN decs = 1..Len(decs)
    BY <1>1, <1>2, NextToDeclare, WrittenTypes
  <2>2. d \in Nat
    BY <2>1
  <2> QED BY <1>1, <2>2, EventIs DEF Ops, IsDec
<1>7. PICK prog2 : prog2 = Append(program, e)
  OBVIOUS
<1>8. PICK L2, F2, home2 : Writing(prog2, decs, wk2, L2, F2, home2) /\ F2[End(prog2)] = F[End(program)]
  <2>1. \E L2, F2, home2 : /\ Writing(Append(program, e), decs, wk2, L2, F2, home2)
                           /\ F2[End(Append(program, e))] = F[End(program)]
    BY <1>1, <1>2, <1>4, <1>6, TypeDecWritten
  <2> QED BY <1>7, <2>1
<1>9. program \in Seq(Events)
  BY WrittenTypes
<1>10. program \o <<e>> = prog2 /\ prog2 \in Seq(Events)
  BY <1>6, <1>7, <1>9
<1>11. CASE ty = <<>>
  <2>1. program' = prog2
    BY <1>3, <1>10, <1>11
  <2> QED BY <1>2, <1>8, <2>1
<1>12. CASE ty # <<>>
  <2>1. PICK c \in Visible : ty = <<Use(c)>>
    BY <1>12
  <2>2. PICK u, f : u = Use(c) /\ f = F2[End(prog2)]
    OBVIOUS
  <2>3. /\ u \in Events /\ u.op = "use" /\ u.within = Owner /\ u.id = c /\ u.id \in u.scope
        /\ \A b \in u.scope : Usable(program, decs, b) /\ InSpace(decs, b) = InSpace(decs, u.id)
    BY <1>5, <2>2, UseIs
  <2>4. program' = Append(prog2, u)
    BY <1>3, <1>10, <2>1, <2>2, <2>3
  <2>5. Owner = f[Len(f)] /\ decs[Owner].kind = "fun"
    BY <1>5, <1>8, <2>2, OwnerIs
  <2>6. wk2[Len(wk2)].kind = "typchunk"
    <3>1. walk \in Seq(Frames) /\ Len(walk) \in DOMAIN walk
      BY WrittenTypes, TopIs
    <3>2. Len(wk2) = Len(walk) /\ \A i \in DOMAIN walk : wk2[i].kind = walk[i].kind
      BY <1>2, <1>4, <3>1, PoppedFrames
    <3> QED BY <1>5, <3>1, <3>2
  <2>7. Len(L2[End(prog2)]) = Len(f) /\ Len(f) > 0
    BY <1>8, <2>2, <2>6, WhereTheTopIs
  <2>8. \A b \in u.scope : Usable(prog2, decs, b) /\ InSpace(decs, b) = InSpace(decs, u.id)
    <3>1. \A b : Begun(program, b) => Begun(prog2, b)
      BY <1>6, <1>7, NewEvent
    <3> QED BY <2>3, <3>1 DEF Usable
  <2>9. u.within = f[Len(f)] /\ decs[u.within].kind = "fun"
    BY <2>3, <2>5
  <2>10. \E L3, F3, home3 : Writing(Append(prog2, u), decs, wk2, L3, F3, home3)
    BY <1>8, <2>2, <2>3, <2>7, <2>8, <2>9, UseWritten
  <2> QED BY <1>2, <2>4, <2>10
<1> QED BY <1>11, <1>12

\* The end of a chunk or of a function does.
LEMMA WriteEndWrites ==
  ASSUME NEW L, NEW F, NEW home, Writing(program, decs, walk, L, F, home), WriteEnd
  PROVE  \E L2, F2, home2 : Writing(program', decs', walk', L2, F2, home2)
<1>1. PICK m, top : m = Len(walk) /\ top = walk[m]
  OBVIOUS
<1>2. /\ m > 1 /\ top.todo = <<>> /\ decs' = decs
      /\ walk' = IF top.kind = "fun" THEN Front(walk) ELSE Merged(walk)
      /\ program' = CASE top.kind = "funchunk" -> Append(program, Event("endchunk", 0))
                      [] top.kind = "fun" -> Append(program, Event("end", top.id))
                      [] OTHER -> program
  BY <1>1 DEF WriteEnd, Top, Merged
<1>3. /\ walk \in Seq(Frames) /\ m \in DOMAIN walk
      /\ top.kind = "let" => m = 1
  BY <1>1, WrittenTypes, WhereTheTopIs
<1>4. top.kind \in {"let", "fun", "funchunk", "typchunk"} /\ top.id \in Nat
  BY <1>1, <1>3, FrameIs
<1>5. CASE top.kind = "fun"
  <2>1. PICK e : e = Event("end", top.id)
    OBVIOUS
  <2>2. e \in Events /\ e.op = "end" /\ e.id = walk[Len(walk)].id
    BY <1>1, <1>4, <2>1, EventIs DEF Ops
  <2>3. \E L2, F2, home2 : Writing(Append(program, e), decs, Front(walk), L2, F2, home2)
    BY <1>1, <1>2, <1>5, <2>2, EndWritten
  <2>4. program' = Append(program, e) /\ walk' = Front(walk)
    BY <1>2, <1>5, <2>1
  <2> QED BY <1>2, <2>3, <2>4
<1>6. CASE top.kind = "funchunk"
  <2>1. PICK e : e = Event("endchunk", 0)
    OBVIOUS
  <2>2. e \in Events /\ e.op = "endchunk"
    BY <2>1, EventIs DEF Ops
  <2>3. \E L2, F2, home2 : Writing(Append(program, e), decs, Merged(walk), L2, F2, home2)
    BY <1>1, <1>2, <1>6, <2>2, FunChunkEndWritten
  <2>4. program' = Append(program, e) /\ walk' = Merged(walk)
    BY <1>2, <1>6, <2>1
  <2> QED BY <1>2, <2>3, <2>4
<1>7. CASE top.kind = "typchunk"
  <2>1. Writing(program, decs, Merged(walk), L, F, home)
    BY <1>1, <1>2, <1>7, TypeEndWritten
  <2>2. program' = program /\ walk' = Merged(walk)
    BY <1>2, <1>7
  <2> QED BY <1>2, <2>1, <2>2
<1>8. top.kind # "let"
  BY <1>2, <1>3
<1> QED BY <1>4, <1>5, <1>6, <1>7, <1>8

\* The program that has been written is whole.
LEMMA WriteAllWrites ==
  ASSUME NEW L, NEW F, NEW home, Writing(program, decs, walk, L, F, home), WriteAll
  PROVE  \E L2, F2, home2 : Whole(program', decs', L2, F2, home2)
<1>1. PICK e : e = Event("endchunk", 0)
  OBVIOUS
<1>2. Len(walk) = 1 /\ program' = Append(program, e) /\ decs' = decs
  BY <1>1 DEF WriteAll
<1>3. e \in Events /\ e.op = "endchunk"
  BY <1>1, EventIs DEF Ops
<1> QED BY <1>2, <1>3, AllWritten

\* The prelude and _main are where a program starts.
LEMMA PreludeIs ==
  ASSUME NInit
  PROVE  \E L, F, home : Writing(program, decs, walk, L, F, home)
<1>1. PICK L, F, home :
        /\ L = <<<<>>, <<1>>, <<1>>, <<1>>, <<1>>, <<>>, <<6>>, <<6>>>>
        /\ F = <<<<>>, <<>>, <<1>>, <<1>>, <<>>, <<>>, <<>>, <<3>>>>
        /\ home = <<1, 0, 6>>
  OBVIOUS
<1>2. /\ program = <<Event("chunk", 0), Event("dec", 1), Event("dec", 2), Event("end", 1),
                     Event("endchunk", 0), Event("chunk", 0), Event("dec", 3)>>
      /\ decs = <<Declare("prim", Primitive, 0), Declare("var", "formal", 1), Declare("fun", Main, 0)>>
      /\ walk = <<[kind |-> "let", id |-> 0, decs |-> <<1, 3>>, todo |-> <<>>],
                  [kind |-> "fun", id |-> 3, decs |-> <<>>, todo |-> <<>>]>>
  BY DEF NInit
<1>3. /\ program[1] = Event("chunk", 0) /\ program[2] = Event("dec", 1) /\ program[3] = Event("dec", 2)
      /\ program[4] = Event("end", 1) /\ program[5] = Event("endchunk", 0)
      /\ program[6] = Event("chunk", 0) /\ program[7] = Event("dec", 3)
      /\ Len(program) = 7 /\ DOMAIN program = 1..7
  BY <1>2
<1>4. program \in Seq(Events)
  <2>1. /\ Event("chunk", 0) \in Events /\ Event("dec", 1) \in Events /\ Event("dec", 2) \in Events
        /\ Event("end", 1) \in Events /\ Event("endchunk", 0) \in Events /\ Event("dec", 3) \in Events
    BY EventIs DEF Ops
  <2> QED BY <1>2, <2>1
<1>5. /\ Declare("prim", Primitive, 0) \in Decs /\ Declare("var", "formal", 1) \in Decs
      /\ Declare("fun", Main, 0) \in Decs
  <2>1. ASSUME NEW kind \in {"fun", "prim", "typ", "var"}, NEW n \in STRING \union {"formal"}, NEW o \in Nat
        PROVE  Declare(kind, n, o) \in Decs
    BY DEF Declare, Decs
  <2>2. Primitive \in STRING /\ Main \in STRING
    BY NamesAssumption
  <2>3. Declare("prim", Primitive, 0) \in Decs
    BY <2>1, <2>2
  <2>4. Declare("var", "formal", 1) \in Decs
    BY <2>1
  <2>5. Declare("fun", Main, 0) \in Decs
    BY <2>1, <2>2
  <2> QED BY <2>3, <2>4, <2>5
<1>6. /\ decs \in Seq(Decs) /\ DOMAIN decs = 1..3
      /\ decs[1].kind = "prim" /\ decs[2].kind = "var" /\ decs[2].owner = 1 /\ decs[3].kind = "fun"
  BY <1>2, <1>5 DEF Declare
<1>7. /\ home[1] = 1 /\ home[2] = 0 /\ home[3] = 6
      /\ \A d \in 1..3 : home[d] \in Nat /\ home[d] <= 7
  BY <1>1
<1>8. /\ program[1].op = "chunk" /\ program[2].op = "dec" /\ program[2].id = 1
      /\ program[3].op = "dec" /\ program[3].id = 2 /\ program[4].op = "end" /\ program[4].id = 1
      /\ program[5].op = "endchunk" /\ program[6].op = "chunk"
      /\ program[7].op = "dec" /\ program[7].id = 3
  BY <1>3 DEF Event
<1>9. /\ L[1] = <<>> /\ L[2] = <<1>> /\ L[3] = <<1>> /\ L[4] = <<1>> /\ L[5] = <<1>>
      /\ L[6] = <<>> /\ L[7] = <<6>> /\ L[8] = <<6>>
  BY <1>1
<1>10. /\ F[1] = <<>> /\ F[2] = <<>> /\ F[3] = <<1>> /\ F[4] = <<1>> /\ F[5] = <<>>
       /\ F[6] = <<>> /\ F[7] = <<>> /\ F[8] = <<3>>
  BY <1>1
<1>11. /\ Append(<<>>, 1) = <<1>> /\ Append(<<>>, 6) = <<6>> /\ Append(<<>>, 3) = <<3>>
       /\ Front(<<1>>) = <<>> /\ <<1>>[1] = 1 /\ <<6>>[1] = 6
       /\ Len(<<>>) = 0 /\ Len(<<1>>) = 1 /\ Len(<<6>>) = 1
  <2>1. Front(<<1>>) = <<>>
    <3>1. PICK s : s = <<1>>
      OBVIOUS
    <3>2. s \in Seq(Nat) /\ Len(s) > 0 /\ Len(s) = 1
      BY <3>1
    <3>3. Front(s) \in Seq(Nat) /\ Len(Front(s)) = Len(s) - 1
      BY <3>2, Fronts
    <3>4. Front(s) \in Seq(Nat) /\ Len(Front(s)) = 0
      BY <3>2, <3>3
    <3> QED BY <3>1, <3>4, EmptySeq
  <2> QED BY <2>1
<1>12. Leads(program, decs, L, F, home, 1)
  BY <1>8, <1>9, <1>10, <1>11 DEF Leads
<1>13. Leads(program, decs, L, F, home, 2)
  BY <1>6, <1>7, <1>8, <1>9, <1>10, <1>11 DEF Leads, Fun
<1>14. Leads(program, decs, L, F, home, 3)
  BY <1>6, <1>8, <1>9, <1>10, <1>11 DEF Leads
<1>15. Leads(program, decs, L, F, home, 4)
  BY <1>8, <1>9, <1>10, <1>11 DEF Leads
<1>16. Leads(program, decs, L, F, home, 5)
  BY <1>8, <1>9, <1>10, <1>11 DEF Leads
<1>17. Leads(program, decs, L, F, home, 6)
  BY <1>8, <1>9, <1>10, <1>11 DEF Leads
<1>18. Leads(program, decs, L, F, home, 7)
  BY <1>6, <1>7, <1>8, <1>9, <1>10, <1>11 DEF Leads, Fun
<1>19. Standing(program, decs, L, F, home, 1)
  <2>1. L[1] \in Seq(Nat) /\ F[1] \in Seq(DOMAIN decs) /\ Len(L[1]) = 0 /\ Len(F[1]) = 0
    BY <1>9, <1>10
  <2> QED BY <2>1 DEF Standing
<1>20. /\ Standing(program, decs, L, F, home, 2) /\ Standing(program, decs, L, F, home, 3)
       /\ Standing(program, decs, L, F, home, 4) /\ Standing(program, decs, L, F, home, 5)
       /\ Standing(program, decs, L, F, home, 6) /\ Standing(program, decs, L, F, home, 7)
       /\ Standing(program, decs, L, F, home, 8)
  <2>0. \A p \in 1..7 : p \in DOMAIN program
    BY <1>3
  <2>2. Standing(program, decs, L, F, home, 1 + 1)
    BY <1>4, <1>6, <1>12, <1>19, <2>0, StandsNext
  <2>3. Standing(program, decs, L, F, home, 2 + 1)
    BY <1>4, <1>6, <1>13, <2>2, <2>0, StandsNext
  <2>4. Standing(program, decs, L, F, home, 3 + 1)
    BY <1>4, <1>6, <1>14, <2>3, <2>0, StandsNext
  <2>5. Standing(program, decs, L, F, home, 4 + 1)
    BY <1>4, <1>6, <1>15, <2>4, <2>0, StandsNext
  <2>6. Standing(program, decs, L, F, home, 5 + 1)
    BY <1>4, <1>6, <1>16, <2>5, <2>0, StandsNext
  <2>7. Standing(program, decs, L, F, home, 6 + 1)
    BY <1>4, <1>6, <1>17, <2>6, <2>0, StandsNext
  <2>8. Standing(program, decs, L, F, home, 7 + 1)
    BY <1>4, <1>6, <1>18, <2>7, <2>0, StandsNext
  <2> QED BY <2>2, <2>3, <2>4, <2>5, <2>6, <2>7, <2>8
<1>21. Nested(program, decs, L, F, home)
  <2>1. \A p \in 1..(Len(program) + 1) : Standing(program, decs, L, F, home, p)
    <3>1. \A p \in 1..(7 + 1) : p = 1 \/ p = 2 \/ p = 3 \/ p = 4 \/ p = 5 \/ p = 6 \/ p = 7 \/ p = 8
      OBVIOUS
    <3> QED BY <1>3, <1>19, <1>20, <3>1
  <2>2. \A p \in 1..7 : p = 1 \/ p = 2 \/ p = 3 \/ p = 4 \/ p = 5 \/ p = 6 \/ p = 7
    OBVIOUS
  <2>3. \A p \in DOMAIN program : Leads(program, decs, L, F, home, p)
    BY <1>3, <1>12, <1>13, <1>14, <1>15, <1>16, <1>17, <1>18, <2>2
  <2>4. \A p \in DOMAIN program : program[p].op = "dec" =>
          (p = 2 /\ program[p].id = 1) \/ (p = 3 /\ program[p].id = 2) \/ (p = 7 /\ program[p].id = 3)
    BY <1>3, <1>8, <2>2
  <2>5. \A p, q \in DOMAIN program :
          program[p].op = "dec" /\ program[q].op = "dec" /\ program[p].id = program[q].id => p = q
    BY <2>4
  <2> QED BY <1>4, <1>6, <1>7, <1>9, <1>10, <2>1, <2>3, <2>5 DEF Nested
<1>22. End(program) = 8
  BY <1>3 DEF End
<1>23. \A d \in DOMAIN decs : Begun(program, d)
  <2>1. Begun(program, 1)
    BY <1>3, <1>8, <1>22 DEF Begun, Met, IsDec
  <2>2. Begun(program, 2)
    BY <1>3, <1>8, <1>22 DEF Begun, Met, IsDec
  <2>3. Begun(program, 3)
    BY <1>3, <1>8, <1>22 DEF Begun, Met, IsDec
  <2>4. \A d \in 1..3 : d = 1 \/ d = 2 \/ d = 3
    OBVIOUS
  <2> QED BY <1>6, <2>1, <2>2, <2>3, <2>4
<1>24. /\ walk \in Seq(Frames) /\ Len(walk) = 2 /\ DOMAIN walk = 1..2
       /\ walk[1].kind = "let" /\ walk[2].kind = "fun" /\ walk[2].id = 3
       /\ walk[1].decs = <<1, 3>> /\ walk[2].decs = <<>> /\ walk[1].todo = <<>> /\ walk[2].todo = <<>>
  <2>1. <<1, 3>> \in Seq(Nat) /\ <<>> \in Seq(Nat)
    OBVIOUS
  <2>2. /\ [kind |-> "let", id |-> 0, decs |-> <<1, 3>>, todo |-> <<>>] \in Frames
        /\ [kind |-> "fun", id |-> 3, decs |-> <<>>, todo |-> <<>>] \in Frames
    BY <2>1 DEF Frames
  <2> QED BY <1>2, <2>2
<1>25. \A i \in DOMAIN walk : i = 1 \/ i = 2
  BY <1>24
<1>26. FramesFit(walk, decs, L[8], F[8])
  <2>1. L[8] = <<6>> /\ F[8] = <<3>> /\ Len(<<6>>) = 1 /\ Len(<<3>>) = 1 /\ <<3>>[1] = 3
    BY <1>9, <1>10
  <2>2. \A k \in 1..Len(F[8]) : k = 1 /\ 2 * k = 2 /\ F[8][k] = 3
    BY <2>1
  <2>3. \A k \in 1..Len(L[8]) : ~(k > 1)
    BY <2>1
  <2>4. Len(walk) = Len(L[8]) + Len(F[8]) /\ Len(walk) > 0 /\ walk[Len(walk)].kind = "fun"
    BY <1>24, <2>1
  <2> QED BY <1>6, <1>24, <2>2, <2>3, <2>4 DEF FramesFit
<1>27. DOMAIN <<>> = {} /\ DOMAIN <<1, 3>> = 1..2 /\ <<1, 3>>[1] = 1 /\ <<1, 3>>[2] = 3
  OBVIOUS
<1>28. InFrames(program, decs, walk, L[8], home)
  <2>1. Usable(program, decs, 1) /\ Usable(program, decs, 3)
    BY <1>6 DEF Usable
  <2>2. \A j \in DOMAIN <<1, 3>> : j = 1 \/ j = 2
    BY <1>27
  <2>3. \A j \in DOMAIN <<1, 3>> : Usable(program, decs, <<1, 3>>[j])
    BY <1>27, <2>1, <2>2
  <2>4. \A i \in DOMAIN walk : \A j \in DOMAIN walk[i].decs : Usable(program, decs, walk[i].decs[j])
    BY <1>24, <1>25, <1>27, <2>3
  <2>5. \A i \in DOMAIN walk : \A j \in DOMAIN walk[i].todo : FALSE
    BY <1>24, <1>25, <1>27
  <2> QED BY <2>4, <2>5 DEF InFrames
<1>29. OncePending(program, decs, walk)
  BY <1>23, <1>24, <1>25, <1>27 DEF OncePending
<1>30. \A d \in DOMAIN decs : home[d] <= Len(program)
  BY <1>3, <1>6, <1>7
<1>31. Writing(program, decs, walk, L, F, home)
  BY <1>21, <1>22, <1>26, <1>28, <1>29, <1>30 DEF Writing, Walked
<1> QED BY <1>31

-----------------------------------------------------------------------------
(* The names.                                                              *)

UsesOf(prog) == {i \in DOMAIN prog : prog[i].op = "use"}
Ren(ds, d) == Fun(ds, d) => ds[d].kind = "fun" /\ ds[d].name # Main

\* Up to the event w, what is met is renamed, with a number of its own.
NameOk(prog, ds, w, nm, un, d) ==
  IF Ren(ds, d) /\ Met(prog, d, w)
    THEN Len(nm[d]) = 2 /\ nm[d][2] \in Nat /\ nm[d][2] < un
    ELSE nm[d] = <<ds[d].name>>

Unique(prog, ds, w, nm) ==
  \A d, e \in DOMAIN ds :
    /\ Ren(ds, d) /\ Met(prog, d, w) /\ Ren(ds, e) /\ Met(prog, e, w)
    /\ nm[d][2] = nm[e][2]
    => d = e

SpelledOk(prog, ds, w, nm, sp) ==
  /\ DOMAIN sp = UsesOf(prog)
  /\ \A i \in UsesOf(prog) :
       sp[i] = IF i < w /\ Ren(ds, prog[i].id) /\ Met(prog, prog[i].id, i)
                 THEN nm[prog[i].id] ELSE <<ds[prog[i].id].name>>

NamesOk(prog, ds, w, nm, un, sp) ==
  /\ un \in Nat /\ DOMAIN nm = DOMAIN ds
  /\ \A d \in DOMAIN ds : NameOk(prog, ds, w, nm, un, d)
  /\ Unique(prog, ds, w, nm)
  /\ SpelledOk(prog, ds, w, nm, sp)

\* An event meets at most the declaration it is.
LEMMA MetNext ==
  ASSUME NEW prog, prog \in Seq(Events), NEW p \in DOMAIN prog, NEW c
  PROVE  Met(prog, c, p + 1) <=> Met(prog, c, p) \/ IsDec(prog[p], c)
<1>1. DOMAIN prog = 1..Len(prog)
  OBVIOUS
<1>2. \A r \in DOMAIN prog : r < p + 1 <=> r < p \/ r = p
  BY <1>1
<1> QED BY <1>2 DEF Met

\* Nothing is met before the first event.
LEMMA NoneMet ==
  ASSUME NEW prog, prog \in Seq(Events), NEW c
  PROVE  ~Met(prog, c, 1)
<1>1. DOMAIN prog = 1..Len(prog)
  OBVIOUS
<1>2. \A r \in DOMAIN prog : ~(r < 1)
  BY <1>1
<1> QED BY <1>2 DEF Met

\* Where a use stands.
LEMMA UseFacts ==
  ASSUME NEW prog, NEW ds, NEW L, NEW F, NEW home, Nested(prog, ds, L, F, home),
         NEW p \in DOMAIN prog, prog[p].op = "use"
  PROVE  /\ WellUsed(prog, ds, home, p) /\ prog[p].id \in DOMAIN ds
         /\ Len(F[p]) > 0 /\ Len(L[p]) = Len(F[p])
         /\ prog[p].within = F[p][Len(F[p])] /\ ds[prog[p].within].kind = "fun"
         /\ L[p + 1] = L[p] /\ F[p + 1] = F[p]
<1>1. Leads(prog, ds, L, F, home, p)
  BY DEF Nested
<1> QED BY <1>1 DEF Leads

\* A declaration is not met before it is.
LEMMA NotMetBefore ==
  ASSUME NEW prog, NEW ds, NEW L, NEW F, NEW home, Nested(prog, ds, L, F, home),
         NEW p \in DOMAIN prog, prog[p].op = "dec"
  PROVE  /\ ~Met(prog, prog[p].id, p) /\ prog[p].id \in DOMAIN ds
         /\ \A c : IsDec(prog[p], c) <=> c = prog[p].id
<1>1. Leads(prog, ds, L, F, home, p)
  BY DEF Nested
<1>2. DOMAIN prog = 1..Len(prog)
  BY DEF Nested
<1>3. ASSUME Met(prog, prog[p].id, p) PROVE FALSE
  <2>1. PICK r \in DOMAIN prog : r < p /\ IsDec(prog[r], prog[p].id)
    BY <1>3 DEF Met
  <2>2. r = p
    BY <2>1 DEF Nested, IsDec
  <2> QED BY <1>2, <2>1, <2>2
<1> QED BY <1>1, <1>3 DEF Leads, IsDec

\* The names a program is written with.
LEMMA NamesAtFirst ==
  ASSUME NEW prog, NEW ds, NEW L, NEW F, NEW home, Nested(prog, ds, L, F, home), NEW un \in Nat
  PROVE  NamesOk(prog, ds, 1, [d \in DOMAIN ds |-> <<ds[d].name>>], un,
                 [i \in UsesOf(prog) |-> <<ds[prog[i].id].name>>])
<1>1. \A c : ~Met(prog, c, 1)
  BY NoneMet DEF Nested
<1>2. prog \in Seq(Events) /\ DOMAIN prog = 1..Len(prog)
  BY DEF Nested
<1>3. \A i \in UsesOf(prog) : ~(i < 1)
  BY <1>2 DEF UsesOf
<1> QED BY <1>1, <1>3 DEF NamesOk, NameOk, Unique, SpelledOk

\* The counter may start anywhere.
LEMMA NumberDoesNotMatterAtFirst ==
  ASSUME NEW prog, NEW ds, NEW nm, NEW sp, NEW un, NEW un2 \in Nat, prog \in Seq(Events),
         NamesOk(prog, ds, 1, nm, un, sp)
  PROVE  NamesOk(prog, ds, 1, nm, un2, sp)
<1>1. \A c : ~Met(prog, c, 1)
  BY NoneMet
<1> QED BY <1>1 DEF NamesOk, NameOk

\* An event that renames nothing.
LEMMA OtherNamed ==
  ASSUME NEW prog, NEW ds, NEW L, NEW F, NEW home, Nested(prog, ds, L, F, home),
         NEW w \in DOMAIN prog, NEW nm, NEW un, NEW sp, NamesOk(prog, ds, w, nm, un, sp),
         prog[w].op # "use", ~(prog[w].op = "dec" /\ Ren(ds, prog[w].id))
  PROVE  NamesOk(prog, ds, w + 1, nm, un, sp)
<1>1. prog \in Seq(Events) /\ DOMAIN prog = 1..Len(prog)
  BY DEF Nested
<1>2. \A c \in DOMAIN ds : Ren(ds, c) => (Met(prog, c, w + 1) <=> Met(prog, c, w))
  BY <1>1, MetNext DEF IsDec
<1>3. \A i \in UsesOf(prog) : i < w + 1 <=> i < w
  BY <1>1 DEF UsesOf
<1> QED BY <1>2, <1>3 DEF NamesOk, NameOk, Unique, SpelledOk

\* A use takes the name its declaration has by then.
LEMMA UseNamed ==
  ASSUME NEW prog, NEW ds, NEW L, NEW F, NEW home, Nested(prog, ds, L, F, home),
         NEW w \in DOMAIN prog, NEW nm, NEW un, NEW sp, NamesOk(prog, ds, w, nm, un, sp),
         prog[w].op = "use"
  PROVE  NamesOk(prog, ds, w + 1, nm, un, [sp EXCEPT ![w] = nm[prog[w].id]])
<1>1. prog \in Seq(Events) /\ DOMAIN prog = 1..Len(prog)
  BY DEF Nested
<1>2. \A c \in DOMAIN ds : Met(prog, c, w + 1) <=> Met(prog, c, w)
  BY <1>1, MetNext DEF IsDec
<1>3. \A i \in UsesOf(prog) : i < w + 1 <=> (i < w \/ i = w)
  BY <1>1 DEF UsesOf
<1>4. prog[w].id \in DOMAIN ds /\ w \in UsesOf(prog) /\ ~(w < w)
  BY <1>1, UseFacts DEF UsesOf
<1>5. NameOk(prog, ds, w, nm, un, prog[w].id)
  BY <1>4 DEF NamesOk
<1>6. SpelledOk(prog, ds, w + 1, nm, [sp EXCEPT ![w] = nm[prog[w].id]])
  BY <1>3, <1>4, <1>5 DEF NamesOk, NameOk, SpelledOk
<1> QED BY <1>2, <1>6 DEF NamesOk, NameOk, Unique

\* A declaration takes a name that no other has.
LEMMA DecNamed ==
  ASSUME NEW prog, NEW ds, NEW L, NEW F, NEW home, Nested(prog, ds, L, F, home),
         NEW w \in DOMAIN prog, NEW nm, NEW un, NEW sp, NamesOk(prog, ds, w, nm, un, sp),
         prog[w].op = "dec", Ren(ds, prog[w].id)
  PROVE  NamesOk(prog, ds, w + 1, [nm EXCEPT ![prog[w].id] = Append(@, un)], un + 1, sp)
<1>1. prog \in Seq(Events) /\ DOMAIN prog = 1..Len(prog) /\ un \in Nat
  BY DEF Nested, NamesOk
<1>2. PICK d, nm2 : d = prog[w].id /\ nm2 = [nm EXCEPT ![d] = Append(@, un)]
  OBVIOUS
<1>3. ~Met(prog, d, w) /\ d \in DOMAIN ds /\ \A c : IsDec(prog[w], c) <=> c = d
  BY <1>2, NotMetBefore
<1>4. \A c : Met(prog, c, w + 1) <=> Met(prog, c, w) \/ c = d
  BY <1>1, <1>3, MetNext
<1>5. nm[d] = <<ds[d].name>> /\ d \in DOMAIN nm
  BY <1>3 DEF NamesOk, NameOk
<1>6. /\ nm2[d] = Append(<<ds[d].name>>, un) /\ \A c \in DOMAIN nm : c # d => nm2[c] = nm[c]
      /\ DOMAIN nm2 = DOMAIN ds
  BY <1>2, <1>5 DEF NamesOk
<1>7. Len(nm2[d]) = 2 /\ nm2[d][2] = un
  BY <1>6
<1>8. \A c \in DOMAIN ds : NameOk(prog, ds, w + 1, nm2, un + 1, c)
  <2>1. ASSUME NEW c \in DOMAIN ds, c # d PROVE NameOk(prog, ds, w + 1, nm2, un + 1, c)
    <3>1. NameOk(prog, ds, w, nm, un, c) /\ nm2[c] = nm[c]
      BY <1>6, <2>1 DEF NamesOk
    <3>2. nm[c][2] \in Nat /\ nm[c][2] < un => nm[c][2] < un + 1
      BY <1>1
    <3> QED BY <1>4, <2>1, <3>1, <3>2 DEF NameOk
  <2>2. NameOk(prog, ds, w + 1, nm2, un + 1, d)
    <3>1. un < un + 1
      BY <1>1
    <3> QED BY <1>1, <1>2, <1>4, <1>7, <3>1 DEF NameOk
  <2> QED BY <2>1, <2>2
<1>9. Unique(prog, ds, w + 1, nm2)
  <2>1. ASSUME NEW c \in DOMAIN ds, c # d, Ren(ds, c), Met(prog, c, w + 1)
        PROVE  nm2[c][2] # un /\ nm2[c] = nm[c] /\ Met(prog, c, w)
    <3>1. Met(prog, c, w) /\ nm2[c] = nm[c] /\ NameOk(prog, ds, w, nm, un, c)
      BY <1>4, <1>6, <2>1 DEF NamesOk
    <3>2. nm[c][2] \in Nat /\ nm[c][2] < un
      BY <2>1, <3>1 DEF NameOk
    <3>3. nm[c][2] # un
      BY <1>1, <3>2
    <3> QED BY <3>1, <3>3
  <2> QED BY <1>7, <2>1 DEF NamesOk, Unique
<1>10. SpelledOk(prog, ds, w + 1, nm2, sp)
  <2>1. \A i \in UsesOf(prog) : i < w + 1 <=> i < w
    BY <1>1 DEF UsesOf
  <2>2. ASSUME NEW i \in UsesOf(prog), i < w, Met(prog, prog[i].id, i)
        PROVE  nm2[prog[i].id] = nm[prog[i].id]
    <3>1. Met(prog, prog[i].id, w)
      BY <1>1, <2>2 DEF Met, UsesOf
    <3>2. prog[i].id \in DOMAIN ds
      BY UseFacts DEF UsesOf
    <3> QED BY <1>3, <1>6, <3>1, <3>2 DEF NamesOk
  <2> QED BY <2>1, <2>2 DEF NamesOk, SpelledOk
<1>11. NamesOk(prog, ds, w + 1, nm2, un + 1, sp)
  <2>1. un + 1 \in Nat /\ DOMAIN nm2 = DOMAIN ds
    BY <1>1, <1>6
  <2> QED BY <1>8, <1>9, <1>10, <2>1 DEF NamesOk
<1> QED BY <1>2, <1>11

\* Once a program is renamed, what a use has is decided by where it is.
LEMMA NamedWhole ==
  ASSUME NEW prog, NEW ds, NEW L, NEW F, NEW home, Whole(prog, ds, L, F, home),
         NEW nm, NEW un, NEW sp, NamesOk(prog, ds, End(prog), nm, un, sp), NEW i \in UsesOf(prog)
  PROVE  /\ prog[i].id \in DOMAIN ds
         /\ sp[i] = nm[prog[i].id] <=> Met(prog, prog[i].id, i) \/ ~Ren(ds, prog[i].id)
<1>1. prog \in Seq(Events) /\ DOMAIN prog = 1..Len(prog) /\ Nested(prog, ds, L, F, home)
  BY DEF Whole, Nested
<1>2. PICK d : d = prog[i].id
  OBVIOUS
<1>3. d \in DOMAIN ds /\ i < End(prog)
  BY <1>1, <1>2, UseFacts DEF UsesOf, End
<1>4. Met(prog, d, End(prog)) /\ NameOk(prog, ds, End(prog), nm, un, d)
  BY <1>3 DEF Whole, Begun, NamesOk
<1>5. Len(<<ds[d].name>>) = 1
  OBVIOUS
<1>6. sp[i] = IF Ren(ds, d) /\ Met(prog, d, i) THEN nm[d] ELSE <<ds[d].name>>
  BY <1>2, <1>3 DEF NamesOk, SpelledOk
<1>7. nm[d] = <<ds[d].name>> <=> ~Ren(ds, d)
  BY <1>4, <1>5 DEF NameOk
<1> QED BY <1>2, <1>3, <1>6, <1>7

\* Where a declaration is.
LEMMA MetAt ==
  ASSUME NEW prog, NEW ds, NEW L, NEW F, NEW home, Whole(prog, ds, L, F, home),
         NEW d \in DOMAIN ds, NEW p,
         NEW at0, at0 = CHOOSE i \in DOMAIN prog : prog[i].op = "dec" /\ prog[i].id = d
  PROVE  at0 \in DOMAIN prog /\ IsDec(prog[at0], d) /\ (at0 < p <=> Met(prog, d, p))
<1>1. Nested(prog, ds, L, F, home)
  BY DEF Whole
<1>2. \E i \in DOMAIN prog : prog[i].op = "dec" /\ prog[i].id = d
  BY DEF Whole, Begun, Met, IsDec
<1>3. at0 \in DOMAIN prog /\ prog[at0].op = "dec" /\ prog[at0].id = d
  BY <1>2
<1>4. \A r \in DOMAIN prog : IsDec(prog[r], d) => r = at0
  BY <1>1, <1>3 DEF IsDec, Nested
<1> QED BY <1>3, <1>4 DEF Met, IsDec

\* A nonempty set of naturals that has a bound has a greatest element.
LEMMA GreatestOf ==
  ASSUME NEW n \in Nat, NEW T, T \subseteq 1..n, T # {}
  PROVE  \E x \in T : \A y \in T : y <= x
<1> DEFINE Gaps == {g \in Nat : n - g \in T}
           R == OpToRel(<, Nat)
<1>1. Gaps \subseteq Nat
  OBVIOUS
<1>2. Gaps # {}
  <2>1. PICK t \in T : TRUE
    OBVIOUS
  <2>2. n - t \in Nat /\ n - (n - t) = t
    BY <2>1
  <2> QED BY <2>1, <2>2
<1>3. PICK g \in Gaps : \A h \in Gaps : <<h, g>> \notin R
  <2> HIDE DEF Gaps
  <2> QED BY <1>1, <1>2, WFMin, NatLessThanWellFounded, Zenon
<1>4. g \in Nat /\ n - g \in T
  BY <1>3
<1>5. ASSUME NEW y \in T PROVE y <= n - g
  <2>1. y \in 1..n /\ n - y \in Nat /\ n - (n - y) = y
    OBVIOUS
  <2>2. n - y \in Gaps
    BY <2>1
  <2>3. n - y < g => <<n - y, g>> \in R
    BY <1>4, <2>1 DEF OpToRel
  <2>4. ~(n - y < g)
    <3> HIDE DEF Gaps, R
    <3> QED BY <1>3, <2>2, <2>3
  <2> QED BY <1>4, <2>1, <2>4
<1> QED BY <1>4, <1>5

\* What the desugared clone binds a use to: something in scope; a variable, to itself.
LEMMA BoundAgain ==
  ASSUME NEW prog, NEW ds, NEW L, NEW F, NEW home, Whole(prog, ds, L, F, home),
         NEW nm, NEW un, NEW sp, NamesOk(prog, ds, End(prog), nm, un, sp), NEW i \in UsesOf(prog),
         NEW D, D = {d \in prog[i].scope : nm[d] = sp[i]}, D # {},
         NEW r, r = CHOOSE d \in D : \A e \in D : e <= d
  PROVE  r \in prog[i].scope /\ (ds[prog[i].id].kind = "var" /\ Ren(ds, prog[i].id) => r = prog[i].id)
<1>1. /\ prog \in Seq(Events) /\ DOMAIN prog = 1..Len(prog) /\ Nested(prog, ds, L, F, home)
      /\ ds \in Seq(Decs) /\ DOMAIN ds = 1..Len(ds) /\ Len(ds) \in Nat
  BY DEF Whole, Nested
<1>2. WellUsed(prog, ds, home, i) /\ prog[i].id \in DOMAIN ds
  BY <1>1, UseFacts DEF UsesOf
<1>3. D \subseteq 1..Len(ds)
  BY <1>1, <1>2 DEF WellUsed
<1>4. PICK x \in D : \A y \in D : y <= x
  BY <1>1, <1>3, GreatestOf
<1>5. r \in D
  BY <1>4
<1>6. ASSUME ds[prog[i].id].kind = "var", Ren(ds, prog[i].id) PROVE r = prog[i].id
  <2>1. PICK v : v = prog[i].id
    OBVIOUS
  <2>2. Met(prog, v, i) /\ v \in DOMAIN ds /\ v \in prog[i].scope
    BY <1>2, <1>6, <2>1 DEF WellUsed
  <2>3. sp[i] = nm[v]
    BY <2>1, <2>2, NamedWhole
  <2>4. \A d \in DOMAIN ds : Met(prog, d, End(prog)) /\ NameOk(prog, ds, End(prog), nm, un, d)
    BY DEF Whole, Begun, NamesOk
  <2>5. Len(nm[v]) = 2 /\ nm[r] = nm[v] /\ r \in DOMAIN ds
    BY <1>1, <1>3, <1>5, <1>6, <2>1, <2>2, <2>3, <2>4 DEF NameOk
  <2>6. Ren(ds, r)
    <3>1. Len(<<ds[r].name>>) = 1
      OBVIOUS
    <3> QED BY <2>4, <2>5, <3>1 DEF NameOk
  <2>7. Unique(prog, ds, End(prog), nm)
    BY DEF NamesOk
  <2> QED BY <1>6, <2>1, <2>2, <2>4, <2>5, <2>6, <2>7 DEF Unique
<1> QED BY <1>5, <1>6

-----------------------------------------------------------------------------
(* The flags.                                                              *)

\* Where each event leads.
LEMMA ChunkFacts ==
  ASSUME NEW prog, NEW ds, NEW L, NEW F, NEW home, Nested(prog, ds, L, F, home),
         NEW p \in DOMAIN prog, prog[p].op = "chunk"
  PROVE  L[p + 1] = Append(L[p], p) /\ F[p + 1] = F[p] /\ Len(L[p]) = Len(F[p])
<1>1. Leads(prog, ds, L, F, home, p)
  BY DEF Nested
<1> QED BY <1>1 DEF Leads

\* Where the end of a chunk stands.
LEMMA EndChunkFacts ==
  ASSUME NEW prog, NEW ds, NEW L, NEW F, NEW home, Nested(prog, ds, L, F, home),
         NEW p \in DOMAIN prog, prog[p].op = "endchunk"
  PROVE  L[p + 1] = Front(L[p]) /\ F[p + 1] = F[p] /\ Len(L[p]) = Len(F[p]) + 1
<1>1. Leads(prog, ds, L, F, home, p)
  BY DEF Nested
<1> QED BY <1>1 DEF Leads

\* Where a function stands.
LEMMA FunFacts ==
  ASSUME NEW prog, NEW ds, NEW L, NEW F, NEW home, Nested(prog, ds, L, F, home),
         NEW p \in DOMAIN prog, prog[p].op = "dec", Fun(ds, prog[p].id)
  PROVE  L[p + 1] = L[p] /\ F[p + 1] = Append(F[p], prog[p].id) /\ Len(L[p]) = Len(F[p]) + 1
         /\ prog[p].id \in DOMAIN ds
<1>1. Leads(prog, ds, L, F, home, p)
  BY DEF Nested
<1> QED BY <1>1 DEF Leads, Fun

\* Where the end of a function stands.
LEMMA EndFacts ==
  ASSUME NEW prog, NEW ds, NEW L, NEW F, NEW home, Nested(prog, ds, L, F, home),
         NEW p \in DOMAIN prog, prog[p].op = "end"
  PROVE  L[p + 1] = L[p] /\ F[p + 1] = Front(F[p]) /\ Len(L[p]) = Len(F[p]) /\ Len(F[p]) > 0
<1>1. Leads(prog, ds, L, F, home, p)
  BY DEF Nested
<1> QED BY <1>1 DEF Leads

\* Where a type or a variable stands.
LEMMA DecFacts ==
  ASSUME NEW prog, NEW ds, NEW L, NEW F, NEW home, Nested(prog, ds, L, F, home),
         NEW p \in DOMAIN prog, prog[p].op = "dec", ~Fun(ds, prog[p].id)
  PROVE  /\ L[p + 1] = L[p] /\ F[p + 1] = F[p] /\ Len(F[p]) > 0 /\ prog[p].id \in DOMAIN ds
         /\ ds[prog[p].id].kind = "typ"
            \/ (ds[prog[p].id].kind = "var" /\ ds[prog[p].id].owner = F[p][Len(F[p])])
<1>1. Leads(prog, ds, L, F, home, p)
  BY DEF Nested
<1> QED BY <1>1 DEF Leads

\* What is being visited, at any point of a nested program.
LEMMA StandingIs ==
  ASSUME NEW prog, NEW ds, NEW L, NEW F, NEW home, Nested(prog, ds, L, F, home), NEW p \in 1..End(prog)
  PROVE  /\ L[p] \in Seq(Nat) /\ F[p] \in Seq(DOMAIN ds) /\ Len(L[p]) \in Nat /\ Len(F[p]) \in Nat
         /\ \A k \in 1..Len(L[p]) : Started(prog, L, F, p, k)
         /\ \A k \in 1..Len(F[p]) : Entered(prog, ds, L, F, home, p, k) /\ F[p][k] \in DOMAIN ds
         /\ Len(L[p]) = Len(F[p]) \/ Len(L[p]) = Len(F[p]) + 1
<1>1. Standing(prog, ds, L, F, home, p)
  BY DEF Nested, End
<1> QED BY <1>1 DEF Standing, Entered

\* No function is entered twice at a time.
LEMMA DistinctFunctions ==
  ASSUME NEW prog, NEW ds, NEW L, NEW F, NEW home, Nested(prog, ds, L, F, home), NEW p \in 1..End(prog),
         NEW j \in 1..Len(F[p]), NEW k \in 1..Len(F[p]), F[p][j] = F[p][k]
  PROVE  j = k
<1>1. /\ Len(L[p]) \in Nat /\ Len(F[p]) \in Nat
      /\ Len(L[p]) = Len(F[p]) \/ Len(L[p]) = Len(F[p]) + 1
  BY StandingIs
<1>2. j \in 1..Len(L[p]) /\ k \in 1..Len(L[p])
  BY <1>1
<1>3. L[p][j] = L[p][k]
  <2>1. Entered(prog, ds, L, F, home, p, j) /\ Entered(prog, ds, L, F, home, p, k)
    BY StandingIs
  <2> QED BY <2>1 DEF Entered
<1>4. Len(L[L[p][j]]) = j - 1 /\ Len(L[L[p][k]]) = k - 1
  <2>1. Started(prog, L, F, p, j) /\ Started(prog, L, F, p, k)
    BY <1>2, StandingIs
  <2> QED BY <2>1 DEF Started
<1>5. j \in Nat /\ k \in Nat /\ j - 1 = k - 1
  BY <1>1, <1>3, <1>4
<1> QED BY <1>5

Flagged(prog, ds, w) ==
  {v \in DOMAIN ds : /\ ds[v].kind = "var" /\ Met(prog, v, w) /\ ds[ds[v].owner].kind = "fun"
                     /\ \A i \in UsesOf(prog) : i < w /\ prog[i].id = v => prog[i].within # ds[v].owner}

\* The variables of a function met so far, and their names.
VarsOf(prog, ds, w, f) == {v \in DOMAIN ds : ds[v].kind = "var" /\ ds[v].owner = f /\ Met(prog, v, w)}
NamesOf(prog, ds, w, nm, f) == {nm[v] : v \in VarsOf(prog, ds, w, f)}

ScopesOk(prog, ds, F, w, nm, sm) ==
  /\ sm \in Seq(SUBSET {nm[v] : v \in DOMAIN ds}) /\ Len(sm) = Len(F[w]) + 1
  /\ \A k \in 1..Len(F[w]) : sm[k + 1] = NamesOf(prog, ds, w, nm, F[w][k])

InPrimitive(ds, F, w) == Len(F[w]) > 0 /\ ds[F[w][Len(F[w])]].kind = "prim"

\* A variable is met in its function, which is met before.
LEMMA OwnerBefore ==
  ASSUME NEW prog, NEW ds, NEW L, NEW F, NEW home, Nested(prog, ds, L, F, home),
         NEW p, NEW v \in DOMAIN ds, ds[v].kind = "var", Met(prog, v, p), p \in 1..End(prog)
  PROVE  Met(prog, ds[v].owner, p) /\ ds[v].owner \in DOMAIN ds /\ Fun(ds, ds[v].owner)
<1>1. PICK r \in DOMAIN prog : r < p /\ prog[r].op = "dec" /\ prog[r].id = v
  BY DEF Met, IsDec
<1>2. DOMAIN prog = 1..Len(prog) /\ Len(prog) \in Nat /\ r \in 1..End(prog)
  BY <1>1 DEF Nested, End
<1>3. Len(F[r]) > 0 /\ ds[v].owner = F[r][Len(F[r])]
  <2>1. ~Fun(ds, prog[r].id)
    BY <1>1 DEF Fun
  <2> QED BY <1>1, <2>1, DecFacts
<1>4. Len(F[r]) \in 1..Len(F[r])
  BY <1>2, <1>3, StandingIs
<1>5. Entered(prog, ds, L, F, home, r, Len(F[r]))
  BY <1>2, <1>4, StandingIs
<1>6. Met(prog, ds[v].owner, r) /\ ds[v].owner \in DOMAIN ds /\ Fun(ds, ds[v].owner)
  BY <1>3, <1>5 DEF Entered
<1>7. \A q \in DOMAIN prog : q < r => q < p
  BY <1>1, <1>2
<1> QED BY <1>6, <1>7 DEF Met

\* What Flagged and NamesOf say from one event to the next.
LEMMA NoVarMet ==
  ASSUME NEW prog, NEW ds, NEW w \in DOMAIN prog, prog \in Seq(Events), NEW nm,
         ~(prog[w].op = "dec" /\ ds[prog[w].id].kind = "var"),
         ~(prog[w].op = "use" /\ ds[prog[w].id].kind = "var")
  PROVE  /\ Flagged(prog, ds, w + 1) = Flagged(prog, ds, w)
         /\ \A f : NamesOf(prog, ds, w + 1, nm, f) = NamesOf(prog, ds, w, nm, f)
<1>1. DOMAIN prog = 1..Len(prog)
  OBVIOUS
<1>2. \A v \in DOMAIN ds : ds[v].kind = "var" => (Met(prog, v, w + 1) <=> Met(prog, v, w))
  BY MetNext DEF IsDec
<1>3. \A i \in UsesOf(prog) : i < w + 1 <=> (i < w \/ i = w)
  BY <1>1 DEF UsesOf
<1>4. Flagged(prog, ds, w + 1) = Flagged(prog, ds, w)
  BY <1>2, <1>3 DEF Flagged, UsesOf
<1>5. \A f : VarsOf(prog, ds, w + 1, f) = VarsOf(prog, ds, w, f)
  BY <1>2 DEF VarsOf
<1> QED BY <1>4, <1>5 DEF NamesOf

FlagsOk(prog, ds, F, w, nm, esc, sm, inp) ==
  /\ esc = Flagged(prog, ds, w)
  /\ ScopesOk(prog, ds, F, w, nm, sm)
  /\ inp \in BOOLEAN /\ (inp <=> InPrimitive(ds, F, w))

\* The scope outside all functions is empty.
LEMMA FlagsAtFirst ==
  ASSUME NEW prog, NEW ds, NEW L, NEW F, NEW home, Nested(prog, ds, L, F, home), NEW nm
  PROVE  FlagsOk(prog, ds, F, 1, nm, {}, <<{}>>, FALSE)
<1>1. prog \in Seq(Events) /\ F[1] = <<>>
  BY DEF Nested
<1>2. \A c : ~Met(prog, c, 1)
  BY <1>1, NoneMet
<1>3. Flagged(prog, ds, 1) = {}
  BY <1>2 DEF Flagged
<1>4. ScopesOk(prog, ds, F, 1, nm, <<{}>>)
  <2>1. {} \in SUBSET {nm[v] : v \in DOMAIN ds}
    OBVIOUS
  <2>2. <<{}>> \in Seq(SUBSET {nm[v] : v \in DOMAIN ds}) /\ Len(<<{}>>) = 1
    BY <2>1
  <2>3. Len(F[1]) = 0
    BY <1>1
  <2> QED BY <2>2, <2>3 DEF ScopesOk
<1>5. ~InPrimitive(ds, F, 1)
  BY <1>1 DEF InPrimitive
<1> QED BY <1>3, <1>4, <1>5 DEF FlagsOk

\* Nothing changes where no function begins or ends and no variable is met.
LEMMA OtherFlagged ==
  ASSUME NEW prog, NEW ds, NEW L, NEW F, NEW home, Nested(prog, ds, L, F, home),
         NEW w \in DOMAIN prog, NEW nm, NEW esc, NEW sm, NEW inp,
         FlagsOk(prog, ds, F, w, nm, esc, sm, inp),
         F[w + 1] = F[w],
         ~(prog[w].op = "dec" /\ ds[prog[w].id].kind = "var"),
         ~(prog[w].op = "use" /\ ds[prog[w].id].kind = "var")
  PROVE  FlagsOk(prog, ds, F, w + 1, nm, esc, sm, inp)
<1>1. prog \in Seq(Events)
  BY DEF Nested
<1>2. Flagged(prog, ds, w + 1) = Flagged(prog, ds, w)
  BY <1>1, NoVarMet
<1>3. \A f : NamesOf(prog, ds, w + 1, nm, f) = NamesOf(prog, ds, w, nm, f)
  BY <1>1, NoVarMet
<1>4. ScopesOk(prog, ds, F, w + 1, nm, sm)
  BY <1>3 DEF FlagsOk, ScopesOk
<1>5. InPrimitive(ds, F, w + 1) <=> InPrimitive(ds, F, w)
  BY DEF InPrimitive
<1> QED BY <1>2, <1>4, <1>5 DEF FlagsOk

\* A function opens a scope, in which it has declared nothing.
LEMMA FunFlagged ==
  ASSUME NEW prog, NEW ds, NEW L, NEW F, NEW home, Nested(prog, ds, L, F, home),
         NEW w \in DOMAIN prog, NEW nm, NEW esc, NEW sm, NEW inp,
         FlagsOk(prog, ds, F, w, nm, esc, sm, inp),
         prog[w].op = "dec", Fun(ds, prog[w].id)
  PROVE  FlagsOk(prog, ds, F, w + 1, nm, esc, Append(sm, {}), inp \/ ds[prog[w].id].kind = "prim")
<1>1. prog \in Seq(Events) /\ DOMAIN prog = 1..Len(prog) /\ w \in 1..End(prog)
  BY DEF Nested, End
<1>2. PICK f : f = prog[w].id
  OBVIOUS
<1>3. ds[f].kind # "var" /\ ds[f].kind \in {"fun", "prim"}
  BY <1>2 DEF Fun
<1>4. Flagged(prog, ds, w + 1) = Flagged(prog, ds, w)
  BY <1>1, <1>2, <1>3, NoVarMet
<1>5. \A g : NamesOf(prog, ds, w + 1, nm, g) = NamesOf(prog, ds, w, nm, g)
  BY <1>1, <1>2, <1>3, NoVarMet
<1>6. /\ F[w + 1] = Append(F[w], f) /\ Len(L[w]) = Len(F[w]) + 1 /\ f \in DOMAIN ds
  BY <1>2, FunFacts
<1>7. /\ F[w] \in Seq(DOMAIN ds) /\ Len(F[w]) \in Nat
      /\ \A k \in 1..Len(F[w]) : Entered(prog, ds, L, F, home, w, k)
  BY <1>1, StandingIs
<1>8. /\ Len(F[w + 1]) = Len(F[w]) + 1 /\ F[w + 1][Len(F[w]) + 1] = f
      /\ \A k \in 1..Len(F[w]) : F[w + 1][k] = F[w][k]
  BY <1>6, <1>7, Appends
<1>9. ~InPrimitive(ds, F, w)
  <2>1. SUFFICES ASSUME Len(F[w]) > 0 PROVE ds[F[w][Len(F[w])]].kind = "fun"
    BY DEF InPrimitive
  <2>2. Len(F[w]) \in 1..Len(F[w]) /\ Len(F[w]) < Len(L[w])
    BY <1>6, <1>7, <2>1
  <2>3. Entered(prog, ds, L, F, home, w, Len(F[w]))
    BY <1>7, <2>2
  <2> QED BY <2>2, <2>3 DEF Entered
<1>10. InPrimitive(ds, F, w + 1) <=> ds[f].kind = "prim"
  BY <1>7, <1>8 DEF InPrimitive
<1>11. NamesOf(prog, ds, w, nm, f) = {}
  <2>1. SUFFICES ASSUME NEW v \in VarsOf(prog, ds, w, f) PROVE FALSE
    BY DEF NamesOf
  <2>2. v \in DOMAIN ds /\ ds[v].kind = "var" /\ ds[v].owner = f /\ Met(prog, v, w)
    BY <2>1 DEF VarsOf
  <2>3. Met(prog, f, w)
    BY <1>1, <2>2, OwnerBefore
  <2> QED BY <1>2, <2>3, NotMetBefore
<1>12. ScopesOk(prog, ds, F, w + 1, nm, Append(sm, {}))
  <2>1. /\ sm \in Seq(SUBSET {nm[v] : v \in DOMAIN ds}) /\ Len(sm) = Len(F[w]) + 1
        /\ \A k \in 1..Len(F[w]) : sm[k + 1] = NamesOf(prog, ds, w, nm, F[w][k])
    BY DEF FlagsOk, ScopesOk
  <2>2. {} \in SUBSET {nm[v] : v \in DOMAIN ds}
    OBVIOUS
  <2>3. /\ Append(sm, {}) \in Seq(SUBSET {nm[v] : v \in DOMAIN ds})
        /\ Len(Append(sm, {})) = Len(sm) + 1 /\ Append(sm, {})[Len(sm) + 1] = {}
        /\ \A k \in 1..Len(sm) : Append(sm, {})[k] = sm[k]
    BY <2>1, <2>2, Appends
  <2>4. ASSUME NEW k \in 1..Len(F[w])
        PROVE  Append(sm, {})[k + 1] = NamesOf(prog, ds, w + 1, nm, F[w + 1][k])
    <3>1. k + 1 \in 1..Len(sm)
      BY <1>7, <2>1
    <3> QED BY <1>5, <1>8, <2>1, <2>3, <3>1
  <2>5. Append(sm, {})[(Len(F[w]) + 1) + 1] = NamesOf(prog, ds, w + 1, nm, F[w + 1][Len(F[w]) + 1])
    BY <1>5, <1>8, <1>11, <2>1, <2>3
  <2>6. \A k \in 1..(Len(F[w]) + 1) : k \in 1..Len(F[w]) \/ k = Len(F[w]) + 1
    BY <1>7
  <2>7. \A k \in 1..(Len(F[w]) + 1) :
          Append(sm, {})[k + 1] = NamesOf(prog, ds, w + 1, nm, F[w + 1][k])
    BY <2>4, <2>5, <2>6
  <2> QED BY <1>8, <2>1, <2>3, <2>7 DEF ScopesOk
<1>13. esc = Flagged(prog, ds, w) /\ inp \in BOOLEAN /\ ~inp
  BY <1>9 DEF FlagsOk
<1> QED BY <1>2, <1>4, <1>10, <1>12, <1>13 DEF FlagsOk

\* The scope of the function around it is the last again.
LEMMA EndFlagged ==
  ASSUME NEW prog, NEW ds, NEW L, NEW F, NEW home, Nested(prog, ds, L, F, home),
         NEW w \in DOMAIN prog, NEW nm, NEW esc, NEW sm, NEW inp,
         FlagsOk(prog, ds, F, w, nm, esc, sm, inp), prog[w].op = "end"
  PROVE  FlagsOk(prog, ds, F, w + 1, nm, esc, Front(sm), FALSE)
<1>1. prog \in Seq(Events) /\ DOMAIN prog = 1..Len(prog) /\ w \in 1..End(prog)
  BY DEF Nested, End
<1>4. Flagged(prog, ds, w + 1) = Flagged(prog, ds, w)
  BY <1>1, NoVarMet
<1>5. \A g : NamesOf(prog, ds, w + 1, nm, g) = NamesOf(prog, ds, w, nm, g)
  BY <1>1, NoVarMet
<1>6. /\ F[w + 1] = Front(F[w]) /\ Len(L[w]) = Len(F[w]) /\ Len(F[w]) > 0
  BY EndFacts
<1>7. /\ F[w] \in Seq(DOMAIN ds) /\ Len(F[w]) \in Nat
      /\ \A k \in 1..Len(F[w]) : Entered(prog, ds, L, F, home, w, k)
  BY <1>1, StandingIs
<1>8. /\ Len(F[w + 1]) = Len(F[w]) - 1
      /\ \A k \in 1..(Len(F[w]) - 1) : F[w + 1][k] = F[w][k]
  BY <1>6, <1>7, Fronts
<1>9. ~InPrimitive(ds, F, w + 1)
  <2>0. PICK k : k = Len(F[w]) - 1
    OBVIOUS
  <2>1. SUFFICES ASSUME k > 0 PROVE ds[F[w][k]].kind = "fun"
    <3>1. k > 0 => k \in 1..(Len(F[w]) - 1)
      BY <1>7, <2>0
    <3> QED BY <1>8, <2>0, <3>1 DEF InPrimitive
  <2>2. k \in 1..Len(F[w]) /\ k < Len(L[w])
    BY <1>6, <1>7, <2>0, <2>1
  <2>3. Entered(prog, ds, L, F, home, w, k)
    BY <1>7, <2>2
  <2> QED BY <2>2, <2>3 DEF Entered
<1>12. ScopesOk(prog, ds, F, w + 1, nm, Front(sm))
  <2>1. /\ sm \in Seq(SUBSET {nm[v] : v \in DOMAIN ds}) /\ Len(sm) = Len(F[w]) + 1
        /\ \A k \in 1..Len(F[w]) : sm[k + 1] = NamesOf(prog, ds, w, nm, F[w][k])
    BY DEF FlagsOk, ScopesOk
  <2>2. Len(sm) > 0
    BY <1>7, <2>1
  <2>3. /\ Front(sm) \in Seq(SUBSET {nm[v] : v \in DOMAIN ds})
        /\ Len(Front(sm)) = Len(sm) - 1
        /\ \A k \in 1..(Len(sm) - 1) : Front(sm)[k] = sm[k]
    BY <2>1, <2>2, Fronts
  <2>4. ASSUME NEW k \in 1..(Len(F[w]) - 1)
        PROVE  Front(sm)[k + 1] = NamesOf(prog, ds, w + 1, nm, F[w + 1][k])
    <3>1. k + 1 \in 1..(Len(sm) - 1) /\ k \in 1..Len(F[w])
      BY <1>7, <2>1
    <3> QED BY <1>5, <1>8, <2>1, <2>3, <3>1
  <2>5. Len(Front(sm)) = Len(F[w + 1]) + 1
    BY <1>7, <1>8, <2>1, <2>3
  <2> QED BY <1>8, <2>3, <2>4, <2>5 DEF ScopesOk
<1>13. esc = Flagged(prog, ds, w)
  BY DEF FlagsOk
<1> QED BY <1>4, <1>9, <1>12, <1>13 DEF FlagsOk

\* A variable is flagged, unless it is a formal of a primitive.
LEMMA VarFlagged ==
  ASSUME NEW prog, NEW ds, NEW L, NEW F, NEW home, Nested(prog, ds, L, F, home),
         NEW w \in DOMAIN prog, NEW nm, NEW esc, NEW sm, NEW inp,
         FlagsOk(prog, ds, F, w, nm, esc, sm, inp),
         prog[w].op = "dec", ds[prog[w].id].kind = "var"
  PROVE  FlagsOk(prog, ds, F, w + 1, nm,
                 IF inp THEN esc \ {prog[w].id} ELSE esc \union {prog[w].id},
                 [sm EXCEPT ![Len(sm)] = @ \union {nm[prog[w].id]}], inp)
<1>1. prog \in Seq(Events) /\ DOMAIN prog = 1..Len(prog) /\ w \in 1..End(prog)
  BY DEF Nested, End
<1>2. PICK v : v = prog[w].id
  OBVIOUS
<1>a. ~Fun(ds, prog[w].id) /\ ds[prog[w].id].kind # "typ"
  BY DEF Fun
<1>3. /\ F[w + 1] = F[w] /\ Len(F[w]) > 0 /\ v \in DOMAIN ds /\ ds[v].kind = "var"
      /\ ds[v].owner = F[w][Len(F[w])]
  BY <1>2, <1>a, DecFacts
<1>4. ~Met(prog, v, w) /\ \A c : IsDec(prog[w], c) <=> c = v
  BY <1>2, NotMetBefore
<1>5. \A c : Met(prog, c, w + 1) <=> Met(prog, c, w) \/ c = v
  BY <1>1, <1>4, MetNext
<1>6. /\ F[w] \in Seq(DOMAIN ds) /\ Len(F[w]) \in Nat /\ Len(F[w]) \in 1..Len(F[w])
      /\ \A k \in 1..Len(F[w]) : Entered(prog, ds, L, F, home, w, k)
  BY <1>1, <1>3, StandingIs
<1>7. Fun(ds, ds[v].owner)
  BY <1>3, <1>6 DEF Entered
<1>8. inp <=> ds[ds[v].owner].kind = "prim"
  BY <1>3 DEF FlagsOk, InPrimitive
<1>9. \A i \in UsesOf(prog) : i < w + 1 <=> i < w
  <2>1. \A i \in UsesOf(prog) : i # w
    BY DEF UsesOf
  <2> QED BY <1>1, <2>1 DEF UsesOf
<1>10. ASSUME NEW i \in UsesOf(prog), i < w PROVE prog[i].id # v
  <2>1. SUFFICES ASSUME prog[i].id = v PROVE FALSE
    OBVIOUS
  <2>2. i \in DOMAIN prog /\ prog[i].op = "use"
    BY DEF UsesOf
  <2>3. WellUsed(prog, ds, home, i)
    BY <2>2, UseFacts
  <2>4. Met(prog, v, i)
    BY <1>3, <2>1, <2>3 DEF WellUsed
  <2> QED BY <1>1, <1>4, <1>10, <2>2, <2>4 DEF Met
<1>11. ASSUME NEW c \in DOMAIN ds, c # v PROVE c \in Flagged(prog, ds, w + 1) <=> c \in Flagged(prog, ds, w)
  BY <1>5, <1>9, <1>11 DEF Flagged
<1>12. v \notin Flagged(prog, ds, w)
  BY <1>4 DEF Flagged
<1>13. v \in Flagged(prog, ds, w + 1) <=> ds[ds[v].owner].kind = "fun"
  BY <1>3, <1>5, <1>9, <1>10 DEF Flagged
<1>14. Flagged(prog, ds, w + 1) =
         IF inp THEN Flagged(prog, ds, w) \ {v} ELSE Flagged(prog, ds, w) \union {v}
  <2>1. \A x : x \in Flagged(prog, ds, w + 1) \/ x \in Flagged(prog, ds, w) => x \in DOMAIN ds
    BY DEF Flagged
  <2>2. inp <=> ~(ds[ds[v].owner].kind = "fun")
    BY <1>7, <1>8 DEF Fun
  <2>3. CASE inp
    BY <1>11, <1>12, <1>13, <2>1, <2>2, <2>3
  <2>4. CASE ~inp
    BY <1>11, <1>12, <1>13, <2>1, <2>2, <2>4
  <2> QED BY <2>3, <2>4
<1>15. VarsOf(prog, ds, w + 1, ds[v].owner) = VarsOf(prog, ds, w, ds[v].owner) \union {v}
  BY <1>3, <1>5 DEF VarsOf
<1>16. \A f : f # ds[v].owner => VarsOf(prog, ds, w + 1, f) = VarsOf(prog, ds, w, f)
  BY <1>5 DEF VarsOf
<1>17. NamesOf(prog, ds, w + 1, nm, ds[v].owner) = NamesOf(prog, ds, w, nm, ds[v].owner) \union {nm[v]}
  BY <1>15 DEF NamesOf
<1>18. \A f : f # ds[v].owner => NamesOf(prog, ds, w + 1, nm, f) = NamesOf(prog, ds, w, nm, f)
  BY <1>16 DEF NamesOf
<1>19. PICK sm2 : sm2 = [sm EXCEPT ![Len(sm)] = @ \union {nm[v]}]
  OBVIOUS
<1>20. ScopesOk(prog, ds, F, w + 1, nm, sm2)
  <2>0. PICK T : T = SUBSET {nm[x] : x \in DOMAIN ds}
    OBVIOUS
  <2>1. /\ sm \in Seq(T) /\ Len(sm) = Len(F[w]) + 1 /\ DOMAIN sm = 1..Len(sm)
        /\ \A k \in 1..Len(F[w]) : sm[k + 1] = NamesOf(prog, ds, w, nm, F[w][k])
    BY <2>0 DEF FlagsOk, ScopesOk
  <2>2. Len(sm) \in DOMAIN sm /\ sm[Len(sm)] \in T
    BY <1>6, <2>1
  <2>3. sm[Len(sm)] \union {nm[v]} \in T
    BY <1>3, <2>0, <2>2
  <2>4. sm2 \in Seq(T) /\ Len(sm2) = Len(sm)
    BY <1>19, <2>1, <2>2, <2>3
  <2>5. ASSUME NEW k \in 1..Len(F[w]), k # Len(F[w])
        PROVE  sm2[k + 1] = NamesOf(prog, ds, w + 1, nm, F[w + 1][k])
    <3>1. F[w][k] # ds[v].owner
      <4>1. F[w][k] # F[w][Len(F[w])]
        BY <1>1, <1>6, <2>5, DistinctFunctions
      <4> QED BY <1>3, <4>1
    <3>2. k + 1 \in DOMAIN sm /\ k + 1 # Len(sm)
      BY <1>6, <2>1, <2>5
    <3>3. sm2[k + 1] = sm[k + 1]
      BY <1>19, <3>2
    <3> QED BY <1>3, <1>18, <2>1, <3>1, <3>3
  <2>6. sm2[Len(F[w]) + 1] = NamesOf(prog, ds, w + 1, nm, F[w + 1][Len(F[w])])
    <3>1. sm2[Len(F[w]) + 1] = sm[Len(F[w]) + 1] \union {nm[v]}
      BY <1>19, <2>1, <2>2
    <3> QED BY <1>3, <1>6, <1>17, <2>1, <3>1
  <2>7. \A k \in 1..Len(F[w + 1]) : sm2[k + 1] = NamesOf(prog, ds, w + 1, nm, F[w + 1][k])
    BY <1>3, <2>5, <2>6
  <2> QED BY <1>3, <2>0, <2>1, <2>4, <2>7 DEF ScopesOk
<1>21. InPrimitive(ds, F, w + 1) <=> InPrimitive(ds, F, w)
  BY <1>3 DEF InPrimitive
<1>22. esc = Flagged(prog, ds, w) /\ inp \in BOOLEAN /\ (inp <=> InPrimitive(ds, F, w))
  BY DEF FlagsOk
<1> QED BY <1>2, <1>14, <1>19, <1>20, <1>21, <1>22 DEF FlagsOk

\* No variable is named after _main.
\* A name is found in the innermost scope if the variable is of this function.
LEMMA FoundAtHome ==
  ASSUME NEW prog, NEW ds, NEW L, NEW F, NEW home, Whole(prog, ds, L, F, home),
         NEW nm, NEW un, NEW sp, NamesOk(prog, ds, End(prog), nm, un, sp),
         NEW w \in DOMAIN prog, NEW sm, ScopesOk(prog, ds, F, w, nm, sm),
         prog[w].op = "use", ds[prog[w].id].kind = "var"
  PROVE  sp[w] \in Last(sm) <=> prog[w].within = ds[prog[w].id].owner
<1>1. /\ prog \in Seq(Events) /\ DOMAIN prog = 1..Len(prog) /\ w \in 1..End(prog)
      /\ Nested(prog, ds, L, F, home)
  BY DEF Whole, Nested, End
<1>2. PICK v : v = prog[w].id
  OBVIOUS
<1>3. /\ WellUsed(prog, ds, home, w) /\ v \in DOMAIN ds /\ Len(F[w]) > 0
      /\ prog[w].within = F[w][Len(F[w])] /\ w \in UsesOf(prog)
  BY <1>1, <1>2, UseFacts DEF UsesOf
<1>4. Met(prog, v, w) /\ ds[v].kind = "var" /\ Ren(ds, v)
  BY <1>2, <1>3 DEF WellUsed, Ren, Fun
<1>5. sp[w] = nm[v]
  BY <1>2, <1>3, <1>4, NamedWhole
<1>6. /\ sm \in Seq(SUBSET {nm[x] : x \in DOMAIN ds}) /\ Len(sm) = Len(F[w]) + 1
      /\ \A k \in 1..Len(F[w]) : sm[k + 1] = NamesOf(prog, ds, w, nm, F[w][k])
  BY DEF ScopesOk
<1>7. Len(F[w]) \in 1..Len(F[w])
  BY <1>1, <1>3, StandingIs
<1>8. Last(sm) = NamesOf(prog, ds, w, nm, prog[w].within)
  BY <1>3, <1>6, <1>7 DEF Last
<1>9. ASSUME nm[v] \in NamesOf(prog, ds, w, nm, prog[w].within) PROVE prog[w].within = ds[v].owner
  <2>1. PICK u \in VarsOf(prog, ds, w, prog[w].within) : nm[u] = nm[v]
    BY <1>9 DEF NamesOf
  <2>2. u \in DOMAIN ds /\ ds[u].kind = "var" /\ ds[u].owner = prog[w].within /\ Met(prog, u, w)
    BY <2>1 DEF VarsOf
  <2>3. Ren(ds, u)
    BY <2>2 DEF Ren, Fun
  <2>4. Met(prog, u, End(prog)) /\ Met(prog, v, End(prog))
    BY <1>3, <2>2 DEF Whole, Begun
  <2>5. Unique(prog, ds, End(prog), nm)
    BY DEF NamesOk
  <2>6. u = v
    BY <1>3, <1>4, <2>1, <2>2, <2>3, <2>4, <2>5 DEF Unique
  <2> QED BY <2>2, <2>6
<1>10. ASSUME prog[w].within = ds[v].owner PROVE nm[v] \in NamesOf(prog, ds, w, nm, prog[w].within)
  BY <1>3, <1>4, <1>10 DEF NamesOf, VarsOf
<1> QED BY <1>2, <1>5, <1>8, <1>9, <1>10

\* The use of a variable finds its name in the last scope exactly when it is at home.
LEMMA UseFlagged ==
  ASSUME NEW prog, NEW ds, NEW L, NEW F, NEW home, Whole(prog, ds, L, F, home),
         NEW nm, NEW un, NEW sp, NamesOk(prog, ds, End(prog), nm, un, sp),
         NEW w \in DOMAIN prog, NEW esc, NEW sm, NEW inp,
         FlagsOk(prog, ds, F, w, nm, esc, sm, inp),
         prog[w].op = "use", ds[prog[w].id].kind = "var"
  PROVE  FlagsOk(prog, ds, F, w + 1, nm, IF sp[w] \in Last(sm) THEN esc \ {prog[w].id} ELSE esc, sm, inp)
<1>1. /\ prog \in Seq(Events) /\ DOMAIN prog = 1..Len(prog) /\ Nested(prog, ds, L, F, home)
  BY DEF Whole, Nested
<1>2. PICK v : v = prog[w].id
  OBVIOUS
<1>3. v \in DOMAIN ds /\ F[w + 1] = F[w] /\ w \in UsesOf(prog)
  BY <1>1, <1>2, UseFacts DEF UsesOf
<1>4. ScopesOk(prog, ds, F, w, nm, sm) /\ esc = Flagged(prog, ds, w)
      /\ inp \in BOOLEAN /\ (inp <=> InPrimitive(ds, F, w))
  BY DEF FlagsOk
<1>5. sp[w] \in Last(sm) <=> prog[w].within = ds[v].owner
  BY <1>2, <1>4, FoundAtHome
<1>6. \A c : Met(prog, c, w + 1) <=> Met(prog, c, w)
  BY <1>1, MetNext DEF IsDec
<1>7. \A i \in UsesOf(prog) : i < w + 1 <=> (i < w \/ i = w)
  BY <1>1 DEF UsesOf
<1>8. ASSUME NEW c \in DOMAIN ds
      PROVE  c \in Flagged(prog, ds, w + 1) <=>
               c \in Flagged(prog, ds, w) /\ (v = c => prog[w].within # ds[c].owner)
  BY <1>2, <1>3, <1>6, <1>7 DEF Flagged
<1>9. \A x : x \in Flagged(prog, ds, w + 1) \/ x \in Flagged(prog, ds, w) => x \in DOMAIN ds
  BY DEF Flagged
<1>10. Flagged(prog, ds, w + 1) =
         IF sp[w] \in Last(sm) THEN Flagged(prog, ds, w) \ {v} ELSE Flagged(prog, ds, w)
  <2>1. CASE sp[w] \in Last(sm)
    BY <1>3, <1>5, <1>8, <1>9, <2>1
  <2>2. CASE ~(sp[w] \in Last(sm))
    BY <1>3, <1>5, <1>8, <1>9, <2>2
  <2> QED BY <2>1, <2>2
<1>11. \A f : NamesOf(prog, ds, w + 1, nm, f) = NamesOf(prog, ds, w, nm, f)
  BY <1>6 DEF NamesOf, VarsOf
<1>12. ScopesOk(prog, ds, F, w + 1, nm, sm)
  BY <1>3, <1>4, <1>11 DEF ScopesOk
<1>13. InPrimitive(ds, F, w + 1) <=> InPrimitive(ds, F, w)
  BY <1>3 DEF InPrimitive
<1> QED BY <1>2, <1>4, <1>10, <1>12, <1>13 DEF FlagsOk

-----------------------------------------------------------------------------
(* The clone.                                                              *)

\* Every use is bound again, in its scope, and one of a variable to it.
Rebinds(prog, ds, prog2) ==
  /\ prog2 \in Seq(Events) /\ DOMAIN prog2 = DOMAIN prog
  /\ \A i \in DOMAIN prog :
       IF prog[i].op = "use"
         THEN /\ prog2[i].op = "use" /\ prog2[i].within = prog[i].within
              /\ prog2[i].scope = prog[i].scope /\ prog2[i].id \in prog[i].scope
              /\ ds[prog[i].id].kind = "var" => prog2[i].id = prog[i].id
         ELSE prog2[i] = prog[i]

\* What a use is bound to keeps its name space.
LEMMA SpaceKept ==
  ASSUME NEW prog, NEW ds, NEW L, NEW F, NEW home, Nested(prog, ds, L, F, home),
         NEW prog2, Rebinds(prog, ds, prog2), NEW i \in DOMAIN prog, prog[i].op = "use"
  PROVE  /\ InSpace(ds, prog2[i].id) = InSpace(ds, prog[i].id) /\ prog2[i].id \in DOMAIN ds
         /\ ds[prog2[i].id].kind = "var" <=> ds[prog[i].id].kind = "var"
         /\ ds[prog2[i].id].kind = "var" => prog2[i].id = prog[i].id
<1>1. WellUsed(prog, ds, home, i) /\ prog[i].id \in DOMAIN ds
  BY UseFacts
<1>2. prog2[i].id \in prog[i].scope
  BY DEF Rebinds
<1>3. InSpace(ds, prog2[i].id) = InSpace(ds, prog[i].id) /\ prog2[i].id \in DOMAIN ds
  BY <1>1, <1>2 DEF WellUsed
<1>4. ds[prog2[i].id].kind = "var" <=> ds[prog[i].id].kind = "var"
  BY <1>3 DEF InSpace
<1> QED BY <1>3, <1>4 DEF Rebinds

\* The clone nests as the original does.
LEMMA WholeRebound ==
  ASSUME NEW prog, NEW ds, NEW L, NEW F, NEW home, Whole(prog, ds, L, F, home),
         NEW prog2, Rebinds(prog, ds, prog2)
  PROVE  Whole(prog2, ds, L, F, home)
<1>1. /\ prog \in Seq(Events) /\ DOMAIN prog = 1..Len(prog) /\ Nested(prog, ds, L, F, home)
      /\ ds \in Seq(Decs) /\ Len(prog) \in Nat
  BY DEF Whole, Nested
<1>2. prog2 \in Seq(Events) /\ DOMAIN prog2 = DOMAIN prog /\ Len(prog2) = Len(prog)
  BY <1>1 DEF Rebinds
<1>3. \A i \in DOMAIN prog : prog2[i].op = prog[i].op
  BY DEF Rebinds
<1>4. \A i \in DOMAIN prog : prog[i].op # "use" => prog2[i] = prog[i]
  BY DEF Rebinds
<1>5. \A c, p : Met(prog2, c, p) <=> Met(prog, c, p)
  BY <1>2, <1>3, <1>4 DEF Met, IsDec
<1>6. ASSUME NEW p \in 1..(Len(prog) + 1) PROVE Standing(prog2, ds, L, F, home, p)
  <2>1. Standing(prog, ds, L, F, home, p)
    BY <1>1 DEF Nested
  <2>2. ASSUME NEW k \in 1..Len(L[p]) PROVE Started(prog2, L, F, p, k)
    <3>1. Started(prog, L, F, p, k)
      BY <2>1 DEF Standing
    <3> QED BY <1>2, <1>3, <3>1 DEF Started
  <2>3. ASSUME NEW k \in 1..Len(F[p]) PROVE Entered(prog2, ds, L, F, home, p, k)
    <3>1. Entered(prog, ds, L, F, home, p, k)
      BY <2>1 DEF Standing
    <3> QED BY <1>5, <3>1 DEF Entered
  <2> QED BY <2>1, <2>2, <2>3 DEF Standing
<1>7. ASSUME NEW p \in DOMAIN prog, prog[p].op = "use" PROVE WellUsed(prog2, ds, home, p)
  <2>1. WellUsed(prog, ds, home, p)
    BY <1>1, <1>7, UseFacts
  <2>2. /\ prog2[p].scope = prog[p].scope /\ prog2[p].id \in prog[p].scope
    BY <1>7 DEF Rebinds
  <2>3. InSpace(ds, prog2[p].id) = InSpace(ds, prog[p].id)
    BY <1>1, <1>7, SpaceKept
  <2>4. ds[prog2[p].id].kind = "var" => prog2[p].id = prog[p].id
    BY <1>1, <1>7, SpaceKept
  <2> QED BY <1>5, <2>1, <2>2, <2>3, <2>4 DEF WellUsed
<1>8. ASSUME NEW p \in DOMAIN prog PROVE Leads(prog2, ds, L, F, home, p)
  <2>1. Leads(prog, ds, L, F, home, p)
    BY <1>1 DEF Nested
  <2>2. CASE prog[p].op # "use"
    <3>1. prog2[p] = prog[p]
      BY <1>4, <2>2
    <3> QED BY <2>1, <2>2, <3>1 DEF Leads
  <2>3. CASE prog[p].op = "use"
    <3>1. WellUsed(prog2, ds, home, p)
      BY <1>7, <2>3
    <3>2. prog2[p].op = "use" /\ prog2[p].within = prog[p].within
      BY <2>3 DEF Rebinds
    <3>3. prog2[p].id \in DOMAIN ds
      BY <1>1, <2>3, SpaceKept
    <3> QED BY <2>1, <2>3, <3>1, <3>2, <3>3 DEF Leads
  <2> QED BY <2>2, <2>3
<1>9. \A p, q \in DOMAIN prog2 :
        prog2[p].op = "dec" /\ prog2[q].op = "dec" /\ prog2[p].id = prog2[q].id => p = q
  <2>1. \A p \in DOMAIN prog : prog2[p].op = "dec" => prog2[p] = prog[p]
    BY <1>3, <1>4
  <2> QED BY <1>1, <1>2, <2>1 DEF Nested
<1>10. Nested(prog2, ds, L, F, home)
  BY <1>1, <1>2, <1>6, <1>8, <1>9 DEF Nested
<1> QED BY <1>2, <1>5, <1>10 DEF Whole, Begun, End

\* The uses of variables are those of the original, and so is what is to be flagged.
LEMMA FlagsKept ==
  ASSUME NEW prog, NEW ds, NEW L, NEW F, NEW home, Nested(prog, ds, L, F, home),
         NEW prog2, Rebinds(prog, ds, prog2)
  PROVE  Flagged(prog2, ds, End(prog2)) = Flagged(prog, ds, End(prog))
<1>1. DOMAIN prog2 = DOMAIN prog /\ UsesOf(prog2) = UsesOf(prog) /\ End(prog2) = End(prog)
  BY DEF Rebinds, UsesOf, End, Nested
<1>5. \A c, p : Met(prog2, c, p) <=> Met(prog, c, p)
  <2>1. \A i \in DOMAIN prog : IF prog[i].op # "use" THEN prog2[i] = prog[i] ELSE prog2[i].op = "use"
    BY DEF Rebinds
  <2> QED BY <1>1, <2>1 DEF Met, IsDec
<1>2. ASSUME NEW v \in DOMAIN ds, ds[v].kind = "var", NEW i \in UsesOf(prog)
      PROVE  /\ prog2[i].id = v <=> prog[i].id = v
             /\ prog2[i].within = prog[i].within
  <2>1. i \in DOMAIN prog /\ prog[i].op = "use"
    BY DEF UsesOf
  <2>2. /\ ds[prog2[i].id].kind = "var" <=> ds[prog[i].id].kind = "var"
        /\ ds[prog2[i].id].kind = "var" => prog2[i].id = prog[i].id
    BY <2>1, SpaceKept
  <2> QED BY <1>2, <2>1, <2>2 DEF Rebinds
<1> QED BY <1>1, <1>2, <1>5 DEF Flagged

-----------------------------------------------------------------------------
(* The collector.                                                          *)

CallsOf(prog, ds) == {<<prog[i].within, prog[i].id>> : i \in {i \in UsesOf(prog) : Fun(ds, prog[i].id)}}
ClosedUnder(prog, ds, S) == \A c \in CallsOf(prog, ds) : c[1] \in S => c[2] \in S
CalleesOf(prog, ds, f) ==
  {g \in DOMAIN ds : \A S \in SUBSET DOMAIN ds : f \in S /\ ClosedUnder(prog, ds, S) => g \in S}

\* v is used by f or by what it may call.
UsedBelow(prog, ds, f, v) ==
  \E i \in UsesOf(prog) : prog[i].id = v /\ prog[i].within \in CalleesOf(prog, ds, f)

\* The loops being gone round: whether the loop k is to be gone round again.
LoopsOk(L, w, dm, lp) ==
  /\ lp \in Seq([start : Nat, did_modify : BOOLEAN]) /\ dm \in BOOLEAN
  /\ Len(lp) = Len(L[w]) /\ \A k \in 1..Len(L[w]) : lp[k].start = L[w][k]
GoesRound(dm, lp, k) == IF k = Len(lp) THEN dm ELSE lp[k + 1].did_modify
\* A loop that began before i is to be gone round again.
Again(L, w, dm, lp, i) == \E k \in 1..Len(L[w]) : L[w][k] < i /\ GoesRound(dm, lp, k)

\* No function is given a variable without need.
Sound(prog, ds, esc, E) == \A f \in DOMAIN ds : \A v \in E[f] : v \in esc /\ UsedBelow(prog, ds, f, v)
\* Up to w, every use has what it needs, a call but for the loops to come.
VarsGiven(prog, ds, esc, w, E) ==
  \A i \in UsesOf(prog) :
    i < w /\ ds[prog[i].id].kind = "var" /\ prog[i].id \in esc => prog[i].id \in E[prog[i].within]
CallsGiven(prog, ds, L, w, E, dm, lp) ==
  \A i \in UsesOf(prog) :
    i < w /\ Fun(ds, prog[i].id) => E[prog[i].id] \subseteq E[prog[i].within] \/ Again(L, w, dm, lp, i)

CollectOk(prog, ds, L, F, esc, w, E, dm, lp, st) ==
  /\ DOMAIN E = DOMAIN ds /\ st = F[w] /\ LoopsOk(L, w, dm, lp)
  /\ Sound(prog, ds, esc, E)
  /\ VarsGiven(prog, ds, esc, w, E)
  /\ CallsGiven(prog, ds, L, w, E, dm, lp)

\* A function is among those it may call.
LEMMA CalleeOfItself ==
  ASSUME NEW prog, NEW ds, NEW f \in DOMAIN ds
  PROVE  f \in CalleesOf(prog, ds, f)
BY DEF CalleesOf

\* So are those that a function it calls may call.
LEMMA CalleesOfACallee ==
  ASSUME NEW prog, NEW ds, NEW i \in UsesOf(prog), Fun(ds, prog[i].id),
         NEW g \in CalleesOf(prog, ds, prog[i].id)
  PROVE  g \in CalleesOf(prog, ds, prog[i].within)
<1>1. <<prog[i].within, prog[i].id>> \in CallsOf(prog, ds)
  BY DEF CallsOf
<1>2. ASSUME NEW S \in SUBSET DOMAIN ds, prog[i].within \in S, ClosedUnder(prog, ds, S)
      PROVE  g \in S
  <2>1. prog[i].id \in S
    BY <1>1, <1>2 DEF ClosedUnder
  <2> QED BY <1>2, <2>1 DEF CalleesOf
<1> QED BY <1>2 DEF CalleesOf

\* Nothing has been collected before the first event.
LEMMA CollectAtFirst ==
  ASSUME NEW prog, NEW ds, NEW L, NEW F, NEW home, Nested(prog, ds, L, F, home), NEW esc
  PROVE  CollectOk(prog, ds, L, F, esc, 1, [d \in DOMAIN ds |-> {}], FALSE, <<>>, <<>>)
<1>1. L[1] = <<>> /\ F[1] = <<>> /\ prog \in Seq(Events) /\ DOMAIN prog = 1..Len(prog)
  BY DEF Nested
<1>2. \A i \in UsesOf(prog) : ~(i < 1)
  BY <1>1 DEF UsesOf
<1>3. LoopsOk(L, 1, FALSE, <<>>)
  <2>1. <<>> \in Seq([start : Nat, did_modify : BOOLEAN]) /\ Len(<<>>) = 0
    OBVIOUS
  <2> QED BY <1>1, <2>1 DEF LoopsOk
<1>4. Sound(prog, ds, esc, [d \in DOMAIN ds |-> {}])
  BY DEF Sound
<1> QED BY <1>1, <1>2, <1>3, <1>4 DEF CollectOk, VarsGiven, CallsGiven

\* A step that gives no variable and forgets no loop to be gone round.
LEMMA OtherCollected ==
  ASSUME NEW prog, NEW ds, NEW L, NEW F, NEW home, Nested(prog, ds, L, F, home),
         NEW esc, NEW w \in DOMAIN prog, NEW E, NEW dm, NEW lp, NEW st,
         CollectOk(prog, ds, L, F, esc, w, E, dm, lp, st),
         NEW dm2, NEW lp2, NEW st2, LoopsOk(L, w + 1, dm2, lp2), st2 = F[w + 1],
         \A i : Again(L, w, dm, lp, i) => Again(L, w + 1, dm2, lp2, i),
         prog[w].op # "use" \/ ds[prog[w].id].kind = "typ"
  PROVE  CollectOk(prog, ds, L, F, esc, w + 1, E, dm2, lp2, st2)
<1>1. prog \in Seq(Events) /\ DOMAIN prog = 1..Len(prog)
  BY DEF Nested
<1>2. \A i \in UsesOf(prog) : i < w + 1 <=> (i < w \/ i = w)
  BY <1>1 DEF UsesOf
<1>3. \A i \in UsesOf(prog) : i = w => ~(ds[prog[i].id].kind = "var") /\ ~Fun(ds, prog[i].id)
  BY DEF UsesOf, Fun
<1>4. VarsGiven(prog, ds, esc, w + 1, E)
  BY <1>2, <1>3 DEF CollectOk, VarsGiven
<1>5. CallsGiven(prog, ds, L, w + 1, E, dm2, lp2)
  BY <1>2, <1>3 DEF CollectOk, CallsGiven
<1> QED BY <1>4, <1>5 DEF CollectOk

\* Where the chunks do not change, the loops do not.
LEMMA SameLoops ==
  ASSUME NEW L, NEW w, NEW dm, NEW lp, LoopsOk(L, w, dm, lp), L[w + 1] = L[w]
  PROVE  LoopsOk(L, w + 1, dm, lp) /\ \A i : Again(L, w, dm, lp, i) => Again(L, w + 1, dm, lp, i)
BY DEF LoopsOk, Again

\* Events that use nothing and bound no chunk collect nothing.
LEMMA SameCollected ==
  ASSUME NEW prog, NEW ds, NEW L, NEW F, NEW home, Nested(prog, ds, L, F, home),
         NEW esc, NEW w \in DOMAIN prog, NEW E, NEW dm, NEW lp, NEW st,
         CollectOk(prog, ds, L, F, esc, w, E, dm, lp, st),
         L[w + 1] = L[w], NEW st2, st2 = F[w + 1],
         prog[w].op # "use" \/ ds[prog[w].id].kind = "typ"
  PROVE  CollectOk(prog, ds, L, F, esc, w + 1, E, dm, lp, st2)
<1>1. LoopsOk(L, w, dm, lp)
  BY DEF CollectOk
<1>2. LoopsOk(L, w + 1, dm, lp) /\ \A i : Again(L, w, dm, lp, i) => Again(L, w + 1, dm, lp, i)
  BY <1>1, SameLoops
<1> QED BY <1>2, OtherCollected

\* A chunk saves the flag of the one around it.
LEMMA ChunkCollected ==
  ASSUME NEW prog, NEW ds, NEW L, NEW F, NEW home, Nested(prog, ds, L, F, home),
         NEW esc, NEW w \in DOMAIN prog, NEW E, NEW dm, NEW lp, NEW st,
         CollectOk(prog, ds, L, F, esc, w, E, dm, lp, st), prog[w].op = "chunk"
  PROVE  CollectOk(prog, ds, L, F, esc, w + 1, E, FALSE,
                   Append(lp, [start |-> w, did_modify |-> dm]), st)
<1>1. prog \in Seq(Events) /\ DOMAIN prog = 1..Len(prog) /\ w \in Nat /\ w \in 1..End(prog)
  BY DEF Nested, End
<1>2. L[w + 1] = Append(L[w], w) /\ F[w + 1] = F[w]
  BY ChunkFacts
<1>3. L[w] \in Seq(Nat) /\ Len(L[w]) \in Nat
  BY <1>1, StandingIs
<1>4. /\ Len(L[w + 1]) = Len(L[w]) + 1 /\ L[w + 1][Len(L[w]) + 1] = w
      /\ \A k \in 1..Len(L[w]) : L[w + 1][k] = L[w][k]
  BY <1>1, <1>2, <1>3, Appends
<1>5. PICK R : R = [start : Nat, did_modify : BOOLEAN]
  OBVIOUS
<1>6. /\ lp \in Seq(R) /\ dm \in BOOLEAN /\ Len(lp) = Len(L[w])
      /\ \A k \in 1..Len(L[w]) : lp[k].start = L[w][k]
  BY <1>5 DEF CollectOk, LoopsOk
<1>7. PICK lp2, l : lp2 = Append(lp, [start |-> w, did_modify |-> dm]) /\ l = Len(L[w])
  OBVIOUS
<1>8. [start |-> w, did_modify |-> dm] \in R
  BY <1>1, <1>5, <1>6
<1>9. /\ lp2 \in Seq(R) /\ Len(lp2) = l + 1 /\ lp2[l + 1] = [start |-> w, did_modify |-> dm]
      /\ \A k \in 1..l : lp2[k] = lp[k]
  BY <1>6, <1>7, <1>8, Appends
<1>10. \A k \in 1..(l + 1) : k \in 1..l \/ k = l + 1
  BY <1>3, <1>7
<1>11. LoopsOk(L, w + 1, FALSE, lp2)
  <2>1. \A k \in 1..l : lp2[k].start = L[w + 1][k]
    BY <1>4, <1>6, <1>7, <1>9
  <2>2. lp2[l + 1].start = L[w + 1][l + 1]
    BY <1>4, <1>7, <1>9
  <2> QED BY <1>4, <1>5, <1>7, <1>9, <1>10, <2>1, <2>2 DEF LoopsOk
<1>12. ASSUME NEW i, Again(L, w, dm, lp, i) PROVE Again(L, w + 1, FALSE, lp2, i)
  <2>1. PICK k \in 1..l : L[w][k] < i /\ GoesRound(dm, lp, k)
    BY <1>7, <1>12 DEF Again
  <2>2. L[w + 1][k] < i /\ k \in 1..Len(L[w + 1]) /\ k # Len(lp2)
    BY <1>3, <1>4, <1>7, <1>9, <2>1
  <2>3. lp2[k + 1].did_modify
    <3>1. CASE k = l
      BY <1>6, <1>7, <1>9, <2>1, <3>1 DEF GoesRound
    <3>2. CASE k # l
      <4>1. k + 1 \in 1..l
        BY <1>3, <1>7, <2>1, <3>2
      <4> QED BY <1>6, <1>7, <1>9, <2>1, <3>2, <4>1 DEF GoesRound
    <3> QED BY <3>1, <3>2
  <2> QED BY <2>2, <2>3 DEF Again, GoesRound
<1>13. st = F[w + 1]
  BY <1>2 DEF CollectOk
<1>14. CollectOk(prog, ds, L, F, esc, w + 1, E, FALSE, lp2, st)
  <2>1. prog[w].op # "use"
    OBVIOUS
  <2> QED BY <1>11, <1>12, <1>13, <2>1, OtherCollected
<1> QED BY <1>7, <1>14

\* A chunk whose last round added nothing is served; the flag around it is back.
LEMMA EndChunkCollected ==
  ASSUME NEW prog, NEW ds, NEW L, NEW F, NEW home, Nested(prog, ds, L, F, home),
         NEW esc, NEW w \in DOMAIN prog, NEW E, NEW dm, NEW lp, NEW st,
         CollectOk(prog, ds, L, F, esc, w, E, dm, lp, st), prog[w].op = "endchunk", ~dm
  PROVE  CollectOk(prog, ds, L, F, esc, w + 1, E, Last(lp).did_modify, Front(lp), st)
<1>1. prog \in Seq(Events) /\ DOMAIN prog = 1..Len(prog) /\ w \in Nat /\ w \in 1..End(prog)
  BY DEF Nested, End
<1>2. L[w + 1] = Front(L[w]) /\ F[w + 1] = F[w] /\ Len(L[w]) = Len(F[w]) + 1
  BY EndChunkFacts
<1>3. L[w] \in Seq(Nat) /\ Len(L[w]) \in Nat /\ Len(F[w]) \in Nat
  BY <1>1, StandingIs
<1>a. Len(L[w]) > 0
  BY <1>2, <1>3
<1>4. /\ Len(L[w + 1]) = Len(L[w]) - 1
      /\ \A k \in 1..(Len(L[w]) - 1) : L[w + 1][k] = L[w][k]
  BY <1>2, <1>3, <1>a, Fronts
<1>5. PICK R : R = [start : Nat, did_modify : BOOLEAN]
  OBVIOUS
<1>6. /\ lp \in Seq(R) /\ dm \in BOOLEAN /\ Len(lp) = Len(L[w])
      /\ \A k \in 1..Len(L[w]) : lp[k].start = L[w][k]
  BY <1>5 DEF CollectOk, LoopsOk
<1>7. PICK lp2, dm2, l : lp2 = Front(lp) /\ dm2 = Last(lp).did_modify /\ l = Len(L[w])
  OBVIOUS
<1>b. l \in Nat /\ l > 0 /\ Len(lp) = l /\ Len(lp) > 0
  BY <1>3, <1>6, <1>7, <1>a
<1>9. /\ lp2 \in Seq(R) /\ Len(lp2) = l - 1 /\ \A k \in 1..(l - 1) : lp2[k] = lp[k]
  BY <1>6, <1>7, <1>b, Fronts
<1>10. dm2 = lp[l].did_modify /\ dm2 \in BOOLEAN
  <2>1. l \in 1..Len(lp) /\ lp[l] \in R
    BY <1>6, <1>b
  <2> QED BY <1>5, <1>7, <1>b, <2>1 DEF Last
<1>11. LoopsOk(L, w + 1, dm2, lp2)
  <2>1. \A k \in 1..(l - 1) : k \in 1..l
    BY <1>b
  <2>2. \A k \in 1..(l - 1) : lp2[k].start = L[w + 1][k]
    BY <1>4, <1>6, <1>7, <1>9, <2>1
  <2> QED BY <1>4, <1>5, <1>7, <1>9, <1>10, <2>2 DEF LoopsOk
<1>12. ASSUME NEW i, Again(L, w, dm, lp, i) PROVE Again(L, w + 1, dm2, lp2, i)
  <2>1. PICK k \in 1..l : L[w][k] < i /\ GoesRound(dm, lp, k)
    BY <1>7, <1>12 DEF Again
  <2>2. k # l
    BY <1>b, <2>1 DEF GoesRound
  <2>3. k \in 1..(l - 1) /\ lp[k + 1].did_modify
    BY <1>b, <2>1, <2>2 DEF GoesRound
  <2>4. L[w + 1][k] < i /\ k \in 1..Len(L[w + 1])
    BY <1>4, <1>7, <2>1, <2>3
  <2>5. GoesRound(dm2, lp2, k)
    <3>1. CASE k = l - 1
      <4>1. k + 1 = l
        BY <1>b, <3>1
      <4> QED BY <1>9, <1>10, <2>3, <3>1, <4>1 DEF GoesRound
    <3>2. CASE k # l - 1
      <4>1. k + 1 \in 1..(l - 1)
        BY <1>b, <2>3, <3>2
      <4> QED BY <1>9, <2>3, <3>2, <4>1 DEF GoesRound
    <3> QED BY <3>1, <3>2
  <2> QED BY <2>4, <2>5 DEF Again
<1>13. st = F[w + 1]
  BY <1>2 DEF CollectOk
<1>14. CollectOk(prog, ds, L, F, esc, w + 1, E, dm2, lp2, st)
  <2>1. prog[w].op # "use"
    OBVIOUS
  <2> QED BY <1>11, <1>12, <1>13, <2>1, OtherCollected
<1> QED BY <1>7, <1>14

\* The chunk is gone round again: what it knew of the events before it is kept.
LEMMA AgainCollected ==
  ASSUME NEW prog, NEW ds, NEW L, NEW F, NEW home, Nested(prog, ds, L, F, home),
         NEW esc, NEW w \in DOMAIN prog, NEW E, NEW dm, NEW lp, NEW st,
         CollectOk(prog, ds, L, F, esc, w, E, dm, lp, st), prog[w].op = "endchunk", dm
  PROVE  /\ CollectOk(prog, ds, L, F, esc, Last(lp).start + 1, E, FALSE, lp, st)
         /\ Last(lp).start \in DOMAIN prog
<1>1. prog \in Seq(Events) /\ DOMAIN prog = 1..Len(prog) /\ w \in Nat /\ w \in 1..End(prog) /\ Len(prog) \in Nat
  BY DEF Nested, End
<1>2. Len(L[w]) = Len(F[w]) + 1
  BY EndChunkFacts
<1>3. /\ L[w] \in Seq(Nat) /\ Len(L[w]) \in Nat /\ Len(F[w]) \in Nat /\ F[w] \in Seq(DOMAIN ds)
  BY <1>1, StandingIs
<1>4. PICK s, l : s = L[w][l] /\ l = Len(L[w])
  OBVIOUS
<1>5. l \in 1..Len(L[w]) /\ l \in Nat /\ l > 0 /\ l - 1 = Len(F[w])
  BY <1>2, <1>3, <1>4
<1>6. Started(prog, L, F, w, l)
  BY <1>1, <1>5, StandingIs
<1>7. /\ s \in DOMAIN prog /\ s < w /\ prog[s].op = "chunk" /\ Len(L[s]) = l - 1 /\ Len(F[s]) = l - 1
      /\ \A j \in 1..(l - 1) : L[s][j] = L[w][j] /\ F[s][j] = F[w][j]
  BY <1>4, <1>6 DEF Started
<1>8. s \in 1..End(prog) /\ s \in Nat
  BY <1>1, <1>7 DEF End
<1>9. /\ L[s] \in Seq(Nat) /\ F[s] \in Seq(DOMAIN ds)
  BY <1>8, StandingIs
<1>10. L[s + 1] = Append(L[s], s) /\ F[s + 1] = F[s]
  BY <1>7, ChunkFacts
<1>11. F[s] = F[w]
  <2>1. Len(F[s]) = Len(F[w]) /\ \A j \in 1..Len(F[s]) : F[s][j] = F[w][j]
    BY <1>5, <1>7
  <2> QED BY <1>3, <1>9, <2>1, SeqEqual
<1>12. /\ Len(L[s + 1]) = Len(L[s]) + 1 /\ L[s + 1][Len(L[s]) + 1] = s
       /\ \A k \in 1..Len(L[s]) : L[s + 1][k] = L[s][k]
  BY <1>8, <1>9, <1>10, Appends
<1>13. Len(L[s + 1]) = l /\ L[s + 1][l] = s /\ \A k \in 1..(l - 1) : L[s + 1][k] = L[w][k]
  BY <1>5, <1>7, <1>12
<1>14. /\ lp \in Seq([start : Nat, did_modify : BOOLEAN]) /\ dm \in BOOLEAN /\ Len(lp) = l
       /\ \A k \in 1..l : lp[k].start = L[w][k]
  BY <1>4 DEF CollectOk, LoopsOk
<1>15. Last(lp).start = s
  BY <1>4, <1>5, <1>14 DEF Last
<1>16. \A k \in 1..l : k \in 1..(l - 1) \/ k = l
  BY <1>5
<1>17. LoopsOk(L, s + 1, FALSE, lp)
  BY <1>4, <1>13, <1>14, <1>16 DEF LoopsOk
<1>18. \A i \in UsesOf(prog) : i < s + 1 => i < s /\ i < w
  BY <1>1, <1>7, <1>8 DEF UsesOf
<1>19. VarsGiven(prog, ds, esc, s + 1, E)
  BY <1>18 DEF CollectOk, VarsGiven
<1>20. ASSUME NEW i \in UsesOf(prog), i < s + 1, Again(L, w, dm, lp, i)
       PROVE  Again(L, s + 1, FALSE, lp, i)
  <2>1. PICK k \in 1..l : L[w][k] < i /\ GoesRound(dm, lp, k)
    BY <1>4, <1>20 DEF Again
  <2>2. i < s /\ i \in Nat
    BY <1>1, <1>18, <1>20 DEF UsesOf
  <2>3. k # l
    BY <1>4, <1>8, <2>1, <2>2
  <2>4. k \in 1..(l - 1)
    BY <1>16, <2>3
  <2>5. GoesRound(FALSE, lp, k)
    BY <1>14, <2>1, <2>3 DEF GoesRound
  <2> QED BY <1>13, <2>1, <2>4, <2>5 DEF Again
<1>21. CallsGiven(prog, ds, L, s + 1, E, FALSE, lp)
  BY <1>18, <1>20 DEF CollectOk, CallsGiven
<1>22. st = F[s + 1]
  BY <1>10, <1>11 DEF CollectOk
<1>23. CollectOk(prog, ds, L, F, esc, s + 1, E, FALSE, lp, st)
  BY <1>17, <1>19, <1>21, <1>22 DEF CollectOk
<1> QED BY <1>7, <1>15, <1>23

\* The function being visited is given what a use needs.
LEMMA GivenMore ==
  ASSUME NEW prog, NEW ds, NEW L, NEW F, NEW home, Nested(prog, ds, L, F, home),
         NEW esc, NEW w \in DOMAIN prog, NEW E, NEW dm, NEW lp, NEW st,
         CollectOk(prog, ds, L, F, esc, w, E, dm, lp, st), prog[w].op = "use",
         NEW vs, \A v \in vs : v \in esc /\ UsedBelow(prog, ds, prog[w].within, v),
         ds[prog[w].id].kind = "var" /\ prog[w].id \in esc => prog[w].id \in vs,
         Fun(ds, prog[w].id) => vs = E[prog[w].id]
  PROVE  CollectOk(prog, ds, L, F, esc, w + 1,
                   [E EXCEPT ![Last(st)] = @ \union vs], dm \/ ~(vs \subseteq E[Last(st)]), lp, st)
<1>1. prog \in Seq(Events) /\ DOMAIN prog = 1..Len(prog) /\ w \in Nat /\ w \in 1..End(prog)
  BY DEF Nested, End
<1>2. /\ WellUsed(prog, ds, home, w) /\ prog[w].id \in DOMAIN ds
      /\ Len(F[w]) > 0 /\ Len(L[w]) = Len(F[w])
      /\ prog[w].within = F[w][Len(F[w])] /\ ds[prog[w].within].kind = "fun"
      /\ L[w + 1] = L[w] /\ F[w + 1] = F[w]
  BY UseFacts
<1>3. /\ L[w] \in Seq(Nat) /\ Len(L[w]) \in Nat /\ Len(F[w]) \in 1..Len(F[w])
      /\ Entered(prog, ds, L, F, home, w, Len(F[w]))
  BY <1>1, <1>2, StandingIs
<1>4. PICK f, l : f = prog[w].within /\ l = Len(L[w])
  OBVIOUS
<1>5. f \in DOMAIN ds /\ home[f] = L[w][l] /\ l \in 1..Len(L[w])
  BY <1>2, <1>3, <1>4 DEF Entered
<1>6. /\ DOMAIN E = DOMAIN ds /\ st = F[w] /\ LoopsOk(L, w, dm, lp) /\ Sound(prog, ds, esc, E)
      /\ VarsGiven(prog, ds, esc, w, E) /\ CallsGiven(prog, ds, L, w, E, dm, lp)
  BY DEF CollectOk
<1>7. Last(st) = f
  BY <1>2, <1>4, <1>6 DEF Last
<1>8. PICK E2, dm2 : E2 = [E EXCEPT ![f] = @ \union vs] /\ dm2 = (dm \/ ~(vs \subseteq E[f]))
  OBVIOUS
<1>9. DOMAIN E2 = DOMAIN ds /\ E2[f] = E[f] \union vs /\ \A d \in DOMAIN ds : d # f => E2[d] = E[d]
  BY <1>5, <1>6, <1>8
<1>10. Sound(prog, ds, esc, E2)
  BY <1>4, <1>5, <1>6, <1>9 DEF Sound
<1>11. \A i \in UsesOf(prog) : i < w + 1 <=> (i < w \/ i = w)
  BY <1>1 DEF UsesOf
<1>12. \A i \in UsesOf(prog) : prog[i].within \in DOMAIN ds /\ prog[i].id \in DOMAIN ds
                               /\ WellUsed(prog, ds, home, i)
  <2>1. ASSUME NEW i \in UsesOf(prog)
        PROVE  prog[i].within \in DOMAIN ds /\ prog[i].id \in DOMAIN ds /\ WellUsed(prog, ds, home, i)
    <3>1. i \in DOMAIN prog /\ prog[i].op = "use" /\ i \in 1..End(prog)
      BY <1>1 DEF UsesOf, End
    <3>2. /\ WellUsed(prog, ds, home, i) /\ prog[i].id \in DOMAIN ds
          /\ Len(F[i]) > 0 /\ prog[i].within = F[i][Len(F[i])]
      BY <3>1, UseFacts
    <3>3. Len(F[i]) \in 1..Len(F[i])
      BY <3>1, <3>2, StandingIs
    <3>4. F[i][Len(F[i])] \in DOMAIN ds
      BY <3>1, <3>3, StandingIs
    <3> QED BY <3>2, <3>4
  <2> QED BY <2>1
<1>13. VarsGiven(prog, ds, esc, w + 1, E2)
  <2>1. ASSUME NEW i \in UsesOf(prog), i < w + 1, ds[prog[i].id].kind = "var", prog[i].id \in esc
        PROVE  prog[i].id \in E2[prog[i].within]
    <3>1. CASE i = w
      BY <1>4, <1>9, <2>1, <3>1
    <3>2. CASE i < w
      <4>1. prog[i].id \in E[prog[i].within]
        BY <1>6, <2>1, <3>2 DEF VarsGiven
      <4> QED BY <1>9, <1>12, <4>1
    <3> QED BY <1>11, <2>1, <3>1, <3>2
  <2> QED BY <2>1 DEF VarsGiven
<1>14. LoopsOk(L, w + 1, dm2, lp)
  BY <1>2, <1>6, <1>8 DEF LoopsOk
<1>15. ASSUME NEW i, Again(L, w, dm, lp, i) PROVE Again(L, w + 1, dm2, lp, i)
  <2>1. PICK k \in 1..Len(L[w]) : L[w][k] < i /\ GoesRound(dm, lp, k)
    BY <1>15 DEF Again
  <2>2. GoesRound(dm2, lp, k)
    BY <1>8, <2>1 DEF GoesRound
  <2> QED BY <1>2, <2>1, <2>2 DEF Again
<1>16. CallsGiven(prog, ds, L, w + 1, E2, dm2, lp)
  <2>1. ASSUME NEW i \in UsesOf(prog), i < w + 1, Fun(ds, prog[i].id)
        PROVE  E2[prog[i].id] \subseteq E2[prog[i].within] \/ Again(L, w + 1, dm2, lp, i)
    <3>1. CASE i = w
      BY <1>2, <1>4, <1>9, <2>1, <3>1
    <3>2. CASE i < w /\ Again(L, w, dm, lp, i)
      BY <1>15, <3>2
    <3>3. CASE i < w /\ E[prog[i].id] \subseteq E[prog[i].within] /\ (prog[i].id # f \/ vs \subseteq E[f])
      <4>1. E2[prog[i].id] = E[prog[i].id]
        BY <1>9, <1>12, <3>3
      <4>2. E[prog[i].within] \subseteq E2[prog[i].within]
        BY <1>9, <1>12
      <4> QED BY <3>3, <4>1, <4>2
    <3>4. CASE prog[i].id = f /\ ~(vs \subseteq E[f])
      <4>1. home[f] < i
        BY <1>12, <3>4 DEF WellUsed
      <4>2. GoesRound(dm2, lp, l)
        BY <1>4, <1>6, <1>8, <3>4 DEF GoesRound, LoopsOk
      <4> QED BY <1>2, <1>5, <4>1, <4>2 DEF Again
    <3> QED BY <1>6, <1>11, <2>1, <3>1, <3>2, <3>3, <3>4 DEF CallsGiven
  <2> QED BY <2>1 DEF CallsGiven
<1>17. CollectOk(prog, ds, L, F, esc, w + 1, E2, dm2, lp, st)
  BY <1>2, <1>6, <1>9, <1>10, <1>13, <1>14, <1>16 DEF CollectOk
<1> QED BY <1>7, <1>8, <1>17

\* The caller is given what the callee has.
LEMMA CallCollected ==
  ASSUME NEW prog, NEW ds, NEW L, NEW F, NEW home, Nested(prog, ds, L, F, home),
         NEW esc, NEW w \in DOMAIN prog, NEW E, NEW dm, NEW lp, NEW st,
         CollectOk(prog, ds, L, F, esc, w, E, dm, lp, st), prog[w].op = "use", Fun(ds, prog[w].id)
  PROVE  CollectOk(prog, ds, L, F, esc, w + 1, [E EXCEPT ![Last(st)] = @ \union E[prog[w].id]],
                   dm \/ ~(E[prog[w].id] \subseteq E[Last(st)]), lp, st)
<1>1. PICK vs : vs = E[prog[w].id]
  OBVIOUS
<1>2. w \in UsesOf(prog) /\ prog[w].id \in DOMAIN ds
  BY UseFacts DEF UsesOf
<1>3. Sound(prog, ds, esc, E)
  BY DEF CollectOk
<1>4. ASSUME NEW v \in vs PROVE v \in esc /\ UsedBelow(prog, ds, prog[w].within, v)
  <2>1. v \in esc /\ UsedBelow(prog, ds, prog[w].id, v)
    BY <1>1, <1>2, <1>3, <1>4 DEF Sound
  <2>2. PICK i \in UsesOf(prog) : prog[i].id = v /\ prog[i].within \in CalleesOf(prog, ds, prog[w].id)
    BY <2>1 DEF UsedBelow
  <2>3. prog[i].within \in CalleesOf(prog, ds, prog[w].within)
    BY <1>2, <2>2, CalleesOfACallee
  <2> QED BY <2>1, <2>2, <2>3 DEF UsedBelow
<1>5. ~(ds[prog[w].id].kind = "var")
  BY DEF Fun
<1>6. CollectOk(prog, ds, L, F, esc, w + 1, [E EXCEPT ![Last(st)] = @ \union vs],
                dm \/ ~(vs \subseteq E[Last(st)]), lp, st)
  BY <1>1, <1>4, <1>5, GivenMore
<1> QED BY <1>1, <1>6

\* The function is given the variable, when it is flagged.
LEMMA VarCollected ==
  ASSUME NEW prog, NEW ds, NEW L, NEW F, NEW home, Nested(prog, ds, L, F, home),
         NEW esc, NEW w \in DOMAIN prog, NEW E, NEW dm, NEW lp, NEW st,
         CollectOk(prog, ds, L, F, esc, w, E, dm, lp, st),
         prog[w].op = "use", ds[prog[w].id].kind = "var"
  PROVE  CollectOk(prog, ds, L, F, esc, w + 1, [E EXCEPT ![Last(st)] = @ \union ({prog[w].id} \intersect esc)],
                   dm \/ ~(({prog[w].id} \intersect esc) \subseteq E[Last(st)]), lp, st)
<1>1. PICK vs : vs = {prog[w].id} \intersect esc
  OBVIOUS
<1>2. w \in UsesOf(prog) /\ Len(F[w]) > 0 /\ prog[w].within = F[w][Len(F[w])]
  BY UseFacts DEF UsesOf
<1>3. w \in 1..End(prog)
  BY DEF End, Nested
<1>4. Len(F[w]) \in 1..Len(F[w])
  BY <1>2, <1>3, StandingIs
<1>5. prog[w].within \in DOMAIN ds
  BY <1>2, <1>3, <1>4, StandingIs
<1>6. UsedBelow(prog, ds, prog[w].within, prog[w].id)
  BY <1>2, <1>5, CalleeOfItself DEF UsedBelow
<1>7. \A v \in vs : v \in esc /\ UsedBelow(prog, ds, prog[w].within, v)
  BY <1>1, <1>6
<1>8. /\ ds[prog[w].id].kind = "var" /\ prog[w].id \in esc => prog[w].id \in vs
      /\ ~Fun(ds, prog[w].id)
  BY <1>1 DEF Fun
<1>9. CollectOk(prog, ds, L, F, esc, w + 1, [E EXCEPT ![Last(st)] = @ \union vs],
                dm \/ ~(vs \subseteq E[Last(st)]), lp, st)
  BY <1>7, <1>8, GivenMore
<1> QED BY <1>1, <1>9

\* At the end of the program no loop is left to go round.
LEMMA CollectedAtLast ==
  ASSUME NEW prog, NEW ds, NEW L, NEW F, NEW home, Whole(prog, ds, L, F, home),
         NEW esc, NEW E, NEW dm, NEW lp, NEW st,
         CollectOk(prog, ds, L, F, esc, End(prog), E, dm, lp, st)
  PROVE  /\ DOMAIN E = DOMAIN ds /\ Sound(prog, ds, esc, E)
         /\ \A i \in UsesOf(prog) : ds[prog[i].id].kind = "var" /\ prog[i].id \in esc
              => prog[i].id \in E[prog[i].within]
         /\ \A i \in UsesOf(prog) : Fun(ds, prog[i].id) => E[prog[i].id] \subseteq E[prog[i].within]
<1>1. prog \in Seq(Events) /\ L[End(prog)] = <<>> /\ DOMAIN prog = 1..Len(prog)
  BY DEF Whole, Nested
<1>2. \A i \in UsesOf(prog) : i < End(prog)
  BY <1>1 DEF UsesOf, End
<1>3. \A i : ~Again(L, End(prog), dm, lp, i)
  BY <1>1 DEF Again
<1> QED BY <1>2, <1>3 DEF CollectOk, VarsGiven, CallsGiven

\* What is collected is exactly what the callees use.
LEMMA LiftedExactly ==
  ASSUME NEW prog, NEW ds, NEW E, NEW esc, DOMAIN E = DOMAIN ds, Sound(prog, ds, esc, E),
         \A i \in UsesOf(prog) : prog[i].id \in esc => prog[i].id \in E[prog[i].within],
         \A i \in UsesOf(prog) : Fun(ds, prog[i].id) =>
           E[prog[i].id] \subseteq E[prog[i].within] /\ prog[i].id \in DOMAIN ds,
         NEW f \in DOMAIN ds
  PROVE  E[f] = {v \in esc : UsedBelow(prog, ds, f, v)}
<1>1. \A v \in E[f] : v \in esc /\ UsedBelow(prog, ds, f, v)
  BY DEF Sound
<1>2. ASSUME NEW v \in esc, UsedBelow(prog, ds, f, v) PROVE v \in E[f]
  <2>1. PICK i \in UsesOf(prog) : prog[i].id = v /\ prog[i].within \in CalleesOf(prog, ds, f)
    BY <1>2 DEF UsedBelow
  <2>2. v \in E[prog[i].within]
    BY <1>2, <2>1
  <2>3. PICK S : S = {h \in DOMAIN ds : v \in E[h] => v \in E[f]}
    OBVIOUS
  <2>4. f \in S /\ S \in SUBSET DOMAIN ds
    BY <2>3
  <2>5. ClosedUnder(prog, ds, S)
    <3>1. ASSUME NEW j \in UsesOf(prog), Fun(ds, prog[j].id), prog[j].within \in S
          PROVE  prog[j].id \in S
      BY <2>3, <3>1
    <3> QED BY <3>1 DEF ClosedUnder, CallsOf
  <2>6. prog[i].within \in S
    BY <2>1, <2>4, <2>5 DEF CalleesOf
  <2> QED BY <2>2, <2>3, <2>6
<1> QED BY <1>1, <1>2

-----------------------------------------------------------------------------
(* The invariant.                                                          *)

WhereEachIs == [f \in {f \in DOMAIN decs : decs[f].kind = "fun"} |-> Locals(f)]

\* What the passes run so far have established.
PassesOk(L, F, home) ==
  /\ Whole(program, decs, L, F, home)
  /\ phase = "bound" => NamesOk(program, decs, 1, name, unique_number_, spelled)
  /\ phase = "renaming" =>
       at \in 1..End(program) /\ NamesOk(program, decs, at, name, unique_number_, spelled)
  /\ phase \in {"renamed", "escaping", "escaped", "error"} =>
       NamesOk(program, decs, End(program), name, unique_number_, spelled)
  /\ phase = "escaping" =>
       at \in 1..End(program)
       /\ FlagsOk(program, decs, F, at, name, escapes, scoped_map_, in_primitive)
  /\ phase \in {"escaped", "error", "desugared", "collecting", "collected", "translated"} =>
       escapes = Flagged(program, decs, End(program))
  /\ phase = "collecting" =>
       at \in 1..End(program)
       /\ CollectOk(program, decs, L, F, escapes, at, escaped_, did_modify_, loops, functionType_stack_)
  /\ phase \in {"collected", "translated"} =>
       CollectOk(program, decs, L, F, escapes, End(program),
                 escaped_, did_modify_, loops, functionType_stack_)
  /\ phase = "translated" => locals_ = WhereEachIs

\* The inductive invariant: a program being written nests as far as it goes,
\* and each pass keeps what those before it have established.
IInv ==
  /\ phase = "write" =>
       unique_number_ \in Nat /\ \E L, F, home : Writing(program, decs, walk, L, F, home)
  /\ phase # "write" => \E L, F, home : PassesOk(L, F, home)

\* An event that is visited, and the end of a visit.
LEMMA VisitIs ==
  ASSUME NEW L, NEW F, NEW home, Whole(program, decs, L, F, home), at \in 1..End(program)
  PROVE  /\ at <= Len(program) => at \in DOMAIN program /\ at + 1 \in 1..End(program)
         /\ at > Len(program) => at = End(program)
         /\ 1 \in 1..End(program)
<1>1. program \in Seq(Events) /\ DOMAIN program = 1..Len(program) /\ Len(program) \in Nat
  BY DEF Whole, Nested
<1> QED BY <1>1 DEF End

\* The first event is a place in the program.
LEMMA StartIs ==
  ASSUME NEW prog, NEW ds, NEW L, NEW F, NEW home, Whole(prog, ds, L, F, home)
  PROVE  1 \in 1..End(prog) /\ Nested(prog, ds, L, F, home) /\ prog \in Seq(Events)
<1>1. prog \in Seq(Events) /\ Len(prog) \in Nat
  BY DEF Whole, Nested
<1> QED BY <1>1 DEF End, Whole

\* The Renamer keeps what is known of the passes.
LEMMA RenamerKeeps ==
  ASSUME NEW L, NEW F, NEW home, PassesOk(L, F, home), Renamer
  PROVE  PassesOk(L, F, home)' /\ phase' # "write" /\ decs' = decs
<1>1. Whole(program, decs, L, F, home) /\ Nested(program, decs, L, F, home)
      /\ program \in Seq(Events) /\ 1 \in 1..End(program)
  BY StartIs DEF PassesOk
<1>2. CASE rename
  <2>1. /\ phase = "bound" /\ phase' = "renaming" /\ at' = 1 /\ program' = program /\ decs' = decs
        /\ unique_number_' = 0 /\ name' = name /\ spelled' = spelled
    BY <1>2 DEF rename, Begin, written
  <2>2. NamesOk(program, decs, 1, name, unique_number_, spelled)
    BY <2>1 DEF PassesOk
  <2>3. NamesOk(program, decs, 1, name, 0, spelled)
    BY <1>1, <2>2, NumberDoesNotMatterAtFirst
  <2> QED BY <1>1, <2>1, <2>3 DEF PassesOk
<1>3. CASE Visiting("renaming") /\ Go /\ UNCHANGED flags /\ (RenameDec \/ RenameUse \/ RenameOther)
  <2>1. /\ phase = "renaming" /\ phase' = "renaming" /\ at' = at + 1 /\ program' = program /\ decs' = decs
        /\ at <= Len(program)
    BY <1>3 DEF Visiting, Go, written
  <2>2. at \in 1..End(program) /\ NamesOk(program, decs, at, name, unique_number_, spelled)
    BY <2>1 DEF PassesOk
  <2>3. at \in DOMAIN program /\ at + 1 \in 1..End(program)
    BY <1>1, <2>1, <2>2, VisitIs
  <2>4. NamesOk(program, decs, at + 1, name', unique_number_', spelled')
    <3>1. CASE RenameDec
      <4>1. /\ program[at].op = "dec" /\ Ren(decs, program[at].id)
            /\ name' = [name EXCEPT ![program[at].id] = Append(@, unique_number_)]
            /\ unique_number_' = unique_number_ + 1 /\ spelled' = spelled
        BY <3>1 DEF RenameDec, Here, Renamed, Ren, IsFun, Fun
      <4>2. NamesOk(program, decs, at + 1, [name EXCEPT ![program[at].id] = Append(@, unique_number_)],
                    unique_number_ + 1, spelled)
        BY <1>1, <2>2, <2>3, <4>1, DecNamed
      <4> QED BY <4>1, <4>2
    <3>2. CASE RenameUse
      <4>1. /\ program[at].op = "use" /\ spelled' = [spelled EXCEPT ![at] = name[program[at].id]]
            /\ name' = name /\ unique_number_' = unique_number_
        BY <3>2 DEF RenameUse, Here
      <4>2. NamesOk(program, decs, at + 1, name, unique_number_,
                    [spelled EXCEPT ![at] = name[program[at].id]])
        BY <1>1, <2>2, <2>3, <4>1, UseNamed
      <4> QED BY <4>1, <4>2
    <3>3. CASE RenameOther
      <4>1. /\ program[at].op # "use" /\ ~(program[at].op = "dec" /\ Ren(decs, program[at].id))
            /\ name' = name /\ unique_number_' = unique_number_ /\ spelled' = spelled
        BY <3>3 DEF RenameOther, Here, Renamed, Ren, IsFun, Fun, names
      <4>2. NamesOk(program, decs, at + 1, name, unique_number_, spelled)
        BY <1>1, <2>2, <2>3, <4>1, OtherNamed
      <4> QED BY <4>1, <4>2
    <3> QED BY <1>3, <3>1, <3>2, <3>3
  <2> QED BY <1>1, <2>1, <2>3, <2>4 DEF PassesOk
<1>4. CASE EndOfRename
  <2>1. /\ phase = "renaming" /\ phase' = "renamed" /\ at > Len(program) /\ program' = program /\ decs' = decs
        /\ name' = name /\ unique_number_' = unique_number_ /\ spelled' = spelled
    BY <1>4 DEF EndOfRename, Finish, written, names
  <2>2. at \in 1..End(program) /\ NamesOk(program, decs, at, name, unique_number_, spelled)
    BY <2>1 DEF PassesOk
  <2>3. at = End(program)
    BY <1>1, <2>1, <2>2, VisitIs
  <2> QED BY <1>1, <2>1, <2>2, <2>3 DEF PassesOk
<1>5. RenameDec \/ RenameUse \/ RenameOther => Visiting("renaming") /\ Go /\ UNCHANGED flags
  BY DEF RenameDec, RenameUse, RenameOther
<1>6. /\ rename => phase' # "write" /\ decs' = decs
      /\ Visiting("renaming") /\ Go => phase' # "write" /\ decs' = decs
      /\ EndOfRename => phase' # "write" /\ decs' = decs
  BY DEF rename, Begin, Visiting, Go, EndOfRename, Finish, written
<1> QED BY <1>2, <1>3, <1>4, <1>5, <1>6 DEF Renamer

\* So does the visitor of escapes.
LEMMA EscapesVisitorKeeps ==
  ASSUME NEW L, NEW F, NEW home, PassesOk(L, F, home), EscapesVisitor
  PROVE  PassesOk(L, F, home)' /\ phase' # "write" /\ decs' = decs
<1>1. Whole(program, decs, L, F, home) /\ Nested(program, decs, L, F, home)
      /\ program \in Seq(Events) /\ 1 \in 1..End(program)
  BY StartIs DEF PassesOk
<1>2. CASE escapes_compute
  <2>1. /\ (phase = "bound" /\ phase' = "displaying") \/ (phase = "renamed" /\ phase' = "escaping")
        /\ at' = 1 /\ program' = program /\ decs' = decs
        /\ escapes' = {} /\ scoped_map_' = <<{}>> /\ in_primitive' = FALSE
        /\ unique_number_' = unique_number_ /\ name' = name /\ spelled' = spelled
    BY <1>2 DEF escapes_compute, Begin, written, names
  <2>2. FlagsOk(program, decs, F, 1, name, {}, <<{}>>, FALSE)
    BY <1>1, FlagsAtFirst
  <2> QED BY <1>1, <2>1, <2>2 DEF PassesOk
<1>3. ASSUME Visiting("displaying"), Go PROVE PassesOk(L, F, home)'
  <2>1. phase' = "displaying" /\ program' = program /\ decs' = decs
    BY <1>3 DEF Visiting, Go, written
  <2> QED BY <1>1, <2>1 DEF PassesOk
<1>4. ASSUME Visiting("escaping"), Go, UNCHANGED names,
             EscapesFunctionDec \/ EscapesEnd \/ EscapesVarDec \/ EscapesSimpleVar \/ EscapesOther
      PROVE  PassesOk(L, F, home)'
  <2>1. /\ phase = "escaping" /\ phase' = "escaping" /\ at' = at + 1 /\ program' = program /\ decs' = decs
        /\ at <= Len(program)
        /\ unique_number_' = unique_number_ /\ name' = name /\ spelled' = spelled
    BY <1>4 DEF Visiting, Go, written, names
  <2>2. /\ at \in 1..End(program) /\ NamesOk(program, decs, End(program), name, unique_number_, spelled)
        /\ FlagsOk(program, decs, F, at, name, escapes, scoped_map_, in_primitive)
    BY <2>1 DEF PassesOk
  <2>3. at \in DOMAIN program /\ at + 1 \in 1..End(program)
    BY <1>1, <2>1, <2>2, VisitIs
  <2>4. FlagsOk(program, decs, F, at + 1, name, escapes', scoped_map_', in_primitive')
    <3>1. CASE EscapesFunctionDec
      <4>1. /\ program[at].op = "dec" /\ Fun(decs, program[at].id)
            /\ scoped_map_' = Append(scoped_map_, {})
            /\ in_primitive' = (in_primitive \/ decs[program[at].id].kind = "prim") /\ escapes' = escapes
        BY <3>1 DEF EscapesFunctionDec, Here, IsFun, Fun
      <4>2. FlagsOk(program, decs, F, at + 1, name, escapes, Append(scoped_map_, {}),
                    in_primitive \/ decs[program[at].id].kind = "prim")
        BY <1>1, <2>2, <2>3, <4>1, FunFlagged
      <4> QED BY <4>1, <4>2
    <3>2. CASE EscapesEnd
      <4>1. /\ program[at].op = "end" /\ scoped_map_' = Front(scoped_map_)
            /\ in_primitive' = FALSE /\ escapes' = escapes
        BY <3>2 DEF EscapesEnd, Here
      <4>2. FlagsOk(program, decs, F, at + 1, name, escapes, Front(scoped_map_), FALSE)
        BY <1>1, <2>2, <2>3, <4>1, EndFlagged
      <4> QED BY <4>1, <4>2
    <3>3. CASE EscapesVarDec
      <4>1. /\ program[at].op = "dec" /\ decs[program[at].id].kind = "var"
            /\ escapes' = IF in_primitive THEN escapes \ {program[at].id} ELSE escapes \union {program[at].id}
            /\ scoped_map_' = [scoped_map_ EXCEPT ![Len(scoped_map_)] = @ \union {name[program[at].id]}]
            /\ in_primitive' = in_primitive
        BY <3>3 DEF EscapesVarDec, Here, IsVar
      <4>2. FlagsOk(program, decs, F, at + 1, name,
                    IF in_primitive THEN escapes \ {program[at].id} ELSE escapes \union {program[at].id},
                    [scoped_map_ EXCEPT ![Len(scoped_map_)] = @ \union {name[program[at].id]}],
                    in_primitive)
        BY <1>1, <2>2, <2>3, <4>1, VarFlagged
      <4> QED BY <4>1, <4>2
    <3>4. CASE EscapesSimpleVar
      <4>1. /\ program[at].op = "use" /\ decs[program[at].id].kind = "var"
            /\ escapes' = IF spelled[at] \in Last(scoped_map_) THEN escapes \ {program[at].id} ELSE escapes
            /\ scoped_map_' = scoped_map_ /\ in_primitive' = in_primitive
        BY <3>4 DEF EscapesSimpleVar, Here, IsVar
      <4>2. FlagsOk(program, decs, F, at + 1, name,
                    IF spelled[at] \in Last(scoped_map_) THEN escapes \ {program[at].id} ELSE escapes,
                    scoped_map_, in_primitive)
        BY <1>1, <2>2, <2>3, <4>1, UseFlagged
      <4> QED BY <4>1, <4>2
    <3>5. CASE EscapesOther
      <4>1. /\ escapes' = escapes /\ scoped_map_' = scoped_map_ /\ in_primitive' = in_primitive
            /\ \/ program[at].op \in {"chunk", "endchunk"}
               \/ program[at].op = "dec" /\ decs[program[at].id].kind = "typ"
               \/ program[at].op = "use" /\ decs[program[at].id].kind # "var"
        BY <3>5 DEF EscapesOther, Here, IsVar, flags
      <4>2. F[at + 1] = F[at]
        <5>1. CASE program[at].op = "chunk"
          BY <1>1, <2>3, <5>1, ChunkFacts
        <5>2. CASE program[at].op = "endchunk"
          BY <1>1, <2>3, <5>2, EndChunkFacts
        <5>3. CASE program[at].op = "dec" /\ decs[program[at].id].kind = "typ"
          <6>1. ~Fun(decs, program[at].id)
            BY <5>3 DEF Fun
          <6> QED BY <1>1, <2>3, <5>3, <6>1, DecFacts
        <5>4. CASE program[at].op = "use"
          BY <1>1, <2>3, <5>4, UseFacts
        <5> QED BY <4>1, <5>1, <5>2, <5>3, <5>4
      <4>3. /\ ~(program[at].op = "dec" /\ decs[program[at].id].kind = "var")
            /\ ~(program[at].op = "use" /\ decs[program[at].id].kind = "var")
        BY <4>1
      <4>4. FlagsOk(program, decs, F, at + 1, name, escapes, scoped_map_, in_primitive)
        BY <1>1, <2>2, <2>3, <4>2, <4>3, OtherFlagged
      <4> QED BY <4>1, <4>4
    <3> QED BY <1>4, <3>1, <3>2, <3>3, <3>4, <3>5
  <2> QED BY <1>1, <2>1, <2>2, <2>3, <2>4 DEF PassesOk
<1>5. CASE EndOfEscapes
  <2>1. /\ (phase = "escaping" /\ phase' = "escaped") \/ (phase = "displaying" /\ phase' = "displayed")
        /\ at > Len(program) /\ program' = program /\ decs' = decs
        /\ name' = name /\ unique_number_' = unique_number_ /\ spelled' = spelled /\ escapes' = escapes
    BY <1>5 DEF EndOfEscapes, Finish, written, names, flags
  <2>2. phase = "escaping" =>
          /\ at \in 1..End(program) /\ NamesOk(program, decs, End(program), name, unique_number_, spelled)
          /\ FlagsOk(program, decs, F, at, name, escapes, scoped_map_, in_primitive)
    BY DEF PassesOk
  <2>3. at \in 1..End(program) => at = End(program)
    BY <1>1, <2>1, VisitIs
  <2>4. phase = "escaping" => escapes = Flagged(program, decs, End(program))
    BY <2>2, <2>3 DEF FlagsOk
  <2> QED BY <1>1, <2>1, <2>2, <2>4 DEF PassesOk
<1>6. EscapesFunctionDec \/ EscapesEnd \/ EscapesVarDec \/ EscapesSimpleVar \/ EscapesOther
        => (Visiting("escaping") \/ Visiting("displaying")) /\ Go /\ UNCHANGED names
  BY DEF EscapesFunctionDec, EscapesEnd, EscapesVarDec, EscapesSimpleVar, EscapesOther, Escaping
<1>7. /\ escapes_compute => phase' # "write" /\ decs' = decs
      /\ (Visiting("escaping") \/ Visiting("displaying")) /\ Go => phase' # "write" /\ decs' = decs
      /\ EndOfEscapes => phase' # "write" /\ decs' = decs
  BY DEF escapes_compute, Begin, Visiting, Go, EndOfEscapes, Finish, written
<1> QED BY <1>2, <1>3, <1>4, <1>5, <1>6, <1>7 DEF EscapesVisitor

\* So does the binding of the clone.
LEMMA DesugarKeeps ==
  ASSUME NEW L, NEW F, NEW home, PassesOk(L, F, home), desugar
  PROVE  PassesOk(L, F, home)' /\ phase' # "write" /\ decs' = decs
<1>1. Whole(program, decs, L, F, home) /\ Nested(program, decs, L, F, home)
      /\ program \in Seq(Events)
  BY StartIs DEF PassesOk
<1>2. /\ phase = "escaped" /\ decs' = decs /\ escapes' = escapes
      /\ name' = name /\ spelled' = spelled /\ unique_number_' = unique_number_
      /\ NamesOk(program, decs, End(program), name, unique_number_, spelled)
      /\ escapes = Flagged(program, decs, End(program))
  BY DEF desugar, names, flags, PassesOk
<1>3. UsesOf(program) = Uses
  BY DEF UsesOf, Uses
<1>4. CASE \E i \in Uses : Rebound(i) = 0
  <2>1. phase' = "error" /\ program' = program
    BY <1>4 DEF desugar
  <2> QED BY <1>1, <1>2, <2>1 DEF PassesOk
<1>5. CASE ~(\E i \in Uses : Rebound(i) = 0)
  <2>1. phase' = "desugared"
        /\ program' = [i \in DOMAIN program |->
             IF i \in Uses THEN [program[i] EXCEPT !.id = Rebound(i)] ELSE program[i]]
    BY <1>5 DEF desugar
  <2>2. ASSUME NEW i \in Uses
        PROVE  /\ Rebound(i) \in program[i].scope
               /\ decs[program[i].id].kind = "var" => Rebound(i) = program[i].id
    <3>1. PICK D : D = {d \in program[i].scope : name[d] = spelled[i]}
      OBVIOUS
    <3>2. Rebound(i) # 0
      BY <1>5, <2>2
    <3>3. D # {} /\ Rebound(i) = CHOOSE d \in D : \A e \in D : e <= d
      BY <3>1, <3>2 DEF Rebound
    <3>4. /\ Rebound(i) \in program[i].scope
          /\ decs[program[i].id].kind = "var" /\ Ren(decs, program[i].id) => Rebound(i) = program[i].id
      <4>1. PICK r : r = Rebound(i)
        OBVIOUS
      <4>2. r = CHOOSE d \in D : \A e \in D : e <= d
        BY <3>3, <4>1
      <4>3. i \in UsesOf(program) /\ D # {} /\ NamesOk(program, decs, End(program), name, unique_number_, spelled)
        BY <1>2, <1>3, <3>3
      <4>4. r \in program[i].scope /\ ((decs[program[i].id].kind = "var" /\ Ren(decs, program[i].id)) => r = program[i].id)
        BY <1>1, <3>1, <4>2, <4>3, BoundAgain
      <4> QED BY <4>1, <4>4
    <3>5. i \in DOMAIN program /\ program[i].op = "use"
      BY DEF Uses
    <3>6. program[i].id \in DOMAIN decs
      BY <1>1, <3>5, UseFacts
    <3> QED BY <3>4, <3>6 DEF Ren, Fun
  <2>3. \A i \in DOMAIN program : program[i] \in Events
    BY <1>1
  <2>4. ASSUME NEW i \in Uses PROVE [program[i] EXCEPT !.id = Rebound(i)] \in Events
    <3>1. i \in DOMAIN program
      BY DEF Uses
    <3>2. program[i].scope \subseteq Nat /\ Rebound(i) \in program[i].scope
      BY <2>2, <2>3, <3>1 DEF Events
    <3> QED BY <2>3, <3>1, <3>2 DEF Events
  <2>5. DOMAIN program' = DOMAIN program /\ program' \in Seq(Events)
    <3>1. DOMAIN program = 1..Len(program) /\ Len(program) \in Nat
      BY <1>1
    <3>2. \A i \in 1..Len(program) :
            (IF i \in Uses THEN [program[i] EXCEPT !.id = Rebound(i)] ELSE program[i]) \in Events
      BY <2>3, <2>4, <3>1
    <3>3. [i \in 1..Len(program) |->
             IF i \in Uses THEN [program[i] EXCEPT !.id = Rebound(i)] ELSE program[i]] \in Seq(Events)
      BY <3>1, <3>2
    <3> QED BY <2>1, <3>1, <3>3
  <2>6. Rebinds(program, decs, program')
    <3>1. ASSUME NEW i \in DOMAIN program, program[i].op = "use"
          PROVE  /\ program'[i].op = "use" /\ program'[i].within = program[i].within
                 /\ program'[i].scope = program[i].scope /\ program'[i].id \in program[i].scope
                 /\ decs[program[i].id].kind = "var" => program'[i].id = program[i].id
      <4>1. i \in Uses
        BY <3>1 DEF Uses
      <4>2. program'[i] = [program[i] EXCEPT !.id = Rebound(i)]
        BY <2>1, <4>1
      <4>3. program[i] \in Events
        BY <2>3
      <4>4. /\ program'[i].op = program[i].op /\ program'[i].within = program[i].within
            /\ program'[i].scope = program[i].scope /\ program'[i].id = Rebound(i)
        BY <4>2, <4>3 DEF Events
      <4> QED BY <2>2, <3>1, <4>1, <4>4
    <3>2. ASSUME NEW i \in DOMAIN program, program[i].op # "use" PROVE program'[i] = program[i]
      BY <2>1, <3>2 DEF Uses
    <3> QED BY <2>5, <3>1, <3>2 DEF Rebinds
  <2>7. PICK prog2 : prog2 = program'
    OBVIOUS
  <2>8. Rebinds(program, decs, prog2)
    BY <2>6, <2>7
  <2>9. Whole(prog2, decs, L, F, home)
    BY <1>1, <2>8, WholeRebound
  <2>10. Flagged(prog2, decs, End(prog2)) = Flagged(program, decs, End(program))
    BY <1>1, <2>8, FlagsKept
  <2> QED BY <1>2, <2>1, <2>7, <2>9, <2>10 DEF PassesOk
<1> QED BY <1>2, <1>4, <1>5 DEF desugar

\* So does the collector.
LEMMA CollectorKeeps ==
  ASSUME NEW L, NEW F, NEW home, PassesOk(L, F, home), Collector
  PROVE  PassesOk(L, F, home)' /\ phase' # "write" /\ decs' = decs
<1> DEFINE Collects == FunctionChunk \/ EndOfFunctionChunk \/ FunctionDec \/ EndOfFunctionDec
                       \/ CallExp \/ SimpleVar \/ CollectNothing
<1>1. Whole(program, decs, L, F, home) /\ Nested(program, decs, L, F, home)
      /\ program \in Seq(Events) /\ 1 \in 1..End(program)
  BY StartIs DEF PassesOk
<1>2. CASE collect_escapes
  <2>1. /\ phase = "desugared" /\ phase' = "collecting" /\ at' = 1 /\ program' = program /\ decs' = decs
        /\ escapes' = escapes
        /\ escaped_' = [d \in DOMAIN decs |-> {}] /\ did_modify_' = FALSE /\ loops' = <<>>
        /\ functionType_stack_' = <<>>
    BY <1>2 DEF collect_escapes, Begin, written, flags
  <2>2. CollectOk(program, decs, L, F, escapes, 1, [d \in DOMAIN decs |-> {}], FALSE, <<>>, <<>>)
    BY <1>1, CollectAtFirst
  <2> QED BY <1>1, <2>1, <2>2 DEF PassesOk
<1>3. CASE Collecting /\ Go /\ Collects
  <2>1. /\ phase = "collecting" /\ phase' = "collecting" /\ at' = at + 1 /\ program' = program
        /\ decs' = decs /\ at <= Len(program) /\ escapes' = escapes
    BY <1>3 DEF Collecting, Visiting, Go, written, flags
  <2>2. /\ at \in 1..End(program) /\ escapes = Flagged(program, decs, End(program))
        /\ CollectOk(program, decs, L, F, escapes, at, escaped_, did_modify_, loops, functionType_stack_)
    BY <2>1 DEF PassesOk
  <2>3. at \in DOMAIN program /\ at + 1 \in 1..End(program)
    BY <1>1, <2>1, <2>2, VisitIs
  <2>a. functionType_stack_ = F[at]
    BY <2>2 DEF CollectOk
  <2>4. CollectOk(program, decs, L, F, escapes, at + 1,
                  escaped_', did_modify_', loops', functionType_stack_')
    <3>1. CASE FunctionChunk
      <4>1. /\ program[at].op = "chunk" /\ loops' = Append(loops, [start |-> at, did_modify |-> did_modify_])
            /\ did_modify_' = FALSE /\ escaped_' = escaped_ /\ functionType_stack_' = functionType_stack_
        BY <3>1 DEF FunctionChunk, Here
      <4>2. CollectOk(program, decs, L, F, escapes, at + 1, escaped_, FALSE,
                      Append(loops, [start |-> at, did_modify |-> did_modify_]), functionType_stack_)
        BY <1>1, <2>2, <2>3, <4>1, ChunkCollected
      <4> QED BY <4>1, <4>2
    <3>2. CASE EndOfFunctionChunk
      <4>1. /\ program[at].op = "endchunk" /\ ~did_modify_
            /\ loops' = Front(loops) /\ did_modify_' = Last(loops).did_modify
            /\ escaped_' = escaped_ /\ functionType_stack_' = functionType_stack_
        BY <3>2 DEF EndOfFunctionChunk, Here
      <4>2. CollectOk(program, decs, L, F, escapes, at + 1, escaped_, Last(loops).did_modify,
                      Front(loops), functionType_stack_)
        BY <1>1, <2>2, <2>3, <4>1, EndChunkCollected
      <4> QED BY <4>1, <4>2
    <3>3. CASE FunctionDec
      <4>1. /\ program[at].op = "dec" /\ Fun(decs, program[at].id)
            /\ functionType_stack_' = Append(functionType_stack_, program[at].id)
            /\ loops' = loops /\ did_modify_' = did_modify_ /\ escaped_' = escaped_
        BY <3>3 DEF FunctionDec, Here, IsFun, Fun
      <4>2. L[at + 1] = L[at] /\ F[at + 1] = Append(F[at], program[at].id)
        BY <1>1, <2>3, <4>1, FunFacts
      <4>3. Append(functionType_stack_, program[at].id) = F[at + 1]
        BY <2>a, <4>2
      <4>4. CollectOk(program, decs, L, F, escapes, at + 1, escaped_, did_modify_, loops,
                      Append(functionType_stack_, program[at].id))
        <5>1. program[at].op # "use"
          BY <4>1
        <5> QED BY <1>1, <2>2, <2>3, <4>2, <4>3, <5>1, SameCollected
      <4> QED BY <4>1, <4>4
    <3>4. CASE EndOfFunctionDec
      <4>1. /\ program[at].op = "end" /\ functionType_stack_' = Front(functionType_stack_)
            /\ loops' = loops /\ did_modify_' = did_modify_ /\ escaped_' = escaped_
        BY <3>4 DEF EndOfFunctionDec, Here
      <4>2. L[at + 1] = L[at] /\ F[at + 1] = Front(F[at])
        BY <1>1, <2>3, <4>1, EndFacts
      <4>3. Front(functionType_stack_) = F[at + 1]
        BY <2>a, <4>2
      <4>4. CollectOk(program, decs, L, F, escapes, at + 1, escaped_, did_modify_, loops,
                      Front(functionType_stack_))
        <5>1. program[at].op # "use"
          BY <4>1
        <5> QED BY <1>1, <2>2, <2>3, <4>2, <4>3, <5>1, SameCollected
      <4> QED BY <4>1, <4>4
    <3>5. CASE CallExp
      <4>1. /\ program[at].op = "use" /\ Fun(decs, program[at].id)
            /\ escaped_' = [escaped_ EXCEPT ![Last(functionType_stack_)] = @ \union escaped_[program[at].id]]
            /\ did_modify_' = (did_modify_ \/ ~(escaped_[program[at].id] \subseteq escaped_[Last(functionType_stack_)]))
            /\ loops' = loops /\ functionType_stack_' = functionType_stack_
        BY <3>5 DEF CallExp, Collect, Here, IsFun, Fun
      <4>2. CollectOk(program, decs, L, F, escapes, at + 1,
                      [escaped_ EXCEPT ![Last(functionType_stack_)] = @ \union escaped_[program[at].id]],
                      did_modify_ \/ ~(escaped_[program[at].id] \subseteq escaped_[Last(functionType_stack_)]),
                      loops, functionType_stack_)
        BY <1>1, <2>2, <2>3, <4>1, CallCollected
      <4> QED BY <4>1, <4>2
    <3>6. CASE SimpleVar
      <4>1. /\ program[at].op = "use" /\ decs[program[at].id].kind = "var"
            /\ escaped_' = [escaped_ EXCEPT ![Last(functionType_stack_)] = @ \union ({program[at].id} \intersect escapes)]
            /\ did_modify_' = (did_modify_ \/ ~(({program[at].id} \intersect escapes) \subseteq escaped_[Last(functionType_stack_)]))
            /\ loops' = loops /\ functionType_stack_' = functionType_stack_
        BY <3>6 DEF SimpleVar, Collect, Here, IsVar
      <4>2. CollectOk(program, decs, L, F, escapes, at + 1,
                      [escaped_ EXCEPT ![Last(functionType_stack_)] = @ \union ({program[at].id} \intersect escapes)],
                      did_modify_ \/ ~(({program[at].id} \intersect escapes) \subseteq escaped_[Last(functionType_stack_)]),
                      loops, functionType_stack_)
        <5>1. program[at].op = "use" /\ decs[program[at].id].kind = "var"
          BY <4>1
        <5> QED BY <1>1, <2>2, <2>3, <5>1, VarCollected
      <4> QED BY <4>1, <4>2
    <3>7. CASE CollectNothing
      <4>1. /\ loops' = loops /\ did_modify_' = did_modify_ /\ escaped_' = escaped_
            /\ functionType_stack_' = functionType_stack_
            /\ \/ program[at].op = "dec" /\ ~Fun(decs, program[at].id)
               \/ program[at].op = "use" /\ decs[program[at].id].kind = "typ"
        BY <3>7 DEF CollectNothing, Here, IsFun, Fun, lifted
      <4>2. L[at + 1] = L[at] /\ F[at + 1] = F[at]
        <5>1. CASE program[at].op = "dec" /\ ~Fun(decs, program[at].id)
          BY <1>1, <2>3, <5>1, DecFacts
        <5>2. CASE program[at].op = "use"
          BY <1>1, <2>3, <5>2, UseFacts
        <5> QED BY <4>1, <5>1, <5>2
      <4>3. functionType_stack_ = F[at + 1]
        BY <2>a, <4>2
      <4>4. CollectOk(program, decs, L, F, escapes, at + 1, escaped_, did_modify_, loops, functionType_stack_)
        <5>1. program[at].op # "use" \/ decs[program[at].id].kind = "typ"
          BY <4>1
        <5> QED BY <1>1, <2>2, <2>3, <4>2, <4>3, <5>1, SameCollected
      <4> QED BY <4>1, <4>4
    <3> QED BY <1>3, <3>1, <3>2, <3>3, <3>4, <3>5, <3>6, <3>7
  <2> QED BY <1>1, <2>1, <2>2, <2>3, <2>4 DEF PassesOk
<1>4. CASE GoRoundAgain
  <2>1. /\ phase = "collecting" /\ phase' = "collecting" /\ program' = program
        /\ decs' = decs /\ at <= Len(program) /\ escapes' = escapes
        /\ program[at].op = "endchunk" /\ did_modify_
        /\ at' = Last(loops).start + 1 /\ did_modify_' = FALSE
        /\ escaped_' = escaped_ /\ loops' = loops /\ functionType_stack_' = functionType_stack_
    BY <1>4 DEF GoRoundAgain, Collecting, Visiting, Here, written, flags
  <2>2. /\ at \in 1..End(program) /\ escapes = Flagged(program, decs, End(program))
        /\ CollectOk(program, decs, L, F, escapes, at, escaped_, did_modify_, loops, functionType_stack_)
    BY <2>1 DEF PassesOk
  <2>3. at \in DOMAIN program
    BY <1>1, <2>1, <2>2, VisitIs
  <2>4. /\ CollectOk(program, decs, L, F, escapes, Last(loops).start + 1, escaped_, FALSE, loops,
                     functionType_stack_)
        /\ Last(loops).start \in DOMAIN program
    BY <1>1, <2>1, <2>2, <2>3, AgainCollected
  <2>5. Last(loops).start + 1 \in 1..End(program)
    <3>1. \A s \in DOMAIN program : s + 1 \in 1..End(program)
      BY <1>1 DEF End
    <3> QED BY <2>4, <3>1
  <2> QED BY <1>1, <2>1, <2>2, <2>4, <2>5 DEF PassesOk
<1>5. CASE EndOfCollect
  <2>1. /\ phase = "collecting" /\ phase' = "collected" /\ at > Len(program) /\ program' = program
        /\ decs' = decs /\ escapes' = escapes
        /\ escaped_' = escaped_ /\ loops' = loops /\ functionType_stack_' = functionType_stack_
        /\ did_modify_' = did_modify_
    BY <1>5 DEF EndOfCollect, Finish, written, flags, lifted
  <2>2. /\ at \in 1..End(program) /\ escapes = Flagged(program, decs, End(program))
        /\ CollectOk(program, decs, L, F, escapes, at, escaped_, did_modify_, loops, functionType_stack_)
    BY <2>1 DEF PassesOk
  <2>3. at = End(program)
    BY <1>1, <2>1, <2>2, VisitIs
  <2> QED BY <1>1, <2>1, <2>2, <2>3 DEF PassesOk
<1>6. Collects => Collecting /\ Go
  BY DEF FunctionChunk, EndOfFunctionChunk, FunctionDec, EndOfFunctionDec, CallExp, SimpleVar,
         CollectNothing, Collect
<1>7. /\ collect_escapes => phase' # "write" /\ decs' = decs
      /\ Collecting /\ Go => phase' # "write" /\ decs' = decs
      /\ GoRoundAgain => phase' # "write" /\ decs' = decs
      /\ EndOfCollect => phase' # "write" /\ decs' = decs
  BY DEF collect_escapes, Begin, Collecting, Visiting, Go, GoRoundAgain, EndOfCollect, Finish, written
<1> QED BY <1>2, <1>3, <1>4, <1>5, <1>6, <1>7 DEF Collector

\* So does the translation.
LEMMA TranslateKeeps ==
  ASSUME NEW L, NEW F, NEW home, PassesOk(L, F, home), translate
  PROVE  PassesOk(L, F, home)' /\ phase' # "write" /\ decs' = decs
<1>1. /\ phase = "collected" /\ phase' = "translated" /\ program' = program /\ decs' = decs
      /\ escapes' = escapes /\ escaped_' = escaped_ /\ loops' = loops
      /\ functionType_stack_' = functionType_stack_ /\ did_modify_' = did_modify_
      /\ locals_' = WhereEachIs
  BY DEF translate, written, flags, lifted, WhereEachIs
<1>2. WhereEachIs' = WhereEachIs
  BY <1>1 DEF WhereEachIs, Locals, IsVar
<1> QED BY <1>1, <1>2 DEF PassesOk

-----------------------------------------------------------------------------
\* While the program is written.
LEMMA WriteKeeps ==
  ASSUME Write, unique_number_ \in Nat, \E L, F, home : Writing(program, decs, walk, L, F, home)
  PROVE  IInv'
<1>1. PICK L, F, home : Writing(program, decs, walk, L, F, home)
  OBVIOUS
<1>2. ASSUME Written, phase = "write",
             WriteUse \/ WriteVarDec \/ WriteChunk \/ WriteFunDec \/ WriteTypeDec \/ WriteEnd
      PROVE  IInv'
  <2>1. phase' = "write" /\ unique_number_' = unique_number_
    BY <1>2 DEF Written, names
  <2>2. \E L2, F2, home2 : Writing(program', decs', walk', L2, F2, home2)
    BY <1>1, <1>2, WriteUseWrites, WriteVarDecWrites, WriteChunkWrites, WriteFunDecWrites,
       WriteTypeDecWrites, WriteEndWrites
  <2> QED BY <2>1, <2>2 DEF IInv
<1>3. CASE WriteAll
  <2>1. PICK L2, F2, home2 : Whole(program', decs', L2, F2, home2)
    BY <1>1, <1>3, WriteAllWrites
  <2>2. /\ phase' = "bound" /\ unique_number_' = unique_number_ /\ decs' = decs
        /\ name' = [d \in DOMAIN decs |-> <<decs[d].name>>]
        /\ spelled' = [i \in Uses |-> <<decs[program[i].id].name>>]
        /\ program' = Append(program, Event("endchunk", 0))
    BY <1>3 DEF WriteAll
  <2>3. Uses = UsesOf(program') /\ \A i \in Uses : program'[i] = program[i]
    <3>1. program \in Seq(Events) /\ DOMAIN program = 1..Len(program) /\ Len(program) \in Nat
      BY <1>1 DEF Writing, Nested
    <3>2. PICK n, e : n = Len(program) /\ e = Event("endchunk", 0)
      OBVIOUS
    <3>3. e.op = "endchunk"
      BY <3>2 DEF Event
    <3>4. DOMAIN program' = 1..(n + 1) /\ program'[n + 1] = e /\ \A d \in 1..n : program'[d] = program[d]
      BY <2>2, <3>1, <3>2, AppendIs
    <3>5. \A d \in 1..(n + 1) : d \in 1..n \/ d = n + 1
      BY <3>1, <3>2
    <3>6. \A d \in 1..n : d \in 1..(n + 1)
      BY <3>1, <3>2
    <3> QED BY <3>1, <3>2, <3>3, <3>4, <3>5, <3>6 DEF Uses, UsesOf
  <2>4. PICK prog2, ds2 : prog2 = program' /\ ds2 = decs'
    OBVIOUS
  <2>5. NamesOk(prog2, ds2, 1, [d \in DOMAIN ds2 |-> <<ds2[d].name>>], unique_number_,
                [i \in UsesOf(prog2) |-> <<ds2[prog2[i].id].name>>])
    BY <2>1, <2>4, NamesAtFirst DEF Whole
  <2>6. name' = [d \in DOMAIN ds2 |-> <<ds2[d].name>>]
        /\ spelled' = [i \in UsesOf(prog2) |-> <<ds2[prog2[i].id].name>>]
    BY <2>2, <2>3, <2>4
  <2>7. NamesOk(program', decs', 1, name', unique_number_', spelled')
    BY <2>2, <2>4, <2>5, <2>6
  <2>8. PassesOk(L2, F2, home2)'
    BY <2>1, <2>2, <2>7 DEF PassesOk
  <2> QED BY <2>2, <2>8 DEF IInv
<1>4. /\ WriteUse => Written /\ phase = "write"
      /\ WriteVarDec => Written /\ phase = "write"
      /\ WriteChunk => Written /\ phase = "write"
      /\ WriteFunDec => Written /\ phase = "write"
      /\ WriteTypeDec => Written /\ phase = "write"
      /\ WriteEnd => Written /\ phase = "write"
  BY DEF WriteUse, WriteVarDec, WriteChunk, WriteFunDec, WriteTypeDec, WriteEnd, AtExp, AtDecs
<1> QED BY <1>2, <1>3, <1>4 DEF Write

\* The invariant holds of the prelude.
LEMMA IInvAtFirst == Init => IInv
<1>1. SUFFICES ASSUME Init PROVE IInv
  OBVIOUS
<1>2. NInit
  BY <1>1 DEF Init
<1>3. \E L, F, home : Writing(program, decs, walk, L, F, home)
  BY <1>2, PreludeIs
<1>4. /\ phase = "write" /\ unique_number_ = 0
      /\ decs = <<Declare("prim", Primitive, 0), Declare("var", "formal", 1), Declare("fun", Main, 0)>>
  BY <1>2 DEF NInit
<1> QED BY <1>3, <1>4 DEF IInv

\* Every step keeps it.
LEMMA IInvKept == IInv /\ [Next]_vars => IInv'
<1>1. SUFFICES ASSUME IInv, [Next]_vars PROVE IInv'
  OBVIOUS
<1>2. CASE Write
  <2>1. phase = "write"
    BY <1>2 DEF Write, WriteUse, WriteVarDec, WriteChunk, WriteFunDec, WriteTypeDec, WriteEnd, WriteAll,
                AtExp, AtDecs
  <2>2. unique_number_ \in Nat /\ \E L, F, home : Writing(program, decs, walk, L, F, home)
    BY <1>1, <2>1 DEF IInv
  <2> QED BY <1>2, <2>2, WriteKeeps
<1>3. CASE Renamer \/ EscapesVisitor \/ desugar \/ Collector \/ translate
  <2>1. phase # "write"
    <3>1. Renamer => phase # "write"
      BY DEF Renamer, rename, RenameDec, RenameUse, RenameOther, EndOfRename, Visiting, Finish
    <3>2. EscapesVisitor => phase # "write"
      BY DEF EscapesVisitor, escapes_compute, EscapesFunctionDec, EscapesEnd, EscapesVarDec, EscapesSimpleVar,
             EscapesOther, EndOfEscapes, Escaping, Visiting, Finish
    <3>3. Collector => phase # "write"
      BY DEF Collector, collect_escapes, FunctionChunk, GoRoundAgain, EndOfFunctionChunk, FunctionDec,
             EndOfFunctionDec, CallExp, SimpleVar, CollectNothing, EndOfCollect, Collecting, Visiting, Finish
    <3>4. desugar \/ translate => phase # "write"
      BY DEF desugar, translate
    <3> QED BY <1>3, <3>1, <3>2, <3>3, <3>4
  <2>2. PICK L, F, home : PassesOk(L, F, home)
    BY <1>1, <2>1 DEF IInv
  <2>3. PassesOk(L, F, home)' /\ phase' # "write" /\ decs' = decs
    BY <1>3, <2>2, RenamerKeeps, EscapesVisitorKeeps, DesugarKeeps, CollectorKeeps, TranslateKeeps
  <2> QED BY <2>3 DEF IInv
<1>4. CASE UNCHANGED vars
  <2>1. /\ decs' = decs /\ program' = program /\ walk' = walk /\ phase' = phase /\ at' = at
        /\ name' = name /\ spelled' = spelled /\ unique_number_' = unique_number_
        /\ escapes' = escapes /\ scoped_map_' = scoped_map_ /\ in_primitive' = in_primitive
        /\ escaped_' = escaped_ /\ did_modify_' = did_modify_ /\ loops' = loops
        /\ functionType_stack_' = functionType_stack_ /\ locals_' = locals_
    BY <1>4 DEF vars, nvars, written, names, flags, lifted
  <2>2. WhereEachIs' = WhereEachIs
    BY <2>1 DEF WhereEachIs, Locals, IsVar
  <2>3. ASSUME NEW L, NEW F, NEW home, PassesOk(L, F, home) PROVE PassesOk(L, F, home)'
    BY <2>1, <2>2, <2>3 DEF PassesOk
  <2> QED BY <1>1, <2>1, <2>3 DEF IInv
<1> QED BY <1>1, <1>2, <1>3, <1>4 DEF Next, NNext

\* What the passes have established holds all along.
THEOREM PassesDoAsMeant == Spec => []IInv
<1>1. Init => IInv
  BY IInvAtFirst
<1>2. IInv /\ [Next]_vars => IInv'
  BY IInvKept
<1> QED BY <1>1, <1>2, PTL DEF Spec

-----------------------------------------------------------------------------
\* After renaming, a use has the name of its declaration, but where that
\* declaration comes later in its chunk (bind::Renamer visits in order).
THEOREM ForwardUsesAreStale == Spec => []OnlyForwardUsesAreStale
<1>1. IInv => OnlyForwardUsesAreStale
  <2>1. SUFFICES ASSUME IInv, phase \in {"renamed", "escaped", "error"}, NEW i \in Uses
                 PROVE  (spelled[i] = name[program[i].id])
                          <=> (DeclaredAt(program[i].id) < i \/ ~Renamed(program[i].id))
    BY DEF OnlyForwardUsesAreStale
  <2>2. PICK L, F, home : PassesOk(L, F, home)
    BY <2>1 DEF IInv
  <2>3. Whole(program, decs, L, F, home)
        /\ NamesOk(program, decs, End(program), name, unique_number_, spelled)
    BY <2>1, <2>2 DEF PassesOk
  <2>4. i \in UsesOf(program)
    BY DEF UsesOf, Uses
  <2>5. PICK d : d = program[i].id
    OBVIOUS
  <2>6. d \in DOMAIN decs /\ (spelled[i] = name[d] <=> Met(program, d, i) \/ ~Ren(decs, d))
    BY <2>3, <2>4, <2>5, NamedWhole
  <2>7. PICK at0 : at0 = DeclaredAt(d)
    OBVIOUS
  <2>8. at0 = CHOOSE j \in DOMAIN program : program[j].op = "dec" /\ program[j].id = d
    BY <2>7 DEF DeclaredAt
  <2>9. at0 < i <=> Met(program, d, i)
    BY <2>3, <2>6, <2>8, MetAt
  <2> QED BY <2>5, <2>6, <2>7, <2>9 DEF Renamed, Ren, IsFun, Fun
<1> QED BY <1>1, PassesDoAsMeant, PTL

\* The flag of a variable says that a function declares it and that no
\* expression of that very function uses it (escapes::EscapesVisitor).
THEOREM FlagsSayNotUsedAtHome == Spec => []FlaggedUnlessUsedAtHome
<1>1. IInv => FlaggedUnlessUsedAtHome
  <2>1. SUFFICES ASSUME IInv, phase = "escaped", NEW v \in DOMAIN decs, IsVar(v)
                 PROVE  v \in escapes <=> decs[decs[v].owner].kind = "fun" /\ ~UsedAtHome(v)
    BY DEF FlaggedUnlessUsedAtHome
  <2>2. PICK L, F, home : PassesOk(L, F, home)
    BY <2>1 DEF IInv
  <2>3. Whole(program, decs, L, F, home) /\ escapes = Flagged(program, decs, End(program))
    BY <2>1, <2>2 DEF PassesOk
  <2>4. Met(program, v, End(program))
    BY <2>3 DEF Whole, Begun
  <2>5. program \in Seq(Events) /\ DOMAIN program = 1..Len(program)
    BY <2>3 DEF Whole, Nested
  <2>6. Uses = UsesOf(program) /\ \A i \in UsesOf(program) : i < End(program)
    BY <2>5 DEF Uses, UsesOf, End
  <2> QED BY <2>1, <2>3, <2>4, <2>6 DEF Flagged, UsedAtHome, IsVar
<1> QED BY <1>1, PassesDoAsMeant, PTL

\* What the rest needs of the collection.
LEMMA Gathered ==
  ASSUME IInv, phase \in {"collected", "translated"}
  PROVE  /\ DOMAIN escaped_ = DOMAIN decs /\ Sound(program, decs, escapes, escaped_)
         /\ \A i \in UsesOf(program) :
              /\ program[i].id \in escapes => program[i].id \in escaped_[program[i].within]
              /\ Fun(decs, program[i].id) => escaped_[program[i].id] \subseteq escaped_[program[i].within]
              /\ program[i].id \in DOMAIN decs /\ program[i].within \in DOMAIN decs
              /\ decs[program[i].within].kind = "fun"
              /\ decs[program[i].id].kind = "var" =>
                   decs[program[i].id].owner \in DOMAIN decs
                   /\ decs[decs[program[i].id].owner].kind = "fun"
         /\ Uses = UsesOf(program)
         /\ \A v \in DOMAIN decs : decs[v].kind = "var" /\ decs[decs[v].owner].kind = "fun" =>
              v \in escapes \/ UsedAtHome(v)
<1>1. PICK L, F, home : PassesOk(L, F, home)
  BY DEF IInv
<1>2. /\ Whole(program, decs, L, F, home) /\ escapes = Flagged(program, decs, End(program))
      /\ CollectOk(program, decs, L, F, escapes, End(program), escaped_, did_modify_, loops,
                   functionType_stack_)
  BY <1>1 DEF PassesOk
<1>3. /\ DOMAIN escaped_ = DOMAIN decs /\ Sound(program, decs, escapes, escaped_)
      /\ \A i \in UsesOf(program) : decs[program[i].id].kind = "var" /\ program[i].id \in escapes
           => program[i].id \in escaped_[program[i].within]
      /\ \A i \in UsesOf(program) :
           Fun(decs, program[i].id) => escaped_[program[i].id] \subseteq escaped_[program[i].within]
  BY <1>2, CollectedAtLast
<1>4. /\ program \in Seq(Events) /\ DOMAIN program = 1..Len(program) /\ Len(program) \in Nat
      /\ Nested(program, decs, L, F, home)
  BY <1>2 DEF Whole, Nested
<1>5. \A v \in escapes : decs[v].kind = "var"
  BY <1>2 DEF Flagged
<1>6. ASSUME NEW i \in UsesOf(program)
      PROVE  /\ program[i].id \in DOMAIN decs /\ program[i].within \in DOMAIN decs
             /\ decs[program[i].within].kind = "fun"
             /\ decs[program[i].id].kind = "var" =>
                  decs[program[i].id].owner \in DOMAIN decs
                  /\ decs[decs[program[i].id].owner].kind = "fun"
  <2>1. i \in DOMAIN program /\ program[i].op = "use" /\ i \in 1..End(program)
    BY <1>4 DEF UsesOf, End
  <2>2. /\ WellUsed(program, decs, home, i) /\ program[i].id \in DOMAIN decs /\ Len(F[i]) > 0
        /\ program[i].within = F[i][Len(F[i])] /\ decs[program[i].within].kind = "fun"
    BY <1>4, <2>1, UseFacts
  <2>3. Len(F[i]) \in 1..Len(F[i])
    BY <1>4, <2>1, <2>2, StandingIs
  <2>4. F[i][Len(F[i])] \in DOMAIN decs
    BY <1>4, <2>1, <2>3, StandingIs
  <2> QED BY <2>2, <2>4 DEF WellUsed
<1>7. Uses = UsesOf(program) /\ \A i \in UsesOf(program) : i < End(program)
  BY <1>4 DEF Uses, UsesOf, End
<1>8. ASSUME NEW v \in DOMAIN decs, decs[v].kind = "var", decs[decs[v].owner].kind = "fun", v \notin escapes
      PROVE  UsedAtHome(v)
  <2>1. Met(program, v, End(program))
    BY <1>2 DEF Whole, Begun
  <2> QED BY <1>2, <1>7, <1>8, <2>1 DEF Flagged, UsedAtHome
<1> QED BY <1>3, <1>5, <1>6, <1>7, <1>8

\* A function is given exactly the flagged variables that it, or a function it
\* may call, uses (llvmtranslate::EscapesCollector).
THEOREM LiftedExactlyWhatIsUsed == Spec => []LiftedIsWhatCalleesUse
<1>1. IInv => LiftedIsWhatCalleesUse
  <2>1. SUFFICES ASSUME IInv, phase = "collected", NEW f \in DOMAIN decs
                 PROVE  escaped_[f] = {v \in escapes :
                          \E i \in Uses : program[i].id = v /\ program[i].within \in Callees(f)}
    BY DEF LiftedIsWhatCalleesUse
  <2>2. /\ DOMAIN escaped_ = DOMAIN decs /\ Sound(program, decs, escapes, escaped_)
        /\ Uses = UsesOf(program)
    BY <2>1, Gathered
  <2>3. \A i \in UsesOf(program) : program[i].id \in escapes => program[i].id \in escaped_[program[i].within]
    BY <2>1, Gathered
  <2>4. \A i \in UsesOf(program) : Fun(decs, program[i].id) =>
          escaped_[program[i].id] \subseteq escaped_[program[i].within] /\ program[i].id \in DOMAIN decs
    BY <2>1, Gathered
  <2>5. escaped_[f] = {v \in escapes : UsedBelow(program, decs, f, v)}
    BY <2>2, <2>3, <2>4, LiftedExactly
  <2>6. Calls = CallsOf(program, decs)
    BY <2>2 DEF Calls, CallsOf, IsFun, Fun
  <2>7. Callees(f) = CalleesOf(program, decs, f)
    BY <2>6 DEF Callees, CalleesOf, ClosedUnder
  <2> QED BY <2>2, <2>5, <2>7 DEF UsedBelow
<1> QED BY <1>1, PassesDoAsMeant, PTL

\* At a call, the caller has every variable the callee is to be given
\* (llvmtranslate::Translator, in translate of a CallExp).
THEOREM CallersHaveThem == Spec => []CallersHaveLifted
<1>1. IInv => CallersHaveLifted
  <2>1. SUFFICES ASSUME IInv, phase = "translated", NEW i \in Uses, IsFun(program[i].id)
                 PROVE  escaped_[program[i].id] \subseteq DOMAIN locals_[program[i].within]
    BY DEF CallersHaveLifted, Calls
  <2>2. PICK f : f = program[i].within
    OBVIOUS
  <2>3. /\ escaped_[program[i].id] \subseteq escaped_[f]
        /\ f \in DOMAIN decs /\ decs[f].kind = "fun"
    BY <2>1, <2>2, Gathered DEF IsFun, Fun
  <2>4. locals_ = WhereEachIs
    BY <2>1 DEF IInv, PassesOk
  <2>5. escaped_[f] \subseteq DOMAIN locals_[f]
    BY <2>3, <2>4 DEF WhereEachIs, Locals
  <2> QED BY <2>2, <2>3, <2>5
<1> QED BY <1>1, PassesDoAsMeant, PTL

\* An access reaches one place, of the function making it or a global, unless
\* the variable is also used at home (Translator::access_var).
THEOREM AccessesReachTheirOwn == Spec => []AccessesAreOwn
<1>1. IInv => AccessesAreOwn
  <2>1. SUFFICES ASSUME IInv, phase = "translated", NEW i \in Uses, IsVar(program[i].id),
                        NEW f, f = program[i].within, NEW v, v = program[i].id
                 PROVE  \/ \E p \in access_var(v, f) : access_var(v, f) = {p} /\ (p[1] = f \/ p[2] = "global")
                        \/ UsedAtHome(v) /\ decs[decs[v].owner].name # Main
    BY DEF AccessesAreOwn
  <2>2. Uses = UsesOf(program)
    BY <2>1, Gathered
  <2>3. /\ v \in DOMAIN decs /\ f \in DOMAIN decs /\ decs[f].kind = "fun" /\ decs[v].kind = "var"
        /\ decs[v].owner \in DOMAIN decs /\ decs[decs[v].owner].kind = "fun"
        /\ v \in escapes => v \in escaped_[f]
    BY <2>1, <2>2, Gathered DEF IsVar
  <2>4. v \in escapes \/ UsedAtHome(v)
    BY <2>1, <2>3, Gathered
  <2>5. locals_ = WhereEachIs
    BY <2>1 DEF IInv, PassesOk
  <2>6. DOMAIN locals_ = {g \in DOMAIN decs : decs[g].kind = "fun"}
        /\ \A g \in DOMAIN locals_ : locals_[g] = Locals(g)
    BY <2>5 DEF WhereEachIs
  <2>7. \A g : v \in DOMAIN Locals(g) <=> v \in escaped_[g] \/ decs[v].owner = g
    BY <2>3 DEF Locals, IsVar
  <2>8. CASE v \in DOMAIN locals_[f]
    <3>1. access_var(v, f) = {<<f, locals_[f][v]>>}
      BY <2>8 DEF access_var
    <3>2. <<f, locals_[f][v]>>[1] = f
      OBVIOUS
    <3> QED BY <3>1, <3>2
  <2>9. CASE v \notin DOMAIN locals_[f] /\ decs[decs[v].owner].name = Main
    <3>1. v \notin escapes
      BY <2>3, <2>6, <2>7, <2>9
    <3>2. \A g \in DOMAIN decs : v \notin escaped_[g]
      BY <2>1, <3>1, Gathered DEF Sound
    <3>3. PICK h : h = decs[v].owner
      OBVIOUS
    <3>4. {g \in DOMAIN locals_ : v \in DOMAIN locals_[g]} = {h}
      BY <2>3, <2>6, <2>7, <3>2, <3>3
    <3>5. access_var(v, f) = {<<h, locals_[h][v]>>}
      <4>1. access_var(v, f) = {<<g, locals_[g][v]>> : g \in {g \in DOMAIN locals_ : v \in DOMAIN locals_[g]}}
        BY <2>9 DEF access_var
      <4> QED BY <3>4, <4>1
    <3>6. locals_[h][v] = "global"
      <4>1. h \in DOMAIN locals_ /\ v \in DOMAIN Locals(h) /\ decs[h].name = Main /\ decs[v].owner = h
        BY <2>3, <2>6, <2>7, <2>9, <3>3
      <4>2. Locals(h)[v] = "global"
        BY <2>3, <4>1 DEF Locals, IsVar
      <4> QED BY <2>6, <4>1, <4>2
    <3>7. <<h, locals_[h][v]>>[2] = locals_[h][v]
      OBVIOUS
    <3> QED BY <3>5, <3>6, <3>7
  <2>10. CASE v \notin DOMAIN locals_[f] /\ decs[decs[v].owner].name # Main
    <3>1. v \notin escapes
      BY <2>3, <2>6, <2>7, <2>10
    <3> QED BY <2>4, <2>10, <3>1
  <2> QED BY <2>8, <2>9, <2>10
<1> QED BY <1>1, PassesDoAsMeant, PTL
=============================================================================

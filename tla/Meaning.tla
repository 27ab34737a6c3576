------------------------------ MODULE Meaning ------------------------------
(***************************************************************************)
(* What a checked program should do, by the definition of the language:    *)
(* the reference for the desugaring and the translation.  Nothing here is  *)
(* read from the compiler.                                                 *)
(*                                                                         *)
(* A value is an integer, a string (the codes of its characters), a record *)
(* or an array (the place of its first cell in the store, and its size),   *)
(* nil, or none.  An expression is given an environment, from declarations *)
(* to places and to functions with their own environment, and a machine m: *)
(* the store, the output, how it ended, and how long it may still run.     *)
(***************************************************************************)
EXTENDS Typing

CONSTANTS
  IntBits,    \* of an integer, two's complement
  CharBits,   \* of a character
  Fuel        \* calls and iterations a program may make

ASSUME WidthAssumption == IntBits \in Nat /\ CharBits \in 1..(IntBits - 1) /\ Fuel \in Nat

Wrap(n) == LET w == 2 ^ IntBits  h == 2 ^ (IntBits - 1) IN ((n + h) % w) - h

\* The characters that texts are written with.
Codes(s) == [i \in DOMAIN s |-> IF s[i] = "c" THEN 1 ELSE 2]

Int_v(n) == [int |-> Wrap(n)]
Bool_v(b) == [int |-> IF b THEN 1 ELSE 0]
String_v(s) == [str |-> s]
Cells_v(at, size) == [at |-> at, size |-> size]
Nil_v == Cells_v(0, 0)
None_v == [none |-> TRUE]
Undefined_v == [undefined |-> TRUE]   \* in the store only
IsInt(v) == "int" \in DOMAIN v
IsString(v) == "str" \in DOMAIN v
IsCells(v) == "at" \in DOMAIN v

Machine == [mem |-> <<>>, out |-> <<>>, st |-> "run", fuel |-> Fuel]
Given(m, v) == [m |-> m, v |-> v]
Ended(m, st) == [m |-> [m EXCEPT !.st = st], v |-> None_v]
Spent(m) == IF m.fuel = 0 THEN [m EXCEPT !.st = "long"] ELSE [m EXCEPT !.fuel = @ - 1]
Running(m) == m.st = "run"
Stored(m, vs) == [m EXCEPT !.mem = @ \o vs]

-----------------------------------------------------------------------------
\* -1, 0 or 1, as a is before, is, or is after b.
RECURSIVE Order(_, _)
Order(a, b) ==
  IF a = <<>> \/ b = <<>> THEN IF a = b THEN 0 ELSE IF a = <<>> THEN -1 ELSE 1
  ELSE IF Head(a) = Head(b) THEN Order(Tail(a), Tail(b))
  ELSE IF Head(a) < Head(b) THEN -1 ELSE 1

Compare(op, c) ==
  Bool_v(CASE op = "=" -> c = 0 [] op = "<>" -> c # 0 [] op = "<" -> c < 0
           [] op = "<=" -> c <= 0 [] op = ">" -> c > 0 [] op = ">=" -> c >= 0)

Operation(op, a, b, m) ==
  CASE op \in {"+", "-", "*"} ->
         IF ~IsInt(a) \/ ~IsInt(b) THEN Ended(m, "wrong")
         ELSE Given(m, Int_v(IF op = "+" THEN a.int + b.int
                             ELSE IF op = "-" THEN a.int - b.int ELSE a.int * b.int))
    [] op \notin {"+", "-", "*"} ->
         IF IsInt(a) /\ IsInt(b) THEN Given(m, Compare(op, a.int - b.int))
         ELSE IF IsString(a) /\ IsString(b) THEN Given(m, Compare(op, Order(a.str, b.str)))
         ELSE IF op \in {"=", "<>"} /\ DOMAIN a = DOMAIN b
         THEN Given(m, Compare(op, IF a = b THEN 0 ELSE 1))
         ELSE Ended(m, "wrong")

\* The primitives, on arguments of the types they declare.
Printed_v(m, x) == Given([m EXCEPT !.out = Append(@, x)], None_v)
Primitive_v(name, a, m) ==
  CASE name = "print_int" -> Printed_v(m, a[1])
    [] name = "print" -> Printed_v(m, a[1])
    [] name \in {"print_err", "flush"} -> Given(m, None_v)
    [] name = "getchar" -> Given(m, String_v(<<>>))
    [] name = "ord" -> Given(m, Int_v(IF a[1].str = <<>> THEN -1 ELSE a[1].str[1]))
    [] name = "chr" -> IF a[1].int \notin 0..(2 ^ CharBits - 1) THEN Ended(m, "exit")
                       ELSE Given(m, String_v(IF a[1].int = 0 THEN <<>> ELSE <<a[1].int>>))
    [] name = "size" -> Given(m, Int_v(Len(a[1].str)))
    [] name = "streq" -> Given(m, Bool_v(a[1].str = a[2].str))
    [] name = "strcmp" -> Given(m, Int_v(Order(a[1].str, a[2].str)))
    [] name = "substring" ->
         IF a[2].int < 0 \/ a[3].int < 0 \/ a[2].int + a[3].int > Len(a[1].str)
         THEN Ended(m, "exit")
         ELSE Given(m, String_v(SubSeq(a[1].str, a[2].int + 1, a[2].int + a[3].int)))
    [] name = "concat" -> Given(m, String_v(a[1].str \o a[2].str))
    [] name = "not" -> Given(m, Bool_v(a[1].int = 0))
    [] name = "exit" -> Ended(m, "exit")

-----------------------------------------------------------------------------
RECURSIVE value(_, _, _), values(_, _, _), place(_, _, _), while(_, _, _),
          for(_, _, _, _, _), declared(_, _, _)

\* Expressions from left to right, as long as the program runs.
values(l, env, m) ==
  IF l = <<>> THEN Given(m, <<>>)
  ELSE LET h == value(Head(l), env, m) IN
       IF ~Running(h.m) THEN Given(h.m, <<>>)
       ELSE LET r == values(Tail(l), env, h.m) IN Given(r.m, <<h.v>> \o r.v)

\* The place of a variable; index and base are evaluated first.
place(e, env, m) ==
  CASE e.k = "SimpleVar" -> IF e.def \in DOMAIN env THEN Given(m, env[e.def])
                            ELSE Ended(m, "wrong")
    [] e.k = "FieldVar" ->
         LET r == value(e.m.var[1], env, m) IN
         IF ~Running(r.m) THEN r
         ELSE IF ~IsCells(r.v) THEN Ended(r.m, "wrong")
         ELSE IF r.v.at = 0 THEN Ended(r.m, "nil")
         ELSE Given(r.m, r.v.at - 1 + e.def)
    [] e.k = "SubscriptVar" ->
         LET r == values(e.m.var \o e.m.index, env, m) IN
         IF ~Running(r.m) THEN r
         ELSE IF ~IsCells(r.v[1]) \/ ~IsInt(r.v[2]) THEN Ended(r.m, "wrong")
         ELSE IF r.v[2].int \notin 0..(r.v[1].size - 1) THEN Ended(r.m, "bounds")
         ELSE Given(r.m, r.v[1].at + r.v[2].int)

while(e, env, m) ==
  LET t == value(e.m.test[1], env, Spent(m)) IN
  IF ~Running(t.m) THEN t
  ELSE IF ~IsInt(t.v) THEN Ended(t.m, "wrong")
  ELSE IF t.v.int = 0 THEN Given(t.m, None_v)
  ELSE LET b == value(e.m.body[1], env, t.m) IN
       IF b.m.st = "break" THEN Given([b.m EXCEPT !.st = "run"], None_v)
       ELSE IF Running(b.m) THEN while(e, env, b.m) ELSE b

\* The body for each value of the variable from i to hi.
for(e, i, hi, env, m) ==
  IF i > hi THEN Given(m, None_v)
  ELSE LET b == value(e.m.body[1], env, Spent([m EXCEPT !.mem[env[e.m.vardec[1].def]] = Int_v(i)])) IN
       IF b.m.st = "break" THEN Given([b.m EXCEPT !.st = "run"], None_v)
       ELSE IF Running(b.m) THEN for(e, i + 1, hi, env, b.m) ELSE b

\* A call: the environment of the function with its chunk and its arguments.
Call(f, args, m) ==
  LET chunk == [d \in {f.chunk[i].def : i \in DOMAIN f.chunk} |->
                  [f EXCEPT !.dec = CHOOSE c \in ToSet(f.chunk) : c.def = d]]
      formals == f.dec.m.formals[1].m.decs
      at(d) == CHOOSE i \in DOMAIN formals : formals[i].def = d
      vars == [d \in {formals[i].def : i \in DOMAIN formals} |-> Len(m.mem) + at(d)] IN
  value(f.dec.m.body[1], vars @@ chunk @@ f.env, Spent(Stored(m, args)))

\* The declarations of a let: the environment is the value.
declared(l, env, m) ==
  IF l = <<>> \/ ~Running(m) THEN Given(m, env)
  ELSE LET c == Head(l) IN
       CASE c.k = "TypeChunk" -> declared(Tail(l), env, m)
         [] c.k = "FunctionChunk" ->
              declared(Tail(l), [d \in {c.m.decs[i].def : i \in DOMAIN c.m.decs} |->
                [chunk |-> c.m.decs, env |-> env,
                 dec |-> CHOOSE f \in ToSet(c.m.decs) : f.def = d]] @@ env, m)
         [] c.k = "VarChunk" ->
              LET v == value(c.m.decs[1].m.init[1], env, m) IN
              declared(Tail(l), (c.m.decs[1].def :> Len(v.m.mem) + 1) @@ env, Stored(v.m, <<v.v>>))

value(e, env, m) ==
  IF ~Running(m) THEN Given(m, None_v)
  ELSE
  CASE e.k = "IntExp" -> Given(m, Int_v(Number[e.val[1]]))
    [] e.k = "StringExp" -> Given(m, String_v(Codes(e.val)))
    [] e.k = "NilExp" -> Given(m, Nil_v)
    [] e.k \in Below("Var") ->
         LET p == place(e, env, m) IN
         IF ~Running(p.m) THEN p
         ELSE IF p.m.mem[p.v] = Undefined_v THEN Ended(p.m, "wrong") ELSE Given(p.m, p.m.mem[p.v])
    [] e.k = "OpExp" ->
         LET r == values(e.m.left \o e.m.right, env, m) IN
         IF ~Running(r.m) THEN r ELSE Operation(e.val[1], r.v[1], r.v[2], r.m)
    [] e.k = "SeqExp" ->
         LET r == values(e.m.exps, env, m) IN
         IF ~Running(r.m) THEN r ELSE Given(r.m, IF r.v = <<>> THEN None_v ELSE Last(r.v))
    [] e.k = "AssignExp" ->
         LET p == place(e.m.var[1], env, m)  v == value(e.m.exp[1], env, p.m) IN
         IF ~Running(v.m) THEN v ELSE Given([v.m EXCEPT !.mem[p.v] = v.v], None_v)
    [] e.k = "IfExp" ->
         LET t == value(e.m.test[1], env, m) IN
         IF ~Running(t.m) THEN t
         ELSE IF ~IsInt(t.v) THEN Ended(t.m, "wrong")
         ELSE IF t.v.int # 0 THEN value(e.m.thenclause[1], env, t.m)
         ELSE IF e.m.elseclause = <<>> THEN Given(t.m, None_v)
         ELSE value(e.m.elseclause[1], env, t.m)
    [] e.k = "WhileExp" -> while(e, env, m)
    [] e.k = "ForExp" ->
         LET r == values(e.m.vardec[1].m.init \o e.m.hi, env, m) IN
         IF ~Running(r.m) THEN r
         ELSE IF ~IsInt(r.v[1]) \/ ~IsInt(r.v[2]) THEN Ended(r.m, "wrong")
         ELSE for(e, r.v[1].int, r.v[2].int,
                  (e.m.vardec[1].def :> Len(r.m.mem) + 1) @@ env, Stored(r.m, <<r.v[1]>>))
    [] e.k = "BreakExp" -> Ended(m, "break")
    [] e.k = "LetExp" ->
         LET d == declared(e.m.chunks[1].m.chunks, env, m) IN value(e.m.body[1], d.v, d.m)
    [] e.k = "CallExp" ->
         LET r == values(e.m.args, env, m) IN
         IF ~Running(r.m) THEN r
         ELSE IF e.def \in DOMAIN env THEN Call(env[e.def], r.v, r.m)
         ELSE Primitive_v(e.val[1], r.v, r.m)
    [] e.k = "ArrayExp" ->
         LET r == values(e.m.size \o e.m.init, env, m) IN
         IF ~Running(r.m) THEN r
         ELSE IF r.v[1].int < 0 THEN Ended(r.m, "bounds")
         ELSE Given(Stored(r.m, [i \in 1..r.v[1].int |-> r.v[2]]),
                    Cells_v(Len(r.m.mem) + 1, r.v[1].int))
    [] e.k = "RecordExp" ->
         LET r == values([i \in DOMAIN e.m.fields |-> e.m.fields[i].m.init[1]], env, m)
             of(i) == SelectLastInSeq(e.m.fields, LAMBDA f : f.def = i) IN
         IF ~Running(r.m) THEN r
         ELSE Given(Stored(r.m, [i \in 1..e.def |-> IF of(i) = 0 THEN Undefined_v ELSE r.v[of(i)]]),
                    Cells_v(Len(r.m.mem) + 1, e.def))

\* What a checked program does.
RunOf(chunk) ==
  LET r == value(chunk.m.decs[1].m.body[1], <<>>, Machine) IN [out |-> r.m.out, st |-> r.m.st]
=============================================================================

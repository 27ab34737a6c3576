------------------------------- MODULE Typing -------------------------------
(***************************************************************************)
(* type::TypeChecker (src/src/type/type-checker.cc) and the types it makes *)
(* (src/src/type).                                                         *)
(*                                                                         *)
(* A type is known by its place in a table, as the program's is by its     *)
(* address: two record types of the same fields are two types.  Checking a *)
(* tree gives the tree with, on each node, ty, its type, and def, the      *)
(* declaration or the loop it is or refers to (what Binder sets, with the  *)
(* same scopes), and the state of the checker.  For a field def is its     *)
(* place in the record, for a record the number of its fields.  An error   *)
(* is never taken back: how the checker goes on after one is left out.     *)
(***************************************************************************)
EXTENDS Integers, Trees

TInt == 1
TString == 2
TVoid == 3

Int_ == [k |-> "Int"]
String_ == [k |-> "String"]
Void_ == [k |-> "Void"]
Nil_ == [k |-> "Nil", to |-> 0]   \* record_type_, null at first
Named_ == [k |-> "Named", to |-> 0]
Record_(fields) == [k |-> "Record", fields |-> fields]
Array_(type) == [k |-> "Array", to |-> type]
Function_(formals, result) == [k |-> "Function", formals |-> formals, result |-> result]

\* type::Type::actual.  A name without a type is never asked for its own.
RECURSIVE actual(_, _)
actual(T, t) == IF T[t].k = "Named" THEN actual(T, T[t].to) ELSE t

\* compatible_with: a record with the nil itself, nil with what is a record.
RECURSIVE compatible(_, _, _)
compatible(T, a, b) ==
  CASE T[a].k = "Named" -> T[a].to # 0 /\ compatible(T, T[a].to, b)
    [] T[a].k = "Nil" -> T[actual(T, b)].k = "Record"
    [] T[a].k = "Record" -> T[b].k = "Nil" \/ a = actual(T, b)
    [] T[a].k \in {"Int", "String", "Void", "Array"} -> a = actual(T, b)
    [] T[a].k = "Function" -> a = b

\* Whether a name is not a name of itself.
RECURSIVE sound(_, _, _)
sound(T, t, visited) ==
  \/ t = 0 \/ T[t].k # "Named"
  \/ t \notin visited /\ sound(T, T[t].to, visited \union {t})

field_index(T, t, name) == SelectInSeq(T[t].fields, LAMBDA f : f.name = name)
field_type(T, t, name) == T[t].fields[field_index(T, t, name)].ty

-----------------------------------------------------------------------------
(* The checker's state: the table of types, the types of the declarations  *)
(* in the order they are met, the scopes, the loops' variables and the     *)
(* innermost loop.                                                         *)

Extended(f, x, y) == [z \in DOMAIN f \union {x} |-> IF z = x THEN y ELSE f[z]]

\* data/prelude.tih
Primitives == <<
  <<"print", <<TString>>, TVoid>>, <<"print_err", <<TString>>, TVoid>>,
  <<"print_int", <<TInt>>, TVoid>>, <<"flush", <<>>, TVoid>>, <<"getchar", <<>>, TString>>,
  <<"ord", <<TString>>, TInt>>, <<"chr", <<TInt>>, TString>>, <<"size", <<TString>>, TInt>>,
  <<"streq", <<TString, TString>>, TInt>>, <<"strcmp", <<TString, TString>>, TInt>>,
  <<"substring", <<TString, TInt, TInt>>, TString>>,
  <<"concat", <<TString, TString>>, TString>>, <<"not", <<TInt>>, TInt>>, <<"exit", <<TInt>>, TVoid>>>>
IsPrimitive(def) == def <= Len(Primitives)

Prelude ==
  LET P(name) == SelectInSeq(Primitives, LAMBDA p : p[1] = name) IN
  [types |-> <<Int_, String_, Void_>> \o
             [i \in DOMAIN Primitives |-> Function_(Primitives[i][2], Primitives[i][3])],
   decs |-> [i \in DOMAIN Primitives |-> 3 + i],
   vars |-> <<>>, typs |-> <<>>,
   funs |-> [x \in {Primitives[i][1] : i \in DOMAIN Primitives} |-> P(x)],
   read_only |-> {}, loop |-> 0, err |-> FALSE]

\* Declarations and scopes.
Declared(s, ty) == [s EXCEPT !.decs = Append(@, ty)]
Created(s, type) == [s EXCEPT !.types = Append(@, type)]
ScopeOf(s, old) == [s EXCEPT !.vars = old.vars, !.funs = old.funs, !.typs = old.typs,
                             !.loop = old.loop, !.read_only = old.read_only]

Check(s, ok) == IF ok THEN s ELSE [s EXCEPT !.err = TRUE]
check_type(s, t, expected) == Check(s, compatible(s.types, t, expected))

\* The same, for a nil on the left only.
check_types_Bug(s, t1, t2) ==
  LET a == actual(s.types, t1)  b == actual(s.types, t2) IN
  IF ~compatible(s.types, t1, t2) THEN [s EXCEPT !.err = TRUE]
  ELSE IF s.err \/ s.types[a].k # "Nil" THEN s ELSE [s EXCEPT !.types[a].to = b]

\* Compatible types, one of which may be that of a nil: it takes the other's.
check_types(s, t1, t2) ==
  LET a == actual(s.types, t1)  b == actual(s.types, t2)
      set(T, x, y) == IF T[x].k = "Nil" THEN [T EXCEPT ![x].to = y] ELSE T IN
  IF ~compatible(s.types, t1, t2) THEN [s EXCEPT !.err = TRUE]
  ELSE IF s.err THEN s
  ELSE [s EXCEPT !.types = set(set(@, a, b), b, a)]

Typed(e, ty, def, s) ==
  [s |-> s, t |-> [k |-> e.k, val |-> e.val, m |-> e.m, ty |-> ty, def |-> def]]
Wrong(e, s) == Typed(e, TVoid, 0, [s EXCEPT !.err = TRUE])

-----------------------------------------------------------------------------
(* The visits, after the members were visited.                             *)

SimpleVar_type(e, s) ==
  IF e.val[1] \in DOMAIN s.vars
  THEN LET d == s.vars[e.val[1]] IN Typed(e, s.decs[d], d, s) ELSE Wrong(e, s)

FieldVar_type(e, s) ==
  LET r == actual(s.types, e.m.var[1].ty) IN
  IF s.types[r].k = "Record" /\ field_index(s.types, r, e.val[1]) # 0
  THEN Typed(e, field_type(s.types, r, e.val[1]), field_index(s.types, r, e.val[1]), s)
  ELSE Wrong(e, s)

SubscriptVar_type(e, s) ==
  LET a == s.types[actual(s.types, e.m.var[1].ty)]
      s1 == check_type(s, e.m.index[1].ty, TInt) IN
  IF a.k = "Array" THEN Typed(e, a.to, 0, s1) ELSE Wrong(e, s1)

NilExp_type(e, s) == Typed(e, Len(s.types) + 1, 0, Created(s, Nil_))

\* Each initialized field is one of the record: the record may have others.
RecordExp_type(e, s) ==
  LET r == actual(s.types, e.m.type_name[1].ty)
      init(s1, f) ==
        IF field_index(s.types, r, f.val[1]) = 0 THEN [s1 EXCEPT !.err = TRUE]
        ELSE check_types(s1, f.m.init[1].ty, field_type(s1.types, r, f.val[1])) IN
  IF s.types[r].k # "Record" THEN Wrong(e, s)
  ELSE Typed([e EXCEPT !.m.fields = [i \in DOMAIN @ |->
                [@[i] EXCEPT !.def = field_index(s.types, r, e.m.fields[i].val[1])]]],
             e.m.type_name[1].ty, Len(s.types[r].fields), FoldLeft(init, s, e.m.fields))

OpExp_type(e, s) ==
  LET l == e.m.left[1].ty  r == e.m.right[1].ty IN
  IF e.val[1] \in {"+", "-", "*", "/"}
  THEN Typed(e, TInt, 0, check_type(check_type(s, l, TInt), r, TInt))
  ELSE Typed(e, TInt, 0, check_types(s, l, r))

CallExp_type(e, s) ==
  IF e.val[1] \notin DOMAIN s.funs THEN Wrong(e, s)
  ELSE LET d == s.funs[e.val[1]]
           f == s.types[s.decs[d]]
           arg(s1, i) == check_types(s1, f.formals[i], e.m.args[i].ty) IN
       IF Len(f.formals) # Len(e.m.args) THEN Wrong(e, s)
       ELSE Typed(e, f.result, d, FoldLeftDomain(arg, s, e.m.args))

IfExp_type(e, s) ==
  LET s1 == check_type(s, e.m.test[1].ty, TInt)
      then == e.m.thenclause[1].ty
      else == IF e.m.elseclause = <<>> THEN TVoid ELSE e.m.elseclause[1].ty
      s2 == IF e.m.elseclause = <<>> THEN Check(s1, then = TVoid)
                                     ELSE check_types(s1, then, else) IN
  Typed(e, IF s.types[then].k = "Nil" THEN else ELSE then, 0, s2)

WhileExp_type(e, s) ==
  Typed(e, TVoid, s.loop, check_type(check_type(s, e.m.test[1].ty, TInt), e.m.body[1].ty, TVoid))

ForExp_type(e, s) ==
  Typed(e, TVoid, s.loop,
        check_type(check_type(check_type(s, e.m.vardec[1].ty, TInt), e.m.hi[1].ty, TInt),
                   e.m.body[1].ty, TVoid))

SeqExp_type(e, s) ==
  Typed(e, IF e.m.exps = <<>> THEN TVoid ELSE Last(e.m.exps).ty, 0, s)

\* The assignment without the check of its types.
AssignExp_type_Bug(e, s) == Typed(e, TVoid, 0, Check(s, e.m.var[1].def \notin s.read_only))

\* The variable of a loop is not assigned to.
AssignExp_type(e, s) ==
  LET v == e.m.var[1] IN
  Typed(e, TVoid, 0, Check(check_types(s, v.ty, e.m.exp[1].ty), v.def \notin s.read_only))

ArrayExp_type(e, s) ==
  LET a == actual(s.types, e.m.type_name[1].ty) IN
  IF s.types[a].k # "Array" THEN Wrong(e, s)
  ELSE Typed(e, a, 0, check_types(check_type(s, e.m.size[1].ty, TInt),
                                  s.types[a].to, e.m.init[1].ty))

\* The type of a variable is the one it is given, or that of its initial value.
VarDec_type(e, s) ==
  LET d == Len(s.decs) + 1
      init == IF e.m.init = <<>> THEN TVoid ELSE e.m.init[1].ty
      ty == IF e.m.type_name = <<>> THEN init ELSE e.m.type_name[1].ty
      s1 == IF e.m.type_name = <<>> THEN Check(s, s.types[init].k # "Nil")
            ELSE IF e.m.init = <<>> THEN s ELSE check_types(s, ty, init)
      s2 == Declared(s1, ty) IN
  Typed(e, ty, d, [s2 EXCEPT !.vars = Extended(@, e.val[1], d)])

NameTy_type(e, s) ==
  CASE e.val[1] = "int" -> Typed(e, TInt, 0, s)
    [] e.val[1] = "string" -> Typed(e, TString, 0, s)
    [] e.val[1] \in DOMAIN s.typs -> Typed(e, s.typs[e.val[1]], 0, s)
    [] OTHER -> Wrong(e, s)

RecordTy_type(e, s) ==
  LET fields == [i \in DOMAIN e.m.fields |->
                   [name |-> e.m.fields[i].val[1], ty |-> e.m.fields[i].m.type_name[1].ty]]
      names == [i \in DOMAIN fields |-> fields[i].name] IN
  Typed(e, Len(s.types) + 1, 0, Created(Check(s, IsInjective(names)), Record_(fields)))

ArrayTy_type(e, s) ==
  Typed(e, Len(s.types) + 1, 0, Created(s, Array_(e.m.base_type[1].ty)))

Visited(e, s) ==
  CASE e.k = "SimpleVar" -> SimpleVar_type(e, s)
    [] e.k = "FieldVar" -> FieldVar_type(e, s)
    [] e.k = "SubscriptVar" -> SubscriptVar_type(e, s)
    [] e.k = "NilExp" -> NilExp_type(e, s)
    [] e.k = "IntExp" -> Typed(e, TInt, 0, s)
    [] e.k = "StringExp" -> Typed(e, TString, 0, s)
    [] e.k = "RecordExp" -> RecordExp_type(e, s)
    [] e.k = "OpExp" -> OpExp_type(e, s)
    [] e.k = "CallExp" -> CallExp_type(e, s)
    [] e.k = "BreakExp" -> Typed(e, TVoid, s.loop, Check(s, s.loop # 0))
    [] e.k = "IfExp" -> IfExp_type(e, s)
    [] e.k = "WhileExp" -> WhileExp_type(e, s)
    [] e.k = "ForExp" -> ForExp_type(e, s)
    [] e.k = "LetExp" -> Typed(e, e.m.body[1].ty, 0, s)
    [] e.k = "SeqExp" -> SeqExp_type(e, s)
    [] e.k = "AssignExp" -> AssignExp_type(e, s)
    [] e.k = "ArrayExp" -> ArrayExp_type(e, s)
    [] e.k = "VarDec" -> VarDec_type(e, s)
    [] e.k = "NameTy" -> NameTy_type(e, s)
    [] e.k = "RecordTy" -> RecordTy_type(e, s)
    [] e.k = "ArrayTy" -> ArrayTy_type(e, s)
    [] OTHER -> Typed(e, TVoid, 0, s)

-----------------------------------------------------------------------------
(* The traversal.                                                          *)

RECURSIVE type(_, _), types(_, _), typed(_, _, _), headers(_, _), bodies(_, _)

\* A list of nodes; and the members of a node from the i-th on.  What is visited
\* after an error can only add others, and is left out.
types(l, s) ==
  IF s.err \/ l = <<>> THEN [s |-> s, t |-> <<>>]
  ELSE LET h == type(Head(l), s)  r == types(Tail(l), h.s) IN
       [s |-> r.s, t |-> <<h.t>> \o r.t]
typed(e, i, s) ==
  IF s.err \/ i > Len(Class[e.k].members) THEN [s |-> s, t |-> e]
  ELSE LET x == Class[e.k].members[i].name  r == types(e.m[x], s) IN
       typed([e EXCEPT !.m[x] = r.t], i + 1, r.s)

\* chunk_visit: all the headers of a chunk, then all the bodies.
TypeDec_header(e, s) ==
  LET s1 == Created(s, Named_) IN
  Typed(e, Len(s1.types), 0, [s1 EXCEPT !.typs = Extended(@, e.val[1], Len(s1.types))])
TypeDec_body(e, s) ==
  LET ty == type(e.m.ty[1], s)
      T == [ty.s.types EXCEPT ![e.ty].to = ty.t.ty] IN
  [s |-> IF sound(T, e.ty, {}) THEN [ty.s EXCEPT !.types = T]
         ELSE [ty.s EXCEPT !.types[e.ty].to = TVoid, !.err = TRUE],
   t |-> [e EXCEPT !.m.ty = <<ty.t>>]]

FunctionDec_header(e, s) ==
  LET fs == types(e.m.formals[1].m.decs, s)
      r == types(e.m.result, fs.s)
      s1 == Created(ScopeOf(r.s, s),
                    Function_([i \in DOMAIN fs.t |-> fs.t[i].ty],
                              IF r.t = <<>> THEN TVoid ELSE r.t[1].ty))
      d == Len(s1.decs) + 1
      formals == [k |-> "VarChunk", val |-> <<>>, m |-> [decs |-> fs.t], ty |-> TVoid, def |-> 0] IN
  Typed([e EXCEPT !.m.formals = <<formals>>, !.m.result = r.t], Len(s1.types), d,
        [Declared(s1, Len(s1.types)) EXCEPT !.funs = Extended(@, e.val[1], d)])
FunctionDec_body(e, s) ==
  LET param(v, f) == Extended(v, f.val[1], f.def)
      vars == FoldLeft(param, s.vars, e.m.formals[1].m.decs)
      b == types(e.m.body, [s EXCEPT !.vars = vars])
      s1 == ScopeOf(b.s, s) IN
  [s |-> IF b.t = <<>> THEN s1 ELSE check_types(s1, s.types[e.ty].result, b.t[1].ty),
   t |-> [e EXCEPT !.m.body = b.t]]

headers(l, s) ==
  IF l = <<>> THEN [s |-> s, t |-> <<>>]
  ELSE LET h == IF Head(l).k = "TypeDec" THEN TypeDec_header(Head(l), s)
                                         ELSE FunctionDec_header(Head(l), s)
           r == headers(Tail(l), h.s) IN
       [s |-> r.s, t |-> <<h.t>> \o r.t]
bodies(l, s) ==
  IF l = <<>> THEN [s |-> s, t |-> <<>>]
  ELSE LET h == IF Head(l).k = "TypeDec" THEN TypeDec_body(Head(l), s)
                                         ELSE FunctionDec_body(Head(l), s)
           r == bodies(Tail(l), h.s) IN
       [s |-> r.s, t |-> <<h.t>> \o r.t]

chunk_visit(e, s) ==
  LET h == headers(e.m.decs, s)  b == bodies(h.t, h.s) IN
  Typed([e EXCEPT !.m.decs = b.t], TVoid, 0, b.s)

\* A loop is declared; the variable of a for is seen by its upper bound, and is
\* read-only in its body.
Loop(s) == [Declared(s, TVoid) EXCEPT !.loop = Len(s.decs) + 1]
ForExp_typed(e, s) ==
  LET v == types(e.m.vardec, s)
      h == types(e.m.hi, v.s)
      b == types(e.m.body, [h.s EXCEPT !.read_only = @ \union {v.t[i].def : i \in DOMAIN v.t}]) IN
  [s |-> b.s, t |-> [e EXCEPT !.m.vardec = v.t, !.m.hi = h.t, !.m.body = b.t]]

type(e, s) ==
  IF e.k \in {"TypeChunk", "FunctionChunk"} THEN chunk_visit(e, s)
  ELSE LET in == IF e.k \in {"WhileExp", "ForExp"} THEN Loop(s) ELSE s
           r == IF e.k = "ForExp" THEN ForExp_typed(e, in) ELSE typed(e, 1, in)
           v == IF r.s.err THEN Wrong(r.t, r.s) ELSE Visited(r.t, r.s) IN
       IF e.k \in {"WhileExp", "ForExp", "LetExp"}
       THEN [t |-> v.t, s |-> ScopeOf(v.s, s)] ELSE v

\* A program is the body of a function, after the prelude (parse::parse).
Program(e) ==
  make_FunctionChunk(<<make_FunctionDec("_main", make_VarChunk(<<>>), <<>>,
                         <<make_SeqExp(<<e, make_SeqExp(<<>>)>>)>>)>>)
Main == Len(Primitives) + 1

types_check(chunk) == type(chunk, Prelude)
=============================================================================

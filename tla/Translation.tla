---------------------------- MODULE Translation ----------------------------
(***************************************************************************)
(* llvmtranslate::Translator and LLVMTypeVisitor (src/src/llvmtranslate):  *)
(* from a checked and desugared tree to the code of its functions.         *)
(*                                                                         *)
(* Code is a sequence of basic blocks, each a function's, each a sequence  *)
(* of instructions.  The renamer made names unique: a function is known by *)
(* its declaration.  An operand is a constant, a register, an argument, a  *)
(* global variable, or null_ where the C++ value is a null pointer, whose  *)
(* use breaks the compiler.                                                *)
(***************************************************************************)
EXTENDS Typing

ConstInt(n) == [int |-> n]
Reg(r) == [reg |-> r]
Arg(i) == [arg |-> i]
Global(d) == [global |-> d]
GlobalString(s, n) == [string |-> s, name |-> n]
Null == [null |-> TRUE]        \* ConstantPointerNull
null_ == [nothing |-> TRUE]

\* The builder: the current function and block, the blocks, the variables of
\* each function, the first block of each function and the exit of each loop.
Translator(s, escaped) ==
  [T |-> s.types, decs |-> s.decs, escaped |-> escaped, fn |-> 0, bb |-> 0, code |-> <<>>,
   regs |-> 0, locals |-> <<>>, entry |-> <<>>, loop_end |-> <<>>, structs |-> {}, ltype |-> "void", value |-> null_, crash |-> FALSE]

Value(b, v) == [b EXCEPT !.value = v]
Crash(b) == [b EXCEPT !.crash = TRUE]
Used(b, vs) == IF null_ \in ToSet(vs) THEN Crash(b) ELSE b

\* An instruction at the end of the current block, with a result or without.
Emit(b, op, args) ==
  [Used(b, args) EXCEPT !.code[b.bb].ins = Append(@, [op |-> op, dst |-> 0, args |-> args])]
Create(b, op, args) ==
  [Used(b, args) EXCEPT !.code[b.bb].ins = Append(@, [op |-> op, dst |-> b.regs + 1, args |-> args]),
                        !.regs = @ + 1, !.value = Reg(b.regs + 1)]
Branch(b, op, args, targets) ==
  [Used(b, args) EXCEPT !.code[b.bb].ins =
     Append(@, [op |-> op, dst |-> 0, args |-> args, targets |-> targets])]
BasicBlock(b) == [b EXCEPT !.code = Append(@, [fn |-> b.fn, ins |-> <<>>])]
SetInsertPoint(b, bb) == [b EXCEPT !.bb = bb]

-----------------------------------------------------------------------------
(* LLVMTypeVisitor.  A record's struct is made before its fields' types;   *)
(* an array's type is made of its elements', whatever they are.            *)
RECURSIVE visit_type(_, _, _), visit_fields(_, _, _)
visit_type(b, t, open) ==
  CASE b.T[t].k = "Int" -> [b EXCEPT !.ltype = "i32"]
    [] b.T[t].k = "Void" -> [b EXCEPT !.ltype = "void"]
    [] b.T[t].k = "String" -> [b EXCEPT !.ltype = "ptr"]
    [] b.T[t].k = "Nil" -> IF b.T[t].to = 0 THEN Crash(b) ELSE visit_type(b, b.T[t].to, open)
    [] b.T[t].k = "Named" -> visit_type(b, actual(b.T, t), open)
    [] b.T[t].k = "Record" ->
         IF t \in b.structs THEN [b EXCEPT !.ltype = "ptr"]
         ELSE [visit_fields([b EXCEPT !.structs = @ \union {t}], b.T[t].fields, open)
                 EXCEPT !.ltype = "ptr"]
    [] b.T[t].k = "Array" ->
         IF t \in open THEN Crash(b)   \* the visitor calls itself without end
         ELSE [visit_type(b, b.T[t].to, open \union {t}) EXCEPT !.ltype = "ptr"]
visit_fields(b, fields, open) ==
  IF fields = <<>> \/ b.crash THEN b
  ELSE visit_fields(visit_type(b, Head(fields).ty, open), Tail(fields), open)

llvm_type(b, t) == visit_type(b, t, {})
ltype(b, t) == llvm_type(b, t).ltype

\* An alloca is put at the beginning of the function; there is none of void.
create_alloca(b, t) ==
  LET l == llvm_type(b, t) IN
  IF l.crash \/ l.ltype = "void" THEN Crash(l)
  ELSE [l EXCEPT !.code[l.entry[l.fn]].ins = <<[op |-> "alloca", dst |-> l.regs + 1, args |-> <<>>]>> \o @,
                 !.regs = @ + 1, !.value = Reg(l.regs + 1)]

\* The variable in the current function, or else in any that has it.
local(b, d) ==
  LET has == {f \in DOMAIN b.locals : d \in DOMAIN b.locals[f]} IN
  IF has = {} THEN null_
  ELSE LET f == IF b.fn \in has THEN b.fn ELSE CHOOSE f \in has : TRUE IN b.locals[f][d]
SetLocal(b, d, v) ==
  LET own == IF b.fn \in DOMAIN b.locals THEN b.locals[b.fn] ELSE <<>> IN
  [b EXCEPT !.locals = Extended(@, b.fn, Extended(own, d, v))]

-----------------------------------------------------------------------------
RECURSIVE translate(_, _), translated(_, _, _)

\* Nodes in their order: their values are collected.
translated(l, b, vs) ==
  IF l = <<>> \/ b.crash THEN [b |-> b, vs |-> vs]
  ELSE LET h == translate(Head(l), b) IN translated(Tail(l), h, Append(vs, h.value))

access_var(e, b) ==
  CASE e.k = "SimpleVar" -> Value(b, local(b, e.def))
    [] e.k = "SubscriptVar" ->
         LET r == translated(e.m.var \o e.m.index, b, <<>>) IN
         IF r.b.crash THEN r.b ELSE Create(r.b, "gep", r.vs)
    [] e.k = "FieldVar" ->
         LET v == translate(e.m.var[1], b)
             record == actual(b.T, e.m.var[1].ty)
             index == field_index(b.T, record, e.val[1]) - 1 IN
         IF v.crash THEN v ELSE Create(llvm_type(v, record), "gep", <<v.value, ConstInt(index)>>)

\* A variable without value is 0.
Var_code(e, b) ==
  LET p == access_var(e, b)  l == llvm_type(p, e.ty) IN
  IF l.crash THEN l
  ELSE IF l.ltype = "void" THEN Value(l, ConstInt(0)) ELSE Create(l, "load", <<p.value>>)

NilExp_code(e, b) ==
  LET to == b.T[e.ty].to IN   \* the record of the nil
  IF to = 0 THEN Crash(b) ELSE Value(llvm_type(b, actual(b.T, to)), Null)

StringExp_code(e, b) ==
  [Value(b, GlobalString(e.val, b.regs + 1)) EXCEPT !.regs = @ + 1]

RECURSIVE RecordFields(_, _, _, _)
RecordFields(fields, record, malloc, b) ==
  IF fields = <<>> \/ b.crash THEN b
  ELSE LET f == Head(fields)
           p == Create(b, "gep", <<malloc, ConstInt(field_index(b.T, record, f.val[1]) - 1)>>)
           v == translate(f.m.init[1], p) IN
       RecordFields(Tail(fields), record, malloc,
                    IF v.crash THEN v ELSE Emit(v, "store", <<v.value, p.value>>))
RecordExp_code(e, b) ==
  LET record == actual(b.T, e.ty)
      m == Create(llvm_type(b, record), "malloc", <<ConstInt(Len(b.T[record].fields))>>)
      r == RecordFields(e.m.fields, record, m.value, m) IN
  Value(r, m.value)

OpExp_code(e, b) ==
  LET r == translated(e.m.left \o e.m.right, b, <<>>) IN
  IF r.b.crash THEN r.b ELSE Create(r.b, e.val[1], r.vs)

SeqExp_code(e, b) ==
  IF e.m.exps = <<>> THEN Value(b, ConstInt(0)) ELSE translated(e.m.exps, b, <<>>).b

AssignExp_code(e, b) ==
  LET p == access_var(e.m.var[1], b)
      v == IF p.crash THEN p ELSE translate(e.m.exp[1], p) IN
  IF v.crash THEN v ELSE Value(Emit(v, "store", <<v.value, p.value>>), ConstInt(0))

\* The branch of an if, from the block bb to the block merge: the value and the
\* block it ends in.
IfBranch(l, b, bb, merge) ==
  LET r == translated(l, SetInsertPoint(b, bb), <<>>) IN
  IF r.b.crash THEN r.b ELSE Branch(r.b, "br", <<>>, <<merge>>)

\* An if whose value comes from the blocks its branches began in.
IfExp_code_Bug(e, b) ==
  LET c == translate(e.m.test[1], b)
      n == Len(c.code)
      s == Branch(BasicBlock(BasicBlock(BasicBlock(c))), "condbr", <<c.value>>, <<n + 1, n + 2>>)
      then == IfBranch(e.m.thenclause, s, n + 1, n + 3)
      else == IfBranch(e.m.elseclause, then, n + 2, n + 3)
      m == SetInsertPoint(llvm_type(else, e.ty), n + 3)
      phi == [op |-> "phi", dst |-> m.regs + 1, args |-> <<then.value, else.value>>,
              from |-> <<n + 1, n + 2>>] IN
  IF c.crash \/ else.crash THEN Crash(b)
  ELSE IF m.ltype = "void" THEN Value(m, ConstInt(0))
  ELSE [m EXCEPT !.code[m.bb].ins = Append(@, phi), !.regs = @ + 1, !.value = Reg(m.regs + 1)]

IfExp_code(e, b) ==
  LET c == translate(e.m.test[1], b)
      n == Len(c.code)
      s == Branch(BasicBlock(BasicBlock(BasicBlock(c))), "condbr", <<c.value>>, <<n + 1, n + 2>>)
      then == IfBranch(e.m.thenclause, s, n + 1, n + 3)
      else == IfBranch(e.m.elseclause, then, n + 2, n + 3)
      m == SetInsertPoint(llvm_type(else, e.ty), n + 3)
      phi == [op |-> "phi", dst |-> m.regs + 1, args |-> <<then.value, else.value>>,
              from |-> <<then.bb, else.bb>>] IN
  IF c.crash \/ else.crash THEN Crash(b)
  ELSE IF m.ltype = "void" THEN Value(m, ConstInt(0))
  ELSE [m EXCEPT !.code[m.bb].ins = Append(@, phi), !.regs = @ + 1, !.value = Reg(m.regs + 1)]

\* A while keeps the value of what was translated last, its body's.
WhileExp_code(e, b) ==
  LET n == Len(b.code)   \* test, body, after
      s == [BasicBlock(BasicBlock(BasicBlock(b))) EXCEPT !.loop_end = Extended(@, e.def, n + 3)]
      t == translate(e.m.test[1], SetInsertPoint(Branch(s, "br", <<>>, <<n + 1>>), n + 1))
      c == Branch(t, "condbr", <<t.value>>, <<n + 2, n + 3>>)
      w == translate(e.m.body[1], SetInsertPoint(c, n + 2)) IN
  IF t.crash \/ w.crash THEN Crash(b)
  ELSE SetInsertPoint(Branch(w, "br", <<>>, <<n + 1>>), n + 3)

\* A break that what follows it is put after.
BreakExp_code_Bug(e, b) ==
  Value(Branch(b, "br", <<>>, <<b.loop_end[e.def]>>), ConstInt(0))

BreakExp_code(e, b) ==
  LET s == BasicBlock(Branch(b, "br", <<>>, <<b.loop_end[e.def]>>)) IN
  Value(SetInsertPoint(s, Len(s.code)), ConstInt(0))

ArrayExp_code(e, b) ==
  LET r == translated(e.m.size \o e.m.init, b, <<>>) IN
  IF r.b.crash THEN r.b ELSE Create(r.b, "init_array", r.vs)

\* The variables the function escapes come first.
Escaped(b, d) == IF d \in DOMAIN b.escaped THEN b.escaped[d] ELSE <<>>
CallExp_code(e, b) ==
  LET lifted == [i \in DOMAIN Escaped(b, e.def) |->
                   IF b.fn \in DOMAIN b.locals /\ Escaped(b, e.def)[i] \in DOMAIN b.locals[b.fn]
                   THEN b.locals[b.fn][Escaped(b, e.def)[i]] ELSE null_]
      r == translated(e.m.args, b, <<>>)
      c == Create(r.b, "call", lifted \o r.vs)
      k == Len(c.code[c.bb].ins) IN
  IF r.b.crash THEN r.b
  ELSE LET d == [c EXCEPT !.code[c.bb].ins[k] = [callee |-> e.def] @@ @] IN
       IF b.T[b.decs[e.def]].result = TVoid THEN Value(d, ConstInt(0)) ELSE d

\* A variable of _main is global.
VarDec_code(e, b) ==
  LET p == IF b.fn = Main
           THEN IF ltype(b, e.ty) = "void" THEN Crash(b) ELSE Value(llvm_type(b, e.ty), Global(e.def))
           ELSE create_alloca(b, e.ty)
      v == IF p.crash THEN p
           ELSE translate(e.m.init[1], IF b.fn = Main THEN p ELSE SetLocal(p, e.def, p.value)) IN
  IF v.crash THEN v
  ELSE Value(SetLocal(Emit(v, "store", <<v.value, p.value>>), e.def, p.value), ConstInt(0))

\* The types of a function's parameters and result must be made.
visit_function_dec_header(e, b) ==
  LET f == b.T[e.ty]
      lifted == [i \in DOMAIN Escaped(b, e.def) |-> [ty |-> b.decs[Escaped(b, e.def)[i]]]]
      formals == [i \in DOMAIN f.formals |-> [ty |-> f.formals[i]]] IN
  visit_fields(b, lifted \o formals \o <<[ty |-> f.result]>>, {})

RECURSIVE Formals(_, _, _)
Formals(decs, i, b) ==
  IF decs = <<>> \/ b.crash THEN b
  ELSE LET a == create_alloca(b, Head(decs).ty)
           s == SetLocal(a, Head(decs).def, a.value) IN
       IF a.crash THEN a
       ELSE Formals(Tail(decs), i + 1, Emit(s, "store", <<Arg(i), a.value>>))
RECURSIVE Lifted(_, _, _)
Lifted(ds, i, b) ==
  IF i > Len(ds) THEN b ELSE Lifted(ds, i + 1, SetLocal(b, ds[i], Arg(i)))

\* The builder comes back to where it was.
visit_function_dec_body(e, b) ==
  LET n == Len(b.code) + 1
      s == [BasicBlock([b EXCEPT !.fn = e.def]) EXCEPT !.bb = n, !.entry = Extended(@, e.def, n)]
      l == Lifted(Escaped(b, e.def), 1, s)
      f == Formals(e.m.formals[1].m.decs, Len(Escaped(b, e.def)) + 1, l)
      r == IF f.crash THEN f ELSE translate(e.m.body[1], f) IN
  IF e.m.body = <<>> THEN b   \* a primitive
  ELSE IF r.crash THEN r
  ELSE [Emit(r, "ret", IF b.T[e.ty].result = TVoid THEN <<>> ELSE <<r.value>>)
          EXCEPT !.fn = b.fn, !.bb = b.bb]

\* All the headers of a chunk, then the bodies.
RECURSIVE Headers(_, _), Bodies(_, _)
Headers(decs, b) ==
  IF decs = <<>> \/ b.crash THEN b
  ELSE Headers(Tail(decs), visit_function_dec_header(Head(decs), b))
Bodies(decs, b) ==
  IF decs = <<>> \/ b.crash THEN b
  ELSE Bodies(Tail(decs), visit_function_dec_body(Head(decs), b))
FunctionChunk_code(e, b) == Bodies(e.m.decs, Headers(e.m.decs, b))

translate(e, b) ==
  CASE e.k \in Below("Var") -> Var_code(e, b)
    [] e.k = "NilExp" -> NilExp_code(e, b)
    [] e.k = "IntExp" -> Value(b, ConstInt(Number[e.val[1]]))
    [] e.k = "StringExp" -> StringExp_code(e, b)
    [] e.k = "RecordExp" -> RecordExp_code(e, b)
    [] e.k = "OpExp" -> OpExp_code(e, b)
    [] e.k = "SeqExp" -> SeqExp_code(e, b)
    [] e.k = "AssignExp" -> AssignExp_code(e, b)
    [] e.k = "IfExp" -> IfExp_code(e, b)
    [] e.k = "WhileExp" -> WhileExp_code(e, b)
    [] e.k = "BreakExp" -> BreakExp_code(e, b)
    [] e.k = "ArrayExp" -> ArrayExp_code(e, b)
    [] e.k = "CallExp" -> CallExp_code(e, b)
    [] e.k = "VarDec" -> VarDec_code(e, b)
    [] e.k = "FunctionChunk" -> FunctionChunk_code(e, b)
    [] e.k \in {"LetExp", "ChunkList", "VarChunk"} -> translated(ChildrenOf(e), b, <<>>).b
    [] e.k = "TypeChunk" -> b
=============================================================================

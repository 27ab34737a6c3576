------------------------------- MODULE Trees -------------------------------
(***************************************************************************)
(* The nodes the parser makes (src/src/parse/tiger-factory.hxx), as trees: *)
(* a class, a name or value (a tuple of strings) and, for each member, the *)
(* nodes it points to, none when it is null.  The classes and members are  *)
(* those of Ast.                                                           *)
(***************************************************************************)
EXTENDS SequencesExt, Ast

Node(k, val, m) == [k |-> k, val |-> val, m |-> m]

make_SimpleVar(name) == Node("SimpleVar", <<name>>, <<>>)
make_FieldVar(var, name) == Node("FieldVar", <<name>>, [var |-> <<var>>])
make_SubscriptVar(var, index) ==
  Node("SubscriptVar", <<>>, [var |-> <<var>>, index |-> <<index>>])
make_IntExp(num) == Node("IntExp", <<num>>, <<>>)
make_StringExp(string) == Node("StringExp", string, <<>>)
make_NilExp == Node("NilExp", <<>>, <<>>)
make_CallExp(name, args) == Node("CallExp", <<name>>, [args |-> args])
make_RecordExp(type_name, fields) ==
  Node("RecordExp", <<>>, [type_name |-> <<type_name>>, fields |-> fields])
make_ArrayExp(type_name, size, init) ==
  Node("ArrayExp", <<>>, [type_name |-> <<type_name>>, size |-> <<size>>, init |-> <<init>>])
make_SeqExp(exps) == Node("SeqExp", <<>>, [exps |-> exps])
make_AssignExp(var, exp) == Node("AssignExp", <<>>, [var |-> <<var>>, exp |-> <<exp>>])
make_IfExp(test, then, else) ==   \* else is <<>> or <<exp>>
  Node("IfExp", <<>>, [test |-> <<test>>, thenclause |-> <<then>>, elseclause |-> else])
make_WhileExp(test, body) == Node("WhileExp", <<>>, [test |-> <<test>>, body |-> <<body>>])
make_ForExp(vardec, hi, body) ==
  Node("ForExp", <<>>, [vardec |-> <<vardec>>, hi |-> <<hi>>, body |-> <<body>>])
make_BreakExp == Node("BreakExp", <<>>, <<>>)
make_LetExp(decs, body) == Node("LetExp", <<>>, [chunks |-> <<decs>>, body |-> <<body>>])
make_OpExp(left, oper, right) == Node("OpExp", <<oper>>, [left |-> <<left>>, right |-> <<right>>])
make_CastExp(exp, ty) == Node("CastExp", <<>>, [exp |-> <<exp>>, ty |-> <<ty>>])
make_FieldInit(name, init) == Node("FieldInit", <<name>>, [init |-> <<init>>])
make_ChunkList(chunks) == Node("ChunkList", <<>>, [chunks |-> chunks])
make_TypeChunk(decs) == Node("TypeChunk", <<>>, [decs |-> decs])
make_FunctionChunk(decs) == Node("FunctionChunk", <<>>, [decs |-> decs])
make_VarChunk(decs) == Node("VarChunk", <<>>, [decs |-> decs])
make_TypeDec(name, ty) == Node("TypeDec", <<name>>, [ty |-> <<ty>>])
make_VarDec(name, type_name, init) ==   \* both <<>> or <<node>>
  Node("VarDec", <<name>>, [type_name |-> type_name, init |-> init])
make_FunctionDec(name, formals, result, body) ==
  Node("FunctionDec", <<name>>, [formals |-> <<formals>>, result |-> result, body |-> body])
make_NameTy(name) == Node("NameTy", <<name>>, <<>>)
make_RecordTy(fields) == Node("RecordTy", <<>>, [fields |-> fields])
make_ArrayTy(base_type) == Node("ArrayTy", <<>>, [base_type |-> <<base_type>>])
make_Field(name, type_name) == Node("Field", <<name>>, [type_name |-> <<type_name>>])

\* The numbers that texts are written with.
Number == [x \in {"0", "1", "2", "5", "6", "7"} |->
             CASE x = "0" -> 0 [] x = "1" -> 1 [] x = "2" -> 2 [] x = "5" -> 5
               [] x = "6" -> 6 [] x = "7" -> 7]

\* The nodes a node points to, in the order of its members, and all below.
ChildrenOf(t) ==
  FlattenSeq([i \in DOMAIN Class[t.k].members |-> t.m[Class[t.k].members[i].name]])
RECURSIVE NodesOf(_)
NodesOf(l) == IF l = <<>> THEN <<>>
              ELSE <<Head(l)>> \o NodesOf(ChildrenOf(Head(l)) \o Tail(l))
Some(t, Is(_)) == LET l == NodesOf(<<t>>) IN \E i \in DOMAIN l : Is(l[i])

\* The else clause is a null pointer.
NullElse(n) == n.k = "IfExp" /\ n.m.elseclause = <<>>

\* The same tree, with copy made of every child.
Rebuilt(t, copy(_)) ==
  [t EXCEPT !.m = [x \in DOMAIN @ |-> [i \in DOMAIN @[x] |-> copy(@[x][i])]]]
=============================================================================

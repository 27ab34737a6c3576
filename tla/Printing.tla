------------------------------ MODULE Printing ------------------------------
(***************************************************************************)
(* ast::PrettyPrinter (src/src/ast/pretty-printer.cc).                     *)
(*                                                                         *)
(* Each visit lays a node out: lexemes, nodes to visit in their turn, and  *)
(* assignments to the flags the visits share.  Blanks are left out.        *)
(***************************************************************************)
EXTENDS Grammar

CONSTANT Display   \* whether bindings and escapes are displayed, in comments

Set(flag, b) == <<[flag |-> flag, b |-> b]>>
in_varchunk(b) == Set("in_varchunk", b)
in_funcvar(b) == Set("in_funcvar", b)

Id(name) == <<Val("ID", name)>>
Comment == IF Display THEN <<Tok("/*"), Val("ID", "0x0"), Tok("*/")>> ELSE <<>>
Bound(name) == Id(name) \o Comment

\* The nodes of l with sep between them, or after each.
Between(l, sep) == FlattenSeq([i \in DOMAIN l |->
                     <<l[i]>> \o (IF i = Len(l) THEN <<>> ELSE Toks(sep))])
Optional(before, l) == IF l = <<>> THEN <<>> ELSE Toks(before) \o l

-----------------------------------------------------------------------------
FieldVar_(e) == e.m.var \o Toks(<<".">>) \o Id(e.val[1])
SubscriptVar_(e) == e.m.var \o Toks(<<"[">>) \o e.m.index \o Toks(<<"]">>)
StringExp_(e) == <<Char("q")>> \o [i \in DOMAIN e.val |-> Char(e.val[i])] \o <<Char("q")>>
CallExp_(e) == Bound(e.val[1]) \o Toks(<<"(">>) \o Between(e.m.args, <<",">>) \o Toks(<<")">>)
OpExp_(e) == e.m.left \o Toks(e.val) \o e.m.right
RecordExp_(e) == e.m.type_name \o Toks(<<"{">>) \o Between(e.m.fields, <<",">>) \o Toks(<<"}">>)

\* A sequence of one expression without its parentheses.
SeqExp_Bug(e) ==
  IF Len(e.m.exps) = 1 THEN e.m.exps
  ELSE Toks(<<"(">>) \o Between(e.m.exps, <<";">>) \o Toks(<<")">>)

SeqExp_(e) == Toks(<<"(">>) \o Between(e.m.exps, <<";">>) \o Toks(<<")">>)
AssignExp_(e) == Toks(<<"(">>) \o e.m.var \o Toks(<<":=">>) \o e.m.exp \o Toks(<<")">>)
IfExp_(e) == Toks(<<"if">>) \o e.m.test \o Toks(<<"then">>) \o e.m.thenclause
             \o Optional(<<"else">>, e.m.elseclause)
WhileExp_(e) == Toks(<<"while">>) \o Comment \o e.m.test \o Toks(<<"do">>) \o e.m.body
ForExp_(e) == Toks(<<"for">>) \o Comment \o e.m.vardec \o Toks(<<"to">>) \o e.m.hi
              \o Toks(<<"do">>) \o e.m.body
LetExp_(e) == Toks(<<"let">>) \o e.m.chunks \o Toks(<<"in">>) \o e.m.body \o Toks(<<"end">>)
ArrayExp_(e) == e.m.type_name \o Toks(<<"[">>) \o e.m.size \o Toks(<<"]", "of">>) \o e.m.init
CastExp_(e) == Toks(<<"_cast", "(">>) \o e.m.exp \o Toks(<<",">>) \o e.m.ty \o Toks(<<")">>)
FieldInit_(e) == Id(e.val[1]) \o Toks(<<"=">>) \o e.m.init

VarChunk_(e, f) ==
  in_varchunk(TRUE) \o Between(e.m.decs, IF f.in_funcvar THEN <<",">> ELSE <<>>)
  \o in_varchunk(FALSE)
VarDec_(e, f) ==
  (IF f.in_varchunk /\ ~f.in_funcvar THEN Toks(<<"var">>) ELSE <<>>)
  \o Comment \o Bound(e.val[1])
  \o Optional(<<":">>, e.m.type_name) \o Optional(<<":=">>, e.m.init)
FunctionDec_(e) ==
  Toks(<<IF e.m.body = <<>> THEN "primitive" ELSE "function">>) \o Bound(e.val[1])
  \o Toks(<<"(">>) \o in_funcvar(TRUE) \o e.m.formals \o in_funcvar(FALSE) \o Toks(<<")">>)
  \o Optional(<<":">>, e.m.result) \o Optional(<<"=">>, e.m.body)
TypeDec_(e) == Toks(<<"type">>) \o Bound(e.val[1]) \o Toks(<<"=">>) \o e.m.ty
RecordTy_(e) == Toks(<<"{">>) \o Between(e.m.fields, <<",">>) \o Toks(<<"}">>)
ArrayTy_(e) == Toks(<<"array", "of">>) \o e.m.base_type
Field_(e) == Id(e.val[1]) \o Toks(<<":">>) \o e.m.type_name

Visit(e, f) ==
  CASE e.k = "SimpleVar" -> Bound(e.val[1])
    [] e.k = "FieldVar" -> FieldVar_(e)
    [] e.k = "SubscriptVar" -> SubscriptVar_(e)
    [] e.k = "NilExp" -> Toks(<<"nil">>)
    [] e.k = "IntExp" -> <<Val("INT", e.val[1])>>
    [] e.k = "StringExp" -> StringExp_(e)
    [] e.k = "CallExp" -> CallExp_(e)
    [] e.k = "OpExp" -> OpExp_(e)
    [] e.k = "RecordExp" -> RecordExp_(e)
    [] e.k = "SeqExp" -> SeqExp_(e)
    [] e.k = "AssignExp" -> AssignExp_(e)
    [] e.k = "IfExp" -> IfExp_(e)
    [] e.k = "WhileExp" -> WhileExp_(e)
    [] e.k = "ForExp" -> ForExp_(e)
    [] e.k = "BreakExp" -> Toks(<<"break">>) \o Comment
    [] e.k = "LetExp" -> LetExp_(e)
    [] e.k = "ArrayExp" -> ArrayExp_(e)
    [] e.k = "CastExp" -> CastExp_(e)
    [] e.k = "FieldInit" -> FieldInit_(e)
    [] e.k = "ChunkList" -> e.m.chunks
    [] e.k \in {"FunctionChunk", "TypeChunk"} -> e.m.decs
    [] e.k = "VarChunk" -> VarChunk_(e, f)
    [] e.k = "VarDec" -> VarDec_(e, f)
    [] e.k = "FunctionDec" -> FunctionDec_(e)
    [] e.k = "TypeDec" -> TypeDec_(e)
    [] e.k = "NameTy" -> Bound(e.val[1])
    [] e.k = "RecordTy" -> RecordTy_(e)
    [] e.k = "ArrayTy" -> ArrayTy_(e)
    [] e.k = "Field" -> Field_(e)

RECURSIVE Output(_, _)
Output(todo, f) ==
  IF todo = <<>> THEN <<>>
  ELSE LET x == Head(todo) IN
       IF "k" \in DOMAIN x THEN Output(Visit(x, f) \o Tail(todo), f)
       ELSE IF "flag" \in DOMAIN x THEN Output(Tail(todo), [f EXCEPT ![x.flag] = x.b])
       ELSE <<x>> \o Output(Tail(todo), f)

\* The flags are false when no visit is under way.
Printed(t) == Output(<<t>>, [in_varchunk |-> FALSE, in_funcvar |-> FALSE])

-----------------------------------------------------------------------------
(* What is known not to be printed back, at a node.                        *)

\* On the right of an operation another of no higher precedence, as only a unary
\* minus makes: it is printed without the parentheses it needs.
NegatedOperand(n) ==
  n.k = "OpExp" /\ n.m.right[1].k = "OpExp" /\ Level[n.m.right[1].val[1]] <= Level[n.val[1]]

\* A quote or a backslash in a string: the value is printed, not its escape.
EscapedString(n) == n.k = "StringExp" /\ {"q", "b"} \cap ToSet(n.val) # {}
=============================================================================

----------------------------- MODULE Desugaring -----------------------------
(***************************************************************************)
(* desugar::DesugarVisitor (src/src/desugar/desugar-visitor.cc): a checked *)
(* tree is copied, and loops and comparisons of strings are written anew   *)
(* as texts, that are parsed.  Both are always done: the options that ask  *)
(* for them are not read.                                                  *)
(***************************************************************************)
EXTENDS Printing, Typing

\* A text that is not parsed stops the compiler: so does a tree made with it.
RECURSIVE Broken(_)
Broken(t) == t.k = "error" \/ \E i \in DOMAIN ChildrenOf(t) : Broken(ChildrenOf(t)[i])

\* A tree put in a text, itself or printed.
Text(t) == IF Broken(t) THEN <<Tok("error")>> ELSE Printed(t)
Tree(t) == IF Broken(t) THEN <<Tok("error")>> ELSE _exp(t)

Oper(o) ==
  CASE o = "=" -> <<"streq", <<>>>>
    [] o = "<>" -> <<"streq", <<Tok("<>"), Val("INT", "0")>>>>
    [] o \notin {"=", "<>"} -> <<"strcmp", <<Tok(o), Val("INT", "0")>>>>
OpExp_desugar(l, o, r) ==
  program(Id(Oper(o)[1]) \o Toks(<<"(">>) \o Tree(l) \o Toks(<<",">>) \o Tree(r)
          \o Toks(<<")">>) \o Oper(o)[2])

\* The loop as one may write it first: the variable goes beyond the bound.
ForExp_desugar_Bug(i, lo, hi, body) ==
  program(Toks(<<"let", "var">>) \o Id("_lo") \o Toks(<<":=">>) \o Text(lo)
          \o Toks(<<"var">>) \o Id("_hi") \o Toks(<<":=">>) \o Text(hi)
          \o Toks(<<"var">>) \o Id(i) \o Toks(<<":=">>) \o Id("_lo") \o Toks(<<"in">>)
          \o Toks(<<"while">>) \o Id(i) \o Toks(<<"<=">>) \o Id("_hi") \o Toks(<<"do", "(">>)
          \o Text(body) \o Toks(<<";">>)
          \o Id(i) \o Toks(<<":=">>) \o Id(i) \o Toks(<<"+">>) \o <<Val("INT", "1")>>
          \o Toks(<<")", "end">>))

ForExp_desugar(i, lo, hi, body) ==
  program(Toks(<<"let", "var">>) \o Id("_lo") \o Toks(<<":=">>) \o Text(lo)
          \o Toks(<<"var">>) \o Id("_hi") \o Toks(<<":=">>) \o Text(hi)
          \o Toks(<<"var">>) \o Id(i) \o Toks(<<":=">>) \o Id("_lo") \o Toks(<<"in">>)
          \o Toks(<<"if">>) \o Id(i) \o Toks(<<"<=">>) \o Id("_hi") \o Toks(<<"then">>)
          \o Toks(<<"while">>) \o <<Val("INT", "1")>> \o Toks(<<"do", "(">>)
          \o Text(body) \o Toks(<<";", "if">>) \o Id(i) \o Toks(<<"=">>) \o Id("_hi")
          \o Toks(<<"then", "break", ";">>)
          \o Id(i) \o Toks(<<":=">>) \o Id(i) \o Toks(<<"+">>) \o <<Val("INT", "1")>>
          \o Toks(<<")", "end">>))

\* The copy of an `if' without `else' has one, which is empty.
IfExp_clone(e) ==
  IF e.m.elseclause = <<>> THEN [e.m EXCEPT !.elseclause = <<make_SeqExp(<<>>)>>] ELSE e.m

\* recurse: the operands of a comparison have the same type, and it is String.
RECURSIVE recurse(_, _)
recurse(e, T) ==
  LET copy(x) == recurse(x, T) IN
  CASE e.k = "OpExp" /\ e.m.left[1].ty = e.m.right[1].ty
         /\ actual(T, e.m.left[1].ty) = TString ->
         OpExp_desugar(copy(e.m.left[1]), e.val[1], copy(e.m.right[1]))
    [] e.k = "ForExp" ->
         ForExp_desugar(e.m.vardec[1].val[1], copy(e.m.vardec[1].m.init[1]), copy(e.m.hi[1]),
                        copy(e.m.body[1]))
    [] e.k = "IfExp" -> Rebuilt(Node(e.k, e.val, IfExp_clone(e)), copy)
    [] OTHER -> Rebuilt(Node(e.k, e.val, e.m), copy)
=============================================================================

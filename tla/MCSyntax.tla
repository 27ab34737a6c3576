------------------------------ MODULE MCSyntax ------------------------------
(* The texts of the grammar with a few parts beyond the least.  A part is  *)
(* written with one expression, one declaration... when that is free.      *)
EXTENDS Syntax

W(cost, xs) == [cost |-> cost, text |-> xs]
P(p) == <<Part(p)>>
T(xs) == Toks(xs)
Str(xs) == <<Char("q")>> \o [i \in DOMAIN xs |-> Char(xs[i])] \o <<Char("q")>>
E == P("exp")
a == Id("a")

TheWrites == [
  exp |-> {W(0, <<Val("INT", "1")>>), W(0, a), W(0, Str(<<"c">>)),
           W(1, T(<<"nil">>)), W(1, Str(<<"b", "q">>)), W(1, Str(<<"b", "n", "c">>)),
           W(1, Str(<<"b", "b">>)), W(1, T(<<"/*", "/*", "*/", "*/">>) \o E),
           W(1, a \o T(<<"(">>) \o P("args") \o T(<<")">>)),
           W(1, a \o T(<<"{">>) \o P("inits") \o T(<<"}">>)),
           W(1, T(<<"-">>) \o E), W(1, T(<<"(">>) \o P("exps") \o T(<<")">>)),
           W(1, a \o T(<<"[">>) \o E \o T(<<"]", "of">>) \o E),
           W(1, a \o T(<<"[">>) \o E \o T(<<"]">>)), W(1, a \o T(<<".">>) \o a),
           W(1, a \o T(<<":=">>) \o E),
           W(1, a \o T(<<".">>) \o a \o T(<<":=">>) \o E),
           W(1, T(<<"if">>) \o E \o T(<<"then">>) \o E),
           W(1, T(<<"if">>) \o E \o T(<<"then">>) \o E \o T(<<"else">>) \o E),
           W(1, T(<<"while">>) \o E \o T(<<"do">>) \o E),
           W(1, T(<<"for">>) \o a \o T(<<":=">>) \o E \o T(<<"to">>) \o E \o T(<<"do">>) \o E),
           W(1, T(<<"break">>)),
           W(1, T(<<"let">>) \o P("chunks") \o T(<<"in">>) \o P("exps") \o T(<<"end">>))}
          \union {W(1, E \o T(<<o>>) \o E) : o \in {"+", "-", "*", "=", "<", "&", "|"}},
  exps |-> {W(0, E), W(1, <<>>), W(1, E \o T(<<";">>) \o E)},
  args |-> {W(0, <<>>), W(0, E), W(1, E \o T(<<",">>) \o E)},
  inits |-> {W(0, <<>>), W(1, a \o T(<<"=">>) \o E \o T(<<",">>) \o a \o T(<<"=">>) \o E)},
  chunks |-> {W(0, P("chunk")), W(1, <<>>), W(1, P("chunk") \o P("chunk"))},
  chunk |-> {W(0, T(<<"var">>) \o a \o T(<<":=">>) \o E),
             W(1, T(<<"var">>) \o a \o T(<<":">>) \o a \o T(<<":=">>) \o E),
             W(0, T(<<"function">>) \o a \o T(<<"(", ")", "=">>) \o E),
             W(1, T(<<"function">>) \o a \o T(<<"(">>) \o a \o T(<<":">>) \o a \o T(<<",">>)
                  \o a \o T(<<":">>) \o a \o T(<<")", ":">>) \o a \o T(<<"=">>) \o E),
             W(0, T(<<"primitive">>) \o a \o T(<<"(", ")">>)),
             W(0, T(<<"type">>) \o a \o T(<<"=">>) \o P("ty")),
             W(1, <<Val("import", <<make_TypeChunk(<<make_TypeDec("b", make_NameTy("c"))>>),
                                    make_VarChunk(<<make_VarDec("b", <<>>, <<make_NilExp>>)>>)>>)>>)},
  ty |-> {W(0, a), W(1, T(<<"array", "of">>) \o a), W(1, T(<<"{", "}">>)),
          W(1, T(<<"{">>) \o a \o T(<<":">>) \o a \o T(<<",">>) \o a \o T(<<":">>) \o a
               \o T(<<"}">>))}]
=============================================================================

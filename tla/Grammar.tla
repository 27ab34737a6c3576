------------------------------ MODULE Grammar ------------------------------
(***************************************************************************)
(* From a text to a tree: the start conditions of the scanner              *)
(* (src/src/parse/scantiger.ll) and the rules of the grammar with their    *)
(* precedences (src/src/parse/parsetiger.yy), texts with embedded trees    *)
(* (src/src/parse/tweast.hh) included.                                     *)
(*                                                                         *)
(* A text is a sequence of lexemes.  Where characters matter, in strings,  *)
(* a lexeme is one character; words, numbers and punctuation are one       *)
(* lexeme each.                                                            *)
(***************************************************************************)
EXTENDS Integers, Trees

Tok(x) == [tok |-> x, val |-> ""]
Val(x, v) == [tok |-> x, val |-> v]
Toks(xs) == [i \in DOMAIN xs |-> Tok(xs[i])]
Char(c) == [ch |-> c]   \* "q": a quote, "b": a backslash, "nl", "n", "c": another

-----------------------------------------------------------------------------
(* The scanner.                                                            *)

Start == [start |-> "INITIAL", depth |-> 0, buf |-> <<>>, out |-> <<>>, bad |-> FALSE]

\* <INITIAL>: an opening quote, an opening comment, or a token.
INITIAL(x, st) ==
  CASE "ch" \in DOMAIN x /\ x.ch = "q" -> [st EXCEPT !.start = "SC_STRING", !.buf = <<>>]
    [] "ch" \in DOMAIN x /\ x.ch = "b" -> [st EXCEPT !.bad = TRUE]
    [] "ch" \in DOMAIN x /\ x.ch = "nl" -> st
    [] "ch" \in DOMAIN x /\ x.ch \notin {"q", "b", "nl"} ->
         [st EXCEPT !.out = Append(@, Val("ID", x.ch))]
    [] "tok" \in DOMAIN x /\ x.tok = "/*" -> [st EXCEPT !.start = "SC_COMMENT", !.depth = 1]
    [] OTHER -> [st EXCEPT !.out = Append(@, x)]

\* <SC_STRING>: the closing quote, or what a character, or an escape, adds.
SC_STRING(x, st) ==
  IF "tok" \in DOMAIN x THEN [st EXCEPT !.buf = Append(@, "c")]
  ELSE IF x.ch = "q"
    THEN [st EXCEPT !.start = "INITIAL", !.out = Append(@, Val("STRING", st.buf))]
  ELSE IF x.ch = "b" THEN [st EXCEPT !.start = "SC_ESCAPE"]
  ELSE [st EXCEPT !.buf = Append(@, x.ch)]

\* A backslash and the character after it are one lexeme of <SC_STRING>; a
\* backslash before the end of a line is dropped by the rule for any character.
SC_ESCAPE(x, st) ==
  IF "tok" \in DOMAIN x \/ x.ch = "c" THEN [st EXCEPT !.bad = TRUE]
  ELSE [st EXCEPT !.start = "SC_STRING", !.buf = Append(@, IF x.ch = "n" THEN "nl" ELSE x.ch)]

\* <SC_COMMENT>: comments nest.
SC_COMMENT(x, st) ==
  IF "ch" \in DOMAIN x \/ x.tok \notin {"/*", "*/"} THEN st
  ELSE IF x.tok = "/*" THEN [st EXCEPT !.depth = @ + 1]
  ELSE [st EXCEPT !.depth = @ - 1, !.start = IF st.depth = 1 THEN "INITIAL" ELSE @]

\* The rest of the text, unless a lexeme was wrong.
RECURSIVE Scan(_, _)
Scan(text, st) ==
  IF st.bad \/ text = <<>> THEN st
  ELSE Scan(Tail(text), CASE st.start = "INITIAL" -> INITIAL(Head(text), st)
                          [] st.start = "SC_STRING" -> SC_STRING(Head(text), st)
                          [] st.start = "SC_ESCAPE" -> SC_ESCAPE(Head(text), st)
                          [] st.start = "SC_COMMENT" -> SC_COMMENT(Head(text), st))

-----------------------------------------------------------------------------
(* The parser.  A rule applied to the tokens s from i gives a tree and the *)
(* place after it; the place 0 is the one of an error, which all rules     *)
(* propagate.                                                              *)

Fail == [t |-> make_NilExp, at |-> 0]
Made(t, at) == IF at = 0 THEN Fail ELSE [t |-> t, at |-> at]
Is(s, i, x) == i \in DOMAIN s /\ s[i].tok = x
Skip(s, i, x) == IF Is(s, i, x) THEN i + 1 ELSE 0
\* A rule, and what follows it: from its tree and the place after it.
Then(r, next(_, _)) == IF r.at = 0 THEN Fail ELSE next(r.t, r.at)

\* %left, %nonassoc
Level == ("|" :> 1) @@ ("&" :> 2)
         @@ [o \in {"=", "<>", "<", "<=", ">", ">="} |-> 3]
         @@ [o \in {"+", "-"} |-> 4] @@ [o \in {"*", "/"} |-> 5]
NonAssoc == {"=", "<>", "<", "<=", ">", ">="}
HasOperator(s, i) == i \in DOMAIN s /\ s[i].tok \in DOMAIN Level

\* Tweast: a tree in the middle of a text.
_exp(t) == <<Val("_exp", t)>>
_chunks(t) == <<Val("_chunks", t)>>

\* The rules that contain one another do so through parse, below.
RECURSIVE parse(_, _, _, _)
exp(s, i) == parse("exp", s, i, 0)
exp_noassign(s, i, level) == parse("exp_noassign", s, i, level)
chunks(s, i) == parse("chunks", s, i, 0)

\* A list of expressions between separators, up to what cannot start one.
Closers == {")", "end"}
RECURSIVE exps(_, _, _, _)
exps(s, i, sep, l) ==
  IF l = <<>> /\ i \in DOMAIN s /\ s[i].tok \in Closers THEN Made(<<>>, i)
  ELSE Then(exp(s, i), LAMBDA e, j :
         IF Is(s, j, sep) THEN exps(s, j + 1, sep, Append(l, e)) ELSE Made(Append(l, e), j))

typeid(s, i) == IF Is(s, i, "ID") THEN Made(make_NameTy(s[i].val), i + 1) ELSE Fail

\* The fields after this one, up to a closing token; a comma is not the last.
More(s, i, closer, first, fields(_)) ==
  IF ~Is(s, i, ",") THEN Made(first, i)
  ELSE IF Is(s, i + 1, closer) THEN Fail
  ELSE Then(fields(i + 1), LAMBDA r, j : Made(first \o r, j))

RECURSIVE tyfields(_, _)
tyfields(s, i) ==
  IF Is(s, i, "}") THEN Made(<<>>, i)
  ELSE Then(typeid(s, Skip(s, Skip(s, i, "ID"), ":")), LAMBDA id, j :
         More(s, j, "}", <<make_Field(s[i].val, id)>>, LAMBDA k : tyfields(s, k)))

ty(s, i) ==
  IF Is(s, i, "{")
  THEN Then(tyfields(s, i + 1), LAMBDA f, j : Made(make_RecordTy(f), Skip(s, j, "}")))
  ELSE IF Is(s, i, "array")
  THEN Then(typeid(s, Skip(s, i + 1, "of")), LAMBDA id, j : Made(make_ArrayTy(id), j))
  ELSE typeid(s, i)

if_exp(s, i) ==
  Then(exp(s, i + 1), LAMBDA c, j :
  Then(exp(s, Skip(s, j, "then")), LAMBDA a, k :
    IF Is(s, k, "else")
    THEN Then(exp(s, k + 1), LAMBDA b, m : Made(make_IfExp(c, a, <<b>>), m))
    ELSE Made(make_IfExp(c, a, <<>>), k)))

while_exp(s, i) ==
  Then(exp(s, i + 1), LAMBDA c, j :
  Then(exp(s, Skip(s, j, "do")), LAMBDA b, k : Made(make_WhileExp(c, b), k)))

for_exp(s, i) ==
  Then(exp(s, Skip(s, Skip(s, i + 1, "ID"), ":=")), LAMBDA lo, j :
  Then(exp(s, Skip(s, j, "to")), LAMBDA hi, k :
  Then(exp(s, Skip(s, k, "do")), LAMBDA b, m :
    Made(make_ForExp(make_VarDec(s[i + 1].val, <<>>, <<lo>>), hi, b), m))))

let_exp(s, i) ==
  Then(chunks(s, i + 1), LAMBDA c, j :
  Then(exps(s, Skip(s, j, "in"), ";", <<>>), LAMBDA b, k :
    Made(make_LetExp(make_ChunkList(c), make_SeqExp(b)), Skip(s, k, "end"))))

cast_exp(s, i) ==
  Then(exp(s, Skip(s, i + 1, "(")), LAMBDA e, j :
  Then(ty(s, Skip(s, j, ",")), LAMBDA t, k : Made(make_CastExp(e, t), Skip(s, k, ")"))))

\* An array is told from an element of one by what follows it: the parser
\* follows both, and one of them fails.
assignment(s, l) ==
  IF l.t.k \in Below("Var") /\ Is(s, l.at, ":=")
  THEN Then(exp(s, l.at + 1), LAMBDA r, j : Made(make_AssignExp(l.t, r), j))
  ELSE IF l.t.k = "SubscriptVar" /\ l.t.m.var[1].k = "SimpleVar" /\ Is(s, l.at, "of")
  THEN Then(exp(s, l.at + 1), LAMBDA r, j :
         Made(make_ArrayExp(make_NameTy(l.t.m.var[1].val[1]), l.t.m.index[1], r), j))
  ELSE l

exp_rule(s, i) ==
  CASE Is(s, i, "if") -> if_exp(s, i)
    [] Is(s, i, "while") -> while_exp(s, i)
    [] Is(s, i, "for") -> for_exp(s, i)
    [] Is(s, i, "break") -> Made(make_BreakExp, i + 1)
    [] Is(s, i, "let") -> let_exp(s, i)
    [] Is(s, i, "_cast") -> cast_exp(s, i)
    [] Is(s, i, "_exp") -> Made(s[i].val, i + 1)
    [] OTHER -> assignment(s, exp_noassign(s, i, 0))

\* The fields and elements of var.
RECURSIVE lvalue(_, _, _)
lvalue(s, var, i) ==
  IF Is(s, i, ".") THEN IF Is(s, i + 1, "ID")
                        THEN lvalue(s, make_FieldVar(var, s[i + 1].val), i + 2) ELSE Fail
  ELSE IF Is(s, i, "[")
  THEN Then(exp(s, i + 1), LAMBDA e, j :
         IF Is(s, j, "]") THEN lvalue(s, make_SubscriptVar(var, e), j + 1) ELSE Fail)
  ELSE Made(var, i)

RECURSIVE tyinitfields(_, _)
tyinitfields(s, i) ==
  IF Is(s, i, "}") THEN Made(<<>>, i)
  ELSE Then(exp(s, Skip(s, Skip(s, i, "ID"), "=")), LAMBDA e, j :
         More(s, j, "}", <<make_FieldInit(s[i].val, e)>>, LAMBDA k : tyinitfields(s, k)))

call_exp(s, i) ==
  Then(exps(s, i + 2, ",", <<>>), LAMBDA a, j : Made(make_CallExp(s[i].val, a), Skip(s, j, ")")))

record_exp(s, i) ==
  Then(tyinitfields(s, i + 2), LAMBDA f, j :
    Made(make_RecordExp(make_NameTy(s[i].val), f), Skip(s, j, "}")))

seq_exp(s, i) ==
  Then(exps(s, i + 1, ";", <<>>), LAMBDA l, j : Made(make_SeqExp(l), Skip(s, j, ")")))

minus_exp(s, i) ==
  Then(exp_noassign(s, i + 1, Level["-"] + 1), LAMBDA e, j :
    Made(make_OpExp(make_IntExp("0"), "-", e), j))

operand(s, i) ==
  CASE Is(s, i, "nil") -> Made(make_NilExp, i + 1)
    [] Is(s, i, "INT") -> Made(make_IntExp(s[i].val), i + 1)
    [] Is(s, i, "STRING") -> Made(make_StringExp(s[i].val), i + 1)
    [] Is(s, i, "ID") /\ Is(s, i + 1, "(") -> call_exp(s, i)
    [] Is(s, i, "ID") /\ Is(s, i + 1, "{") -> record_exp(s, i)
    [] Is(s, i, "ID") /\ ~Is(s, i + 1, "(") /\ ~Is(s, i + 1, "{") ->
         lvalue(s, make_SimpleVar(s[i].val), i + 1)
    [] Is(s, i, "-") -> minus_exp(s, i)
    [] Is(s, i, "(") -> seq_exp(s, i)
    [] OTHER -> Fail

\* `&' and `|' are texts, parsed in their turn.
and(l, r) == seq_exp(Toks(<<"(", "if", "(">>) \o _exp(l) \o Toks(<<")", "then", "(", "(">>)
  \o _exp(r) \o Toks(<<")", "<>">>) \o <<Val("INT", "0")>> \o Toks(<<")", "else">>)
  \o <<Val("INT", "0")>> \o Toks(<<")">>), 1).t
or(l, r) == seq_exp(Toks(<<"(", "if", "(">>) \o _exp(l) \o Toks(<<")", "then">>)
  \o <<Val("INT", "1")>> \o Toks(<<"else", "(", "(">>) \o _exp(r) \o Toks(<<")", "<>">>)
  \o <<Val("INT", "0")>> \o Toks(<<")", ")">>), 1).t
operation(o, l, r) ==
  IF o = "&" THEN and(l, r) ELSE IF o = "|" THEN or(l, r) ELSE make_OpExp(l, o, r)

RECURSIVE operations(_, _, _)
\* The operations on l of at least some level; comparisons do not associate.
operations(s, l, level) ==
  IF l.at = 0 \/ ~HasOperator(s, l.at) THEN l
  ELSE LET o == s[l.at].tok IN
       IF Level[o] < level THEN l
       ELSE Then(exp_noassign(s, l.at + 1, Level[o] + 1), LAMBDA r, j :
              IF o \in NonAssoc /\ HasOperator(s, j) /\ s[j].tok \in NonAssoc THEN Fail
              ELSE operations(s, Made(operation(o, l.t, r), j), level))

RECURSIVE tyfields_varChunk(_, _)
tyfields_varChunk(s, i) ==
  IF Is(s, i, ")") THEN Made(<<>>, i)
  ELSE Then(typeid(s, Skip(s, Skip(s, i, "ID"), ":")), LAMBDA id, j :
         More(s, j, ")", <<make_VarDec(s[i].val, <<id>>, <<>>)>>,
              LAMBDA k : tyfields_varChunk(s, k)))

\* Without a type the place does not change.
optional_typeid(s, i) ==
  IF ~Is(s, i, ":") THEN Made(<<>>, i)
  ELSE Then(typeid(s, i + 1), LAMBDA id, j : Made(<<id>>, j))

fundec(s, i) ==
  Then(tyfields_varChunk(s, Skip(s, Skip(s, i + 1, "ID"), "(")), LAMBDA f, j :
  Then(optional_typeid(s, Skip(s, j, ")")), LAMBDA r, k :
    LET made(body) == make_FunctionDec(s[i + 1].val, make_VarChunk(f), r, body) IN
    IF Is(s, i, "primitive") THEN Made(made(<<>>), k)
    ELSE Then(exp(s, Skip(s, k, "=")), LAMBDA b, m : Made(made(<<b>>), m))))

tydec(s, i) ==
  Then(ty(s, Skip(s, Skip(s, i + 1, "ID"), "=")), LAMBDA t, j :
    Made(make_TypeDec(s[i + 1].val, t), j))

vardec(s, i) ==
  Then(optional_typeid(s, Skip(s, i + 1, "ID")), LAMBDA t, j :
  Then(exp(s, Skip(s, j, ":=")), LAMBDA e, k : Made(make_VarDec(s[i + 1].val, t, <<e>>), k)))

\* A chunk of functions, or of types, is as long as it can be.
RECURSIVE tychunk(_, _), funchunk(_, _)
tychunk(s, i) ==
  Then(tydec(s, i), LAMBDA d, j :
    IF Is(s, j, "type") THEN Then(tychunk(s, j), LAMBDA r, k : Made(<<d>> \o r, k))
                        ELSE Made(<<d>>, j))
funchunk(s, i) ==
  Then(fundec(s, i), LAMBDA d, j :
    IF Is(s, j, "function") \/ Is(s, j, "primitive")
    THEN Then(funchunk(s, j), LAMBDA r, k : Made(<<d>> \o r, k)) ELSE Made(<<d>>, j))
varchunk(s, i) == Then(vardec(s, i), LAMBDA d, j : Made(<<d>>, j))

\* An imported file, or a prelude, is the list of its chunks; those of a file
\* are pushed one by one to the front.
chunks_rule(s, i) ==
  LET after(first, j) == Then(chunks(s, j), LAMBDA rest, k : Made(first \o rest, k)) IN
  CASE Is(s, i, "type") -> Then(tychunk(s, i), LAMBDA r, j : after(<<make_TypeChunk(r)>>, j))
    [] Is(s, i, "function") \/ Is(s, i, "primitive") ->
         Then(funchunk(s, i), LAMBDA r, j : after(<<make_FunctionChunk(r)>>, j))
    [] Is(s, i, "var") -> Then(varchunk(s, i), LAMBDA r, j : after(<<make_VarChunk(r)>>, j))
    [] Is(s, i, "_chunks") -> after(s[i].val, i + 1)
    [] Is(s, i, "import") -> after(Reverse(s[i].val), i + 1)
    [] OTHER -> Made(<<>>, i)

parse(rule, s, i, level) ==
  CASE rule = "exp" -> exp_rule(s, i)
    [] rule = "exp_noassign" -> operations(s, operand(s, i), level)
    [] rule = "chunks" -> chunks_rule(s, i)

\* program: the whole text is an expression, or declarations.
NoTree == Node("error", <<>>, <<>>)
Whole(s, e, c) ==
  IF e.at = Len(s) + 1 THEN e.t
  ELSE IF c.at = Len(s) + 1 THEN make_ChunkList(c.t)
  ELSE NoTree
program(text) ==
  LET st == Scan(text, Start) IN
  IF st.bad \/ st.start # "INITIAL" THEN NoTree
  ELSE Whole(st.out, exp(st.out, 1), chunks(st.out, 1))
=============================================================================

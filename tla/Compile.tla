------------------------------ MODULE Compile ------------------------------
(***************************************************************************)
(* The passes of `tc --llvm-compute', on one program: written, parsed and  *)
(* checked, desugared and checked again, translated, and run.              *)
(***************************************************************************)
EXTENDS FiniteSets, Desugaring, Execution, Writing

VARIABLES
  phase,
  tree,      \* the checked tree and the state of its checker,
  low,       \* and those of the desugared program
  want,      \* what the program should do,
  again,     \* and what the desugared program should
  code,      \* the code of the program
  outcome    \* what the code does

vars == <<form, spare, phase, tree, low, want, again, code, outcome>>

None == [out |-> <<>>, st |-> "none"]
NoCode == <<>>

Init ==
  /\ WriteInit /\ phase = "write"
  /\ tree = [t |-> NoTree, s |-> Prelude] /\ low = tree
  /\ want = None /\ again = None /\ code = NoCode /\ outcome = None

Write == phase = "write" /\ WritePart /\ UNCHANGED <<phase, tree, low, want, again, code, outcome>>

Rejected(s) == [t |-> NoTree, s |-> Check(s, FALSE)]
Checked(t) == IF t = NoTree THEN Rejected(Prelude) ELSE types_check(Program(t))

\* A text that does not parse is rejected as well.
TypesCheck ==
  /\ phase = "write" /\ Unwritten = {}
  /\ tree' = Checked(program(form))
  /\ phase' = IF tree'.s.err THEN "rejected" ELSE "checked"
  /\ want' = IF tree'.s.err THEN None ELSE RunOf(tree'.t)
  /\ UNCHANGED <<form, spare, low, again, code, outcome>>

\* desugar, then the bindings and the types computed again: what does not parse,
\* or is not bound or typed, stops the compiler.
Rechecked(t) == IF Broken(t) THEN Rejected(tree.s) ELSE types_check(t)
Desugar ==
  /\ phase = "checked"
  /\ low' = Rechecked(recurse(tree.t, tree.s.types))
  /\ phase' = IF low'.s.err THEN "ice" ELSE "desugared"
  /\ again' = IF low'.s.err THEN None ELSE RunOf(low'.t)
  /\ UNCHANGED <<form, spare, tree, want, code, outcome>>

-----------------------------------------------------------------------------
(* The variables of others that each function uses, itself or through the  *)
(* functions it calls (their collection is the matter of Lifting).         *)

\* The nodes of a function that are not of the functions in it.
RECURSIVE OwnNodes(_)
OwnNodes(l) ==
  IF l = <<>> THEN <<>>
  ELSE <<Head(l)>> \o OwnNodes((IF Head(l).k = "FunctionDec" THEN <<>> ELSE ChildrenOf(Head(l)))
                               \o Tail(l))
FunctionsOf(t) == {n \in ToSet(NodesOf(<<t>>)) : n.k = "FunctionDec" /\ n.m.body # <<>>}
Defs(f, k) == {n.def : n \in {x \in ToSet(OwnNodes(f.m.formals \o f.m.body)) : x.k = k}}

RECURSIVE Closed(_, _, _)
Closed(E, calls, own) ==
  LET F == [d \in DOMAIN E |-> E[d] \union (UNION {E[c] : c \in calls[d]} \ own[d])] IN
  IF F = E THEN E ELSE Closed(F, calls, own)
EscapesOf(t) ==
  LET fs == FunctionsOf(t)
      ids == {f.def : f \in fs}
      f(d) == CHOOSE g \in fs : g.def = d
      own == [d \in ids |-> Defs(f(d), "VarDec")]
      E == Closed([d \in ids |-> Defs(f(d), "SimpleVar") \ own[d]],
                  [d \in ids |-> Defs(f(d), "CallExp") \intersect ids], own) IN
  [d \in ids |-> SetToSortSeq(E[d], <)]

Translate ==
  /\ phase = "desugared"
  /\ code' = translate(low.t, Translator(low.s, EscapesOf(low.t)))
  /\ phase' = IF code'.crash THEN "crash" ELSE "translated"
  /\ UNCHANGED <<form, spare, tree, low, want, again, outcome>>

GlobalsOf(t) ==
  LET main == CHOOSE f \in FunctionsOf(t) : f.val[1] = "_main" IN SetToSeq(Defs(main, "VarDec"))
Execute ==
  /\ phase = "translated"
  /\ outcome' = Outcome(code, GlobalsOf(low.t))
  /\ phase' = "done"
  /\ UNCHANGED <<form, spare, tree, low, want, again, code>>

\* The address of a null else clause is compared with null through a reference,
\* so that a build may take the clause to be there and call accept through it.
CheckDropped ==
  /\ \/ phase = "checked" /\ Some(tree.t, NullElse)
     \/ phase = "desugared" /\ Some(low.t, NullElse)
  /\ phase' = "null"
  /\ UNCHANGED <<form, spare, tree, low, want, again, code, outcome>>

Next == CheckDropped \/ Write \/ TypesCheck \/ Desugar \/ Translate \/ Execute
Spec == Init /\ [][Next]_vars

-----------------------------------------------------------------------------
(* What the checker accepts and should not, and what is not printed back.  *)

Has(P(_)) == Some(tree.t, P)
Kind(t) == tree.s.types[actual(tree.s.types, t)].k

\* A record without one of its fields: whatever is in its place is read.
OmittedField == Has(LAMBDA n : n.k = "RecordExp" /\ Cardinality({n.m.fields[i].def : i \in DOMAIN n.m.fields}) < n.def)

\* Records, arrays or nothing at all, one less than the other.
OrderedCells ==
  Has(LAMBDA n : n.k = "OpExp" /\ n.val[1] \in {"<", "<=", ">", ">="}
                     /\ Kind(n.m.left[1].ty) \notin {"Int", "String"})

\* A nil that nothing gives the type of a record: a statement, or beside another.
LooseNil ==
  Has(LAMBDA n : \/ n.k = "SeqExp" /\ \E i \in DOMAIN n.m.exps : n.m.exps[i].k = "NilExp"
                 \/ n.k \in {"OpExp", "IfExp"}
                    /\ Cardinality({i \in DOMAIN ChildrenOf(n) : ChildrenOf(n)[i].k = "NilExp"}) = 2)

\* A variable whose value is none.
VoidVariable == Has(LAMBDA n : n.k = "VarDec" /\ n.ty = TVoid)

\* An array of itself, which is a legal type.
ArrayOfItself ==
  \E t \in DOMAIN tree.s.types :
     LET T == tree.s.types IN T[t].k = "Array" /\ actual(T, T[t].to) = t

\* The upper bound of a loop uses the variable of the loop.
BoundUsesVariable ==
  Has(LAMBDA n : n.k = "ForExp"
          /\ Some(n.m.hi[1], LAMBDA x : x.k = "SimpleVar" /\ x.def = n.m.vardec[1].def))

\* A loop, which is printed, of what is not printed back.
PrintedWrong ==
  Has(LAMBDA n : n.k = "ForExp" /\ (Some(n, NegatedOperand) \/ Some(n, EscapedString)))

\* Two strings one of which has the type string and the other a name of it.
MixedStrings ==
  Has(LAMBDA n : n.k = "OpExp" /\ n.m.left[1].ty # n.m.right[1].ty
                     /\ Kind(n.m.left[1].ty) = "String")

\* Strings compared with <> are compared with = instead (desugar-visitor.cc:42,
\* where test-string-cmp-desugar.cc:52 has `streq("foo", "bar") = 0').
RECURSIVE StringsMistaken(_)
StringsMistaken(n) ==
  LET mistaken == Rebuilt(n, StringsMistaken) IN
  IF n.k = "OpExp" /\ n.val[1] = "<>"
     /\ n.m.left[1].ty = n.m.right[1].ty /\ Kind(n.m.left[1].ty) = "String"
  THEN [mistaken EXCEPT !.val = <<"=">>] ELSE mistaken

\* The code, or the first character alone, of a character in the upper half.
SignedCharacter ==
  Has(LAMBDA n : n.k = "CallExp" /\ n.val[1] \in {"ord", "substring"}
        /\ Some(n, LAMBDA c : c.k = "CallExp" /\ c.val[1] = "chr" /\ c.m.args[1].k = "IntExp"
                                /\ Number[c.m.args[1].val[1]] >= 2 ^ (CharBits - 1)))

-----------------------------------------------------------------------------
(* Properties.                                                             *)

Normal == {"run", "exit", "nil", "bounds"}

\* A program that the checker accepts does not add, compare or dereference what
\* it may not, nor read what was never written.
AcceptedGoesRight ==
  phase = "checked" /\ want.st = "wrong" => OmittedField \/ OrderedCells \/ BoundUsesVariable

\* Desugared, it is still a program and does the same, for any bounds of a loop,
\* the largest integer included, but for <> on strings, which does what = would.
DesugarKeeps ==
  /\ phase = "ice" => BoundUsesVariable \/ PrintedWrong
  /\ phase = "desugared" =>
       LET kept == RunOf(StringsMistaken(tree.t)) IN
       kept.st \in Normal => again = kept \/ PrintedWrong

\* A program that is accepted is translated.
TranslationSucceeds ==
  phase = "crash" => LooseNil \/ VoidVariable \/ ArrayOfItself

\* The code is what LLVM's verifier asks for, whose verdict is not read: a block
\* ends with its only jump or return, in its function; a phi has one value for
\* each block it is reached from; a call has the arguments its function takes.
Jumps == {"br", "condbr", "ret"}
Targets(bb) == LET x == Last(code.code[bb].ins) IN IF x.op = "ret" THEN {} ELSE ToSet(x.targets)
FormalsOf(d) ==
  Len(Escaped(code, d)) + Len(code.T[code.decs[d]].formals)
CodeIsWellFormed ==
  phase = "translated" =>
    \A bb \in DOMAIN code.code :
      LET ins == code.code[bb].ins
          before == {p \in DOMAIN code.code : bb \in Targets(p)} IN
      /\ \A i \in DOMAIN ins : ins[i].op \in Jumps <=> i = Len(ins)
      /\ \A p \in before : code.code[p].fn = code.code[bb].fn
      /\ \A i \in DOMAIN ins : ins[i].op = "phi" =>
           IsInjective(ins[i].from) /\ ToSet(ins[i].from) = before
      /\ \A i \in DOMAIN ins : ins[i].op = "call" => Len(ins[i].args) = FormalsOf(ins[i].callee)

\* The code does what the desugared program should: the same output, in the same
\* order, and the same end.
CodeDoesWhatIsMeant ==
  phase = "done" /\ again.st \in {"run", "exit"} =>
    \/ outcome.out = again.out /\ outcome.st = (IF again.st = "run" THEN "end" ELSE "exit")
    \/ MixedStrings \/ SignedCharacter
=============================================================================

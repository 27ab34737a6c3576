------------------------------- MODULE Syntax -------------------------------
(***************************************************************************)
(* `tc -A' and its output: a text is written, parsed, and printed, and     *)
(* what was printed is parsed again.                                       *)
(***************************************************************************)
EXTENDS FiniteSets, Printing, Writing

VARIABLES
  phase,
  ast,       \* the tree of the text
  printed,   \* the text of the tree
  again      \* the tree of that text

vars == <<form, spare, phase, ast, printed, again>>

Init ==
  /\ WriteInit /\ phase = "write"
  /\ ast = NoTree /\ printed = <<>> /\ again = NoTree

Write == phase = "write" /\ WritePart /\ UNCHANGED <<phase, ast, printed, again>>

Parse ==
  /\ phase = "write" /\ Unwritten = {}
  /\ ast' = program(form)
  /\ phase' = IF ast' = NoTree THEN "error" ELSE "print"
  /\ UNCHANGED <<form, spare, printed, again>>

\* elseclause_get() makes a reference of a null pointer: the printer of a build
\* that takes its address to be never null calls accept through it.
PrintAst ==
  /\ phase = "print"
  /\ \/ printed' = Printed(ast) /\ phase' = "reparse"
     \/ Some(ast, NullElse) /\ phase' = "crash" /\ UNCHANGED printed
  /\ UNCHANGED <<form, spare, ast, again>>

ParsePrinted ==
  /\ phase = "reparse"
  /\ again' = program(printed) /\ phase' = "done"
  /\ UNCHANGED <<form, spare, ast, printed>>

Next == Write \/ Parse \/ PrintAst \/ ParsePrinted
Spec == Init /\ [][Next]_vars

-----------------------------------------------------------------------------
(* What is known not to be printed back.                                   *)

\* What the printer meets first in t, from left to right: a loop, or the end of
\* a chunk of variables, which clears in_varchunk.
RECURSIVE MeetsFirst(_)
MeetsFirst(t) ==
  LET below == SelectSeq([i \in DOMAIN ChildrenOf(t) |-> MeetsFirst(ChildrenOf(t)[i])],
                         LAMBDA x : x # "neither") IN
  IF t.k = "ForExp" THEN "loop"
  ELSE IF below # <<>> THEN Head(below)
  ELSE IF t.k = "VarChunk" THEN "end" ELSE "neither"

\* A loop in the initial value of a variable, with the flag still up: its own
\* variable is printed with `var'.
LoopInVariable(t) == Some(t, LAMBDA n : n.k = "VarChunk" /\ MeetsFirst(n) = "loop")

\* Two chunks of functions, or of types, that an import put side by side are
\* printed as one.
MergedChunks(t) ==
  Some(t, LAMBDA n : n.k = "ChunkList" /\ \E i \in 2..Len(n.m.chunks) :
     n.m.chunks[i].k = n.m.chunks[i - 1].k /\ n.m.chunks[i].k # "VarChunk")

\* Parentheses around one expression are a sequence.
RECURSIVE Bare(_)
Bare(t) == IF t.k = "SeqExp" /\ Len(t.m.exps) = 1 THEN Bare(t.m.exps[1])
           ELSE Rebuilt(t, Bare)

-----------------------------------------------------------------------------
(* Properties.                                                             *)

\* What is printed is parsed, and gives back the tree up to parentheses: chunks,
\* precedences on both sides, else clauses and lists included; and this exactly
\* but for the four cases above.
PrintedIsParsedBack ==
  phase = "done" =>
    (Bare(again) # Bare(ast)
       <=> \/ Some(ast, NegatedOperand) \/ Some(ast, EscapedString)
           \/ LoopInVariable(ast) \/ MergedChunks(ast))
=============================================================================

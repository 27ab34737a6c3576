------------------------------ MODULE Writing ------------------------------
(***************************************************************************)
(* A text is written part by part, each in one of the ways it has, at some *)
(* cost: the programs a compiler is given (no code of the repository).     *)
(***************************************************************************)
EXTENDS Integers, Sequences

CONSTANTS
  Writes,    \* for each part of a text, how it may be written, and at what cost
  Start_,    \* the parts a text starts from
  Budget

VARIABLES
  form,      \* the text, with the parts still to be written
  spare      \* what is left of the budget

Unwritten == {i \in DOMAIN form : "part" \in DOMAIN form[i]}
Part(p) == [part |-> p]

WriteInit == (\E p \in Start_ : form = <<Part(p)>>) /\ spare = Budget

\* The first part unwritten is written.
WritePart ==
  /\ Unwritten # {}
  /\ LET i == CHOOSE i \in Unwritten : \A j \in Unwritten : i <= j IN
     \E w \in Writes[form[i].part] :
       /\ w.cost <= spare
       /\ spare' = spare - w.cost
       /\ form' = SubSeq(form, 1, i - 1) \o w.text \o SubSeq(form, i + 1, Len(form))
=============================================================================

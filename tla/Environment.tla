----------------------------- MODULE Environment -----------------------------
(***************************************************************************)
(* What a symbol table promises: "a stack of dictionaries", where opening  *)
(* a scope remembers what is visible, and closing it gives that back,      *)
(* whatever was declared in between (scoped-map.hh).                       *)
(***************************************************************************)
EXTENDS Sequences, Naturals

CONSTANTS
  Key, Data,
  Unbound      \* what a key nobody declared is mapped to

VARIABLES
  visible,   \* what each key means now
  outer      \* what each key meant at the opening of each open scope

Meanings == [Key -> Data \union {Unbound}]

Init ==
  /\ visible = [k \in Key |-> Unbound]
  /\ outer = <<>>

Open ==
  /\ outer' = Append(outer, visible)
  /\ UNCHANGED visible

Declare ==
  /\ \E k \in Key, d \in Data : visible' = [visible EXCEPT ![k] = d]
  /\ UNCHANGED outer

Close ==
  /\ outer # <<>>
  /\ visible' = outer[Len(outer)]
  /\ outer' = SubSeq(outer, 1, Len(outer) - 1)

Next == Open \/ Declare \/ Close

Spec == Init /\ [][Next]_<<visible, outer>>
=============================================================================

--------------------------- MODULE LexicalScoping ---------------------------
(***************************************************************************)
(* What binding identifiers to declarations means, with the three name     *)
(* spaces of this Tiger (binder.hh): a use refers to the declaration of    *)
(* its name that is visible where it stands, and what a construct declares *)
(* is visible from there to the end of the construct, and no further.      *)
(*                                                                         *)
(* Nothing is promised of an erroneous program after its first error.      *)
(***************************************************************************)
EXTENDS Sequences, Naturals

CONSTANTS
  Space,     \* the name spaces
  Name, Node,
  Unbound,   \* the meaning of an undeclared name
  Nothing    \* when the last construct visited names nothing

VARIABLES
  env,     \* what the names of each space mean here
  outer,   \* env at the opening of each construct still open
  named,   \* the name last visited, and the declaration it stands for
  valid    \* nothing was diagnosed

Init ==
  /\ env = [s \in Space |-> [n \in Name |-> Unbound]]
  /\ outer = <<>>
  /\ named = Nothing
  /\ valid = TRUE

Enter ==
  /\ outer' = Append(outer, env)
  /\ named' = Nothing
  /\ UNCHANGED <<env, valid>>

Leave ==
  /\ outer # <<>>
  /\ env' = outer[Len(outer)]
  /\ outer' = SubSeq(outer, 1, Len(outer) - 1)
  /\ named' = Nothing
  /\ UNCHANGED valid

Declare ==
  /\ UNCHANGED <<outer, valid>>
  /\ \E s \in Space, n \in Name, d \in Node :
       /\ named' = [space |-> s, name |-> n, node |-> d]
       /\ env' = [env EXCEPT ![s][n] = d]

Use ==
  /\ \E s \in Space, n \in Name :
       /\ env[s][n] # Unbound
       /\ named' = [space |-> s, name |-> n, node |-> env[s][n]]
  /\ UNCHANGED <<env, outer, valid>>

\* Anything that is neither a declaration nor a use.
Walk == named' = Nothing /\ UNCHANGED <<env, outer, valid>>

Err == valid' = FALSE

Next == (valid /\ (Walk \/ Use \/ Enter \/ Leave \/ Declare)) \/ Err

Spec == Init /\ [][Next]_<<env, outer, named, valid>>
=============================================================================

------------------------------ MODULE ScopedMap ------------------------------
(***************************************************************************)
(* misc::scoped_map (src/lib/misc/scoped-map.hxx): the symbol table of the *)
(* Binder, a vector of maps of which only the last one is written, and     *)
(* which is searched from the last one to the first.                       *)
(***************************************************************************)
EXTENDS Integers, Sequences

CONSTANTS
  Key, Data,
  Unbound,     \* what get throws for a key that is in no scope
  MaxScopes    \* how many scopes are ever open at once

ASSUME ScopedMapAssumption ==
  /\ Unbound \notin Data
  /\ MaxScopes \in Nat \ {0}

VARIABLE scopes   \* scopes_: a map from some of the keys for each open scope

\* std::map<Key, Data>, and the one with d under k too.
Map == UNION {[S -> Data] : S \in SUBSET Key}
With(m, k, d) == [j \in DOMAIN m \union {k} |-> IF j = k THEN d ELSE m[j]]

-----------------------------------------------------------------------------
Init == scopes = <<[k \in {} |-> Unbound]>>

scope_begin == scopes' = Append(scopes, [k \in {} |-> Unbound])

\* The first scope popped instead of the last; the global one popped too.
scope_end_FirstBug ==
  \/ Len(scopes) = 1 /\ UNCHANGED scopes
  \/ Len(scopes) # 1 /\ scopes' = Tail(scopes)
scope_end_GlobalBug == scopes' = SubSeq(scopes, 1, Len(scopes) - 1)

\* With only the global scope left, scope_end throws and changes nothing.
scope_end ==
  \/ Len(scopes) = 1 /\ UNCHANGED scopes
  \/ Len(scopes) # 1 /\ scopes' = SubSeq(scopes, 1, Len(scopes) - 1)

put(k, d) == scopes' = [scopes EXCEPT ![Len(scopes)] = With(@, k, d)]

\* What get(k) returned when the scopes were the first n of s.
Holders(s, n, k) == {i \in 1..n : k \in DOMAIN s[i]}

\* Searched from the first one.
GetIn_FirstBug(s, n, k) ==
  IF Holders(s, n, k) = {} THEN Unbound
  ELSE s[CHOOSE i \in Holders(s, n, k) : \A j \in Holders(s, n, k) : i <= j][k]

GetIn(s, n, k) ==
  IF Holders(s, n, k) = {} THEN Unbound
  ELSE s[CHOOSE i \in Holders(s, n, k) : \A j \in Holders(s, n, k) : j <= i][k]

get(k) == GetIn(scopes, Len(scopes), k)

-----------------------------------------------------------------------------
Next ==
  \/ Len(scopes) < MaxScopes /\ scope_begin
  \/ scope_end
  \/ \E k \in Key, d \in Data : put(k, d)

Spec == Init /\ [][Next]_scopes

-----------------------------------------------------------------------------
(* Properties.                                                             *)

\* The type of the table, which never loses its global scope.
TypeOK == scopes \in Seq(Map) /\ scopes # <<>>

\* The table is an Environment: whatever was put in the inner scopes,
\* scope_end makes every get answer what it answered at scope_begin.
MeaningsIn(s, n) == [k \in Key |-> GetIn(s, n, k)]

Abstract == INSTANCE Environment WITH
  visible <- MeaningsIn(scopes, Len(scopes)),
  outer <- [n \in 1..(Len(scopes) - 1) |-> MeaningsIn(scopes, n)]

IsEnvironment == Abstract!Spec
\* Whatever the outer scopes map a key to, get returns what was put last:
\* the search goes from the innermost scope outwards.
PutShadows == [][\A k \in Key, d \in Data : put(k, d) => get(k)' = d]_scopes
=============================================================================

----------------------------- MODULE MCScopedMap -----------------------------
(* The symbol table with two keys and two data: one key can shadow itself  *)
(* with another datum while the other stays visible from further out.      *)
EXTENDS ScopedMap

CONSTANTS k1, k2, d1, d2

MCKey == {k1, k2}
MCData == {d1, d2}
=============================================================================

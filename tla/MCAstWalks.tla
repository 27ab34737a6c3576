----------------------------- MODULE MCAstWalks -----------------------------
(* The trees with one, or two, members beyond the least: every class in    *)
(* every member that takes it, and every optional member and list.         *)
EXTENDS AstWalks
=============================================================================

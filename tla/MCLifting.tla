------------------------------ MODULE MCLifting ------------------------------
(* The programs of at most MaxDecs declarations, three of which are the    *)
(* primitive of the prelude, its formal and _main, and of MaxUses uses.    *)
EXTENDS Lifting
MCFunName == <<"p", "f">>   \* a function may have the name of the primitive
MCTypName == <<"t", "u">>
=============================================================================

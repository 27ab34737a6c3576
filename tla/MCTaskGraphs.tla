---------------------------- MODULE MCTaskGraphs ----------------------------
(***************************************************************************)
(* The task register on every task graph over a few names: every list of   *)
(* at most MaxDeps dependencies, disjunctive or not, cycles included, for  *)
(* two tasks, and none or either of them for the default task; a name no   *)
(* task is registered under; and a task declared twice.                    *)
(***************************************************************************)
EXTENDS TaskRegister

CONSTANTS MaxDeps, MaxOptions

Ghost == "ghost"

ListsUpTo(S, n) == UNION {[1..k -> S] : k \in 0..n}
DepLists == {s \in ListsUpTo(Name, MaxDeps) : IsInjective(s)}

TaskNamed(n) == {[name |-> n, deps |-> s, disjunctive |-> b,
                   argument |-> FALSE] :
                   s \in DepLists, b \in BOOLEAN}
Parse == [name |-> DefaultTask, deps |-> <<>>, disjunctive |-> FALSE,
          argument |-> FALSE]

ParseEither == [Parse EXCEPT !.deps = <<"a", "b">>, !.disjunctive = TRUE]

TwoTasks == {<<p, a, b>> : p \in {Parse, ParseEither},
                           a \in TaskNamed("a"), b \in TaskNamed("b")}
DuplicateTask == {<<Parse, a, a>> : a \in TaskNamed("a")}
NoParse == {<<a>> : a \in TaskNamed("a")}

MCPrograms == TwoTasks \union DuplicateTask \union NoParse

MCCommandLines ==
  {[options |-> o, help |-> FALSE, file |-> TRUE] :
      o \in ListsUpTo({DefaultTask, "a", "b"}, MaxOptions)}
  \union [options : ListsUpTo({"a"}, 1), help : BOOLEAN, file : {FALSE}]
=============================================================================

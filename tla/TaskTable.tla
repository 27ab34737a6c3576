------------------------------ MODULE TaskTable ------------------------------
(***************************************************************************)
(* The Task objects of the shipped compiler, translated from the           *)
(* *TASK_DECLARE lines of the tasks.hh files: name, dependencies,          *)
(* whether it is a DisjunctiveTask, whether an ArgumentTask.  The order of *)
(* the static constructors is up to the linker; the register keeps         *)
(* the tasks in a map, so any order gives the same table.                  *)
(***************************************************************************)
EXTENDS Sequences

Needs(n, deps) ==
  [name |-> n, deps |-> deps, disjunctive |-> FALSE, argument |-> FALSE]
NeedsOneOf(n, deps) ==
  [name |-> n, deps |-> deps, disjunctive |-> TRUE, argument |-> FALSE]
TakesArgument(n) ==
  [name |-> n, deps |-> <<>>, disjunctive |-> FALSE, argument |-> TRUE]

TaskTasks == <<
  Needs("task-list", <<>>), Needs("task-graph", <<>>),
  Needs("task-selection", <<>>), Needs("time-report", <<>>)>>

ParseTasks == <<
  Needs("scan-trace", <<>>), Needs("parse-trace", <<>>), TakesArgument("prelude"),
  Needs("no-prelude", <<>>), Needs("parse", <<>>), Needs("library-display", <<>>),
  TakesArgument("library-append"), TakesArgument("library-prepend")>>

AstTasks == <<Needs("ast-display", <<"parse">>), Needs("ast-dump", <<"parse">>)>>

AstcloneTasks == <<Needs("clone", <<"parse">>)>>

\* Bindings computed whether or not there is a tree.
BindTasks_Bug == <<
  Needs("bindings-compute", <<>>), Needs("bindings-display", <<"parse">>),
  Needs("bound", <<"bindings-compute">>), Needs("rename", <<"bindings-compute">>)>>

BindTasks == <<
  Needs("bindings-compute", <<"parse">>), Needs("bindings-display", <<"parse">>),
  Needs("bound", <<"bindings-compute">>), Needs("rename", <<"bindings-compute">>)>>

\* Escapes of a tree whose names are not bound.
EscapesTasks_Bug == <<
  Needs("escapes-compute", <<"parse">>), Needs("escapes-display", <<"parse">>)>>

EscapesTasks == <<
  Needs("escapes-compute", <<"bound">>), Needs("escapes-display", <<"parse">>)>>

TypeTasks == <<
  NeedsOneOf("typed", <<"types-compute", "object-types-compute">>),
  Needs("types-compute", <<"bindings-compute">>)>>

DesugarTasks == <<
  Needs("desugar-for", <<>>), Needs("desugar-string-cmp", <<>>),
  NeedsOneOf("desugared", <<"desugar">>),
  Needs("desugar", <<"types-compute", "rename">>),
  Needs("raw-desugar", <<"typed", "rename">>)>>

LlvmtranslateTasks == <<
  Needs("llvm-compute", <<"typed", "desugar-for", "desugar-string-cmp",
                          "desugar", "escapes-compute">>),
  Needs("llvm-runtime-display", <<>>), Needs("llvm-display", <<"llvm-compute">>)>>

\* object-bindings-compute is declared by no file.
ObjectTasks == <<
  Needs("object", <<>>), Needs("object-parse", <<"object", "parse">>),
  Needs("object-types-compute", <<"object-bindings-compute">>),
  Needs("object-rename", <<"object-types-compute">>)>>

Build == TaskTasks \o ParseTasks \o AstTasks \o AstcloneTasks \o BindTasks
           \o EscapesTasks \o TypeTasks \o DesugarTasks
           \o LlvmtranslateTasks \o ObjectTasks

TaskNames == {Build[i].name : i \in DOMAIN Build}
               \union {"object-bindings-compute"}
=============================================================================

------------------------------ MODULE Pipeline ------------------------------
(***************************************************************************)
(* The compiler as its tasks drive it: the task register, and what the     *)
(* body of each task does to the state the passes share, which is global:  *)
(* ast::tasks::the_program, escapes::escaped, the prelude and the library  *)
(* search path, the flags of the BooleanTasks, llvmtranslate::module.      *)
(*                                                                         *)
(* The tree is abstracted to the annotations the passes leave on it, the   *)
(* program to the features that decide what the passes answer.             *)
(***************************************************************************)
EXTENDS TaskRegister, TaskTable

CONSTANTS
  Sources,   \* the input programs
  NoTree     \* the_program before any parse

Source == [parses : BOOLEAN,    \* it is syntactically correct
           binds : BOOLEAN,     \* its identifiers are declared
           types : BOOLEAN,     \* it is well typed
           unit : BOOLEAN,      \* it is a list of chunks, not an expression
           builtins : BOOLEAN,  \* it calls a primitive of the prelude
           compares : BOOLEAN,  \* it compares strings
           forward : BOOLEAN,   \* a chunk uses a name it declares further on
           argloop : BOOLEAN]   \* it has a for loop in an argument of a call

\* The annotations of a tree: def_ pointers, types, escaping variables; whether
\* names are those of the source, unique, or torn between uses and
\* declarations; whether syntactic sugar is left; whether the prelude was
\* prepended.
Tree == [bound : BOOLEAN, typed : BOOLEAN, escapes : BOOLEAN,
         names : {"source", "unique", "torn"}, sugar : BOOLEAN,
         prelude : BOOLEAN]

\* The compiler has the tasks of the table, in the order the linker chooses.
ASSUME PipelineAssumption ==
  /\ Sources \subseteq Source
  /\ NoTree \notin Tree
  /\ DefaultTask = "parse"
  /\ \A p \in Programs : Range(p) = Range(Build)

VARIABLES
  program,    \* the input file
  tree,       \* the_program: NoTree or the annotations of the tree
  escaped,    \* escapes::escaped
  prelude,    \* parse::tasks::prelude: "builtin", "none", "file"
  library,    \* what was added to the search path, as places of options
  flags,      \* the BooleanTasks executed
  module,     \* whether llvmtranslate::tasks::module has been computed
  accepted    \* history: the program has passed the type checker

passVars == <<program, tree, escaped, prelude, library, flags, module, accepted>>
allVars == <<vars, passVars>>

ParseErrors == 1..3
BindError == 4
TypeError == 5

Current == task_order[pos + 1]
Body(n) == Running /\ Current = n

\* A task dereferences a null def_ or type.
Crash ==
  /\ Running
  /\ phase' = "crashed"
  /\ UNCHANGED <<unbuilt, task_list, cmdline, pending, arg, stack, task_order,
                 task_error, pos, exit_status>>

-----------------------------------------------------------------------------
(* The parser's tasks.                                                     *)

\* A fresh tree replaces the previous one; the prelude is only prepended to
\* a program that is an expression.
Parse ==
  /\ Body("parse")
  /\ \/ /\ program.parses
        /\ tree' = [bound |-> FALSE, typed |-> FALSE, escapes |-> FALSE,
                    names |-> "source", sugar |-> TRUE,
                    prelude |-> prelude = "builtin" /\ ~program.unit]
        /\ ExecuteTask
     \/ /\ ~program.parses
        /\ \E e \in ParseErrors : ThrowError(e)
        /\ UNCHANGED tree
  /\ UNCHANGED <<program, escaped, prelude, library, flags, module, accepted>>

ChoosePrelude ==
  /\ \/ Body("no-prelude") /\ prelude' = "none"
     \/ Body("prelude") /\ prelude' = "file"
  /\ ExecuteTask
  /\ UNCHANGED <<program, tree, escaped, library, flags, module, accepted>>

\* A MultipleStringTask passes on whatever its only slot holds by now.
AddDirectory ==
  /\ \/ /\ Body("library-append")
        /\ library' = Append(library, arg["library-append"])
     \/ /\ Body("library-prepend")
        /\ library' = <<arg["library-prepend"]>> \o library
  /\ ExecuteTask
  /\ UNCHANGED <<program, tree, escaped, prelude, flags, module, accepted>>

-----------------------------------------------------------------------------
(* Bindings and names.                                                     *)

\* What the Binder answers on tree t.  The desugared forms of comparisons
\* call primitives, and that of a for loop holds a break, which the Binder
\* refuses within the arguments of a call.
Bindable(t) ==
  /\ program.binds
  /\ program.builtins => t.prelude
  /\ t.names # "torn"
  /\ ~t.sugar => (program.compares => t.prelude) /\ ~program.argloop

BindingsCompute ==
  /\ Body("bindings-compute")
  /\ \/ /\ Bindable(tree)
        /\ tree' = [tree EXCEPT !.bound = TRUE]
        /\ ExecuteTask
     \/ /\ ~Bindable(tree)
        /\ ThrowError(BindError)
        /\ UNCHANGED tree
  /\ UNCHANGED <<program, escaped, prelude, library, flags, module, accepted>>

\* The Renamer gives a use the name its declaration has when it gets to it:
\* a use without def_, or before its declaration, keeps its old name.
Rename ==
  /\ Body("rename")
  /\ tree' = [tree EXCEPT !.names =
                IF tree.bound /\ ~program.forward THEN "unique" ELSE "torn"]
  /\ ExecuteTask
  /\ UNCHANGED <<program, escaped, prelude, library, flags, module, accepted>>

\* A deep copy carries no annotation.
Bare(t) == [t EXCEPT !.bound = FALSE, !.typed = FALSE, !.escapes = FALSE]

Clone ==
  /\ Body("clone")
  /\ tree' = Bare(tree)
  /\ ExecuteTask
  /\ UNCHANGED <<program, escaped, prelude, library, flags, module, accepted>>

-----------------------------------------------------------------------------
(* Escapes and types.                                                      *)

EscapesCompute ==
  /\ Body("escapes-compute")
  /\ escaped' = TRUE
  /\ \/ /\ tree.bound
        /\ tree' = [tree EXCEPT !.escapes = TRUE]
        /\ ExecuteTask
     \/ /\ ~tree.bound
        /\ Crash
        /\ UNCHANGED tree
  /\ UNCHANGED <<program, prelude, library, flags, module, accepted>>

TypesCompute ==
  /\ Body("types-compute")
  /\ \/ /\ ~tree.bound
        /\ Crash
        /\ UNCHANGED <<tree, accepted>>
     \/ /\ tree.bound
        /\ program.types
        /\ tree' = [tree EXCEPT !.typed = TRUE]
        /\ accepted' = TRUE
        /\ ExecuteTask
     \/ /\ tree.bound
        /\ ~program.types
        /\ ThrowError(Raise(task_error, TypeError))
        /\ UNCHANGED <<tree, accepted>>
  /\ UNCHANGED <<program, escaped, prelude, library, flags, module>>

-----------------------------------------------------------------------------
(* Desugaring: a copy without sugar, whatever the flags say.               *)

Desugared_Bug(t) == [Bare(t) EXCEPT !.sugar = FALSE, !.prelude = FALSE]
Desugared(t) == [Bare(t) EXCEPT !.sugar = FALSE]

\* On an untyped tree the visitor reads null types: it may well crash.
RawDesugar ==
  /\ Body("raw-desugar")
  /\ \/ /\ tree' = Desugared(tree)
        /\ ExecuteTask
     \/ /\ ~tree.typed
        /\ Crash
        /\ UNCHANGED tree
  /\ UNCHANGED <<program, escaped, prelude, library, flags, module, accepted>>

\* The copy is bound and typed again, and the escapes computed again if they
\* had ever been.
Annotated_Bug(t) == [t EXCEPT !.bound = TRUE, !.typed = TRUE]
Annotated(t) == [t EXCEPT !.bound = TRUE, !.typed = TRUE, !.escapes = escaped]

Desugar ==
  /\ Body("desugar")
  /\ \/ /\ Bindable(Desugared(tree))
        /\ tree' = Annotated(Desugared(tree))
        /\ ExecuteTask
     \/ /\ ~Bindable(Desugared(tree))
        /\ ThrowError(BindError)
        /\ UNCHANGED tree
     \/ /\ ~tree.typed
        /\ Crash
        /\ UNCHANGED tree
  /\ UNCHANGED <<program, escaped, prelude, library, flags, module, accepted>>

-----------------------------------------------------------------------------
(* Translation to LLVM IR, and the tasks that do nothing to this state.    *)

LlvmCompute ==
  /\ Body("llvm-compute")
  /\ \/ /\ tree.bound /\ tree.typed
        /\ module' = TRUE
        /\ ExecuteTask
     \/ /\ ~(tree.bound /\ tree.typed)
        /\ Crash
        /\ UNCHANGED module
  /\ UNCHANGED <<program, tree, escaped, prelude, library, flags, accepted>>

Flags == {"scan-trace", "parse-trace", "desugar-for", "desugar-string-cmp",
          "llvm-runtime-display", "object"}

RaiseFlag ==
  /\ Running
  /\ Current \in Flags
  /\ flags' = flags \union {Current}
  /\ ExecuteTask
  /\ UNCHANGED <<program, tree, escaped, prelude, library, module, accepted>>

Displays == {"ast-display", "ast-dump", "bindings-display", "escapes-display",
             "library-display", "llvm-display", "task-list", "task-graph",
             "task-selection", "time-report"}
Markers == {"bound", "typed", "desugared", "object-parse"}

NoEffect ==
  /\ Running
  /\ Current \in Displays \union Markers
  /\ ExecuteTask
  /\ UNCHANGED passVars

-----------------------------------------------------------------------------
PInit ==
  /\ Init
  /\ program \in Sources
  /\ tree = NoTree
  /\ escaped = FALSE
  /\ prelude = "builtin"
  /\ library = <<>>
  /\ flags = {}
  /\ module = FALSE
  /\ accepted = FALSE

PNext ==
  \/ Schedule /\ UNCHANGED passVars
  \/ Parse
  \/ ChoosePrelude
  \/ AddDirectory
  \/ BindingsCompute
  \/ Rename
  \/ Clone
  \/ EscapesCompute
  \/ TypesCompute
  \/ RawDesugar
  \/ Desugar
  \/ LlvmCompute
  \/ RaiseFlag
  \/ NoEffect

PSpec == PInit /\ [][PNext]_allVars

\* The driver is one thread, and every pass ends.
PFairness == WF_allVars(PNext)
PFairSpec == PSpec /\ PFairness

-----------------------------------------------------------------------------
(* Properties.                                                             *)

TreeTasks == {"ast-display", "ast-dump", "clone", "bindings-compute", "rename",
              "escapes-compute", "types-compute", "desugar", "raw-desugar",
              "llvm-compute"}

\* "the_program should have been set by the parse module by now" (comment in
\* ast/tasks.cc): whatever the options and their order, no task dereferences
\* the tree before a parse, nor the LLVM module before the translation.
ProgramIsSet ==
  /\ Running /\ Current \in TreeTasks => tree # NoTree
  /\ Running /\ Current = "llvm-display" => module

\* What each pass takes for granted of the tree it is given.
Ready(n) ==
  CASE n \in {"rename", "types-compute", "escapes-compute"} -> tree.bound
    [] n = "raw-desugar" -> tree.bound /\ tree.typed
    [] n = "desugar" -> tree.bound /\ tree.typed /\ tree.names = "unique"
    [] n = "llvm-compute" -> tree.bound /\ tree.typed /\ tree.escapes /\ ~tree.sugar
    [] OTHER -> TRUE

\* The options that replace the tree by one without annotations: those made for
\* the tree before it are not made again.
Renews ==
  \E i \in DOMAIN cmdline.options : cmdline.options[i] \in {"parse", "clone", "raw-desugar"}

\* The driver ends, with an exit status, on every command line of the build that
\* keeps the annotations: no pass meets a null pointer, and no recursion of the
\* register goes on.
Ends == ~Renews => <>(phase = "exited")

\* The tree of a sound program handed to a pass carries the annotations the
\* pass needs, with whatever other passes ran in between: those that copy
\* the tree restore what they drop.
PassesAreReady ==
  Running /\ Current \in TreeTasks /\ ~program.forward /\ ~Renews => Ready(Current)

\* A program the type checker has accepted is not refused afterwards for a
\* binding or typing error that is not in the source, provided its names
\* are declared before their use, the primitives its desugared form calls
\* are there, and no for loop is an argument.
AcceptedForGood ==
  LET fragile == \/ program.forward \/ program.argloop
                 \/ program.compares /\ ~tree.prelude
  IN accepted /\ phase = "exited" /\ ~fragile /\ ~Renews => exit_status = Success
=============================================================================

# A TLA+ model of the Tiger compiler

This directory holds TLA+ modules that model the compiler of this repository,
TLC configurations that check them, and TLAPS proofs about some of them. The code
is read with its comments and tests; the file and line of every modelled
definition is in `PROJECT.json` (`map`).

The compiler is sequential: one process, one thread, no persistence, no network.
What makes it hard is not concurrency but *composition*: some forty passes are
put in order by a task system from whatever options the user gives, they share
global state (the tree, flags, symbol tables), each relies on annotations others
left, and visitors keep their context in plain members that nested constructs
change under them.

## 1. Inventory

| Component | State it keeps | Operations | Interacts with | What makes it correct |
|---|---|---|---|---|
| Task register (`src/src/task`, `tc.cc`) | `task_list_`, `task_order_`, the global `task_error()`, the argument slot of each task | `register_task`, `parse_arg`, `enable_task`, `resolve_dependencies`, `execute`, `main` | calls every task; called by the notifiers of boost::program_options | dependencies first, chronological order, no repetition unasked, no execution after an error, termination |
| Task table (`*/tasks.hh`) | the task objects | static construction | register | acyclic, known dependencies |
| Task bodies (`*/tasks.cc`) | `the_program`, `escaped`, `prelude`, search path, flags, LLVM module | one body per task | passes | no pass meets a missing or stale annotation; an accepted program stays accepted |
| Error handler (`misc/error`) | status, text | `<<`, `exit_on_error`, `ice_on_error` | all | the gravest (lowest) status survives, nothing runs after `exit` |
| Scoped map (`misc/scoped-map`) | a vector of maps | `put`, `get`, `scope_begin`, `scope_end`, `get_last_scope` | Binder, Escapes, escapes collector | a stack of dictionaries |
| Binder (`bind/binder`) | three scoped maps, the loop stack, three context flags, the error | one visiting method per construct | scoped map, default visitor, error | lexical scoping; a break has its own loop |
| Renamer (`bind/renamer`) | a counter | declarations renamed, uses follow `def_` | Binder's pointers | unique names, uses agree with declarations |
| Escapes (`escapes`) | a scoped map, `in_primitive` | visits of uses, variables, functions | Binder's pointers, translator | a variable used in an inner function escapes |
| Type checker (`type`) | types on nodes, the error, read-only loop variables | one visit per construct, two passes per chunk | Binder's pointers, desugaring, translation | soundness; named types resolve; no type cycle |
| Cloner, desugaring (`astclone`, `desugar`) | the result of the last visit | copy; for loops and string comparisons | Tweast, parser, Binder, types | the copy means the same, annotations restored |
| Parser driver, file library (`parse`, `misc/file-library`) | inputs, open files, directory stack, search path | `parse`, `parse_import`, `find_file` | grammar, tasks | recursive imports refused, stack balanced, order of declarations kept |
| Tweast, metavariables (`parse/tweast`) | tables of subtrees | append, retrieve | desugaring, parser | each subtree used once |
| Translator (`llvmtranslate`) | values of variables per function, escaped variables, loop exits | one visit per construct | LLVM | blocks well formed, captured variables passed |
| Runtime (`llvmtranslate/runtime.cc`, `tiger-runtime.c`) | none | primitives | generated code | bounds of strings and characters |
| Object extensions (`object`) | – | stubs | unreachable: `object-bindings-compute` is declared nowhere | – |
| Abstract syntax, visitors (`ast`) | the nodes, each owned by one other | construction, visits, destruction | all passes | every node visited, freed once |
| Pretty-printer, dumper (`ast/pretty-printer`, `ast/dumper-dot`) | flags and places shared by the visits | one visit per node | parser, desugaring (which parses what is printed) | the output stands for the tree |
| Containers, bindings, build (`misc`, `tcsh`, `build-aux`) | – | – | – | – |

Behaviours that are hard to test: the combinations and orders of options;
dependencies skipped because they were done *once*; passes repeated on generated
trees; errors recorded in one place and looked at in another; context flags under
nesting; scopes opened and closed by different constructs; names of a chunk used
before their declaration; trees printed and parsed again; blocks that end elsewhere than they
began; integers, characters and sizes at their limits. `PROJECT.json` (`hazards`) lists them at their lines.

## 2. Modules

```
TaskRegister ── TaskRegister_proofs        TaskTable
     │  └────── MCTaskGraphs                   │
     └─────────────── Pipeline ────────────────┘
                         ├── MCPipeline
                         └── Pipeline_proofs (with TaskRegister_proofs)
Environment <═implements═ ScopedMap ── ScopedMap_proofs, MCScopedMap
                             │ (three instances)
LexicalScoping <═implements═ Binder ── MCBinder, Binder_proofs
Imports ── Imports_proofs, MCImports
Names ── Lifting ── MCLifting, Lifting_proofs
Ast ── AstWalks ── MCAstWalks,
 │                AstWalks_proofs ── AstResults_proofs
 └─ Trees ── Grammar ── Printing ── Syntax (with Writing) ── MCSyntax
      │                    └── Desugaring ──┐
      └─ Typing ─┬─ Meaning ────────────────┤
                 └─ Translation ─ Execution ┴─ Compile (with Writing) ── MCCompile
```

### The driver

**TaskRegister** models `TaskRegister`, `Task`, `DisjunctiveTask`,
`ArgumentTask` and `main`. The mutual recursion of `enable_task` and
`resolve_dependencies` is the variable `stack`, one frame per call in progress
with the dependencies still to activate; `SkipDep`, `ActivateDep` and
`AppendTask` are the turns of the loop and its end. The unbounded C stack has
`StackLimit` frames, and `OverflowStack` crashes beyond. The phases
(`registering`, `parsing`, `defaulting`, `executing`, `exited`, `crashed`) are
places in `main`. `boost::program_options` is modelled by what `parse_arg`
makes of it: a list of options, `help` and its like as one Boolean, the presence of an
input file. The task graph is a parameter, so that it can be any graph.

**TaskTable** is the table of the shipped tasks, line for line.

**Pipeline** extends both and gives each task a body: an action that takes the
place of the abstract `ExecuteTask`/`ThrowError`. The tree is a record of the
annotations passes read and write (`bound`, `typed`, `escapes`, whether names
are unique, whether sugar or the prelude is there); the program is a record of
the features that decide what a pass answers. A prelude file declares none of
the primitives. `raw-desugar` and `desugar` on an untyped tree may crash or not,
for they may read a null type or may not. Null pointers that are dereferenced
crash. The desugaring visitor never reads the flags it is given, though
`libdesugar.hh:31-32` gives them a meaning: `Desugared` has no use for them.
`Renews` names the options after which a scheduled task's work is gone.

### Names

**ScopedMap** is the vector of maps; **Environment** says what it is for: closing a
scope restores what was visible. `IsEnvironment` is the refinement, with
`visible` and `outer` computed by `get` on the prefixes of the vector.

**Binder** uses three instances of ScopedMap. There is no program as data: each
step visits one more construct that the grammar allows at that point, and `walk`
is the visitor's call stack. Behaviours are thus the visits of all programs. A
visiting method is split where it visits a child (`FunctionDec`, `EndOfFormals`,
`LeaveFunctionDec`). Declarations are numbered in the order the visitor first
meets them. Constructs the Binder does not override only visit
their children in turn and do not appear. **LexicalScoping** says what binding is:
a use means what its name means where it stands, and what constructs declare
lasts until they end; after a first error nothing is promised.
`named` is what the last step named: the declaration it visited, the one a use was
bound to, or the loop a break was bound to (a loop is known by its depth in
`walk`). It makes the refinement say that a declaration does become visible.

**Names** is the Renamer and the escapes visitor. Here a program is data: the
events its visit meets (declarations, uses, the bounds of chunks and functions),
written one at a time as grammar and scopes allow, well bound by construction.
Each pass then goes over the events in order, as the visitor does, one event a step (`at`), with the
members of its visitor as variables (`unique_number_`; `scoped_map_` and `in_primitive`).
What is left out: a `let` lasts to the end of its function, and types and functions do
not meet in one program (they have name spaces, and visits, of their own).

**Lifting** goes on: the desugared clone is bound again by its present names
(`Rebound`), the escapes collector computes what each function captures, an event a step too, and the translator lays out what is
an argument, a local or a global. A chunk of functions is visited in a loop until a
round adds nothing: `loops` has, for each chunk around, where it starts and the flag that was saved, which are the
locals of `operator()(FunctionChunk&)`; `GoRoundAgain` is the turn of its `while`, and `EndOfFunctionChunk` its exit. Renaming first is optional, as on the command line; without
it names may be rebound to something else, which is only allowed for once the names are unique.

**Imports** is `parse::parse`, `TigerDriver` and `misc::file_library` on any file system:
files hold chunks, imports and expressions, paths are sequences of components, and
`frames` is the recursion of `parse_import`, one frame per open file with the items left
to read and the lists read. Paths are compared as `std::filesystem` compares them; what is
on disk is known by the path with dots resolved. What a program should hold, `ChunksWithin`, is computed from the files alone, without
the frames (`NoChunkIsLost`), to the depth of `MaxOpen` files, the most that are ever open.

### Trees

**Ast** is the table of the classes: base, owned members (one, optional, many), and what
each destructor deletes. **AstWalks** builds any tree of that table in a heap,
then dumps it, visits it, clones it and deletes both, with `result_`, `parent_id`,
`parent_field` as the shared variables they are and `stack` as the recursion. Comparing the address of a null
reference (an `if` without `else`) is undefined: AstWalks, Syntax and Compile take both outcomes, the test or a crash (`CheckDropped`), and
what is checked is the outcome in which the test is kept.

**Trees**, **Grammar**, **Printing** are the parser's factory, the scanner with the grammar, and
the pretty-printer. The grammar is written as recursive descent over the rules and the declared
precedences, a function from lexemes to the tree and the rest; in strings and comments a lexeme is
one character, elsewhere one token. Printing interprets the layout of each node with the two flags the
visits share. **Syntax** writes a text (**Writing** makes
a text from parts, each in one of several ways at some cost, up to a budget), parses it, prints it and parses that.

### Meaning

**Typing** is the type checker with its types in a table, for they are compared by address;
**Desugaring** the visitor that rewrites loops and string comparisons as texts it parses;
**Translation** the code generator on blocks of instructions; **Execution** those instructions (LLVM: external)
and the run-time library, both in C and as the compiled IR the compiler links (`runtime.cc`, generated for a 32-bit target, with
signed characters). **Meaning** is the reference: what a program of the language should do,
read from nothing in the code. **Compile** composes them: a text is
parsed, typed, evaluated (`want`), desugared and evaluated again (`again`), translated and executed (`outcome`). The copy that desugaring makes of an `if` without
`else` has an empty one (`IfExp_clone`), but those it writes for a loop have none: both reach the translator.

What is left out there: programs are written with distinct names, so that rebinding is by declaration, and the escapes
are the ones intended (Lifting shows when the flags differ); no `break` or function inside a loop's bounds or
conditions; the checker's recovery after an error; casts and objects. Division is left out, for LLVM's is the language's.

## 3. Runs

| Run | Shows | Bounds, and why they are enough |
|---|---|---|
| `task_graphs` | types, `DependenciesFirst`, `ScheduledOnDemand`, `ChronologicalOrder`, `NoRunWithUnknownDep`, `EndsIfAcyclic` | two tasks beside `parse` and an unregistered name, every dependency list of two or fewer, disjunctive or not, cycles and self-loops, a task declared twice, the default task depending on either of the others, no `parse` at all; two options. Diamonds, cycles and repetition already occur. |
| `pipeline` | `ProgramIsSet`, `PassesAreReady`, `AcceptedForGood`, `Ends` | shipped table, any two options, any three of those that replace the tree or depend on it; ten programs: one sound, one per feature, some combined |
| `scoped_map` | `TypeOK`, `IsEnvironment`, `PutShadows` | two keys, two data, four scopes: shadowing by oneself and by others |
| `binder` | scopes match constructs, breaks, flags, recursion of chunks, `IsLexicalScoping` | three declarations, six deep, seven constructs (`MaxSize`), chunks of two: shadowing at each level, in two spaces; a function in a let in a loop in a function |
| `break_out_of_function` | a disagreement, below | as small as shows it |
| `imports` | `DirectoriesFollowFiles`, `NoFileWithinItself`, `ChunksAreAllInOrder`, `ParseEnds` | three files and one of the library, each any two items; plain, absolute and dotted names; one directory added; six files open (`MaxOpen`), beyond any depth plain names reach |
| `lifting` | what the renamer, the flags and the lifted arguments are | four declarations beside the prelude, its formal and `_main`, one variable, two uses (a call and a variable it needs), chunks of two: functions nested or next to each other, a chunk in a function of a chunk; longer chains of calls, and calls of `_main` (`Unused`), are left to the theorems |
| `uses_follow_their_declarations` | a disagreement, below | as small as shows it |
| `escaping_is_flagged` | a disagreement, below | as small as shows it |
| `ast_walks` | dump, visit, clone and destruction | every class, every pair of members not at their least, lists of two |
| `syntax` | `PrintedIsParsedBack` | every construct in every place of every construct (budget two), comments and escapes displayed: an operation on the right of another of each precedence, a loop in the value of a variable before and after another variable's end |
| `compile` | `AcceptedGoesRight`, `DesugarKeeps`, `TranslationSucceeds`, `CodeIsWellFormed`, `CodeDoesWhatIsMeant` | four families of programs (types and nil, loops and breaks, strings, functions) with two of their parts varied; integers of 4 bits and characters of 3, so that loops reach the largest integer and characters have a sign; six calls or iterations (`Fuel`), which loops over the whole range of the bounds tried need, a program that needs more has no verdict |

`CHECK_DEADLOCK FALSE` wherever the system stops: a program that
has exited, a visit or a parse that is over, a compilation that is done or refused. A visit may also be stopped
by the bounds on declarations and depth. `scoped_map` never stops and checks deadlock.

Some properties name the exceptions the code has, as `\/ OmittedField`: each exception is a real
case, which a run finds when it is taken out of the property. They are listed next.

**Fairness.** The driver and the parser have liveness properties, under weak fairness of
their steps (`FairSpec`; `PFairSpec`, `MCFairSpec` in its run; `Step` in Imports): one thread, no waiting,
every pass a finite recursion over a finite tree. `EndsIfAcyclic` says the
recursion ends, and fits the stack, when the graph is acyclic; `Ends`
that the shipped table always does, with the passes; `ParseEnds` that files importing each
other by plain names are read or refused, never for ever. The options that may be added to the search path are not fair:
they are the user's.

### Disagreements between code and comments, with a run

- `break_out_of_function`: the diagnostic of `binder.cc:51` is missed in a function declared in a loop.
- `uses_follow_their_declarations`: after "rename identifiers to be unique" (`bind/tasks.hh:29`) a
  call to a function declared later in its chunk still has the old name.
- `escaping_is_flagged`: "variables and formals of a function may escape, i.e., be accessed by an inner function" (`escapes-visitor.hh:5-6`, and
  18-19); a variable that an inner function uses is not flagged when the function that declares it uses it too
  (`FlaggedUnlessUsedAtHome` says what the flag is then worth, and `AccessesAreOwn` excludes what follows from it: its alloca is used from another function).

### What else the models show

- *Task cycles* are recursed into until the stack is full (`task-register.hh:60` says "check cycles");
  no shipped task is on one. A disjunctive task on a cycle can be scheduled twice by one option (`ScheduledOnDemand` is for acyclic graphs).
- *Stale trees*: with `--types-compute --parse --desugar` the tree given to desugar is
  neither bound, nor typed, nor renamed, as `libdesugar.hh:28-30` requires, for dependencies count as done
  (`PassesAreReady` excludes options after one that `Renews`).
- *Errors in generated programs* end with the status of a user's error, not an
  internal one (`libdesugar.hh:19`): the Binder throws before `ice_on_error_here`.
- *Directories*: of two `-P`, the last one is added twice; a relative name is looked for in the search path as
  `name/name` (`file-library.cc:109`), as the library file of the `imports` run lies.
- *Imports*: chunks of an imported file come in reverse order; through `.` or `..` a file includes itself until something gives.
- *Breaks*: a construct within a condition clears the flag that forbids a break there (`binder.cc:226`).
- *Escapes*: a variable that nothing uses is flagged too (`escapes-visitor.cc:35`).
- *String comparison*: `<>` is desugared to `streq(..) <> 0`, which is the equality, where
  `test-string-cmp-desugar.cc:52` has `= 0`: `DesugarKeeps` says that a program then does what it would with `=` (`StringsMistaken`), and nothing else changes.
- *Loop bounds*: the variable of a `for` is in scope in its upper bound.
- *Printing*: an operation on the right of another of no higher precedence, as a unary minus makes (`1 - -2`), loses its parentheses, strings lose their escapes, a loop in the value of a variable
  prints `var` before its own (unless a chunk of variables ended before it in that value), chunks next to each other merge. All
  make the output of `-A` another program, or none, always, and `PrintedIsParsedBack` says that nothing else does; the first two also spoil what desugaring prints
  of a loop to parse it again (`PrintedWrong`).
- *Types*: records may omit fields, cells and nil can be ordered by `<`; a nil without record type, a variable without value and an array of itself
  are accepted and stop the translation.
- *Strings*: a string compared with one of a type that names `string` is compared by address.
- *Characters*: `ord(chr(i))` is negative for the upper half, and `substring` of one such character reads outside the table.

## 4. Proofs

All proofs are checked by TLAPS to the last leaf, without any assumption but the
`ASSUME`s of the modules, which only type the constants.

*TaskRegister_proofs.* `TypeCorrect`: `Spec => []TypeOK`. `DependenciesComeFirst`:
`Spec => []DependenciesFirst`, for every task table, every command line and every
stack limit, cycles included. The invariant alone is not inductive: when `AppendTask` adds a task,
that its dependencies are scheduled already is only known from the frame.
The strengthening says of each frame on the stack that each registered dependency is
either scheduled or still in the frame's list (for a disjunctive task: that one of them is
scheduled, or that the one picked is in the list); it stays true because `task_order` only grows. A frame that waits for a dependency keeps it at its head
until it is found scheduled, which is why the call in progress needs no invariant of
its own. `UnknownDepsStopTheRun`: `Spec => []NoRunWithUnknownDep`; its invariant says that what
precedes the execution has options to treat, and that a dependency found missing is recorded
as an error that stays until `main` looks.
`OptionsInOrder`: `Spec => []ChronologicalOrder`, for every graph, cycles included. A task an option
names may have been scheduled before for another's sake, so the invariant (`ChronoInv`) says that the options notified
so far are, in order, a subsequence of the execution order (`Embedded`); while a call is in progress, all
but the last one, whose task is at the bottom of the stack and will be appended.
`OnceMoreThanNamed`: `Spec => []ScheduledOnDemand`, for every acyclic graph. Counting needs the
graph's ranks: along the stack they decrease (`RanksDecrease`), so that a task is in progress at most once,
and a task in progress has not used the one turn that no option accounts for (`Room`).

*Pipeline_proofs.* `TheProgramIsSet` (`ProgramIsSet`), `ThePassesAreReady` (`PassesAreReady`) and
`AcceptedStaysAccepted` (`AcceptedForGood`), for every program, registration order and command line of any length over
the shipped task table. They do not follow from what the register promises of any table: a pass
needs that what *it* reads was made. The invariant (`PassInv`) says that the register holds the tasks of the
table and no others (`TableInv`); that on a command line that renews nothing no renewing task
is scheduled, and `parse` once (`OptionsInv`); and which annotations the tree has, given the tasks executed so far
(`Annotations`). `DependenciesComeFirst` then gives, for the task to execute, the ones it depends on, directly or through others
(`DepsComeBefore`). `PipelineAssumption` says that the default task is `parse`, that the sources are among those described, and
that the registration orders differ only in their order.

*ScopedMap_proofs.* `TypeCorrect`, then `ImplementsEnvironment`: `Spec =>
IsEnvironment`, for any keys, data and depth. The lemmas say that `get` on the
first *n* maps only depends on those maps (so `scope_begin`
and `put` leave the outer meanings alone), that a fresh scope changes no meaning, and
that `put` changes the meaning of one key. The greatest scope holding a key exists by
the well-foundedness of the naturals (`LeastNatural`, `GreatestUpTo`).
`GetsWhatWasPut` (`PutShadows`) follows from the same lemmas: the refinement alone would
allow a `put` that outer scopes hide.

*Imports_proofs.* `DirectoriesFollow`: `Spec => []DirectoriesFollowFiles`, for every file system,
import cycles and dotted names included, and every search path. The invariant adds that no two open files have
one name, so that closing a file closes no other; that a file that waits still has its import to read; and the types.
The key lemma: where a file is found, the directory with the name is a file that exists.
`NeverWithinItself`: `Spec => []NoFileWithinItself`. While nothing is named through `.` or `..`, every path the parser makes is
plain, from the working directory, the library or the directory of the file that imports (`PlainInv`); plain paths are the file they name, and
`open_files_` compares paths. `ChunksInOrder`: `Spec => []OrderOfChunks`, for imports of any depth. A chunk is known by its
trail, the place of each import that led to it; what a list of a file at depth *d* holds shares the places of the files around it (`From`),
and two chunks of it part at some import whose distance from *d* is even exactly when they are in order (`Before`, `Brought`).
`PushChunks` reverses each list and puts one after the other, so that what it makes satisfies the same one level up (`ChunksPushed`).
`AllChunksCome`: `Spec => []NoChunkIsLost`, for every file system, search path and text: what is accepted has all the chunks of its files and no other. The
invariant (`ChunksHeld`) says of each open file that the items left are its last ones, and that the list of each item read holds what `ChunksWithin` has for that
item (for an import, the chunks of the file it leads to from the directory of the importer); and of a file that waits, that its next item is the import that led to the frame above (`Waits`).
That the recursive function exists is proved first (`WithinUnfolds`); a file whose items are all read then holds what it should (`AllRead`), which is what it hands up (`ImportHeld`).
`ChunksComeInOrder` puts the two together, as the run does (`ChunksAreAllInOrder`). `ImportsAssumption` says that at least one file may be open.

*AstWalks_proofs.* `NoDoubleDelete` (`NothingIsFreedTwice`) and `VisitsAreComplete` (`EveryNodeIsVisited`), for every tree
the classes of Ast allow, of any size. The invariant (`WalksInv`) has a disjunct for each phase. While the tree is built
(`Growing`), and ever after, each node is held by one member of one node, the root by none (`Owned`); members have the lengths their
class allows and addresses grow downwards (`Tree`). While it is cloned (`Cloning`), the nodes up to *N* are the
original's and hold each other, those beyond are the clone's and hold each other (`Apart`); each of the latter is held by another, or in the members
of one frame of the Cloner (`Stacked`), or is `result_`, about to be taken (`Awaited`): so `recurse` takes no node twice and
none is lost (`Accounted`). While nodes are visited or deleted, what is done and what is on the
stack are distinct and closed under the members that the visit, or the destructor, goes through (`Worklist`). The lemmas on
sequences say where the elements of a `FlattenSeq` are found (`FlattenPlaces`), those on classes go row by row through the tables
of Ast and of the visitors (`EveryRow`).

*AstResults_proofs.* What comes of those walks, for the same trees: `ClonesAreCopies` (`TheCloneIsACopy`), `NothingElseLeaks`
(`OnlyObjectsLeak`), `LinksFindTheirPorts` (`LinksHavePorts`) and `DumpsShowTheTree` (`TheDumpIsTheTree`). That the
clone is a copy needs a second invariant, `AlikeInv`: a relation *R* pairs each finished node of the clone with its original,
nodes so paired have the same class and paired members (`Similar`), and in each frame of the Cloner the members taken so
far are paired with the first ones of the original's while the calls left are the rest, in order (`Progress`, `CallsLeft`).
`SameTree` and `Reachable` are recursive functions over a heap without cycles: that such functions exist is
proved first (`ComparisonExists`, `ReachingExists`), and what they yield by a least counterexample, members being either all below or
all above their node (`SameFound`, `ReachedApart`). Nothing else leaks because the members destructors forget are names of types,
which hold nothing (`OnlyNames`, `NamesHoldNothing`): the rest of the tree is still reached. The dump has an invariant of
its own, `DumpInv`. The nodes printed and those due differ and are closed under members (`Sketched`, `Covered`), which gives that each is printed
once; the links a frame still has to draw start from ports its node was printed with and go to different members (`ToDraw`, from
`DumpsOf`: the tables of ports and of members agree, class by class); the node about to be visited has the frame below as parent
(`Parents`), which holds across the visits in between only because each restores `parent_id`; the links printed are those
from the nodes printed to what they hold (`Linked`). `FieldAssumption`: no name of a field is the null pointer that
`parent_field` starts with.

*Binder_proofs.* `TypeCorrect`, `ScopesFollow` (`ScopesMatchConstructs`), `BreaksAreBound`
(`BreaksInnermostLoop`) and `FlagsFollow` (`FlagsAreJustified`), for every program, names and depth. The core is
`StepTypes`: every action leaves `walk` with the same constructs, with one more or with one less, and then the depths
of the tables and the loop stack change by what that construct opens (`Stays`, `Pushes`, `Pops`). Depths then follow
by counting (`CountStep`). That a break finds its loop needs `LoopsFollow`: the loop stack holds the positions of all
the loops in `walk`, in order. The flags need of the other constructs only that those which justify them stay (`Survive`).

Then `ChunksRecursive` (`ChunksAreRecursive`), for every program. The property is not inductive: that
visiting one function leaves the others their meaning needs two more facts (`ChunkHolds`): the names of a chunk still
to visit differ, because a second one of the same name is diagnosed, and what stands directly in a chunk is one of its
functions, whose scope is open, so that what is put meanwhile goes to deeper scopes (`ChunkDepth`). All steps but the
two on chunks are `CalmStep`s: they leave the scopes up to the chunk's as they were. Nothing is claimed once
something has been diagnosed (`ErrorStays`).

Then the refinement, in the same module. `BindsLexically`: `Spec => IsLexicalScoping`, for every program of any
size and depth. `Env` and `Outers` are its mapping, restated over any walk and any tables (`Here`, `Outer`). Four lemmas say
what a step may do to them: `NothingMeant` (no meaning changes), `OneMeant` (a name changes in the last scope, which no
construct that is still to end had seen: `OpensBelow`), `OneOpens` and `OneCloses` (a construct begins; it ends, and what names meant
before it is back, though three tables are closed by different constructs). Each action is then one of `Walk`, `Use`,
`Declare`, `Enter`, `Leave`. Two strengthenings are needed beyond the depths (`ScopesFollow`) and `AlwaysChunked`. `Stand`: a chunk stands
in a `let` or at the bottom, so that its names go to a scope opened by the innermost construct, and nothing stands in a
chunk of types but a declaration. `TypesHold`: the types of a chunk still mean their
declarations, so that putting each a second time, when it is visited, changes nothing (`PutAgain`); for functions
that is what `ChunkHolds` says.

*Lifting_proofs.* `ForwardUsesAreStale` (`OnlyForwardUsesAreStale`), `FlagsSayNotUsedAtHome` (`FlaggedUnlessUsedAtHome`),
`LiftedExactlyWhatIsUsed` (`LiftedIsWhatCalleesUse`), `CallersHaveThem` (`CallersHaveLifted`) and `AccessesReachTheirOwn`
(`AccessesAreOwn`), for every program, of any size and nesting, with any calls. They follow from one invariant, `IInv`
(`PassesDoAsMeant`), which speaks of three histories that the program determines: before each event, *L* has the starts of
the chunks open and *F* the functions, and *home* says in which chunk a function stands. `Writing` says that what has been written
nests so far, and that what is in scope may be used there: a use comes after the variable it means, or after the start of
the chunk of the function it means (`WellUsed`). It holds step by step as constructs begin and end, and gives `Whole` for the program that the passes
visit. Then `PassesOk` has one part for each pass.

- `NamesOk`: up to the event visited, declarations have new names, all different, and uses the name their declaration had when they were met.
- `FlagsOk`: the scopes hold, function by function, the names of the variables met in the functions open (`ScopesOk`), so that with unique
  names the last scope has the name of a use exactly when it is at home; what is flagged is what `Flagged` says of the events so far.
- The clone is bound again to a program with the same variables (`Rebinds`, `BoundAgain`), which nests alike.
- `CollectOk`: what has been given is needed (`Sound`); every flagged variable used so far has been given to the function
  that uses it (`VarsGiven`); and a call whose caller lacks something of its callee's is in a loop that is to be gone round
  again (`CallsGiven`, `Again`): the flag of that loop is up, be it `did_modify_` itself or saved by a loop inside. A function
  is given more only while it is visited, within the loop of its own chunk, which began before any call to it: that loop will meet the call
  again. When the collector ends no loop is left:
  what has been given is closed under calls, and `LiftedExactly` follows with the smallest closed set.

`NamesAssumption` types the constants, and says that the names taken in turn differ; no name is reserved.

Left to TLC: liveness (`Ends`, `EndsIfAcyclic`, `ParseEnds`); and everything over trees (Syntax, Compile and what they are made of:
Grammar, Printing, Typing, Translation, Execution), whose operators are recursive and thus out of the prover's reach.

## 5. Each property fails for a mistake

Definitions named `..._Bug` are variants of modelled definitions with a plausible mistake: a
forgotten `scope_end`, a flag not reset, a comparison reversed, a dependency missing from the
table, a fixpoint cut short, a result not copied. With one of them in place of the definition it stands before, TLC finds the
property violated in the same configuration (`PROJECT.json`, `mutants`).

## 6. Not modelled, and plan

Not modelled: the generated automata of the scanner and parser and Bison's error recovery; the
object extensions (unreachable: their first task is declared nowhere); casts in the checker and
the translation (they take any type for any other: nothing to promise); timers, escapes and containers of `misc`;
Python bindings and build scripts; input, output and memory exhaustion of the runtime.

What could follow: a bottom-up model of the precedence tables Bison makes, to confirm
the recursive descent of Grammar; that modules on trees, written without recursive operators, keep the meaning of a program.

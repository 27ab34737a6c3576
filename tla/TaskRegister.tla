---------------------------- MODULE TaskRegister ----------------------------
(***************************************************************************)
(* The task system of the compiler driver: src/src/task and the main       *)
(* function of src/src/tc.cc.                                              *)
(*                                                                         *)
(* Every compiler pass is a Task object, built by a static constructor     *)
(* that registers it by name.  main() hands the command line to            *)
(* TaskRegister::parse_arg, which enables one task per option in           *)
(* chronological order; enabling a task first enables, depth first, the    *)
(* dependencies that are not scheduled yet.  The resulting task_order_ is  *)
(* then executed from left to right.                                       *)
(*                                                                         *)
(* enable_task and resolve_dependencies call each other; their call stack  *)
(* is the variable stack, one frame per resolve_dependencies in progress.  *)
(***************************************************************************)
EXTENDS Integers, Sequences, FiniteSets, Functions

CONSTANTS
  Name,          \* the names tasks are registered and asked for under
  Programs,      \* the sequences of Task objects a build may construct
  CommandLines,  \* the command lines main may be started with
  DefaultTask,   \* the task main enables when no option did: "parse"
  StackLimit,    \* how many nested resolve_dependencies the C stack holds
  NoTask         \* what task_list holds for a name nobody registered

\* The options are those of one command line, in the order they were given.
CommandLine == [options : Seq(Name), help : BOOLEAN, file : BOOLEAN]
Task == [name : Name, deps : Seq(Name), disjunctive : BOOLEAN,
         argument : BOOLEAN]
Frame == [task : Name, deps : Seq(Name)]
Status == 0..5                  \* misc::error::error_type
Success == 0
Failure == 1
UsageError == 64

ASSUME TaskAssumption ==
  /\ Programs \subseteq Seq(Task)
  /\ CommandLines \subseteq CommandLine
  /\ DefaultTask \in Name
  /\ StackLimit \in Nat \ {0}
  /\ NoTask \notin Task

VARIABLES
  unbuilt,      \* Task objects whose static constructor has not run yet
  task_list,    \* task_list_: the object registered under each name
  cmdline,      \* argv, as boost::program_options splits it
  pending,      \* the options whose notifier has not been called yet
  arg,          \* arg_ of each ArgumentTask: the place on the command line
                \* of the option whose argument it holds, 0 for none
  stack,        \* frames of enable_task / resolve_dependencies
  task_order,   \* task_order_: names of the tasks to execute, in order
  task_error,   \* status of the global task_error()
  pos,          \* how many tasks of task_order have been executed
  phase,        \* where main is
  exit_status   \* the status main returned

vars == <<unbuilt, task_list, cmdline, pending, arg, stack, task_order,
          task_error, pos, phase, exit_status>>

-----------------------------------------------------------------------------
(* Helpers.                                                                *)

(* The definitions named ..._Bug are variants with a plausible mistake; each  *)
(* property below is known to fail when one of them takes the place of the  *)
(* definition that follows it.                                             *)

\* Success compared as if it were the gravest status.
Raise_Bug(status, e) == IF e # Success /\ e < status THEN e ELSE status

\* misc::error::operator<<(error_type): a recorded status is only replaced
\* by a lower one, and success is replaced by anything.
Raise(status, e) ==
  IF status = Success \/ (e # Success /\ e < status) THEN e ELSE status

Registered(n) == task_list[n] # NoTask
Scheduled(n) == n \in Range(task_order)
DepsOf(n) == task_list[n].deps
UnknownDep(n) == \E d \in Range(DepsOf(n)) : ~Registered(d)

\* Task::resolve_dependencies, and the override of DisjunctiveTask: which
\* dependencies of task n to activate, given those already scheduled.
DepsToActivate(n) ==
  IF ~task_list[n].disjunctive THEN DepsOf(n)
  ELSE IF \E d \in Range(DepsOf(n)) : Registered(d) /\ Scheduled(d)
    THEN <<>>
    ELSE SubSeq(DepsOf(n), 1, IF DepsOf(n) = <<>> THEN 0 ELSE 1)

\* enable_task(n), up to the loop of the resolve_dependencies(n) it calls:
\* what remains to activate is left in a new frame.
EnableTask(n) ==
  \/ /\ ~Registered(n)
     /\ task_error' = Raise(task_error, Failure)
     /\ UNCHANGED stack
  \/ /\ Registered(n)
     /\ Len(stack) < StackLimit
     /\ task_error' = IF UnknownDep(n) THEN Raise(task_error, Failure)
                                       ELSE task_error
     /\ stack' = Append(stack, [task |-> n, deps |-> DepsToActivate(n)])

Exit(status) ==
  /\ phase' = "exited"
  /\ exit_status' = status

-----------------------------------------------------------------------------
(* Static construction of the Task objects.                                *)

RegisterTask ==
  /\ phase = "registering"
  /\ unbuilt # <<>>
  /\ unbuilt' = Tail(unbuilt)
  /\ LET t == Head(unbuilt) IN
       IF Registered(t.name)
         THEN /\ task_error' = Raise(task_error, Failure)
              /\ UNCHANGED task_list
         ELSE /\ task_list' = [task_list EXCEPT ![t.name] = t]
              /\ UNCHANGED task_error
  /\ UNCHANGED <<cmdline, pending, arg, stack, task_order, pos, phase,
                 exit_status>>

-----------------------------------------------------------------------------
(* parse_arg.                                                              *)

\* boost splits the command line: an option nobody registered is a usage
\* error before any notifier runs; help, version, usage and license are
\* served at once, without calling any notifier.
ParseCommandLine ==
  /\ phase = "registering"
  /\ unbuilt = <<>>
  /\ \/ /\ \E i \in DOMAIN cmdline.options : ~Registered(cmdline.options[i])
        /\ Exit(UsageError)
     \/ /\ \A i \in DOMAIN cmdline.options : Registered(cmdline.options[i])
        /\ cmdline.help
        /\ Exit(task_error)
     \/ /\ \A i \in DOMAIN cmdline.options : Registered(cmdline.options[i])
        /\ ~cmdline.help
        /\ phase' = "parsing"
        /\ UNCHANGED exit_status
  /\ UNCHANGED <<unbuilt, task_list, cmdline, pending, arg, stack, task_order,
                 task_error, pos>>

\* The notifier of the next option stores the option's argument, if the task
\* takes one, in the only slot the task has, and enables the task.
NextOption == Len(cmdline.options) - Len(pending) + 1

NotifyOption ==
  /\ phase = "parsing"
  /\ stack = <<>>
  /\ pending # <<>>
  /\ EnableTask(Head(pending))
  /\ pending' = Tail(pending)
  /\ arg' = IF task_list[Head(pending)].argument
              THEN [arg EXCEPT ![Head(pending)] = NextOption]
              ELSE arg
  /\ UNCHANGED <<unbuilt, task_list, cmdline, task_order, pos, phase,
                 exit_status>>

-----------------------------------------------------------------------------
(* The loop of resolve_dependencies, in the innermost frame.               *)

Top == stack[Len(stack)]
Pop == SubSeq(stack, 1, Len(stack) - 1)
\* Dependencies under way taken for scheduled ones; scheduled ones enabled
\* again; unknown ones enabled.
Settled_OnStackBug(d) ==
  ~Registered(d) \/ Scheduled(d) \/ \E i \in DOMAIN stack : stack[i].task = d
Settled_AgainBug(d) == ~Registered(d)
Settled_UnknownBug(d) == Scheduled(d)

Settled(d) == ~Registered(d) \/ Scheduled(d)

\* A dependency that is unknown or already scheduled needs no call.
SkipDep ==
  /\ phase \in {"parsing", "defaulting"}
  /\ stack # <<>>
  /\ Top.deps # <<>>
  /\ Settled(Head(Top.deps))
  /\ stack' = [stack EXCEPT ![Len(stack)].deps = Tail(@)]
  /\ UNCHANGED <<unbuilt, task_list, cmdline, pending, arg, task_order,
                 task_error, pos, phase, exit_status>>

\* Another one is enabled.  It stays at the head of the frame until the
\* call returns, having scheduled it.
ActivateDep ==
  /\ phase \in {"parsing", "defaulting"}
  /\ stack # <<>>
  /\ Top.deps # <<>>
  /\ ~Settled(Head(Top.deps))
  /\ EnableTask(Head(Top.deps))
  /\ UNCHANGED <<unbuilt, task_list, cmdline, pending, arg, task_order, pos,
                 phase, exit_status>>

\* Emplaced only when it is not scheduled yet.
AppendTask_OnceBug ==
  /\ phase \in {"parsing", "defaulting"}
  /\ stack # <<>>
  /\ Top.deps = <<>>
  /\ task_order' = IF Scheduled(Top.task) THEN task_order
                                          ELSE Append(task_order, Top.task)
  /\ stack' = Pop
  /\ UNCHANGED <<unbuilt, task_list, cmdline, pending, arg, task_error, pos,
                 phase, exit_status>>

\* The end of resolve_dependencies, and enable_task's unconditional
\* emplace_back after it.
AppendTask ==
  /\ phase \in {"parsing", "defaulting"}
  /\ stack # <<>>
  /\ Top.deps = <<>>
  /\ task_order' = Append(task_order, Top.task)
  /\ stack' = Pop
  /\ UNCHANGED <<unbuilt, task_list, cmdline, pending, arg, task_error, pos,
                 phase, exit_status>>

\* Nothing bounds the recursion: a dependency cycle exhausts the C stack.
OverflowStack ==
  /\ phase \in {"parsing", "defaulting"}
  /\ Len(stack) = StackLimit
  /\ stack # <<>>
  /\ Top.deps # <<>>
  /\ ~Settled(Head(Top.deps))
  /\ phase' = "crashed"
  /\ UNCHANGED <<unbuilt, task_list, cmdline, pending, arg, stack, task_order,
                 task_error, pos, exit_status>>

-----------------------------------------------------------------------------
(* main, after parse_arg.                                                  *)

\* parse_arg throws without an input file; otherwise main leaves on the
\* errors of the registration and of the scheduling, and enables the
\* default task when the options enabled none.
EndOfOptions ==
  /\ phase = "parsing"
  /\ stack = <<>>
  /\ pending = <<>>
  /\ \/ /\ ~cmdline.file
        /\ Exit(UsageError)
        /\ UNCHANGED <<stack, task_error>>
     \/ /\ cmdline.file
        /\ task_error # Success
        /\ Exit(task_error)
        /\ UNCHANGED <<stack, task_error>>
     \/ /\ cmdline.file
        /\ task_error = Success
        /\ task_order # <<>>
        /\ phase' = "executing"
        /\ UNCHANGED <<stack, task_error, exit_status>>
     \/ /\ cmdline.file
        /\ task_error = Success
        /\ task_order = <<>>
        /\ EnableTask(DefaultTask)
        /\ phase' = "defaulting"
        /\ UNCHANGED exit_status
  /\ UNCHANGED <<unbuilt, task_list, cmdline, pending, arg, task_order, pos>>

DefaultEnabled ==
  /\ phase = "defaulting"
  /\ stack = <<>>
  /\ phase' = "executing"
  /\ UNCHANGED <<unbuilt, task_list, cmdline, pending, arg, stack, task_order,
                 task_error, pos, exit_status>>

\* One turn of the loop of execute.  The body of a task is none of the
\* register's business: it returns, or throws a misc::error, whose status
\* main returns, or a std::runtime_error, after which main returns 0.
Running_Bug == phase = "executing" /\ pos <= Len(task_order)
Running == phase = "executing" /\ pos < Len(task_order)

ExecuteTask ==
  /\ Running
  /\ pos' = pos + 1
  /\ UNCHANGED <<unbuilt, task_list, cmdline, pending, arg, stack, task_order,
                 task_error, phase, exit_status>>

ThrowError(status) ==
  /\ Running
  /\ Exit(status)
  /\ UNCHANGED <<unbuilt, task_list, cmdline, pending, arg, stack, task_order,
                 task_error, pos>>

EndOfTasks ==
  /\ phase = "executing"
  /\ pos = Len(task_order)
  /\ Exit(task_error)
  /\ UNCHANGED <<unbuilt, task_list, cmdline, pending, arg, stack, task_order,
                 task_error, pos>>

-----------------------------------------------------------------------------
Init ==
  /\ unbuilt \in Programs
  /\ cmdline \in CommandLines
  /\ pending = cmdline.options
  /\ task_list = [n \in Name |-> NoTask]
  /\ arg = [n \in Name |-> 0]
  /\ stack = <<>>
  /\ task_order = <<>>
  /\ task_error = Success
  /\ pos = 0
  /\ phase = "registering"
  /\ exit_status = Success

\* What main does before and around the bodies of the tasks.
Schedule ==
  \/ RegisterTask
  \/ ParseCommandLine
  \/ NotifyOption
  \/ SkipDep
  \/ ActivateDep
  \/ AppendTask
  \/ OverflowStack
  \/ EndOfOptions
  \/ DefaultEnabled
  \/ EndOfTasks

Next ==
  \/ Schedule
  \/ ExecuteTask
  \/ \E status \in Status : ThrowError(status)

Spec == Init /\ [][Next]_vars

\* One thread runs the driver, and every step of it is a few instructions:
\* it is never stopped for ever in the middle.
FairSpec == Spec /\ WF_vars(Next)
-----------------------------------------------------------------------------
(* Properties.                                                             *)

\* The types of the register's state, all of them at once.
TypeOK ==
  /\ unbuilt \in Seq(Task)
  /\ task_list \in [Name -> Task \union {NoTask}]
  /\ cmdline \in CommandLine
  /\ pending \in Seq(Name)
  /\ arg \in [Name -> Int]
  /\ stack \in Seq(Frame)
  /\ task_order \in Seq(Name)
  /\ task_error \in Status
  /\ pos \in 0..Len(task_order)
  /\ phase \in {"registering", "parsing", "defaulting", "executing",
                "exited", "crashed"}
  /\ exit_status \in Status \union {UsageError}

\* Task n is ready at place i of the execution order: each of its registered
\* dependencies comes earlier or, when it is disjunctive, at least one does
\* (unless the one it would pick is unknown).
ReadyAt(n, i) ==
  LET Before(d) == \E j \in 1..(i - 1) : task_order[j] = d
      deps == Range(DepsOf(n))
  IN IF task_list[n].disjunctive
       THEN \/ DepsOf(n) = <<>>
            \/ ~Registered(DepsOf(n)[1])
            \/ \E d \in deps : Before(d)
       ELSE \A d \in deps : Registered(d) => Before(d)

\* Whatever the task graph and the command line, and however options repeat
\* or overlap, no task is executed before what it depends on: the depth
\* first search of resolve_dependencies yields a topological order.
DependenciesFirst == \A i \in 1..Len(task_order) : ReadyAt(task_order[i], i)

\* The options whose notifier has run.
Consumed == SubSeq(cmdline.options, 1, Len(cmdline.options) - Len(pending))
Occurrences(n, s) == {i \in DOMAIN s : s[i] = n}

\* The registered dependencies form no cycle: the tasks have a rank.
Acyclic ==
  \E rank \in [Name -> 1..Cardinality(Name)] :
    \A n \in Name : Registered(n) =>
      \A d \in Range(DepsOf(n)) : Registered(d) => rank[d] < rank[n]

\* A task is only scheduled again because the user named it again: the
\* resolution of dependencies, along however many paths, adds it once.  Not
\* so on a cycle that a disjunctive task lets end: its tasks are scheduled
\* inside the call that is to schedule them.
ScheduledOnDemand ==
  \/ \A n \in Name : Cardinality(Occurrences(n, task_order))
                       <= Cardinality(Occurrences(n, Consumed)) + 1
  \/ ~Acyclic

\* "The chronological order of the tasks ... is capital for TC to work"
\* (comment in parse_arg): the tasks named by the options are executed in
\* the order of the options, with only dependencies in between.
ChronologicalOrder ==
  stack = <<>> /\ phase \in {"parsing", "executing"} =>
    \E f \in [DOMAIN Consumed -> DOMAIN task_order] :
      /\ \A i, j \in DOMAIN f : i < j => f[i] < f[j]
      /\ \A i \in DOMAIN f : task_order[f[i]] = Consumed[i]

\* main leaves on the errors of the resolution before it executes anything:
\* no task asked for by an option runs beside one that misses a dependency.
NoRunWithUnknownDep ==
  phase = "executing" /\ cmdline.options # <<>> =>
    \A i \in DOMAIN task_order : ~UnknownDep(task_order[i])

\* The driver ends, with an exit status, on every acyclic task graph: the
\* recursion of enable_task is no deeper than there are tasks.
EndsIfAcyclic == (phase = "parsing" /\ Acyclic) ~> (phase = "exited")
=============================================================================

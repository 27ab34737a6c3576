------------------------- MODULE TaskRegister_proofs -------------------------
(***************************************************************************)
(* Proofs about the task register, for every set of Task objects (cyclic   *)
(* or not), every command line and every stack size.                       *)
(***************************************************************************)
EXTENDS TaskRegister, SequenceTheorems, FiniteSetTheorems, TLAPS

-----------------------------------------------------------------------------
(* Facts about the operators.                                              *)

\* The elements of a sequence are in the set it is a sequence over.
LEMMA RangeInSet ==
  ASSUME NEW S, NEW s \in Seq(S)
  PROVE  /\ Range(s) \subseteq S
         /\ \A i \in 1..Len(s) : s[i] \in Range(s)
         /\ \A x \in Range(s) : \E i \in 1..Len(s) : s[i] = x
BY DEF Range

\* What is left when the head of a sequence is dropped.
LEMMA RangeTail ==
  ASSUME NEW S, NEW s \in Seq(S), s # <<>>
  PROVE  /\ Head(s) \in S
         /\ Tail(s) \in Seq(S)
         /\ Range(s) \subseteq Range(Tail(s)) \union {Head(s)}
<1>1. Head(s) \in S /\ Tail(s) \in Seq(S) /\ Len(s) \in Nat \ {0}
  OBVIOUS
<1>2. ASSUME NEW x \in Range(s) PROVE x \in Range(Tail(s)) \union {Head(s)}
  <2>1. PICK i \in 1..Len(s) : s[i] = x
    BY <1>2, RangeInSet
  <2>2. CASE i = 1
    BY <2>1, <2>2
  <2>3. CASE i # 1
    <3>1. i - 1 \in 1..Len(Tail(s)) /\ Tail(s)[i - 1] = x
      BY <2>1, <2>3, <1>1
    <3>2. QED
      BY <3>1, <1>1, RangeInSet
  <2>4. QED
    BY <2>2, <2>3
<1>3. QED
  BY <1>1, <1>2

\* Appending to the execution order keeps every place of it and adds one.
LEMMA RangeAppend ==
  ASSUME NEW S, NEW s \in Seq(S), NEW e \in S
  PROVE  /\ Append(s, e) \in Seq(S)
         /\ Len(Append(s, e)) = Len(s) + 1
         /\ \A i \in 1..Len(s) : Append(s, e)[i] = s[i]
         /\ Append(s, e)[Len(s) + 1] = e
         /\ Range(s) \subseteq Range(Append(s, e))
<1>1. /\ Append(s, e) \in Seq(S)
      /\ Len(Append(s, e)) = Len(s) + 1
      /\ \A i \in 1..Len(s) : Append(s, e)[i] = s[i]
      /\ Append(s, e)[Len(s) + 1] = e
  OBVIOUS
<1>2. Range(s) \subseteq Range(Append(s, e))
  BY <1>1 DEF Range
<1>3. QED
  BY <1>1, <1>2

\* A sequence cut after its first element.
LEMMA FirstOnly ==
  ASSUME NEW S, NEW s \in Seq(S), s # <<>>
  PROVE  SubSeq(s, 1, 1) = <<s[1]>>
<1>1. Len(s) \in Nat \ {0} /\ s[1] \in S
  OBVIOUS
<1>2. SubSeq(s, 1, 1) \in Seq(S) /\ Len(SubSeq(s, 1, 1)) = 1
  BY <1>1, SubSeqProperties
<1>3. SubSeq(s, 1, 1)[1] = s[1]
  BY <1>1, SubSeqProperties
<1>4. <<s[1]>> \in Seq(S) /\ Len(<<s[1]>>) = 1 /\ <<s[1]>>[1] = s[1]
  BY <1>1
<1>5. \A i \in 1..1 : SubSeq(s, 1, 1)[i] = <<s[1]>>[i]
  BY <1>3, <1>4
<1>6. QED
  BY <1>2, <1>4, <1>5, SeqEqual

\* A recorded status stays a status whatever is raised over it.
LEMMA RaiseType ==
  ASSUME NEW s \in Status, NEW e \in Status PROVE Raise(s, e) \in Status
BY DEF Raise

\* The dependencies a registered task asks for are names.
LEMMA DepsType ==
  ASSUME TypeOK, NEW n \in Name, Registered(n)
  PROVE  /\ task_list[n] \in Task
         /\ DepsOf(n) \in Seq(Name)
         /\ DepsToActivate(n) \in Seq(Name)
<1>1. task_list[n] \in Task
  BY DEF TypeOK, Registered
<1>2. DepsOf(n) \in Seq(Name)
  BY <1>1 DEF DepsOf, Task
<1>3. DepsToActivate(n) \in Seq(Name)
  BY <1>2 DEF DepsToActivate
<1>4. QED
  BY <1>1, <1>2, <1>3

\* enable_task leaves a stack of frames and an error status.
LEMMA EnableTaskType ==
  ASSUME TypeOK, NEW n \in Name, EnableTask(n)
  PROVE  stack' \in Seq(Frame) /\ task_error' \in Status
<1>1. Failure \in Status
  BY DEF Failure, Status
<1>2. task_error' \in Status
  BY <1>1, RaiseType DEF EnableTask, TypeOK
<1>3. CASE Registered(n)
  <2>1. [task |-> n, deps |-> DepsToActivate(n)] \in Frame
    BY <1>3, DepsType DEF Frame
  <2>2. stack' = Append(stack, [task |-> n, deps |-> DepsToActivate(n)])
    BY <1>3 DEF EnableTask
  <2>3. stack \in Seq(Frame)
    BY DEF TypeOK
  <2>4. QED
    BY <1>2, <2>1, <2>2, <2>3, RangeAppend
<1>4. CASE ~Registered(n)
  BY <1>2, <1>4 DEF EnableTask, TypeOK
<1>5. QED
  BY <1>3, <1>4

-----------------------------------------------------------------------------
(* Type correctness.                                                       *)

LEMMA InitTypeOK == Init => TypeOK
<1>1. SUFFICES ASSUME Init PROVE TypeOK
  OBVIOUS
<1>2. unbuilt \in Seq(Task) /\ cmdline \in CommandLine
  BY <1>1, TaskAssumption DEF Init
<1>3. pending \in Seq(Name)
  BY <1>1, <1>2 DEF Init, CommandLine
<1>4. task_list \in [Name -> Task \union {NoTask}] /\ arg \in [Name -> Int]
  BY <1>1 DEF Init
<1>5. stack \in Seq(Frame) /\ task_order \in Seq(Name) /\ pos \in 0..Len(task_order)
  BY <1>1 DEF Init
<1>6. task_error \in Status /\ exit_status \in Status \union {UsageError}
  BY <1>1 DEF Init, Success, Status
<1>7. phase = "registering"
  BY <1>1 DEF Init
<1>8. QED
  BY <1>2, <1>3, <1>4, <1>5, <1>6, <1>7 DEF TypeOK

\* The innermost frame, and what is below it.
LEMMA TopType ==
  ASSUME TypeOK, stack # <<>>
  PROVE  /\ Len(stack) \in DOMAIN stack
         /\ Len(stack) \in Nat
         /\ Top \in Frame
         /\ Top.task \in Name
         /\ Top.deps \in Seq(Name)
         /\ Pop \in Seq(Frame)
         /\ \A k \in DOMAIN Pop : k \in DOMAIN stack /\ Pop[k] = stack[k]
<1>1. stack \in Seq(Frame)
  BY DEF TypeOK
<1>2. Len(stack) \in Nat \ {0} /\ DOMAIN stack = 1..Len(stack)
  BY <1>1
<1>3. Top \in Frame
  BY <1>1, <1>2 DEF Top
<1>4. Pop \in Seq(Frame) /\ Len(Pop) = Len(stack) - 1
  BY <1>1, <1>2 DEF Pop
<1>5. \A k \in DOMAIN Pop : k \in DOMAIN stack /\ Pop[k] = stack[k]
  BY <1>1, <1>2, <1>4 DEF Pop
<1>6. Top.task \in Name /\ Top.deps \in Seq(Name)
  BY <1>3 DEF Frame
<1>7. QED
  BY <1>2, <1>3, <1>4, <1>5, <1>6

\* One step of the loop of resolve_dependencies over a settled dependency.
LEMMA SkipDepStack ==
  ASSUME TypeOK, SkipDep
  PROVE  /\ stack' \in Seq(Frame)
         /\ DOMAIN stack' = DOMAIN stack
         /\ \A k \in DOMAIN stack : k # Len(stack) => stack'[k] = stack[k]
         /\ stack'[Len(stack)] = [task |-> Top.task, deps |-> Tail(Top.deps)]
<1>1. stack # <<>> /\ Top.deps # <<>>
  BY DEF SkipDep
<1>2. Tail(Top.deps) \in Seq(Name)
  BY <1>1, TopType, RangeTail
<1>3. /\ stack \in Seq(Frame)
      /\ stack' = [stack EXCEPT ![Len(stack)].deps = Tail(@)]
  BY DEF TypeOK, SkipDep
<1>4. /\ DOMAIN stack' = DOMAIN stack
      /\ \A k \in DOMAIN stack : k # Len(stack) => stack'[k] = stack[k]
      /\ stack'[Len(stack)] = [Top EXCEPT !.deps = Tail(@)]
  BY <1>1, <1>3, TopType DEF Top
<1>5. stack'[Len(stack)] = [task |-> Top.task, deps |-> Tail(Top.deps)]
  BY <1>1, <1>4, TopType DEF Frame
<1>6. stack'[Len(stack)] \in Frame
  BY <1>1, <1>2, <1>5, TopType DEF Frame
<1>7. stack' \in Seq(Frame)
  <2>1. stack' = [stack EXCEPT ![Len(stack)] =
                    [task |-> Top.task, deps |-> Tail(Top.deps)]]
    BY <1>3, <1>4, <1>5
  <2>2. stack \in Seq(Frame) /\ Len(stack) \in 1..Len(stack)
    BY <1>1, <1>3
  <2>3. [task |-> Top.task, deps |-> Tail(Top.deps)] \in Frame
    BY <1>5, <1>6
  <2>4. [stack EXCEPT ![Len(stack)] =
           [task |-> Top.task, deps |-> Tail(Top.deps)]] \in Seq(Frame)
    BY <2>2, <2>3, ExceptSeq
  <2>5. QED
    BY <2>1, <2>4
<1>8. QED
  BY <1>4, <1>5, <1>7

LEMMA ScheduleTypeOK == TypeOK /\ Schedule => TypeOK'
<1> SUFFICES ASSUME TypeOK, Schedule PROVE TypeOK'
  OBVIOUS
<1> USE TaskAssumption
<1>1. CASE RegisterTask
  <2>1. Head(unbuilt) \in Task /\ Tail(unbuilt) \in Seq(Task)
    BY <1>1, RangeTail DEF RegisterTask, TypeOK
  <2>2. task_list' \in [Name -> Task \union {NoTask}]
    BY <1>1, <2>1 DEF RegisterTask, TypeOK
  <2>3. task_error' = task_error \/ task_error' = Raise(task_error, Failure)
    BY <1>1 DEF RegisterTask
  <2>4. task_error \in Status /\ Failure \in Status
    BY DEF TypeOK, Failure, Status
  <2>5. task_error' \in Status
    BY <2>3, <2>4, RaiseType
  <2>6. QED
    BY <1>1, <2>1, <2>2, <2>5 DEF RegisterTask, TypeOK
<1>2. CASE ParseCommandLine
  BY <1>2 DEF ParseCommandLine, Exit, TypeOK
<1>3. CASE NotifyOption
  <2>1. Head(pending) \in Name /\ Tail(pending) \in Seq(Name)
    BY <1>3, RangeTail DEF NotifyOption, TypeOK
  <2>2. stack' \in Seq(Frame) /\ task_error' \in Status
    BY <1>3, <2>1, EnableTaskType DEF NotifyOption
  <2>3. NextOption \in Int
    BY DEF NextOption, TypeOK, CommandLine
  <2>4. arg' \in [Name -> Int]
    BY <1>3, <2>1, <2>3 DEF NotifyOption, TypeOK
  <2>5. QED
    BY <1>3, <2>1, <2>2, <2>4 DEF NotifyOption, TypeOK
<1>4. CASE SkipDep
  <2>1. stack' \in Seq(Frame)
    BY <1>4, SkipDepStack
  <2>2. QED
    BY <1>4, <2>1 DEF SkipDep, TypeOK
<1>5. CASE ActivateDep
  <2>1. Head(Top.deps) \in Name
    BY <1>5, TopType, RangeTail DEF ActivateDep
  <2>2. stack' \in Seq(Frame) /\ task_error' \in Status
    BY <1>5, <2>1, EnableTaskType DEF ActivateDep
  <2>3. QED
    BY <1>5, <2>2 DEF ActivateDep, TypeOK
<1>6. CASE AppendTask
  <2>1. Top.task \in Name /\ Pop \in Seq(Frame)
    BY <1>6, TopType DEF AppendTask
  <2>2. task_order' \in Seq(Name) /\ Len(task_order') = Len(task_order) + 1
    BY <1>6, <2>1, RangeAppend DEF AppendTask, TypeOK
  <2>3. pos' \in 0..Len(task_order')
    BY <1>6, <2>2 DEF AppendTask, TypeOK
  <2>4. QED
    BY <1>6, <2>1, <2>2, <2>3 DEF AppendTask, TypeOK
<1>7. CASE OverflowStack
  BY <1>7 DEF OverflowStack, TypeOK
<1>8. CASE EndOfOptions
  <2>1. stack' \in Seq(Frame) /\ task_error' \in Status
    BY <1>8, EnableTaskType DEF EndOfOptions, TypeOK
  <2>2. phase' \in {"exited", "executing", "defaulting"}
        /\ exit_status' \in Status \union {UsageError}
    BY <1>8 DEF EndOfOptions, Exit, TypeOK
  <2>3. QED
    BY <1>8, <2>1, <2>2 DEF EndOfOptions, TypeOK
<1>9. CASE DefaultEnabled
  BY <1>9 DEF DefaultEnabled, TypeOK
<1>10. CASE EndOfTasks
  BY <1>10 DEF EndOfTasks, Exit, TypeOK
<1>11. QED
  BY <1>1, <1>2, <1>3, <1>4, <1>5, <1>6, <1>7, <1>8, <1>9, <1>10
     DEF Schedule

LEMMA NextTypeOK == TypeOK /\ [Next]_vars => TypeOK'
<1> SUFFICES ASSUME TypeOK, [Next]_vars PROVE TypeOK'
  OBVIOUS
<1>1. CASE Schedule
  BY <1>1, ScheduleTypeOK
<1>2. CASE ExecuteTask
  BY <1>2 DEF ExecuteTask, Running, TypeOK
<1>3. ASSUME NEW status \in Status, ThrowError(status) PROVE TypeOK'
  BY <1>3 DEF ThrowError, Exit, TypeOK
<1>4. CASE UNCHANGED vars
  BY <1>4 DEF vars, TypeOK
<1>5. QED
  BY <1>1, <1>2, <1>3, <1>4 DEF Next

\* The types hold in every state, for every table of tasks.
THEOREM TypeCorrect == Spec => []TypeOK
BY InitTypeOK, NextTypeOK, PTL DEF Spec

-----------------------------------------------------------------------------
(* Dependencies first.  A frame records which dependencies of its task are *)
(* still to be activated: all the others are settled.  This is what makes  *)
(* the invariant inductive, through any nesting of the calls.              *)

Fed(f, list, order) ==
  LET deps == list[f.task].deps IN
    /\ list[f.task] # NoTask
    /\ IF list[f.task].disjunctive
         THEN \/ deps = <<>>
              \/ list[deps[1]] = NoTask
              \/ \E d \in Range(deps) : d \in Range(order)
              \/ f.deps = <<deps[1]>>
         ELSE \A d \in Range(deps) :
                list[d] # NoTask => d \in Range(order) \/ d \in Range(f.deps)

Sorted(list, order) ==
  \A i \in 1..Len(order) :
    LET deps == list[order[i]].deps
        Before(d) == \E j \in 1..(i - 1) : order[j] = d
    IN IF list[order[i]].disjunctive
         THEN \/ deps = <<>>
              \/ list[deps[1]] = NoTask
              \/ \E d \in Range(deps) : Before(d)
         ELSE \A d \in Range(deps) : list[d] # NoTask => Before(d)

SearchInv ==
  /\ TypeOK
  /\ phase = "registering" => stack = <<>> /\ task_order = <<>>
  /\ \A k \in DOMAIN stack : Fed(stack[k], task_list, task_order)
  /\ Sorted(task_list, task_order)

LEMMA SortedMeansFirst == Sorted(task_list, task_order) <=> DependenciesFirst
BY DEF Sorted, DependenciesFirst, ReadyAt, DepsOf, Registered

\* Scheduling more tasks never starves a frame.
LEMMA FedMonotone ==
  ASSUME NEW f, NEW list, NEW order, NEW order2,
         Fed(f, list, order), Range(order) \subseteq Range(order2)
  PROVE  Fed(f, list, order2)
BY DEF Fed

\* enable_task starts with a frame that has everything still to do.
LEMMA NewFrameFed ==
  ASSUME TypeOK, NEW n \in Name, Registered(n)
  PROVE  Fed([task |-> n, deps |-> DepsToActivate(n)], task_list, task_order)
<1>1. DepsOf(n) \in Seq(Name)
  BY DepsType
<1>2. CASE ~task_list[n].disjunctive
  BY <1>2 DEF Fed, DepsToActivate, DepsOf, Registered
<1>3. CASE /\ task_list[n].disjunctive
           /\ \E d \in Range(DepsOf(n)) : Registered(d) /\ Scheduled(d)
  BY <1>3 DEF Fed, DepsOf, Registered, Scheduled
<1>4. CASE /\ task_list[n].disjunctive
           /\ ~\E d \in Range(DepsOf(n)) : Registered(d) /\ Scheduled(d)
  <2>1. CASE DepsOf(n) = <<>>
    BY <1>4, <2>1 DEF Fed, DepsOf, Registered
  <2>2. CASE DepsOf(n) # <<>>
    <3>1. DepsToActivate(n) = SubSeq(DepsOf(n), 1, 1)
      BY <1>4, <2>2 DEF DepsToActivate
    <3>2. SubSeq(DepsOf(n), 1, 1) = <<DepsOf(n)[1]>>
      BY <1>1, <2>2, FirstOnly
    <3>3. QED
      BY <1>4, <3>1, <3>2 DEF Fed, DepsOf, Registered
  <2>3. QED
    BY <2>1, <2>2
<1>5. QED
  BY <1>2, <1>3, <1>4

\* Dropping a settled dependency from a frame keeps it fed.
LEMMA SkipFed ==
  ASSUME TypeOK, NEW f \in Frame, Fed(f, task_list, task_order),
         f.deps # <<>>, Settled(Head(f.deps))
  PROVE  Fed([task |-> f.task, deps |-> Tail(f.deps)], task_list, task_order)
<1>1. /\ f.task \in Name /\ f.deps \in Seq(Name)
      /\ Registered(f.task)
  BY DEF Frame, Fed, Registered
<1>2. DepsOf(f.task) \in Seq(Name)
  BY <1>1, DepsType
<1>3. Range(f.deps) \subseteq Range(Tail(f.deps)) \union {Head(f.deps)}
  BY <1>1, RangeTail
<1>4. CASE ~task_list[f.task].disjunctive
  BY <1>3, <1>4 DEF Fed, Settled, Registered, Scheduled
<1>5. CASE /\ task_list[f.task].disjunctive
           /\ f.deps = <<DepsOf(f.task)[1]>>
           /\ DepsOf(f.task) # <<>>
  <2>1. Head(f.deps) = DepsOf(f.task)[1]
    BY <1>5
  <2>2. DepsOf(f.task)[1] \in Range(DepsOf(f.task))
    BY <1>2, <1>5, RangeInSet
  <2>3. QED
    BY <1>1, <1>5, <2>1, <2>2
       DEF Fed, Settled, Registered, Scheduled, DepsOf
<1>6. CASE /\ task_list[f.task].disjunctive
           /\ ~(f.deps = <<DepsOf(f.task)[1]>> /\ DepsOf(f.task) # <<>>)
  BY <1>6 DEF Fed, DepsOf
<1>7. QED
  BY <1>4, <1>5, <1>6

\* A frame with nothing left to activate may schedule its task.
LEMMA AppendSorted ==
  ASSUME NEW list, NEW order \in Seq(Name), NEW f \in Frame,
         Sorted(list, order), Fed(f, list, order), f.deps = <<>>
  PROVE  Sorted(list, Append(order, f.task))
<1> DEFINE order2 == Append(order, f.task)
           deps(i) == list[order2[i]].deps
           Before(d, i) == \E j \in 1..(i - 1) : order2[j] = d
<1>1. f.task \in Name
  BY DEF Frame
<1>2. /\ Len(order) \in Nat
      /\ Len(order2) = Len(order) + 1
      /\ \A i \in 1..Len(order) : order2[i] = order[i]
      /\ order2[Len(order) + 1] = f.task
  BY <1>1, RangeAppend
<1> HIDE DEF order2
<1>3. SUFFICES ASSUME NEW i \in 1..Len(order2)
               PROVE  IF list[order2[i]].disjunctive
                        THEN \/ deps(i) = <<>>
                             \/ list[deps(i)[1]] = NoTask
                             \/ \E d \in Range(deps(i)) : Before(d, i)
                        ELSE \A d \in Range(deps(i)) :
                               list[d] # NoTask => Before(d, i)
  BY DEF Sorted, order2
<1>4. CASE i \in 1..Len(order)
  <2>1. order2[i] = order[i]
    BY <1>2, <1>4
  <2>2. ASSUME NEW d, \E j \in 1..(i - 1) : order[j] = d PROVE Before(d, i)
    <3>1. \A j \in 1..(i - 1) : order2[j] = order[j]
      BY <1>2, <1>4
    <3>2. QED
      BY <2>2, <3>1
  <2>3. QED
    BY <1>4, <2>1, <2>2 DEF Sorted
<1>5. CASE i = Len(order) + 1
  <2>1. order2[i] = f.task
    BY <1>2, <1>5
  <2>2. ASSUME NEW d \in Range(order) PROVE Before(d, i)
    <3>1. PICK j \in 1..Len(order) : order[j] = d
      BY <2>2, RangeInSet
    <3>2. j \in 1..(i - 1) /\ order2[j] = d
      BY <1>2, <1>5, <3>1
    <3>3. QED
      BY <3>2
  <2>3. Range(f.deps) = {} /\ f.deps # <<deps(i)[1]>>
    BY DEF Range
  <2>4. QED
    BY <2>1, <2>2, <2>3 DEF Fed
<1>6. QED
  BY <1>2, <1>4, <1>5

LEMMA InitSearchInv == Init => SearchInv
<1>1. SUFFICES ASSUME Init PROVE SearchInv
  OBVIOUS
<1>2. TypeOK
  BY <1>1, InitTypeOK
<1>3. stack = <<>> /\ task_order = <<>>
  BY <1>1 DEF Init
<1>4. QED
  BY <1>2, <1>3 DEF SearchInv, Sorted

\* A call of enable_task adds at most one frame, and a fed one.
LEMMA EnableTaskFed ==
  ASSUME SearchInv, NEW n \in Name, EnableTask(n),
         task_list' = task_list, task_order' = task_order
  PROVE  \A k \in DOMAIN stack' : Fed(stack'[k], task_list', task_order')
<1>1. CASE ~Registered(n)
  BY <1>1 DEF EnableTask, SearchInv
<1>2. CASE Registered(n)
  <2>1. stack' = Append(stack, [task |-> n, deps |-> DepsToActivate(n)])
    BY <1>2 DEF EnableTask
  <2>2. stack \in Seq(Frame)
        /\ [task |-> n, deps |-> DepsToActivate(n)] \in Frame
    BY <1>2, DepsType DEF SearchInv, TypeOK, Frame
  <2>3. Fed([task |-> n, deps |-> DepsToActivate(n)], task_list, task_order)
    BY <1>2, NewFrameFed DEF SearchInv
  <2>4. /\ DOMAIN stack' = 1..(Len(stack) + 1)
        /\ \A k \in 1..Len(stack) : stack'[k] = stack[k]
        /\ stack'[Len(stack) + 1] = [task |-> n, deps |-> DepsToActivate(n)]
        /\ DOMAIN stack = 1..Len(stack)
        /\ Len(stack) \in Nat
    BY <2>1, <2>2
  <2>5. ASSUME NEW k \in DOMAIN stack'
        PROVE  Fed(stack'[k], task_list, task_order)
    <3>1. CASE k \in 1..Len(stack)
      BY <2>4, <3>1 DEF SearchInv
    <3>2. CASE k = Len(stack) + 1
      BY <2>3, <2>4, <3>2
    <3>3. QED
      BY <2>4, <2>5, <3>1, <3>2
  <2>6. QED
    BY <2>5
<1>3. QED
  BY <1>1, <1>2

LEMMA ScheduleSearchInv == SearchInv /\ Schedule => SearchInv'
<1> SUFFICES ASSUME SearchInv, Schedule PROVE SearchInv'
  OBVIOUS
<1>1. TypeOK /\ TypeOK'
  BY ScheduleTypeOK DEF SearchInv
<1>2. SUFFICES
        /\ (phase = "registering" => stack = <<>> /\ task_order = <<>>)'
        /\ \A k \in DOMAIN stack' : Fed(stack'[k], task_list', task_order')
        /\ Sorted(task_list', task_order')
  BY <1>1 DEF SearchInv
<1>3. CASE RegisterTask
  <2>1. stack' = <<>> /\ task_order' = <<>>
    BY <1>3 DEF RegisterTask, SearchInv
  <2>2. QED
    BY <2>1 DEF Sorted
<1>4. CASE ParseCommandLine
  BY <1>4 DEF ParseCommandLine, Exit, SearchInv
<1>5. CASE NotifyOption
  <2>1. Head(pending) \in Name
    BY <1>1, <1>5, RangeTail DEF NotifyOption, TypeOK
  <2>2. \A k \in DOMAIN stack' : Fed(stack'[k], task_list', task_order')
    BY <1>5, <2>1, EnableTaskFed DEF NotifyOption
  <2>3. QED
    BY <1>5, <2>2 DEF NotifyOption, SearchInv
<1>6. CASE SkipDep
  <2>1. Top \in Frame /\ Top.deps # <<>> /\ Settled(Head(Top.deps))
        /\ Len(stack) \in DOMAIN stack
    BY <1>1, <1>6, TopType DEF SkipDep
  <2>2. Fed([task |-> Top.task, deps |-> Tail(Top.deps)], task_list, task_order)
    BY <1>1, <2>1, SkipFed DEF SearchInv, Top
  <2>3. /\ DOMAIN stack' = DOMAIN stack
        /\ \A k \in DOMAIN stack : k # Len(stack) => stack'[k] = stack[k]
        /\ stack'[Len(stack)] = [task |-> Top.task, deps |-> Tail(Top.deps)]
    BY <1>1, <1>6, SkipDepStack
  <2>4. task_list' = task_list /\ task_order' = task_order /\ phase' = phase
        /\ phase # "registering"
    BY <1>6 DEF SkipDep
  <2>5. \A k \in DOMAIN stack' : Fed(stack'[k], task_list', task_order')
    BY <2>2, <2>3, <2>4 DEF SearchInv
  <2>6. QED
    BY <2>4, <2>5 DEF SearchInv
<1>7. CASE ActivateDep
  <2>1. Head(Top.deps) \in Name
    BY <1>1, <1>7, TopType, RangeTail DEF ActivateDep
  <2>2. \A k \in DOMAIN stack' : Fed(stack'[k], task_list', task_order')
    BY <1>7, <2>1, EnableTaskFed DEF ActivateDep
  <2>3. QED
    BY <1>7, <2>2 DEF ActivateDep, SearchInv
<1>8. CASE AppendTask
  <2>1. /\ stack # <<>> /\ Top.deps = <<>>
        /\ task_order' = Append(task_order, Top.task)
        /\ stack' = Pop
        /\ task_list' = task_list /\ phase' = phase
        /\ phase # "registering"
    BY <1>8 DEF AppendTask
  <2>2. /\ Top \in Frame /\ Top.task \in Name
        /\ Fed(Top, task_list, task_order)
        /\ \A k \in DOMAIN Pop : k \in DOMAIN stack /\ Pop[k] = stack[k]
    BY <1>1, <2>1, TopType DEF SearchInv, Top
  <2>3. task_order \in Seq(Name)
        /\ Range(task_order) \subseteq Range(Append(task_order, Top.task))
    BY <1>1, <2>2, RangeAppend DEF TypeOK
  <2>4. Sorted(task_list', task_order')
    BY <2>1, <2>2, <2>3, AppendSorted DEF SearchInv
  <2>5. ASSUME NEW k \in DOMAIN stack'
        PROVE  Fed(stack'[k], task_list', task_order')
    <3>1. k \in DOMAIN stack /\ stack'[k] = stack[k]
      BY <2>1, <2>2, <2>5
    <3>2. Fed(stack[k], task_list, task_order)
      BY <3>1 DEF SearchInv
    <3>3. QED
      BY <2>1, <2>3, <3>1, <3>2, FedMonotone
  <2>6. QED
    BY <2>1, <2>4, <2>5
<1>9. CASE OverflowStack
  BY <1>9 DEF OverflowStack, SearchInv
<1>10. CASE EndOfOptions
  <2>1. task_list' = task_list /\ task_order' = task_order
        /\ phase' # "registering"
    BY <1>10 DEF EndOfOptions, Exit
  <2>2. CASE UNCHANGED stack
    BY <2>1, <2>2 DEF SearchInv
  <2>3. CASE EnableTask(DefaultTask)
    <3>1. DefaultTask \in Name
      BY TaskAssumption DEF TaskAssumption
    <3>2. \A k \in DOMAIN stack' : Fed(stack'[k], task_list', task_order')
      BY <2>1, <2>3, <3>1, EnableTaskFed
    <3>3. QED
      BY <2>1, <3>2 DEF SearchInv
  <2>4. QED
    BY <1>10, <2>2, <2>3 DEF EndOfOptions
<1>11. CASE DefaultEnabled
  BY <1>11 DEF DefaultEnabled, SearchInv
<1>12. CASE EndOfTasks
  BY <1>12 DEF EndOfTasks, Exit, SearchInv
<1>13. QED
  BY <1>3, <1>4, <1>5, <1>6, <1>7, <1>8, <1>9, <1>10, <1>11, <1>12
     DEF Schedule

LEMMA NextSearchInv == SearchInv /\ [Next]_vars => SearchInv'
<1> SUFFICES ASSUME SearchInv, [Next]_vars PROVE SearchInv'
  OBVIOUS
<1>1. TypeOK'
  BY NextTypeOK DEF SearchInv
<1>2. CASE Schedule
  BY <1>2, ScheduleSearchInv
<1>3. CASE ExecuteTask
  BY <1>1, <1>3 DEF ExecuteTask, SearchInv
<1>4. ASSUME NEW status \in Status, ThrowError(status) PROVE SearchInv'
  BY <1>1, <1>4 DEF ThrowError, Exit, SearchInv
<1>5. CASE UNCHANGED vars
  BY <1>1, <1>5 DEF vars, SearchInv
<1>6. QED
  BY <1>2, <1>3, <1>4, <1>5 DEF Next

\* For every table of tasks, cyclic or not, and every command line, no task
\* is placed in the execution order before what it depends on.
THEOREM DependenciesComeFirst == Spec => []DependenciesFirst
<1>1. Init => SearchInv
  BY InitSearchInv
<1>2. SearchInv /\ [Next]_vars => SearchInv'
  BY NextSearchInv
<1>3. SearchInv => DependenciesFirst
  BY SortedMeansFirst DEF SearchInv
<1>4. QED
  BY <1>1, <1>2, <1>3, PTL DEF Spec
-----------------------------------------------------------------------------
(* No run with an unknown dependency.  Once a task that misses a dependency *)
(* is on the stack or in the execution order, the error status is recorded; *)
(* the options of the command line always leave something to execute, so    *)
(* that the default task is only enabled when there is no option.           *)

Recorded ==
  /\ \A k \in DOMAIN stack : UnknownDep(stack[k].task) => task_error # Success
  /\ \A i \in DOMAIN task_order :
       UnknownDep(task_order[i]) => task_error # Success

OptionsFirst ==
  /\ phase = "registering" =>
       stack = <<>> /\ task_order = <<>> /\ pending = cmdline.options
  /\ phase = "parsing" =>
       /\ \A i \in DOMAIN pending : Registered(pending[i])
       /\ pending = cmdline.options \/ stack # <<>> \/ task_order # <<>>
  /\ phase = "defaulting" => cmdline.options = <<>>

UnknownInv ==
  /\ TypeOK
  /\ OptionsFirst
  /\ phase \in {"parsing", "defaulting"} => Recorded
  /\ NoRunWithUnknownDep

\* A failure raised over any status leaves an error.
LEMMA RaisedIsError ==
  ASSUME NEW s \in Status PROVE Raise(s, Failure) # Success
BY DEF Raise, Failure, Success, Status

\* enable_task records the missing dependencies of the task it pushes, and
\* pushes every registered one.
LEMMA EnableTaskRecords ==
  ASSUME TypeOK, Recorded, NEW n \in Name, EnableTask(n),
         task_list' = task_list, task_order' = task_order
  PROVE  /\ Recorded'
         /\ Registered(n) => stack' # <<>>
<1>1. task_error \in Status /\ stack \in Seq(Frame)
  BY DEF TypeOK
<1>2. task_error # Success => task_error' # Success
  BY <1>1, RaisedIsError DEF EnableTask
<1>3. \A m : UnknownDep(m)' <=> UnknownDep(m)
  BY DEF UnknownDep, DepsOf, Registered
<1>4. CASE ~Registered(n)
  BY <1>2, <1>3, <1>4 DEF EnableTask, Recorded
<1>5. CASE Registered(n)
  <2>1. stack' = Append(stack, [task |-> n, deps |-> DepsToActivate(n)])
    BY <1>5 DEF EnableTask
  <2>2. UnknownDep(n) => task_error' # Success
    BY <1>1, <1>5, RaisedIsError DEF EnableTask
  <2>3. [task |-> n, deps |-> DepsToActivate(n)] \in Frame
    BY <1>5, DepsType DEF Frame
  <2>4. /\ DOMAIN stack' = 1..(Len(stack) + 1)
        /\ DOMAIN stack = 1..Len(stack)
        /\ \A k \in 1..Len(stack) : stack'[k] = stack[k]
        /\ stack'[Len(stack) + 1] = [task |-> n, deps |-> DepsToActivate(n)]
        /\ Len(stack) \in Nat
    BY <1>1, <2>1, <2>3
  <2>5. ASSUME NEW k \in DOMAIN stack', UnknownDep(stack'[k].task)
        PROVE  task_error' # Success
    <3>1. CASE k \in 1..Len(stack)
      BY <1>2, <2>4, <2>5, <3>1 DEF Recorded
    <3>2. CASE k = Len(stack) + 1
      BY <2>2, <2>4, <2>5, <3>2
    <3>3. QED
      BY <2>4, <2>5, <3>1, <3>2
  <2>6. Recorded'
    BY <1>2, <1>3, <2>5 DEF Recorded
  <2>7. stack' # <<>>
    BY <2>4
  <2>8. QED
    BY <2>6, <2>7
<1>6. QED
  BY <1>4, <1>5

LEMMA InitUnknownInv == Init => UnknownInv
BY InitTypeOK DEF Init, UnknownInv, OptionsFirst, NoRunWithUnknownDep

LEMMA ScheduleUnknownInv == UnknownInv /\ Schedule => UnknownInv'
<1> SUFFICES ASSUME UnknownInv, Schedule PROVE UnknownInv'
  OBVIOUS
<1>1. TypeOK /\ TypeOK'
  BY ScheduleTypeOK DEF UnknownInv
<1>2. CASE RegisterTask
  BY <1>1, <1>2 DEF RegisterTask, UnknownInv, OptionsFirst, NoRunWithUnknownDep
<1>3. CASE ParseCommandLine
  <2>1. stack' = <<>> /\ task_order' = <<>> /\ pending' = cmdline'.options
        /\ phase' \in {"exited", "parsing"}
    BY <1>3 DEF ParseCommandLine, Exit, UnknownInv, OptionsFirst
  <2>2. phase' = "parsing" =>
          \A i \in DOMAIN pending' : Registered(pending[i])'
    BY <1>3 DEF ParseCommandLine, Exit, UnknownInv, OptionsFirst, Registered
  <2>3. Recorded'
    BY <2>1 DEF Recorded
  <2>4. QED
    BY <1>1, <2>1, <2>2, <2>3
       DEF UnknownInv, OptionsFirst, NoRunWithUnknownDep
<1>4. CASE NotifyOption
  <2>1. Head(pending) \in Name /\ Tail(pending) \in Seq(Name)
    BY <1>1, <1>4, RangeTail DEF NotifyOption, TypeOK
  <2>2. /\ phase = "parsing" /\ phase' = phase /\ pending' = Tail(pending)
        /\ pending # <<>> /\ EnableTask(Head(pending))
        /\ UNCHANGED <<task_list, task_order, cmdline>>
    BY <1>4 DEF NotifyOption
  <2>3. \A i \in DOMAIN pending : Registered(pending[i])
    BY <2>2 DEF UnknownInv, OptionsFirst
  <2>4. pending \in Seq(Name) /\ Len(pending) \in Nat \ {0}
    BY <1>1, <2>2 DEF TypeOK
  <2>5. Registered(Head(pending))
    BY <2>3, <2>4
  <2>6. \A i \in DOMAIN pending' : Registered(pending[i])'
    <3>1. ASSUME NEW i \in DOMAIN Tail(pending)
          PROVE  i + 1 \in DOMAIN pending /\ Tail(pending)[i] = pending[i + 1]
      BY <2>4
    <3>2. QED
      BY <2>2, <2>3, <3>1 DEF Registered
  <2>7. Recorded' /\ stack' # <<>>
    BY <1>1, <2>1, <2>2, <2>5, EnableTaskRecords DEF UnknownInv
  <2>8. QED
    BY <1>1, <2>2, <2>6, <2>7 DEF UnknownInv, OptionsFirst, NoRunWithUnknownDep
<1>5. CASE SkipDep
  <2>1. /\ DOMAIN stack' = DOMAIN stack
        /\ \A k \in DOMAIN stack : k # Len(stack) => stack'[k] = stack[k]
        /\ stack'[Len(stack)] = [task |-> Top.task, deps |-> Tail(Top.deps)]
    BY <1>1, <1>5, SkipDepStack
  <2>2. \A k \in DOMAIN stack : stack'[k].task = stack[k].task
    BY <2>1 DEF Top
  <2>3. stack # <<>> /\ stack' # <<>>
    <3>1. stack # <<>>
      BY <1>5 DEF SkipDep
    <3>2. Len(stack) \in DOMAIN stack
      BY <1>1, <3>1, TopType
    <3>3. QED
      BY <2>1, <3>1, <3>2
  <2>4. /\ phase' = phase /\ phase \in {"parsing", "defaulting"}
        /\ UNCHANGED <<task_list, task_order, cmdline, task_error, pending>>
    BY <1>5 DEF SkipDep
  <2>5. \A m : UnknownDep(m)' <=> UnknownDep(m)
    BY <2>4 DEF UnknownDep, DepsOf, Registered
  <2>6. Recorded'
    BY <2>1, <2>2, <2>4, <2>5 DEF UnknownInv, Recorded
  <2>7. OptionsFirst'
    BY <2>3, <2>4 DEF UnknownInv, OptionsFirst, Registered
  <2>8. QED
    BY <1>1, <2>4, <2>6, <2>7 DEF UnknownInv, NoRunWithUnknownDep
<1>6. CASE ActivateDep
  <2>1. Head(Top.deps) \in Name
    BY <1>1, <1>6, TopType, RangeTail DEF ActivateDep
  <2>2. /\ phase' = phase /\ phase \in {"parsing", "defaulting"}
        /\ stack # <<>> /\ Registered(Head(Top.deps))
        /\ EnableTask(Head(Top.deps))
        /\ UNCHANGED <<task_list, task_order, cmdline, pending>>
    BY <1>6 DEF ActivateDep, Settled
  <2>3. Recorded' /\ stack' # <<>>
    BY <1>1, <2>1, <2>2, EnableTaskRecords DEF UnknownInv
  <2>4. OptionsFirst'
    BY <2>2, <2>3 DEF UnknownInv, OptionsFirst, Registered
  <2>5. QED
    BY <1>1, <2>2, <2>3, <2>4 DEF UnknownInv, NoRunWithUnknownDep
<1>7. CASE AppendTask
  <2>1. /\ stack # <<>>
        /\ task_order' = Append(task_order, Top.task)
        /\ stack' = Pop
        /\ phase' = phase /\ phase \in {"parsing", "defaulting"}
        /\ UNCHANGED <<task_list, cmdline, task_error, pending>>
    BY <1>7 DEF AppendTask
  <2>2. /\ Top.task \in Name /\ Len(stack) \in DOMAIN stack
        /\ \A k \in DOMAIN Pop : k \in DOMAIN stack /\ Pop[k] = stack[k]
    BY <1>1, <2>1, TopType
  <2>3. /\ task_order \in Seq(Name) /\ Len(task_order) \in Nat
        /\ DOMAIN task_order' = 1..(Len(task_order) + 1)
        /\ DOMAIN task_order = 1..Len(task_order)
        /\ \A i \in 1..Len(task_order) : task_order'[i] = task_order[i]
        /\ task_order'[Len(task_order) + 1] = Top.task
    BY <1>1, <2>1, <2>2 DEF TypeOK
  <2>4. Recorded
    BY <2>1 DEF UnknownInv
  <2>5. ASSUME NEW i \in DOMAIN task_order', UnknownDep(task_order'[i])
        PROVE  task_error # Success
    <3>1. CASE i \in 1..Len(task_order)
      BY <2>3, <2>4, <2>5, <3>1 DEF Recorded
    <3>2. CASE i = Len(task_order) + 1
      BY <2>2, <2>3, <2>4, <2>5, <3>2 DEF Recorded, Top
    <3>3. QED
      BY <2>3, <2>5, <3>1, <3>2
  <2>6. ASSUME NEW k \in DOMAIN stack', UnknownDep(stack'[k].task)
        PROVE  task_error # Success
    BY <2>1, <2>2, <2>4, <2>6 DEF Recorded
  <2>7. \A m : UnknownDep(m)' <=> UnknownDep(m)
    BY <2>1 DEF UnknownDep, DepsOf, Registered
  <2>8. Recorded'
    BY <2>1, <2>5, <2>6, <2>7 DEF Recorded
  <2>9. task_order' # <<>>
    BY <2>3
  <2>10. OptionsFirst'
    BY <2>1, <2>9 DEF UnknownInv, OptionsFirst, Registered
  <2>11. QED
    BY <1>1, <2>1, <2>8, <2>10 DEF UnknownInv, NoRunWithUnknownDep
<1>8. CASE OverflowStack
  BY <1>1, <1>8 DEF OverflowStack, UnknownInv, OptionsFirst, NoRunWithUnknownDep
<1>9. CASE EndOfOptions
  <2>1. /\ phase = "parsing" /\ stack = <<>> /\ pending = <<>>
        /\ UNCHANGED <<task_list, task_order, cmdline, pending>>
    BY <1>9 DEF EndOfOptions
  <2>2. CASE phase' = "exited"
    BY <1>1, <2>2 DEF UnknownInv, OptionsFirst, NoRunWithUnknownDep
  <2>3. CASE task_error = Success /\ phase' = "executing"
    <3>1. \A i \in DOMAIN task_order : ~UnknownDep(task_order[i])
      BY <2>1, <2>3 DEF UnknownInv, Recorded
    <3>2. \A m : UnknownDep(m)' <=> UnknownDep(m)
      BY <2>1 DEF UnknownDep, DepsOf, Registered
    <3>3. QED
      BY <1>1, <2>1, <2>3, <3>1, <3>2
         DEF UnknownInv, OptionsFirst, NoRunWithUnknownDep
  <2>4. CASE /\ task_order = <<>> /\ EnableTask(DefaultTask)
             /\ phase' = "defaulting"
    <3>1. cmdline.options = <<>>
      BY <2>1, <2>4 DEF UnknownInv, OptionsFirst
    <3>2. DefaultTask \in Name
      BY TaskAssumption DEF TaskAssumption
    <3>3. Recorded'
      BY <1>1, <2>1, <2>4, <3>2, EnableTaskRecords DEF UnknownInv
    <3>4. QED
      BY <1>1, <2>1, <2>4, <3>1, <3>3
         DEF UnknownInv, OptionsFirst, NoRunWithUnknownDep
  <2>5. QED
    BY <1>9, <2>2, <2>3, <2>4 DEF EndOfOptions, Exit
<1>10. CASE DefaultEnabled
  BY <1>1, <1>10
     DEF DefaultEnabled, UnknownInv, OptionsFirst, NoRunWithUnknownDep
<1>11. CASE EndOfTasks
  BY <1>1, <1>11
     DEF EndOfTasks, Exit, UnknownInv, OptionsFirst, NoRunWithUnknownDep
<1>12. QED
  BY <1>2, <1>3, <1>4, <1>5, <1>6, <1>7, <1>8, <1>9, <1>10, <1>11
     DEF Schedule

\* What the steps of the task bodies leave alone is all the property reads.
LEMMA NextUnknownInv == UnknownInv /\ [Next]_vars => UnknownInv'
<1> SUFFICES ASSUME UnknownInv, [Next]_vars PROVE UnknownInv'
  OBVIOUS
<1>1. TypeOK'
  BY NextTypeOK DEF UnknownInv
<1>2. CASE Schedule
  BY <1>2, ScheduleUnknownInv
<1>3. CASE ExecuteTask
  <2>1. phase = "executing" /\ phase' = phase
        /\ UNCHANGED <<task_list, task_order, cmdline>>
    BY <1>3 DEF ExecuteTask, Running
  <2>2. \A m : UnknownDep(m)' <=> UnknownDep(m)
    BY <2>1 DEF UnknownDep, DepsOf, Registered
  <2>3. QED
    BY <1>1, <2>1, <2>2 DEF UnknownInv, OptionsFirst, NoRunWithUnknownDep
<1>4. ASSUME NEW status \in Status, ThrowError(status) PROVE UnknownInv'
  BY <1>1, <1>4 DEF ThrowError, Exit, UnknownInv, OptionsFirst, NoRunWithUnknownDep
<1>5. CASE UNCHANGED vars
  <2>1. \A m : UnknownDep(m)' <=> UnknownDep(m)
    BY <1>5 DEF vars, UnknownDep, DepsOf, Registered
  <2>2. QED
    BY <1>1, <1>5, <2>1
       DEF vars, UnknownInv, OptionsFirst, Recorded, NoRunWithUnknownDep,
           Registered
<1>6. QED
  BY <1>2, <1>3, <1>4, <1>5 DEF Next

\* For every table of tasks and every command line that names a task, what
\* main executes misses no dependency.
THEOREM UnknownDepsStopTheRun == Spec => []NoRunWithUnknownDep
<1>1. Init => UnknownInv
  BY InitUnknownInv
<1>2. UnknownInv /\ [Next]_vars => UnknownInv'
  BY NextUnknownInv
<1>3. UnknownInv => NoRunWithUnknownDep
  BY DEF UnknownInv
<1>4. QED
  BY <1>1, <1>2, <1>3, PTL DEF Spec
-----------------------------------------------------------------------------
(* The options consumed so far.  What is pending is the rest of the options, *)
(* and an option that is notified is registered, so that it pushes a frame. *)

PendingIsRest ==
  /\ Len(pending) <= Len(cmdline.options)
  /\ \A i \in DOMAIN pending :
       pending[i] = cmdline.options[Len(cmdline.options) - Len(pending) + i]

\* What comes before a place of a sequence, and with what is at that place.
LEMMA FirstOnes ==
  ASSUME NEW S, NEW s \in Seq(S), NEW m \in 0..Len(s)
  PROVE  /\ SubSeq(s, 1, m) \in Seq(S) /\ Len(SubSeq(s, 1, m)) = m
         /\ \A i \in 1..m : SubSeq(s, 1, m)[i] = s[i]
<1>1. m \in Nat /\ m \in Int /\ 1 \in Int /\ \A i \in 1..m : s[i] \in S
  OBVIOUS
<1>2. /\ SubSeq(s, 1, m) \in Seq(S)
      /\ Len(SubSeq(s, 1, m)) = IF 1 <= m THEN m - 1 + 1 ELSE 0
      /\ \A i \in 1..m - 1 + 1 : SubSeq(s, 1, m)[i] = s[1 + i - 1]
  BY <1>1, SubSeqProperties
<1> QED  BY <1>1, <1>2

LEMMA FirstOnesNext ==
  ASSUME NEW S, NEW s \in Seq(S), NEW m \in 0..Len(s), m < Len(s)
  PROVE  SubSeq(s, 1, m + 1) = Append(SubSeq(s, 1, m), s[m + 1])
<1> DEFINE t == SubSeq(s, 1, m)
           u == SubSeq(s, 1, m + 1)
<1>1. m \in Nat /\ m + 1 \in 0..Len(s) /\ s[m + 1] \in S
  OBVIOUS
<1>2. t \in Seq(S) /\ Len(t) = m /\ \A i \in 1..m : t[i] = s[i]
  BY FirstOnes
<1>3. u \in Seq(S) /\ Len(u) = m + 1 /\ \A i \in 1..(m + 1) : u[i] = s[i]
  BY <1>1, FirstOnes
<1> HIDE DEF t, u
<1>4. /\ Append(t, s[m + 1]) \in Seq(S) /\ Len(Append(t, s[m + 1])) = m + 1
      /\ \A i \in 1..(m + 1) : Append(t, s[m + 1])[i] = s[i]
  BY <1>1, <1>2
<1>5. u = Append(t, s[m + 1])
  BY <1>3, <1>4, SeqEqual
<1> QED  BY <1>5 DEF t, u

LEMMA ConsumedType ==
  ASSUME TypeOK, PendingIsRest
  PROVE  /\ Len(cmdline.options) - Len(pending) \in 0..Len(cmdline.options)
         /\ Consumed \in Seq(Name)
         /\ Len(Consumed) = Len(cmdline.options) - Len(pending)
         /\ \A i \in 1..Len(Consumed) : Consumed[i] = cmdline.options[i]
<1> DEFINE m == Len(cmdline.options) - Len(pending)
<1>1. /\ cmdline.options \in Seq(Name) /\ pending \in Seq(Name)
      /\ Len(cmdline.options) \in Nat /\ Len(pending) \in Nat
  BY DEF TypeOK, CommandLine
<1>2. m \in 0..Len(cmdline.options)
  BY <1>1 DEF PendingIsRest
<1>3. Consumed = SubSeq(cmdline.options, 1, m)
  BY DEF Consumed
<1> QED  BY <1>1, <1>2, <1>3, FirstOnes

\* One more option is notified.
LEMMA ConsumedNext ==
  ASSUME TypeOK, PendingIsRest, pending # <<>>,
         pending' = Tail(pending), cmdline' = cmdline
  PROVE  /\ PendingIsRest' /\ Consumed' = Append(Consumed, Head(pending))
         /\ Head(pending) \in Name
         /\ Head(pending) = cmdline.options[Len(Consumed) + 1]
<1> DEFINE m == Len(cmdline.options) - Len(pending)
           rest == Tail(pending)
<1>1. /\ pending \in Seq(Name) /\ Len(pending) \in Nat \ {0} /\ Head(pending) = pending[1]
      /\ cmdline.options \in Seq(Name) /\ Len(cmdline.options) \in Nat
      /\ rest \in Seq(Name) /\ Len(rest) = Len(pending) - 1
      /\ \A i \in 1..Len(rest) : rest[i] = pending[i + 1]
      /\ 1 \in DOMAIN pending /\ pending[1] \in Name
      /\ DOMAIN pending = 1..Len(pending) /\ DOMAIN rest = 1..Len(rest)
  BY DEF TypeOK, CommandLine
<1>2. m \in 0..Len(cmdline.options) /\ m < Len(cmdline.options) /\ m \in Nat
  BY <1>1 DEF PendingIsRest
<1> HIDE DEF rest
<1>3. ASSUME NEW i \in DOMAIN rest
      PROVE  rest[i] = cmdline.options[Len(cmdline.options) - Len(rest) + i]
  <2>1. i + 1 \in DOMAIN pending /\ rest[i] = pending[i + 1] /\ i \in Nat
    BY <1>1
  <2>2. pending[i + 1] = cmdline.options[Len(cmdline.options) - Len(pending) + (i + 1)]
    BY <2>1 DEF PendingIsRest
  <2>3. \A o, p, j \in Nat : o - p + (j + 1) = o - (p - 1) + j
    OBVIOUS
  <2>4. Len(cmdline.options) - Len(pending) + (i + 1) = Len(cmdline.options) - (Len(pending) - 1) + i
    BY <1>1, <2>1, <2>3
  <2> QED  BY <1>1, <2>1, <2>2, <2>4
<1>4. PendingIsRest'
  BY <1>1, <1>2, <1>3 DEF PendingIsRest, rest
<1>5. Head(pending) = cmdline.options[m + 1]
  BY <1>1 DEF PendingIsRest
<1>6. Consumed = SubSeq(cmdline.options, 1, m) /\ Len(Consumed) = m
  BY ConsumedType DEF Consumed
<1>7. Len(cmdline'.options) - Len(pending') = m + 1
  BY <1>1 DEF rest
<1>8. Consumed' = SubSeq(cmdline.options, 1, m + 1)
  BY <1>7 DEF Consumed
<1> HIDE DEF m
<1>9. SubSeq(cmdline.options, 1, m + 1) = Append(SubSeq(cmdline.options, 1, m), cmdline.options[m + 1])
  BY <1>1, <1>2, FirstOnesNext
<1> QED  BY <1>1, <1>4, <1>5, <1>6, <1>8, <1>9

\* The frames keep their tasks through a turn of the loop.
LEMMA SkipDepTasks ==
  ASSUME TypeOK, SkipDep
  PROVE  /\ stack # <<>> /\ stack' # <<>> /\ DOMAIN stack' = DOMAIN stack
         /\ stack' \in Seq(Frame) /\ Len(stack') = Len(stack)
         /\ \A k \in DOMAIN stack : stack'[k].task = stack[k].task
<1>1. /\ DOMAIN stack' = DOMAIN stack /\ stack' \in Seq(Frame)
      /\ \A k \in DOMAIN stack : k # Len(stack) => stack'[k] = stack[k]
      /\ stack'[Len(stack)] = [task |-> Top.task, deps |-> Tail(Top.deps)]
  BY SkipDepStack
<1>2. stack # <<>> /\ stack \in Seq(Frame)
  BY DEF SkipDep, TypeOK
<1>3. Len(stack') = Len(stack)
  BY <1>1, <1>2
<1>4. \A k \in DOMAIN stack : stack'[k].task = stack[k].task
  BY <1>1 DEF Top
<1> QED  BY <1>1, <1>2, <1>3, <1>4

\* The frame enable_task pushes for a registered task.
LEMMA EnableTaskPushes ==
  ASSUME TypeOK, NEW n \in Name, EnableTask(n), Registered(n)
  PROVE  /\ stack' \in Seq(Frame) /\ Len(stack') = Len(stack) + 1 /\ Len(stack) \in Nat
         /\ DOMAIN stack' = 1..(Len(stack) + 1) /\ DOMAIN stack = 1..Len(stack)
         /\ \A k \in 1..Len(stack) : stack'[k] = stack[k]
         /\ stack'[Len(stack) + 1] = [task |-> n, deps |-> DepsToActivate(n)]
<1>1. /\ stack \in Seq(Frame)
      /\ stack' = Append(stack, [task |-> n, deps |-> DepsToActivate(n)])
  BY DEF EnableTask, TypeOK
<1>2. [task |-> n, deps |-> DepsToActivate(n)] \in Frame
  BY DepsType DEF Frame
<1> QED  BY <1>1, <1>2

-----------------------------------------------------------------------------
(* Chronological order.  The options whose call has returned are found in  *)
(* the execution order, one after the other; the call in progress is that  *)
(* of the last option notified, whose task is at the bottom of the stack.  *)

\* The first m options, in the order of execution.
Embedded(options, m, order) ==
  \E f \in [1..m -> 1..Len(order)] :
    /\ \A i, j \in 1..m : i < j => f[i] < f[j]
    /\ \A i \in 1..m : order[f[i]] = options[i]

LEMMA EmbeddedAppend ==
  ASSUME NEW options, NEW m \in Nat, NEW order \in Seq(Name), NEW n \in Name, Embedded(options, m, order)
  PROVE  /\ Embedded(options, m, Append(order, n))
         /\ n = options[m + 1] => Embedded(options, m + 1, Append(order, n))
<1> DEFINE longer == Append(order, n)
<1>1. PICK f \in [1..m -> 1..Len(order)] :
        /\ \A i, j \in 1..m : i < j => f[i] < f[j]
        /\ \A i \in 1..m : order[f[i]] = options[i]
  BY DEF Embedded
<1>2. /\ Len(order) \in Nat /\ Len(longer) = Len(order) + 1
      /\ \A i \in 1..Len(order) : longer[i] = order[i]
      /\ longer[Len(order) + 1] = n
  OBVIOUS
<1> HIDE DEF longer
<1>3. Embedded(options, m, longer)
  <2>1. f \in [1..m -> 1..Len(longer)] /\ \A i \in 1..m : longer[f[i]] = options[i]
    BY <1>1, <1>2
  <2> QED  BY <1>1, <2>1 DEF Embedded
<1>4. ASSUME n = options[m + 1] PROVE Embedded(options, m + 1, longer)
  <2> DEFINE g == [i \in 1..(m + 1) |-> IF i = m + 1 THEN Len(order) + 1 ELSE f[i]]
  <2>1. \A i \in 1..(m + 1) : i # m + 1 => i \in 1..m /\ f[i] \in 1..Len(order) /\ g[i] = f[i]
    OBVIOUS
  <2>2. m + 1 \in 1..(m + 1) /\ g[m + 1] = Len(order) + 1
    OBVIOUS
  <2>3. g \in [1..(m + 1) -> 1..Len(longer)]
    BY <1>2, <2>1
  <2> HIDE DEF g
  <2>4. ASSUME NEW i \in 1..(m + 1), NEW j \in 1..(m + 1), i < j PROVE g[i] < g[j]
    <3>1. i # m + 1 /\ i \in 1..m
      BY <2>4
    <3>2. CASE j = m + 1
      BY <1>2, <2>1, <2>2, <3>1, <3>2
    <3>3. CASE j # m + 1
      BY <1>1, <2>1, <2>4, <3>1, <3>3
    <3> QED  BY <3>2, <3>3
  <2>5. ASSUME NEW i \in 1..(m + 1) PROVE longer[g[i]] = options[i]
    <3>1. CASE i = m + 1
      BY <1>2, <1>4, <2>2, <3>1
    <3>2. CASE i # m + 1
      BY <1>1, <1>2, <2>1, <3>2
    <3> QED  BY <3>1, <3>2
  <2> QED  BY <2>3, <2>4, <2>5 DEF Embedded
<1> QED  BY <1>3, <1>4 DEF longer

LEMMA NoneEmbedded == \A options, order : Embedded(options, 0, order)
<1> SUFFICES ASSUME NEW options, NEW order PROVE Embedded(options, 0, order)
  OBVIOUS
<1> DEFINE f == [i \in 1..0 |-> 1]
<1>1. f \in [1..0 -> 1..Len(order)] /\ \A i \in 1..0 : FALSE
  OBVIOUS
<1> HIDE DEF f
<1> QED  BY <1>1 DEF Embedded

\* How many options have been notified.
Notified == Len(cmdline.options) - Len(pending)

Chronology ==
  IF phase = "parsing" /\ stack # <<>>
    THEN /\ Notified # 0
         /\ stack[1].task = cmdline.options[Notified]
         /\ Embedded(cmdline.options, Notified - 1, task_order)
    ELSE phase \notin {"exited", "crashed"} => Embedded(cmdline.options, Notified, task_order)

ChronoInv ==
  /\ UnknownInv
  /\ PendingIsRest
  /\ phase = "executing" => stack = <<>>
  /\ Chronology

LEMMA InitChronoInv == Init => ChronoInv
<1> SUFFICES ASSUME Init PROVE ChronoInv
  OBVIOUS
<1>1. UnknownInv /\ TypeOK
  BY InitUnknownInv, InitTypeOK
<1>2. /\ phase = "registering" /\ stack = <<>> /\ pending = cmdline.options
      /\ task_order \in Seq(Name) /\ Len(cmdline.options) \in Nat
  BY <1>1 DEF Init, TypeOK, CommandLine
<1>3. PendingIsRest /\ Notified = 0
  <2>1. \A i \in DOMAIN cmdline.options : i = Len(cmdline.options) - Len(cmdline.options) + i
    BY <1>1, <1>2 DEF TypeOK, CommandLine
  <2> QED  BY <1>2, <2>1 DEF PendingIsRest, Notified
<1> QED  BY <1>1, <1>2, <1>3, NoneEmbedded DEF ChronoInv, Chronology

\* A step that keeps the options, the order and the task in the first frame.
LEMMA ChronologyStays ==
  ASSUME Chronology, PendingIsRest, UNCHANGED <<cmdline, pending, task_order, phase>>,
         stack # <<>> <=> stack' # <<>>, stack # <<>> => stack'[1].task = stack[1].task
  PROVE  Chronology' /\ PendingIsRest'
BY DEF Chronology, PendingIsRest, Notified

LEMMA ScheduleChronoInv == ChronoInv /\ Schedule => ChronoInv'
<1> SUFFICES ASSUME ChronoInv, Schedule PROVE ChronoInv'
  OBVIOUS
<1>1. UnknownInv /\ UnknownInv' /\ TypeOK /\ TypeOK' /\ PendingIsRest /\ Chronology
  BY ScheduleUnknownInv DEF ChronoInv, UnknownInv
<1>2. /\ task_order \in Seq(Name) /\ stack \in Seq(Frame) /\ Notified \in Nat
      /\ cmdline.options \in Seq(Name)
  BY <1>1, ConsumedType DEF TypeOK, Notified, CommandLine
<1> SUFFICES /\ PendingIsRest' /\ Chronology'
             /\ (phase = "executing" => stack = <<>>)'
  BY <1>1 DEF ChronoInv
<1>3. CASE RegisterTask
  BY <1>1, <1>3, ChronologyStays DEF RegisterTask
<1>4. CASE ParseCommandLine
  <2>1. stack = <<>> /\ phase = "registering" /\ phase' \in {"exited", "parsing"}
    BY <1>1, <1>4 DEF ParseCommandLine, Exit, UnknownInv, OptionsFirst
  <2>2. UNCHANGED <<stack, task_order, cmdline, pending>>
    BY <1>4 DEF ParseCommandLine
  <2>3. Embedded(cmdline.options, Notified, task_order)
    BY <1>1, <2>1 DEF Chronology
  <2> QED  BY <1>1, <2>1, <2>2, <2>3 DEF Chronology, PendingIsRest, Notified
<1>5. CASE NotifyOption
  <2>1. /\ phase = "parsing" /\ phase' = "parsing" /\ stack = <<>> /\ pending # <<>>
        /\ pending' = Tail(pending) /\ EnableTask(Head(pending))
        /\ cmdline' = cmdline /\ task_order' = task_order
    BY <1>5 DEF NotifyOption
  <2>2. PendingIsRest' /\ Head(pending) \in Name /\ Head(pending) = cmdline.options[Len(Consumed) + 1]
    BY <1>1, <2>1, ConsumedNext
  <2>3. Registered(Head(pending))
    <3>1. 1 \in DOMAIN pending /\ Head(pending) = pending[1]
      BY <1>1, <2>1 DEF TypeOK
    <3> QED  BY <1>1, <2>1, <3>1 DEF UnknownInv, OptionsFirst
  <2>4. stack'[1].task = Head(pending) /\ stack' # <<>>
    <3>1. /\ stack' \in Seq(Frame) /\ Len(stack') = Len(stack) + 1
          /\ stack'[Len(stack) + 1] = [task |-> Head(pending), deps |-> DepsToActivate(Head(pending))]
      BY <1>1, <2>1, <2>2, <2>3, EnableTaskPushes
    <3>2. Len(stack) = 0
      BY <2>1
    <3> QED  BY <3>1, <3>2
  <2>5. Notified' = Notified + 1 /\ Len(Consumed) = Notified
    <3>1. Len(Tail(pending)) = Len(pending) - 1 /\ Len(pending) \in Nat /\ Len(cmdline.options) \in Nat
      BY <1>1, <2>1 DEF TypeOK, CommandLine
    <3>2. Len(Consumed) = Notified
      BY <1>1, ConsumedType DEF Notified
    <3> QED  BY <2>1, <3>1, <3>2 DEF Notified
  <2>6. Embedded(cmdline.options, Notified, task_order)
    BY <1>1, <2>1 DEF Chronology
  <2>7. Notified' - 1 = Notified /\ Embedded(cmdline'.options, Notified' - 1, task_order')
    BY <1>2, <2>1, <2>5, <2>6
  <2>8. Notified' # 0 /\ stack'[1].task = cmdline'.options[Notified']
    BY <1>2, <2>1, <2>2, <2>4, <2>5
  <2> QED  BY <2>1, <2>2, <2>4, <2>7, <2>8 DEF Chronology
<1>6. CASE SkipDep
  <2>1. stack # <<>> /\ stack' # <<>> /\ stack'[1].task = stack[1].task
    <3>1. stack # <<>> /\ stack' # <<>> /\ \A k \in DOMAIN stack : stack'[k].task = stack[k].task
      BY <1>1, <1>6, SkipDepTasks
    <3> QED  BY <1>2, <3>1
  <2> QED  BY <1>1, <1>6, <2>1, ChronologyStays DEF SkipDep
<1>7. CASE ActivateDep
  <2>1. /\ stack # <<>> /\ Top.deps # <<>> /\ EnableTask(Head(Top.deps))
        /\ Registered(Head(Top.deps))
    BY <1>7 DEF ActivateDep, Settled
  <2>2. Head(Top.deps) \in Name
    BY <1>1, <2>1, TopType, RangeTail
  <2>3. /\ Len(stack') = Len(stack) + 1 /\ stack' \in Seq(Frame)
        /\ \A k \in 1..Len(stack) : stack'[k] = stack[k]
    BY <1>1, <2>1, <2>2, EnableTaskPushes
  <2>4. stack' # <<>> /\ stack'[1].task = stack[1].task
    BY <1>2, <2>1, <2>3
  <2> QED  BY <1>1, <1>7, <2>1, <2>4, ChronologyStays DEF ActivateDep
<1>8. CASE AppendTask
  <2>1. /\ stack # <<>> /\ phase \in {"parsing", "defaulting"} /\ phase' = phase
        /\ task_order' = Append(task_order, Top.task) /\ stack' = Pop
        /\ UNCHANGED <<cmdline, pending>>
    BY <1>8 DEF AppendTask
  <2>2. /\ Top.task \in Name /\ Len(stack) \in Nat \ {0}
        /\ Pop \in Seq(Frame) /\ Len(Pop) = Len(stack) - 1
        /\ \A k \in DOMAIN Pop : k \in DOMAIN stack /\ Pop[k] = stack[k]
    <3>1. Len(stack) \in Nat \ {0} /\ Len(stack) - 1 \in 0..Len(stack)
      BY <1>2, <2>1
    <3>2. Len(Pop) = Len(stack) - 1
      BY <1>2, <3>1, FirstOnes DEF Pop
    <3> QED  BY <1>1, <2>1, <3>1, <3>2, TopType
  <2>3. PendingIsRest' /\ Notified' = Notified
    BY <1>1, <2>1 DEF PendingIsRest, Notified
  <2>4. \A m \in Nat :
          /\ Embedded(cmdline.options, m, task_order) =>
               Embedded(cmdline.options, m, task_order')
          /\ Embedded(cmdline.options, m, task_order) /\ Top.task = cmdline.options[m + 1] =>
               Embedded(cmdline.options, m + 1, task_order')
    BY <1>2, <2>1, <2>2, EmbeddedAppend
  <2>5. CASE phase = "defaulting"
    BY <1>1, <1>2, <2>1, <2>3, <2>4, <2>5 DEF Chronology
  <2>6. CASE phase = "parsing"
    <3>1. /\ Notified # 0 /\ stack[1].task = cmdline.options[Notified]
          /\ Embedded(cmdline.options, Notified - 1, task_order)
      BY <1>1, <2>1, <2>6 DEF Chronology
    <3>2. CASE Len(stack) = 1
      <4>1. stack' = <<>> /\ Top.task = cmdline.options[(Notified - 1) + 1]
        BY <1>2, <2>1, <2>2, <3>1, <3>2 DEF Top
      <4>2. Embedded(cmdline.options, Notified, task_order')
        <5>0. Notified \in Nat /\ Notified # 0
          BY <1>2, <3>1
        <5>1. Notified - 1 \in Nat /\ (Notified - 1) + 1 = Notified
          BY <5>0
        <5> QED  BY <2>4, <3>1, <4>1, <5>1
      <4> QED  BY <1>2, <2>1, <2>3, <2>6, <4>1, <4>2 DEF Chronology
    <3>3. CASE Len(stack) # 1
      <4>1. stack' # <<>> /\ stack'[1].task = stack[1].task
        BY <2>1, <2>2, <3>3
      <4>2. Embedded(cmdline.options, Notified - 1, task_order')
        <5>1. Notified - 1 \in Nat
          BY <1>2, <3>1
        <5> QED  BY <2>4, <3>1, <5>1
      <4> QED  BY <2>1, <2>3, <2>6, <3>1, <4>1, <4>2 DEF Chronology
    <3> QED  BY <3>2, <3>3
  <2> QED  BY <2>1, <2>3, <2>5, <2>6
<1>9. CASE OverflowStack
  BY <1>1, <1>9 DEF OverflowStack, Chronology, PendingIsRest
<1>10. CASE EndOfOptions
  <2>1. /\ phase = "parsing" /\ stack = <<>> /\ UNCHANGED <<cmdline, pending, task_order>>
        /\ phase' \in {"exited", "executing", "defaulting"}
        /\ phase' = "executing" => stack' = <<>>
    BY <1>10 DEF EndOfOptions, Exit
  <2> QED  BY <1>1, <2>1 DEF Chronology, PendingIsRest, Notified
<1>11. CASE DefaultEnabled
  BY <1>1, <1>11 DEF DefaultEnabled, Chronology, PendingIsRest, Notified
<1>12. CASE EndOfTasks
  BY <1>1, <1>12 DEF EndOfTasks, Exit, Chronology, PendingIsRest
<1> QED
  BY <1>3, <1>4, <1>5, <1>6, <1>7, <1>8, <1>9, <1>10, <1>11, <1>12 DEF Schedule

LEMMA NextChronoInv == ChronoInv /\ [Next]_vars => ChronoInv'
<1> SUFFICES ASSUME ChronoInv, [Next]_vars PROVE ChronoInv'
  OBVIOUS
<1>1. UnknownInv'
  BY NextUnknownInv DEF ChronoInv
<1>2. CASE Schedule
  BY <1>2, ScheduleChronoInv
<1>3. CASE ExecuteTask \/ UNCHANGED vars
  <2>1. UNCHANGED <<cmdline, pending, task_order, phase, stack>>
    BY <1>3 DEF ExecuteTask, vars
  <2> QED  BY <1>1, <2>1, ChronologyStays DEF ChronoInv
<1>4. ASSUME NEW status \in Status, ThrowError(status) PROVE ChronoInv'
  BY <1>1, <1>4 DEF ThrowError, Exit, ChronoInv, Chronology, PendingIsRest
<1> QED  BY <1>2, <1>3, <1>4 DEF Next

\* For every table of tasks and every command line, the tasks the options name
\* are executed in the order of the options, with dependencies in between.
THEOREM OptionsInOrder == Spec => []ChronologicalOrder
<1>1. ChronoInv => ChronologicalOrder
  <2> SUFFICES ASSUME ChronoInv, stack = <<>>, phase \in {"parsing", "executing"}
               PROVE  \E f \in [DOMAIN Consumed -> DOMAIN task_order] :
                        /\ \A i, j \in DOMAIN f : i < j => f[i] < f[j]
                        /\ \A i \in DOMAIN f : task_order[f[i]] = Consumed[i]
    BY DEF ChronologicalOrder
  <2>1. TypeOK /\ Embedded(cmdline.options, Notified, task_order)
    BY DEF ChronoInv, UnknownInv, Chronology
  <2>2. /\ DOMAIN Consumed = 1..Notified
        /\ \A i \in 1..Notified : Consumed[i] = cmdline.options[i]
    BY <2>1, ConsumedType DEF ChronoInv, Notified
  <2>3. DOMAIN task_order = 1..Len(task_order)
    BY <2>1 DEF TypeOK
  <2>4. PICK f \in [1..Notified -> 1..Len(task_order)] :
          /\ \A i, j \in 1..Notified : i < j => f[i] < f[j]
          /\ \A i \in 1..Notified : task_order[f[i]] = cmdline.options[i]
    BY <2>1 DEF Embedded
  <2> QED  BY <2>2, <2>3, <2>4
<1> QED  BY <1>1, InitChronoInv, NextChronoInv, PTL DEF Spec

-----------------------------------------------------------------------------
(* Scheduled on demand.  On an acyclic graph the ranks of the tasks decrease *)
(* along the stack, so that a task is there once; while it is, the option   *)
(* that asked for it, if any, has not been answered yet.                    *)

Count(n, s) == Cardinality(Occurrences(n, s))

LEMMA CountType ==
  ASSUME NEW s \in Seq(Name), NEW n
  PROVE  IsFiniteSet(Occurrences(n, s)) /\ Count(n, s) \in Nat
<1>1. IsFiniteSet(1..Len(s)) /\ Occurrences(n, s) \subseteq 1..Len(s)
  BY FS_Interval DEF Occurrences
<1>2. IsFiniteSet(Occurrences(n, s))
  BY <1>1, FS_Subset
<1> QED  BY <1>2, FS_CardinalityType DEF Count

LEMMA CountAppend ==
  ASSUME NEW s \in Seq(Name), NEW e \in Name, NEW n
  PROVE  Count(n, Append(s, e)) = IF e = n THEN Count(n, s) + 1 ELSE Count(n, s)
<1> DEFINE t == Append(s, e)
           here == Len(s) + 1
<1>1. /\ Len(s) \in Nat /\ DOMAIN s = 1..Len(s) /\ DOMAIN t = 1..here
      /\ t[here] = e /\ \A i \in 1..Len(s) : t[i] = s[i]
      /\ here \notin 1..Len(s) /\ 1..here = 1..Len(s) \union {here}
  OBVIOUS
<1>2. IsFiniteSet(Occurrences(n, s)) /\ Count(n, s) \in Nat
  BY CountType
<1>3. Occurrences(n, s) = {i \in 1..Len(s) : s[i] = n}
  BY <1>1 DEF Occurrences
<1> HIDE DEF t, here
<1>4. CASE e = n
  <2>1. Occurrences(n, t) = Occurrences(n, s) \union {here} /\ here \notin Occurrences(n, s)
    BY <1>1, <1>3, <1>4 DEF Occurrences
  <2>2. Count(n, t) = Count(n, s) + 1
    BY <1>2, <2>1, FS_AddElement DEF Count
  <2> QED  BY <1>4, <2>2 DEF t
<1>5. CASE e # n
  <2>1. Occurrences(n, t) = Occurrences(n, s)
    BY <1>1, <1>3, <1>5 DEF Occurrences
  <2> QED  BY <1>5, <2>1 DEF Count, t
<1> QED  BY <1>4, <1>5

LEMMA CountNone ==
  ASSUME NEW s \in Seq(Name), NEW n, n \notin Range(s)
  PROVE  Count(n, s) = 0
<1>1. Occurrences(n, s) = {}
  BY DEF Occurrences, Range
<1> QED  BY <1>1, FS_EmptySet DEF Count

\* A rank of the tasks: it decreases along the registered dependencies.
IsRank(rank, list) ==
  \A n \in Name : list[n] # NoTask =>
    \A d \in Range(list[n].deps) : list[d] # NoTask => rank[d] < rank[n]

\* A frame is about dependencies of its registered task.
Justified(f, list) ==
  /\ list[f.task] # NoTask
  /\ Range(f.deps) \subseteq Range(list[f.task].deps)

RanksDecrease(rank, frames) ==
  \A j, k \in DOMAIN frames : j < k => rank[frames[k].task] < rank[frames[j].task]

OnStack(n, frames) == \E k \in DOMAIN frames : frames[k].task = n

\* How many more times a task may be scheduled.
Room(n, frames, order, consumed) ==
  Count(n, order) <= Count(n, consumed) + IF OnStack(n, frames) THEN 0 ELSE 1

Ranks == [Name -> 1..Cardinality(Name)]

DemandInv ==
  /\ UnknownInv
  /\ PendingIsRest
  /\ \A k \in DOMAIN stack : Justified(stack[k], task_list)
  /\ \A rank \in Ranks : IsRank(rank, task_list) => RanksDecrease(rank, stack)
  /\ Acyclic => \A n \in Name : Room(n, stack, task_order, Consumed)
  /\ phase = "executing" => stack = <<>>

LEMMA AcyclicHasRank == Acyclic <=> \E rank \in Ranks : IsRank(rank, task_list)
BY DEF Acyclic, IsRank, Registered, DepsOf, Ranks

LEMMA RankIsInt == \A rank \in Ranks, n \in Name : rank[n] \in Int
BY DEF Ranks

\* What a task asks to be activated is among its dependencies.
LEMMA ActivatedAreDeps ==
  ASSUME TypeOK, NEW n \in Name, Registered(n)
  PROVE  Range(DepsToActivate(n)) \subseteq Range(DepsOf(n))
<1>1. DepsOf(n) \in Seq(Name)
  BY DepsType
<1>2. CASE DepsToActivate(n) = DepsOf(n)
  BY <1>2
<1>3. CASE DepsToActivate(n) = <<>>
  BY <1>3 DEF Range
<1>4. CASE DepsOf(n) # <<>> /\ DepsToActivate(n) = SubSeq(DepsOf(n), 1, 1)
  <2>1. DepsToActivate(n) = <<DepsOf(n)[1]>>
    BY <1>1, <1>4, FirstOnly
  <2>2. 1 \in 1..Len(DepsOf(n))
    BY <1>1, <1>4
  <2>3. DepsOf(n)[1] \in Range(DepsOf(n))
    BY <1>1, <2>2, RangeInSet
  <2> QED  BY <2>1, <2>3 DEF Range
<1>5. CASE DepsOf(n) = <<>> /\ DepsToActivate(n) = SubSeq(DepsOf(n), 1, 0)
  BY <1>5 DEF Range
<1> QED  BY <1>2, <1>3, <1>4, <1>5 DEF DepsToActivate

LEMMA InitDemandInv == Init => DemandInv
<1> SUFFICES ASSUME Init PROVE DemandInv
  OBVIOUS
<1>1. ChronoInv /\ TypeOK /\ UnknownInv /\ PendingIsRest
  BY InitChronoInv DEF ChronoInv, UnknownInv
<1>2. stack = <<>> /\ task_order = <<>> /\ phase = "registering" /\ DOMAIN stack = {}
  BY <1>1 DEF Init
<1>3. ASSUME NEW n \in Name PROVE Room(n, stack, task_order, Consumed)
  <2>1. Count(n, task_order) = 0
    <3>1. n \notin Range(task_order) /\ task_order \in Seq(Name)
      BY <1>2 DEF Range
    <3> QED  BY <3>1, CountNone
  <2>2. Count(n, Consumed) \in Nat
    BY <1>1, ConsumedType, CountType
  <2> QED  BY <1>2, <2>1, <2>2 DEF Room, OnStack
<1> QED  BY <1>1, <1>2, <1>3 DEF DemandInv, RanksDecrease

\* A step that keeps the tasks in the frames keeps the room.
LEMMA DemandStays ==
  ASSUME DemandInv, UnknownInv',
         UNCHANGED <<cmdline, pending, task_order, task_list>>,
         stack' = stack, (phase = "executing" => stack = <<>>)'
  PROVE  DemandInv'
BY DEF DemandInv, PendingIsRest, Justified, Registered, DepsOf, RanksDecrease, Acyclic,
       Room, OnStack, Count, Consumed, Occurrences

\* The frame enable_task pushes, for an option or for the dependency at the
\* head of the innermost frame.
LEMMA PushDemand ==
  ASSUME DemandInv, NEW n \in Name, EnableTask(n), Registered(n),
         task_list' = task_list,
         stack = <<>> \/ (Top.deps # <<>> /\ n = Head(Top.deps))
  PROVE  /\ \A k \in DOMAIN stack' : Justified(stack'[k], task_list')
         /\ \A rank \in Ranks : IsRank(rank, task_list) =>
              /\ RanksDecrease(rank, stack')
              /\ \A k \in DOMAIN stack : rank[n] < rank[stack[k].task]
         /\ \A m : OnStack(m, stack') <=> OnStack(m, stack) \/ m = n
         /\ stack' # <<>>
<1> DEFINE top == Len(stack)
<1>1. TypeOK /\ stack \in Seq(Frame)
  BY DEF DemandInv, UnknownInv, TypeOK
<1>2. /\ stack' \in Seq(Frame) /\ top \in Nat
      /\ DOMAIN stack' = 1..(top + 1) /\ DOMAIN stack = 1..top
      /\ \A k \in 1..top : stack'[k] = stack[k]
      /\ stack'[top + 1] = [task |-> n, deps |-> DepsToActivate(n)]
  BY <1>1, EnableTaskPushes
<1> HIDE DEF top
<1>4. Justified(stack'[top + 1], task_list')
  BY <1>1, <1>2, ActivatedAreDeps DEF Justified, Registered, DepsOf
<1>5. \A k \in DOMAIN stack' : Justified(stack'[k], task_list')
  <2> SUFFICES ASSUME NEW k \in DOMAIN stack' PROVE Justified(stack'[k], task_list')
    OBVIOUS
  <2>1. CASE k = top + 1
    BY <1>4, <2>1
  <2>2. CASE k \in 1..top
    BY <1>2, <2>2 DEF DemandInv
  <2> QED  BY <1>2, <2>1, <2>2
<1>6. ASSUME NEW rank \in Ranks, IsRank(rank, task_list), NEW k \in DOMAIN stack
      PROVE  rank[n] < rank[stack[k].task]
  <2>1. stack # <<>> /\ Top.deps # <<>> /\ n = Head(Top.deps) /\ top \in DOMAIN stack
    BY <1>2, <1>6
  <2>2. /\ Top = stack[top] /\ Top.task \in Name /\ Top.deps \in Seq(Name)
        /\ Justified(Top, task_list)
    BY <1>1, <2>1, TopType DEF DemandInv, Top, top
  <2>3. n \in Range(Top.deps)
    <3>1. 1 \in 1..Len(Top.deps) /\ Head(Top.deps) = Top.deps[1]
      BY <2>1, <2>2
    <3> QED  BY <2>1, <2>2, <3>1, RangeInSet
  <2>4. rank[n] < rank[Top.task]
    <3>1. n \in Range(task_list[Top.task].deps) /\ task_list[Top.task] # NoTask
      BY <2>2, <2>3 DEF Justified
    <3>2. task_list[n] # NoTask
      BY DEF Registered
    <3> QED  BY <1>6, <2>2, <3>1, <3>2 DEF IsRank
  <2>5. CASE k = top
    BY <2>2, <2>4, <2>5
  <2>6. CASE k # top
    <3>1. k < top
      BY <1>2, <2>6
    <3>2. rank[Top.task] < rank[stack[k].task]
      BY <1>6, <2>1, <2>2, <3>1 DEF DemandInv, RanksDecrease
    <3>3. stack[k].task \in Name
      <4>1. stack[k] \in Frame
        BY <1>1, <1>6
      <4> QED  BY <4>1 DEF Frame
    <3>4. rank[n] \in Int /\ rank[Top.task] \in Int /\ rank[stack[k].task] \in Int
      BY <1>6, <2>2, <3>3, RankIsInt
    <3> QED  BY <2>4, <3>2, <3>4
  <2> QED  BY <2>5, <2>6
<1>7. ASSUME NEW rank \in Ranks, IsRank(rank, task_list)
      PROVE  RanksDecrease(rank, stack')
  <2> SUFFICES ASSUME NEW j \in DOMAIN stack', NEW k \in DOMAIN stack', j < k
               PROVE  rank[stack'[k].task] < rank[stack'[j].task]
    BY DEF RanksDecrease
  <2>1. j \in 1..top
    BY <1>2
  <2>2. CASE k \in 1..top
    BY <1>2, <1>7, <2>1, <2>2 DEF DemandInv, RanksDecrease
  <2>3. CASE k = top + 1
    BY <1>2, <1>6, <1>7, <2>1, <2>3
  <2> QED  BY <1>2, <2>2, <2>3
<1>8. ASSUME NEW m PROVE OnStack(m, stack') <=> OnStack(m, stack) \/ m = n
  <2>1. top + 1 \in DOMAIN stack' /\ stack'[top + 1].task = n
    BY <1>2
  <2>2. OnStack(m, stack') => OnStack(m, stack) \/ m = n
    <3> SUFFICES ASSUME NEW k \in DOMAIN stack', stack'[k].task = m
                 PROVE  OnStack(m, stack) \/ m = n
      BY DEF OnStack
    <3>1. CASE k = top + 1
      BY <1>2, <3>1
    <3>2. CASE k \in 1..top
      BY <1>2, <3>2 DEF OnStack
    <3> QED  BY <1>2, <3>1, <3>2
  <2>3. OnStack(m, stack) => OnStack(m, stack')
    <3> SUFFICES ASSUME NEW k \in DOMAIN stack, stack[k].task = m PROVE OnStack(m, stack')
      BY DEF OnStack
    <3>1. k \in DOMAIN stack' /\ stack'[k].task = m
      BY <1>2
    <3> QED  BY <3>1 DEF OnStack
  <2> QED  BY <2>1, <2>2, <2>3 DEF OnStack
<1>9. stack' # <<>>
  BY <1>2
<1> QED  BY <1>5, <1>6, <1>7, <1>8, <1>9

LEMMA ScheduleDemandInv == DemandInv /\ Schedule => DemandInv'
<1> SUFFICES ASSUME DemandInv, Schedule PROVE DemandInv'
  OBVIOUS
<1>1. UnknownInv /\ UnknownInv' /\ TypeOK /\ TypeOK' /\ PendingIsRest
  BY ScheduleUnknownInv DEF DemandInv, UnknownInv
<1>2. /\ stack \in Seq(Frame) /\ task_order \in Seq(Name)
      /\ Consumed \in Seq(Name) /\ \A n : Count(n, Consumed) \in Nat /\ Count(n, task_order) \in Nat
  BY <1>1, ConsumedType, CountType DEF TypeOK
<1>3. CASE RegisterTask
  <2>1. stack = <<>> /\ task_order = <<>> /\ phase = "registering"
    BY <1>1, <1>3 DEF RegisterTask, UnknownInv, OptionsFirst
  <2>2. UNCHANGED <<stack, task_order, cmdline, pending, phase>>
    BY <1>3 DEF RegisterTask
  <2>3. ASSUME NEW n \in Name PROVE Room(n, stack', task_order', Consumed')
    <3>1. Count(n, task_order) = 0
      <4>1. n \notin Range(task_order)
        BY <2>1 DEF Range
      <4> QED  BY <1>2, <4>1, CountNone
    <3>2. Consumed' = Consumed
      BY <2>2 DEF Consumed
    <3> QED  BY <1>2, <2>1, <2>2, <3>1, <3>2 DEF Room, OnStack
  <2>4. PendingIsRest'
    BY <1>1, <2>2 DEF PendingIsRest
  <2> QED  BY <1>1, <2>1, <2>2, <2>3, <2>4 DEF DemandInv, RanksDecrease
<1>4. CASE ParseCommandLine
  BY <1>1, <1>4, DemandStays DEF ParseCommandLine, Exit
<1>5. CASE NotifyOption
  <2> DEFINE n == Head(pending)
  <2>1. /\ phase = "parsing" /\ phase' = "parsing" /\ stack = <<>> /\ pending # <<>>
        /\ pending' = Tail(pending) /\ EnableTask(n)
        /\ cmdline' = cmdline /\ task_order' = task_order /\ task_list' = task_list
    BY <1>5 DEF NotifyOption
  <2>2. PendingIsRest' /\ n \in Name /\ Consumed' = Append(Consumed, n)
    BY <1>1, <2>1, ConsumedNext
  <2>3. Registered(n)
    <3>1. 1 \in DOMAIN pending /\ n = pending[1]
      BY <1>1, <2>1 DEF TypeOK
    <3> QED  BY <1>1, <2>1, <3>1 DEF UnknownInv, OptionsFirst
  <2> HIDE DEF n
  <2>4. /\ \A k \in DOMAIN stack' : Justified(stack'[k], task_list')
        /\ \A rank \in Ranks : IsRank(rank, task_list) => RanksDecrease(rank, stack')
        /\ \A m : OnStack(m, stack') <=> OnStack(m, stack) \/ m = n
    BY <2>1, <2>2, <2>3, PushDemand
  <2>5. ASSUME Acyclic, NEW m \in Name PROVE Room(m, stack', task_order', Consumed')
    <3>1. Count(m, task_order) <= Count(m, Consumed) + 1
      BY <1>2, <2>1, <2>5 DEF DemandInv, Room, OnStack
    <3>2. Count(m, Consumed') = IF n = m THEN Count(m, Consumed) + 1 ELSE Count(m, Consumed)
      BY <1>2, <2>2, CountAppend
    <3>3. OnStack(m, stack') <=> m = n
      BY <2>1, <2>4 DEF OnStack
    <3> QED  BY <1>2, <2>1, <3>1, <3>2, <3>3 DEF Room
  <2>6. Acyclic' <=> Acyclic
    BY <2>1 DEF Acyclic, Registered, DepsOf
  <2> QED  BY <1>1, <2>1, <2>2, <2>4, <2>5, <2>6 DEF DemandInv
<1>6. CASE SkipDep
  <2>1. /\ DOMAIN stack' = DOMAIN stack
        /\ \A k \in DOMAIN stack : k # Len(stack) => stack'[k] = stack[k]
        /\ stack'[Len(stack)] = [task |-> Top.task, deps |-> Tail(Top.deps)]
        /\ \A k \in DOMAIN stack : stack'[k].task = stack[k].task
    BY <1>1, <1>6, SkipDepStack, SkipDepTasks
  <2>2. /\ stack # <<>> /\ Top.deps # <<>> /\ phase' = phase /\ phase \in {"parsing", "defaulting"}
        /\ UNCHANGED <<cmdline, pending, task_order, task_list>>
    BY <1>6 DEF SkipDep
  <2>3. /\ Top.deps \in Seq(Name) /\ Tail(Top.deps) \in Seq(Name)
        /\ Len(stack) \in DOMAIN stack
    BY <1>1, <2>2, TopType, RangeTail
  <2>4. Range(Tail(Top.deps)) \subseteq Range(Top.deps)
    BY <2>2, <2>3 DEF Range
  <2>5. ASSUME NEW k \in DOMAIN stack' PROVE Justified(stack'[k], task_list')
    <3>1. Justified(stack[k], task_list)
      BY <2>1, <2>5 DEF DemandInv
    <3>2. Range(stack'[k].deps) \subseteq Range(stack[k].deps) /\ stack'[k].task = stack[k].task
      <4>1. CASE k = Len(stack)
        <5>1. stack'[k].deps = Tail(Top.deps) /\ stack'[k].task = Top.task
          BY <2>1, <4>1
        <5>2. stack[k] = Top
          BY <4>1 DEF Top
        <5> QED  BY <2>4, <5>1, <5>2, Zenon
      <4>2. CASE k # Len(stack)
        BY <2>1, <2>5, <4>2
      <4> QED  BY <4>1, <4>2
    <3> QED  BY <2>2, <3>1, <3>2 DEF Justified, Registered, DepsOf
  <2>6. \A rank : RanksDecrease(rank, stack) => RanksDecrease(rank, stack')
    BY <2>1 DEF RanksDecrease
  <2>7. \A m : OnStack(m, stack') <=> OnStack(m, stack)
    BY <2>1 DEF OnStack
  <2>8. \A m : Room(m, stack, task_order, Consumed) => Room(m, stack', task_order', Consumed')
    BY <2>2, <2>7 DEF Room, Consumed
  <2>9. Acyclic' <=> Acyclic
    BY <2>2 DEF Acyclic, Registered, DepsOf
  <2>10. PendingIsRest'
    BY <1>1, <2>2 DEF PendingIsRest
  <2> QED  BY <1>1, <2>2, <2>5, <2>6, <2>8, <2>9, <2>10 DEF DemandInv
<1>7. CASE ActivateDep
  <2> DEFINE n == Head(Top.deps)
  <2>1. /\ stack # <<>> /\ Top.deps # <<>> /\ EnableTask(n) /\ Registered(n) /\ ~Scheduled(n)
        /\ phase' = phase /\ phase \in {"parsing", "defaulting"}
        /\ UNCHANGED <<cmdline, pending, task_order, task_list>>
    BY <1>7 DEF ActivateDep, Settled
  <2>2. n \in Name
    BY <1>1, <2>1, TopType, RangeTail
  <2>3. stack = <<>> \/ (Top.deps # <<>> /\ n = Head(Top.deps))
    BY <2>1
  <2> HIDE DEF n
  <2>4. /\ \A k \in DOMAIN stack' : Justified(stack'[k], task_list')
        /\ \A rank \in Ranks : IsRank(rank, task_list) => RanksDecrease(rank, stack')
        /\ \A m : OnStack(m, stack') <=> OnStack(m, stack) \/ m = n
    BY <2>1, <2>2, <2>3, PushDemand
  <2>5. Consumed' = Consumed /\ PendingIsRest'
    BY <1>1, <2>1 DEF Consumed, PendingIsRest
  <2>6. ASSUME Acyclic, NEW m \in Name PROVE Room(m, stack', task_order', Consumed')
    <3>1. CASE m = n
      <4>1. Count(m, task_order) = 0
        BY <1>2, <2>1, <3>1, CountNone DEF Scheduled
      <4> QED  BY <1>2, <2>1, <2>4, <2>5, <3>1, <4>1 DEF Room
    <3>2. CASE m # n
      <4>1. Room(m, stack, task_order, Consumed)
        BY <2>6 DEF DemandInv
      <4> QED  BY <2>1, <2>4, <2>5, <3>2, <4>1 DEF Room
    <3> QED  BY <3>1, <3>2
  <2>7. Acyclic' <=> Acyclic
    BY <2>1 DEF Acyclic, Registered, DepsOf
  <2> QED  BY <1>1, <2>1, <2>4, <2>5, <2>6, <2>7 DEF DemandInv
<1>8. CASE AppendTask
  <2>1. /\ stack # <<>> /\ phase \in {"parsing", "defaulting"} /\ phase' = phase
        /\ task_order' = Append(task_order, Top.task) /\ stack' = Pop
        /\ UNCHANGED <<cmdline, pending, task_list>>
    BY <1>8 DEF AppendTask
  <2>2. /\ Top.task \in Name /\ Len(stack) \in DOMAIN stack /\ Len(stack) \in Nat
        /\ \A k \in DOMAIN Pop : k \in DOMAIN stack /\ Pop[k] = stack[k]
    BY <1>1, <2>1, TopType
  <2>3. DOMAIN Pop = 1..(Len(stack) - 1) /\ DOMAIN stack = 1..Len(stack)
    <3>1. Len(stack) - 1 \in 0..Len(stack)
      BY <1>2, <2>1
    <3>2. Pop \in Seq(Frame) /\ Len(Pop) = Len(stack) - 1
      BY <1>2, <3>1, FirstOnes DEF Pop
    <3> QED  BY <1>2, <3>2
  <2>4. Consumed' = Consumed /\ PendingIsRest'
    BY <1>1, <2>1 DEF Consumed, PendingIsRest
  <2>5. \A k \in DOMAIN stack' : Justified(stack'[k], task_list')
    BY <2>1, <2>2 DEF DemandInv, Justified, Registered, DepsOf
  <2>6. \A rank : RanksDecrease(rank, stack) => RanksDecrease(rank, stack')
    BY <2>1, <2>2 DEF RanksDecrease
  <2>7. Acyclic' <=> Acyclic
    BY <2>1 DEF Acyclic, Registered, DepsOf
  <2>8. ASSUME Acyclic, NEW m \in Name PROVE Room(m, stack', task_order', Consumed')
    <3>1. Room(m, stack, task_order, Consumed)
      BY <2>8 DEF DemandInv
    <3>2. Count(m, task_order') = IF Top.task = m THEN Count(m, task_order) + 1
                                                  ELSE Count(m, task_order)
      BY <1>2, <2>1, <2>2, CountAppend
    <3>3. CASE Top.task = m
      <4>1. OnStack(m, stack)
        BY <2>2, <3>3 DEF OnStack, Top
      <4>2. ~OnStack(m, stack')
        <5> SUFFICES ASSUME NEW k \in DOMAIN Pop, Pop[k].task = m PROVE FALSE
          BY <2>1 DEF OnStack
        <5>1. k \in DOMAIN stack /\ stack[k].task = m /\ k < Len(stack)
          BY <2>2, <2>3
        <5>2. PICK rank \in Ranks : IsRank(rank, task_list)
          BY <2>8, AcyclicHasRank
        <5>3. rank[m] < rank[m]
          BY <2>2, <3>3, <5>1, <5>2 DEF DemandInv, RanksDecrease, Top
        <5>4. rank[m] \in Int
          BY <2>8, RankIsInt
        <5> QED  BY <5>3, <5>4
      <4> QED  BY <1>2, <2>4, <3>1, <3>2, <3>3, <4>1, <4>2 DEF Room
    <3>4. CASE Top.task # m
      <4>1. OnStack(m, stack') <=> OnStack(m, stack)
        <5>1. \A k \in DOMAIN stack : stack[k].task = m => k \in DOMAIN Pop
          BY <2>2, <2>3, <3>4 DEF Top
        <5> QED  BY <2>1, <2>2, <5>1 DEF OnStack
      <4> QED  BY <2>4, <3>1, <3>2, <3>4, <4>1 DEF Room
    <3> QED  BY <3>3, <3>4
  <2> QED  BY <1>1, <2>1, <2>4, <2>5, <2>6, <2>7, <2>8 DEF DemandInv
<1>9. CASE OverflowStack
  BY <1>1, <1>9, DemandStays DEF OverflowStack
<1>10. CASE EndOfOptions
  <2>1. /\ phase = "parsing" /\ stack = <<>>
        /\ UNCHANGED <<cmdline, pending, task_order, task_list>>
    BY <1>10 DEF EndOfOptions
  <2>2. CASE stack' = stack
    BY <1>1, <2>1, <2>2, DemandStays
  <2>3. CASE task_order = <<>> /\ EnableTask(DefaultTask) /\ phase' = "defaulting" /\ Registered(DefaultTask)
    <3>1. DefaultTask \in Name
      BY TaskAssumption DEF TaskAssumption
    <3>2. /\ \A k \in DOMAIN stack' : Justified(stack'[k], task_list')
          /\ \A rank \in Ranks : IsRank(rank, task_list) => RanksDecrease(rank, stack')
      BY <2>1, <2>3, <3>1, PushDemand
    <3>3. Consumed' = Consumed /\ PendingIsRest'
      BY <1>1, <2>1 DEF Consumed, PendingIsRest
    <3>4. ASSUME NEW m \in Name PROVE Room(m, stack', task_order', Consumed')
      <4>1. Count(m, task_order) = 0
        <5>1. m \notin Range(task_order)
          BY <2>3 DEF Range
        <5> QED  BY <1>2, <5>1, CountNone
      <4> QED  BY <1>2, <2>1, <3>3, <4>1 DEF Room
    <3> QED  BY <1>1, <2>1, <2>3, <3>2, <3>3, <3>4 DEF DemandInv
  <2>4. CASE EnableTask(DefaultTask) /\ ~Registered(DefaultTask)
    BY <2>2, <2>4 DEF EnableTask
  <2> QED  BY <1>10, <2>2, <2>3, <2>4 DEF EndOfOptions
<1>11. CASE DefaultEnabled
  BY <1>1, <1>11, DemandStays DEF DefaultEnabled
<1>12. CASE EndOfTasks
  BY <1>1, <1>12, DemandStays DEF EndOfTasks, Exit
<1> QED
  BY <1>3, <1>4, <1>5, <1>6, <1>7, <1>8, <1>9, <1>10, <1>11, <1>12 DEF Schedule

LEMMA NextDemandInv == DemandInv /\ [Next]_vars => DemandInv'
<1> SUFFICES ASSUME DemandInv, [Next]_vars PROVE DemandInv'
  OBVIOUS
<1>1. UnknownInv'
  BY NextUnknownInv DEF DemandInv
<1>2. CASE Schedule
  BY <1>2, ScheduleDemandInv
<1>3. CASE ExecuteTask \/ UNCHANGED vars
  BY <1>1, <1>3, DemandStays DEF ExecuteTask, vars, DemandInv
<1>4. ASSUME NEW status \in Status, ThrowError(status) PROVE DemandInv'
  BY <1>1, <1>4, DemandStays DEF ThrowError, Exit
<1> QED  BY <1>2, <1>3, <1>4 DEF Next

\* For every acyclic table of tasks and every command line, however many paths
\* lead to a task, it is scheduled once more than the options name it at most.
THEOREM OnceMoreThanNamed == Spec => []ScheduledOnDemand
<1>1. DemandInv => ScheduledOnDemand
  <2> SUFFICES ASSUME DemandInv, Acyclic, NEW n \in Name
               PROVE  Cardinality(Occurrences(n, task_order))
                        <= Cardinality(Occurrences(n, Consumed)) + 1
    BY DEF ScheduledOnDemand
  <2>1. Room(n, stack, task_order, Consumed) /\ TypeOK /\ PendingIsRest
    BY DEF DemandInv, UnknownInv
  <2>2. Count(n, Consumed) \in Nat /\ Count(n, task_order) \in Nat
    BY <2>1, ConsumedType, CountType DEF TypeOK
  <2> QED  BY <2>1, <2>2 DEF Room, Count
<1> QED  BY <1>1, InitDemandInv, NextDemandInv, PTL DEF Spec
=============================================================================

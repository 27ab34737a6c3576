--------------------------- MODULE Pipeline_proofs ---------------------------
(***************************************************************************)
(* Proofs about the pipeline, for every order of registration of the       *)
(* shipped tasks, every command line and every program.                    *)
(***************************************************************************)
EXTENDS Pipeline, TaskRegister_proofs

-----------------------------------------------------------------------------
(* The table of tasks.                                                     *)

\* What the table says of the tasks the proofs are about.
Declared(t) ==
  /\ t.name = "parse" => t.deps = <<>>
  /\ t.name \in {"ast-display", "ast-dump", "clone", "bindings-compute"} =>
       t.deps = <<"parse">> /\ ~t.disjunctive
  /\ t.name \in {"bound", "rename", "types-compute"} =>
       t.deps = <<"bindings-compute">> /\ ~t.disjunctive
  /\ t.name = "escapes-compute" => t.deps = <<"bound">> /\ ~t.disjunctive
  /\ t.name = "desugar" => t.deps = <<"types-compute", "rename">> /\ ~t.disjunctive
  /\ t.name = "raw-desugar" => t.deps = <<"typed", "rename">> /\ ~t.disjunctive
  /\ t.name = "llvm-compute" =>
       /\ t.deps = <<"typed", "desugar-for", "desugar-string-cmp", "desugar",
                     "escapes-compute">>
       /\ ~t.disjunctive
  /\ t.name = "llvm-display" => t.deps = <<"llvm-compute">> /\ ~t.disjunctive
  /\ \A d \in Range(t.deps) : d \notin {"clone", "raw-desugar"}

\* A list of tasks made of two holds the tasks of both.
LEMMA RangeConcat ==
  ASSUME NEW S, NEW s \in Seq(S), NEW t \in Seq(S)
  PROVE  s \o t \in Seq(S) /\ Range(s \o t) = Range(s) \union Range(t)
<1>1. /\ Len(s) \in Nat /\ Len(t) \in Nat
      /\ s \o t \in Seq(S) /\ Len(s \o t) = Len(s) + Len(t)
      /\ \A i \in 1..Len(s) : (s \o t)[i] = s[i]
      /\ \A i \in 1..Len(t) : (s \o t)[Len(s) + i] = t[i]
  OBVIOUS
<1>2. Range(s \o t) \subseteq Range(s) \union Range(t)
  <2> SUFFICES ASSUME NEW i \in 1..(Len(s) + Len(t))
               PROVE  (s \o t)[i] \in Range(s) \union Range(t)
    BY <1>1 DEF Range
  <2>1. CASE i \in 1..Len(s)
    BY <1>1, <2>1 DEF Range
  <2>2. CASE i \notin 1..Len(s)
    <3>1. i - Len(s) \in 1..Len(t) /\ i = Len(s) + (i - Len(s))
      BY <1>1, <2>2
    <3> QED  BY <1>1, <3>1 DEF Range
  <2> QED  BY <2>1, <2>2
<1>3. Range(s) \subseteq Range(s \o t)
  BY <1>1 DEF Range
<1>4. Range(t) \subseteq Range(s \o t)
  <2> SUFFICES ASSUME NEW i \in 1..Len(t) PROVE t[i] \in Range(s \o t)
    BY DEF Range
  <2> DEFINE k == Len(s) + i
  <2>1. k \in 1..Len(s \o t) /\ (s \o t)[k] = t[i]
    BY <1>1
  <2> HIDE DEF k
  <2>2. k \in DOMAIN (s \o t)
    BY <1>1, <2>1
  <2> QED  BY <2>1, <2>2 DEF Range
<1> QED  BY <1>1, <1>2, <1>3, <1>4

\* Tuples of any length the table has are sequences of what they hold.
LEMMA TuplesAreSequences ==
  ASSUME NEW S, NEW a \in S, NEW b \in S, NEW c \in S, NEW d \in S, NEW e \in S,
         NEW f \in S, NEW g \in S, NEW h \in S
  PROVE  /\ <<a>> \in Seq(S) /\ <<a, b>> \in Seq(S) /\ <<a, b, c>> \in Seq(S)
         /\ <<a, b, c, d>> \in Seq(S) /\ <<a, b, c, d, e>> \in Seq(S)
         /\ <<a, b, c, d, e, f, g, h>> \in Seq(S)
OBVIOUS

\* The tasks of the groups, of which the table says what it should.
Entries == {t \in UNION {Range(TaskTasks), Range(ParseTasks), Range(AstTasks),
                          Range(AstcloneTasks), Range(BindTasks), Range(EscapesTasks),
                          Range(TypeTasks), Range(DesugarTasks),
                          Range(LlvmtranslateTasks), Range(ObjectTasks)} : Declared(t)}

\* Every group of tasks is a list of declared ones.
LEMMA GroupsAreLists ==
  /\ TaskTasks \in Seq(Entries)
  /\ ParseTasks \in Seq(Entries)
  /\ AstTasks \in Seq(Entries)
  /\ AstcloneTasks \in Seq(Entries)
  /\ BindTasks \in Seq(Entries)
  /\ EscapesTasks \in Seq(Entries)
  /\ TypeTasks \in Seq(Entries)
  /\ DesugarTasks \in Seq(Entries)
  /\ LlvmtranslateTasks \in Seq(Entries)
  /\ ObjectTasks \in Seq(Entries)
<1>1. TaskTasks \in Seq(Entries)
  <2>1. \A t \in Range(TaskTasks) : Declared(t)
    BY DEF TaskTasks, Range, Needs, NeedsOneOf, TakesArgument, Declared
  <2>2. \A i \in DOMAIN TaskTasks : TaskTasks[i] \in Entries
    BY <2>1 DEF Range, Entries
  <2> QED  BY <2>2, TuplesAreSequences DEF TaskTasks
<1>2. ParseTasks \in Seq(Entries)
  <2>1. \A t \in Range(ParseTasks) : Declared(t)
    BY DEF ParseTasks, Range, Needs, NeedsOneOf, TakesArgument, Declared
  <2>2. \A i \in DOMAIN ParseTasks : ParseTasks[i] \in Entries
    BY <2>1 DEF Range, Entries
  <2> QED  BY <2>2, TuplesAreSequences DEF ParseTasks
<1>3. AstTasks \in Seq(Entries)
  <2>1. \A t \in Range(AstTasks) : Declared(t)
    BY DEF AstTasks, Range, Needs, NeedsOneOf, TakesArgument, Declared
  <2>2. \A i \in DOMAIN AstTasks : AstTasks[i] \in Entries
    BY <2>1 DEF Range, Entries
  <2> QED  BY <2>2, TuplesAreSequences DEF AstTasks
<1>4. AstcloneTasks \in Seq(Entries)
  <2>1. \A t \in Range(AstcloneTasks) : Declared(t)
    BY DEF AstcloneTasks, Range, Needs, NeedsOneOf, TakesArgument, Declared
  <2>2. \A i \in DOMAIN AstcloneTasks : AstcloneTasks[i] \in Entries
    BY <2>1 DEF Range, Entries
  <2> QED  BY <2>2, TuplesAreSequences DEF AstcloneTasks
<1>5. BindTasks \in Seq(Entries)
  <2>1. \A t \in Range(BindTasks) : Declared(t)
    BY DEF BindTasks, Range, Needs, NeedsOneOf, TakesArgument, Declared
  <2>2. \A i \in DOMAIN BindTasks : BindTasks[i] \in Entries
    BY <2>1 DEF Range, Entries
  <2> QED  BY <2>2, TuplesAreSequences DEF BindTasks
<1>6. EscapesTasks \in Seq(Entries)
  <2>1. \A t \in Range(EscapesTasks) : Declared(t)
    BY DEF EscapesTasks, Range, Needs, NeedsOneOf, TakesArgument, Declared
  <2>2. \A i \in DOMAIN EscapesTasks : EscapesTasks[i] \in Entries
    BY <2>1 DEF Range, Entries
  <2> QED  BY <2>2, TuplesAreSequences DEF EscapesTasks
<1>7. TypeTasks \in Seq(Entries)
  <2>1. \A t \in Range(TypeTasks) : Declared(t)
    BY DEF TypeTasks, Range, Needs, NeedsOneOf, TakesArgument, Declared
  <2>2. \A i \in DOMAIN TypeTasks : TypeTasks[i] \in Entries
    BY <2>1 DEF Range, Entries
  <2> QED  BY <2>2, TuplesAreSequences DEF TypeTasks
<1>8. DesugarTasks \in Seq(Entries)
  <2>1. \A t \in Range(DesugarTasks) : Declared(t)
    BY DEF DesugarTasks, Range, Needs, NeedsOneOf, TakesArgument, Declared
  <2>2. \A i \in DOMAIN DesugarTasks : DesugarTasks[i] \in Entries
    BY <2>1 DEF Range, Entries
  <2> QED  BY <2>2, TuplesAreSequences DEF DesugarTasks
<1>9. LlvmtranslateTasks \in Seq(Entries)
  <2>1. \A t \in Range(LlvmtranslateTasks) : Declared(t)
    BY DEF LlvmtranslateTasks, Range, Needs, NeedsOneOf, TakesArgument, Declared
  <2>2. \A i \in DOMAIN LlvmtranslateTasks : LlvmtranslateTasks[i] \in Entries
    BY <2>1 DEF Range, Entries
  <2> QED  BY <2>2, TuplesAreSequences DEF LlvmtranslateTasks
<1>10. ObjectTasks \in Seq(Entries)
  <2>1. \A t \in Range(ObjectTasks) : Declared(t)
    BY DEF ObjectTasks, Range, Needs, NeedsOneOf, TakesArgument, Declared
  <2>2. \A i \in DOMAIN ObjectTasks : ObjectTasks[i] \in Entries
    BY <2>1 DEF Range, Entries
  <2> QED  BY <2>2, TuplesAreSequences DEF ObjectTasks
<1> QED  BY <1>1, <1>2, <1>3, <1>4, <1>5, <1>6, <1>7, <1>8, <1>9, <1>10

\* The tasks others depend on.
Needed == {"parse", "bindings-compute", "bound", "rename", "types-compute",
           "escapes-compute", "desugar", "llvm-compute"}

\* The whole table: what it declares, and that it has the needed tasks.
LEMMA TheTable ==
  /\ \A t \in Range(Build) : Declared(t)
  /\ \A n \in Needed : \E t \in Range(Build) : t.name = n
<1> DEFINE b1 == TaskTasks \o ParseTasks
           b2 == b1 \o AstTasks
           b3 == b2 \o AstcloneTasks
           b4 == b3 \o BindTasks
           b5 == b4 \o EscapesTasks
           b6 == b5 \o TypeTasks
           b7 == b6 \o DesugarTasks
           b8 == b7 \o LlvmtranslateTasks
           b9 == b8 \o ObjectTasks
<1>0. Build = b9
  BY DEF Build
<1> HIDE DEF b1, b2, b3, b4, b5, b6, b7, b8, b9
<1>1. b1 \in Seq(Entries) /\ Range(b1) = Range(TaskTasks) \union Range(ParseTasks)
  BY GroupsAreLists, RangeConcat DEF b1
<1>2. b2 \in Seq(Entries) /\ Range(b2) = Range(b1) \union Range(AstTasks)
  BY <1>1, GroupsAreLists, RangeConcat DEF b2
<1>3. b3 \in Seq(Entries) /\ Range(b3) = Range(b2) \union Range(AstcloneTasks)
  BY <1>2, GroupsAreLists, RangeConcat DEF b3
<1>4. b4 \in Seq(Entries) /\ Range(b4) = Range(b3) \union Range(BindTasks)
  BY <1>3, GroupsAreLists, RangeConcat DEF b4
<1>5. b5 \in Seq(Entries) /\ Range(b5) = Range(b4) \union Range(EscapesTasks)
  BY <1>4, GroupsAreLists, RangeConcat DEF b5
<1>6. b6 \in Seq(Entries) /\ Range(b6) = Range(b5) \union Range(TypeTasks)
  BY <1>5, GroupsAreLists, RangeConcat DEF b6
<1>7. b7 \in Seq(Entries) /\ Range(b7) = Range(b6) \union Range(DesugarTasks)
  BY <1>6, GroupsAreLists, RangeConcat DEF b7
<1>8. b8 \in Seq(Entries) /\ Range(b8) = Range(b7) \union Range(LlvmtranslateTasks)
  BY <1>7, GroupsAreLists, RangeConcat DEF b8
<1>9. b9 \in Seq(Entries) /\ Range(b9) = Range(b8) \union Range(ObjectTasks)
  BY <1>8, GroupsAreLists, RangeConcat DEF b9
<1>10. Range(Build) \subseteq Entries
  BY <1>0, <1>9 DEF Range
<1>11. Range(ParseTasks) \union Range(BindTasks) \union Range(EscapesTasks)
         \union Range(TypeTasks) \union Range(DesugarTasks)
         \union Range(LlvmtranslateTasks) \subseteq Range(Build)
  BY <1>0, <1>1, <1>2, <1>3, <1>4, <1>5, <1>6, <1>7, <1>8, <1>9
<1>12. ASSUME NEW n \in Needed PROVE \E t \in Range(Build) : t.name = n
  <2>1. CASE n = "parse"
    <3>1. 5 \in 1..Len(ParseTasks) /\ ParseTasks[5].name = n
      BY <2>1 DEF ParseTasks, Needs
    <3> QED  BY <1>11, <3>1, GroupsAreLists, RangeInSet
  <2>2. CASE n = "bindings-compute"
    <3>1. 1 \in 1..Len(BindTasks) /\ BindTasks[1].name = n
      BY <2>2 DEF BindTasks, Needs
    <3> QED  BY <1>11, <3>1, GroupsAreLists, RangeInSet
  <2>3. CASE n = "bound"
    <3>1. 3 \in 1..Len(BindTasks) /\ BindTasks[3].name = n
      BY <2>3 DEF BindTasks, Needs
    <3> QED  BY <1>11, <3>1, GroupsAreLists, RangeInSet
  <2>4. CASE n = "rename"
    <3>1. 4 \in 1..Len(BindTasks) /\ BindTasks[4].name = n
      BY <2>4 DEF BindTasks, Needs
    <3> QED  BY <1>11, <3>1, GroupsAreLists, RangeInSet
  <2>5. CASE n = "types-compute"
    <3>1. 2 \in 1..Len(TypeTasks) /\ TypeTasks[2].name = n
      BY <2>5 DEF TypeTasks, Needs
    <3> QED  BY <1>11, <3>1, GroupsAreLists, RangeInSet
  <2>7. CASE n = "escapes-compute"
    <3>1. 1 \in 1..Len(EscapesTasks) /\ EscapesTasks[1].name = n
      BY <2>7 DEF EscapesTasks, Needs
    <3> QED  BY <1>11, <3>1, GroupsAreLists, RangeInSet
  <2>8. CASE n = "desugar"
    <3>1. 4 \in 1..Len(DesugarTasks) /\ DesugarTasks[4].name = n
      BY <2>8 DEF DesugarTasks, Needs
    <3> QED  BY <1>11, <3>1, GroupsAreLists, RangeInSet
  <2>9. CASE n = "llvm-compute"
    <3>1. 1 \in 1..Len(LlvmtranslateTasks) /\ LlvmtranslateTasks[1].name = n
      BY <2>9 DEF LlvmtranslateTasks, Needs
    <3> QED  BY <1>11, <3>1, GroupsAreLists, RangeInSet
  <2> QED  BY <2>1, <2>2, <2>3, <2>4, <2>5, <2>7, <2>8, <2>9 DEF Needed
<1> QED  BY <1>10, <1>12 DEF Entries

-----------------------------------------------------------------------------
(* The tasks the register holds and schedules.                             *)

\* The register holds nothing but tasks of the table, each under its name, and all
\* of them once the constructors have run.
TableInv ==
  /\ DemandInv
  /\ SearchInv
  /\ Range(Build) \subseteq Task
  /\ Range(unbuilt) \subseteq Range(Build)
  /\ \A n \in Name : Registered(n) => task_list[n] \in Range(Build) /\ task_list[n].name = n
  /\ \A t \in Range(Build) : t \in Range(unbuilt) \/ Registered(t.name)
  /\ phase # "registering" => unbuilt = <<>>
  /\ \A i \in DOMAIN task_order : Registered(task_order[i])

LEMMA InitTableInv == Init => TableInv
<1> SUFFICES ASSUME Init PROVE TableInv
  OBVIOUS
<1>1. DemandInv /\ SearchInv
  BY InitDemandInv, InitSearchInv
<1>2. Range(unbuilt) = Range(Build) /\ Range(Build) \subseteq Task
  <2>1. unbuilt \in Seq(Task) /\ Range(unbuilt) = Range(Build)
    BY TaskAssumption, PipelineAssumption DEF Init, TaskAssumption, PipelineAssumption
  <2> QED  BY <2>1, RangeInSet
<1>3. /\ \A n \in Name : ~Registered(n)
      /\ phase = "registering" /\ DOMAIN task_order = {}
  BY DEF Init, Registered
<1> QED  BY <1>1, <1>2, <1>3 DEF TableInv

\* Once the table is built, what the steps leave alone is all that matters.
LEMMA TableStays ==
  ASSUME TableInv, DemandInv', SearchInv', phase # "registering", phase' # "registering",
         UNCHANGED <<unbuilt, task_list>>,
         task_order' = task_order \/ (stack # <<>> /\ task_order' = Append(task_order, Top.task))
  PROVE  TableInv'
<1>1. TypeOK /\ task_order \in Seq(Name) /\ task_order' \in Seq(Name)
  BY DEF TableInv, SearchInv, TypeOK
<1>2. \A n : Registered(n)' <=> Registered(n)
  BY DEF Registered
<1>3. ASSUME NEW i \in DOMAIN task_order' PROVE Registered(task_order'[i])
  <2>1. CASE task_order' = task_order
    BY <1>3, <2>1 DEF TableInv
  <2>2. CASE stack # <<>> /\ task_order' = Append(task_order, Top.task)
    <3>1. Len(stack) \in DOMAIN stack /\ Top = stack[Len(stack)] /\ Top.task \in Name
      BY <1>1, <2>2, TopType DEF Top
    <3>2. Registered(Top.task)
      BY <3>1 DEF TableInv, DemandInv, Justified, Registered
    <3>3. i \in 1..(Len(task_order) + 1) /\ Len(task_order) \in Nat
      BY <1>1, <1>3, <2>2, <3>1
    <3>4. CASE i \in 1..Len(task_order)
      <4>1. task_order'[i] = task_order[i] /\ i \in DOMAIN task_order
        BY <1>1, <2>2, <3>1, <3>4
      <4> QED  BY <4>1 DEF TableInv
    <3>5. CASE i = Len(task_order) + 1
      BY <1>1, <2>2, <3>1, <3>2, <3>5
    <3> QED  BY <3>3, <3>4, <3>5
  <2> QED  BY <2>1, <2>2
<1>4. \A n \in Name : Registered(n)' => task_list'[n] \in Range(Build) /\ task_list'[n].name = n
  BY <1>2 DEF TableInv
<1>5. \A t \in Range(Build) : t \in Range(unbuilt') \/ Registered(t.name)'
  BY <1>2 DEF TableInv
<1>6. Range(unbuilt') \subseteq Range(Build) /\ unbuilt' = <<>>
  BY DEF TableInv
<1>7. \A i \in DOMAIN task_order' : Registered(task_order[i])'
  BY <1>2, <1>3
<1> QED  BY <1>4, <1>5, <1>6, <1>7 DEF TableInv

\* A task is entered in the register under its own name, if the name is free.
LEMMA RegisterTable == TableInv /\ RegisterTask => TableInv'
<1> SUFFICES ASSUME TableInv, RegisterTask PROVE TableInv'
  OBVIOUS
<1>1. DemandInv' /\ SearchInv'
  BY ScheduleDemandInv, ScheduleSearchInv DEF Schedule, TableInv
<1>2. /\ phase = "registering" /\ phase' = phase /\ unbuilt # <<>>
      /\ unbuilt' = Tail(unbuilt) /\ unbuilt \in Seq(Task)
      /\ task_order = <<>> /\ task_order' = <<>>
      /\ task_list \in [Name -> Task \union {NoTask}]
  BY DEF RegisterTask, TableInv, SearchInv, TypeOK
<1> DEFINE t == Head(unbuilt)
<1>3. /\ t \in Task /\ t.name \in Name /\ t \in Range(Build) /\ t # NoTask
      /\ Range(Tail(unbuilt)) \subseteq Range(unbuilt)
      /\ Range(unbuilt) \subseteq Range(Tail(unbuilt)) \union {t}
  <2>1. t \in Task /\ Range(unbuilt) \subseteq Range(Tail(unbuilt)) \union {t}
    BY <1>2, RangeTail
  <2>2. 1 \in 1..Len(unbuilt) /\ t = unbuilt[1]
    BY <1>2
  <2>3. t \in Range(unbuilt)
    BY <1>2, <2>2, RangeInSet
  <2>4. Range(Tail(unbuilt)) \subseteq Range(unbuilt)
    BY <1>2 DEF Range
  <2> QED  BY <2>1, <2>3, <2>4, TaskAssumption DEF TableInv, Task, TaskAssumption
<1>4. \/ Registered(t.name) /\ task_list' = task_list
      \/ ~Registered(t.name) /\ task_list' = [task_list EXCEPT ![t.name] = t]
  BY DEF RegisterTask
<1> HIDE DEF t
<1>5. /\ \A n \in Name : n # t.name => task_list'[n] = task_list[n]
      /\ \/ task_list'[t.name] = task_list[t.name] /\ Registered(t.name)
         \/ task_list'[t.name] = t
  BY <1>2, <1>3, <1>4
<1>6. ASSUME NEW n \in Name, Registered(n)'
      PROVE  task_list'[n] \in Range(Build) /\ task_list'[n].name = n
  BY <1>3, <1>5, <1>6 DEF TableInv, Registered
<1>7. ASSUME NEW u \in Range(Build) PROVE u \in Range(unbuilt') \/ Registered(u.name)'
  <2>1. CASE u \in Range(unbuilt)
    BY <1>2, <1>3, <1>5, <2>1 DEF Registered
  <2>2. CASE Registered(u.name)
    <3>1. u.name \in Name
      BY <1>7 DEF TableInv, Task
    <3> QED  BY <1>3, <1>5, <2>2, <3>1 DEF Registered
  <2> QED  BY <1>7, <2>1, <2>2 DEF TableInv
<1>8. Range(unbuilt') \subseteq Range(Build) /\ DOMAIN task_order' = {}
  BY <1>2, <1>3 DEF TableInv
<1> QED  BY <1>1, <1>2, <1>6, <1>7, <1>8 DEF TableInv

LEMMA ScheduleTable == TableInv /\ Schedule => TableInv'
<1> SUFFICES ASSUME TableInv, Schedule PROVE TableInv'
  OBVIOUS
<1>1. DemandInv' /\ SearchInv'
  BY ScheduleDemandInv, ScheduleSearchInv DEF TableInv
<1>2. CASE RegisterTask
  BY <1>2, RegisterTable
<1>3. CASE ParseCommandLine
  <2>1. /\ unbuilt = <<>> /\ phase' # "registering"
        /\ UNCHANGED <<unbuilt, task_list, task_order>>
    BY <1>3 DEF ParseCommandLine, Exit
  <2> QED  BY <1>1, <2>1 DEF TableInv, Registered
<1>4. CASE NotifyOption \/ SkipDep \/ ActivateDep \/ AppendTask \/ OverflowStack
  BY <1>1, <1>4, TableStays
     DEF NotifyOption, SkipDep, ActivateDep, AppendTask, OverflowStack
<1>5. CASE EndOfOptions \/ DefaultEnabled \/ EndOfTasks
  BY <1>1, <1>5, TableStays DEF EndOfOptions, DefaultEnabled, EndOfTasks, Exit
<1> QED  BY <1>2, <1>3, <1>4, <1>5 DEF Schedule

-----------------------------------------------------------------------------
(* What the options keep.  Without an option that replaces the tree, none  *)
(* of the tasks that replace it is scheduled but one parse; without any    *)
(* option, nothing else is.                                                *)

Renewing == {"clone", "raw-desugar"}

\* Nothing that replaces the tree but one parse, which is not scheduled while it
\* is enabled.
Kept(frames, order) ==
  /\ \A k \in DOMAIN frames : frames[k].task \notin Renewing
  /\ \A i \in DOMAIN order : order[i] \notin Renewing
  /\ \A i, j \in DOMAIN order : order[i] = "parse" /\ order[j] = "parse" => i = j
  /\ \A k \in DOMAIN frames :
       frames[k].task = "parse" => k = Len(frames) /\ "parse" \notin Range(order)

\* What the default task leaves to execute.
OnlyParse(frames, order) ==
  /\ \A k \in DOMAIN frames : frames[k].task = "parse"
  /\ \A i \in DOMAIN order : order[i] = "parse"

OptionsInv ==
  /\ ~Renews => Kept(stack, task_order)
  /\ cmdline.options = <<>> => OnlyParse(stack, task_order)
  /\ phase \in {"defaulting", "executing"} => task_error = Success

\* A frame more on the stack.
LEMMA PushKeeps ==
  ASSUME NEW frames \in Seq(Frame), NEW f \in Frame, NEW order \in Seq(Name)
  PROVE  /\ Kept(frames, order) /\ f.task \notin Renewing
            /\ (\A k \in DOMAIN frames : frames[k].task # "parse")
            /\ (f.task = "parse" => "parse" \notin Range(order))
              => Kept(Append(frames, f), order)
         /\ OnlyParse(frames, order) /\ f.task = "parse"
              => OnlyParse(Append(frames, f), order)
<1> DEFINE t == Append(frames, f)
<1>1. /\ DOMAIN frames = 1..Len(frames) /\ DOMAIN t = 1..(Len(frames) + 1)
      /\ Len(t) = Len(frames) + 1 /\ Len(frames) \in Nat
      /\ \A k \in 1..Len(frames) : t[k] = frames[k]
      /\ t[Len(frames) + 1] = f
  OBVIOUS
<1> HIDE DEF t
<1>2. \A k \in DOMAIN t : \/ t[k] = f /\ k = Len(t)
                          \/ k \in DOMAIN frames /\ t[k] = frames[k]
  BY <1>1
<1>3. ASSUME Kept(frames, order), f.task \notin Renewing,
             \A k \in DOMAIN frames : frames[k].task # "parse",
             f.task = "parse" => "parse" \notin Range(order)
      PROVE  Kept(t, order)
  BY <1>2, <1>3 DEF Kept
<1>4. ASSUME OnlyParse(frames, order), f.task = "parse" PROVE OnlyParse(t, order)
  BY <1>2, <1>4 DEF OnlyParse
<1> QED  BY <1>3, <1>4 DEF t

\* The innermost frame returns, having scheduled its task.
LEMMA ReturnKeeps ==
  ASSUME NEW frames \in Seq(Frame), frames # <<>>, NEW order \in Seq(Name),
         NEW rest \in Seq(Frame), Len(rest) = Len(frames) - 1,
         \A k \in DOMAIN rest : k \in DOMAIN frames /\ rest[k] = frames[k],
         NEW n \in Name, n = frames[Len(frames)].task
  PROVE  /\ Kept(frames, order) => Kept(rest, Append(order, n))
         /\ OnlyParse(frames, order) => OnlyParse(rest, Append(order, n))
<1> DEFINE t == Append(order, n)
<1>1. /\ DOMAIN order = 1..Len(order) /\ DOMAIN t = 1..(Len(order) + 1)
      /\ Len(order) \in Nat
      /\ \A i \in 1..Len(order) : t[i] = order[i]
      /\ t[Len(order) + 1] = n
      /\ Len(frames) \in DOMAIN frames /\ Len(frames) \notin DOMAIN rest
  OBVIOUS
<1> HIDE DEF t
<1>2. \A i \in DOMAIN t : \/ t[i] = n /\ i = Len(order) + 1
                          \/ i \in DOMAIN order /\ t[i] = order[i]
  BY <1>1
<1>3. ASSUME Kept(frames, order) PROVE Kept(rest, t)
  <2>1. \A k \in DOMAIN rest : rest[k].task \notin Renewing /\ rest[k].task # "parse"
    BY <1>1, <1>3 DEF Kept
  <2>2. \A i \in DOMAIN t : t[i] \notin Renewing
    BY <1>1, <1>2, <1>3 DEF Kept
  <2>3. \A i \in DOMAIN order : n = "parse" => order[i] # "parse"
    BY <1>1, <1>3 DEF Kept, Range
  <2>4. \A i, j \in DOMAIN t : t[i] = "parse" /\ t[j] = "parse" => i = j
    BY <1>2, <1>3, <2>3 DEF Kept
  <2> QED  BY <2>1, <2>2, <2>4 DEF Kept
<1>4. ASSUME OnlyParse(frames, order) PROVE OnlyParse(rest, t)
  BY <1>1, <1>2, <1>4 DEF OnlyParse
<1> QED  BY <1>3, <1>4 DEF t
\* What the innermost frame still has to activate.
LEMMA HeadOfTop ==
  ASSUME TableInv, stack # <<>>, Top.deps # <<>>
  PROVE  /\ Head(Top.deps) \in Name /\ Head(Top.deps) \notin Renewing
         /\ Top.task # "parse" /\ Len(stack) \in DOMAIN stack
<1>1. TypeOK /\ Len(stack) \in DOMAIN stack /\ Top = stack[Len(stack)]
      /\ Top.task \in Name /\ Top.deps \in Seq(Name)
  BY TopType DEF TableInv, SearchInv, Top
<1>2. Head(Top.deps) \in Name /\ Head(Top.deps) \in Range(Top.deps)
  <2>1. 1 \in 1..Len(Top.deps) /\ Head(Top.deps) = Top.deps[1]
    BY <1>1
  <2> QED  BY <1>1, <2>1, RangeInSet
<1>3. Justified(Top, task_list) /\ Registered(Top.task)
  BY <1>1 DEF TableInv, DemandInv, Justified, Registered
<1>4. Head(Top.deps) \in Range(task_list[Top.task].deps)
  BY <1>2, <1>3 DEF Justified
<1>5. Declared(task_list[Top.task]) /\ task_list[Top.task].name = Top.task
  BY <1>1, <1>3, TheTable DEF TableInv
<1>6. Head(Top.deps) \notin Renewing
  BY <1>4, <1>5 DEF Declared, Renewing
<1>7. Top.task # "parse"
  BY <1>4, <1>5 DEF Declared, Range
<1> QED  BY <1>1, <1>2, <1>6, <1>7

LEMMA InitOptions == Init => OptionsInv
BY DEF Init, OptionsInv, Kept, OnlyParse, Range

\* The frame enable_task(n) pushes, if n is registered.
LEMMA EnableKeeps ==
  ASSUME TypeOK, NEW n \in Name, EnableTask(n), Registered(n)
  PROVE  \E f \in Frame : f.task = n /\ stack \in Seq(Frame) /\ stack' = Append(stack, f)
<1>1. [task |-> n, deps |-> DepsToActivate(n)] \in Frame /\ stack \in Seq(Frame)
  BY DepsType DEF Frame, TypeOK
<1> QED  BY <1>1 DEF EnableTask

LEMMA ScheduleOptions == TableInv /\ OptionsInv /\ Schedule => OptionsInv'
<1> SUFFICES ASSUME TableInv, OptionsInv, Schedule PROVE OptionsInv'
  OBVIOUS
<1>1. /\ TypeOK /\ TypeOK' /\ PendingIsRest /\ OptionsFirst
      /\ stack \in Seq(Frame) /\ task_order \in Seq(Name)
      /\ pending \in Seq(Name) /\ cmdline.options \in Seq(Name)
  BY ScheduleTypeOK DEF TableInv, SearchInv, DemandInv, UnknownInv, TypeOK, CommandLine
<1>2. cmdline' = cmdline /\ (Renews' <=> Renews)
  BY DEF Schedule, RegisterTask, ParseCommandLine, NotifyOption, SkipDep, ActivateDep,
         AppendTask, OverflowStack, EndOfOptions, DefaultEnabled, EndOfTasks, Renews
<1>3. CASE RegisterTask \/ ParseCommandLine \/ OverflowStack \/ DefaultEnabled \/ EndOfTasks
  BY <1>2, <1>3 DEF RegisterTask, ParseCommandLine, OverflowStack, DefaultEnabled,
                    EndOfTasks, Exit, OptionsInv
<1>4. CASE NotifyOption
  <2> DEFINE n == Head(pending)
  <2>1. /\ phase = "parsing" /\ phase' = phase /\ stack = <<>> /\ pending # <<>>
        /\ EnableTask(n) /\ task_order' = task_order
    BY <1>4 DEF NotifyOption
  <2>2. /\ n \in Name /\ 1 \in DOMAIN pending /\ n = pending[1]
        /\ Len(cmdline.options) - Len(pending) + 1 \in DOMAIN cmdline.options
    BY <1>1, <2>1 DEF PendingIsRest
  <2>3. n = cmdline.options[Len(cmdline.options) - Len(pending) + 1] /\ Registered(n)
    BY <1>1, <2>1, <2>2 DEF PendingIsRest, OptionsFirst
  <2>4. cmdline.options # <<>>
    BY <2>2
  <2>5. ~Renews => n \notin Renewing /\ n # "parse"
    BY <2>2, <2>3 DEF Renews, Renewing
  <2> HIDE DEF n
  <2>6. PICK f \in Frame : f.task = n /\ stack' = Append(stack, f)
    BY <1>1, <2>1, <2>2, <2>3, EnableKeeps
  <2>7. ASSUME ~Renews PROVE Kept(stack', task_order')
    <3>1. /\ Kept(stack, task_order) /\ f.task \notin Renewing /\ f.task # "parse"
          /\ \A k \in DOMAIN stack : stack[k].task # "parse"
      BY <2>1, <2>5, <2>6, <2>7 DEF OptionsInv
    <3>2. Kept(Append(stack, f), task_order)
      BY <1>1, <3>1, PushKeeps
    <3> QED  BY <2>1, <2>6, <3>2
  <2> QED  BY <1>2, <2>1, <2>4, <2>7 DEF OptionsInv
<1>5. CASE SkipDep
  <2>1. /\ UNCHANGED <<task_order, task_error, phase>>
        /\ DOMAIN stack' = DOMAIN stack /\ Len(stack') = Len(stack)
        /\ \A k \in DOMAIN stack : stack'[k].task = stack[k].task
    <3>1. /\ stack' \in Seq(Frame) /\ DOMAIN stack' = DOMAIN stack
          /\ UNCHANGED <<task_order, task_error, phase>>
      BY <1>1, <1>5, SkipDepStack DEF SkipDep
    <3>2. \A k \in DOMAIN stack : stack'[k].task = stack[k].task
      BY <1>1, <1>5, SkipDepTasks
    <3>3. Len(stack') = Len(stack)
      BY <1>1, <3>1
    <3> QED  BY <3>1, <3>2, <3>3
  <2>2. Kept(stack, task_order) => Kept(stack', task_order')
    BY <2>1 DEF Kept
  <2>3. OnlyParse(stack, task_order) => OnlyParse(stack', task_order')
    BY <2>1 DEF OnlyParse
  <2> QED  BY <1>2, <2>1, <2>2, <2>3 DEF OptionsInv
<1>6. CASE ActivateDep
  <2> DEFINE n == Head(Top.deps)
  <2>1. /\ stack # <<>> /\ Top.deps # <<>> /\ EnableTask(n) /\ Registered(n)
        /\ "parse" = n => "parse" \notin Range(task_order)
        /\ UNCHANGED <<task_order, phase>> /\ phase \in {"parsing", "defaulting"}
    BY <1>6 DEF ActivateDep, Settled, Scheduled
  <2>2. n \in Name /\ n \notin Renewing /\ Top.task # "parse" /\ Len(stack) \in DOMAIN stack
    BY <2>1, HeadOfTop
  <2> HIDE DEF n
  <2>3. cmdline.options # <<>> /\ phase # "defaulting"
    <3>1. cmdline.options # <<>>
      BY <2>2 DEF OptionsInv, OnlyParse, Top
    <3> QED  BY <1>1, <3>1 DEF OptionsFirst
  <2>4. PICK f \in Frame : f.task = n /\ stack' = Append(stack, f)
    BY <1>1, <2>1, <2>2, EnableKeeps
  <2>5. ~Renews => Kept(stack', task_order')
    <3>1. ~Renews => \A k \in DOMAIN stack : stack[k].task # "parse"
      BY <2>2 DEF OptionsInv, Kept, Top
    <3> QED  BY <1>1, <2>1, <2>2, <2>4, <3>1, PushKeeps DEF OptionsInv
  <2> QED  BY <1>2, <2>1, <2>3, <2>5 DEF OptionsInv
<1>7. CASE AppendTask
  <2>1. /\ stack # <<>> /\ task_order' = Append(task_order, Top.task) /\ stack' = Pop
        /\ UNCHANGED <<task_error, phase>>
    BY <1>7 DEF AppendTask
  <2>2. /\ Pop \in Seq(Frame) /\ Top.task \in Name /\ Top.task = stack[Len(stack)].task
        /\ \A k \in DOMAIN Pop : k \in DOMAIN stack /\ Pop[k] = stack[k]
    BY <1>1, <2>1, TopType DEF Top
  <2>3. Len(Pop) = Len(stack) - 1
    <3>1. Len(stack) - 1 \in 0..Len(stack)
      BY <1>1, <2>1
    <3> QED  BY <1>1, <3>1, FirstOnes DEF Pop
  <2>4. /\ Kept(stack, task_order) => Kept(stack', task_order')
        /\ OnlyParse(stack, task_order) => OnlyParse(stack', task_order')
    BY <1>1, <2>1, <2>2, <2>3, ReturnKeeps
  <2> QED  BY <1>2, <2>1, <2>4 DEF OptionsInv
<1>8. CASE EndOfOptions
  <2>1. /\ phase = "parsing" /\ stack = <<>> /\ pending = <<>> /\ task_order' = task_order
    BY <1>8 DEF EndOfOptions
  <2>2. CASE stack' = stack /\ phase' \in {"exited", "executing"} /\ task_error' = task_error
             /\ (phase' = "executing" => task_error = Success)
    BY <1>2, <2>1, <2>2 DEF OptionsInv
  <2>3. CASE /\ task_error = Success /\ task_order = <<>> /\ EnableTask(DefaultTask)
             /\ phase' = "defaulting"
    <3>1. DefaultTask = "parse" /\ "parse" \in Name
      BY TaskAssumption, PipelineAssumption DEF TaskAssumption, PipelineAssumption
    <3>2. Registered("parse") /\ ~UnknownDep("parse")
      <4>1. PICK t \in Range(Build) : t.name = "parse"
        BY TheTable DEF Needed
      <4>2. Registered("parse")
        BY <2>1, <4>1 DEF TableInv, Range
      <4>3. Declared(task_list["parse"]) /\ task_list["parse"].name = "parse"
        BY <3>1, <4>2, TheTable DEF TableInv
      <4>4. DepsOf("parse") = <<>>
        BY <4>3 DEF Declared, DepsOf
      <4> QED  BY <4>2, <4>4 DEF UnknownDep, Range
    <3>3. task_error' = Success
      BY <2>3, <3>1, <3>2 DEF EnableTask
    <3>4. PICK f \in Frame : f.task = "parse" /\ stack' = Append(stack, f)
      BY <1>1, <2>3, <3>1, <3>2, EnableKeeps
    <3>5. ~Renews => Kept(stack', task_order')
      <4>1. "parse" \notin Renewing /\ "parse" \notin Range(task_order)
            /\ \A k \in DOMAIN stack : stack[k].task # "parse"
        BY <2>1, <2>3 DEF Renewing, Range
      <4> QED  BY <1>1, <2>1, <3>4, <4>1, PushKeeps DEF OptionsInv
    <3>6. cmdline.options = <<>> => OnlyParse(stack', task_order')
      BY <1>1, <2>1, <3>4, PushKeeps DEF OptionsInv
    <3> QED  BY <1>2, <3>3, <3>5, <3>6 DEF OptionsInv
  <2> QED  BY <1>8, <2>2, <2>3 DEF EndOfOptions, Exit
<1> QED  BY <1>3, <1>4, <1>5, <1>6, <1>7, <1>8 DEF Schedule
-----------------------------------------------------------------------------
(* What comes before a task in the execution order.                        *)

\* Task n is scheduled before place i.
Earlier(n, i) == \E j \in 1..(i - 1) : task_order[j] = n

\* When the options are parsed, every static constructor has run.
LEMMA NeededAreRegistered ==
  ASSUME TableInv, phase # "registering", NEW n \in Needed PROVE Registered(n)
<1>1. PICK t \in Range(Build) : t.name = n
  BY TheTable
<1> QED  BY <1>1 DEF TableInv, Range

\* The dependencies the table declares come before the task, directly ...
LEMMA DepsComeBefore ==
  ASSUME TableInv, NEW i \in 1..Len(task_order)
  PROVE  LET n == task_order[i] IN
         /\ n \in {"ast-display", "ast-dump", "clone", "bindings-compute"} => Earlier("parse", i)
         /\ n \in {"bound", "rename", "types-compute"} => Earlier("bindings-compute", i)
         /\ n = "escapes-compute" => Earlier("bound", i)
         /\ n = "desugar" => Earlier("types-compute", i) /\ Earlier("rename", i)
         /\ n = "raw-desugar" => Earlier("rename", i)
         /\ n = "llvm-compute" => Earlier("desugar", i) /\ Earlier("escapes-compute", i)
         /\ n = "llvm-display" => Earlier("llvm-compute", i)
<1> DEFINE n == task_order[i]
           deps == task_list[n].deps
<1>1. phase # "registering"
  BY DEF TableInv, SearchInv
<1>2. n \in Name /\ Registered(n) /\ n = task_order[i]
  BY DEF TableInv, SearchInv, TypeOK
<1>3. Declared(task_list[n]) /\ task_list[n].name = n
  BY <1>2, TheTable DEF TableInv
<1>4. ~task_list[n].disjunctive =>
        \A d \in Range(deps) : task_list[d] # NoTask => Earlier(d, i)
  BY DEF TableInv, SearchInv, Sorted, Earlier
<1>5. ~task_list[n].disjunctive => \A d \in Range(deps) \intersect Needed : Earlier(d, i)
  BY <1>1, <1>4, NeededAreRegistered DEF Registered
<1> HIDE DEF n, deps
<1>6. \A a : deps = <<a>> => a \in Range(deps)
  BY DEF Range
<1>7. \A a, b : deps = <<a, b>> => a \in Range(deps) /\ b \in Range(deps)
  BY DEF Range
<1>8. \A a, b, c, d, e : deps = <<a, b, c, d, e>> => d \in Range(deps) /\ e \in Range(deps)
  BY DEF Range
<1>9. n \in {"ast-display", "ast-dump", "clone", "bindings-compute"} => Earlier("parse", i)
  BY <1>3, <1>5, <1>6 DEF Declared, deps, Needed
<1>10. n \in {"bound", "rename", "types-compute"} => Earlier("bindings-compute", i)
  BY <1>3, <1>5, <1>6 DEF Declared, deps, Needed
<1>11. n = "escapes-compute" => Earlier("bound", i)
  BY <1>3, <1>5, <1>6 DEF Declared, deps, Needed
<1>12. n = "desugar" => Earlier("types-compute", i) /\ Earlier("rename", i)
  BY <1>3, <1>5, <1>7 DEF Declared, deps, Needed
<1>13. n = "raw-desugar" => Earlier("rename", i)
  BY <1>3, <1>5, <1>7 DEF Declared, deps, Needed
<1>14. n = "llvm-compute" => Earlier("desugar", i) /\ Earlier("escapes-compute", i)
  BY <1>3, <1>5, <1>8 DEF Declared, deps, Needed
<1>15. n = "llvm-display" => Earlier("llvm-compute", i)
  BY <1>3, <1>5, <1>6 DEF Declared, deps, Needed
<1> QED  BY <1>2, <1>9, <1>10, <1>11, <1>12, <1>13, <1>14, <1>15

\* What comes before a task comes before those that follow it.
LEMMA EarlierStill ==
  ASSUME NEW i \in Nat, NEW j \in 1..(i - 1), NEW n, Earlier(n, j) PROVE Earlier(n, i)
BY DEF Earlier

\* ... or through one another.
LEMMA AllComeBefore ==
  ASSUME TableInv, NEW i \in 1..Len(task_order)
  PROVE  LET n == task_order[i] IN
         /\ n \in TreeTasks => Earlier("parse", i)
         /\ n \in {"rename", "types-compute", "bound", "escapes-compute", "desugar",
                   "raw-desugar", "llvm-compute"} => Earlier("bindings-compute", i)
         /\ n \in {"desugar", "llvm-compute"} =>
              Earlier("types-compute", i) /\ Earlier("rename", i)
<1>1. Len(task_order) \in Nat
  BY DEF TableInv, SearchInv, TypeOK
<1>2. ASSUME NEW k \in 1..Len(task_order), task_order[k] \in {"bound", "rename", "types-compute"}
      PROVE  Earlier("bindings-compute", k) /\ Earlier("parse", k)
  <2>1. PICK j \in 1..(k - 1) : task_order[j] = "bindings-compute"
    BY <1>2, DepsComeBefore DEF Earlier
  <2>2. j \in 1..Len(task_order)
    BY <1>1
  <2>3. Earlier("parse", j)
    BY <2>1, <2>2, DepsComeBefore
  <2> QED  BY <2>1, <2>3, EarlierStill DEF Earlier
<1>3. ASSUME NEW k \in 1..Len(task_order), task_order[k] \in {"escapes-compute", "raw-desugar", "desugar"}
      PROVE  Earlier("bindings-compute", k) /\ Earlier("parse", k)
  <2>1. PICK j \in 1..(k - 1) : task_order[j] \in {"bound", "rename", "types-compute"}
    BY <1>3, DepsComeBefore DEF Earlier
  <2>2. j \in 1..Len(task_order)
    BY <1>1
  <2> QED  BY <1>2, <2>1, <2>2, EarlierStill
<1>4. ASSUME NEW k \in 1..Len(task_order), task_order[k] = "llvm-compute"
      PROVE  /\ Earlier("bindings-compute", k) /\ Earlier("parse", k)
             /\ Earlier("types-compute", k) /\ Earlier("rename", k)
  <2>1. PICK j \in 1..(k - 1) : task_order[j] = "desugar"
    BY <1>4, DepsComeBefore DEF Earlier
  <2>2. j \in 1..Len(task_order)
    BY <1>1
  <2>3. /\ Earlier("bindings-compute", j) /\ Earlier("parse", j)
        /\ Earlier("types-compute", j) /\ Earlier("rename", j)
    BY <1>3, <2>1, <2>2, DepsComeBefore
  <2> QED  BY <2>3, EarlierStill
<1>5. /\ task_order[i] \in {"ast-display", "ast-dump", "clone", "bindings-compute"}
            => Earlier("parse", i)
      /\ task_order[i] = "desugar" => Earlier("types-compute", i) /\ Earlier("rename", i)
  BY DepsComeBefore
<1> QED  BY <1>2, <1>3, <1>4, <1>5 DEF TreeTasks
-----------------------------------------------------------------------------
(* What the executed tasks have left in the state they share.              *)

\* Task n has been executed.
Done(n) == Earlier(n, pos + 1)

\* Nothing replaced the annotations of the only tree there was.
Annotations ==
  /\ Done("bindings-compute") => tree.bound
  /\ Done("types-compute") => tree.typed
  /\ Done("rename") => tree.names = "unique"
  /\ Done("desugar") => ~tree.sugar
  /\ Done("escapes-compute") => escaped /\ tree.escapes
  /\ tree # NoTree =>
       /\ Done("parse")
       /\ tree.names # "torn"
       /\ tree.bound => program.binds /\ (program.builtins => tree.prelude)
  /\ accepted => tree # NoTree /\ tree.bound /\ program.types

\* The inductive invariant of the pipeline.
PassInv ==
  /\ TableInv
  /\ OptionsInv
  /\ program \in Source
  /\ tree \in Tree \union {NoTree}
  /\ escaped \in BOOLEAN
  /\ phase \in {"registering", "parsing", "defaulting"} => pos = 0 /\ ~accepted
  /\ Done("parse") => tree # NoTree
  /\ Done("llvm-compute") => module
  /\ ~Renews /\ ~program.forward => Annotations
  /\ AcceptedForGood
LEMMA InitPass == PInit => PassInv
<1> SUFFICES ASSUME PInit PROVE PassInv
  OBVIOUS
<1>1. TableInv /\ OptionsInv /\ task_order = <<>> /\ pos = 0 /\ phase = "registering"
  BY InitTableInv, InitOptions DEF PInit, Init
<1>2. program \in Source
  BY PipelineAssumption DEF PInit, PipelineAssumption
<1>3. \A n : ~Done(n)
  BY <1>1 DEF Done, Earlier
<1> QED  BY <1>1, <1>2, <1>3 DEF PInit, PassInv, Annotations, AcceptedForGood

\* The three ways the body of a task ends, for the register: it returns,
\* throws, or dereferences a null pointer.
LEMMA ReturnedStep ==
  ASSUME PassInv, ExecuteTask
  PROVE  /\ TableInv' /\ OptionsInv' /\ AcceptedForGood'
         /\ phase' = "executing" /\ (Renews' <=> Renews)
         /\ \A n : Done(n)' <=> Done(n) \/ n = Current
<1>1. /\ phase = "executing" /\ phase' = phase /\ pos' = pos + 1
      /\ pos \in Nat /\ pos + 1 \in 1..Len(task_order)
      /\ UNCHANGED <<unbuilt, task_list, cmdline, stack, task_order, task_error>>
  BY DEF ExecuteTask, Running, PassInv, TableInv, SearchInv, TypeOK
<1>2. DemandInv' /\ SearchInv'
  BY NextDemandInv, NextSearchInv DEF Next, PassInv, TableInv
<1>3. TableInv'
  BY <1>1, <1>2, TableStays DEF PassInv
<1>4. Renews' <=> Renews
  BY <1>1 DEF Renews
<1>5. OptionsInv'
  BY <1>1, <1>4 DEF PassInv, OptionsInv
<1>6. \A n : Done(n)' <=> Done(n) \/ n = Current
  BY <1>1 DEF Done, Earlier, Current
<1> QED  BY <1>1, <1>3, <1>4, <1>5, <1>6 DEF AcceptedForGood

LEMMA StoppedStep ==
  ASSUME PassInv, Crash \/ \E e \in Status : ThrowError(e)
  PROVE  /\ TableInv' /\ OptionsInv' /\ (Renews' <=> Renews)
         /\ phase' \in {"crashed", "exited"}
         /\ \A n : Done(n)' <=> Done(n)
<1>1. /\ phase = "executing" /\ phase' \in {"crashed", "exited"}
      /\ UNCHANGED <<unbuilt, task_list, cmdline, pending, arg, stack, task_order,
                     task_error, pos>>
  BY DEF Crash, ThrowError, Exit, Running
<1>2. DemandInv' /\ SearchInv'
  <2>1. CASE \E e \in Status : ThrowError(e)
    BY <2>1, NextDemandInv, NextSearchInv DEF Next, PassInv, TableInv
  <2>2. CASE Crash
    <3>1. TypeOK'
      BY <2>2 DEF Crash, PassInv, TableInv, SearchInv, TypeOK
    <3>2. SearchInv'
      BY <2>2, <3>1 DEF Crash, PassInv, TableInv, SearchInv
    <3>3. UnknownInv'
      BY <2>2, <3>1 DEF Crash, UnknownInv, OptionsFirst, NoRunWithUnknownDep
    <3>4. (phase = "executing" => stack = <<>>)' /\ stack' = stack
      BY <2>2 DEF Crash
    <3> QED  BY <1>1, <3>2, <3>3, <3>4, DemandStays DEF PassInv, TableInv
  <2> QED  BY <2>1, <2>2
<1>3. TableInv'
  BY <1>1, <1>2, TableStays DEF PassInv
<1>4. Renews' <=> Renews
  BY <1>1 DEF Renews
<1>5. OptionsInv'
  BY <1>1, <1>4 DEF PassInv, OptionsInv
<1>6. \A n : Done(n)' <=> Done(n)
  BY <1>1 DEF Done, Earlier
<1> QED  BY <1>1, <1>3, <1>4, <1>5, <1>6

\* What the task to execute can count on.
LEMMA BodyIsReady ==
  ASSUME PassInv, Running
  PROVE  /\ Current \in TreeTasks => tree \in Tree
         /\ Current = "llvm-display" => Done("llvm-compute")
         /\ Current \in {"rename", "types-compute", "bound", "escapes-compute", "desugar",
                         "raw-desugar", "llvm-compute"} => Done("bindings-compute")
         /\ Current \in {"desugar", "llvm-compute"} => Done("types-compute") /\ Done("rename")
         /\ Current = "llvm-compute" => Done("desugar") /\ Done("escapes-compute")
         /\ ~Renews => Current \notin Renewing
<1>1. pos + 1 \in 1..Len(task_order) /\ Current = task_order[pos + 1] /\ TableInv
  BY DEF Running, Current, PassInv, TableInv, SearchInv, TypeOK
<1>2. Current \in TreeTasks => Done("parse")
  BY <1>1, AllComeBefore DEF Done
<1>3. Current \in TreeTasks => tree \in Tree
  BY <1>2 DEF PassInv
<1>4. ~Renews => Current \notin Renewing
  BY <1>1 DEF PassInv, OptionsInv, Kept
<1>5. /\ Current = "llvm-display" => Done("llvm-compute")
      /\ Current = "llvm-compute" => Done("desugar") /\ Done("escapes-compute")
  BY <1>1, DepsComeBefore DEF Done
<1>6. /\ Current \in {"rename", "types-compute", "bound", "escapes-compute", "desugar",
                      "raw-desugar", "llvm-compute"} => Done("bindings-compute")
      /\ Current \in {"desugar", "llvm-compute"} => Done("types-compute") /\ Done("rename")
  BY <1>1, AllComeBefore DEF Done
<1> QED  BY <1>3, <1>4, <1>5, <1>6

\* Without another parse, the first one comes before everything else.
LEMMA ParseComesFirst ==
  ASSUME PassInv, ~Renews, Body("parse")
  PROVE  /\ ~Done("parse")
         /\ \A n \in {"bindings-compute", "types-compute", "rename", "desugar",
                      "escapes-compute"} : ~Done(n)
<1>1. /\ pos + 1 \in 1..Len(task_order) /\ pos \in Nat /\ task_order[pos + 1] = "parse"
      /\ TableInv /\ Kept(stack, task_order) /\ Len(task_order) \in Nat
      /\ task_order \in Seq(Name)
  BY DEF Body, Running, Current, PassInv, TableInv, SearchInv, TypeOK, OptionsInv
<1>2. \A j \in 1..Len(task_order) : task_order[j] = "parse" => j = pos + 1
  BY <1>1 DEF Kept
<1>3. ~Done("parse")
  BY <1>1, <1>2 DEF Done, Earlier
<1>4. ASSUME NEW n \in TreeTasks, Done(n) PROVE FALSE
  <2>1. PICK j \in 1..pos : task_order[j] = n
    BY <1>1, <1>4 DEF Done, Earlier
  <2>2. j \in 1..Len(task_order)
    BY <1>1
  <2>3. PICK k \in 1..(j - 1) : task_order[k] = "parse"
    BY <1>1, <1>4, <2>1, <2>2, AllComeBefore DEF Earlier
  <2>4. k \in 1..Len(task_order) /\ k # pos + 1
    BY <1>1, <2>1
  <2> QED  BY <1>2, <2>3, <2>4
<1> QED  BY <1>3, <1>4 DEF TreeTasks
\* A task that leaves the tree and the history alone.
LEMMA OtherBody ==
  ASSUME PassInv, ExecuteTask, UNCHANGED <<program, tree, escaped, accepted>>,
         Current \notin {"parse", "bindings-compute", "types-compute", "rename", "desugar",
                         "escapes-compute"},
         module' = module \/ module' = TRUE, Current = "llvm-compute" => module'
  PROVE  PassInv'
<1>1. /\ TableInv' /\ OptionsInv' /\ AcceptedForGood'
      /\ phase' = "executing" /\ (Renews' <=> Renews)
      /\ \A n : Done(n)' <=> Done(n) \/ n = Current
  BY ReturnedStep
<1>2. ~Renews /\ ~program.forward => Annotations'
  <2> SUFFICES ASSUME Annotations PROVE Annotations'
    BY DEF PassInv
  <2> QED  BY <1>1 DEF Annotations
<1> QED  BY <1>1, <1>2 DEF PassInv

\* A task stopped by a signal, or by an error the program deserves.
LEMMA StoppedBody ==
  ASSUME PassInv, Crash \/ \E e \in Status : ThrowError(e),
         UNCHANGED <<program, tree, accepted, module>>, escaped' \in {escaped, TRUE},
         AcceptedForGood'
  PROVE  PassInv'
<1>1. /\ TableInv' /\ OptionsInv' /\ (Renews' <=> Renews)
      /\ phase' \in {"crashed", "exited"} /\ \A n : Done(n)' <=> Done(n)
  BY StoppedStep
<1>2. ~Renews /\ ~program.forward => Annotations'
  <2> SUFFICES ASSUME Annotations PROVE Annotations'
    BY DEF PassInv
  <2> QED  BY <1>1 DEF Annotations
<1> QED  BY <1>1, <1>2 DEF PassInv

LEMMA CrashedBody ==
  ASSUME PassInv, Crash, UNCHANGED <<program, tree, accepted, module>>,
         escaped' \in {escaped, TRUE}
  PROVE  PassInv'
<1>1. AcceptedForGood'
  BY DEF Crash, AcceptedForGood
<1> QED  BY <1>1, StoppedBody

\* The register's own steps.
LEMMA SchedulePass == PassInv /\ Schedule /\ UNCHANGED passVars => PassInv'
<1> SUFFICES ASSUME PassInv, Schedule, UNCHANGED passVars PROVE PassInv'
  OBVIOUS
<1>1. TableInv' /\ OptionsInv' /\ TypeOK
  BY ScheduleTable, ScheduleOptions DEF PassInv, TableInv, SearchInv
<1>2. cmdline' = cmdline /\ pos' = pos /\ (Renews' <=> Renews)
  BY DEF Schedule, RegisterTask, ParseCommandLine, NotifyOption, SkipDep, ActivateDep,
         AppendTask, OverflowStack, EndOfOptions, DefaultEnabled, EndOfTasks, Renews
<1>3. \A n : Done(n)' <=> Done(n)
  <2>1. CASE task_order' = task_order
    BY <1>2, <2>1 DEF Done, Earlier
  <2>2. CASE AppendTask
    <3>1. pos = 0
      BY <2>2 DEF AppendTask, PassInv
    <3> QED  BY <1>2, <3>1 DEF Done, Earlier
  <2> QED  BY <2>1, <2>2 DEF Schedule, RegisterTask, ParseCommandLine, NotifyOption, SkipDep,
         ActivateDep, OverflowStack, EndOfOptions, DefaultEnabled, EndOfTasks
<1>4. ~Renews /\ ~program.forward => Annotations'
  <2> SUFFICES ASSUME Annotations PROVE Annotations'
    BY DEF PassInv
  <2> QED  BY <1>3 DEF Annotations, passVars
<1>5. phase' \in {"registering", "parsing", "defaulting"} => phase \in {"registering", "parsing", "defaulting"}
  BY DEF Schedule, RegisterTask, ParseCommandLine, NotifyOption, SkipDep, ActivateDep,
         AppendTask, OverflowStack, EndOfOptions, DefaultEnabled, EndOfTasks, Exit
<1>6. AcceptedForGood'
  <2>1. CASE EndOfTasks
    <3>1. exit_status' = Success
      BY <2>1 DEF EndOfTasks, Exit, PassInv, OptionsInv
    <3> QED  BY <3>1 DEF AcceptedForGood
  <2>2. CASE ~EndOfTasks
    <3>1. phase \in {"registering", "parsing", "defaulting"}
      BY <2>2 DEF Schedule, RegisterTask, ParseCommandLine, NotifyOption, SkipDep, ActivateDep,
         AppendTask, OverflowStack, EndOfOptions, DefaultEnabled
    <3>2. ~accepted'
      BY <3>1 DEF PassInv, passVars
    <3> QED  BY <3>2 DEF AcceptedForGood
  <2> QED  BY <2>1, <2>2
<1>7. UNCHANGED <<program, tree, escaped, module, accepted>>
  BY DEF passVars
<1> QED  BY <1>1, <1>2, <1>3, <1>4, <1>5, <1>6, <1>7 DEF PassInv

\* The parser: its tree is the first one, unless an option asks for another.
LEMMA ParsePass == PassInv /\ Parse => PassInv'
<1> SUFFICES ASSUME PassInv, Parse PROVE PassInv'
  OBVIOUS
<1>1. Running /\ Current = "parse" /\ UNCHANGED <<program, escaped, module, accepted>>
  BY DEF Parse, Body
<1>2. CASE program.parses
  <2>1. ExecuteTask
    BY <1>2 DEF Parse
  <2>2. /\ TableInv' /\ OptionsInv' /\ AcceptedForGood'
        /\ phase' = "executing" /\ (Renews' <=> Renews)
        /\ \A n : Done(n)' <=> Done(n) \/ n = "parse"
    BY <1>1, <2>1, ReturnedStep
  <2>3. tree' \in Tree /\ ~tree'.bound /\ tree'.names = "source" /\ tree' # NoTree
    <3>1. tree' = [bound |-> FALSE, typed |-> FALSE, escapes |-> FALSE,
                   names |-> "source", sugar |-> TRUE,
                   prelude |-> prelude = "builtin" /\ ~program.unit]
      BY <1>2 DEF Parse
    <3>2. (prelude = "builtin" /\ ~program.unit) \in BOOLEAN
      OBVIOUS
    <3>3. tree' \in Tree
      BY <3>1, <3>2 DEF Tree
    <3> QED  BY <3>1, <3>3, PipelineAssumption DEF PipelineAssumption
  <2>4. ASSUME ~Renews, ~program.forward PROVE Annotations'
    <3>1. /\ ~Done("parse")
          /\ \A n \in {"bindings-compute", "types-compute", "rename", "desugar",
                       "escapes-compute"} : ~Done(n)
      BY <1>1, <2>4, ParseComesFirst DEF Body
    <3>2. ~accepted
      BY <2>4, <3>1 DEF PassInv, Annotations
    <3> QED  BY <1>1, <2>2, <2>3, <3>1, <3>2 DEF Annotations
  <2>5. Done("llvm-compute")' => module'
    BY <1>1, <2>2 DEF PassInv
  <2> QED  BY <1>1, <2>2, <2>3, <2>4, <2>5 DEF PassInv
<1>3. CASE ~program.parses
  <2>1. tree' = tree /\ \E e \in Status : ThrowError(e)
    <3>1. ParseErrors \subseteq Status
      BY DEF ParseErrors, Status
    <3> QED  BY <1>3, <3>1 DEF Parse
  <2>2. AcceptedForGood'
    <3> SUFFICES ASSUME accepted', ~Renews', ~program'.forward PROVE FALSE
      BY DEF AcceptedForGood
    <3>1. ~Renews /\ accepted /\ ~program.forward
      BY <1>1, <2>1, StoppedStep
    <3>2. ~Done("parse")
      BY <1>1, <3>1, ParseComesFirst DEF Body
    <3> QED  BY <3>1, <3>2 DEF PassInv, Annotations
  <2> QED  BY <1>1, <2>1, <2>2, StoppedBody
<1> QED  BY <1>2, <1>3

\* The binder only refuses the program it has not accepted yet.
LEMMA BindingsPass == PassInv /\ BindingsCompute => PassInv'
<1> SUFFICES ASSUME PassInv, BindingsCompute PROVE PassInv'
  OBVIOUS
<1>1. Running /\ Current = "bindings-compute" /\ UNCHANGED <<program, escaped, module, accepted>>
  BY DEF BindingsCompute, Body
<1>2. tree \in Tree /\ tree # NoTree
  BY <1>1, BodyIsReady, PipelineAssumption DEF TreeTasks, PipelineAssumption
<1>3. CASE Bindable(tree)
  <2>1. ExecuteTask /\ tree' = [tree EXCEPT !.bound = TRUE]
    BY <1>3 DEF BindingsCompute
  <2>2. /\ TableInv' /\ OptionsInv' /\ AcceptedForGood'
        /\ phase' = "executing" /\ (Renews' <=> Renews)
        /\ \A n : Done(n)' <=> Done(n) \/ n = "bindings-compute"
    BY <1>1, <2>1, ReturnedStep
  <2>3. /\ tree' \in Tree /\ tree'.bound /\ tree'.typed = tree.typed
        /\ tree'.escapes = tree.escapes /\ tree'.names = tree.names
        /\ tree'.sugar = tree.sugar /\ tree'.prelude = tree.prelude
    BY <1>2, <2>1 DEF Tree
  <2>4. tree' # NoTree
    BY <2>3, PipelineAssumption DEF PipelineAssumption
  <2>5. program.binds /\ (program.builtins => tree.prelude)
    BY <1>3 DEF Bindable
  <2>6. ASSUME ~Renews, ~program.forward PROVE Annotations'
    <3>1. Annotations
      BY <2>6 DEF PassInv
    <3> QED  BY <1>1, <1>2, <2>2, <2>3, <2>4, <2>5, <3>1 DEF Annotations
  <2>7. Done("llvm-compute")' => module'
    BY <1>1, <2>2 DEF PassInv
  <2> QED  BY <1>1, <2>2, <2>3, <2>4, <2>6, <2>7 DEF PassInv
<1>4. CASE ~Bindable(tree)
  <2>1. tree' = tree /\ \E e \in Status : ThrowError(e)
    <3>1. BindError \in Status
      BY DEF BindError, Status
    <3> QED  BY <1>4, <3>1 DEF BindingsCompute
  <2>2. AcceptedForGood'
    <3> SUFFICES ASSUME accepted', ~Renews', ~program'.forward, ~program'.argloop,
                        program'.compares => tree'.prelude
                 PROVE  FALSE
      BY DEF AcceptedForGood
    <3>1. ~Renews /\ accepted /\ ~program.forward /\ ~program.argloop
          /\ (program.compares => tree.prelude)
      BY <1>1, <2>1, StoppedStep
    <3>2. Annotations
      BY <3>1 DEF PassInv
    <3> QED  BY <1>2, <1>4, <3>1, <3>2 DEF Annotations, Bindable
  <2> QED  BY <1>1, <2>1, <2>2, StoppedBody
<1> QED  BY <1>3, <1>4

\* The renamer meets a tree whose uses are bound.
LEMMA RenamePass == PassInv /\ Rename => PassInv'
<1> SUFFICES ASSUME PassInv, Rename PROVE PassInv'
  OBVIOUS
<1>1. /\ Running /\ Current = "rename" /\ ExecuteTask
      /\ UNCHANGED <<program, escaped, module, accepted>>
      /\ tree' = [tree EXCEPT !.names =
                    IF tree.bound /\ ~program.forward THEN "unique" ELSE "torn"]
  BY DEF Rename, Body
<1>2. tree \in Tree /\ tree # NoTree /\ Done("bindings-compute")
  BY <1>1, BodyIsReady, PipelineAssumption DEF TreeTasks, PipelineAssumption
<1>3. /\ TableInv' /\ OptionsInv' /\ AcceptedForGood'
      /\ phase' = "executing" /\ (Renews' <=> Renews)
      /\ \A n : Done(n)' <=> Done(n) \/ n = "rename"
  BY <1>1, ReturnedStep
<1>4. /\ tree' \in Tree /\ tree'.bound = tree.bound /\ tree'.typed = tree.typed
      /\ tree'.escapes = tree.escapes /\ tree'.sugar = tree.sugar
      /\ tree'.prelude = tree.prelude
      /\ tree.bound /\ ~program.forward => tree'.names = "unique"
  BY <1>1, <1>2 DEF Tree
<1>5. tree' # NoTree
  BY <1>4, PipelineAssumption DEF PipelineAssumption
<1>6. ASSUME ~Renews, ~program.forward PROVE Annotations'
  <2>1. Annotations
    BY <1>6 DEF PassInv
  <2>2. tree'.names = "unique"
    BY <1>2, <1>4, <1>6, <2>1 DEF Annotations
  <2> QED  BY <1>1, <1>2, <1>3, <1>4, <1>5, <2>1, <2>2 DEF Annotations
<1>7. Done("llvm-compute")' => module'
  BY <1>1, <1>3 DEF PassInv
<1> QED  BY <1>1, <1>3, <1>4, <1>5, <1>6, <1>7 DEF PassInv

\* What a copy and the desugaring keep of a tree.
LEMMA BareTree ==
  ASSUME NEW t \in Tree
  PROVE  /\ Bare(t) \in Tree /\ Desugared(t) \in Tree
         /\ Desugared(t).names = t.names /\ Desugared(t).prelude = t.prelude
         /\ ~Desugared(t).sugar
BY DEF Bare, Desugared, Tree

\* The tasks that drop the annotations need an option of their own.
LEMMA RenewingPass == PassInv /\ (Clone \/ RawDesugar) => PassInv'
<1> SUFFICES ASSUME PassInv, Clone \/ RawDesugar PROVE PassInv'
  OBVIOUS
<1>1. /\ Running /\ Current \in {"clone", "raw-desugar"}
      /\ UNCHANGED <<program, escaped, module, accepted>>
  BY DEF Clone, RawDesugar, Body
<1>2. tree \in Tree /\ Renews
  BY <1>1, BodyIsReady DEF TreeTasks, Renewing
<1>3. CASE ExecuteTask /\ tree' \in {Bare(tree), Desugared(tree)}
  <2>1. /\ TableInv' /\ OptionsInv' /\ AcceptedForGood'
        /\ phase' = "executing" /\ (Renews' <=> Renews)
        /\ \A n : Done(n)' <=> Done(n) \/ n = Current
    BY <1>3, ReturnedStep
  <2>2. tree' \in Tree /\ tree' # NoTree
    BY <1>2, <1>3, BareTree, PipelineAssumption DEF PipelineAssumption
  <2>3. Done("llvm-compute")' => module'
    BY <1>1, <2>1 DEF PassInv
  <2> QED  BY <1>1, <1>2, <2>1, <2>2, <2>3 DEF PassInv
<1>4. CASE Crash /\ tree' = tree
  BY <1>1, <1>4, CrashedBody
<1> QED  BY <1>3, <1>4 DEF Clone, RawDesugar

\* The escapes are computed once, and known to have been.
LEMMA EscapesPass == PassInv /\ EscapesCompute => PassInv'
<1> SUFFICES ASSUME PassInv, EscapesCompute PROVE PassInv'
  OBVIOUS
<1>1. /\ Running /\ Current = "escapes-compute" /\ escaped' = TRUE
      /\ UNCHANGED <<program, module, accepted>>
  BY DEF EscapesCompute, Body
<1>2. tree \in Tree /\ tree # NoTree
  BY <1>1, BodyIsReady, PipelineAssumption DEF TreeTasks, PipelineAssumption
<1>3. CASE tree.bound
  <2>1. ExecuteTask /\ tree' = [tree EXCEPT !.escapes = TRUE]
    BY <1>3 DEF EscapesCompute
  <2>2. /\ TableInv' /\ OptionsInv' /\ AcceptedForGood'
        /\ phase' = "executing" /\ (Renews' <=> Renews)
        /\ \A n : Done(n)' <=> Done(n) \/ n = "escapes-compute"
    BY <1>1, <2>1, ReturnedStep
  <2>3. /\ tree' \in Tree /\ tree'.bound = tree.bound /\ tree'.typed = tree.typed
        /\ tree'.escapes /\ tree'.names = tree.names
        /\ tree'.sugar = tree.sugar /\ tree'.prelude = tree.prelude
    BY <1>2, <2>1 DEF Tree
  <2>4. tree' # NoTree
    BY <2>3, PipelineAssumption DEF PipelineAssumption
  <2>5. ASSUME ~Renews, ~program.forward PROVE Annotations'
    <3>1. Annotations
      BY <2>5 DEF PassInv
    <3> QED  BY <1>1, <1>2, <2>2, <2>3, <2>4, <3>1 DEF Annotations
  <2>6. Done("llvm-compute")' => module'
    BY <1>1, <2>2 DEF PassInv
  <2> QED  BY <1>1, <2>2, <2>3, <2>4, <2>5, <2>6 DEF PassInv
<1>4. CASE ~tree.bound
  BY <1>1, <1>4, CrashedBody DEF EscapesCompute
<1> QED  BY <1>3, <1>4

\* The type checker does not change its mind.
LEMMA TypesPass == PassInv /\ TypesCompute => PassInv'
<1> SUFFICES ASSUME PassInv, TypesCompute PROVE PassInv'
  OBVIOUS
<1>1. /\ Running /\ Current = "types-compute" /\ UNCHANGED <<program, escaped, module>>
  BY DEF TypesCompute, Body
<1>2. tree \in Tree /\ tree # NoTree
  BY <1>1, BodyIsReady, PipelineAssumption DEF TreeTasks, PipelineAssumption
<1>3. CASE tree.bound /\ program.types
  <2>1. ExecuteTask /\ tree' = [tree EXCEPT !.typed = TRUE] /\ accepted' = TRUE
    BY <1>3 DEF TypesCompute
  <2>2. /\ TableInv' /\ OptionsInv' /\ AcceptedForGood'
        /\ phase' = "executing" /\ (Renews' <=> Renews)
        /\ \A n : Done(n)' <=> Done(n) \/ n = "types-compute"
    BY <1>1, <2>1, ReturnedStep
  <2>3. /\ tree' \in Tree /\ tree'.bound /\ tree'.typed
        /\ tree'.escapes = tree.escapes /\ tree'.names = tree.names
        /\ tree'.sugar = tree.sugar /\ tree'.prelude = tree.prelude
    BY <1>2, <1>3, <2>1 DEF Tree
  <2>4. tree' # NoTree
    BY <2>3, PipelineAssumption DEF PipelineAssumption
  <2>5. ASSUME ~Renews, ~program.forward PROVE Annotations'
    <3>1. Annotations
      BY <2>5 DEF PassInv
    <3> QED  BY <1>1, <1>2, <1>3, <2>1, <2>2, <2>3, <2>4, <3>1 DEF Annotations
  <2>6. Done("llvm-compute")' => module'
    BY <1>1, <2>2 DEF PassInv
  <2> QED  BY <1>1, <2>2, <2>3, <2>4, <2>5, <2>6 DEF PassInv
<1>4. CASE ~tree.bound
  BY <1>1, <1>4, CrashedBody DEF TypesCompute
<1>5. CASE tree.bound /\ ~program.types
  <2>1. UNCHANGED <<tree, accepted>> /\ \E e \in Status : ThrowError(e)
    <3>1. Raise(task_error, TypeError) \in Status
      <4>1. task_error \in Status
        BY DEF PassInv, TableInv, SearchInv, TypeOK
      <4>2. TypeError \in Status
        BY DEF TypeError, Status
      <4> QED  BY <4>1, <4>2, RaiseType
    <3> QED  BY <1>5, <3>1 DEF TypesCompute
  <2>2. AcceptedForGood'
    <3> SUFFICES ASSUME accepted', ~Renews', ~program'.forward PROVE FALSE
      BY DEF AcceptedForGood
    <3>1. ~Renews /\ accepted /\ ~program.forward
      BY <1>1, <2>1, StoppedStep
    <3> QED  BY <1>5, <3>1 DEF PassInv, Annotations
  <2> QED  BY <1>1, <2>1, <2>2, StoppedBody
<1> QED  BY <1>3, <1>4, <1>5

\* The desugared tree is annotated again as the first one was.
LEMMA DesugarPass == PassInv /\ Desugar => PassInv'
<1> SUFFICES ASSUME PassInv, Desugar PROVE PassInv'
  OBVIOUS
<1>1. /\ Running /\ Current = "desugar" /\ UNCHANGED <<program, escaped, module, accepted>>
  BY DEF Desugar, Body
<1>2. tree \in Tree /\ tree # NoTree /\ Done("bindings-compute")
  BY <1>1, BodyIsReady, PipelineAssumption DEF TreeTasks, PipelineAssumption
<1>3. CASE ExecuteTask /\ tree' = Annotated(Desugared(tree)) /\ Bindable(Desugared(tree))
  <2>1. /\ TableInv' /\ OptionsInv' /\ AcceptedForGood'
        /\ phase' = "executing" /\ (Renews' <=> Renews)
        /\ \A n : Done(n)' <=> Done(n) \/ n = "desugar"
    BY <1>1, <1>3, ReturnedStep
  <2>2. /\ tree' \in Tree /\ tree'.bound /\ tree'.typed /\ tree'.escapes = escaped
        /\ tree'.names = tree.names /\ ~tree'.sugar /\ tree'.prelude = tree.prelude
    <3>1. escaped \in BOOLEAN
      BY DEF PassInv
    <3> QED  BY <1>2, <1>3, <3>1, BareTree DEF Annotated, Tree
  <2>3. tree' # NoTree
    BY <2>2, PipelineAssumption DEF PipelineAssumption
  <2>4. ASSUME ~Renews, ~program.forward PROVE Annotations'
    <3>1. Annotations
      BY <2>4 DEF PassInv
    <3> QED  BY <1>1, <1>2, <2>1, <2>2, <2>3, <3>1 DEF Annotations
  <2>5. Done("llvm-compute")' => module'
    BY <1>1, <2>1 DEF PassInv
  <2> QED  BY <1>1, <2>1, <2>2, <2>3, <2>4, <2>5 DEF PassInv
<1>4. CASE Crash /\ tree' = tree
  BY <1>1, <1>4, CrashedBody
<1>5. CASE ThrowError(BindError) /\ tree' = tree /\ ~Bindable(Desugared(tree))
  <2>1. \E e \in Status : ThrowError(e)
    BY <1>5 DEF BindError, Status
  <2>2. AcceptedForGood'
    <3> SUFFICES ASSUME accepted', ~Renews', ~program'.forward, ~program'.argloop,
                        program'.compares => tree'.prelude
                 PROVE  FALSE
      BY DEF AcceptedForGood
    <3>1. ~Renews /\ accepted /\ ~program.forward /\ ~program.argloop
          /\ (program.compares => tree.prelude)
      BY <1>1, <1>5, <2>1, StoppedStep
    <3>2. Annotations
      BY <3>1 DEF PassInv
    <3>3. program.binds /\ (program.builtins => tree.prelude) /\ tree.names # "torn"
      BY <1>2, <3>1, <3>2 DEF Annotations
    <3>4. Bindable(Desugared(tree))
      BY <1>2, <3>1, <3>3, BareTree DEF Bindable
    <3> QED  BY <1>5, <3>4
  <2> QED  BY <1>1, <1>5, <2>1, <2>2, StoppedBody
<1> QED  BY <1>3, <1>4, <1>5 DEF Desugar

\* All the steps of the pipeline.
LEMMA NextPass == PassInv /\ [PNext]_allVars => PassInv'
<1> SUFFICES ASSUME PassInv, [PNext]_allVars PROVE PassInv'
  OBVIOUS
<1>1. CASE Schedule /\ UNCHANGED passVars
  BY <1>1, SchedulePass
<1>2. CASE ChoosePrelude \/ AddDirectory
  BY <1>2, OtherBody DEF ChoosePrelude, AddDirectory, Body
<1>3. CASE RaiseFlag
  BY <1>3, OtherBody DEF RaiseFlag, Flags
<1>4. CASE NoEffect
  BY <1>4, OtherBody DEF NoEffect, Displays, Markers, passVars
<1>5. CASE LlvmCompute
  BY <1>5, OtherBody, CrashedBody DEF LlvmCompute, Body
<1>6. CASE UNCHANGED allVars
  <2>1. UNCHANGED vars /\ UNCHANGED passVars
    BY <1>6 DEF allVars
  <2>2. DemandInv' /\ SearchInv'
    BY <2>1, NextDemandInv, NextSearchInv DEF PassInv, TableInv
  <2>3. TableInv'
    BY <2>1, <2>2 DEF vars, PassInv, TableInv, Registered
  <2>4. OptionsInv' /\ (Renews' <=> Renews)
    BY <2>1 DEF vars, PassInv, OptionsInv, Renews
  <2>5. (\A n : Done(n)' <=> Done(n)) /\ AcceptedForGood'
    BY <2>1, <2>4 DEF vars, passVars, Done, Earlier, PassInv, AcceptedForGood
  <2>6. ~Renews /\ ~program.forward => Annotations'
    <3> SUFFICES ASSUME Annotations PROVE Annotations'
      BY DEF PassInv
    <3> QED  BY <2>1, <2>5 DEF Annotations, passVars
  <2> QED  BY <2>1, <2>3, <2>4, <2>5, <2>6 DEF PassInv, vars, passVars
<1> QED
  BY <1>1, <1>2, <1>3, <1>4, <1>5, <1>6, ParsePass, BindingsPass, RenamePass, RenewingPass,
     EscapesPass, TypesPass, DesugarPass DEF PNext

\* For every command line, the tasks that read the tree come after a parse,
\* and the display of the LLVM module after its computation.
THEOREM TheProgramIsSet == PSpec => []ProgramIsSet
<1>1. PassInv => ProgramIsSet
  <2> SUFFICES ASSUME PassInv, Running PROVE ProgramIsSet
    BY DEF ProgramIsSet
  <2>1. Current \in TreeTasks => tree # NoTree
    BY BodyIsReady, PipelineAssumption DEF PipelineAssumption
  <2>2. Current = "llvm-display" => module
    BY BodyIsReady DEF PassInv
  <2> QED  BY <2>1, <2>2 DEF ProgramIsSet
<1> QED  BY <1>1, InitPass, NextPass, PTL DEF PSpec

\* For every command line that keeps the annotations, each pass finds on the
\* tree those it reads.
THEOREM ThePassesAreReady == PSpec => []PassesAreReady
<1>1. PassInv => PassesAreReady
  <2> SUFFICES ASSUME PassInv, Running, Current \in TreeTasks, ~program.forward, ~Renews
               PROVE  Ready(Current)
    BY DEF PassesAreReady
  <2>1. Annotations /\ Current # "raw-desugar"
    BY BodyIsReady DEF PassInv, Renewing
  <2>2. CASE Current \in {"rename", "types-compute", "escapes-compute"}
    BY <2>1, <2>2, BodyIsReady DEF Annotations, Ready
  <2>3. CASE Current = "desugar"
    BY <2>1, <2>3, BodyIsReady DEF Annotations, Ready
  <2>4. CASE Current = "llvm-compute"
    BY <2>1, <2>4, BodyIsReady DEF Annotations, Ready
  <2>5. CASE Current \notin {"rename", "types-compute", "escapes-compute", "desugar",
                              "raw-desugar", "llvm-compute"}
    BY <2>5 DEF Ready
  <2> QED  BY <2>1, <2>2, <2>3, <2>4, <2>5
<1> QED  BY <1>1, InitPass, NextPass, PTL DEF PSpec

\* For every command line that keeps the annotations, a program that is not
\* fragile and has passed the type checker is not refused afterwards.
THEOREM AcceptedStaysAccepted == PSpec => []AcceptedForGood
<1>1. PassInv => AcceptedForGood
  BY DEF PassInv
<1> QED  BY <1>1, InitPass, NextPass, PTL DEF PSpec
=============================================================================

------------------------------ MODULE Lifting ------------------------------
(***************************************************************************)
(* Lambda lifting: after the passes of Names, the desugared program is     *)
(* bound again (src/src/desugar/libdesugar.hxx),                           *)
(* llvmtranslate::EscapesCollector                                         *)
(* (src/src/llvmtranslate/escapes-collector.cc) finds the variables every  *)
(* function needs the address of, and llvmtranslate::Translator            *)
(* (src/src/llvmtranslate/translator.cc) passes them as arguments.         *)
(***************************************************************************)
EXTENDS Names

VARIABLES
  escaped_,    \* for every function, the variables it is given the address of
  did_modify_, \* whether this round of the innermost chunk has added any
  loops,       \* for every chunk being visited, its start and the flag saved
  functionType_stack_,
  locals_      \* for every translated function, where its variables are

lifted == <<escaped_, did_modify_, loops, functionType_stack_>>
vars == <<nvars, lifted, locals_>>

-----------------------------------------------------------------------------
(* Binding the desugared clone.                                            *)

\* The declaration a use is bound to by its present name; 0 is none.
Rebound(i) ==
  LET ds == {d \in program[i].scope : name[d] = spelled[i]} IN
  IF ds = {} THEN 0 ELSE CHOOSE d \in ds : \A e \in ds : e <= d

desugar ==
  /\ phase = "escaped"
  /\ IF \E i \in Uses : Rebound(i) = 0
       THEN phase' = "error" /\ UNCHANGED program
       ELSE /\ phase' = "desugared"
            /\ program' = [i \in DOMAIN program |->
                 IF i \in Uses THEN [program[i] EXCEPT !.id = Rebound(i)] ELSE program[i]]
  /\ UNCHANGED <<decs, walk, at, names, flags, lifted, locals_>>

-----------------------------------------------------------------------------
(* The collector.                                                          *)

collect_escapes ==
  /\ phase = "desugared" /\ Begin("collecting")
  /\ escaped_' = [d \in DOMAIN decs |-> {}]
  /\ did_modify_' = FALSE /\ loops' = <<>> /\ functionType_stack_' = <<>>
  /\ UNCHANGED <<names, flags, locals_>>

Collecting == Visiting("collecting") /\ UNCHANGED <<names, flags, locals_>>

\* did_modify_ is true to go round once at least, then false for the round.
FunctionChunk ==
  /\ Collecting /\ Here.op = "chunk"
  /\ loops' = Append(loops, [start |-> at, did_modify |-> did_modify_])
  /\ did_modify_' = FALSE
  /\ Go /\ UNCHANGED <<escaped_, functionType_stack_>>

\* The chunk is visited again, from its first function.
GoRoundAgain ==
  /\ Collecting /\ Here.op = "endchunk" /\ did_modify_
  /\ at' = Last(loops).start + 1 /\ did_modify_' = FALSE
  /\ UNCHANGED <<written, phase, escaped_, loops, functionType_stack_>>

\* The inner loop does not restore the flag.
EndOfFunctionChunk_Bug ==
  /\ Collecting /\ Here.op = "endchunk" /\ ~did_modify_
  /\ loops' = Front(loops)
  /\ Go /\ UNCHANGED <<escaped_, did_modify_, functionType_stack_>>

EndOfFunctionChunk ==
  /\ Collecting /\ Here.op = "endchunk" /\ ~did_modify_
  /\ loops' = Front(loops) /\ did_modify_' = Last(loops).did_modify
  /\ Go /\ UNCHANGED <<escaped_, functionType_stack_>>

FunctionDec ==
  /\ Collecting /\ Here.op = "dec" /\ IsFun(Here.id)
  /\ functionType_stack_' = Append(functionType_stack_, Here.id)
  /\ Go /\ UNCHANGED <<escaped_, did_modify_, loops>>

EndOfFunctionDec ==
  /\ Collecting /\ Here.op = "end"
  /\ functionType_stack_' = Front(functionType_stack_)
  /\ Go /\ UNCHANGED <<escaped_, did_modify_, loops>>

\* The function being visited is given more variables.
Collect(vs) ==
  LET f == Last(functionType_stack_) IN
  /\ escaped_' = [escaped_ EXCEPT ![f] = @ \union vs]
  /\ did_modify_' = (did_modify_ \/ ~(vs \subseteq escaped_[f]))
  /\ Go /\ UNCHANGED <<loops, functionType_stack_>>

\* The callee is given what its caller has.
CallExp_Bug ==
  /\ Collecting /\ Here.op = "use" /\ IsFun(Here.id)
  /\ escaped_' = [escaped_ EXCEPT ![Here.id] = @ \union escaped_[Last(functionType_stack_)]]
  /\ Go /\ UNCHANGED <<did_modify_, loops, functionType_stack_>>

CallExp ==
  /\ Collecting /\ Here.op = "use" /\ IsFun(Here.id)
  /\ Collect(escaped_[Here.id])

SimpleVar ==
  /\ Collecting /\ Here.op = "use" /\ IsVar(Here.id)
  /\ Collect({Here.id} \intersect escapes)

CollectNothing ==
  /\ Collecting
  /\ \/ Here.op = "dec" /\ ~IsFun(Here.id)
     \/ Here.op = "use" /\ decs[Here.id].kind = "typ"
  /\ Go /\ UNCHANGED lifted

EndOfCollect ==
  /\ Finish("collecting", "collected")
  /\ UNCHANGED <<names, flags, lifted, locals_>>

Collector ==
  \/ collect_escapes \/ FunctionChunk \/ GoRoundAgain \/ EndOfFunctionChunk
  \/ FunctionDec \/ EndOfFunctionDec \/ CallExp \/ SimpleVar \/ CollectNothing
  \/ EndOfCollect

-----------------------------------------------------------------------------
(* The translation.                                                        *)

\* The variables of _main are allocated in it like those of any function.
Locals_Bug(f) ==
  [v \in escaped_[f] \union {v \in DOMAIN decs : IsVar(v) /\ decs[v].owner = f} |->
     IF decs[v].owner # f THEN "argument" ELSE "alloca"]

\* Where the variables of f are: its lifted ones are arguments, its own are
\* allocated, and those of _main are global.
Locals(f) ==
  [v \in escaped_[f] \union {v \in DOMAIN decs : IsVar(v) /\ decs[v].owner = f} |->
     IF decs[v].owner # f THEN "argument"
     ELSE IF decs[f].name = Main THEN "global" ELSE "alloca"]

translate ==
  /\ phase = "collected"
  /\ locals_' = [f \in {f \in DOMAIN decs : decs[f].kind = "fun"} |-> Locals(f)]
  /\ phase' = "translated"
  /\ UNCHANGED <<written, at, names, flags, lifted>>

\* What access_var finds for v in f: in the locals of f, else in any others.
access_var(v, f) ==
  IF v \in DOMAIN locals_[f] THEN {<<f, locals_[f][v]>>}
  ELSE {<<g, locals_[g][v]>> : g \in {g \in DOMAIN locals_ : v \in DOMAIN locals_[g]}}

-----------------------------------------------------------------------------
Init ==
  /\ NInit
  /\ escaped_ = <<>> /\ did_modify_ = FALSE /\ loops = <<>>
  /\ functionType_stack_ = <<>> /\ locals_ = <<>>

Next ==
  \/ NNext /\ UNCHANGED <<lifted, locals_>>
  \/ desugar \/ Collector \/ translate

Spec == Init /\ [][Next]_vars

-----------------------------------------------------------------------------
(* Properties.                                                             *)

DeclaredAt(d) == CHOOSE i \in DOMAIN program : program[i].op = "dec" /\ program[i].id = d

\* A use has the name of its declaration, but for the one use where
\* the declaration comes later in its chunk, which keeps the old name.
OnlyForwardUsesAreStale ==
  phase \in {"renamed", "escaped", "error"} => \A i \in Uses :
    (spelled[i] = name[program[i].id])
      <=> (DeclaredAt(program[i].id) < i \/ ~Renamed(program[i].id))

\* renamer.hh:34: a use is given the name of its definition site, so that the
\* renamed program is the same program.
UsesFollowTheirDeclarations ==
  phase \in {"renamed", "escaped", "error"} => \A i \in Uses : spelled[i] = name[program[i].id]

UsedAtHome(v) == \E i \in Uses : program[i].id = v /\ program[i].within = decs[v].owner
\* What the flag says, with the names unique, which is not what it is for (see
\* EscapingVariablesAreFlagged): some function declares the variable, and no
\* expression of that very function uses it.
FlaggedUnlessUsedAtHome ==
  phase = "escaped" => \A v \in DOMAIN decs : IsVar(v) =>
    (v \in escapes <=> decs[decs[v].owner].kind = "fun" /\ ~UsedAtHome(v))

\* escapes-visitor.hh:5: "Variables and formals of a function may escape, i.e.,
\* be accessed by an inner function", and :18: the visitor is "searching for
\* variables declared then accessed by an inner function".
EscapingVariablesAreFlagged ==
  phase = "escaped" => \A v \in DOMAIN decs :
    IsVar(v) /\ (\E i \in Uses : program[i].id = v /\ program[i].within # decs[v].owner)
      => v \in escapes

Calls == {<<program[i].within, program[i].id>> : i \in {i \in Uses : IsFun(program[i].id)}}

\* The functions f may call, itself or through others: those of every set that
\* has f and, with a function, all it calls.
Callees(f) ==
  {g \in DOMAIN decs : \A S \in SUBSET DOMAIN decs :
     f \in S /\ (\A c \in Calls : c[1] \in S => c[2] \in S) => g \in S}

\* At the end of the collection, a function is given exactly the flagged
\* variables that it, or a function it may call, uses: whatever the nesting and
\* the order of the functions in their chunks.
LiftedIsWhatCalleesUse ==
  phase = "collected" =>
    \A f \in DOMAIN decs : IsFun(f) =>
      escaped_[f] = {v \in escapes :
        \E i \in Uses : program[i].id = v /\ program[i].within \in Callees(f)}

\* At a call, the caller has every variable the callee is to be given
\* (the argument is a null pointer otherwise).
CallersHaveLifted ==
  phase = "translated" => \A c \in Calls :
    decs[c[2]].kind = "fun" => escaped_[c[2]] \subseteq DOMAIN locals_[c[1]]

\* An access reaches one place, that exists in the function making it: its own
\* or a global.  A variable that is also used at home is the exception.
AccessesAreOwn ==
  phase = "translated" => \A i \in Uses : IsVar(program[i].id) =>
    LET f == program[i].within  v == program[i].id IN
    \/ \E p \in access_var(v, f) : access_var(v, f) = {p} /\ (p[1] = f \/ p[2] = "global")
    \/ UsedAtHome(v) /\ decs[decs[v].owner].name # Main
=============================================================================

------------------------------- MODULE Binder -------------------------------
(***************************************************************************)
(* bind::Binder (src/src/bind/binder.cc): the visitor that gives every use *)
(* of an identifier a pointer to its declaration, and every break a        *)
(* pointer to its loop.                                                    *)
(*                                                                         *)
(* The program is not given beforehand: each step visits one more          *)
(* construct, among those the grammar allows where the visitor is, so that *)
(* a behaviour is the visit of one program and the behaviours are the      *)
(* visits of all of them.  walk is the call stack of the visitor: the      *)
(* constructs it is in, each with the part of it being visited.            *)
(***************************************************************************)
EXTENDS Integers, Sequences, FiniteSets, Functions

CONSTANTS
  FunName, VarName, TypName,   \* the names declared in each space
  Main,          \* "_main"
  BuiltinTypes,  \* "int" and "string"
  MaxDecs,       \* how many declarations the program has
  MaxDepth,      \* how deep its constructs nest
  MaxSize,       \* how deep, with what is already declared
  MaxChunk,      \* how many declarations a chunk has
  Unbound, Nothing

Node == 1..MaxDecs             \* declarations, in the order of the visit
Loop == 1..MaxDepth            \* a loop is known by its depth in walk
Kind == {"let", "funchunk", "typchunk", "fundec", "typedec", "vardec", "for",
         "while", "call"}
Part == {"decs", "formals", "test", "vardec", "hi", "body"}
Dec == [name : FunName \union TypName \union VarName, node : Node]
Frame == [kind : Kind, part : Part, todo : Seq(Dec)]

ASSUME BinderAssumption ==
  /\ Main \in FunName
  /\ MaxDecs \in Nat \ {0} /\ MaxDepth \in Nat \ {0} /\ MaxChunk \in Nat \ {0} /\ MaxSize \in Nat
  /\ Unbound \notin Node

VARIABLES
  scoped_map_fun_, scoped_map_var_, scoped_map_typ_,
  loop_stack_,
  is_main_defined_,
  in_loop_, in_formals_, in_vardec_,
  error_,     \* whether something was diagnosed
  walk,
  decs,       \* how many declarations have been visited
  named,      \* the identifier or break visited by the last step, if any,
              \* with the declaration or loop it stands for
  done        \* bindings_compute has returned, or thrown if error_

maps == <<scoped_map_fun_, scoped_map_var_, scoped_map_typ_>>
flags == <<in_loop_, in_formals_, in_vardec_>>
vars == <<maps, loop_stack_, is_main_defined_, flags, error_, walk, decs, named,
          done>>

Fun == INSTANCE ScopedMap WITH scopes <- scoped_map_fun_, Key <- FunName,
                               Data <- Node, MaxScopes <- MaxDepth + 1
Var == INSTANCE ScopedMap WITH scopes <- scoped_map_var_, Key <- VarName,
                               Data <- Node, MaxScopes <- MaxDepth + 1
Typ == INSTANCE ScopedMap WITH scopes <- scoped_map_typ_, Key <- TypName,
                               Data <- Node, MaxScopes <- MaxDepth + 1

-----------------------------------------------------------------------------
(* Where the visitor is.                                                   *)

Top == walk[Len(walk)]
In(kind, part) == walk # <<>> /\ Top.kind = kind /\ Top.part = part
AtDecs == ~done /\ (walk = <<>> \/ In("let", "decs"))
AtExp ==
  /\ ~done
  /\ \/ In("let", "body") \/ In("fundec", "body") \/ In("vardec", "body")
     \/ In("call", "body")
     \/ In("for", "hi") \/ In("for", "body")
     \/ In("while", "test") \/ In("while", "body")

Enter(kind, part) ==
  /\ Len(walk) < MaxDepth /\ Len(walk) + decs < MaxSize
  /\ walk' = Append(walk, [kind |-> kind, part |-> part, todo |-> <<>>])
GoTo(part) == walk' = [walk EXCEPT ![Len(walk)].part = part]
Return == walk' = SubSeq(walk, 1, Len(walk) - 1)

Declared(frame) == {frame.todo[i].name : i \in DOMAIN frame.todo}

\* The declaration visited now is the next one.
Declares(space, n) ==
  /\ decs < MaxDecs
  /\ decs' = decs + 1
  /\ named' = [space |-> space, name |-> n, node |-> decs + 1]

(* The definitions named ..._Bug are variants with a plausible mistake;   *)
(* each property below is known to fail when one of them takes the place  *)
(* of the definition that follows it.                                     *)

\* The failure of get goes unnoticed.
Bind_Bug(space, n, found) ==
  /\ named' = [space |-> space, name |-> n, node |-> found]
  /\ UNCHANGED error_

\* A use is bound to what get finds; get throws on an undeclared name, which
\* is diagnosed.
Bind(space, n, found) ==
  IF found = Unbound
    THEN error_' = TRUE /\ named' = Nothing
    ELSE /\ named' = [space |-> space, name |-> n, node |-> found]
         /\ UNCHANGED error_

-----------------------------------------------------------------------------
(* Chunks of functions or types: every name is declared before any         *)
(* declaration is visited.                                                 *)

FunctionChunk ==
  /\ AtDecs
  /\ Enter("funchunk", "decs")
  /\ named' = Nothing
  /\ UNCHANGED <<maps, loop_stack_, is_main_defined_, flags, error_, decs, done>>

TypeChunk ==
  /\ AtDecs
  /\ Enter("typchunk", "decs")
  /\ named' = Nothing
  /\ UNCHANGED <<maps, loop_stack_, is_main_defined_, flags, error_, decs, done>>

\* One turn of the first loop over a chunk of the given kind: a name that the
\* chunk already declares is diagnosed, and not declared again.
Header(kind, space, n, put) ==
  /\ In(kind, "decs")
  /\ Len(Top.todo) < MaxChunk
  /\ walk' = [walk EXCEPT ![Len(walk)].todo =
                Append(@, [name |-> n, node |-> decs + 1])]
  /\ Declares(space, n)
  /\ \/ n \in Declared(Top) /\ error_' = TRUE /\ UNCHANGED maps
     \/ n \notin Declared(Top) /\ put /\ UNCHANGED error_
  /\ UNCHANGED <<loop_stack_, is_main_defined_, flags, done>>

\* Functions declared only when they are visited.
FunctionHeader_Bug(n) == Header("funchunk", "fun", n, UNCHANGED maps)

FunctionHeader(n) ==
  Header("funchunk", "fun", n,
         Fun!put(n, decs + 1) /\ UNCHANGED <<scoped_map_var_, scoped_map_typ_>>)
TypeHeader(n) ==
  Header("typchunk", "typ", n,
         Typ!put(n, decs + 1) /\ UNCHANGED <<scoped_map_fun_, scoped_map_var_>>)

\* The second loop visits the declarations in turn; each is put once more.
Visit(chunk, kind, part) ==
  /\ In(chunk, "decs") \/ In(chunk, "body")
  /\ Top.todo # <<>>
  /\ Len(walk) < MaxDepth /\ Len(walk) + decs < MaxSize
  /\ walk' = Append([walk EXCEPT ![Len(walk)].part = "body",
                                 ![Len(walk)].todo = Tail(@)],
                    [kind |-> kind, part |-> part, todo |-> <<>>])

FunctionDec ==
  /\ Visit("funchunk", "fundec", "formals")
  /\ LET d == Head(Top.todo)
         m == scoped_map_fun_
     IN /\ scoped_map_fun_' =
             Append([m EXCEPT ![Len(m)] = Fun!With(@, d.name, d.node)],
                    [k \in {} |-> Unbound])
        /\ is_main_defined_' = (is_main_defined_ \/ d.name = Main)
        /\ error_' = (error_ \/ (is_main_defined_ /\ d.name = Main))
  /\ Var!scope_begin
  /\ in_formals_' = TRUE
  /\ named' = Nothing
  /\ UNCHANGED <<scoped_map_typ_, loop_stack_, in_loop_, in_vardec_, decs, done>>

TypeDec ==
  /\ Visit("typchunk", "typedec", "body")
  /\ Typ!put(Head(Top.todo).name, Head(Top.todo).node)
  /\ named' = Nothing
  /\ UNCHANGED <<scoped_map_fun_, scoped_map_var_, loop_stack_,
                 is_main_defined_, flags, error_, decs, done>>

\* One VarDec of the formals, which have no initial value; the VarChunk they
\* form diagnoses those of the same name.
Formal(n) ==
  /\ In("fundec", "formals")
  /\ Len(Top.todo) < MaxChunk
  /\ walk' = [walk EXCEPT ![Len(walk)].todo =
                Append(@, [name |-> n, node |-> decs + 1])]
  /\ Declares("var", n)
  /\ Var!put(n, decs + 1)
  /\ in_vardec_' = FALSE
  /\ error_' = (error_ \/ n \in Declared(Top))
  /\ UNCHANGED <<scoped_map_fun_, scoped_map_typ_, loop_stack_,
                 is_main_defined_, in_loop_, in_formals_, done>>

EndOfFormals ==
  /\ In("fundec", "formals")
  /\ GoTo("body")
  /\ in_formals_' = FALSE
  /\ named' = Nothing
  /\ UNCHANGED <<maps, loop_stack_, is_main_defined_, in_loop_, in_vardec_,
                 error_, decs, done>>

LeaveFunctionDec ==
  /\ In("fundec", "body")
  /\ Return
  /\ Fun!scope_end
  /\ Var!scope_end
  /\ named' = Nothing
  /\ UNCHANGED <<scoped_map_typ_, loop_stack_, is_main_defined_, flags, error_,
                 decs, done>>

\* The end of a construct that leaves no trace.
LeaveDec ==
  /\ \/ In("typedec", "body")
     \/ In("funchunk", "body") /\ Top.todo = <<>>
     \/ In("typchunk", "body") /\ Top.todo = <<>>
  /\ Return
  /\ named' = Nothing
  /\ UNCHANGED <<maps, loop_stack_, is_main_defined_, flags, error_, decs, done>>

-----------------------------------------------------------------------------
(* Variables.                                                              *)

\* A variable of a let, or that of a for loop: it is put before its initial
\* value is visited.
VarDec(n) ==
  /\ AtDecs \/ In("for", "vardec")
  /\ Declares("var", n)
  /\ Var!put(n, decs + 1)
  /\ Enter("vardec", "body")
  /\ in_vardec_' = TRUE
  /\ UNCHANGED <<scoped_map_fun_, scoped_map_typ_, loop_stack_,
                 is_main_defined_, in_loop_, in_formals_, error_, done>>

LeaveVarDec ==
  /\ In("vardec", "body")
  /\ LET up == Len(walk) - 1 IN
       walk' = [i \in 1..up |->
                  IF i = up /\ walk[i].kind = "for" THEN [walk[i] EXCEPT !.part = "hi"]
                                                    ELSE walk[i]]
  /\ in_vardec_' = FALSE
  /\ named' = Nothing
  /\ UNCHANGED <<maps, loop_stack_, is_main_defined_, in_loop_, in_formals_,
                 error_, decs, done>>

-----------------------------------------------------------------------------
(* Expressions that open scopes.                                           *)

LetExp ==
  /\ AtExp
  /\ Enter("let", "decs")
  /\ Fun!scope_begin
  /\ Var!scope_begin
  /\ Typ!scope_begin
  /\ named' = Nothing
  /\ UNCHANGED <<loop_stack_, is_main_defined_, flags, error_, decs, done>>

EndOfDecs ==
  /\ In("let", "decs")
  /\ GoTo("body")
  /\ named' = Nothing
  /\ UNCHANGED <<maps, loop_stack_, is_main_defined_, flags, error_, decs, done>>

\* The scope of the types left open.
LeaveLet_Bug ==
  /\ In("let", "body")
  /\ Return
  /\ Fun!scope_end
  /\ Var!scope_end
  /\ named' = Nothing
  /\ UNCHANGED <<scoped_map_typ_, loop_stack_, is_main_defined_, flags, error_,
                 decs, done>>

LeaveLet ==
  /\ In("let", "body")
  /\ Return
  /\ Fun!scope_end
  /\ Var!scope_end
  /\ Typ!scope_end
  /\ named' = Nothing
  /\ UNCHANGED <<loop_stack_, is_main_defined_, flags, error_, decs, done>>

\* A loop is pushed before its variable, bound or condition is visited.
EnterLoop(kind, part) ==
  /\ AtExp
  /\ Enter(kind, part)
  /\ Var!scope_begin
  /\ loop_stack_' = Append(loop_stack_, Len(walk) + 1)
  /\ in_loop_' = TRUE
  /\ named' = Nothing
  /\ UNCHANGED <<scoped_map_fun_, scoped_map_typ_, is_main_defined_,
                 in_formals_, in_vardec_, error_, decs, done>>

ForExp == EnterLoop("for", "vardec")
WhileExp == EnterLoop("while", "test")

LoopBody ==
  /\ In("for", "hi") \/ In("while", "test")
  /\ GoTo("body")
  /\ in_loop_' = FALSE
  /\ named' = Nothing
  /\ UNCHANGED <<maps, loop_stack_, is_main_defined_, in_formals_, in_vardec_,
                 error_, decs, done>>

\* The scope of the loop variable left open; the loop never popped.
LeaveLoop_ScopeBug ==
  /\ In("for", "body") \/ In("while", "body")
  /\ Return
  /\ loop_stack_' = SubSeq(loop_stack_, 1, Len(loop_stack_) - 1)
  /\ named' = Nothing
  /\ UNCHANGED <<maps, is_main_defined_, flags, error_, decs, done>>
LeaveLoop_StackBug ==
  /\ In("for", "body") \/ In("while", "body")
  /\ Return
  /\ Var!scope_end
  /\ named' = Nothing
  /\ UNCHANGED <<scoped_map_fun_, scoped_map_typ_, loop_stack_,
                 is_main_defined_, flags, error_, decs, done>>

LeaveLoop ==
  /\ In("for", "body") \/ In("while", "body")
  /\ Return
  /\ Var!scope_end
  /\ loop_stack_' = SubSeq(loop_stack_, 1, Len(loop_stack_) - 1)
  /\ named' = Nothing
  /\ UNCHANGED <<scoped_map_fun_, scoped_map_typ_, is_main_defined_, flags,
                 error_, decs, done>>

-----------------------------------------------------------------------------
(* Uses.                                                                   *)

CallExp(n) ==
  /\ AtExp
  /\ Enter("call", "body")
  /\ Bind("fun", n, Fun!get(n))
  /\ in_formals_' = TRUE
  /\ UNCHANGED <<maps, loop_stack_, is_main_defined_, in_loop_, in_vardec_,
                 decs, done>>

\* The flag of the arguments left up.
LeaveCall_Bug ==
  /\ In("call", "body")
  /\ Return
  /\ named' = Nothing
  /\ UNCHANGED <<maps, loop_stack_, is_main_defined_, flags, error_, decs, done>>

LeaveCall ==
  /\ In("call", "body")
  /\ Return
  /\ in_formals_' = FALSE
  /\ named' = Nothing
  /\ UNCHANGED <<maps, loop_stack_, is_main_defined_, in_loop_, in_vardec_,
                 error_, decs, done>>

SimpleVar(n) ==
  /\ AtExp
  /\ Bind("var", n, Var!get(n))
  /\ UNCHANGED <<maps, loop_stack_, is_main_defined_, flags, walk, decs, done>>

\* The builtin types are not looked up.
NameTy(n) ==
  /\ AtExp \/ In("typedec", "body") \/ In("fundec", "formals")
  /\ \/ n \notin BuiltinTypes /\ Bind("typ", n, Typ!get(n))
     \/ n \in BuiltinTypes /\ named' = Nothing /\ UNCHANGED error_
  /\ UNCHANGED <<maps, loop_stack_, is_main_defined_, flags, walk, decs, done>>

\* A break outside any loop, or while a flag is up, is refused.
Refused == loop_stack_ = <<>> \/ in_loop_ \/ in_vardec_ \/ in_formals_

BreakExp ==
  /\ AtExp
  /\ \/ /\ Refused
        /\ error_' = TRUE
        /\ named' = Nothing
     \/ /\ ~Refused
        /\ named' = [space |-> "loop", name |-> "break",
                   node |-> loop_stack_[Len(loop_stack_)]]
        /\ UNCHANGED error_
  /\ UNCHANGED <<maps, loop_stack_, is_main_defined_, flags, walk, decs, done>>

-----------------------------------------------------------------------------
\* bindings_compute, after the visit.
Finish ==
  /\ walk = <<>>
  /\ ~done
  /\ done' = TRUE
  /\ error_' = (error_ \/ ~is_main_defined_)
  /\ named' = Nothing
  /\ UNCHANGED <<maps, loop_stack_, is_main_defined_, flags, walk, decs>>

Init ==
  /\ Fun!Init /\ Var!Init /\ Typ!Init
  /\ loop_stack_ = <<>>
  /\ is_main_defined_ = FALSE
  /\ in_loop_ = FALSE /\ in_formals_ = FALSE /\ in_vardec_ = FALSE
  /\ error_ = FALSE
  /\ walk = <<>>
  /\ decs = 0
  /\ named = Nothing
  /\ done = FALSE

Next ==
  \/ FunctionChunk \/ TypeChunk
  \/ \E n \in FunName : FunctionHeader(n) \/ CallExp(n)
  \/ \E n \in TypName : TypeHeader(n) \/ NameTy(n)
  \/ \E n \in VarName : Formal(n) \/ VarDec(n) \/ SimpleVar(n)
  \/ FunctionDec \/ EndOfFormals \/ LeaveFunctionDec
  \/ TypeDec \/ LeaveDec \/ LeaveVarDec
  \/ LetExp \/ EndOfDecs \/ LeaveLet
  \/ ForExp \/ WhileExp \/ LoopBody \/ LeaveLoop
  \/ LeaveCall \/ BreakExp \/ Finish

Spec == Init /\ [][Next]_vars

-----------------------------------------------------------------------------
(* Properties.                                                             *)

\* The types of the Binder's state.
TypeOK ==
  /\ \A m \in {scoped_map_fun_, scoped_map_var_, scoped_map_typ_} :
       m # <<>> /\ \A i \in DOMAIN m : Range(m[i]) \subseteq Node
  /\ loop_stack_ \in Seq(Loop)
  /\ {is_main_defined_, error_, done} \union {flags[i] : i \in 1..3} \subseteq BOOLEAN
  /\ walk \in Seq(Frame)
  /\ decs \in 0..MaxDecs
  /\ named = Nothing \/ named.node \in Node \union Loop

\* How many constructs of some kinds enclose the i-th one of walk.
Around(i, kinds) == Cardinality({j \in 1..(i - 1) : walk[j].kind \in kinds})
OpenFun(i) == 1 + Around(i, {"let", "fundec"})
OpenVar(i) == 1 + Around(i, {"let", "fundec", "for", "while"})
OpenTyp(i) == 1 + Around(i, {"let"})

\* The three tables are opened and closed by different constructs; whatever
\* their nesting, each is exactly as deep as the constructs being visited,
\* so that no scope outlives its construct and the global one is never lost.
ScopesMatchConstructs ==
  LET here == Len(walk) + 1 IN
    /\ Len(scoped_map_fun_) = OpenFun(here)
    /\ Len(scoped_map_var_) = OpenVar(here)
    /\ Len(scoped_map_typ_) = OpenTyp(here)

\* What names mean where the i-th construct of walk opens.
EnvAt(i) ==
  LET names == FunName \union VarName \union TypName IN
    [fun |-> [n \in names |-> Fun!GetIn(scoped_map_fun_, OpenFun(i), n)],
     var |-> [n \in names |-> Var!GetIn(scoped_map_var_, OpenVar(i), n)],
     typ |-> [n \in names |-> Typ!GetIn(scoped_map_typ_, OpenTyp(i), n)]]

Opens(i) == walk[i].kind \in {"let", "fundec", "for", "while"}
NthOpen(j) ==
  CHOOSE i \in DOMAIN walk :
    Opens(i) /\ Cardinality({h \in 1..i : Opens(h)}) = j

BoundLoop == named # Nothing /\ named.space = "loop"

Lexical == INSTANCE LexicalScoping WITH
  Space <- {"fun", "var", "typ"},
  Name <- FunName \union VarName \union TypName,
  env <- EnvAt(Len(walk) + 1),
  outer <- [j \in 1..Cardinality({i \in DOMAIN walk : Opens(i)}) |->
              EnvAt(NthOpen(j))],
  named <- IF BoundLoop THEN Nothing ELSE named,
  valid <- ~error_

\* "Binding identifier uses to their definitions" (binder.hh): with three
\* tables that different constructs open, chunks declared before they are
\* visited and loop variables declared within the loop, a use is bound to
\* the declaration lexical scoping gives it.
IsLexicalScoping == Lexical!Spec

\* "so that other functions can call it" (binder.hh): until a chunk of
\* functions has been visited, every function of it means, where the chunk
\* stands, the declaration of the chunk: the bodies may call each other.
ChunksAreRecursive ==
  ~error_ =>
    \A i \in DOMAIN walk : walk[i].kind = "funchunk" =>
      \A d \in Range(walk[i].todo) :
        Fun!GetIn(scoped_map_fun_, OpenFun(i), d.name) = d.node

IsLoop(i) == walk[i].kind \in {"for", "while"}

\* "The loop it breaks" (break-exp.hh): a break is bound to the innermost
\* loop around it.
BreaksInnermostLoop ==
  BoundLoop => /\ named.node \in DOMAIN walk
               /\ IsLoop(named.node)
               /\ \A i \in (named.node + 1)..Len(walk) : ~IsLoop(i)

\* A break is never refused because of a construct that is over: a flag is
\* up only inside a construct that raises it.
FlagsAreJustified ==
  LET Inside(kind, parts) ==
        \E i \in DOMAIN walk : walk[i].kind = kind /\ walk[i].part \in parts
  IN /\ in_loop_ => Inside("for", {"vardec", "hi"}) \/ Inside("while", {"test"})
     /\ in_formals_ => Inside("call", {"body"}) \/ Inside("fundec", {"formals"})
     /\ in_vardec_ => Inside("vardec", {"body"})

\* The Binder diagnoses a "`break` outside any loop" (binder.cc): no break is
\* bound to a loop outside of the function it stands in.
NoBreakOutOfFunction ==
  BoundLoop => \A i \in named.node..Len(walk) : walk[i].kind # "fundec"
=============================================================================

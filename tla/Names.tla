-------------------------------- MODULE Names --------------------------------
(***************************************************************************)
(* What the passes between the Binder and the translation do to the        *)
(* declarations of a program: bind::Renamer (src/src/bind/renamer.cc)      *)
(* makes the names unique and escapes::EscapesVisitor                      *)
(* (src/src/escapes/escapes-visitor.cc) marks the variables that escape.   *)
(*                                                                         *)
(* A program is the sequence of the events its visit meets, in the order   *)
(* of ast::DefaultVisitor: the declarations, the uses, the ends of the     *)
(* functions and the bounds of the chunks.  It is written one construct at *)
(* a time, as the grammar and the scoping rules allow, and then visited by *)
(* one pass after the other, an event a step.                              *)
(***************************************************************************)
EXTENDS Integers, Sequences, FiniteSets, SequencesExt

CONSTANTS
  FunName, TypName,  \* the names of functions and of types, taken in turn
  VarName,     \* the name of every variable
  Primitive,   \* the primitive of the prelude, a name
  Main,        \* "_main"
  Unused,      \* a bound: the names that no use is of
  MaxDecs, MaxVars, MaxUses, MaxChunk

ASSUME NamesAssumption ==
  /\ Primitive \in STRING /\ Main \in STRING /\ VarName \in STRING
  /\ FunName \in Seq(STRING) /\ TypName \in Seq(STRING)
  /\ MaxDecs \in Nat \ {0, 1, 2} /\ MaxVars \in Nat /\ MaxUses \in Nat /\ MaxChunk \in Nat \ {0}
  /\ IsInjective(FunName) /\ MaxChunk <= Len(FunName)
  /\ IsInjective(TypName) /\ MaxChunk <= Len(TypName)

VARIABLES
  decs,     \* the declarations met so far: a declaration is its index
  program,  \* the events met so far
  walk,     \* the constructs being written, each with what it declares
  phase,    \* the pass that comes next
  name,     \* the name of every declaration
  spelled,  \* the name at every use
  escapes,  \* the declarations of variables whose escape flag is set
  at,       \* the event a pass visits
  unique_number_, scoped_map_, in_primitive

written == <<decs, program, walk>>
names == <<name, spelled, unique_number_>>
flags == <<escapes, scoped_map_, in_primitive>>
nvars == <<written, phase, at, names, flags>>

\* The name space of a declaration.
Space(d) == IF decs[d].kind = "prim" THEN "fun" ELSE decs[d].kind

\* A use is in an expression of the function it is within.
Event(op, id) == [op |-> op, id |-> id, within |-> 0, scope |-> {}]
Uses == {i \in DOMAIN program : program[i].op = "use"}
IsVar(d) == decs[d].kind = "var"
IsFun(d) == decs[d].kind \in {"fun", "prim"}

-----------------------------------------------------------------------------
(* Writing a program: only what the Binder accepts.                        *)

Top == walk[Len(walk)]
AtExp == phase = "write" /\ Len(walk) > 1 /\ Top.kind = "fun"
AtDecs == phase = "write" /\ Len(walk) > 1 /\ Top.todo # <<>>

InScope == UNION {ToSet(walk[i].decs) : i \in DOMAIN walk}

\* Of two declarations of one name in scope, the later hides the other.
Visible == {d \in InScope : \A e \in InScope :
              /\ e > d
              /\ Space(e) = Space(d)
              => decs[e].name # decs[d].name}

Owner == LET f == CHOOSE i \in DOMAIN walk :
                    /\ walk[i].kind = "fun"
                    /\ \A j \in DOMAIN walk : walk[j].kind = "fun" => j <= i
         IN walk[f].id

Use(d) == [op |-> "use", id |-> d, within |-> Owner,
           scope |-> {e \in InScope : Space(e) = Space(d)}]

Declare(kind, n, owner) == [kind |-> kind, name |-> n, owner |-> owner]
Written == UNCHANGED <<phase, at, names, flags>>
UsesLeft == MaxUses - Cardinality(Uses)

\* A call or a variable.
WriteUse ==
  /\ AtExp /\ UsesLeft > 0
  /\ \E d \in Visible :
       /\ decs[d].kind # "typ" /\ decs[d].name \notin Unused
       /\ program' = Append(program, Use(d))
  /\ UNCHANGED <<decs, walk>> /\ Written

\* let var n := init in ...: a use in init is one of those that follow.
WriteVarDec ==
  /\ AtExp /\ Len(decs) < MaxDecs
  /\ Cardinality({d \in DOMAIN decs : IsVar(d)}) <= MaxVars   \* and the formal
  /\ decs' = Append(decs, Declare("var", VarName, Owner))
  /\ program' = Append(program, Event("dec", Len(decs) + 1))
  /\ walk' = [walk EXCEPT ![Len(walk)].decs = Append(@, Len(decs) + 1)]
  /\ Written

ChunkOf(kind) == IF kind = "fun" THEN "funchunk" ELSE "typchunk"

\* let followed by a chunk of functions, or of types: all are in scope at once.
WriteChunk ==
  /\ AtExp
  /\ \E kind \in {"fun", "typ"}, k \in 1..MaxChunk :
       LET Names == IF kind = "fun" THEN FunName ELSE TypName
           ids == [i \in 1..k |-> Len(decs) + i] IN
       /\ Len(decs) + k <= MaxDecs
       \* types and functions do not meet: a program has either
       /\ \A d \in DOMAIN decs : decs[d].kind \notin {"fun", "typ"} \ {kind} \/ d <= 3
       /\ decs' = decs \o [i \in 1..k |-> Declare(kind, Names[1 + (ids[i] % Len(Names))], Owner)]
       /\ walk' = Append(walk, [kind |-> ChunkOf(kind), id |-> 0, decs |-> ids, todo |-> ids])
       /\ program' = IF kind = "fun" THEN Append(program, Event("chunk", 0)) ELSE program
  /\ Written

\* A formal is a VarDec too: one declared first in the body stands for it.
WriteFunDec ==
  /\ AtDecs /\ decs[Head(Top.todo)].kind = "fun"
  /\ walk' = Append([walk EXCEPT ![Len(walk)].todo = Tail(@)],
                    [kind |-> "fun", id |-> Head(Top.todo), decs |-> <<>>, todo |-> <<>>])
  /\ program' = Append(program, Event("dec", Head(Top.todo)))
  /\ decs' = decs /\ Written

WriteTypeDec ==
  /\ AtDecs /\ decs[Head(Top.todo)].kind = "typ"
  /\ walk' = [walk EXCEPT ![Len(walk)].todo = Tail(Top.todo)]
  /\ \E ty \in {<<>>} \union {<<Use(d)>> : d \in {d \in Visible : decs[d].kind = "typ"}} :
       /\ Len(ty) <= UsesLeft
       /\ program' = program \o <<Event("dec", Head(Top.todo))>> \o ty
  /\ decs' = decs /\ Written

\* The end of a chunk, which stays in scope up to the end of the function (as
\* every let is taken to last), and the end of a function.
WriteEnd ==
  /\ phase = "write" /\ Len(walk) > 1 /\ Top.todo = <<>>
  /\ LET Outer == walk[Len(walk) - 1] IN
     walk' = IF Top.kind = "fun" THEN Front(walk)
             ELSE Append(SubSeq(walk, 1, Len(walk) - 2),
                         [Outer EXCEPT !.decs = @ \o Top.decs])
  /\ program' = CASE Top.kind = "funchunk" -> Append(program, Event("endchunk", 0))
                  [] Top.kind = "fun" -> Append(program, Event("end", Top.id))
                  [] OTHER -> program
  /\ decs' = decs /\ Written

\* _main is over: the Binder ends the program, with the names it was written with.
WriteAll ==
  /\ phase = "write" /\ Len(walk) = 1
  /\ UsesLeft = 0   \* a program of fewer uses shows nothing more
  /\ phase' = "bound"
  /\ program' = Append(program, Event("endchunk", 0))
  /\ name' = [d \in DOMAIN decs |-> <<decs[d].name>>]
  /\ spelled' = [i \in Uses |-> <<decs[program[i].id].name>>]
  /\ UNCHANGED <<decs, walk, at, unique_number_, flags>>

-----------------------------------------------------------------------------
(* A pass over the program: the default visitor goes from event to event.  *)

Here == program[at]
Visiting(pass) == phase = pass /\ at <= Len(program)
Begin(pass) == phase' = pass /\ at' = 1 /\ UNCHANGED written
Go == at' = at + 1 /\ UNCHANGED <<written, phase>>
Finish(pass, next) ==
  phase = pass /\ at > Len(program) /\ phase' = next /\ UNCHANGED <<written, at>>

-----------------------------------------------------------------------------
(* The Renamer.                                                            *)

\* Primitives and _main keep their names.
Renamed(d) == IsFun(d) => decs[d].kind = "fun" /\ decs[d].name # Main

rename ==
  /\ phase = "bound" /\ Begin("renaming")
  /\ unique_number_' = 0
  /\ UNCHANGED <<name, spelled, flags>>

RenameDec ==
  /\ Visiting("renaming") /\ Here.op = "dec" /\ Renamed(Here.id)
  /\ name' = [name EXCEPT ![Here.id] = Append(@, unique_number_)]
  /\ unique_number_' = unique_number_ + 1
  /\ Go /\ UNCHANGED <<spelled, flags>>

\* Only calls are renamed again.
RenameUse_Bug ==
  /\ Visiting("renaming") /\ Here.op = "use"
  /\ spelled' = IF IsVar(Here.id) THEN spelled ELSE [spelled EXCEPT ![at] = name[Here.id]]
  /\ Go /\ UNCHANGED <<name, unique_number_, flags>>

\* A use takes the name its declaration has by then.
RenameUse ==
  /\ Visiting("renaming") /\ Here.op = "use"
  /\ spelled' = [spelled EXCEPT ![at] = name[Here.id]]
  /\ Go /\ UNCHANGED <<name, unique_number_, flags>>

RenameOther ==
  /\ Visiting("renaming")
  /\ Here.op # "use" /\ ~(Here.op = "dec" /\ Renamed(Here.id))
  /\ Go /\ UNCHANGED <<names, flags>>

EndOfRename == Finish("renaming", "renamed") /\ UNCHANGED <<names, flags>>

Renamer == rename \/ RenameDec \/ RenameUse \/ RenameOther \/ EndOfRename

-----------------------------------------------------------------------------
(* The EscapesVisitor.                                                     *)

\* The task escapes-compute, with or without the names renamed.
escapes_compute ==
  /\ phase \in {"bound", "renamed"}
  /\ Begin(IF phase = "bound" THEN "displaying" ELSE "escaping")
  /\ escapes' = {} /\ scoped_map_' = <<{}>> /\ in_primitive' = FALSE
  /\ UNCHANGED names

Escaping == Visiting("escaping") \/ Visiting("displaying")

EscapesFunctionDec ==
  /\ Escaping /\ Here.op = "dec" /\ IsFun(Here.id)
  /\ scoped_map_' = Append(scoped_map_, {})
  /\ in_primitive' = (in_primitive \/ decs[Here.id].kind = "prim")
  /\ Go /\ UNCHANGED <<names, escapes>>

EscapesEnd ==
  /\ Escaping /\ Here.op = "end"
  /\ scoped_map_' = Front(scoped_map_) /\ in_primitive' = FALSE
  /\ Go /\ UNCHANGED <<names, escapes>>

EscapesVarDec ==
  /\ Escaping /\ Here.op = "dec" /\ IsVar(Here.id)
  /\ escapes' = IF in_primitive THEN escapes \ {Here.id} ELSE escapes \union {Here.id}
  /\ scoped_map_' = [scoped_map_ EXCEPT ![Len(scoped_map_)] = @ \union {name[Here.id]}]
  /\ Go /\ UNCHANGED <<names, in_primitive>>

\* Every scope is searched, and not the last one only.
EscapesSimpleVar_Bug ==
  /\ Escaping /\ Here.op = "use" /\ IsVar(Here.id)
  /\ escapes' = IF \E s \in ToSet(scoped_map_) : spelled[at] \in s
                  THEN escapes \ {Here.id} ELSE escapes
  /\ Go /\ UNCHANGED <<names, scoped_map_, in_primitive>>

EscapesSimpleVar ==
  /\ Escaping /\ Here.op = "use" /\ IsVar(Here.id)
  /\ escapes' = IF spelled[at] \in Last(scoped_map_) THEN escapes \ {Here.id} ELSE escapes
  /\ Go /\ UNCHANGED <<names, scoped_map_, in_primitive>>

EscapesOther ==
  /\ Escaping
  /\ \/ Here.op \in {"chunk", "endchunk"}
     \/ Here.op = "dec" /\ decs[Here.id].kind = "typ"
     \/ Here.op = "use" /\ ~IsVar(Here.id)
  /\ Go /\ UNCHANGED <<names, flags>>

EndOfEscapes ==
  /\ Finish("escaping", "escaped") \/ Finish("displaying", "displayed")
  /\ UNCHANGED <<names, flags>>

EscapesVisitor ==
  \/ escapes_compute \/ EscapesFunctionDec \/ EscapesEnd \/ EscapesVarDec
  \/ EscapesSimpleVar \/ EscapesOther \/ EndOfEscapes

-----------------------------------------------------------------------------
\* The prelude, then the chunk of _main, whose body is about to be written.
NInit ==
  /\ decs = <<Declare("prim", Primitive, 0), Declare("var", "formal", 1),
              Declare("fun", Main, 0)>>
  /\ program = <<Event("chunk", 0), Event("dec", 1), Event("dec", 2), Event("end", 1),
                 Event("endchunk", 0), Event("chunk", 0), Event("dec", 3)>>
  /\ walk = <<[kind |-> "let", id |-> 0, decs |-> <<1, 3>>, todo |-> <<>>],
              [kind |-> "fun", id |-> 3, decs |-> <<>>, todo |-> <<>>]>>
  /\ phase = "write" /\ at = 0
  /\ name = <<>> /\ spelled = <<>> /\ unique_number_ = 0
  /\ escapes = {} /\ scoped_map_ = <<>> /\ in_primitive = FALSE

Write == WriteUse \/ WriteVarDec \/ WriteChunk \/ WriteFunDec \/ WriteTypeDec
         \/ WriteEnd \/ WriteAll

NNext == Write \/ Renamer \/ EscapesVisitor
=============================================================================

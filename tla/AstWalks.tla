------------------------------ MODULE AstWalks ------------------------------
(***************************************************************************)
(* The visitors that rebuild, print and free a tree:                       *)
(* ast::DefaultVisitor (src/src/ast/default-visitor.hxx), ast::DumperDot   *)
(* (src/src/ast/dumper-dot.cc), astclone::Cloner (src/src/astclone/),      *)
(* and the destructors.                                                    *)
(*                                                                         *)
(* Nodes live in a heap and members are addresses: what the visitors share *)
(* with their own recursive calls (result_, parent_id, parent_field) and   *)
(* the ownership of the nodes are what can go wrong.  The tree is built    *)
(* first, one member at a time, then dumped, visited, cloned, and deleted  *)
(* as astclone::apply does, and the clone after it.                        *)
(***************************************************************************)
EXTENDS Integers, FiniteSets, SequencesExt, Ast

CONSTANTS
  Budget,    \* how many members are not the least the constructors take
  MaxList,   \* how long a list is
  Null

ASSUME AstWalksAssumption == Budget \in Nat /\ MaxList \in Nat /\ Null \notin Nat

VARIABLES
  heap,      \* the nodes allocated: a class, and the addresses of each member
  todo,      \* the members of the tree yet to be given
  spare,     \* what is left of the budget
  phase,
  stack,     \* the calls of the visitor under way, or the deletes
  visited,   \* the nodes the DefaultVisitor visited, in order
  parent_id, parent_field,   \* of the DumperDot
  ports,     \* for every node dumped, the ports it was printed with
  links,     \* the links printed: a node, one of its ports, another node
  result_,   \* of the Cloner
  freed      \* the addresses deleted, in order

tree == <<heap, todo, spare>>
dumper == <<parent_id, parent_field, ports, links>>
vars == <<tree, phase, stack, visited, dumper, result_, freed>>

Root == 1
Members(k) == Class[k].members
Children(n) == FlattenSeq([i \in DOMAIN Members(heap[n].k) |->
                             heap[n].m[Members(heap[n].k)[i].name]])

-----------------------------------------------------------------------------
(* Building a tree.                                                        *)

Blank(k) == [k |-> k, m |-> [x \in {Members(k)[i].name : i \in DOMAIN Members(k)} |-> <<>>]]
Slots(n, k) == [i \in DOMAIN Members(k) |-> <<n, Members(k)[i]>>]

Least == [Exp |-> "NilExp", Var |-> "SimpleVar", Ty |-> "NameTy", NameTy |-> "NameTy",
          VarDec |-> "VarDec", FunctionDec |-> "FunctionDec", TypeDec |-> "TypeDec",
          MethodDec |-> "MethodDec", Field |-> "Field", FieldInit |-> "FieldInit",
          ChunkList |-> "ChunkList", VarChunk |-> "VarChunk",
          ChunkInterface |-> "TypeChunk"]

\* The next member is given n nodes, each of the class expected or, at the
\* expense of the budget, of any class derived from it.
Build ==
  /\ phase = "build" /\ todo # <<>>
  /\ LET slot == Head(todo)
         name == slot[2].name
         type == slot[2].type
         at == Len(heap) IN
     \E n \in slot[2].min..(IF slot[2].many THEN MaxList ELSE 1) :
     \E ks \in [1..n -> Below(type)] :
       LET cost == Cardinality({i \in 1..n : ks[i] # Least[type]})
                   + (IF n > slot[2].min THEN 1 ELSE 0) IN
       /\ cost <= spare
       /\ spare' = spare - cost
       /\ heap' = [heap EXCEPT ![slot[1]].m[name] = [i \in 1..n |-> at + i]]
                  \o [i \in 1..n |-> Blank(ks[i])]
       /\ todo' = Tail(todo) \o FlattenSeq([i \in 1..n |-> Slots(at + i, ks[i])])
  /\ UNCHANGED <<phase, stack, visited, dumper, result_, freed>>

Call(k) == Append(stack, k)
Top == stack[Len(stack)]

Built ==
  /\ phase = "build" /\ todo = <<>>
  /\ phase' = "dump" /\ stack' = <<[call |-> Root]>>
  /\ UNCHANGED <<tree, visited, dumper, result_, freed>>

-----------------------------------------------------------------------------
(* The DumperDot.  For every class, the ports its node is printed with (a  *)
(* list has ports of its own) and the members it goes through.             *)

Dot(explicit, members) == [ports |-> explicit \union {"nodename"}, members |-> members]

DotAtoF ==
  [ArrayExp |-> Dot({"type", "type_name", "size", "init"}, <<"type_name", "size", "init">>),
   ArrayTy |-> Dot({"base_type"}, <<"base_type">>),
   AssignExp |-> Dot({"var", "exp"}, <<"var", "exp">>),
   BreakExp |-> Dot({"def"}, <<>>),
   CallExp |-> Dot({"name", "def"}, <<"args">>),
   CastExp |-> Dot({"exp", "ty"}, <<"exp", "ty">>),
   ClassTy |-> Dot({"super", "chunks"}, <<"super", "chunks">>),
   Field |-> Dot({"name", "type_name"}, <<"type_name">>),
   FieldInit |-> Dot({"name", "init"}, <<"init">>),
   FieldVar |-> Dot({"field", "var"}, <<"var">>),
   ForExp |-> Dot({"vardec", "hi", "body"}, <<"vardec", "hi", "body">>),
   FunctionDec |-> Dot({"name", "formals", "result", "body"}, <<"formals", "result", "body">>)]

DotItoR ==
  [IfExp |-> Dot({"test", "thenclause", "elseclause"}, <<"test", "thenclause", "elseclause">>),
   IntExp |-> Dot({"value"}, <<>>),
   LetExp |-> Dot({"chunks", "body"}, <<"chunks", "body">>),
   MethodCallExp |-> Dot({"name", "object", "args", "def"}, <<"object", "args">>),
   MethodDec |-> Dot({"name", "formals", "result", "body"}, <<"formals", "result", "body">>),
   NameTy |-> Dot({"name", "def"}, <<>>),
   NilExp |-> Dot({}, <<>>),
   ObjectExp |-> Dot({"type_name"}, <<"type_name">>),
   OpExp |-> Dot({"oper", "left", "right"}, <<"left", "right">>),
   RecordExp |-> Dot({"type_name"}, <<"type_name", "fields">>),
   RecordTy |-> Dot({}, <<"fields">>)]

DotStoW ==
  [SeqExp |-> Dot({}, <<"exps">>),
   SimpleVar |-> Dot({"name", "def"}, <<>>),
   StringExp |-> Dot({"string"}, <<>>),
   SubscriptVar |-> Dot({"var", "index"}, <<"var", "index">>),
   TypeDec |-> Dot({"name", "ty"}, <<"ty">>),
   VarDec |-> Dot({"name", "type_name", "init", "escapable"}, <<"type_name", "init">>),
   WhileExp |-> Dot({"test", "body"}, <<"test", "body">>)]

\* dump_chunk: the list of a chunk, or of chunks, has the port of the node.
dump_chunk(member) == Dot({}, <<member>>)
Chunks == {"ChunkList", "FunctionChunk", "MethodChunk", "TypeChunk", "VarChunk"}
DotOf(k) == IF k \in Chunks THEN dump_chunk(IF k = "ChunkList" THEN "chunks" ELSE "decs")
            ELSE IF k \in DOMAIN DotAtoF THEN DotAtoF[k]
            ELSE IF k \in DOMAIN DotItoR THEN DotItoR[k] ELSE DotStoW[k]

\* An if without else has no port for it; the other ports do not depend on the node.
Ports(n) == DotOf(heap[n].k).ports
            \ (IF heap[n].k = "IfExp" /\ heap[n].m["elseclause"] = <<>>
               THEN {"elseclause"} ELSE {})

IsList(k, member) == \E i \in DOMAIN Members(k) : Members(k)[i].name = member /\ Members(k)[i].many
PortOf(k, member) == IF k \in Chunks THEN "nodename" ELSE member

\* The field a link starts from is a pointer to one of these names, numbered or
\* not: none is the null pointer.
Fields == {"nodename"} \union UNION {{Members(k)[i].name : i \in DOMAIN Members(k)} : k \in DOMAIN Class}

ASSUME FieldAssumption == Null \notin Seq(Fields) /\ Null \notin Fields \X Nat

\* Every port of a list of several is numbered, but the first.
node_html_port_list_Bug(ref, size) ==
  {<<ref>>} \union (IF size > 1 THEN {<<ref, i>> : i \in 1..(size - 1)} ELSE {})

\* The port of a list and, if it has several elements, one for each.
node_html_port_list(ref, size) ==
  {<<ref>>} \union (IF size > 1 THEN {<<ref, i>> : i \in 0..(size - 1)} ELSE {})

PortsOf(n) ==
  LET k == heap[n].k IN
  {<<p>> : p \in Ports(n)}
  \union UNION {node_html_port_list(PortOf(k, x), Len(heap[n].m[x])) :
                  x \in {x \in ToSet(DotOf(k).members) : IsList(k, x)}}

\* What dump and dump_list go through: the field each link will start from.
dump_list(ref, l) ==
  [i \in DOMAIN l |-> [field |-> IF Len(l) > 1 THEN <<ref, i - 1>> ELSE <<ref>>, node |-> l[i]]]
Dumps(n) == LET k == heap[n].k IN
  FlattenSeq([i \in DOMAIN DotOf(k).members |->
                LET x == DotOf(k).members[i] IN dump_list(PortOf(k, x), heap[n].m[x])])

\* node_html_header to footer_and_link: the link comes from the former parent.
DumpNode ==
  /\ phase = "dump" /\ stack # <<>> /\ "call" \in DOMAIN Top
  /\ LET n == Top.call IN
     /\ parent_id' = n
     /\ ports' = Append(ports, <<n, PortsOf(n)>>)
     /\ links' = IF parent_field = Null THEN links
                 ELSE links \union {<<parent_id, parent_field, n>>}
     /\ stack' = Append(Front(stack), [node |-> n, dumps |-> Dumps(n),
                   old_parent_id |-> parent_id, old_parent_field |-> parent_field])
  /\ UNCHANGED <<tree, phase, visited, parent_field, result_, freed>>

DumpMember ==
  /\ phase = "dump" /\ stack # <<>> /\ "dumps" \in DOMAIN Top /\ Top.dumps # <<>>
  /\ parent_field' = Head(Top.dumps).field
  /\ stack' = Append([stack EXCEPT ![Len(stack)].dumps = Tail(@)],
                     [call |-> Head(Top.dumps).node])
  /\ UNCHANGED <<tree, phase, visited, parent_id, ports, links, result_, freed>>

\* A leaf does not restore the parent.
DumpEnd_Bug ==
  /\ phase = "dump" /\ stack # <<>> /\ "dumps" \in DOMAIN Top /\ Top.dumps = <<>>
  /\ parent_id' = IF Children(Top.node) = <<>> THEN parent_id ELSE Top.old_parent_id
  /\ parent_field' = Top.old_parent_field
  /\ stack' = Front(stack)
  /\ UNCHANGED <<tree, phase, visited, ports, links, result_, freed>>

\* The end of a visit: the caller finds its parent_id and parent_field again.
DumpEnd ==
  /\ phase = "dump" /\ stack # <<>> /\ "dumps" \in DOMAIN Top /\ Top.dumps = <<>>
  /\ parent_id' = Top.old_parent_id
  /\ parent_field' = Top.old_parent_field
  /\ stack' = Front(stack)
  /\ UNCHANGED <<tree, phase, visited, ports, links, result_, freed>>

-----------------------------------------------------------------------------
(* The DefaultVisitor: the members each visit accepts, in order.           *)

VisitsToArray ==
  [SimpleVar |-> <<>>, FieldVar |-> <<"var">>, SubscriptVar |-> <<"var", "index">>,
   NilExp |-> <<>>, IntExp |-> <<>>, StringExp |-> <<>>, CallExp |-> <<"args">>,
   OpExp |-> <<"left", "right">>, RecordExp |-> <<"type_name", "fields">>,
   SeqExp |-> <<"exps">>, AssignExp |-> <<"var", "exp">>,
   IfExp |-> <<"test", "thenclause", "elseclause">>, WhileExp |-> <<"test", "body">>,
   ForExp |-> <<"vardec", "hi", "body">>, BreakExp |-> <<>>, LetExp |-> <<"chunks", "body">>,
   ArrayExp |-> <<"type_name", "size", "init">>]

\* The result of a function is not visited.
VisitsFromCast_Bug ==
  [CastExp |-> <<"exp", "ty">>, FieldInit |-> <<"init">>, ChunkList |-> <<"chunks">>,
   VarChunk |-> <<"decs">>, VarDec |-> <<"type_name", "init">>, FunctionChunk |-> <<"decs">>,
   FunctionDec |-> <<"formals", "body">>, TypeChunk |-> <<"decs">>,
   TypeDec |-> <<"ty">>, NameTy |-> <<>>, RecordTy |-> <<"fields">>,
   ArrayTy |-> <<"base_type">>, Field |-> <<"type_name">>]

VisitsFromCast ==
  [CastExp |-> <<"exp", "ty">>, FieldInit |-> <<"init">>, ChunkList |-> <<"chunks">>,
   VarChunk |-> <<"decs">>, VarDec |-> <<"type_name", "init">>, FunctionChunk |-> <<"decs">>,
   FunctionDec |-> <<"formals", "result", "body">>, TypeChunk |-> <<"decs">>,
   TypeDec |-> <<"ty">>, NameTy |-> <<>>, RecordTy |-> <<"fields">>,
   ArrayTy |-> <<"base_type">>, Field |-> <<"type_name">>]

Visits(k) == IF k \in DOMAIN VisitsToArray THEN VisitsToArray[k] ELSE VisitsFromCast[k]
Given(n, members) == FlattenSeq([i \in DOMAIN members |-> heap[n].m[members[i]]])
HasObjects == \E n \in DOMAIN heap : heap[n].k \in ObjectClasses

\* A NonObjectVisitor cannot visit the nodes of objects.
EndOfDump ==
  /\ phase = "dump" /\ stack = <<>>
  /\ IF HasObjects THEN phase' = "clone" /\ stack' = <<[call |-> Root]>>
                   ELSE phase' = "visit" /\ stack' = <<Root>>
  /\ UNCHANGED <<tree, visited, dumper, result_, freed>>

Visit ==
  /\ phase = "visit" /\ stack # <<>>
  /\ visited' = Append(visited, Head(stack))
  /\ stack' = Given(Head(stack), Visits(heap[Head(stack)].k)) \o Tail(stack)
  /\ UNCHANGED <<tree, phase, dumper, result_, freed>>

EndOfVisit ==
  /\ phase = "visit" /\ stack = <<>>
  /\ phase' = "clone" /\ stack' = <<[call |-> Root]>>
  /\ UNCHANGED <<tree, visited, dumper, result_, freed>>

-----------------------------------------------------------------------------
(* The Cloner: the members each visit recurses into, in order.             *)

ClonesAtoI ==
  [ArrayExp |-> <<"type_name", "size", "init">>, ArrayTy |-> <<"base_type">>,
   AssignExp |-> <<"var", "exp">>, BreakExp |-> <<>>, CallExp |-> <<"args">>,
   CastExp |-> <<"exp", "ty">>, ChunkList |-> <<"chunks">>, ClassTy |-> <<"super", "chunks">>,
   Field |-> <<"type_name">>, FieldInit |-> <<"init">>, FieldVar |-> <<"var">>,
   ForExp |-> <<"vardec", "hi", "body">>, FunctionDec |-> <<"formals", "result", "body">>,
   IfExp |-> <<"test", "thenclause", "elseclause">>, IntExp |-> <<>>]

ClonesLtoW ==
  [LetExp |-> <<"chunks", "body">>, MethodCallExp |-> <<"args", "object">>,
   MethodDec |-> <<"formals", "result", "body">>, NameTy |-> <<>>, NilExp |-> <<>>,
   ObjectExp |-> <<"type_name">>, OpExp |-> <<"left", "right">>,
   RecordExp |-> <<"type_name", "fields">>, RecordTy |-> <<"fields">>, SeqExp |-> <<"exps">>,
   SimpleVar |-> <<>>, StringExp |-> <<>>, SubscriptVar |-> <<"var", "index">>,
   TypeDec |-> <<"ty">>, VarDec |-> <<"type_name", "init">>, WhileExp |-> <<"test", "body">>]

Clones(k) == IF k \in DOMAIN ClonesAtoI THEN ClonesAtoI[k]
             ELSE IF k \in DOMAIN ClonesLtoW THEN ClonesLtoW[k] ELSE <<"decs">>

\* A call is <<member, node>> for each node to clone; got is what each was
\* cloned into.
CloneCall ==
  /\ phase = "clone" /\ stack # <<>> /\ "call" \in DOMAIN Top
  /\ LET n == Top.call
         calls(x) == [i \in DOMAIN heap[n].m[x] |-> <<x, heap[n].m[x][i]>>] IN
     stack' = Append(Front(stack),
       [k |-> heap[n].k, got |-> Blank(heap[n].k).m, taking |-> FALSE,
        calls |-> FlattenSeq([i \in DOMAIN Clones(heap[n].k) |-> calls(Clones(heap[n].k)[i])])])
  /\ UNCHANGED <<tree, phase, visited, dumper, result_, freed>>

\* recurse and recurse_collection: accept the next node...
CloneMember ==
  /\ phase = "clone" /\ stack # <<>> /\ "calls" \in DOMAIN Top
  /\ Top.calls # <<>> /\ ~Top.taking
  /\ stack' = Append([stack EXCEPT ![Len(stack)].taking = TRUE],
                     [call |-> Head(Top.calls)[2]])
  /\ UNCHANGED <<tree, phase, visited, dumper, result_, freed>>

\* A member that is null takes what was cloned last.
recurse_Bug ==
  /\ phase = "clone" /\ stack # <<>> /\ "calls" \in DOMAIN Top /\ Top.taking
  /\ LET x == Head(Top.calls)[1]
         null == {y \in DOMAIN Top.got : Top.k = "VarDec" /\ y = "init" /\ Len(Top.calls) = 1} IN
     stack' = [stack EXCEPT ![Len(stack)].calls = Tail(@), ![Len(stack)].taking = FALSE,
                            ![Len(stack)].got = [y \in DOMAIN @ |->
                               IF y = x \/ y \in null THEN Append(@[y], result_) ELSE @[y]]]
  /\ UNCHANGED <<tree, phase, visited, dumper, result_, freed>>

\* ... and take result_ as soon as it returns; a null pointer is left alone.
recurse ==
  /\ phase = "clone" /\ stack # <<>> /\ "calls" \in DOMAIN Top /\ Top.taking
  /\ stack' = [stack EXCEPT ![Len(stack)].calls = Tail(@), ![Len(stack)].taking = FALSE,
                            ![Len(stack)].got[Head(Top.calls)[1]] = Append(@, result_)]
  /\ UNCHANGED <<tree, phase, visited, dumper, result_, freed>>

\* The if without else the Cloner makes: its constructor adds an empty sequence.
IfExp_ctor(got) == <<Blank("SeqExp"),
                     [k |-> "IfExp", m |-> [got EXCEPT !["elseclause"] = <<Len(heap) + 1>>]]>>

\* result_ = new ...
CloneEnd ==
  /\ phase = "clone" /\ stack # <<>> /\ "calls" \in DOMAIN Top /\ Top.calls = <<>>
  /\ heap' = heap \o (IF Top.k = "IfExp" /\ Top.got["elseclause"] = <<>>
                      THEN IfExp_ctor(Top.got) ELSE <<[k |-> Top.k, m |-> Top.got]>>)
  /\ result_' = Len(heap')
  /\ stack' = Front(stack)
  /\ UNCHANGED <<todo, spare, phase, visited, dumper, freed>>

\* elseclause_get() makes a reference of a null pointer, and the visitors
\* compare its address with null: a build may take that to be never equal, and
\* then call accept through it.
CheckDropped ==
  /\ phase \in {"dump", "visit", "clone"} /\ stack # <<>>
  /\ (phase # "visit" => "call" \in DOMAIN Top)
  /\ LET n == IF phase = "visit" THEN Head(stack) ELSE Top.call IN
     heap[n].k = "IfExp" /\ heap[n].m["elseclause"] = <<>>
  /\ phase' = "crash"
  /\ UNCHANGED <<tree, stack, visited, dumper, result_, freed>>

-----------------------------------------------------------------------------
(* astclone::apply: the clone takes the place of the tree, which is        *)
(* deleted; at the end of the program the clone is deleted in its turn.    *)

apply ==
  /\ phase = "clone" /\ stack = <<>>
  /\ phase' = "delete" /\ stack' = <<Root>>
  /\ UNCHANGED <<tree, visited, dumper, result_, freed>>

delete ==
  /\ phase \in {"delete", "exit"} /\ stack # <<>>
  /\ freed' = Append(freed, Head(stack))
  /\ stack' = Given(Head(stack), Deleted[heap[Head(stack)].k]) \o Tail(stack)
  /\ UNCHANGED <<tree, phase, visited, dumper, result_>>

exit ==
  /\ phase = "delete" /\ stack = <<>>
  /\ phase' = "exit" /\ stack' = <<result_>>
  /\ UNCHANGED <<tree, visited, dumper, result_, freed>>

-----------------------------------------------------------------------------
Init ==
  /\ \E k \in DOMAIN Class : heap = <<Blank(k)>> /\ todo = Slots(Root, k)
  /\ spare = Budget /\ phase = "build" /\ stack = <<>> /\ visited = <<>>
  /\ parent_id = Null /\ parent_field = Null /\ ports = <<>> /\ links = {}
  /\ result_ = Null /\ freed = <<>>

Next ==
  \/ Build \/ Built
  \/ DumpNode \/ DumpMember \/ DumpEnd \/ EndOfDump
  \/ Visit \/ EndOfVisit
  \/ CloneCall \/ CloneMember \/ recurse \/ CloneEnd
  \/ CheckDropped
  \/ apply \/ delete \/ exit

Spec == Init /\ [][Next]_vars

-----------------------------------------------------------------------------
(* Properties.                                                             *)

\* A link of the graph starts from a port that the node of its parent has: dot
\* draws it elsewhere otherwise.
LinksHavePorts ==
  phase = "dump" => \A l \in links :
    \E i \in DOMAIN ports : ports[i][1] = l[1] /\ l[2] \in ports[i][2]

\* The dump shows every node once, linked to its parent, and to no other.
TheDumpIsTheTree ==
  phase \in {"visit", "clone"} /\ visited = <<>> /\ result_ = Null =>
    /\ IsInjective([i \in DOMAIN ports |-> ports[i][1]])
    /\ {ports[i][1] : i \in DOMAIN ports} = DOMAIN heap
    /\ {<<l[1], l[3]>> : l \in links} =
         UNION {{<<n, c>> : c \in ToSet(Children(n))} : n \in DOMAIN heap}

\* A pass that only redefines some visits still goes through the whole tree.
EveryNodeIsVisited ==
  phase = "clone" /\ result_ = Null /\ ~HasObjects =>
    IsInjective(visited) /\ ToSet(visited) = DOMAIN heap

Reachable(n) ==
  LET below[c \in DOMAIN heap] == {c} \union UNION {below[d] : d \in ToSet(Children(c))}
  IN below[n]

SameTree(n, copy) ==
  LET same[p \in (DOMAIN heap) \X (DOMAIN heap)] ==
        LET a == heap[p[1]]
            b == heap[p[2]] IN
        /\ a.k = b.k
        /\ \A x \in DOMAIN a.m :
             \/ /\ Len(a.m[x]) = Len(b.m[x])
                /\ \A i \in DOMAIN a.m[x] : same[<<a.m[x][i], b.m[x][i]>>]
             \/ x = "elseclause" /\ a.m[x] = <<>> /\ heap[b.m[x][1]] = Blank("SeqExp")
  IN same[<<n, copy>>]

\* The clone is a tree like the original, of nodes of its own, but for an
\* absent else clause, which is an empty sequence in the clone.
TheCloneIsACopy ==
  phase = "clone" /\ stack = <<>> =>
    SameTree(Root, result_) /\ Reachable(Root) \intersect Reachable(result_) = {}

\* No node is deleted twice, and no node that lives, those of the clone among
\* them when the original is deleted, has a member that was.
NothingIsFreedTwice ==
  /\ IsInjective(freed)
  /\ phase = "delete" => result_ \notin ToSet(freed)
  /\ \A n \in DOMAIN heap \ ToSet(freed) : ToSet(Children(n)) \intersect ToSet(freed) = {}

\* At the end all nodes were freed but for two members of nodes of objects,
\* whose destructors forget them.
OnlyObjectsLeak ==
  phase = "exit" /\ stack = <<>> =>
    \A n \in DOMAIN heap \ ToSet(freed) : \E p \in DOMAIN heap :
      \/ heap[p].k = "ObjectExp" /\ n \in ToSet(heap[p].m["type_name"])
      \/ heap[p].k = "ClassTy" /\ n \in ToSet(heap[p].m["super"])
=============================================================================

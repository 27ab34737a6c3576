-------------------------------- MODULE Ast --------------------------------
(***************************************************************************)
(* The classes of the abstract syntax (src/src/ast): for every class its   *)
(* base, the members that are pointers to other nodes, with their static   *)
(* types, and (..._dtor) the members its destructor deletes.  Names,       *)
(* values, locations, bindings and types are not nodes and are left out.   *)
(***************************************************************************)
EXTENDS Sequences

One(name, type) == [name |-> name, type |-> type, min |-> 1, many |-> FALSE]
Opt(name, type) == [name |-> name, type |-> type, min |-> 0, many |-> FALSE]  \* may be null
Many(name, type) == [name |-> name, type |-> type, min |-> 0, many |-> TRUE]

SimpleVar == [base |-> "Var", members |-> <<>>]
SimpleVar_dtor == <<>>
FieldVar == [base |-> "Var", members |-> <<One("var", "Var")>>]
FieldVar_dtor == <<"var">>
SubscriptVar == [base |-> "Var", members |-> <<One("var", "Var"), One("index", "Exp")>>]
SubscriptVar_dtor == <<"var", "index">>
ArrayExp == [base |-> "Exp",
  members |-> <<One("type_name", "NameTy"), One("size", "Exp"), One("init", "Exp")>>]
ArrayExp_dtor == <<"type_name", "size", "init">>
AssignExp == [base |-> "Exp", members |-> <<One("var", "Var"), One("exp", "Exp")>>]
AssignExp_dtor == <<"var", "exp">>
BreakExp == [base |-> "Exp", members |-> <<>>]
BreakExp_dtor == <<>>
CallExp == [base |-> "Exp", members |-> <<Many("args", "Exp")>>]
CallExp_dtor == <<"args">>
CastExp == [base |-> "Exp", members |-> <<One("exp", "Exp"), One("ty", "Ty")>>]
CastExp_dtor == <<"exp", "ty">>
ForExp == [base |-> "Exp",
  members |-> <<One("vardec", "VarDec"), One("hi", "Exp"), One("body", "Exp")>>]
ForExp_dtor == <<"vardec", "hi", "body">>
IfExp == [base |-> "Exp",
  members |-> <<One("test", "Exp"), One("thenclause", "Exp"), Opt("elseclause", "Exp")>>]
\* The else clause is forgotten.
IfExp_dtor_Bug == <<"test", "thenclause">>
IfExp_dtor == <<"test", "thenclause", "elseclause">>
IntExp == [base |-> "Exp", members |-> <<>>]
IntExp_dtor == <<>>
LetExp == [base |-> "Exp",
  members |-> <<One("chunks", "ChunkList"), One("body", "Exp")>>]
LetExp_dtor == <<"chunks", "body">>
MethodCallExp == [base |-> "CallExp",
  members |-> <<Many("args", "Exp"), One("object", "Var")>>]
MethodCallExp_dtor == <<"object", "args">>
NilExp == [base |-> "Exp", members |-> <<>>]
NilExp_dtor == <<>>
ObjectExp == [base |-> "Exp", members |-> <<One("type_name", "NameTy")>>]
ObjectExp_dtor == <<>>
OpExp == [base |-> "Exp", members |-> <<One("left", "Exp"), One("right", "Exp")>>]
OpExp_dtor == <<"left", "right">>
RecordExp == [base |-> "Exp",
  members |-> <<One("type_name", "NameTy"), Many("fields", "FieldInit")>>]
RecordExp_dtor == <<"type_name", "fields">>
SeqExp == [base |-> "Exp", members |-> <<Many("exps", "Exp")>>]
SeqExp_dtor == <<"exps">>
StringExp == [base |-> "Exp", members |-> <<>>]
StringExp_dtor == <<>>
WhileExp == [base |-> "Exp", members |-> <<One("test", "Exp"), One("body", "Exp")>>]
WhileExp_dtor == <<"test", "body">>
NameTy == [base |-> "Ty", members |-> <<>>]
NameTy_dtor == <<>>
ArrayTy == [base |-> "Ty", members |-> <<One("base_type", "NameTy")>>]
ArrayTy_dtor == <<"base_type">>
RecordTy == [base |-> "Ty", members |-> <<Many("fields", "Field")>>]
RecordTy_dtor == <<"fields">>
ClassTy == [base |-> "Ty",
  members |-> <<One("super", "NameTy"), One("chunks", "ChunkList")>>]
ClassTy_dtor == <<"chunks">>
Field == [base |-> "Ast", members |-> <<One("type_name", "NameTy")>>]
Field_dtor == <<"type_name">>
FieldInit == [base |-> "Ast", members |-> <<One("init", "Exp")>>]
FieldInit_dtor == <<"init">>
FunctionDec == [base |-> "Dec",
  members |-> <<One("formals", "VarChunk"), Opt("result", "NameTy"), Opt("body", "Exp")>>]
FunctionDec_dtor == <<"formals", "result", "body">>
MethodDec == [base |-> "FunctionDec",
  members |-> <<One("formals", "VarChunk"), Opt("result", "NameTy"), Opt("body", "Exp")>>]
MethodDec_dtor == <<"formals", "result", "body">>
TypeDec == [base |-> "Dec", members |-> <<One("ty", "Ty")>>]
TypeDec_dtor == <<"ty">>
VarDec == [base |-> "Dec",
  members |-> <<Opt("type_name", "NameTy"), Opt("init", "Exp")>>]
VarDec_dtor == <<"type_name", "init">>
ChunkList == [base |-> "Ast", members |-> <<Many("chunks", "ChunkInterface")>>]
ChunkList_dtor == <<"chunks">>

\* The chunks are one template, Chunk<D>, over the class of the declarations.
Chunk(D) == [base |-> "ChunkInterface", members |-> <<Many("decs", D)>>]
Chunk_dtor == <<"decs">>

Class ==
  [SimpleVar |-> SimpleVar, FieldVar |-> FieldVar, SubscriptVar |-> SubscriptVar,
   ArrayExp |-> ArrayExp, AssignExp |-> AssignExp, BreakExp |-> BreakExp,
   CallExp |-> CallExp, CastExp |-> CastExp, ForExp |-> ForExp, IfExp |-> IfExp,
   IntExp |-> IntExp, LetExp |-> LetExp, MethodCallExp |-> MethodCallExp,
   NilExp |-> NilExp, ObjectExp |-> ObjectExp, OpExp |-> OpExp,
   RecordExp |-> RecordExp, SeqExp |-> SeqExp, StringExp |-> StringExp,
   WhileExp |-> WhileExp, NameTy |-> NameTy, ArrayTy |-> ArrayTy,
   RecordTy |-> RecordTy, ClassTy |-> ClassTy, Field |-> Field,
   FieldInit |-> FieldInit, FunctionDec |-> FunctionDec, MethodDec |-> MethodDec,
   TypeDec |-> TypeDec, VarDec |-> VarDec, ChunkList |-> ChunkList,
   VarChunk |-> Chunk("VarDec"), FunctionChunk |-> Chunk("FunctionDec"),
   TypeChunk |-> Chunk("TypeDec"), MethodChunk |-> Chunk("MethodDec")]

Deleted ==
  [SimpleVar |-> SimpleVar_dtor, FieldVar |-> FieldVar_dtor,
   SubscriptVar |-> SubscriptVar_dtor, ArrayExp |-> ArrayExp_dtor,
   AssignExp |-> AssignExp_dtor, BreakExp |-> BreakExp_dtor,
   CallExp |-> CallExp_dtor, CastExp |-> CastExp_dtor, ForExp |-> ForExp_dtor,
   IfExp |-> IfExp_dtor, IntExp |-> IntExp_dtor, LetExp |-> LetExp_dtor,
   MethodCallExp |-> MethodCallExp_dtor, NilExp |-> NilExp_dtor,
   ObjectExp |-> ObjectExp_dtor, OpExp |-> OpExp_dtor, RecordExp |-> RecordExp_dtor,
   SeqExp |-> SeqExp_dtor, StringExp |-> StringExp_dtor, WhileExp |-> WhileExp_dtor,
   NameTy |-> NameTy_dtor, ArrayTy |-> ArrayTy_dtor, RecordTy |-> RecordTy_dtor,
   ClassTy |-> ClassTy_dtor, Field |-> Field_dtor, FieldInit |-> FieldInit_dtor,
   FunctionDec |-> FunctionDec_dtor, MethodDec |-> MethodDec_dtor,
   TypeDec |-> TypeDec_dtor, VarDec |-> VarDec_dtor, ChunkList |-> ChunkList_dtor,
   VarChunk |-> Chunk_dtor, FunctionChunk |-> Chunk_dtor, TypeChunk |-> Chunk_dtor,
   MethodChunk |-> Chunk_dtor]

\* The classes derived from a static type; Var is an Exp, and so on.
BaseOfBase == [Var |-> "Exp", CallExp |-> "Exp", FunctionDec |-> "Dec"]
Bases(k) == {k, Class[k].base}
            \union (IF Class[k].base \in DOMAIN BaseOfBase THEN {BaseOfBase[Class[k].base]} ELSE {})
Below(type) == {k \in DOMAIN Class : type \in Bases(k)}

\* The nodes no rule of the grammar makes: the extension with objects.
ObjectClasses == {"ObjectExp", "ClassTy", "MethodCallExp", "MethodDec", "MethodChunk"}
=============================================================================

------------------------------ MODULE MCImports ------------------------------
(* Three files, each with any two items or fewer: the main file /w/a, /w/b, and
   c, which lies in a directory of its own; l is the directory of the library,
   and holds the file f.  b and c may name each other plainly, absolutely, or
   through "." and "..". *)
EXTENDS Imports

A == <<"w", "a">>
B == <<"w", "b">>
C == <<"w", "d", "c">>

Names ==
    {Import(FALSE, <<"b">>), Import(FALSE, <<"d", "c">>), Import(FALSE, <<"c">>),
     Import(TRUE, B), Import(FALSE, <<"..", "b">>)}

Contents(items) == {<<>>} \union {<<i>> : i \in items} \union {<<i, j>> : i, j \in items}

LibraryFile == (<<"l", "f", "f">> :> <<Chunk, Chunk>>)

MCFiles ==
    {A :> a @@ B :> b @@ C :> c @@ LibraryFile :
        a \in {<<Import(FALSE, <<"b">>), i>> :
                  i \in {Chunk, Import(FALSE, <<"f">>), Import(FALSE, <<"a">>)}},
        b \in Contents({Chunk} \union Names),
        c \in Contents({Chunk} \union Names) \union {<<Exp>>}}

MCDirectories == {[absolute |-> FALSE, path |-> <<"d">>]}
MCMain == [absolute |-> FALSE, path |-> <<"a">>]
MCWorkingDir == <<"w">>
MCPkgDataDir == <<"l">>
=============================================================================

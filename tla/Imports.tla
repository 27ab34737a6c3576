------------------------------- MODULE Imports -------------------------------
(***************************************************************************)
(* The files of a program: parse::parse, the import directives TigerDriver *)
(* resolves with misc::file_library, and the list of chunks each file      *)
(* comes to.  A path is a sequence of components, compared by its          *)
(* components as std::filesystem compares them; a file is named by the     *)
(* path left once "." and ".." are resolved.  A file holds a sequence of   *)
(* items: chunks, imports, or an expression.                               *)
(***************************************************************************)
EXTENDS Naturals, Sequences, SequencesExt, FiniteSetsExt

CONSTANTS
    FileSystems,  \* the contents the files may have: functions from paths
    Directories,  \* the directories that may be added to the library
    WorkingDir,   \* the directory the compiler is started in
    PkgDataDir,   \* the directory of the library every run has
    Main,         \* the name of the file to compile
    MaxDirs,      \* bound on the directories added
    MaxOpen       \* bound on the files open at once

VARIABLES
    fs,                 \* the files
    search_path,        \* file_library::search_path_
    current_directory,  \* file_library::current_directory_, innermost first
    open_files,         \* TigerDriver::open_files_
    frames,             \* the files being parsed, outermost first
    status,             \* "none" yet, "done", or the error it ended with
    program             \* the chunks of the program, once done

vars == <<fs, search_path, current_directory, open_files, frames, status, program>>

-----------------------------------------------------------------------------
(* What the files hold. *)

Chunk == [item |-> "chunk"]
Import(absolute, path) == [item |-> "import", absolute |-> absolute, path |-> path]
Exp == [item |-> "exp"]

Plain(path) == \A i \in DOMAIN path : path[i] \notin {".", ".."}

Resolve(path) ==
    IF Plain(path) THEN path
    ELSE FoldLeft(LAMBDA p, c : CASE c = "." -> p
                                  [] c = ".." -> IF p = <<>> THEN p ELSE Front(p)
                                  [] OTHER -> Append(p, c),
                  <<>>, path)

Exists(path) == Resolve(path) \in DOMAIN fs

Join(directory, name) == IF name.absolute THEN name.path ELSE directory \o name.path

Path == Seq(STRING)
FileName == [absolute : BOOLEAN, path : Path \ {<<>>}]
Items == {Chunk, Exp} \union [item : {"import"}, absolute : BOOLEAN, path : Path \ {<<>>}]

\* The file to compile is there.
ASSUME ImportsAssumption ==
    /\ WorkingDir \in Path /\ PkgDataDir \in Path
    /\ Main \in FileName /\ Directories \subseteq FileName
    /\ \A f \in FileSystems : \A p \in DOMAIN f : f[p] \in Seq(Items)
    /\ \A f \in FileSystems : Resolve(Join(WorkingDir, Main)) \in DOMAIN f
    /\ MaxOpen \in Nat \ {0}

-----------------------------------------------------------------------------
(* misc::file_library *)

current_directory_get == Head(current_directory)

append_dir(d) == search_path' = Append(search_path, Join(current_directory_get, d))

prepend_dir(d) == search_path' = <<Join(current_directory_get, d)>> \o search_path

push_current_directory(d) == current_directory' = <<d>> \o current_directory

pop_current_directory_Bug == UNCHANGED current_directory

pop_current_directory == current_directory' = Tail(current_directory)

\* The directories of the library where the file is looked for: both operands
\* of find_in_search_path are the name of the file.
Candidates(base) == [i \in DOMAIN search_path |-> Append(search_path[i], base)]

find_in_search_path(base) ==
    LET first == SelectInSeq(Candidates(base), LAMBDA d : Exists(Append(d, base)))
    IN  IF first = 0 THEN <<>> ELSE <<Candidates(base)[first]>>

\* The directory the file was found in, or nothing.
FindFrom(directory, name) ==
    LET here == Join(directory, name)
    IN  IF Exists(here) THEN <<Front(here)>>
        ELSE find_in_search_path(Last(name.path))

find_file(name) == FindFrom(current_directory_get, name)

-----------------------------------------------------------------------------
(* TigerDriver *)

Frame(path) == [path |-> path, left |-> fs[Resolve(path)], lists |-> <<>>]

Top == Last(frames)

Item == Head(Top.left)

Parsing == frames # <<>> /\ status = "none"

Fail(error) ==
    /\ status' = error
    /\ UNCHANGED <<fs, search_path, current_directory, open_files, frames, program>>

\* One more item of the innermost file is read and comes to this list.
ReadItem(frame, list) ==
    [frame EXCEPT !.left = Tail(@), !.lists = Append(@, list)]

Read(stack, list) == [stack EXCEPT ![Len(stack)] = ReadItem(@, list)]

\* A chunk is known by where it was read: the position of each import that led
\* to it, then its own.
Trail == [i \in DOMAIN frames |-> Len(frames[i].lists) + 1]

LibraryAppend(d) ==
    /\ frames = <<>> /\ status = "none" /\ Len(search_path) <= MaxDirs
    /\ append_dir(d)
    /\ UNCHANGED <<fs, current_directory, open_files, frames, status, program>>

LibraryPrepend(d) ==
    /\ frames = <<>> /\ status = "none" /\ Len(search_path) <= MaxDirs
    /\ prepend_dir(d)
    /\ UNCHANGED <<fs, current_directory, open_files, frames, status, program>>

Parse ==
    /\ frames = <<>> /\ status = "none"
    /\ push_current_directory(Front(Join(current_directory_get, Main)))
    /\ frames' = <<Frame(Join(WorkingDir, Main))>>
    /\ UNCHANGED <<fs, search_path, open_files, status, program>>

ReadChunk ==
    /\ Parsing /\ Top.left # <<>> /\ Item.item = "chunk"
    /\ frames' = Read(frames, <<Trail>>)
    /\ UNCHANGED <<fs, search_path, current_directory, open_files, status, program>>

ReadExp ==
    /\ Parsing /\ Top.left # <<>> /\ Item.item = "exp"
    /\ IF Len(frames) > 1
       THEN Fail("expecting chunks")
       ELSE /\ frames' = Read(frames, <<>>)
            /\ UNCHANGED <<fs, search_path, current_directory, open_files, status, program>>

Importing == Parsing /\ Top.left # <<>> /\ Item.item = "import"

ImportedFrom(directory, name) == Append(FindFrom(directory, name)[1], Last(name.path))

Imported(name) == ImportedFrom(current_directory_get, name)

FileNotFound ==
    /\ Importing /\ find_file(Item) = <<>>
    /\ Fail("file not found")

RecursiveInclusion ==
    /\ Importing /\ find_file(Item) # <<>>
    /\ Imported(Item) \in open_files
    /\ Fail("recursive inclusion")

ParseImport_Bug ==
    /\ Importing /\ find_file(Item) # <<>>
    /\ Len(frames) < MaxOpen
    /\ push_current_directory(find_file(Item)[1])
    /\ frames' = Append(frames, Frame(Imported(Item)))
    /\ UNCHANGED <<fs, search_path, open_files, status, program>>

ParseImport ==
    /\ Importing /\ find_file(Item) # <<>>
    /\ Imported(Item) \notin open_files /\ Len(frames) < MaxOpen
    /\ push_current_directory(find_file(Item)[1])
    /\ open_files' = open_files \union {Imported(Item)}
    /\ frames' = Append(frames, Frame(Imported(Item)))
    /\ UNCHANGED <<fs, search_path, status, program>>

\* The grammar's actions on the lists of the items, last item first: the chunks
\* of an import are pushed one by one to the front of what follows.
PushChunks_Bug(lists) == FlattenSeq(lists)

PushChunks(lists) == FlattenSeq([i \in DOMAIN lists |-> Reverse(lists[i])])

\* What the import brings is not added to what follows it.
EndOfImport_LostBug ==
    /\ Parsing /\ Top.left = <<>> /\ Len(frames) > 1
    /\ frames' = Read(Front(frames), <<>>)
    /\ open_files' = open_files \ {Top.path}
    /\ pop_current_directory
    /\ UNCHANGED <<fs, search_path, status, program>>

EndOfImport ==
    /\ Parsing /\ Top.left = <<>> /\ Len(frames) > 1
    /\ frames' = Read(Front(frames), PushChunks(Top.lists))
    /\ open_files' = open_files \ {Top.path}
    /\ pop_current_directory
    /\ UNCHANGED <<fs, search_path, status, program>>

EndOfMain ==
    /\ Parsing /\ Top.left = <<>> /\ Len(frames) = 1
    /\ status' = "done" /\ program' = PushChunks(Top.lists)
    /\ frames' = <<>>
    /\ pop_current_directory
    /\ UNCHANGED <<fs, search_path, open_files>>

Init ==
    /\ fs \in FileSystems
    /\ search_path = <<PkgDataDir>>
    /\ current_directory = <<WorkingDir>>
    /\ open_files = {} /\ frames = <<>> /\ status = "none" /\ program = <<>>

Step ==
    \/ Parse \/ ReadChunk \/ ReadExp
    \/ FileNotFound \/ RecursiveInclusion \/ ParseImport
    \/ EndOfImport \/ EndOfMain

Next == Step \/ \E d \in Directories : LibraryAppend(d) \/ LibraryPrepend(d)

\* One thread parses: it goes on while it can.
Spec == Init /\ [][Next]_vars /\ WF_vars(Step)

-----------------------------------------------------------------------------
(* Properties *)

\* The files being parsed, and the file each of them is.
Opened == [i \in DOMAIN frames |-> Resolve(frames[i].path)]

\* Nothing is named through "." or "..": files to import or to compile, and the
\* directories of the library, which the environment may set (parse/tasks.cc:20).
PlainNames ==
    /\ Plain(WorkingDir) /\ Plain(PkgDataDir) /\ Plain(Main.path)
    /\ \A d \in Directories : Plain(d.path)
    /\ \A p \in DOMAIN fs : \A i \in DOMAIN fs[p] :
           fs[p][i].item = "import" => Plain(fs[p][i].path)

\* Directories and open files are pushed and popped together along all the ways
\* out of a file: a name is always looked up from the directory of the file that
\* holds it, and the stack is as parse found it in the end (libparse.cc:63).
DirectoriesFollowFiles ==
    /\ Len(current_directory) = Len(frames) + 1
    /\ current_directory[Len(current_directory)] = WorkingDir
    /\ \A i \in DOMAIN frames :
           current_directory[Len(frames) + 1 - i] = Front(frames[i].path)
    /\ open_files = {frames[i].path : i \in 2..Len(frames)}

\* A file is never parsed while an import of it is being parsed: what
\* open_files_ is for (tiger-driver.cc:168).  Names with dots are the exception:
\* one file has many such names, and open_files_ compares names.
NoFileWithinItself ==
    PlainNames => \A i, j \in 2..Len(frames) : i < j => Opened[i] # Opened[j]

\* Two chunks are in the order of the text when the imports that led to both of
\* them are even in number, and in the opposite order when they are odd: each
\* import reverses what it brings (parsetiger.yy, importchunks).  No chunk is
\* there twice.
CommonImports(s, t) ==
    CHOOSE k \in 0..Len(s) :
        /\ k < Len(t) /\ k < Len(s) /\ SubSeq(s, 1, k) = SubSeq(t, 1, k)
        /\ s[k + 1] # t[k + 1]

OrderOfChunks ==
    \A i, j \in DOMAIN program : i < j =>
        /\ program[i] # program[j]
        /\ LET k == CommonImports(program[i], program[j])
           IN  (program[i][k + 1] < program[j][k + 1]) <=> (k % 2 = 0)

\* The chunks a file leads to, each by its trail from there: its own and those
\* below, of the files it imports.
ChunksOf(path, below) ==
    LET file == fs[Resolve(path)]
        found == {k \in DOMAIN file :
                     file[k].item = "import" /\ FindFrom(Front(path), file[k]) # <<>>}
    IN  {<<k>> : k \in {k \in DOMAIN file : file[k].item = "chunk"}}
        \union UNION {{<<k>> \o t : t \in below[ImportedFrom(Front(path), file[k])]}
                        : k \in found}

\* The same for every path, n files deep.
ChunksWithin[n \in 0..MaxOpen] ==
    IF n = 0 THEN [path \in Path |-> {}]
    ELSE [path \in Path |-> ChunksOf(path, ChunksWithin[n - 1])]

\* Once the parse is done, the program has the chunks of every file that imports
\* lead to, each time they do, and no other: a list that is handed up through the
\* files (parsetiger.yy, importchunks) is never dropped or left half way.
NoChunkIsLost ==
    status = "done" => ToSet(program) = ChunksWithin[MaxOpen][Join(WorkingDir, Main)]

\* On the way up through the files no chunk is lost, doubled or displaced.
ChunksAreAllInOrder == NoChunkIsLost /\ OrderOfChunks

\* The parser ends, with a program or an error, whatever imports what, as long
\* as the names are plain.
ParseEnds == PlainNames => <>(status # "none")

=============================================================================

---------------------------- MODULE Imports_proofs ----------------------------
(***************************************************************************)
(* Proofs about the imports, for every file system, import cycles and      *)
(* names with dots included, and every library path.                       *)
(***************************************************************************)
EXTENDS Imports, SequenceTheorems, WellFoundedInduction, TLAPS

-----------------------------------------------------------------------------
(* Facts about the operators. *)

\* A nonempty set of naturals has a least element.
LEMMA LeastElement ==
  ASSUME NEW S \in SUBSET Nat, S # {}
  PROVE  \E x \in S : \A y \in S : x <= y
<1> DEFINE R == {ss \in Nat \X Nat : ss[1] < ss[2]}
<1>1. IsWellFoundedOn(R, Nat)
  BY NatLessThanWellFounded DEF OpToRel
<1>2. PICK x \in S : \A y \in S : ~ (<<y, x>> \in R)
  <2> HIDE DEF R
  <2>1. QED
    BY <1>1, WFMin
<1>3. SUFFICES ASSUME NEW y \in S PROVE x <= y
  OBVIOUS
<1>4. x \in Nat /\ y \in Nat
  OBVIOUS
<1>5. y < x => <<y, x>> \in R
  BY <1>4
<1>6. ~ (<<y, x>> \in R)
  BY <1>2
<1> HIDE DEF R
<1>7. QED
  BY <1>4, <1>5, <1>6

LEMMA MinIsElement ==
  ASSUME NEW S \in SUBSET Nat, S # {}
  PROVE  Min(S) \in S
<1>1. \E z \in S : \A y \in S : z <= y
  BY LeastElement
<1>2. (CHOOSE z \in S : \A y \in S : z <= y) \in S
  BY <1>1, Zenon
<1>3. QED
  BY <1>2, Zenon DEF Min

\* What precedes the last element that was appended.
LEMMA FrontOfAppend ==
  ASSUME NEW S, NEW s \in Seq(S), NEW e \in S
  PROVE  Front(Append(s, e)) = s
<1>1. Append(s, e) \in Seq(S) /\ Len(Append(s, e)) = Len(s) + 1
  OBVIOUS
<1>2. Front(Append(s, e)) = SubSeq(Append(s, e), 1, Len(s))
  BY <1>1 DEF Front
<1>3. /\ SubSeq(Append(s, e), 1, Len(s)) \in Seq(S)
      /\ Len(SubSeq(Append(s, e), 1, Len(s))) = Len(s)
      /\ \A i \in 1..Len(s) : SubSeq(Append(s, e), 1, Len(s))[i] = Append(s, e)[i]
  BY <1>1, SubSeqProperties
<1>4. \A i \in 1..Len(s) : Append(s, e)[i] = s[i]
  OBVIOUS
<1>5. QED
  BY <1>2, <1>3, <1>4, SeqEqual

\* What precedes the last element.
LEMMA FrontProperties ==
  ASSUME NEW S, NEW s \in Seq(S), s # <<>>
  PROVE  /\ Front(s) \in Seq(S) /\ Len(Front(s)) = Len(s) - 1
         /\ \A i \in 1..(Len(s) - 1) : Front(s)[i] = s[i]
<1> DEFINE n == Len(s) - 1
<1>1. n \in Nat /\ n \in Int /\ 1 \in Int /\ \A i \in 1..n : s[i] \in S
  OBVIOUS
<1>2. Front(s) = SubSeq(s, 1, n)
  BY DEF Front
<1> HIDE DEF n
<1>3. /\ SubSeq(s, 1, n) \in Seq(S)
      /\ Len(SubSeq(s, 1, n)) = IF 1 <= n THEN n - 1 + 1 ELSE 0
      /\ \A i \in 1..n - 1 + 1 : SubSeq(s, 1, n)[i] = s[1 + i - 1]
  BY <1>1, SubSeqProperties
<1>4. Len(SubSeq(s, 1, n)) = n /\ \A i \in 1..n : SubSeq(s, 1, n)[i] = s[i]
  BY <1>1, <1>3
<1>5. QED
  BY <1>2, <1>3, <1>4 DEF n

\* The front of a path is a path, and its last component completes it.
LEMMA FrontOfPath ==
  ASSUME NEW p \in Path, p # <<>>
  PROVE  Front(p) \in Path /\ Last(p) \in STRING /\ Append(Front(p), Last(p)) = p
<1>1. p \in Seq(STRING) /\ Len(p) \in Nat \ {0}
  BY DEF Path
<1>2. /\ Front(p) \in Seq(STRING) /\ Len(Front(p)) = Len(p) - 1
      /\ \A i \in 1..(Len(p) - 1) : Front(p)[i] = p[i]
  BY <1>1, FrontProperties
<1>3. Last(p) = p[Len(p)] /\ Last(p) \in STRING
  BY <1>1 DEF Last
<1>4. /\ Append(Front(p), Last(p)) \in Seq(STRING)
      /\ Len(Append(Front(p), Last(p))) = Len(p)
      /\ \A i \in 1..Len(p) : Append(Front(p), Last(p))[i] = p[i]
  BY <1>1, <1>2, <1>3
<1>5. Append(Front(p), Last(p)) = p
  BY <1>1, <1>4, SeqEqual
<1>6. QED
  BY <1>2, <1>3, <1>5 DEF Path

\* What remains of two elements without the first.
LEMMA TailOfTwo ==
  ASSUME NEW S, NEW s \in Seq(S), Len(s) = 2
  PROVE  /\ Tail(s) \in Seq(S) /\ Len(Tail(s)) = 1
         /\ Tail(s)[1] = s[2]
<1>1. s # <<>>
  BY EmptySeq
<1> DEFINE t == Tail(s)
<1>2. t \in Seq(S) /\ Len(t) = 1 /\ \A i \in 1..Len(t) : t[i] = s[i + 1]
  BY <1>1, HeadTailProperties
<1> HIDE DEF t
<1>3. 1 \in 1..Len(t) /\ 1 + 1 = 2
  BY <1>2
<1>4. t[1] = s[2]
  BY <1>2, <1>3
<1>5. QED
  BY <1>2, <1>4 DEF t

\* A name looked up from a directory is a path.
LEMMA JoinIsPath ==
  ASSUME NEW d \in Path, NEW n \in [absolute : BOOLEAN, path : Path \ {<<>>}]
  PROVE  Join(d, n) \in Path /\ Join(d, n) # <<>> /\ Last(Join(d, n)) = Last(n.path)
<1>1. n.path \in Seq(STRING) /\ n.path # <<>> /\ d \in Seq(STRING)
  BY DEF Path
<1>2. CASE n.absolute
  BY <1>1, <1>2 DEF Join, Path
<1>3. CASE ~n.absolute
  <2>1. Join(d, n) = d \o n.path
    BY <1>3 DEF Join
  <2>2. /\ d \o n.path \in Seq(STRING)
        /\ Len(d \o n.path) = Len(d) + Len(n.path)
        /\ Len(n.path) \in Nat \ {0} /\ Len(d) \in Nat
        /\ (d \o n.path)[Len(d) + Len(n.path)] = n.path[Len(n.path)]
    BY <1>1, ConcatProperties
  <2>3. QED
    BY <2>1, <2>2 DEF Last, Path
<1>4. QED
  BY <1>2, <1>3

-----------------------------------------------------------------------------
(* The types the lookups rely on.  What the lists of a frame hold does not  *)
(* matter here: they are in some set.                                       *)

FramesOver(L) == Seq([path : Path, left : Seq(Items), lists : L])

Types ==
  /\ fs \in FileSystems
  /\ search_path \in Seq(Path)
  /\ current_directory \in Seq(Path)
  /\ \E L : frames \in FramesOver(L)

\* No two files that are open have the same name.
OpenOnce ==
  \A i, j \in 2..Len(frames) : frames[i].path = frames[j].path => i = j

\* A file that waits for an import still has it to read.
ImportsAreLeft ==
  \A i \in 1..(Len(frames) - 1) : frames[i].left # <<>>

ImportsInv == Types /\ OpenOnce /\ ImportsAreLeft /\ DirectoriesFollowFiles

\* A file that exists holds items.
LEMMA FrameType ==
  ASSUME Types, NEW L, NEW p \in Path, Exists(p), <<>> \in L
  PROVE  Frame(p) \in [path : Path, left : Seq(Items), lists : L]
BY ImportsAssumption DEF Types, Exists, Frame

\* The innermost directory is a path.
LEMMA HereIsPath ==
  ASSUME ImportsInv
  PROVE  /\ current_directory # <<>>
         /\ current_directory_get \in Path
         /\ Len(frames) \in Nat
<1>1. Len(frames) \in Nat
  BY DEF ImportsInv, Types, FramesOver
<1>2. current_directory \in Seq(Path) /\ Len(current_directory) = Len(frames) + 1
  BY DEF ImportsInv, Types, DirectoriesFollowFiles
<1>3. current_directory # <<>> /\ Head(current_directory) \in Path
  BY <1>1, <1>2
<1>4. QED
  BY <1>1, <1>3 DEF current_directory_get

\* The stack of directories beside the stack of files.
LEMMA DirectoriesShape ==
  ASSUME ImportsInv
  PROVE  /\ Len(frames) \in Nat /\ DOMAIN frames = 1..Len(frames)
         /\ current_directory \in Seq(Path)
         /\ Len(current_directory) = Len(frames) + 1
         /\ \A i \in 1..Len(frames) :
                current_directory[Len(frames) + 1 - i] = Front(frames[i].path)
         /\ current_directory[Len(frames) + 1] = WorkingDir
         /\ open_files = {frames[i].path : i \in 2..Len(frames)}
<1>1. PICK L : frames \in FramesOver(L)
  BY DEF ImportsInv, Types
<1>2. Len(frames) \in Nat /\ DOMAIN frames = 1..Len(frames)
  BY <1>1, LenProperties DEF FramesOver
<1>3. DirectoriesFollowFiles /\ current_directory \in Seq(Path)
  BY DEF ImportsInv, Types
<1>4. QED
  BY <1>2, <1>3, Zenon DEF DirectoriesFollowFiles

\* The name the current import holds.
LEMMA ItemIsName ==
  ASSUME ImportsInv, Importing
  PROVE  Item.path \in Path \ {<<>>} /\ Item.absolute \in BOOLEAN
<1>1. PICK L : frames \in FramesOver(L)
  BY DEF ImportsInv, Types
<1>2. frames # <<>>
  BY DEF Importing, Parsing
<1>3. Len(frames) \in 1..Len(frames)
  BY <1>1, <1>2 DEF FramesOver
<1>4. Top \in [path : Path, left : Seq(Items), lists : L]
  <2>1. frames[Len(frames)] \in [path : Path, left : Seq(Items), lists : L]
    BY <1>1, <1>3, ElementOfSeq, Zenon DEF FramesOver
  <2>2. QED
    BY <2>1, Zenon DEF Top, Last
<1>5. Top.left \in Seq(Items) /\ Top.left # <<>>
  BY <1>4 DEF Importing
<1>6. Item \in Items /\ Item.item = "import"
  BY <1>5 DEF Item, Importing
<1>7. Item \in [item : {"import"}, absolute : BOOLEAN, path : Path \ {<<>>}]
  BY <1>6 DEF Items, Chunk, Exp
<1>8. QED
  BY <1>7

\* Where a file is found, it is: the directory and the name of the file make
\* the path of a file that exists.
LEMMA FoundExists ==
  ASSUME ImportsInv, Importing, find_file(Item) # <<>>
  PROVE  /\ find_file(Item)[1] \in Path
         /\ Imported(Item) \in Path
         /\ Front(Imported(Item)) = find_file(Item)[1]
         /\ Exists(Imported(Item))
         /\ \/ find_file(Item)[1] = Front(Join(current_directory_get, Item))
            \/ \E i \in 1..Len(search_path) :
                  find_file(Item)[1] = Append(search_path[i], Last(Item.path))
<1> DEFINE name == Item
           here == Join(current_directory_get, name)
           base == Last(name.path)
<1>1. name.path \in Path \ {<<>>} /\ base \in STRING
  BY ItemIsName, FrontOfPath
<1>2. here \in Path /\ here # <<>> /\ Last(here) = base
  <2>1. name.absolute \in BOOLEAN /\ name.path \in Path \ {<<>>}
    BY ItemIsName
  <2>2. current_directory_get \in Path
    BY HereIsPath
  <2>3. DEFINE n == [absolute |-> name.absolute, path |-> name.path]
  <2>4. n \in [absolute : BOOLEAN, path : Path \ {<<>>}]
    BY <2>1
  <2>5. Join(current_directory_get, n) = here
    BY DEF Join
  <2>6. QED
    BY <2>2, <2>4, <2>5, JoinIsPath
<1> HIDE DEF name
<1>3. Imported(Item) = Append(find_file(Item)[1], base)
  BY DEF Imported, ImportedFrom, find_file, name
<1> DEFINE InLibrary == \E i \in 1..Len(search_path) : find_file(Item)[1] = Append(search_path[i], base)
<1>4. SUFFICES /\ find_file(Item)[1] \in Path /\ Exists(Append(find_file(Item)[1], base))
               /\ find_file(Item)[1] = Front(here) \/ InLibrary
  <2>1. find_file(Item)[1] \in Seq(STRING) => Append(find_file(Item)[1], base) \in Seq(STRING)
    BY <1>1
  <2>2. QED
    BY <1>1, <1>3, <2>1, FrontOfAppend DEF Path, name
<1>5. CASE Exists(here)
  <2>1. find_file(Item) = <<Front(here)>>
    BY <1>5 DEF find_file, FindFrom, name
  <2>2. find_file(Item)[1] = Front(here)
    BY <2>1
  <2>3. Front(here) \in Path /\ Append(Front(here), base) = here
    BY <1>2, FrontOfPath
  <2>4. QED
    BY <1>5, <2>2, <2>3, Zenon
<1>6. CASE ~Exists(here)
  <2> DEFINE C == Candidates(base)
             I == {i \in 1..Len(C) : Exists(Append(C[i], base))}
  <2>1. find_file(Item) = find_in_search_path(base)
    BY <1>6 DEF find_file, FindFrom, name
  <2>2. search_path \in Seq(Path)
    BY DEF ImportsInv, Types
  <2>3. C \in Seq(Path) /\ Len(C) \in Nat
    <3>1. \A i \in 1..Len(search_path) : Append(search_path[i], base) \in Path
      BY <1>1, <2>2 DEF Path
    <3>2. C = [i \in 1..Len(search_path) |-> Append(search_path[i], base)]
      BY <2>2 DEF Candidates
    <3>3. QED
      BY <2>2, <3>1, <3>2, IsASeq
  <2>4. SelectInSeq(C, LAMBDA d : Exists(Append(d, base))) = IF I # {} THEN Min(I) ELSE 0
    BY DEF SelectInSeq
  <2> HIDE DEF C, I
  <2>5. find_in_search_path(base) =
          LET first == IF I # {} THEN Min(I) ELSE 0
          IN  IF first = 0 THEN <<>> ELSE <<C[first]>>
    BY <2>4 DEF find_in_search_path, C
  <2>6. I \in SUBSET Nat /\ I # {}
    BY <2>1, <2>3, <2>5 DEF I
  <2>7. Min(I) \in I
    BY <2>6, MinIsElement
  <2>8. Min(I) \in 1..Len(C) /\ Exists(Append(C[Min(I)], base))
    BY <2>7 DEF I
  <2>9. find_file(Item) = <<C[Min(I)]>>
    BY <2>1, <2>3, <2>5, <2>6, <2>8
  <2>10. C[Min(I)] \in Path
    BY <2>3, <2>8
  <2>11. InLibrary
    <3>1. Len(C) = Len(search_path) /\ C[Min(I)] = Append(search_path[Min(I)], base)
      BY <2>2, <2>8 DEF C, Candidates
    <3>2. QED
      BY <2>8, <2>9, <3>1
  <2>12. QED
    BY <2>8, <2>9, <2>10, <2>11
<1>7. QED
  BY <1>5, <1>6

-----------------------------------------------------------------------------
(* The stack of the files, step by step. *)

\* One more item of the innermost file is read: the files stay what they are.
LEMMA ReadProperties ==
  ASSUME NEW L, NEW stack \in FramesOver(L), stack # <<>>, NEW list,
         stack[Len(stack)].left # <<>>
  PROVE  /\ \E set : Read(stack, list) \in FramesOver(set)
         /\ Len(Read(stack, list)) = Len(stack)
         /\ \A i \in 1..Len(stack) : Read(stack, list)[i].path = stack[i].path
         /\ \A i \in 1..(Len(stack) - 1) : Read(stack, list)[i] = stack[i]
         /\ Read(stack, list)[Len(stack)] = ReadItem(stack[Len(stack)], list)
<1> DEFINE n == Len(stack)
           top == stack[n]
           K == L \union {Append(top.lists, list)}
           read == ReadItem(top, list)
           Wide == [path : Path, left : Seq(Items), lists : K]
<1>1. n \in Nat /\ n \in 1..n
  BY DEF FramesOver
<1>2. top \in [path : Path, left : Seq(Items), lists : L]
  BY <1>1, ElementOfSeq, Zenon DEF FramesOver
<1>3. top.left \in Seq(Items) /\ Tail(top.left) \in Seq(Items)
  BY <1>2, HeadTailProperties
<1>4. read \in Wide /\ read.path = top.path
  BY <1>2, <1>3 DEF ReadItem
<1>5. stack \in Seq(Wide)
  <2>1. \A i \in 1..n : stack[i] \in [path : Path, left : Seq(Items), lists : L]
    BY ElementOfSeq, Zenon DEF FramesOver
  <2>2. \A i \in 1..n : stack[i] \in Wide
    BY <2>1
  <2>3. stack = [i \in 1..n |-> stack[i]]
    BY DEF FramesOver
  <2> HIDE DEF Wide
  <2>4. QED
    BY <1>1, <2>2, <2>3, IsASeq
<1>6. Read(stack, list) = [stack EXCEPT ![n] = read]
  BY DEF Read
<1> HIDE DEF Wide, read
<1>7. /\ [stack EXCEPT ![n] = read] \in Seq(Wide)
      /\ Len([stack EXCEPT ![n] = read]) = n
      /\ \A i \in 1..n : [stack EXCEPT ![n] = read][i] = IF i = n THEN read ELSE stack[i]
  BY <1>1, <1>4, <1>5, ExceptSeq
<1>8. Read(stack, list) \in FramesOver(K)
  BY <1>6, <1>7 DEF Wide, FramesOver
<1>9. \A i \in 1..n : Read(stack, list)[i].path = stack[i].path
  BY <1>4, <1>6, <1>7
<1> HIDE DEF K
<1>10. ASSUME NEW i \in 1..(n - 1) PROVE Read(stack, list)[i] = stack[i]
  <2>1. i \in 1..n /\ i # n
    BY <1>1
  <2>2. QED
    BY <2>1, <1>6, <1>7, Zenon
<1>11. Len(Read(stack, list)) = n
  BY <1>6, <1>7
<1>12. \E set : Read(stack, list) \in FramesOver(set)
  BY <1>8
<1>13. Read(stack, list)[n] = read
  BY <1>1, <1>6, <1>7
<1>14. QED
  BY <1>9, <1>10, <1>11, <1>12, <1>13 DEF read

\* The innermost file reads a chunk or an expression.
LEMMA ReadStep ==
  ASSUME ImportsInv, NEW list, frames # <<>>, Top.left # <<>>,
         frames' = Read(frames, list),
         UNCHANGED <<fs, search_path, current_directory, open_files>>
  PROVE  ImportsInv'
<1>1. PICK L : frames \in FramesOver(L)
  BY DEF ImportsInv, Types
<1>2. /\ \E K : frames' \in FramesOver(K)
      /\ Len(frames') = Len(frames)
      /\ \A i \in 1..Len(frames) : frames'[i].path = frames[i].path
      /\ \A i \in 1..(Len(frames) - 1) : frames'[i] = frames[i]
  BY <1>1, ReadProperties DEF Top, Last
<1>3. Len(frames) \in Nat /\ DOMAIN frames = 1..Len(frames) /\ DOMAIN frames' = 1..Len(frames)
  BY <1>1, <1>2 DEF FramesOver
<1>4. Types'
  BY <1>2 DEF ImportsInv, Types
<1>5. OpenOnce' /\ ImportsAreLeft'
  BY <1>2, <1>3 DEF ImportsInv, OpenOnce, ImportsAreLeft
<1>6. DirectoriesFollowFiles'
  <2>1. {frames'[i].path : i \in 2..Len(frames')} = {frames[i].path : i \in 2..Len(frames)}
    BY <1>2, <1>3
  <2>2. QED
    BY <1>2, <1>3, <2>1 DEF ImportsInv, DirectoriesFollowFiles
<1>7. QED
  BY <1>4, <1>5, <1>6 DEF ImportsInv

\* A file is opened, the one to compile or an imported one.
LEMMA OpenStep ==
  ASSUME ImportsInv, NEW p \in Path, Exists(p),
         frames # <<>> => Top.left # <<>> /\ p \notin open_files,
         current_directory' = <<Front(p)>> \o current_directory, Front(p) \in Path,
         frames' = Append(frames, Frame(p)),
         open_files' = IF frames = <<>> THEN open_files ELSE open_files \union {p},
         UNCHANGED <<fs, search_path>>
  PROVE  ImportsInv'
<1> DEFINE n == Len(frames)
           up == <<Front(p)>> \o current_directory
<1>1. PICK L : frames \in FramesOver(L)
  BY DEF ImportsInv, Types
<1> DEFINE K == L \union {<<>>}
           Wide == [path : Path, left : Seq(Items), lists : K]
<1>2. Frame(p) \in Wide /\ Frame(p).path = p
  <2>1. Frame(p) \in Wide
    BY FrameType DEF ImportsInv
  <2>2. QED
    BY <2>1 DEF Frame
<1>3. frames \in Seq(Wide) /\ n \in Nat /\ (frames = <<>> <=> n = 0)
  <2>1. [path : Path, left : Seq(Items), lists : L] \subseteq Wide
    OBVIOUS
  <2> HIDE DEF Wide
  <2>2. frames \in Seq(Wide)
    BY <1>1, <2>1, SeqMonotonic DEF FramesOver
  <2>3. QED
    BY <2>2, LenProperties, EmptySeq
<1> HIDE DEF Wide
<1>4. /\ frames' \in Seq(Wide) /\ Len(frames') = n + 1
      /\ \A i \in 1..n : frames'[i] = frames[i]
      /\ frames'[n + 1] = Frame(p)
  BY <1>2, <1>3, AppendProperties
<1>5. /\ current_directory \in Seq(Path) /\ Len(current_directory) = n + 1
      /\ \A i \in 1..n : current_directory[n + 1 - i] = Front(frames[i].path)
      /\ current_directory[n + 1] = WorkingDir
      /\ open_files = {frames[i].path : i \in 2..n}
  BY DirectoriesShape
<1>6. /\ up \in Seq(Path) /\ Len(up) = n + 2 /\ up[1] = Front(p)
      /\ \A i \in 1..(n + 1) : up[i + 1] = current_directory[i]
  BY <1>3, <1>5
<1>7. Types'
  <2>1. \E set : frames' \in FramesOver(set)
    BY <1>4 DEF Wide, FramesOver
  <2>2. QED
    BY <1>6, <2>1 DEF ImportsInv, Types
<1>8. OpenOnce'
  <2>1. SUFFICES ASSUME NEW i \in 2..(n + 1), NEW j \in 2..(n + 1),
                        frames'[i].path = frames'[j].path
                 PROVE  i = j
    BY <1>3, <1>4 DEF OpenOnce
  <2>2. CASE i \in 2..n /\ j \in 2..n
    BY <1>3, <1>4, <2>1, <2>2 DEF ImportsInv, OpenOnce
  <2>3. CASE i = n + 1 /\ j = n + 1
    BY <2>3
  <2>4. CASE i = n + 1 /\ j \in 2..n
    BY <1>2, <1>3, <1>4, <1>5, <2>1, <2>4
  <2>5. CASE i \in 2..n /\ j = n + 1
    BY <1>2, <1>3, <1>4, <1>5, <2>1, <2>5
  <2>6. (i = n + 1 \/ i \in 2..n) /\ (j = n + 1 \/ j \in 2..n)
    BY <1>3
  <2>7. QED
    BY <2>2, <2>3, <2>4, <2>5, <2>6, Zenon
<1>9. ImportsAreLeft'
  <2>1. SUFFICES ASSUME NEW i \in 1..n PROVE frames'[i].left # <<>>
    BY <1>3, <1>4 DEF ImportsAreLeft
  <2>2. frames[i].left # <<>>
    <3>1. CASE i = n
      BY <1>3, <3>1 DEF Top, Last
    <3>2. CASE i # n
      BY <1>3, <3>2 DEF ImportsInv, ImportsAreLeft
    <3>3. QED
      BY <3>1, <3>2
  <2>3. QED
    BY <1>4, <2>2
<1>10. DirectoriesFollowFiles'
  <2>1. Len(up) = Len(frames') + 1 /\ up[Len(up)] = WorkingDir
    BY <1>3, <1>4, <1>5, <1>6
  <2>2. ASSUME NEW i \in DOMAIN frames'
        PROVE  up[Len(frames') + 1 - i] = Front(frames'[i].path)
    <3>1. i \in 1..(n + 1)
      BY <1>3, <1>4
    <3>2. CASE i = n + 1
      BY <1>2, <1>3, <1>4, <1>6, <3>2
    <3>3. CASE i \in 1..n
      <4>1. up[(n + 1 - i) + 1] = current_directory[n + 1 - i]
        BY <1>3, <1>6, <3>3
      <4>2. QED
        BY <1>3, <1>4, <1>5, <3>3, <4>1
    <3>4. i = n + 1 \/ i \in 1..n
      BY <1>3, <3>1
    <3>5. QED
      BY <3>2, <3>3, <3>4, Zenon
  <2>3. open_files' = {frames'[i].path : i \in 2..Len(frames')}
    <3>1. CASE n = 0
      BY <1>3, <1>4, <1>5, <3>1
    <3>2. CASE n # 0
      <4>1. 2..(n + 1) = (2..n) \union {n + 1}
        BY <1>3, <3>2
      <4>2. {frames'[i].path : i \in 2..n} = {frames[i].path : i \in 2..n}
        BY <1>3, <1>4
      <4>3. QED
        BY <1>2, <1>3, <1>4, <1>5, <3>2, <4>1, <4>2
    <3>3. QED
      BY <3>1, <3>2
  <2>4. QED
    BY <2>1, <2>2, <2>3 DEF DirectoriesFollowFiles
<1>11. QED
  BY <1>7, <1>8, <1>9, <1>10 DEF ImportsInv

\* The innermost of several files is closed.
LEMMA CloseStep ==
  ASSUME ImportsInv, Len(frames) > 1, NEW list,
         frames' = Read(Front(frames), list),
         open_files' = open_files \ {Top.path},
         current_directory' = Tail(current_directory),
         UNCHANGED <<fs, search_path>>
  PROVE  ImportsInv'
<1> DEFINE n == Len(frames)
           outer == Front(frames)
           up == Tail(current_directory)
<1>1. PICK L : frames \in FramesOver(L)
  BY DEF ImportsInv, Types
<1>2. n \in Nat /\ n > 1 /\ frames # <<>>
  BY <1>1, DirectoriesShape, EmptySeq
<1>3. /\ outer \in FramesOver(L) /\ Len(outer) = n - 1
      /\ \A i \in 1..(n - 1) : outer[i] = frames[i]
  BY <1>1, <1>2, FrontProperties DEF FramesOver
<1>4. outer # <<>> /\ outer[Len(outer)].left # <<>>
  <2>1. outer # <<>>
    BY <1>2, <1>3, EmptySeq
  <2>2. n - 1 \in 1..(n - 1)
    BY <1>2
  <2>3. frames[n - 1].left # <<>>
    BY <2>2 DEF ImportsInv, ImportsAreLeft
  <2>4. QED
    BY <1>3, <2>1, <2>2, <2>3
<1>5. /\ \E set : frames' \in FramesOver(set)
      /\ Len(frames') = n - 1
      /\ \A i \in 1..(n - 1) : frames'[i].path = frames[i].path
      /\ \A i \in 1..(n - 2) : frames'[i] = frames[i]
  <2>1. /\ \E set : frames' \in FramesOver(set)
        /\ Len(frames') = Len(outer)
        /\ \A i \in 1..Len(outer) : frames'[i].path = outer[i].path
        /\ \A i \in 1..(Len(outer) - 1) : frames'[i] = outer[i]
    <3> HIDE DEF outer
    <3>1. QED
      BY <1>3, <1>4, ReadProperties DEF outer
  <2> HIDE DEF outer
  <2>2. \A i \in 1..(n - 2) : i \in 1..(n - 1) /\ i \in 1..(Len(outer) - 1)
    BY <1>2, <1>3
  <2>3. QED
    BY <1>3, <2>1, <2>2
<1> HIDE DEF outer
<1>6. DOMAIN frames' = 1..(n - 1)
  BY <1>5, LenProperties DEF FramesOver
<1>7. /\ current_directory \in Seq(Path) /\ Len(current_directory) = n + 1
      /\ \A i \in 1..n : current_directory[n + 1 - i] = Front(frames[i].path)
      /\ current_directory[n + 1] = WorkingDir
      /\ open_files = {frames[i].path : i \in 2..n}
  BY DirectoriesShape
<1>8. /\ up \in Seq(Path) /\ Len(up) = n
      /\ \A i \in 1..n : up[i] = current_directory[i + 1]
  BY <1>2, <1>7, HeadTailProperties, EmptySeq
<1>9. Types'
  BY <1>5, <1>8 DEF ImportsInv, Types
<1>10. OpenOnce'
  BY <1>2, <1>5 DEF ImportsInv, OpenOnce
<1>11. ImportsAreLeft'
  <2>1. SUFFICES ASSUME NEW i \in 1..(n - 2) PROVE frames'[i].left # <<>>
    BY <1>2, <1>5 DEF ImportsAreLeft
  <2>2. frames'[i] = frames[i] /\ i \in 1..(n - 1)
    BY <1>2, <1>5
  <2>3. QED
    BY <2>2 DEF ImportsInv, ImportsAreLeft
<1>12. DirectoriesFollowFiles'
  <2>1. Len(up) = Len(frames') + 1 /\ up[Len(up)] = WorkingDir
    BY <1>2, <1>5, <1>7, <1>8
  <2>2. ASSUME NEW i \in DOMAIN frames'
        PROVE  up[Len(frames') + 1 - i] = Front(frames'[i].path)
    <3>1. i \in 1..(n - 1) /\ i \in 1..n /\ n - i \in 1..n
      BY <1>2, <1>6
    <3>2. up[n - i] = current_directory[n + 1 - i]
      <4>1. up[n - i] = current_directory[(n - i) + 1]
        BY <1>8, <3>1
      <4>2. (n - i) + 1 = n + 1 - i
        BY <1>2, <3>1
      <4>3. QED
        BY <4>1, <4>2, Zenon
    <3>3. Len(frames') + 1 - i = n - i
      BY <1>2, <1>5, <3>1
    <3>4. QED
      BY <1>5, <1>7, <3>1, <3>2, <3>3
  <2>3. open_files' = {frames'[i].path : i \in 2..Len(frames')}
    <3>1. {frames'[i].path : i \in 2..Len(frames')} = {frames[i].path : i \in 2..(n - 1)}
      <4>1. \A i \in 2..(n - 1) : frames'[i].path = frames[i].path
        BY <1>2, <1>5
      <4>2. QED
        BY <1>5, <4>1, Zenon
    <3>2. Top.path = frames[n].path
      BY DEF Top, Last
    <3>3. \A i \in 2..(n - 1) : frames[i].path # frames[n].path
      BY <1>2 DEF ImportsInv, OpenOnce
    <3>4. 2..n = (2..(n - 1)) \union {n}
      BY <1>2
    <3>5. QED
      BY <1>7, <3>1, <3>2, <3>3, <3>4
  <2>4. QED
    BY <2>1, <2>2, <2>3 DEF DirectoriesFollowFiles
<1>13. QED
  BY <1>9, <1>10, <1>11, <1>12 DEF ImportsInv

-----------------------------------------------------------------------------
(* The theorem. *)

LEMMA InitHolds == Init => ImportsInv
<1> SUFFICES ASSUME Init PROVE ImportsInv
  OBVIOUS
<1>2. frames = <<>> /\ Len(frames) = 0 /\ DOMAIN frames = {}
  BY EmptySeq DEF Init
<1>3. frames \in FramesOver({})
  BY <1>2, EmptySeq DEF FramesOver
<1>4. Types
  BY <1>3, ImportsAssumption DEF Init, Types
<1>5. OpenOnce /\ ImportsAreLeft
  BY <1>2 DEF OpenOnce, ImportsAreLeft
<1>6. DirectoriesFollowFiles
  BY <1>2, ImportsAssumption DEF Init, DirectoriesFollowFiles
<1>7. QED
  BY <1>4, <1>5, <1>6 DEF ImportsInv

\* An error leaves the stacks as they are.
LEMMA FailHolds ==
  ASSUME ImportsInv, NEW error, Fail(error)
  PROVE  ImportsInv'
BY DEF Fail, ImportsInv, Types, OpenOnce, ImportsAreLeft, DirectoriesFollowFiles

LEMMA StepHolds == ImportsInv /\ [Next]_vars => ImportsInv'
<1> SUFFICES ASSUME ImportsInv, [Next]_vars PROVE ImportsInv'
  OBVIOUS
<1>2. /\ current_directory # <<>> /\ current_directory_get \in Path
      /\ Len(frames) \in Nat
  BY HereIsPath
<1>3. ASSUME NEW d \in Directories, LibraryAppend(d) \/ LibraryPrepend(d) PROVE ImportsInv'
  <2>1. Join(current_directory_get, d) \in Path
    BY <1>2, ImportsAssumption, JoinIsPath DEF FileName
  <2>2. search_path \in Seq(Path)
    BY DEF ImportsInv, Types
  <2>3. search_path' \in Seq(Path)
    BY <1>3, <2>1, <2>2 DEF LibraryAppend, LibraryPrepend, append_dir, prepend_dir
  <2>4. UNCHANGED <<fs, current_directory, open_files, frames>>
    BY <1>3 DEF LibraryAppend, LibraryPrepend
  <2>5. QED
    BY <2>3, <2>4 DEF ImportsInv, Types, OpenOnce, ImportsAreLeft, DirectoriesFollowFiles
<1>4. CASE Parse
  <2> DEFINE p == Join(WorkingDir, Main)
  <2>1. p \in Path /\ p # <<>> /\ Exists(p)
    <3>1. p \in Path /\ p # <<>>
      BY ImportsAssumption, JoinIsPath DEF FileName
    <3>2. fs \in FileSystems
      BY DEF ImportsInv, Types
    <3>3. QED
      BY <3>1, <3>2, ImportsAssumption DEF Exists
  <2>2. frames = <<>> /\ Len(frames) = 0
    BY <1>4, EmptySeq DEF Parse
  <2>3. current_directory_get = WorkingDir
    <3>1. current_directory[1] = WorkingDir
      BY <2>2, DirectoriesShape
    <3>2. QED
      BY <1>2, <3>1 DEF current_directory_get
  <2>4. Front(p) \in Path
    BY <2>1, FrontOfPath
  <2>5. frames' = Append(frames, Frame(p))
    BY <1>4, <2>2 DEF Parse
  <2>6. current_directory' = <<Front(p)>> \o current_directory
    BY <1>4, <2>3, Zenon DEF Parse, push_current_directory
  <2>7. UNCHANGED <<fs, search_path, open_files>>
    BY <1>4 DEF Parse
  <2> HIDE DEF p
  <2>8. QED
    BY <2>1, <2>2, <2>4, <2>5, <2>6, <2>7, OpenStep
<1>5. CASE ReadChunk
  <2>1. /\ frames # <<>> /\ Top.left # <<>> /\ frames' = Read(frames, <<Trail>>)
        /\ UNCHANGED <<fs, search_path, current_directory, open_files>>
    BY <1>5 DEF ReadChunk, Parsing
  <2>2. QED
    BY <2>1, ReadStep
<1>6. CASE ReadExp
  <2>1. CASE Len(frames) > 1
    BY <1>6, <2>1, FailHolds DEF ReadExp
  <2>2. CASE ~(Len(frames) > 1)
    <3>1. /\ frames # <<>> /\ Top.left # <<>> /\ frames' = Read(frames, <<>>)
          /\ UNCHANGED <<fs, search_path, current_directory, open_files>>
      BY <1>6, <2>2 DEF ReadExp, Parsing
    <3>2. QED
      BY <3>1, ReadStep
  <2>3. QED
    BY <2>1, <2>2
<1>7. CASE FileNotFound \/ RecursiveInclusion
  BY <1>7, FailHolds DEF FileNotFound, RecursiveInclusion
<1>8. CASE ParseImport
  <2>1. Importing /\ find_file(Item) # <<>>
    BY <1>8 DEF ParseImport
  <2> DEFINE p == Imported(Item)
  <2>2. p \in Path /\ Front(p) = find_file(Item)[1] /\ Exists(p) /\ Front(p) \in Path
    BY <2>1, FoundExists
  <2>3. frames # <<>> /\ Top.left # <<>> /\ p \notin open_files
    BY <1>8 DEF ParseImport, Importing, Parsing
  <2>4. current_directory' = <<Front(p)>> \o current_directory
    BY <1>8, <2>2, Zenon DEF ParseImport, push_current_directory
  <2>5. /\ frames' = Append(frames, Frame(p)) /\ open_files' = open_files \union {p}
        /\ UNCHANGED <<fs, search_path>>
    BY <1>8 DEF ParseImport
  <2> HIDE DEF p
  <2>6. QED
    BY <2>2, <2>3, <2>4, <2>5, OpenStep
<1>9. CASE EndOfImport
  BY <1>9, CloseStep DEF EndOfImport, pop_current_directory
<1>10. CASE EndOfMain
  <2>1. /\ Len(frames) = 1 /\ frames' = <<>>
        /\ current_directory' = Tail(current_directory)
        /\ UNCHANGED <<fs, search_path, open_files>>
    BY <1>10 DEF EndOfMain, pop_current_directory
  <2>2. frames' \in FramesOver({}) /\ Len(frames') = 0 /\ DOMAIN frames' = {}
    BY <2>1, EmptySeq DEF FramesOver
  <2>3. /\ current_directory \in Seq(Path) /\ Len(current_directory) = 2
        /\ current_directory[2] = WorkingDir /\ open_files = {}
    BY <2>1, DirectoriesShape
  <2>4. /\ current_directory' \in Seq(Path) /\ Len(current_directory') = 1
        /\ current_directory'[1] = WorkingDir
    <3>1. current_directory # <<>>
      BY <2>3, EmptySeq
    <3>2. /\ Tail(current_directory) \in Seq(Path)
          /\ Len(Tail(current_directory)) = 1
          /\ Tail(current_directory)[1] = current_directory[2]
      BY <2>3, <3>1, TailOfTwo
    <3>3. QED
      BY <2>1, <2>3, <3>2
  <2>5. Types'
    BY <2>1, <2>2, <2>4 DEF ImportsInv, Types
  <2>6. OpenOnce' /\ ImportsAreLeft'
    BY <2>2 DEF OpenOnce, ImportsAreLeft
  <2>7. DirectoriesFollowFiles'
    <3>1. open_files' = {} /\ 2..Len(frames') = {}
      BY <2>1, <2>2, <2>3
    <3>2. open_files' = {frames'[i].path : i \in 2..Len(frames')}
      BY <3>1
    <3>3. Len(current_directory') = Len(frames') + 1
      BY <2>2, <2>4
    <3>4. current_directory'[Len(current_directory')] = WorkingDir
      BY <2>4
    <3>5. QED
      BY <2>2, <3>2, <3>3, <3>4, Zenon DEF DirectoriesFollowFiles
  <2>8. QED
    BY <2>5, <2>6, <2>7 DEF ImportsInv
<1>11. CASE UNCHANGED vars
  BY <1>11 DEF vars, ImportsInv, Types, OpenOnce, ImportsAreLeft, DirectoriesFollowFiles
<1>12. QED
  BY <1>3, <1>4, <1>5, <1>6, <1>7, <1>8, <1>9, <1>10, <1>11 DEF Next, Step

\* The directories pushed and the files open are those of the files being
\* parsed, whatever imports what, and with whatever names: parse finds its
\* directory again in the end (libparse.cc:63).
THEOREM DirectoriesFollow == Spec => []DirectoriesFollowFiles
<1>1. ImportsInv => DirectoriesFollowFiles
  BY DEF ImportsInv
<1>2. QED
  BY InitHolds, StepHolds, <1>1, PTL DEF Spec

-----------------------------------------------------------------------------
(* Names without dots. *)

PlainLeft(items) == \A i \in DOMAIN items : items[i].item = "import" => Plain(items[i].path)

PlainFrames(stack) ==
  \A k \in 1..Len(stack) : Plain(stack[k].path) /\ PlainLeft(stack[k].left)

PlainLibrary == \A i \in 1..Len(search_path) : Plain(search_path[i])

PlainInv == PlainNames => PlainFrames(frames) /\ PlainLibrary

LEMMA PlainFront ==
  ASSUME NEW p \in Path, p # <<>>, Plain(p)
  PROVE  Plain(Front(p)) /\ Last(p) \notin {".", ".."}
<1>1. p \in Seq(STRING) /\ Len(p) \in 1..Len(p) /\ DOMAIN p = 1..Len(p)
  BY DEF Path
<1>2. /\ Front(p) \in Seq(STRING) /\ Len(Front(p)) = Len(p) - 1
      /\ \A i \in 1..(Len(p) - 1) : Front(p)[i] = p[i]
  BY <1>1, FrontProperties
<1>3. \A i \in DOMAIN Front(p) : i \in DOMAIN p /\ Front(p)[i] = p[i]
  BY <1>1, <1>2
<1>4. Last(p) = p[Len(p)]
  BY DEF Last
<1>5. QED
  BY <1>1, <1>3, <1>4 DEF Plain

LEMMA PlainAppend ==
  ASSUME NEW p \in Path, Plain(p), NEW c \in STRING, c \notin {".", ".."}
  PROVE  Plain(Append(p, c))
<1>1. p \in Seq(STRING) /\ Len(p) \in Nat /\ DOMAIN p = 1..Len(p)
  BY DEF Path
<1>2. /\ DOMAIN Append(p, c) = 1..(Len(p) + 1)
      /\ \A i \in 1..Len(p) : Append(p, c)[i] = p[i]
      /\ Append(p, c)[Len(p) + 1] = c
  BY <1>1
<1>3. QED
  BY <1>1, <1>2 DEF Plain

LEMMA PlainJoin ==
  ASSUME NEW d \in Path, Plain(d), NEW n, n.path \in Path, n.absolute \in BOOLEAN, Plain(n.path)
  PROVE  Plain(Join(d, n))
<1>1. CASE n.absolute
  BY <1>1 DEF Join
<1>2. CASE ~n.absolute
  <2> DEFINE q == n.path
  <2>1. Join(d, n) = d \o q /\ Plain(q) /\ q \in Seq(STRING) /\ d \in Seq(STRING)
    BY <1>2 DEF Join, Path
  <2> HIDE DEF q
  <2>2. /\ d \o q \in Seq(STRING) /\ Len(d \o q) = Len(d) + Len(q)
        /\ \A i \in 1..(Len(d) + Len(q)) : (d \o q)[i] = IF i <= Len(d) THEN d[i] ELSE q[i - Len(d)]
        /\ Len(d) \in Nat /\ Len(q) \in Nat /\ DOMAIN d = 1..Len(d) /\ DOMAIN q = 1..Len(q)
    BY <2>1, ConcatProperties
  <2>3. DOMAIN (d \o q) = 1..(Len(d) + Len(q))
    BY <2>2
  <2>4. \A i \in 1..(Len(d) + Len(q)) : i <= Len(d) => i \in 1..Len(d)
    BY <2>2
  <2>5. \A i \in 1..(Len(d) + Len(q)) : ~ i <= Len(d) => i - Len(d) \in 1..Len(q)
    BY <2>2
  <2>6. \A i \in 1..(Len(d) + Len(q)) : (d \o q)[i] \notin {".", ".."}
    BY <2>1, <2>2, <2>4, <2>5 DEF Plain
  <2>7. QED
    BY <2>1, <2>3, <2>6 DEF Plain
<1>3. QED
  BY <1>1, <1>2

\* The directory of the innermost file has a plain name.
LEMMA HereIsPlain ==
  ASSUME ImportsInv, PlainNames, PlainFrames(frames)
  PROVE  Plain(current_directory_get)
<1> DEFINE n == Len(frames)
<1>1. /\ current_directory_get = current_directory[1] /\ n \in Nat
      /\ \A i \in 1..n : current_directory[n + 1 - i] = Front(frames[i].path)
      /\ current_directory[n + 1] = WorkingDir
  BY HereIsPath, DirectoriesShape DEF current_directory_get
<1>2. CASE n = 0
  BY <1>1, <1>2 DEF PlainNames
<1>3. CASE n # 0
  <2>1. n \in 1..n /\ n + 1 - n = 1
    BY <1>1, <1>3
  <2>2. current_directory[1] = Front(frames[n].path)
    BY <1>1, <2>1
  <2>3. Plain(frames[n].path)
    BY <2>1 DEF PlainFrames
  <2>4. frames[n].path \in Path
    <3>1. PICK L : frames \in FramesOver(L)
      BY DEF ImportsInv, Types
    <3>2. frames[n] \in [path : Path, left : Seq(Items), lists : L]
      BY <3>1, <2>1, ElementOfSeq, Zenon DEF FramesOver
    <3>3. QED
      BY <3>2
  <2>5. Plain(Front(frames[n].path))
    <3>1. CASE frames[n].path = <<>>
      <4>1. DOMAIN Front(<<>>) = {}
        BY DEF Front
      <4>2. QED
        BY <3>1, <4>1 DEF Plain
    <3>2. CASE frames[n].path # <<>>
      BY <3>2, <2>3, <2>4, PlainFront
    <3>3. QED
      BY <3>1, <3>2
  <2>6. QED
    BY <1>1, <2>2, <2>5
<1>4. QED
  BY <1>2, <1>3

LEMMA ImportIsPlain ==
  ASSUME ImportsInv, PlainNames, PlainFrames(frames), PlainLibrary, Importing, find_file(Item) # <<>>
  PROVE  Plain(Imported(Item))
<1> DEFINE n == Len(frames)
           here == Join(current_directory_get, Item)
           base == Last(Item.path)
<1>1. Item.path \in Path /\ Item.path # <<>> /\ Item.absolute \in BOOLEAN
  BY ItemIsName
<1>2. Plain(Item.path)
  <2>1. n \in Nat /\ n # 0 /\ n \in 1..n /\ frames[n].left # <<>>
    <3>1. PICK L : frames \in FramesOver(L)
      BY DEF ImportsInv, Types
    <3>2. QED
      BY <3>1 DEF FramesOver, Importing, Parsing, Top, Last
  <2>2. PlainLeft(frames[n].left) /\ Item = Head(frames[n].left) /\ Item.item = "import"
    BY <2>1 DEF PlainFrames, Item, Top, Last, Importing
  <2>3. 1 \in DOMAIN frames[n].left
    <3>1. PICK L : frames \in FramesOver(L)
      BY DEF ImportsInv, Types
    <3>2. frames[n] \in [path : Path, left : Seq(Items), lists : L]
      BY <3>1, <2>1, ElementOfSeq, Zenon DEF FramesOver
    <3>3. frames[n].left \in Seq(Items)
      BY <3>2
    <3>4. QED
      BY <3>3, <2>1
  <2>4. QED
    BY <2>2, <2>3 DEF PlainLeft
<1>3. base \in STRING /\ base \notin {".", ".."}
  BY <1>1, <1>2, PlainFront, FrontOfPath
<1>4. current_directory_get \in Path /\ Plain(current_directory_get)
  BY HereIsPath, HereIsPlain
<1>5. here \in Path /\ here # <<>> /\ Plain(here)
  <2>1. Plain(here)
    BY <1>1, <1>2, <1>4, PlainJoin
  <2>2. DEFINE m == [absolute |-> Item.absolute, path |-> Item.path]
  <2>3. m \in [absolute : BOOLEAN, path : Path \ {<<>>}]
    BY <1>1
  <2>4. Join(current_directory_get, m) = here
    BY DEF Join
  <2>5. QED
    BY <1>4, <2>1, <2>3, <2>4, JoinIsPath
<1>6. Imported(Item) = Append(find_file(Item)[1], base) /\ find_file(Item)[1] \in Path
  BY FoundExists DEF Imported, ImportedFrom, find_file
<1>7. CASE find_file(Item)[1] = Front(here)
  BY <1>3, <1>5, <1>6, <1>7, PlainFront, PlainAppend
<1>8. ASSUME NEW i \in 1..Len(search_path), find_file(Item)[1] = Append(search_path[i], base)
      PROVE  Plain(Imported(Item))
  <2>1. search_path[i] \in Path /\ Plain(search_path[i])
    BY DEF ImportsInv, Types, PlainLibrary
  <2>2. Plain(find_file(Item)[1])
    BY <1>3, <1>8, <2>1, PlainAppend
  <2>3. QED
    BY <1>3, <1>6, <2>2, PlainAppend
<1>9. QED
  BY <1>7, <1>8, FoundExists

LEMMA PlainTail ==
  ASSUME NEW s \in Seq(Items), s # <<>>, PlainLeft(s)
  PROVE  PlainLeft(Tail(s))
<1>1. /\ Tail(s) \in Seq(Items) /\ Len(Tail(s)) = Len(s) - 1
      /\ \A i \in 1..Len(Tail(s)) : Tail(s)[i] = s[i + 1]
  BY HeadTailProperties
<1>2. \A i \in DOMAIN Tail(s) : i + 1 \in DOMAIN s /\ Tail(s)[i] = s[i + 1]
  BY <1>1
<1>3. QED
  BY <1>2 DEF PlainLeft

LEMMA PlainRead ==
  ASSUME NEW L, NEW stack \in FramesOver(L), stack # <<>>, NEW list,
         stack[Len(stack)].left # <<>>, PlainFrames(stack)
  PROVE  PlainFrames(Read(stack, list))
<1> DEFINE n == Len(stack)
           top == stack[n]
<1>1. n \in Nat /\ n \in 1..n
  BY DEF FramesOver
<1>2. top \in [path : Path, left : Seq(Items), lists : L]
  BY <1>1, ElementOfSeq, Zenon DEF FramesOver
<1>3. /\ Len(Read(stack, list)) = n
      /\ \A i \in 1..(n - 1) : Read(stack, list)[i] = stack[i]
      /\ Read(stack, list)[n] = ReadItem(top, list)
  BY ReadProperties
<1>4. ReadItem(top, list).path = top.path /\ ReadItem(top, list).left = Tail(top.left)
  BY <1>2 DEF ReadItem
<1>5. Plain(top.path) /\ PlainLeft(top.left) /\ top.left \in Seq(Items) /\ top.left # <<>>
  BY <1>1, <1>2 DEF PlainFrames
<1>6. Plain(ReadItem(top, list).path) /\ PlainLeft(ReadItem(top, list).left)
  BY <1>4, <1>5, PlainTail
<1>7. \A k \in 1..n : k = n \/ k \in 1..(n - 1)
  BY <1>1
<1> HIDE DEF top
<1>8. \A k \in 1..n : Plain(Read(stack, list)[k].path) /\ PlainLeft(Read(stack, list)[k].left)
  BY <1>3, <1>6, <1>7 DEF PlainFrames
<1>9. QED
  BY <1>3, <1>8 DEF PlainFrames

\* One more file is opened, of a plain name.
LEMMA PlainOpen ==
  ASSUME ImportsInv, PlainNames, PlainFrames(frames), NEW p \in Path, Exists(p), Plain(p),
         frames' = Append(frames, Frame(p))
  PROVE  PlainFrames(frames')
<1> DEFINE n == Len(frames)
<1>1. PICK L : frames \in FramesOver(L)
  BY DEF ImportsInv, Types
<1>2. n \in Nat /\ Len(frames') = n + 1 /\ frames'[n + 1] = Frame(p)
      /\ \A i \in 1..n : frames'[i] = frames[i]
  BY <1>1, AppendProperties DEF FramesOver
<1>3. Frame(p).path = p /\ Frame(p).left = fs[Resolve(p)] /\ Resolve(p) \in DOMAIN fs
  BY DEF Frame, Exists
<1>4. PlainLeft(Frame(p).left)
  BY <1>3 DEF PlainNames, PlainLeft
<1>5. \A k \in 1..(n + 1) : k = n + 1 \/ k \in 1..n
  BY <1>2
<1>6. \A k \in 1..(n + 1) : Plain(frames'[k].path) /\ PlainLeft(frames'[k].left)
  BY <1>2, <1>3, <1>4, <1>5 DEF PlainFrames
<1>7. QED
  BY <1>2, <1>6 DEF PlainFrames

\* A directory of the library has a plain name.
LEMMA PlainDirectory ==
  ASSUME ImportsInv, PlainNames, PlainFrames(frames), PlainLibrary, NEW d \in Directories,
         LibraryAppend(d) \/ LibraryPrepend(d)
  PROVE  PlainLibrary'
<1> DEFINE p == Join(current_directory_get, d)
<1>1. p \in Path /\ Plain(p)
  <2>1. current_directory_get \in Path /\ Plain(current_directory_get)
    BY HereIsPath, HereIsPlain
  <2>2. d \in FileName /\ Plain(d.path)
    BY ImportsAssumption DEF PlainNames
  <2>3. d.path \in Path /\ d.absolute \in BOOLEAN
    BY <2>2 DEF FileName
  <2>4. p \in Path
    BY <2>1, <2>2, JoinIsPath DEF FileName
  <2>5. QED
    BY <2>1, <2>2, <2>3, <2>4, PlainJoin
<1>2. search_path \in Seq(Path)
  BY DEF ImportsInv, Types
<1>3. search_path' = Append(search_path, p) \/ search_path' = <<p>> \o search_path
  BY DEF LibraryAppend, LibraryPrepend, append_dir, prepend_dir
<1> HIDE DEF p
<1>4. Len(search_path) \in Nat /\ Len(search_path') = Len(search_path) + 1
  BY <1>1, <1>2, <1>3
<1>5. \A i \in 1..Len(search_path) : Plain(search_path[i])
  BY DEF PlainLibrary
<1>6. CASE search_path' = Append(search_path, p)
  <2>1. \A i \in 1..(Len(search_path) + 1) : search_path'[i] = IF i <= Len(search_path) THEN search_path[i] ELSE p
    BY <1>1, <1>2, <1>6
  <2>2. \A i \in 1..(Len(search_path) + 1) : i <= Len(search_path) => i \in 1..Len(search_path)
    BY <1>4
  <2>3. \A i \in 1..(Len(search_path) + 1) : Plain(search_path'[i])
    BY <2>1, <2>2, <1>1, <1>5
  <2>4. QED
    BY <2>3, <1>4 DEF PlainLibrary
<1>7. CASE search_path' = <<p>> \o search_path
  <2>1. \A i \in 1..(Len(search_path) + 1) : search_path'[i] = IF i = 1 THEN p ELSE search_path[i - 1]
    BY <1>1, <1>2, <1>7
  <2>2. \A i \in 1..(Len(search_path) + 1) : i # 1 => i - 1 \in 1..Len(search_path)
    BY <1>4
  <2>3. \A i \in 1..(Len(search_path) + 1) : Plain(search_path'[i])
    BY <2>1, <2>2, <1>1, <1>5
  <2>4. QED
    BY <2>3, <1>4 DEF PlainLibrary
<1>8. QED
  BY <1>3, <1>6, <1>7

LEMMA PlainStep == ImportsInv /\ PlainInv /\ [Next]_vars => PlainInv'
<1> SUFFICES ASSUME ImportsInv, PlainInv, [Next]_vars, PlainNames'
             PROVE  PlainFrames(frames') /\ PlainLibrary'
  BY DEF PlainInv
<1>1. fs' = fs
  BY DEF Next, vars, Step, Parse, ReadChunk, ReadExp, FileNotFound, RecursiveInclusion, ParseImport,
         EndOfImport, EndOfMain, Fail, LibraryAppend, LibraryPrepend
<1>2. PlainNames /\ PlainFrames(frames) /\ PlainLibrary
  BY <1>1 DEF PlainNames, PlainInv
<1>3. CASE \E d \in Directories : LibraryAppend(d) \/ LibraryPrepend(d)
  <2>1. PICK d \in Directories : LibraryAppend(d) \/ LibraryPrepend(d)
    BY <1>3
  <2>2. frames' = frames
    BY <2>1 DEF LibraryAppend, LibraryPrepend
  <2>3. QED
    BY <1>2, <2>1, <2>2, PlainDirectory
<1>4. CASE Step \/ UNCHANGED vars
  <2>1. search_path' = search_path
    BY <1>4 DEF vars, Step, Parse, ReadChunk, ReadExp, FileNotFound, RecursiveInclusion, ParseImport,
                EndOfImport, EndOfMain, Fail
  <2>2. PlainLibrary'
    BY <1>2, <2>1 DEF PlainLibrary
  <2>3. PICK L : frames \in FramesOver(L)
    BY DEF ImportsInv, Types
  <2>4. CASE Parse
    <3> DEFINE p == Join(WorkingDir, Main)
    <3>1. p \in Path /\ Exists(p) /\ Plain(p)
      <4>1. p \in Path
        BY ImportsAssumption, JoinIsPath DEF FileName
      <4>2. fs \in FileSystems /\ Main.path \in Path /\ Main.absolute \in BOOLEAN /\ WorkingDir \in Path
        BY ImportsAssumption DEF ImportsInv, Types, FileName
      <4>3. Plain(WorkingDir) /\ Plain(Main.path)
        BY <1>2 DEF PlainNames
      <4>4. Plain(p)
        BY <4>2, <4>3, PlainJoin
      <4>5. QED
        BY <4>1, <4>2, <4>4, ImportsAssumption DEF Exists
    <3>2. frames' = Append(frames, Frame(p))
      BY <2>4 DEF Parse
    <3> HIDE DEF p
    <3>3. QED
      BY <1>2, <2>2, <3>1, <3>2, PlainOpen
  <2>5. CASE ParseImport
    <3> DEFINE p == Imported(Item)
    <3>1. Importing /\ find_file(Item) # <<>> /\ frames' = Append(frames, Frame(p))
      BY <2>5 DEF ParseImport
    <3>2. p \in Path /\ Exists(p) /\ Plain(p)
      BY <1>2, <3>1, FoundExists, ImportIsPlain
    <3> HIDE DEF p
    <3>3. QED
      BY <1>2, <2>2, <3>1, <3>2, PlainOpen
  <2>6. ASSUME NEW list, frames # <<>>, Top.left # <<>>, frames' = Read(frames, list)
        PROVE  PlainFrames(frames')
    <3>1. frames[Len(frames)].left # <<>>
      BY <2>6 DEF Top, Last
    <3>2. QED
      BY <1>2, <2>3, <2>6, <3>1, PlainRead
  <2>7. CASE ReadChunk
    BY <2>2, <2>6, <2>7 DEF ReadChunk, Parsing
  <2>8. CASE ReadExp
    <3>1. CASE Len(frames) > 1
      BY <1>2, <2>2, <2>8, <3>1 DEF ReadExp, Fail
    <3>2. CASE ~ Len(frames) > 1
      BY <2>2, <2>6, <2>8, <3>2 DEF ReadExp, Parsing
    <3>3. QED
      BY <3>1, <3>2
  <2>9. CASE FileNotFound \/ RecursiveInclusion
    BY <1>2, <2>2, <2>9 DEF FileNotFound, RecursiveInclusion, Fail
  <2>10. CASE EndOfImport
    <3> DEFINE n == Len(frames)
               outer == Front(frames)
               list == PushChunks(Top.lists)
    <3>1. n \in Nat /\ n > 1 /\ frames # <<>> /\ frames' = Read(outer, list)
      BY <2>10, <2>3, EmptySeq DEF EndOfImport, FramesOver
    <3>2. /\ outer \in FramesOver(L) /\ Len(outer) = n - 1
          /\ \A i \in 1..(n - 1) : outer[i] = frames[i]
      BY <2>3, <3>1, FrontProperties DEF FramesOver
    <3>3. n - 1 \in 1..(n - 1) /\ \A i \in 1..(n - 1) : i \in 1..n
      BY <3>1
    <3>4. frames[n - 1].left # <<>>
      BY <3>3 DEF ImportsInv, ImportsAreLeft
    <3>5. outer # <<>> /\ outer[Len(outer)].left # <<>>
      BY <3>1, <3>2, <3>3, <3>4, EmptySeq
    <3>6. PlainFrames(outer)
      BY <1>2, <3>2, <3>3 DEF PlainFrames
    <3> HIDE DEF outer, list
    <3>7. QED
      BY <2>2, <3>1, <3>2, <3>5, <3>6, PlainRead
  <2>11. CASE EndOfMain
    <3>1. frames' = <<>> /\ Len(frames') = 0
      BY <2>11, EmptySeq DEF EndOfMain
    <3>2. QED
      BY <2>2, <3>1 DEF PlainFrames
  <2>12. CASE UNCHANGED vars
    BY <1>2, <2>2, <2>12 DEF vars
  <2>13. QED
    BY <1>4, <2>4, <2>5, <2>7, <2>8, <2>9, <2>10, <2>11, <2>12 DEF Step
<1>5. QED
  BY <1>3, <1>4 DEF Next

LEMMA PlainInit == Init => PlainInv
<1> SUFFICES ASSUME Init, PlainNames PROVE PlainFrames(frames) /\ PlainLibrary
  BY DEF PlainInv
<1>1. frames = <<>> /\ Len(frames) = 0 /\ search_path = <<PkgDataDir>> /\ Len(search_path) = 1
  BY EmptySeq DEF Init
<1>2. \A i \in 1..Len(search_path) : search_path[i] = PkgDataDir
  BY <1>1
<1>3. QED
  BY <1>1, <1>2 DEF PlainFrames, PlainLibrary, PlainNames

\* While names are plain, a file never has itself to read within itself, however
\* the files import each other (tiger-driver.cc:168).
THEOREM NeverWithinItself == Spec => []NoFileWithinItself
<1>1. ASSUME ImportsInv, PlainInv PROVE NoFileWithinItself
  <2>1. SUFFICES ASSUME PlainNames, NEW i \in 2..Len(frames), NEW j \in 2..Len(frames), i < j
                 PROVE  Opened[i] # Opened[j]
    BY DEF NoFileWithinItself
  <2>2. /\ Len(frames) \in Nat /\ DOMAIN frames = 1..Len(frames)
    BY DirectoriesShape
  <2>3. i \in 1..Len(frames) /\ j \in 1..Len(frames) /\ i # j
    BY <2>1, <2>2
  <2>4. Plain(frames[i].path) /\ Plain(frames[j].path)
    BY <1>1, <2>1, <2>3 DEF PlainInv, PlainFrames
  <2>5. Opened[i] = frames[i].path /\ Opened[j] = frames[j].path
    BY <2>2, <2>3, <2>4 DEF Opened, Resolve
  <2>6. QED
    BY <1>1, <2>3, <2>5 DEF ImportsInv, OpenOnce
<1>2. QED
  BY <1>1, InitHolds, StepHolds, PlainInit, PlainStep, PTL DEF Spec

-----------------------------------------------------------------------------
(* Chunks, one list after the other. *)

\* Putting sequences one after the other: what FlattenSeq goes through.
Flattens(ss, fl) ==
  /\ FlattenSeq(ss) = IF ss = <<>> THEN <<>> ELSE fl[Len(ss)]
  /\ \A i \in 1..Len(ss) : fl[i] = IF i = 1 THEN ss[1] ELSE fl[i - 1] \o ss[i]

LEMMA FlattenSteps ==
  ASSUME NEW S, NEW ss \in Seq(Seq(S))
  PROVE  \E fl : Flattens(ss, fl)
<1> DEFINE n == Len(ss)
           Rec(g, k) == g = [i \in 1..k |-> IF i = 1 THEN ss[i] ELSE g[i - 1] \o ss[i]]
           flatten == CHOOSE g : Rec(g, n)
<1>1. n \in Nat /\ DOMAIN ss = 1..n /\ \A i \in 1..n : ss[i] \in Seq(S)
  OBVIOUS
<1>2. CASE n = 0
  <2>1. FlattenSeq(ss) = ss /\ ss = <<>>
    BY <1>1, <1>2 DEF FlattenSeq
  <2>2. \A fl : Flattens(ss, fl)
    BY <1>2, <2>1 DEF Flattens
  <2>3. QED
    BY <2>2
<1>3. CASE n # 0
  <2>1. FlattenSeq(ss) = flatten[n]
    BY <1>3 DEF FlattenSeq
  <2>2. \E g : Rec(g, n)
    <3> DEFINE Bad == {k \in Nat : ~ \E g : Rec(g, k)}
    <3>1. SUFFICES ASSUME Bad # {} PROVE FALSE
      BY <1>1
    <3>2. PICK k \in Bad : \A j \in Bad : k <= j
      <4>1. Bad \in SUBSET Nat
        OBVIOUS
      <4> HIDE DEF Bad
      <4>2. QED
        BY <3>1, <4>1, LeastElement
    <3>3. k \in Nat /\ ~ \E g : Rec(g, k)
      OBVIOUS
    <3>4. CASE k = 0
      <4> DEFINE g == [i \in 1..0 |-> <<>>]
      <4>1. g = [i \in 1..0 |-> IF i = 1 THEN ss[i] ELSE g[i - 1] \o ss[i]]
        OBVIOUS
      <4>2. QED
        BY <4>1, <3>3, <3>4
    <3>5. CASE k # 0
      <4>1. k - 1 \in Nat /\ ~ k <= k - 1
        BY <3>3, <3>5
      <4>2. PICK g : Rec(g, k - 1)
        BY <4>1, <3>2
      <4> DEFINE last == IF k = 1 THEN ss[k] ELSE g[k - 1] \o ss[k]
                 h == [i \in 1..k |-> IF i = k THEN last ELSE g[i]]
      <4>3. ASSUME NEW i \in 1..k
            PROVE  h[i] = IF i = 1 THEN ss[i] ELSE h[i - 1] \o ss[i]
        <5>1. CASE i = k /\ k # 1
          <6>1. i - 1 \in 1..k /\ i - 1 # k /\ i - 1 = k - 1
            BY <5>1, <3>3
          <6>2. h[i - 1] = g[i - 1]
            BY <6>1
          <6>3. QED
            BY <6>1, <6>2, <5>1
        <5>2. CASE i = k /\ k = 1
          BY <5>2
        <5>3. CASE i # k
          <6>1. i \in 1..k - 1 /\ h[i] = g[i]
            BY <5>3, <3>3
          <6>2. g[i] = IF i = 1 THEN ss[i] ELSE g[i - 1] \o ss[i]
            BY <4>2, <6>1, Zenon
          <6>3. CASE i = 1
            BY <6>1, <6>2, <6>3
          <6>4. CASE i # 1
            <7>1. i - 1 \in 1..k /\ i - 1 # k
              BY <6>1, <6>4, <3>3
            <7>2. QED
              BY <7>1, <6>1, <6>2, <6>4
          <6>5. QED
            BY <6>3, <6>4
        <5>4. QED
          BY <5>1, <5>2, <5>3
      <4>4. Rec(h, k)
        <5> HIDE DEF last
        <5>1. h = [i \in 1..k |-> h[i]]
          OBVIOUS
        <5> HIDE DEF h
        <5>2. QED
          BY <4>3, <5>1
      <4>5. QED
        BY <4>4, <3>3
    <3>6. QED
      BY <3>4, <3>5
  <2>3. Rec(flatten, n)
    <3>1. flatten = CHOOSE g : Rec(g, n)
      OBVIOUS
    <3> HIDE DEF Rec, flatten
    <3>2. QED
      BY <2>2, <3>1
  <2> HIDE DEF flatten
  <2>4. \A i \in 1..n : flatten[i] = IF i = 1 THEN ss[i] ELSE flatten[i - 1] \o ss[i]
    BY <2>3, Zenon
  <2>6. ss # <<>>
    BY <1>1, <1>3
  <2>7. \A i \in 1..n : flatten[i] = IF i = 1 THEN ss[1] ELSE flatten[i - 1] \o ss[i]
    BY <2>4
  <2>8. QED
    BY <2>1, <2>6, <2>7 DEF Flattens
<1>4. QED
  BY <1>2, <1>3


\* Two trails part after c imports.
Fork(s, t, c) ==
  /\ c \in Nat /\ c < Len(s) /\ c < Len(t)
  /\ \A i \in 1..c : s[i] = t[i]
  /\ s[c + 1] # t[c + 1]

\* The order of two chunks, in a file that the first d imports lead to.
Before(s, t, d) ==
  \E c \in Nat : Fork(s, t, c) /\ d <= c /\ (s[c + 1] < t[c + 1] <=> (c - d) % 2 = 0)

Ordered(l, d) == \A i, j \in 1..Len(l) : i < j => Before(l[i], l[j], d)

\* A chunk that the k-th item of a file brings, where the imports P lead.
From(s, d, P) == s \in Seq(Nat) /\ d <= Len(s) /\ \A e \in 1..d - 1 : s[e] = P[e]

Brought(l, d, P, k) ==
  /\ l \in Seq(Seq(Nat)) /\ Ordered(l, d)
  /\ \A x \in 1..Len(l) : From(l[x], d, P) /\ l[x][d] = k

LEMMA Parity ==
  ASSUME NEW c \in Nat, NEW d \in Nat
  PROVE  (c - (d - 1)) % 2 = 0 <=> ~ ((c - d) % 2 = 0)
OBVIOUS

\* The other way round, in the file without the last import.
LEMMA BeforeReversed ==
  ASSUME NEW s \in Seq(Nat), NEW t \in Seq(Nat), NEW d \in Nat, d # 0, Before(t, s, d)
  PROVE  Before(s, t, d - 1)
<1>1. PICK c \in Nat : Fork(t, s, c) /\ d <= c /\ (t[c + 1] < s[c + 1] <=> (c - d) % 2 = 0)
  BY DEF Before
<1>2. Fork(s, t, c)
  BY <1>1 DEF Fork
<1>3. s[c + 1] \in Nat /\ t[c + 1] \in Nat /\ s[c + 1] # t[c + 1]
  <2>1. c + 1 \in 1..Len(s) /\ c + 1 \in 1..Len(t) /\ s[c + 1] # t[c + 1]
    BY <1>2 DEF Fork
  <2>2. QED
    BY <2>1
<1>4. s[c + 1] < t[c + 1] <=> (c - (d - 1)) % 2 = 0
  <2>1. (c - (d - 1)) % 2 = 0 <=> ~ ((c - d) % 2 = 0)
    BY Parity
  <2>2. s[c + 1] < t[c + 1] <=> ~ (t[c + 1] < s[c + 1])
    BY <1>3
  <2>3. QED
    BY <1>1, <2>1, <2>2, Zenon
<1>5. d - 1 <= c
  BY <1>1
<1>6. QED
  BY <1>2, <1>4, <1>5 DEF Before

LEMMA ReverseProperties ==
  ASSUME NEW S, NEW l \in Seq(S)
  PROVE  /\ Reverse(l) \in Seq(S) /\ Len(Reverse(l)) = Len(l)
         /\ \A i \in 1..Len(l) : Len(l) - i + 1 \in 1..Len(l) /\ Reverse(l)[i] = l[Len(l) - i + 1]
<1>1. Len(l) \in Nat /\ \A i \in 1..Len(l) : Len(l) - i + 1 \in 1..Len(l) /\ l[i] \in S
  OBVIOUS
<1>2. Reverse(l) = [i \in 1..Len(l) |-> l[Len(l) - i + 1]]
  BY DEF Reverse
<1>3. Reverse(l) \in [1..Len(l) -> S]
  BY <1>1, <1>2
<1>4. QED
  BY <1>1, <1>2, <1>3

\* The chunks of an item, as they come to the file that imports this one.
LEMMA BroughtReversed ==
  ASSUME NEW l, NEW d \in Nat, d # 0, NEW P, NEW k, Brought(l, d, P, k)
  PROVE  /\ Reverse(l) \in Seq(Seq(Nat)) /\ Ordered(Reverse(l), d - 1)
         /\ \A x \in 1..Len(Reverse(l)) : From(Reverse(l)[x], d, P) /\ Reverse(l)[x][d] = k
<1> DEFINE n == Len(l)
           r == Reverse(l)
<1>1. l \in Seq(Seq(Nat)) /\ Ordered(l, d) /\ n \in Nat
      /\ \A x \in 1..n : From(l[x], d, P) /\ l[x][d] = k
  BY DEF Brought
<1>2. /\ r \in Seq(Seq(Nat)) /\ Len(r) = n
      /\ \A i \in 1..n : n - i + 1 \in 1..n /\ r[i] = l[n - i + 1]
  BY <1>1, ReverseProperties
<1> HIDE DEF r, n
<1>3. ASSUME NEW x \in 1..n PROVE From(r[x], d, P) /\ r[x][d] = k
  <2>1. n - x + 1 \in 1..n /\ r[x] = l[n - x + 1]
    BY <1>2
  <2>2. From(l[n - x + 1], d, P) /\ l[n - x + 1][d] = k
    BY <2>1, <1>1
  <2>3. QED
    BY <2>1, <2>2
<1>4. ASSUME NEW i \in 1..n, NEW j \in 1..n, i < j PROVE Before(r[i], r[j], d - 1)
  <2>1. n - j + 1 \in 1..n /\ n - i + 1 \in 1..n /\ n - j + 1 < n - i + 1
    BY <1>1, <1>2, <1>4
  <2>2. Before(l[n - j + 1], l[n - i + 1], d)
    BY <2>1, <1>1 DEF Ordered, n
  <2>3. r[i] = l[n - i + 1] /\ r[j] = l[n - j + 1]
    BY <1>2
  <2>4. r[i] \in Seq(Nat) /\ r[j] \in Seq(Nat)
    BY <1>3, <1>4 DEF From
  <2>5. QED
    BY <2>2, <2>3, <2>4, BeforeReversed
<1>5. Ordered(r, d - 1)
  BY <1>2, <1>4 DEF Ordered
<1>6. QED
  BY <1>2, <1>3, <1>5 DEF r

\* Chunks of two items are in the order of the items.
LEMMA BeforeByItem ==
  ASSUME NEW d \in Nat, d # 0, NEW P, NEW s, NEW t, From(s, d, P), From(t, d, P), s[d] < t[d]
  PROVE  Before(s, t, d - 1)
<1> DEFINE c == d - 1
<1>1. c \in Nat /\ c + 1 = d /\ d \in 1..Len(s) /\ d \in 1..Len(t) /\ s \in Seq(Nat) /\ t \in Seq(Nat)
  BY DEF From
<1>2. c < Len(s) /\ c < Len(t) /\ s[d] \in Nat /\ t[d] \in Nat /\ s[d] # t[d]
  BY <1>1
<1>3. \A i \in 1..c : s[i] = t[i]
  BY DEF From
<1> HIDE DEF c
<1>4. Fork(s, t, c)
  BY <1>1, <1>2, <1>3 DEF Fork
<1>5. (c - c) % 2 = 0 /\ c <= c
  BY <1>1
<1>6. Before(s, t, c)
  BY <1>1, <1>4, <1>5 DEF Before
<1>7. QED
  BY <1>6 DEF c

\* One item after others.
Chunks(l, d, P, m) ==
  /\ l \in Seq(Seq(Nat)) /\ Ordered(l, d - 1)
  /\ \A x \in 1..Len(l) : From(l[x], d, P) /\ l[x][d] \in 1..m

LEMMA ChunksFollow ==
  ASSUME NEW d \in Nat, d # 0, NEW P, NEW m \in Nat, NEW l, Chunks(l, d, P, m),
         NEW r \in Seq(Seq(Nat)), Ordered(r, d - 1),
         \A x \in 1..Len(r) : From(r[x], d, P) /\ r[x][d] = m + 1
  PROVE  Chunks(l \o r, d, P, m + 1)
<1> DEFINE a == Len(l)
           b == Len(r)
           w == l \o r
<1>1. l \in Seq(Seq(Nat)) /\ Ordered(l, d - 1)
      /\ \A x \in 1..a : From(l[x], d, P) /\ l[x][d] \in 1..m
  BY DEF Chunks
<1>2. /\ w \in Seq(Seq(Nat)) /\ Len(w) = a + b /\ a \in Nat /\ b \in Nat
      /\ \A x \in 1..(a + b) : w[x] = IF x <= a THEN l[x] ELSE r[x - a]
  BY <1>1, ConcatProperties
<1> HIDE DEF w, a, b
<1>3. ASSUME NEW x \in 1..(a + b)
      PROVE  \/ x <= a /\ x \in 1..a /\ w[x] = l[x]
             \/ a < x /\ x - a \in 1..b /\ w[x] = r[x - a]
  BY <1>2
<1>4. ASSUME NEW x \in 1..(a + b) PROVE From(w[x], d, P) /\ w[x][d] \in 1..(m + 1)
  <2>1. CASE x \in 1..a /\ w[x] = l[x]
    <3>1. From(l[x], d, P) /\ l[x][d] \in 1..m
      BY <2>1, <1>1
    <3>2. QED
      BY <3>1, <2>1
  <2>2. CASE x - a \in 1..b /\ w[x] = r[x - a]
    <3>1. From(r[x - a], d, P) /\ r[x - a][d] = m + 1
      BY <2>2 DEF b
    <3>2. QED
      BY <3>1, <2>2
  <2>3. QED
    BY <1>3, <2>1, <2>2
<1>5. ASSUME NEW i \in 1..(a + b), NEW j \in 1..(a + b), i < j PROVE Before(w[i], w[j], d - 1)
  <2>1. CASE i \in 1..a /\ j \in 1..a /\ w[i] = l[i] /\ w[j] = l[j]
    BY <2>1, <1>1, <1>5 DEF Ordered, a
  <2>2. CASE i \in 1..a /\ w[i] = l[i] /\ j - a \in 1..b /\ w[j] = r[j - a]
    <3>1. From(w[i], d, P) /\ From(w[j], d, P) /\ w[i][d] \in 1..m /\ w[j][d] = m + 1
      <4>1. w[i][d] \in 1..m
        BY <2>2, <1>1
      <4>2. w[j][d] = m + 1
        BY <2>2 DEF b
      <4>3. QED
        BY <1>4, <4>1, <4>2
    <3>2. w[i][d] < w[j][d]
      BY <3>1
    <3>3. QED
      BY <3>1, <3>2, BeforeByItem
  <2>3. CASE i - a \in 1..b /\ w[i] = r[i - a] /\ j - a \in 1..b /\ w[j] = r[j - a]
    <3>1. i - a < j - a
      BY <1>2, <1>5
    <3>2. Before(r[i - a], r[j - a], d - 1)
      BY <2>3, <3>1 DEF Ordered, b
    <3>3. QED
      BY <3>2, <2>3
  <2>4. ~ (a < i /\ j <= a)
    BY <1>2, <1>5
  <2>5. QED
    BY <1>3, <2>1, <2>2, <2>3, <2>4
<1>6. Ordered(w, d - 1)
  BY <1>2, <1>5 DEF Ordered
<1>7. Chunks(w, d, P, m + 1)
  BY <1>2, <1>4, <1>6 DEF Chunks
<1>8. QED
  BY <1>7 DEF w

\* All the items of a file, the lists of which are in the order of the file.
LEMMA ChunksPushed ==
  ASSUME NEW d \in Nat, d # 0, NEW P, NEW ls \in Seq(Seq(Seq(Nat))),
         \A k \in 1..Len(ls) : Brought(ls[k], d, P, k)
  PROVE  Chunks(PushChunks(ls), d, P, Len(ls))
<1> DEFINE n == Len(ls)
           rs == [k \in DOMAIN ls |-> Reverse(ls[k])]
<1>1. n \in Nat /\ DOMAIN ls = 1..n /\ Len(rs) = n /\ DOMAIN rs = 1..n
      /\ \A k \in 1..n : rs[k] = Reverse(ls[k])
  OBVIOUS
<1>2. \A k \in 1..n : /\ rs[k] \in Seq(Seq(Nat)) /\ Ordered(rs[k], d - 1)
                      /\ \A x \in 1..Len(rs[k]) : From(rs[k][x], d, P) /\ rs[k][x][d] = k
  BY <1>1, BroughtReversed
<1>3. PushChunks(ls) = FlattenSeq(rs)
  BY DEF PushChunks
<1>4. rs \in Seq(Seq(Seq(Nat)))
  <2>1. rs = [k \in 1..n |-> Reverse(ls[k])]
    BY <1>1
  <2>2. \A k \in 1..n : Reverse(ls[k]) \in Seq(Seq(Nat))
    BY <1>1, <1>2
  <2> HIDE DEF rs
  <2>3. QED
    BY <1>1, <2>1, <2>2, IsASeq
<1> HIDE DEF rs, n
<1>5. PICK fl : Flattens(rs, fl)
  BY <1>4, FlattenSteps
<1>6. \A k \in 1..n : fl[k] = IF k = 1 THEN rs[1] ELSE fl[k - 1] \o rs[k]
  BY <1>1, <1>5 DEF Flattens
<1>7. Chunks(<<>>, d, P, 0)
  <2>1. <<>> \in Seq(Seq(Nat)) /\ Len(<<>>) = 0
    BY EmptySeq
  <2>2. QED
    BY <2>1 DEF Chunks, Ordered
<1> DEFINE Done(k) == Chunks(fl[k], d, P, k)
           Bad == {k \in 1..n : ~ Done(k)}
<1>8. Bad = {}
  <2>1. SUFFICES ASSUME Bad # {} PROVE FALSE
    OBVIOUS
  <2>2. PICK k \in Bad : \A j \in Bad : k <= j
    <3>1. Bad \in SUBSET Nat
      BY <1>1
    <3> HIDE DEF Bad
    <3>2. QED
      BY <2>1, <3>1, LeastElement
  <2>3. k \in 1..n /\ ~ Done(k)
    OBVIOUS
  <2>4. /\ rs[k] \in Seq(Seq(Nat)) /\ Ordered(rs[k], d - 1)
        /\ \A x \in 1..Len(rs[k]) : From(rs[k][x], d, P) /\ rs[k][x][d] = k
    BY <2>3, <1>2
  <2>5. CASE k = 1
    <3>1. Chunks(<<>> \o rs[1], d, P, 1)
      <4>1. PICK z \in Nat : z = 0
        OBVIOUS
      <4>2. Chunks(<<>>, d, P, z) /\ z + 1 = 1
        BY <4>1, <1>7
      <4>3. \A x \in 1..Len(rs[1]) : From(rs[1][x], d, P) /\ rs[1][x][d] = z + 1
        BY <2>4, <2>5, <4>2
      <4> HIDE <4>1
      <4>4. Chunks(<<>> \o rs[1], d, P, z + 1)
        BY <2>4, <2>5, <4>2, <4>3, ChunksFollow
      <4>5. QED
        BY <4>2, <4>4
    <3>2. <<>> \o rs[1] = rs[1]
      BY <2>4, <2>5
    <3>3. fl[k] = rs[1]
      BY <1>6, <2>3, <2>5
    <3>4. QED
      BY <2>3, <2>5, <3>1, <3>2, <3>3
  <2>6. CASE k # 1
    <3>1. k - 1 \in 1..n /\ k - 1 \in Nat /\ ~ k <= k - 1 /\ (k - 1) + 1 = k
      BY <2>3, <2>6, <1>1
    <3>2. Done(k - 1)
      BY <3>1, <2>2
    <3>3. fl[k] = fl[k - 1] \o rs[k]
      BY <1>6, <2>3, <2>6
    <3>4. Chunks(fl[k - 1] \o rs[k], d, P, (k - 1) + 1)
      BY <2>4, <3>1, <3>2, ChunksFollow
    <3>5. QED
      BY <2>3, <3>1, <3>3, <3>4
  <2>7. QED
    BY <2>5, <2>6
<1>9. FlattenSeq(rs) = IF n = 0 THEN <<>> ELSE fl[n]
  BY <1>1, <1>4, <1>5 DEF Flattens
<1>10. \A k \in 1..n : Done(k)
  BY <1>8
<1> HIDE DEF Done, Bad
<1>11. n # 0 => n \in 1..n
  BY <1>1
<1>12. Chunks(FlattenSeq(rs), d, P, n)
  <2>1. CASE n = 0
    BY <2>1, <1>7, <1>9
  <2>2. CASE n # 0
    BY <2>2, <1>9, <1>10, <1>11 DEF Done
  <2>3. QED
    BY <2>1, <2>2
<1>13. QED
  BY <1>3, <1>12 DEF n

\* In the end, from no import.
LEMMA OrderedHasOrder ==
  ASSUME NEW l \in Seq(Seq(Nat)), Ordered(l, 0), NEW i \in 1..Len(l), NEW j \in 1..Len(l), i < j
  PROVE  LET k == CommonImports(l[i], l[j])
         IN  l[i] # l[j] /\ ((l[i][k + 1] < l[j][k + 1]) <=> (k % 2 = 0))
<1> DEFINE s == l[i]
           t == l[j]
           Common(k) == /\ k < Len(t) /\ k < Len(s) /\ SubSeq(s, 1, k) = SubSeq(t, 1, k)
                        /\ s[k + 1] # t[k + 1]
<1>1. s \in Seq(Nat) /\ t \in Seq(Nat) /\ Len(s) \in Nat /\ Len(t) \in Nat /\ Before(s, t, 0)
  BY DEF Ordered
<1>2. CommonImports(s, t) = CHOOSE k \in 0..Len(s) : Common(k)
  BY DEF CommonImports
<1> HIDE DEF s, t
<1>3. PICK c \in Nat : Fork(s, t, c) /\ (s[c + 1] < t[c + 1] <=> (c - 0) % 2 = 0)
  BY <1>1 DEF Before
<1>4. c < Len(s) /\ c < Len(t) /\ s[c + 1] # t[c + 1] /\ \A e \in 1..c : s[e] = t[e]
  BY <1>3 DEF Fork
<1>5. ASSUME NEW k \in Nat, k < Len(s), k < Len(t)
      PROVE  SubSeq(s, 1, k) = SubSeq(t, 1, k) <=> \A e \in 1..k : s[e] = t[e]
  <2>1. /\ SubSeq(s, 1, k) = [e \in 1..k |-> s[e]]
        /\ SubSeq(t, 1, k) = [e \in 1..k |-> t[e]]
    BY <1>1, <1>5
  <2>2. QED
    BY <2>1
<1>6. c \in 0..Len(s) /\ Common(c)
  <2>1. c \in 0..Len(s)
    BY <1>1, <1>4
  <2>2. SubSeq(s, 1, c) = SubSeq(t, 1, c)
    BY <1>4, <1>5
  <2>3. QED
    BY <1>4, <2>1, <2>2
<1>7. ASSUME NEW k \in 0..Len(s), Common(k) PROVE k = c
  <2>1. k \in Nat /\ k < Len(s) /\ k < Len(t) /\ s[k + 1] # t[k + 1] /\ \A e \in 1..k : s[e] = t[e]
    BY <1>1, <1>5, <1>7
  <2>2. CASE k < c
    <3>1. k + 1 \in 1..c
      BY <2>1, <2>2
    <3>2. QED
      BY <3>1, <2>1, <1>4
  <2>3. CASE c < k
    <3>1. c + 1 \in 1..k
      BY <2>1, <2>3
    <3>2. QED
      BY <3>1, <2>1, <1>4
  <2>4. QED
    BY <2>1, <2>2, <2>3
<1>8. CommonImports(s, t) = c
  <2> DEFINE m == CHOOSE k \in 0..Len(s) : Common(k)
  <2> HIDE DEF Common
  <2>1. m \in 0..Len(s) /\ Common(m)
    BY <1>6
  <2>2. QED
    BY <1>2, <1>7, <2>1
<1>9. (c - 0) % 2 = c % 2
  OBVIOUS
<1>10. s # t
  BY <1>4
<1>11. QED
  BY <1>3, <1>8, <1>9, <1>10 DEF s, t

-----------------------------------------------------------------------------
(* The lists of the files being parsed. *)

Lists == Seq(Seq(Seq(Nat)))
Reading == [path : Path, left : Seq(Items), lists : Lists]

\* The place of the next item of each file.
Places(stack) == [e \in DOMAIN stack |-> Len(stack[e].lists) + 1]

Listed(stack) ==
  /\ stack \in Seq(Reading)
  /\ \A d \in 1..Len(stack) : \A k \in 1..Len(stack[d].lists) :
        Brought(stack[d].lists[k], d, Places(stack), k)

LEMMA FramesReading == FramesOver(Lists) = Seq(Reading)
BY DEF FramesOver, Reading

LEMMA ReadingHas ==
  ASSUME NEW stack, Listed(stack), NEW e \in 1..Len(stack)
  PROVE  /\ stack[e] \in Reading /\ stack[e].lists \in Lists
         /\ stack[e].left \in Seq(Items) /\ stack[e].path \in Path
         /\ Places(stack)[e] = Len(stack[e].lists) + 1 /\ Places(stack)[e] \in Nat
<1>1. stack \in Seq(Reading) /\ DOMAIN stack = 1..Len(stack)
  BY DEF Listed
<1>2. stack[e] \in Reading
  BY <1>1, ElementOfSeq, Zenon
<1>3. stack[e].lists \in Lists /\ stack[e].left \in Seq(Items) /\ stack[e].path \in Path
  BY <1>2 DEF Reading
<1>4. Len(stack[e].lists) \in Nat
  BY <1>3 DEF Lists
<1>5. Places(stack)[e] = Len(stack[e].lists) + 1
  BY <1>1 DEF Places
<1>6. QED
  BY <1>2, <1>3, <1>4, <1>5

\* Only the places of the files around count.
LEMMA BroughtAlike ==
  ASSUME NEW l, NEW d \in Nat, NEW P, NEW Q, NEW k, Brought(l, d, P, k),
         \A e \in 1..d - 1 : P[e] = Q[e]
  PROVE  Brought(l, d, Q, k)
BY DEF Brought, From

LEMMA ReadListed ==
  ASSUME NEW stack, Listed(stack), stack # <<>>, stack[Len(stack)].left # <<>>, NEW list,
         Brought(list, Len(stack), Places(stack), Places(stack)[Len(stack)])
  PROVE  Listed(Read(stack, list))
<1> DEFINE n == Len(stack)
           top == stack[n]
           R == Read(stack, list)
           read == ReadItem(top, list)
           m == Len(top.lists)
<1>1. stack \in Seq(Reading) /\ n \in Nat /\ n # 0 /\ n \in 1..n /\ stack \in FramesOver(Lists)
  BY FramesReading DEF Listed
<1>2. /\ Len(R) = n /\ \A i \in 1..(n - 1) : R[i] = stack[i]
      /\ R[n] = read /\ \E set : R \in FramesOver(set)
  BY <1>1, ReadProperties
<1>3. top \in Reading /\ top.lists \in Lists /\ m \in Nat /\ top.left # <<>> /\ top.left \in Seq(Items)
  BY <1>1, ReadingHas DEF Lists
<1>4. list \in Seq(Seq(Nat))
  BY DEF Brought
<1>5. /\ Append(top.lists, list) \in Lists /\ Len(Append(top.lists, list)) = m + 1
      /\ \A k \in 1..m : Append(top.lists, list)[k] = top.lists[k]
      /\ Append(top.lists, list)[m + 1] = list
  BY <1>3, <1>4, AppendProperties DEF Lists
<1>6. read \in Reading /\ read.lists = Append(top.lists, list)
  <2>1. Tail(top.left) \in Seq(Items)
    BY <1>3, HeadTailProperties
  <2>2. QED
    BY <1>3, <1>5, <2>1 DEF ReadItem, Reading
<1> HIDE DEF R, read, top, m, n
<1>7. R \in Seq(Reading) /\ DOMAIN R = 1..n
  <2>1. \A i \in 1..n : R[i] \in Reading
    <3>1. SUFFICES ASSUME NEW i \in 1..n PROVE R[i] \in Reading
      OBVIOUS
    <3>2. CASE i = n
      BY <3>2, <1>2, <1>6
    <3>3. CASE i # n
      <4>1. i \in 1..(n - 1)
        BY <3>3, <1>1
      <4>2. stack[i] \in Reading
        BY ReadingHas DEF n
      <4>3. QED
        BY <4>1, <4>2, <1>2
    <3>4. QED
      BY <3>2, <3>3
  <2>2. PICK set : R \in FramesOver(set)
    BY <1>2
  <2>3. R = [i \in 1..n |-> R[i]] /\ DOMAIN R = 1..n
    BY <1>2, <2>2 DEF FramesOver
  <2>4. QED
    BY <1>1, <2>1, <2>3, IsASeq
<1>8. DOMAIN stack = 1..n
  BY <1>1 DEF n
<1>9. \A e \in 1..(n - 1) : Places(R)[e] = Places(stack)[e]
  <2>1. \A e \in 1..(n - 1) : e \in 1..n /\ R[e] = stack[e]
    BY <1>1, <1>2
  <2>2. QED
    BY <1>7, <1>8, <2>1 DEF Places
<1>10. ASSUME NEW d \in 1..n, NEW k \in 1..Len(R[d].lists)
       PROVE  Brought(R[d].lists[k], d, Places(R), k)
  <2>1. d \in Nat /\ \A e \in 1..d - 1 : e \in 1..(n - 1)
    BY <1>1
  <2>2. \A e \in 1..d - 1 : Places(stack)[e] = Places(R)[e]
    BY <2>1, <1>9
  <2>3. Brought(R[d].lists[k], d, Places(stack), k)
    <3>1. CASE d # n
      <4>1. d \in 1..(n - 1) /\ R[d] = stack[d]
        BY <3>1, <1>1, <1>2
      <4>2. QED
        BY <4>1, <1>10 DEF Listed, n
    <3>2. CASE d = n
      <4>1. R[d].lists = Append(top.lists, list)
        BY <3>2, <1>2, <1>6
      <4>2. k \in 1..m \/ k = m + 1
        BY <4>1, <1>3, <1>5, <1>10
      <4>3. CASE k \in 1..m
        <5>1. Brought(top.lists[k], n, Places(stack), k)
          BY <4>3, <1>1 DEF Listed, n, top, m
        <5>2. QED
          BY <4>1, <4>3, <5>1, <3>2, <1>5
      <4>4. CASE k = m + 1
        <5>1. Places(stack)[n] = k
          BY <4>4, <1>1, ReadingHas DEF n, m, top
        <5>2. R[d].lists[k] = list
          BY <4>1, <4>4, <1>5
        <5>3. QED
          BY <5>1, <5>2, <3>2 DEF n
      <4>5. QED
        BY <4>2, <4>3, <4>4
    <3>3. QED
      BY <3>1, <3>2
  <2>4. QED
    BY <2>1, <2>2, <2>3, BroughtAlike
<1>11. Listed(R)
  BY <1>2, <1>7, <1>10 DEF Listed
<1>12. QED
  BY <1>11 DEF R

\* One more file, of which nothing is read yet.
LEMMA OpenListed ==
  ASSUME Types, NEW stack, Listed(stack), NEW p \in Path, Exists(p)
  PROVE  Listed(Append(stack, Frame(p)))
<1> DEFINE n == Len(stack)
           f == Frame(p)
           R == Append(stack, f)
<1>1. <<>> \in Lists
  BY EmptySeq DEF Lists
<1>2. f \in Reading /\ f.lists = <<>> /\ Len(f.lists) = 0
  BY <1>1, FrameType, EmptySeq DEF Reading, Frame
<1>3. stack \in Seq(Reading) /\ n \in Nat /\ DOMAIN stack = 1..n
  BY DEF Listed
<1> HIDE DEF f
<1>4. R \in Seq(Reading) /\ Len(R) = n + 1 /\ R[n + 1] = f /\ \A i \in 1..n : R[i] = stack[i]
  BY <1>2, <1>3, AppendProperties
<1> HIDE DEF R
<1>5. DOMAIN R = 1..(n + 1) /\ \A i \in 1..n : i \in 1..(n + 1)
  BY <1>3, <1>4
<1>6. \A e \in 1..n : Places(R)[e] = Places(stack)[e]
  BY <1>3, <1>4, <1>5 DEF Places
<1>7. ASSUME NEW d \in 1..(n + 1), NEW k \in 1..Len(R[d].lists)
      PROVE  Brought(R[d].lists[k], d, Places(R), k)
  <2>1. d # n + 1
    BY <1>2, <1>4, <1>7
  <2>2. d \in 1..n /\ R[d] = stack[d] /\ d \in Nat /\ \A e \in 1..d - 1 : e \in 1..n
    BY <2>1, <1>3, <1>4
  <2>3. Brought(R[d].lists[k], d, Places(stack), k)
    BY <2>2, <1>7 DEF Listed
  <2>4. \A e \in 1..d - 1 : Places(stack)[e] = Places(R)[e]
    BY <2>2, <1>6
  <2>5. QED
    BY <2>2, <2>3, <2>4, BroughtAlike
<1>8. Listed(R)
  BY <1>4, <1>7 DEF Listed
<1>9. QED
  BY <1>8 DEF R, f

\* All but the innermost file.
LEMMA FrontListed ==
  ASSUME NEW stack, Listed(stack), stack # <<>>
  PROVE  /\ Listed(Front(stack)) /\ Len(Front(stack)) = Len(stack) - 1
         /\ \A e \in 1..(Len(stack) - 1) : /\ Front(stack)[e] = stack[e]
                                           /\ Places(Front(stack))[e] = Places(stack)[e]
<1> DEFINE n == Len(stack)
           R == Front(stack)
<1>1. stack \in Seq(Reading) /\ n \in Nat /\ n # 0 /\ DOMAIN stack = 1..n
  BY DEF Listed
<1>2. R \in Seq(Reading) /\ Len(R) = n - 1 /\ \A e \in 1..(n - 1) : R[e] = stack[e]
  BY <1>1, FrontProperties
<1> HIDE DEF R
<1>3. DOMAIN R = 1..(n - 1) /\ \A e \in 1..(n - 1) : e \in 1..n
  BY <1>1, <1>2
<1>4. \A e \in 1..(n - 1) : Places(R)[e] = Places(stack)[e]
  BY <1>1, <1>2, <1>3 DEF Places
<1>5. ASSUME NEW d \in 1..(n - 1), NEW k \in 1..Len(R[d].lists)
      PROVE  Brought(R[d].lists[k], d, Places(R), k)
  <2>1. d \in 1..n /\ R[d] = stack[d] /\ d \in Nat /\ \A e \in 1..d - 1 : e \in 1..(n - 1)
    BY <1>1, <1>2
  <2>2. Brought(R[d].lists[k], d, Places(stack), k)
    BY <2>1, <1>5 DEF Listed
  <2>3. \A e \in 1..d - 1 : Places(stack)[e] = Places(R)[e]
    BY <2>1, <1>4
  <2>4. QED
    BY <2>1, <2>2, <2>3, BroughtAlike
<1>6. Listed(R)
  BY <1>2, <1>5 DEF Listed
<1>7. QED
  BY <1>2, <1>4, <1>6 DEF R

\* A chunk, or an expression, is read.
LEMMA ItemBrought ==
  ASSUME Listed(frames), frames # <<>>
  PROVE  /\ Brought(<<Trail>>, Len(frames), Places(frames), Places(frames)[Len(frames)])
         /\ Brought(<<>>, Len(frames), Places(frames), Places(frames)[Len(frames)])
<1> DEFINE n == Len(frames)
           l == <<Trail>>
<1>1. n \in Nat /\ n # 0 /\ DOMAIN frames = 1..n
  BY DEF Listed
<1>2. Trail = Places(frames)
  BY DEF Trail, Places
<1>3. Trail \in Seq(Nat) /\ Len(Trail) = n
  <2>1. \A e \in 1..n : Places(frames)[e] \in Nat
    BY ReadingHas
  <2>2. Trail = [e \in 1..n |-> Places(frames)[e]]
    BY <1>1, <1>2 DEF Places
  <2>3. QED
    BY <1>1, <2>1, <2>2
<1>4. l \in Seq(Seq(Nat)) /\ Len(l) = 1 /\ l[1] = Trail /\ \A x \in 1..1 : x = 1
  BY <1>3
<1>5. From(Trail, n, Places(frames))
  BY <1>1, <1>2, <1>3 DEF From
<1> HIDE DEF l
<1>6. Ordered(l, n)
  BY <1>4 DEF Ordered
<1>7. Brought(l, n, Places(frames), Places(frames)[n])
  BY <1>2, <1>4, <1>5, <1>6 DEF Brought
<1>8. Brought(<<>>, n, Places(frames), Places(frames)[n])
  <2>1. <<>> \in Seq(Seq(Nat)) /\ Len(<<>>) = 0
    BY EmptySeq
  <2>2. QED
    BY <2>1 DEF Brought, Ordered
<1>9. QED
  BY <1>7, <1>8 DEF l

\* What an imported file brings, in the order that its own items give.
LEMMA ImportBrought ==
  ASSUME Listed(frames), Len(frames) > 1
  PROVE  LET n == Len(frames) - 1 IN
         Brought(PushChunks(Top.lists), n, Places(frames), Places(frames)[n])
<1> DEFINE n == Len(frames)
           l == PushChunks(Top.lists)
           P == Places(frames)
<1>1. n \in Nat /\ n > 1 /\ n \in 1..n /\ n # 0
  BY DEF Listed
<1>2. Top = frames[n] /\ Top.lists \in Lists /\ \A k \in 1..Len(Top.lists) : Brought(Top.lists[k], n, P, k)
  BY <1>1, ReadingHas DEF Listed, Top, Last
<1>3. Chunks(l, n, P, Len(Top.lists))
  BY <1>1, <1>2, ChunksPushed DEF Lists
<1>4. l \in Seq(Seq(Nat)) /\ Ordered(l, n - 1) /\ \A x \in 1..Len(l) : From(l[x], n, P)
  BY <1>3 DEF Chunks
<1> HIDE DEF l, P, n
<1>5. ASSUME NEW x \in 1..Len(l) PROVE From(l[x], n - 1, P) /\ l[x][n - 1] = P[n - 1]
  <2>1. l[x] \in Seq(Nat) /\ n <= Len(l[x]) /\ \A e \in 1..n - 1 : l[x][e] = P[e]
    BY <1>4 DEF From
  <2>2. n - 1 \in 1..n - 1 /\ \A e \in 1..(n - 1) - 1 : e \in 1..n - 1
    BY <1>1
  <2>3. n - 1 <= Len(l[x])
    BY <1>1, <2>1
  <2>4. QED
    BY <2>1, <2>2, <2>3 DEF From
<1>6. Brought(l, n - 1, P, P[n - 1])
  BY <1>4, <1>5 DEF Brought
<1>7. QED
  BY <1>6 DEF l, P, n

OrderInv ==
  /\ Listed(frames)
  /\ program \in Seq(Seq(Nat)) /\ Ordered(program, 0)

LEMMA OrderInit == Init => OrderInv
<1> SUFFICES ASSUME Init PROVE OrderInv
  OBVIOUS
<1>1. /\ frames = <<>> /\ Len(frames) = 0 /\ frames \in Seq(Reading)
      /\ program = <<>> /\ Len(program) = 0 /\ program \in Seq(Seq(Nat))
  BY EmptySeq DEF Init
<1>2. QED
  BY <1>1 DEF OrderInv, Listed, Ordered

LEMMA OrderStep == ImportsInv /\ OrderInv /\ [Next]_vars => OrderInv'
<1> SUFFICES ASSUME ImportsInv, OrderInv, [Next]_vars PROVE OrderInv'
  OBVIOUS
<1>1. Listed(frames) /\ program \in Seq(Seq(Nat)) /\ Ordered(program, 0)
  BY DEF OrderInv
<1>2. Len(frames) \in Nat /\ frames \in Seq(Reading)
  BY <1>1 DEF Listed
<1>3. CASE UNCHANGED <<frames, program>>
  BY <1>1, <1>3 DEF OrderInv
<1>4. ASSUME NEW list, frames # <<>>, Top.left # <<>>, frames' = Read(frames, list), program' = program,
             Brought(list, Len(frames), Places(frames), Places(frames)[Len(frames)])
      PROVE  OrderInv'
  <2>1. frames[Len(frames)].left # <<>>
    BY <1>4 DEF Top, Last
  <2>2. Listed(Read(frames, list))
    BY <1>1, <1>4, <2>1, ReadListed
  <2>3. QED
    BY <1>1, <1>4, <2>2 DEF OrderInv
<1>5. ASSUME NEW p \in Path, Exists(p), frames' = Append(frames, Frame(p)), program' = program
      PROVE  OrderInv'
  BY <1>1, <1>5, OpenListed DEF OrderInv, ImportsInv
<1>6. CASE \E d \in Directories : LibraryAppend(d) \/ LibraryPrepend(d)
  BY <1>3, <1>6 DEF LibraryAppend, LibraryPrepend
<1>7. CASE Parse
  <2> DEFINE p == Join(WorkingDir, Main)
  <2>1. p \in Path
    BY ImportsAssumption, JoinIsPath DEF FileName
  <2>2. Exists(p)
    BY ImportsAssumption DEF Exists, ImportsInv, Types
  <2>3. frames' = Append(frames, Frame(p)) /\ program' = program
    BY <1>7 DEF Parse
  <2> HIDE DEF p
  <2>4. QED
    BY <1>5, <2>1, <2>2, <2>3
<1>8. CASE ReadChunk
  BY <1>1, <1>4, <1>8, ItemBrought DEF ReadChunk, Parsing
<1>9. CASE ReadExp
  <2>1. CASE Len(frames) > 1
    BY <1>3, <1>9, <2>1 DEF ReadExp, Fail
  <2>2. CASE ~ Len(frames) > 1
    BY <1>1, <1>4, <1>9, <2>2, ItemBrought DEF ReadExp, Parsing
  <2>3. QED
    BY <2>1, <2>2
<1>10. CASE FileNotFound \/ RecursiveInclusion
  BY <1>3, <1>10 DEF FileNotFound, RecursiveInclusion, Fail
<1>11. CASE ParseImport
  <2>1. Importing /\ find_file(Item) # <<>> /\ frames' = Append(frames, Frame(Imported(Item))) /\ program' = program
    BY <1>11 DEF ParseImport
  <2>2. Imported(Item) \in Path /\ Exists(Imported(Item))
    BY <2>1, FoundExists
  <2>3. QED
    BY <1>5, <2>1, <2>2
<1>12. CASE EndOfImport
  <2> DEFINE n == Len(frames)
             outer == Front(frames)
             list == PushChunks(Top.lists)
  <2>1. n > 1 /\ frames # <<>> /\ frames' = Read(outer, list) /\ program' = program
    BY <1>2, <1>12, EmptySeq DEF EndOfImport
  <2>2. /\ Listed(outer) /\ Len(outer) = n - 1
        /\ \A e \in 1..(n - 1) : outer[e] = frames[e] /\ Places(outer)[e] = Places(frames)[e]
    BY <1>1, <2>1, FrontListed
  <2>3. Brought(list, n - 1, Places(frames), Places(frames)[n - 1])
    BY <1>1, <2>1, ImportBrought
  <2>4. n - 1 \in 1..(n - 1) /\ n - 1 \in Nat /\ \A e \in 1..(n - 1) - 1 : e \in 1..(n - 1)
    BY <1>2, <2>1
  <2>5. frames[n - 1].left # <<>>
    BY <2>4 DEF ImportsInv, ImportsAreLeft
  <2>6. outer # <<>> /\ outer[Len(outer)].left # <<>>
    BY <2>2, <2>4, <2>5, EmptySeq
  <2> HIDE DEF outer, list, n
  <2>7. \A e \in 1..(n - 1) - 1 : Places(frames)[e] = Places(outer)[e]
    BY <2>2, <2>4
  <2>8. Brought(list, n - 1, Places(outer), Places(frames)[n - 1])
    BY <2>3, <2>4, <2>7, BroughtAlike
  <2>9. Brought(list, Len(outer), Places(outer), Places(outer)[Len(outer)])
    BY <2>2, <2>4, <2>8
  <2>10. Listed(Read(outer, list))
    BY <2>2, <2>6, <2>9, ReadListed
  <2>11. QED
    BY <1>1, <2>1, <2>10 DEF OrderInv
<1>13. CASE EndOfMain
  <2> DEFINE l == PushChunks(Top.lists)
  <2>1. Len(frames) = 1 /\ frames' = <<>> /\ program' = l
    BY <1>13 DEF EndOfMain
  <2>2. PICK d \in Nat : d = 1
    OBVIOUS
  <2>3. d - 1 = 0 /\ d # 0 /\ d = Len(frames) /\ d \in 1..Len(frames)
    BY <2>1, <2>2
  <2> HIDE <2>2
  <2>4. Top.lists \in Lists /\ \A k \in 1..Len(Top.lists) : Brought(Top.lists[k], d, Places(frames), k)
    BY <1>1, <2>3, ReadingHas DEF Listed, Top, Last
  <2>5. Chunks(l, d, Places(frames), Len(Top.lists))
    BY <2>3, <2>4, ChunksPushed DEF Lists
  <2>6. l \in Seq(Seq(Nat)) /\ Ordered(l, d - 1)
    BY <2>5 DEF Chunks
  <2>7. Ordered(l, 0)
    BY <2>3, <2>6
  <2> HIDE DEF l
  <2>8. Listed(frames')
    <3>1. <<>> \in Seq(Reading) /\ Len(<<>>) = 0
      BY EmptySeq
    <3>2. QED
      BY <2>1, <3>1 DEF Listed
  <2>9. QED
    BY <2>1, <2>6, <2>7, <2>8 DEF OrderInv
<1>14. CASE UNCHANGED vars
  BY <1>3, <1>14 DEF vars
<1>15. QED
  BY <1>6, <1>7, <1>8, <1>9, <1>10, <1>11, <1>12, <1>13, <1>14 DEF Next, Step

\* The chunks of imported files come in the order of the text, or in the opposite
\* one, with every import on the way, however deep (parsetiger.yy, importchunks).
THEOREM ChunksInOrder == Spec => []OrderOfChunks
<1>1. ASSUME OrderInv PROVE OrderOfChunks
  <2>1. program \in Seq(Seq(Nat)) /\ Ordered(program, 0) /\ DOMAIN program = 1..Len(program)
    BY <1>1 DEF OrderInv
  <2>2. QED
    BY <2>1, OrderedHasOrder DEF OrderOfChunks
<1>2. QED
  BY <1>1, InitHolds, StepHolds, OrderInit, OrderStep, PTL DEF Spec

-----------------------------------------------------------------------------
(* No chunk is lost.  What a file leads to is computed from the files, with *)
(* no stack; what its lists hold is compared with it, item by item.         *)

\* The definition of ChunksWithin is that of a function that exists.
LEMMA WithinUnfolds ==
  ASSUME NEW n \in 1..MaxOpen, NEW path \in Path
  PROVE  ChunksWithin[n][path] = ChunksOf(path, ChunksWithin[n - 1])
<1> DEFINE Level(below) == [p \in Path |-> ChunksOf(p, below)]
           None == [p \in Path |-> {}]
           Rec(g, m) == g = [i \in 0..m |-> IF i = 0 THEN None ELSE Level(g[i - 1])]
<1>1. MaxOpen \in Nat
  BY ImportsAssumption
<1>2. ChunksWithin = CHOOSE g : Rec(g, MaxOpen)
  BY DEF ChunksWithin
<1>3. \A p \in Path : \A below : Level(below)[p] = ChunksOf(p, below)
  OBVIOUS
<1> HIDE DEF Level, None
<1>4. \E g : Rec(g, MaxOpen)
  <2> DEFINE Bad == {m \in Nat : ~ \E g : Rec(g, m)}
  <2>1. SUFFICES ASSUME Bad # {} PROVE FALSE
    BY <1>1
  <2>2. PICK m \in Bad : \A j \in Bad : m <= j
    <3>1. Bad \in SUBSET Nat
      OBVIOUS
    <3> HIDE DEF Bad
    <3>2. QED
      BY <2>1, <3>1, LeastElement
  <2>3. m \in Nat /\ ~ \E g : Rec(g, m)
    OBVIOUS
  <2>4. CASE m = 0
    <3> DEFINE g == [i \in 0..0 |-> None]
    <3>1. g = [i \in 0..0 |-> IF i = 0 THEN None ELSE Level(g[i - 1])]
      OBVIOUS
    <3>2. QED
      BY <3>1, <2>3, <2>4
  <2>5. CASE m # 0
    <3>1. m - 1 \in Nat /\ ~ m <= m - 1
      BY <2>3, <2>5
    <3>2. PICK g : Rec(g, m - 1)
      BY <3>1, <2>2
    <3> DEFINE last == Level(g[m - 1])
               h == [i \in 0..m |-> IF i = m THEN last ELSE g[i]]
    <3>3. ASSUME NEW i \in 0..m
          PROVE  h[i] = IF i = 0 THEN None ELSE Level(h[i - 1])
      <4>1. CASE i = m
        <5>1. i - 1 \in 0..m /\ i - 1 # m /\ i # 0
          BY <4>1, <2>3, <2>5
        <5>2. h[i - 1] = g[i - 1]
          BY <5>1
        <5>3. QED
          BY <5>1, <5>2, <4>1
      <4>2. CASE i # m
        <5>1. i \in 0..m - 1 /\ h[i] = g[i]
          BY <4>2, <2>3
        <5>2. g[i] = IF i = 0 THEN None ELSE Level(g[i - 1])
          BY <3>2, <5>1, Zenon
        <5>3. CASE i = 0
          BY <5>1, <5>2, <5>3
        <5>4. CASE i # 0
          <6>1. i - 1 \in 0..m /\ i - 1 # m
            BY <5>1, <5>4, <2>3
          <6>2. h[i - 1] = g[i - 1]
            BY <6>1
          <6>3. QED
            BY <5>1, <5>2, <5>4, <6>2
        <5>5. QED
          BY <5>3, <5>4
      <4>3. QED
        BY <4>1, <4>2
    <3>4. Rec(h, m)
      <4> HIDE DEF last
      <4>1. h = [i \in 0..m |-> h[i]]
        OBVIOUS
      <4> HIDE DEF h
      <4>2. QED
        BY <3>3, <4>1
    <3>5. QED
      BY <3>4, <2>3
  <2>6. QED
    BY <2>4, <2>5
<1>5. Rec(ChunksWithin, MaxOpen)
  <2> HIDE DEF Rec
  <2>1. QED
    BY <1>2, <1>4
<1>6. n \in 0..MaxOpen /\ n # 0
  BY <1>1
<1>7. ChunksWithin[n] = Level(ChunksWithin[n - 1])
  <2>1. ChunksWithin[n] = IF n = 0 THEN None ELSE Level(ChunksWithin[n - 1])
    BY <1>5, <1>6, Zenon
  <2>2. QED
    BY <1>6, <2>1
<1>8. QED
  BY <1>3, <1>7

\* What files lead to does not change while the files and the library do not.
LEMMA WithinStays ==
  ASSUME fs' = fs, search_path' = search_path
  PROVE  /\ ChunksWithin' = ChunksWithin
         /\ \A d, name : FindFrom(d, name)' = FindFrom(d, name)
         /\ \A d, name : ImportedFrom(d, name)' = ImportedFrom(d, name)
         /\ \A p : Exists(p)' = Exists(p)
<1>1. ASSUME NEW p PROVE Exists(p)' = Exists(p)
  BY DEF Exists
<1>2. ASSUME NEW d, NEW name PROVE FindFrom(d, name)' = FindFrom(d, name)
  BY DEF FindFrom, Exists, find_in_search_path, Candidates, SelectInSeq
<1>3. ASSUME NEW d, NEW name PROVE ImportedFrom(d, name)' = ImportedFrom(d, name)
  BY <1>2 DEF ImportedFrom
<1>4. ASSUME NEW p, NEW below PROVE ChunksOf(p, below)' = ChunksOf(p, below)
  <2> DEFINE file == fs[Resolve(p)]
             found == {k \in DOMAIN file :
                         file[k].item = "import" /\ FindFrom(Front(p), file[k]) # <<>>}
             Of(k) == {<<k>> \o t : t \in below[ImportedFrom(Front(p), file[k])]}
             brought == UNION {Of(k) : k \in found}
  <2>1. file' = file
    OBVIOUS
  <2> HIDE DEF file
  <2>2. found' = found
    BY <1>2, <2>1
  <2>3. ASSUME NEW k PROVE Of(k)' = Of(k)
    <3>1. ImportedFrom(Front(p), file[k])' = ImportedFrom(Front(p), file[k])
      BY <1>3, <2>1
    <3>2. QED
      BY <3>1
  <2> HIDE DEF found, Of
  <2>4. brought' = brought
    BY <2>2, <2>3
  <2> HIDE DEF brought
  <2>5. ChunksOf(p, below) = {<<k>> : k \in {k \in DOMAIN file : file[k].item = "chunk"}} \union brought
    BY DEF ChunksOf, file, found, Of, brought
  <2>6. ChunksOf(p, below)' = ({<<k>> : k \in {k \in DOMAIN file : file[k].item = "chunk"}} \union brought)'
    BY DEF ChunksOf, file, found, Of, brought
  <2>7. QED
    BY <2>1, <2>4, <2>5, <2>6
<1>5. ChunksWithin' = ChunksWithin
  BY <1>4 DEF ChunksWithin
<1>6. QED
  BY <1>1, <1>2, <1>3, <1>5

\* The elements of two sequences, one after the other.
LEMMA ElementsOfConcat ==
  ASSUME NEW S, NEW a \in Seq(S), NEW b \in Seq(S)
  PROVE  ToSet(a \o b) = ToSet(a) \union ToSet(b)
<1> DEFINE w == a \o b
           m == Len(a)
           n == Len(b)
<1>1. /\ w \in Seq(S) /\ Len(w) = m + n /\ m \in Nat /\ n \in Nat
      /\ \A x \in 1..(m + n) : w[x] = IF x <= m THEN a[x] ELSE b[x - m]
  BY ConcatProperties
<1>2. DOMAIN w = 1..(m + n) /\ DOMAIN a = 1..m /\ DOMAIN b = 1..n
  BY <1>1
<1> HIDE DEF w, m, n
<1>3. ASSUME NEW x \in 1..(m + n) PROVE w[x] \in ToSet(a) \union ToSet(b)
  <2>1. CASE x <= m
    <3>1. x \in 1..m /\ w[x] = a[x]
      BY <1>1, <2>1
    <3>2. QED
      BY <3>1, <1>2 DEF ToSet
  <2>2. CASE ~ x <= m
    <3>1. x - m \in 1..n /\ w[x] = b[x - m]
      BY <1>1, <2>2
    <3>2. QED
      BY <3>1, <1>2 DEF ToSet
  <2>3. QED
    BY <2>1, <2>2
<1>4. ASSUME NEW x \in 1..m PROVE a[x] \in ToSet(w)
  <2>1. x \in 1..(m + n) /\ w[x] = a[x]
    BY <1>1
  <2>2. QED
    BY <2>1, <1>2 DEF ToSet
<1>5. ASSUME NEW x \in 1..n PROVE b[x] \in ToSet(w)
  <2>1. x + m \in 1..(m + n) /\ w[x + m] = b[x]
    BY <1>1
  <2>2. QED
    BY <2>1, <1>2 DEF ToSet
<1>6. ToSet(w) = ToSet(a) \union ToSet(b)
  BY <1>2, <1>3, <1>4, <1>5 DEF ToSet
<1>7. QED
  BY <1>6 DEF w

LEMMA ElementsOfReverse ==
  ASSUME NEW S, NEW l \in Seq(S)
  PROVE  ToSet(Reverse(l)) = ToSet(l)
<1> DEFINE n == Len(l)
           r == Reverse(l)
<1>1. n \in Nat /\ DOMAIN l = 1..n
  OBVIOUS
<1>2. /\ r \in Seq(S) /\ Len(r) = n /\ DOMAIN r = 1..n
      /\ \A i \in 1..n : n - i + 1 \in 1..n /\ r[i] = l[n - i + 1]
  BY ReverseProperties
<1> HIDE DEF r, n
<1>3. ASSUME NEW i \in 1..n PROVE l[i] = r[n - i + 1]
  <2>1. n - i + 1 \in 1..n /\ n - (n - i + 1) + 1 = i
    BY <1>1
  <2>2. QED
    BY <1>2, <2>1
<1>4. ToSet(r) = ToSet(l)
  BY <1>1, <1>2, <1>3 DEF ToSet
<1>5. QED
  BY <1>4 DEF r

\* The lists of the items, put together, have the chunks of each.
LEMMA ElementsPushed ==
  ASSUME NEW ls \in Lists
  PROVE  /\ PushChunks(ls) \in Seq(Seq(Nat))
         /\ ToSet(PushChunks(ls)) = UNION {ToSet(ls[k]) : k \in 1..Len(ls)}
<1> DEFINE n == Len(ls)
           rs == [k \in DOMAIN ls |-> Reverse(ls[k])]
<1>1. n \in Nat /\ DOMAIN ls = 1..n /\ Len(rs) = n /\ DOMAIN rs = 1..n
      /\ \A k \in 1..n : rs[k] = Reverse(ls[k]) /\ ls[k] \in Seq(Seq(Nat))
  BY DEF Lists
<1>2. \A k \in 1..n : rs[k] \in Seq(Seq(Nat)) /\ ToSet(rs[k]) = ToSet(ls[k])
  BY <1>1, ReverseProperties, ElementsOfReverse
<1>3. PushChunks(ls) = FlattenSeq(rs)
  BY DEF PushChunks
<1>4. rs \in Seq(Seq(Seq(Nat)))
  <2>1. rs = [k \in 1..n |-> rs[k]]
    BY <1>1
  <2> HIDE DEF rs
  <2>2. QED
    BY <1>1, <1>2, <2>1, IsASeq
<1> HIDE DEF rs, n
<1>5. PICK fl : Flattens(rs, fl)
  BY <1>4, FlattenSteps
<1>6. \A k \in 1..n : fl[k] = IF k = 1 THEN rs[1] ELSE fl[k - 1] \o rs[k]
  BY <1>1, <1>5 DEF Flattens
<1> DEFINE All(k) == UNION {ToSet(ls[i]) : i \in 1..k}
           Done(k) == fl[k] \in Seq(Seq(Nat)) /\ ToSet(fl[k]) = All(k)
           Bad == {k \in 1..n : ~ Done(k)}
<1>7. Bad = {}
  <2>1. SUFFICES ASSUME Bad # {} PROVE FALSE
    OBVIOUS
  <2>2. PICK k \in Bad : \A j \in Bad : k <= j
    <3>1. Bad \in SUBSET Nat
      BY <1>1
    <3> HIDE DEF Bad
    <3>2. QED
      BY <2>1, <3>1, LeastElement
  <2>3. k \in 1..n /\ ~ Done(k) /\ rs[k] \in Seq(Seq(Nat)) /\ ToSet(rs[k]) = ToSet(ls[k])
    BY <1>2
  <2>4. CASE k = 1
    <3>1. fl[k] = rs[k] /\ 1..k = {k}
      BY <1>6, <2>3, <2>4
    <3>2. All(k) = ToSet(ls[k])
      BY <3>1
    <3>3. QED
      BY <2>3, <3>1, <3>2
  <2>5. CASE k # 1
    <3>1. k - 1 \in 1..n /\ ~ k <= k - 1 /\ 1..k = (1..k - 1) \union {k}
      BY <2>3, <2>5, <1>1
    <3>2. Done(k - 1)
      BY <3>1, <2>2
    <3>3. fl[k] = fl[k - 1] \o rs[k]
      BY <1>6, <2>3, <2>5
    <3>4. fl[k] \in Seq(Seq(Nat)) /\ ToSet(fl[k]) = ToSet(fl[k - 1]) \union ToSet(rs[k])
      BY <2>3, <3>2, <3>3, ElementsOfConcat
    <3>5. All(k) = All(k - 1) \union ToSet(ls[k])
      BY <3>1
    <3>6. QED
      BY <2>3, <3>2, <3>4, <3>5
  <2>6. QED
    BY <2>4, <2>5
<1>8. FlattenSeq(rs) = IF n = 0 THEN <<>> ELSE fl[n]
  BY <1>1, <1>4, <1>5 DEF Flattens
<1>9. \A k \in 1..n : Done(k)
  <2> HIDE DEF Done
  <2>1. QED
    BY <1>7
<1>10. CASE n = 0
  <2>1. <<>> \in Seq(Seq(Nat)) /\ ToSet(<<>>) = {} /\ 1..n = {}
    BY <1>10 DEF ToSet
  <2>2. QED
    BY <2>1, <1>3, <1>8, <1>10 DEF n
<1>11. CASE n # 0
  <2>1. n \in 1..n
    BY <1>1, <1>11
  <2>2. fl[n] \in Seq(Seq(Nat)) /\ ToSet(fl[n]) = All(n)
    BY <2>1, <1>9
  <2>3. QED
    BY <2>2, <1>3, <1>8, <1>11 DEF n
<1>12. QED
  BY <1>10, <1>11

File(path) == fs[Resolve(path)]

Leads(path, item) == item.item = "import" /\ FindFrom(Front(path), item) # <<>>

\* The chunks that the k-th item of a file leads to.
ItemChunks(n, path, k) ==
  LET item == File(path)[k] IN
  IF item.item = "chunk" THEN {<<k>>}
  ELSE IF Leads(path, item)
  THEN {<<k>> \o t : t \in ChunksWithin[n - 1][ImportedFrom(Front(path), item)]}
  ELSE {}

LEMMA ItemsMakeTheFile ==
  ASSUME NEW n \in 1..MaxOpen, NEW path \in Path
  PROVE  ChunksWithin[n][path] = UNION {ItemChunks(n, path, k) : k \in DOMAIN File(path)}
<1> DEFINE own == {k \in DOMAIN File(path) : File(path)[k].item = "chunk"}
           found == {k \in DOMAIN File(path) : Leads(path, File(path)[k])}
           Of(k) == {<<k>> \o t : t \in ChunksWithin[n - 1][ImportedFrom(Front(path), File(path)[k])]}
<1>1. ChunksWithin[n][path] = {<<k>> : k \in own} \union UNION {Of(k) : k \in found}
  <2>1. ChunksWithin[n][path] = ChunksOf(path, ChunksWithin[n - 1])
    BY WithinUnfolds
  <2>2. QED
    BY <2>1, Zenon DEF ChunksOf, File, Leads
<1>2. ASSUME NEW k \in DOMAIN File(path)
      PROVE  ItemChunks(n, path, k) = IF k \in own THEN {<<k>>} ELSE IF k \in found THEN Of(k) ELSE {}
  BY DEF ItemChunks
<1>3. own \intersect found = {} /\ own \subseteq DOMAIN File(path) /\ found \subseteq DOMAIN File(path)
  BY DEF Leads
<1> HIDE DEF own, found, Of
<1>4. QED
  BY <1>1, <1>2, <1>3

\* A list has the chunks in S, each by its trail from around the file.
Holds(list, around, S) == S \subseteq Seq(Nat) /\ ToSet(list) = {around \o t : t \in S}

Around(stack, d) == [e \in 1..d - 1 |-> Places(stack)[e]]

\* The file of a frame: what is left of it, and what its lists hold.
Held(stack, d) ==
  LET r == stack[d] IN
  /\ d <= MaxOpen /\ Exists(r.path)
  /\ Len(r.lists) + Len(r.left) = Len(File(r.path))
  /\ \A i \in 1..Len(r.left) : r.left[i] = File(r.path)[Len(r.lists) + i]
  /\ \A k \in 1..Len(r.lists) :
        Holds(r.lists[k], Around(stack, d), ItemChunks(MaxOpen - d + 1, r.path, k))

\* The file of the next frame is the one the import to read leads to.
Waits(r, path) ==
  LET item == Head(r.left) IN
  r.left # <<>> /\ Leads(r.path, item) /\ path = ImportedFrom(Front(r.path), item)

ChunksHeld(stack) ==
  /\ \A d \in 1..Len(stack) : Held(stack, d)
  /\ \A d \in 1..(Len(stack) - 1) : Waits(stack[d], stack[d + 1].path)
  /\ stack # <<>> => stack[1].path = Join(WorkingDir, Main)

LEMMA HeldStays ==
  ASSUME fs' = fs, search_path' = search_path, NEW stack, ChunksHeld(stack)
  PROVE  ChunksHeld(stack)'
<1>1. \A p : File(p)' = File(p)
  BY DEF File
<1>2. \A p, item : Leads(p, item)' = Leads(p, item)
  BY WithinStays DEF Leads
<1>3. ASSUME NEW n, NEW p, NEW k PROVE ItemChunks(n, p, k)' = ItemChunks(n, p, k)
  <2> DEFINE item == File(p)[k]
             next == ChunksWithin[n - 1][ImportedFrom(Front(p), item)]
  <2>1. item' = item
    BY <1>1
  <2> HIDE DEF item
  <2>2. next' = next /\ Leads(p, item)' = Leads(p, item)
    BY <1>2, <2>1, WithinStays
  <2> HIDE DEF next
  <2>3. /\ ItemChunks(n, p, k) = IF item.item = "chunk" THEN {<<k>>}
                                 ELSE IF Leads(p, item) THEN {<<k>> \o t : t \in next} ELSE {}
        /\ ItemChunks(n, p, k)' = (IF item.item = "chunk" THEN {<<k>>}
                                 ELSE IF Leads(p, item) THEN {<<k>> \o t : t \in next} ELSE {})'
    BY Zenon DEF ItemChunks, item, next
  <2>4. QED
    BY <2>1, <2>2, <2>3
<1>4. \A d \in 1..Len(stack) : Held(stack, d)'
  BY <1>1, <1>3, WithinStays DEF ChunksHeld, Held
<1>5. \A d \in 1..(Len(stack) - 1) : Waits(stack[d], stack[d + 1].path)'
  BY <1>2, WithinStays DEF ChunksHeld, Waits
<1>6. QED
  BY <1>4, <1>5 DEF ChunksHeld

LEMMA AroundNext ==
  ASSUME NEW stack, Listed(stack), NEW d \in 1..Len(stack)
  PROVE  /\ Around(stack, d) \in Seq(Nat)
         /\ Around(stack, d + 1) = Around(stack, d) \o <<Places(stack)[d]>>
<1> DEFINE P == Places(stack)
           a == Around(stack, d)
           b == Around(stack, d + 1)
<1>1. d \in Nat /\ d - 1 \in Nat /\ Len(stack) \in Nat /\ \A e \in 1..d : e \in 1..Len(stack)
  BY DEF Listed
<1>2. \A e \in 1..d : P[e] \in Nat
  BY <1>1, ReadingHas
<1>3. a = [e \in 1..d - 1 |-> P[e]] /\ b = [e \in 1..d |-> P[e]]
  BY <1>1 DEF Around
<1> HIDE DEF P, a, b
<1>4. a \in Seq(Nat) /\ Len(a) = d - 1 /\ \A e \in 1..d - 1 : a[e] = P[e]
  BY <1>1, <1>2, <1>3
<1>5. b \in Seq(Nat) /\ Len(b) = d /\ \A e \in 1..d : b[e] = P[e]
  BY <1>1, <1>2, <1>3
<1>6. <<P[d]>> \in Seq(Nat) /\ Len(<<P[d]>>) = 1 /\ <<P[d]>>[1] = P[d]
  BY <1>1, <1>2
<1>7. /\ a \o <<P[d]>> \in Seq(Nat) /\ Len(a \o <<P[d]>>) = d
      /\ \A e \in 1..d : (a \o <<P[d]>>)[e] = P[e]
  BY <1>1, <1>4, <1>6, ConcatProperties
<1>8. a \o <<P[d]>> = b
  BY <1>5, <1>7, SeqEqual
<1>9. QED
  BY <1>4, <1>8 DEF P, a, b

\* The item that is read next, in the file.
LEMMA NextItem ==
  ASSUME NEW stack, Listed(stack), ChunksHeld(stack), NEW d \in 1..Len(stack), stack[d].left # <<>>
  PROVE  /\ Places(stack)[d] = Len(stack[d].lists) + 1
         /\ File(stack[d].path)[Places(stack)[d]] = Head(stack[d].left)
<1>1. /\ stack[d].left \in Seq(Items) /\ Places(stack)[d] = Len(stack[d].lists) + 1
      /\ stack[d].lists \in Lists
  BY ReadingHas
<1>2. 1 \in 1..Len(stack[d].left) /\ Head(stack[d].left) = stack[d].left[1]
  BY <1>1
<1>3. QED
  BY <1>1, <1>2 DEF ChunksHeld, Held

\* The next item is read, and what it leads to is in its list.
LEMMA ReadHeld ==
  ASSUME NEW stack, Listed(stack), ChunksHeld(stack), stack # <<>>, stack[Len(stack)].left # <<>>,
         NEW list, list \in Seq(Seq(Nat)),
         LET n == Len(stack) IN
         Holds(list, Around(stack, n), ItemChunks(MaxOpen - n + 1, stack[n].path, Places(stack)[n]))
  PROVE  ChunksHeld(Read(stack, list))
<1> DEFINE n == Len(stack)
           top == stack[n]
           R == Read(stack, list)
           m == Len(top.lists)
           k == Places(stack)[n]
<1>1. n \in Nat /\ n # 0 /\ n \in 1..n /\ stack \in FramesOver(Lists) /\ DOMAIN stack = 1..n
  BY FramesReading DEF Listed
<1>2. /\ Len(R) = n /\ \A i \in 1..(n - 1) : R[i] = stack[i]
      /\ \A i \in 1..n : R[i].path = stack[i].path
      /\ R[n] = ReadItem(top, list) /\ \E set : R \in FramesOver(set)
  BY <1>1, ReadProperties
<1>3. top.lists \in Lists /\ m \in Nat /\ top.left # <<>> /\ top.left \in Seq(Items) /\ k = m + 1
  BY <1>1, ReadingHas DEF Lists
<1>4. /\ Len(Append(top.lists, list)) = m + 1
      /\ \A j \in 1..m : Append(top.lists, list)[j] = top.lists[j]
      /\ Append(top.lists, list)[m + 1] = list
  BY <1>3, AppendProperties DEF Lists
<1>5. /\ Len(Tail(top.left)) = Len(top.left) - 1 /\ Len(top.left) \in Nat
      /\ \A i \in 1..Len(top.left) - 1 : Tail(top.left)[i] = top.left[i + 1]
  BY <1>3, HeadTailProperties
<1>6. R[n].lists = Append(top.lists, list) /\ R[n].left = Tail(top.left) /\ R[n].path = top.path
  <2>1. top \in Reading
    BY <1>1, ReadingHas
  <2>2. QED
    BY <1>2, <2>1 DEF ReadItem, Reading
<1>7. DOMAIN R = 1..n
  <2>1. PICK set : R \in FramesOver(set)
    BY <1>2
  <2>2. QED
    BY <1>2, <2>1 DEF FramesOver
<1>8. Holds(list, Around(stack, n), ItemChunks(MaxOpen - n + 1, top.path, m + 1))
  BY <1>3
<1> HIDE DEF R, top, m, n, k
<1>9. \A e \in 1..(n - 1) : Places(R)[e] = Places(stack)[e]
  <2>1. \A e \in 1..(n - 1) : e \in 1..n /\ R[e] = stack[e]
    BY <1>1, <1>2
  <2>2. QED
    BY <1>1, <1>7, <2>1 DEF Places
<1>10. ASSUME NEW d \in 1..n PROVE Around(R, d) = Around(stack, d)
  <2>1. \A e \in 1..d - 1 : e \in 1..(n - 1)
    BY <1>1
  <2>2. QED
    BY <1>9, <2>1 DEF Around
<1>11. ASSUME NEW d \in 1..n PROVE Held(R, d)
  <2>1. Held(stack, d)
    BY DEF ChunksHeld, n
  <2>2. CASE d # n
    <3>1. d \in 1..(n - 1) /\ R[d] = stack[d]
      BY <1>1, <1>2, <2>2
    <3>2. QED
      BY <1>10, <2>1, <3>1 DEF Held
  <2>3. CASE d = n
    <3>1. /\ n <= MaxOpen /\ Exists(top.path) /\ m + Len(top.left) = Len(File(top.path))
          /\ \A i \in 1..Len(top.left) : top.left[i] = File(top.path)[m + i]
          /\ \A j \in 1..m : Holds(top.lists[j], Around(stack, n), ItemChunks(MaxOpen - n + 1, top.path, j))
      BY <2>1, <2>3 DEF Held, top, m
    <3>2. Len(R[n].lists) + Len(R[n].left) = Len(File(top.path))
      <4>1. Len(R[n].lists) = m + 1 /\ Len(R[n].left) = Len(top.left) - 1
        BY <1>4, <1>5, <1>6
      <4>2. \A a, b \in Nat : (a + 1) + (b - 1) = a + b
        OBVIOUS
      <4>3. (m + 1) + (Len(top.left) - 1) = m + Len(top.left)
        BY <1>3, <1>5, <4>2
      <4>4. QED
        BY <3>1, <4>1, <4>3
    <3>3. ASSUME NEW i \in 1..Len(R[n].left)
          PROVE  R[n].left[i] = File(top.path)[Len(R[n].lists) + i]
      <4>1. i \in 1..Len(top.left) - 1 /\ i + 1 \in 1..Len(top.left) /\ Len(R[n].lists) = m + 1
            /\ m + (i + 1) = (m + 1) + i
        BY <1>3, <1>4, <1>5, <1>6
      <4>2. R[n].left[i] = top.left[i + 1]
        BY <1>5, <1>6, <4>1
      <4>3. top.left[i + 1] = File(top.path)[m + (i + 1)]
        BY <3>1, <4>1
      <4>4. QED
        BY <4>1, <4>2, <4>3
    <3>4. ASSUME NEW j \in 1..Len(R[n].lists)
          PROVE  Holds(R[n].lists[j], Around(R, n), ItemChunks(MaxOpen - n + 1, top.path, j))
      <4>1. Around(R, n) = Around(stack, n)
        BY <1>1, <1>10
      <4>2. j \in 1..m \/ j = m + 1
        BY <1>3, <1>4, <1>6
      <4>3. CASE j \in 1..m
        BY <1>4, <1>6, <3>1, <4>1, <4>3
      <4>4. CASE j = m + 1
        BY <1>4, <1>6, <1>8, <4>1, <4>4
      <4>5. QED
        BY <4>2, <4>3, <4>4
    <3>5. QED
      BY <1>6, <2>3, <3>1, <3>2, <3>3, <3>4 DEF Held
  <2>4. QED
    BY <2>2, <2>3
<1>12. ASSUME NEW d \in 1..(n - 1) PROVE Waits(R[d], R[d + 1].path)
  <2>1. d + 1 \in 1..n /\ R[d] = stack[d] /\ R[d + 1].path = stack[d + 1].path
    BY <1>1, <1>2
  <2>2. Waits(stack[d], stack[d + 1].path)
    BY DEF ChunksHeld, n
  <2>3. QED
    BY <2>1, <2>2
<1>13. R[1].path = Join(WorkingDir, Main)
  BY <1>1, <1>2 DEF ChunksHeld
<1>14. ChunksHeld(R)
  BY <1>2, <1>11, <1>12, <1>13 DEF ChunksHeld
<1>15. QED
  BY <1>14 DEF R

\* A file is opened, of which nothing is read yet.
LEMMA OpenHeld ==
  ASSUME Types, NEW stack, Listed(stack), ChunksHeld(stack), Len(stack) < MaxOpen,
         NEW p \in Path, Exists(p),
         stack = <<>> => p = Join(WorkingDir, Main),
         stack # <<>> => Waits(stack[Len(stack)], p)
  PROVE  ChunksHeld(Append(stack, Frame(p)))
<1> DEFINE n == Len(stack)
           f == Frame(p)
           R == Append(stack, f)
<1>1. stack \in Seq(Reading) /\ n \in Nat /\ DOMAIN stack = 1..n /\ MaxOpen \in Nat
  BY ImportsAssumption DEF Listed
<1>2. f.lists = <<>> /\ Len(f.lists) = 0 /\ f.left = File(p) /\ f.path = p /\ f \in Reading
  <2>1. <<>> \in Lists
    BY EmptySeq DEF Lists
  <2>2. QED
    BY <2>1, FrameType, EmptySeq DEF Frame, File, Reading
<1> HIDE DEF f
<1>3. R \in Seq(Reading) /\ Len(R) = n + 1 /\ R[n + 1] = f /\ \A i \in 1..n : R[i] = stack[i]
  BY <1>1, <1>2, AppendProperties
<1> HIDE DEF R, n
<1>4. DOMAIN R = 1..(n + 1) /\ \A i \in 1..n : i \in 1..(n + 1)
  BY <1>1, <1>3
<1>5. \A e \in 1..n : Places(R)[e] = Places(stack)[e]
  BY <1>1, <1>3, <1>4 DEF Places
<1>6. ASSUME NEW d \in 1..(n + 1) PROVE Held(R, d)
  <2>1. CASE d # n + 1
    <3>1. d \in 1..n /\ R[d] = stack[d] /\ \A e \in 1..d - 1 : e \in 1..n
      BY <1>1, <1>3, <2>1
    <3>2. Held(stack, d)
      BY <3>1 DEF ChunksHeld, n
    <3>3. Around(R, d) = Around(stack, d)
      BY <1>5, <3>1 DEF Around
    <3>4. QED
      BY <3>1, <3>2, <3>3 DEF Held
  <2>2. CASE d = n + 1
    <3>1. R[d] = f /\ d <= MaxOpen
      BY <1>1, <1>3, <2>2 DEF n
    <3>2. Len(File(p)) \in Nat
      <4>1. f.left \in Seq(Items)
        BY <1>2 DEF Reading
      <4>2. QED
        BY <1>2, <4>1
    <3>3. Len(f.lists) + Len(f.left) = Len(File(f.path))
      BY <1>2, <3>2
    <3>4. ASSUME NEW i \in 1..Len(f.left) PROVE f.left[i] = File(f.path)[Len(f.lists) + i]
      <4>1. 0 + i = i
        OBVIOUS
      <4>2. QED
        BY <1>2, <4>1
    <3>5. ASSUME NEW k \in 1..Len(f.lists) PROVE FALSE
      BY <1>2, <3>5
    <3>6. Exists(f.path)
      BY <1>2
    <3>7. QED
      BY <3>1, <3>3, <3>4, <3>5, <3>6 DEF Held
  <2>3. QED
    BY <2>1, <2>2
<1>7. ASSUME NEW d \in 1..n PROVE Waits(R[d], R[d + 1].path)
  <2>1. R[d] = stack[d] /\ d + 1 \in 1..(n + 1)
    BY <1>1, <1>3
  <2>2. CASE d = n
    <3>1. stack # <<>>
      BY <1>1, <2>2
    <3>2. QED
      BY <1>2, <1>3, <2>1, <2>2, <3>1 DEF n
  <2>3. CASE d # n
    <3>1. d \in 1..(n - 1) /\ d + 1 \in 1..n
      BY <1>1, <2>3
    <3>2. Waits(stack[d], stack[d + 1].path)
      BY <3>1 DEF ChunksHeld, n
    <3>3. QED
      BY <1>3, <2>1, <3>1, <3>2
  <2>4. QED
    BY <2>2, <2>3
<1>8. R[1].path = Join(WorkingDir, Main)
  <2>1. CASE stack = <<>>
    <3>1. n = 0 /\ n + 1 = 1
      BY <2>1, EmptySeq DEF n
    <3>2. QED
      BY <1>2, <1>3, <2>1, <3>1
  <2>2. CASE stack # <<>>
    <3>1. 1 \in 1..n
      BY <1>1, <2>2 DEF n
    <3>2. QED
      BY <1>3, <2>2, <3>1 DEF ChunksHeld
  <2>3. QED
    BY <2>1, <2>2
<1>9. ChunksHeld(R)
  <2>1. (n + 1) - 1 = n
    BY <1>1
  <2>2. QED
    BY <1>3, <1>6, <1>7, <1>8, <2>1 DEF ChunksHeld
<1>10. QED
  BY <1>9 DEF R, f

LEMMA FrontHeld ==
  ASSUME NEW stack, Listed(stack), ChunksHeld(stack), stack # <<>>
  PROVE  ChunksHeld(Front(stack))
<1> DEFINE n == Len(stack)
           R == Front(stack)
<1>1. n \in Nat /\ n # 0
  BY DEF Listed
<1>2. /\ Len(R) = n - 1 /\ Listed(R)
      /\ \A e \in 1..(n - 1) : R[e] = stack[e] /\ Places(R)[e] = Places(stack)[e]
  BY FrontListed
<1> HIDE DEF R, n
<1>3. ASSUME NEW d \in 1..(n - 1) PROVE Held(R, d)
  <2>1. d \in 1..n /\ R[d] = stack[d] /\ \A e \in 1..d - 1 : e \in 1..(n - 1)
    BY <1>1, <1>2
  <2>2. Held(stack, d)
    BY <2>1 DEF ChunksHeld, n
  <2>3. Around(R, d) = Around(stack, d)
    BY <1>2, <2>1 DEF Around
  <2>4. QED
    BY <2>1, <2>2, <2>3 DEF Held
<1>4. ASSUME NEW d \in 1..((n - 1) - 1) PROVE Waits(R[d], R[d + 1].path)
  <2>1. d \in 1..(n - 1) /\ d + 1 \in 1..(n - 1)
    BY <1>1
  <2>2. Waits(stack[d], stack[d + 1].path)
    BY <2>1 DEF ChunksHeld, n
  <2>3. QED
    BY <1>2, <2>1, <2>2
<1>5. R # <<>> => R[1].path = Join(WorkingDir, Main)
  <2>1. SUFFICES ASSUME R # <<>> PROVE R[1].path = Join(WorkingDir, Main)
    OBVIOUS
  <2>2. Len(R) # 0
    BY <2>1, <1>2 DEF Listed
  <2>3. 1 \in 1..(n - 1)
    BY <1>1, <1>2, <2>2
  <2>4. QED
    BY <1>2, <2>3 DEF ChunksHeld
<1>6. ChunksHeld(R)
  BY <1>2, <1>3, <1>4, <1>5 DEF ChunksHeld
<1>7. QED
  BY <1>6 DEF R

\* The lists of a file that is read to its end have all it leads to.
LEMMA AllRead ==
  ASSUME Types, Listed(frames), ChunksHeld(frames), frames # <<>>, Top.left = <<>>
  PROVE  LET n == Len(frames) IN
         Holds(PushChunks(Top.lists), Around(frames, n), ChunksWithin[MaxOpen - n + 1][Top.path])
<1> DEFINE n == Len(frames)
           path == Top.path
           w == MaxOpen - n + 1
           m == Len(Top.lists)
           A == Around(frames, n)
           I(k) == ItemChunks(w, path, k)
<1>1. n \in Nat /\ n # 0 /\ n \in 1..n /\ MaxOpen \in Nat
  BY ImportsAssumption DEF Listed
<1>2. Top = frames[n] /\ Top.lists \in Lists /\ path \in Path /\ m \in Nat
  BY <1>1, ReadingHas DEF Top, Last, Lists
<1>3. Held(frames, n)
  BY <1>1 DEF ChunksHeld
<1>4. /\ n <= MaxOpen /\ Exists(path) /\ m = Len(File(path))
      /\ \A k \in 1..m : Holds(Top.lists[k], A, I(k))
  <2>1. Len(Top.left) = 0 /\ m + 0 = m
    BY <1>2, EmptySeq
  <2>2. QED
    BY <1>2, <1>3, <2>1 DEF Held
<1>5. DOMAIN File(path) = 1..m
  <2>1. File(path) \in Seq(Items)
    BY <1>4, ImportsAssumption DEF Types, Exists, File
  <2>2. QED
    BY <1>4, <2>1
<1>6. w \in 1..MaxOpen
  BY <1>1, <1>4
<1>7. ToSet(PushChunks(Top.lists)) = UNION {ToSet(Top.lists[k]) : k \in 1..m}
  BY <1>2, ElementsPushed
<1> HIDE DEF w, n, m, A, path
<1>8. ChunksWithin[w][path] = UNION {I(k) : k \in 1..m}
  BY <1>2, <1>5, <1>6, ItemsMakeTheFile
<1> HIDE DEF I
<1>9. /\ \A k \in 1..m : I(k) \subseteq Seq(Nat) /\ ToSet(Top.lists[k]) = {A \o t : t \in I(k)}
  BY <1>4 DEF Holds
<1>10. UNION {ToSet(Top.lists[k]) : k \in 1..m} = {A \o t : t \in UNION {I(k) : k \in 1..m}}
  <2> DEFINE T(k) == ToSet(Top.lists[k])
  <2>1. \A k \in 1..m : T(k) = {A \o t : t \in I(k)}
    BY <1>9
  <2> HIDE DEF T
  <2>2. ASSUME NEW x PROVE x \in UNION {T(k) : k \in 1..m} <=> \E k \in 1..m : \E t \in I(k) : x = A \o t
    BY <2>1
  <2>3. ASSUME NEW x
        PROVE  x \in {A \o t : t \in UNION {I(k) : k \in 1..m}} <=> \E k \in 1..m : \E t \in I(k) : x = A \o t
    OBVIOUS
  <2>4. UNION {T(k) : k \in 1..m} = {A \o t : t \in UNION {I(k) : k \in 1..m}}
    BY <2>2, <2>3, Zenon
  <2>5. QED
    BY <2>4 DEF T
<1>11. Holds(PushChunks(Top.lists), A, ChunksWithin[w][path])
  BY <1>7, <1>8, <1>9, <1>10 DEF Holds
<1>12. QED
  BY <1>11 DEF w, n, A, path

AllInv == ChunksHeld(frames) /\ NoChunkIsLost

LEMMA NothingHeld ==
  /\ frames = <<>> => ChunksHeld(frames)
  /\ frames' = <<>> => ChunksHeld(frames)'
<1>1. Len(<<>>) = 0
  OBVIOUS
<1>2. QED
  BY <1>1 DEF ChunksHeld

LEMMA AllInit == Init => AllInv
BY NothingHeld DEF Init, AllInv, NoChunkIsLost

\* A chunk, or an expression, is read.
LEMMA ItemHeld ==
  ASSUME Listed(frames), ChunksHeld(frames), frames # <<>>, Top.left # <<>>
  PROVE  LET n == Len(frames)
             S == ItemChunks(MaxOpen - n + 1, frames[n].path, Places(frames)[n])
         IN  /\ Item.item = "chunk" => Holds(<<Trail>>, Around(frames, n), S)
             /\ Item.item = "exp" => Holds(<<>>, Around(frames, n), S)
             /\ <<Trail>> \in Seq(Seq(Nat)) /\ <<>> \in Seq(Seq(Nat))
<1> DEFINE n == Len(frames)
           k == Places(frames)[n]
           path == frames[n].path
           A == Around(frames, n)
           S == ItemChunks(MaxOpen - n + 1, path, k)
<1>1. n \in 1..Len(frames) /\ n \in Nat /\ DOMAIN frames = 1..n /\ Top = frames[n]
  BY DEF Listed, Top, Last
<1>2. File(path)[k] = Item /\ k \in Nat
  BY <1>1, NextItem, ReadingHas DEF Item
<1>3. A \in Seq(Nat) /\ Around(frames, n + 1) = A \o <<k>>
  BY <1>1, AroundNext
<1>4. Trail = A \o <<k>>
  <2>1. Trail = [e \in 1..n |-> Places(frames)[e]]
    BY <1>1 DEF Trail, Places
  <2>2. (n + 1) - 1 = n
    BY <1>1
  <2>3. QED
    BY <1>3, <2>1, <2>2 DEF Around
<1> HIDE DEF n, k, path, A
<1>5. <<k>> \in Seq(Nat) /\ Trail \in Seq(Nat) /\ <<Trail>> \in Seq(Seq(Nat)) /\ <<>> \in Seq(Seq(Nat))
  <2>1. <<k>> \in Seq(Nat)
    BY <1>2
  <2>2. Trail \in Seq(Nat)
    BY <1>3, <1>4, <2>1, ConcatProperties
  <2>3. QED
    BY <2>1, <2>2
<1>6. ASSUME Item.item = "chunk" PROVE Holds(<<Trail>>, A, S)
  <2>1. S = {<<k>>}
    BY <1>2, <1>6 DEF ItemChunks
  <2>2. ToSet(<<Trail>>) = {Trail}
    <3>1. DOMAIN <<Trail>> = {1} /\ <<Trail>>[1] = Trail
      OBVIOUS
    <3>2. QED
      BY <3>1 DEF ToSet
  <2> HIDE DEF S
  <2>3. QED
    BY <1>4, <1>5, <2>1, <2>2 DEF Holds
<1>7. ASSUME Item.item = "exp" PROVE Holds(<<>>, A, S)
  <2>1. S = {}
    BY <1>2, <1>7 DEF ItemChunks, Leads
  <2>2. ToSet(<<>>) = {}
    BY DEF ToSet
  <2> HIDE DEF S
  <2>3. QED
    BY <2>1, <2>2 DEF Holds
<1>8. QED
  BY <1>5, <1>6, <1>7 DEF n, k, path, A

\* The lists of an imported file become the list of the import.
LEMMA ImportHeld ==
  ASSUME Types, Listed(frames), ChunksHeld(frames), Len(frames) > 1, Top.left = <<>>
  PROVE  LET n == Len(frames) - 1 IN
         Holds(PushChunks(Top.lists), Around(frames, n),
               ItemChunks(MaxOpen - n + 1, frames[n].path, Places(frames)[n]))
<1> DEFINE n == Len(frames) - 1
           k == Places(frames)[n]
           path == frames[n].path
           next == Top.path
           item == Head(frames[n].left)
           A == Around(frames, n)
           W == ChunksWithin[MaxOpen - (n + 1) + 1][next]
           l == PushChunks(Top.lists)
<1>1. /\ Len(frames) \in Nat /\ n \in Nat /\ n \in 1..Len(frames) /\ n \in 1..(Len(frames) - 1)
      /\ Len(frames) = n + 1 /\ frames # <<>>
  BY EmptySeq DEF Listed
<1>2. Top = frames[n + 1]
  BY <1>1 DEF Top, Last
<1>3. Holds(l, Around(frames, n + 1), W)
  BY <1>1, AllRead
<1>4. frames[n].left # <<>> /\ Leads(path, item) /\ next = ImportedFrom(Front(path), item)
  BY <1>1, <1>2 DEF ChunksHeld, Waits
<1>5. File(path)[k] = item /\ k \in Nat
  BY <1>1, <1>4, NextItem, ReadingHas
<1>6. A \in Seq(Nat) /\ Around(frames, n + 1) = A \o <<k>>
  BY <1>1, AroundNext
<1>7. MaxOpen - (n + 1) + 1 = (MaxOpen - n + 1) - 1
  BY <1>1, ImportsAssumption
<1>8. ItemChunks(MaxOpen - n + 1, path, k) = {<<k>> \o t : t \in W}
  BY <1>4, <1>5, <1>7 DEF ItemChunks, Leads
<1> HIDE DEF n, k, path, next, item, A, W, l
<1>9. W \subseteq Seq(Nat) /\ ToSet(l) = {(A \o <<k>>) \o t : t \in W}
  BY <1>3, <1>6 DEF Holds
<1>10. <<k>> \in Seq(Nat)
  BY <1>5
<1>11. ASSUME NEW t \in W
       PROVE  <<k>> \o t \in Seq(Nat) /\ (A \o <<k>>) \o t = A \o (<<k>> \o t)
  <2>1. t \in Seq(Nat)
    BY <1>9
  <2>2. QED
    BY <1>6, <1>10, <2>1, ConcatProperties, ConcatAssociative
<1> DEFINE S == {<<k>> \o t : t \in W}
<1>12. S \subseteq Seq(Nat)
  BY <1>11
<1>13. ToSet(l) = {A \o u : u \in S}
  <2>1. ASSUME NEW x PROVE x \in ToSet(l) <=> \E t \in W : x = A \o (<<k>> \o t)
    BY <1>9, <1>11
  <2>2. ASSUME NEW x PROVE x \in {A \o u : u \in S} <=> \E t \in W : x = A \o (<<k>> \o t)
    OBVIOUS
  <2>3. QED
    BY <2>1, <2>2, Zenon
<1>14. Holds(l, A, S)
  BY <1>12, <1>13 DEF Holds
<1>15. QED
  BY <1>8, <1>14 DEF n, k, path, A, l

LEMMA AllStep == ImportsInv /\ OrderInv /\ AllInv /\ [Next]_vars => AllInv'
<1> SUFFICES ASSUME ImportsInv, OrderInv, AllInv, [Next]_vars PROVE AllInv'
  OBVIOUS
<1>1. Types /\ Listed(frames) /\ ChunksHeld(frames) /\ NoChunkIsLost
  BY DEF ImportsInv, OrderInv, AllInv
<1>2. Len(frames) \in Nat /\ MaxOpen \in Nat
  BY <1>1, ImportsAssumption DEF Listed
<1>3. ASSUME fs' = fs, search_path' = search_path, NEW stack, ChunksHeld(stack), frames' = stack,
             status' # "done"
      PROVE  AllInv'
  <2>1. ChunksHeld(stack)'
    BY <1>3, HeldStays
  <2>2. ChunksHeld(frames)'
    BY <1>3, <2>1
  <2>3. QED
    BY <1>3, <2>2 DEF AllInv, NoChunkIsLost
<1>4. CASE \E d \in Directories : LibraryAppend(d) \/ LibraryPrepend(d)
  <2>1. frames' = <<>> /\ status' # "done"
    BY <1>4 DEF LibraryAppend, LibraryPrepend
  <2>2. QED
    BY <2>1, NothingHeld DEF AllInv, NoChunkIsLost
<1>5. CASE Parse
  <2> DEFINE p == Join(WorkingDir, Main)
  <2>1. p \in Path
    BY ImportsAssumption, JoinIsPath DEF FileName
  <2>2. Exists(p)
    BY <1>1, ImportsAssumption DEF Exists, Types
  <2>3. /\ frames = <<>> /\ frames' = Append(frames, Frame(p)) /\ status' # "done"
        /\ fs' = fs /\ search_path' = search_path
    BY <1>5 DEF Parse
  <2>4. Len(frames) < MaxOpen
    BY <2>3, ImportsAssumption
  <2> HIDE DEF p
  <2>5. ChunksHeld(Append(frames, Frame(p)))
    BY <1>1, <2>1, <2>2, <2>3, <2>4, OpenHeld DEF p
  <2>6. QED
    BY <1>3, <2>3, <2>5
<1>6. ASSUME NEW list, frames # <<>>, Top.left # <<>>, frames' = Read(frames, list),
             list \in Seq(Seq(Nat)), status' # "done", fs' = fs, search_path' = search_path,
             LET n == Len(frames) IN
             Holds(list, Around(frames, n), ItemChunks(MaxOpen - n + 1, frames[n].path, Places(frames)[n]))
      PROVE  AllInv'
  <2>1. frames[Len(frames)].left # <<>>
    BY <1>6 DEF Top, Last
  <2>2. ChunksHeld(Read(frames, list))
    BY <1>1, <1>6, <2>1, ReadHeld
  <2>3. QED
    BY <1>3, <1>6, <2>2
<1>7. CASE ReadChunk
  <2>1. /\ frames # <<>> /\ Top.left # <<>> /\ Item.item = "chunk" /\ frames' = Read(frames, <<Trail>>)
        /\ status' # "done" /\ fs' = fs /\ search_path' = search_path
    BY <1>7 DEF ReadChunk, Parsing
  <2>2. QED
    BY <1>1, <1>6, <2>1, ItemHeld
<1>8. ASSUME Fail("expecting chunks") \/ Fail("file not found") \/ Fail("recursive inclusion")
      PROVE  AllInv'
  <2>1. frames' = frames /\ status' # "done" /\ fs' = fs /\ search_path' = search_path
    BY <1>8 DEF Fail
  <2>2. QED
    BY <1>1, <1>3, <2>1
<1>9. CASE ReadExp
  <2>1. CASE Len(frames) > 1
    BY <1>8, <1>9, <2>1 DEF ReadExp
  <2>2. CASE ~ Len(frames) > 1
    <3>1. /\ frames # <<>> /\ Top.left # <<>> /\ Item.item = "exp" /\ frames' = Read(frames, <<>>)
          /\ status' # "done" /\ fs' = fs /\ search_path' = search_path
      BY <1>9, <2>2 DEF ReadExp, Parsing
    <3>2. QED
      BY <1>1, <1>6, <3>1, ItemHeld
  <2>3. QED
    BY <2>1, <2>2
<1>10. CASE FileNotFound \/ RecursiveInclusion
  BY <1>8, <1>10 DEF FileNotFound, RecursiveInclusion
<1>11. CASE ParseImport
  <2> DEFINE n == Len(frames)
             p == Imported(Item)
             here == Front(Top.path)
  <2>1. /\ Importing /\ find_file(Item) # <<>> /\ Len(frames) < MaxOpen
        /\ frames' = Append(frames, Frame(p))
        /\ status' # "done" /\ fs' = fs /\ search_path' = search_path
    BY <1>11 DEF ParseImport, Importing, Parsing
  <2>2. p \in Path /\ Exists(p)
    BY <2>1, FoundExists
  <2>3. /\ frames # <<>> /\ n \in 1..n /\ Top = frames[n] /\ Top.left # <<>>
        /\ Item = Head(Top.left) /\ Item.item = "import"
    BY <1>2, <2>1, EmptySeq DEF Importing, Parsing, Top, Last, Item, Listed
  <2>4. current_directory_get = here
    <3>1. /\ current_directory \in Seq(Path) /\ Len(current_directory) = n + 1
          /\ current_directory[n + 1 - n] = Front(frames[n].path)
      BY <2>3, DirectoriesShape
    <3>2. Head(current_directory) = current_directory[1] /\ n + 1 - n = 1
      BY <1>2, <3>1
    <3>3. QED
      BY <2>3, <3>1, <3>2 DEF current_directory_get
  <2>5. FindFrom(here, Item) # <<>> /\ p = ImportedFrom(here, Item)
    BY <2>1, <2>4 DEF find_file, Imported
  <2> HIDE DEF p, here, n
  <2>6. Waits(Top, p)
    BY <2>3, <2>5 DEF Waits, Leads, here
  <2>7. ChunksHeld(Append(frames, Frame(p)))
    BY <1>1, <2>1, <2>2, <2>3, <2>6, OpenHeld DEF n
  <2>8. QED
    BY <1>3, <2>1, <2>7
<1>12. CASE EndOfImport
  <2> DEFINE n == Len(frames) - 1
             outer == Front(frames)
             list == PushChunks(Top.lists)
  <2>1. /\ Len(frames) > 1 /\ frames # <<>> /\ Top.left = <<>> /\ frames' = Read(outer, list)
        /\ status' # "done" /\ fs' = fs /\ search_path' = search_path
    BY <1>2, <1>12, EmptySeq DEF EndOfImport, Parsing
  <2>2. /\ Listed(outer) /\ Len(outer) = n
        /\ \A e \in 1..n : outer[e] = frames[e] /\ Places(outer)[e] = Places(frames)[e]
    BY <1>1, <2>1, FrontListed
  <2>3. ChunksHeld(outer)
    BY <1>1, <2>1, FrontHeld
  <2>4. Holds(list, Around(frames, n), ItemChunks(MaxOpen - n + 1, frames[n].path, Places(frames)[n]))
    BY <1>1, <2>1, ImportHeld
  <2>5. list \in Seq(Seq(Nat))
    <3>1. Len(frames) \in 1..Len(frames) /\ Top = frames[Len(frames)]
      BY <1>2, <2>1 DEF Top, Last
    <3>2. Top.lists \in Lists
      BY <1>1, <3>1, ReadingHas
    <3>3. QED
      BY <3>2, ElementsPushed
  <2>6. n \in 1..n /\ n \in Nat /\ \A e \in 1..n - 1 : e \in 1..n
    BY <1>2, <2>1
  <2>7. frames[n].left # <<>>
    BY <2>6 DEF ImportsInv, ImportsAreLeft
  <2> HIDE DEF outer, list, n
  <2>8. outer # <<>> /\ outer[n].left # <<>>
    BY <2>2, <2>6, <2>7, EmptySeq
  <2>9. Around(outer, n) = Around(frames, n)
    BY <2>2, <2>6 DEF Around
  <2>10. Holds(list, Around(outer, n), ItemChunks(MaxOpen - n + 1, outer[n].path, Places(outer)[n]))
    BY <2>2, <2>4, <2>6, <2>9
  <2>11. ChunksHeld(Read(outer, list))
    BY <2>2, <2>3, <2>5, <2>8, <2>10, ReadHeld
  <2>12. QED
    BY <1>3, <2>1, <2>11
<1>13. CASE EndOfMain
  <2> DEFINE l == PushChunks(Top.lists)
             main == Join(WorkingDir, Main)
  <2>1. /\ Len(frames) = 1 /\ frames # <<>> /\ Top.left = <<>> /\ frames' = <<>> /\ program' = l
        /\ fs' = fs /\ search_path' = search_path
    BY <1>13, EmptySeq DEF EndOfMain, Parsing
  <2>2. Top.path = main
    BY <1>1, <2>1 DEF ChunksHeld, Top, Last
  <2>3. Holds(l, Around(frames, 1), ChunksWithin[MaxOpen][main])
    <3>1. MaxOpen - 1 + 1 = MaxOpen
      BY <1>2
    <3>2. Holds(l, Around(frames, Len(frames)), ChunksWithin[MaxOpen - Len(frames) + 1][Top.path])
      BY <1>1, <2>1, AllRead
    <3>3. QED
      BY <2>1, <2>2, <3>1, <3>2
  <2> HIDE DEF l, main
  <2>4. \A t \in Seq(Nat) : Around(frames, 1) \o t = t
    <3>1. Around(frames, 1) = <<>>
      BY DEF Around
    <3>2. QED
      BY <3>1, ConcatEmptySeq
  <2>5. ToSet(l) = ChunksWithin[MaxOpen][main]
    BY <2>3, <2>4 DEF Holds
  <2>6. ToSet(program') = ChunksWithin'[MaxOpen][main]
    BY <2>1, <2>5, WithinStays
  <2>7. NoChunkIsLost'
    BY <2>6 DEF NoChunkIsLost, main
  <2>8. QED
    BY <2>1, <2>7, NothingHeld DEF AllInv
<1>14. CASE UNCHANGED vars
  <2>1. /\ frames' = frames /\ program' = program /\ status' = status
        /\ fs' = fs /\ search_path' = search_path
    BY <1>14 DEF vars
  <2>2. ChunksHeld(frames)'
    BY <1>1, <2>1, HeldStays
  <2>3. NoChunkIsLost'
    BY <1>1, <2>1, WithinStays DEF NoChunkIsLost
  <2>4. QED
    BY <2>2, <2>3 DEF AllInv
<1>15. QED
  BY <1>4, <1>5, <1>7, <1>9, <1>10, <1>11, <1>12, <1>13, <1>14 DEF Next, Step

\* The program has every chunk that the files lead to, through imports of any
\* depth and in any number (parsetiger.yy, importchunks), and nothing else.
THEOREM AllChunksCome == Spec => []NoChunkIsLost
<1>1. AllInv => NoChunkIsLost
  BY DEF AllInv
<1>2. QED
  BY <1>1, InitHolds, StepHolds, OrderInit, OrderStep, AllInit, AllStep, PTL DEF Spec

\* Both together: the program is what the files say, each chunk once and in its place.
THEOREM ChunksComeInOrder == Spec => []ChunksAreAllInOrder
<1>1. NoChunkIsLost /\ OrderOfChunks => ChunksAreAllInOrder
  BY DEF ChunksAreAllInOrder
<1>2. QED
  BY <1>1, AllChunksCome, ChunksInOrder, PTL
=============================================================================

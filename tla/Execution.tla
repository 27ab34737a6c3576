----------------------------- MODULE Execution -----------------------------
(***************************************************************************)
(* What the code does: the meaning of LLVM's instructions (external) and   *)
(* the run-time library, written in tiger-runtime.c and linked as the code *)
(* runtime.cc holds, where sizes have 32 bits and characters a sign.       *)
(*                                                                         *)
(* A string is a pointer to characters that end with 0: its value keeps    *)
(* the characters, str, and the address, at, which is all that comparing   *)
(* two pointers looks at.  A pointer to cells is the place of the first.   *)
(***************************************************************************)
EXTENDS Meaning, Translation

Word(n) == [int |-> Wrap(n)]
Pointer(at) == [at |-> at]
CString(s, at) == [str |-> s, at |-> at]
Done(r, v) == [r |-> r, v |-> v]
Stopped(r, st) == Done([r EXCEPT !.st = st], None_v)
Fresh(r) == Len(r.mem) + 1

\* size_t of an int, and an int of a char, which has a sign on the target.
Unsigned(n) == n % 2 ^ IntBits
Char_(c) == IF c >= 2 ^ (CharBits - 1) THEN c - 2 ^ CharBits ELSE c

\* The string of one character, in the table of all of them.
consts(i, r) ==
  IF i \in 0..(2 ^ CharBits - 1)
  THEN Done(r, CString(IF i = 0 THEN <<>> ELSE <<i>>, -1 - i)) ELSE Stopped(r, "wild")

tc_init_array(size, elt, r) ==
  IF size < 0 THEN Stopped(r, "wild")   \* fills as many cells as the unsigned size
  ELSE Done(Stored(r, [i \in 1..size |-> elt]), Pointer(Fresh(r)))
tc_not(i, r) == Done(r, Bool_v(i = 0))
tc_exit(i, r) == Stopped(r, "exit")
tc_chr(i, r) == IF i \notin 0..(2 ^ CharBits - 1) THEN Stopped(r, "exit") ELSE consts(i, r)
tc_concat(a, b, r) ==
  IF a.str = <<>> THEN Done(r, b) ELSE IF b.str = <<>> THEN Done(r, a)
  ELSE Done(Stored(r, <<Undefined_v>>), CString(a.str \o b.str, Fresh(r)))
tc_ord(s, r) == Done(r, Word(IF s.str = <<>> THEN -1 ELSE Char_(s.str[1])))
tc_size(s, r) == Done(r, Word(Len(s.str)))
tc_substring(s, first, n, r) ==
  IF first < 0 \/ n < 0 \/ Unsigned(first + n) > Len(s.str) THEN Stopped(r, "exit")
  ELSE IF n = 1 THEN consts(IF first < Len(s.str) THEN Char_(s.str[first + 1]) ELSE 0, r)
  ELSE Done(Stored(r, <<Undefined_v>>), CString(SubSeq(s.str, first + 1, first + n), Fresh(r)))
tc_strcmp(a, b, r) == Done(r, Word(Order(a.str, b.str)))
tc_streq(a, b, r) == Done(r, Bool_v(Order(a.str, b.str) = 0))
tc_getchar(r) == Done(r, CString(<<>>, 0))   \* at the end of the input
tc_print(s, r) == Done([r EXCEPT !.out = Append(@, String_v(s.str))], None_v)
tc_print_int(i, r) == Done([r EXCEPT !.out = Append(@, Word(i))], None_v)

tc_(name, a, r) ==
  CASE name = "print" -> tc_print(a[1], r)
    [] name \in {"print_err", "flush"} -> Done(r, None_v)
    [] name = "print_int" -> tc_print_int(a[1].int, r)
    [] name = "getchar" -> tc_getchar(r)
    [] name = "ord" -> tc_ord(a[1], r)
    [] name = "chr" -> tc_chr(a[1].int, r)
    [] name = "size" -> tc_size(a[1], r)
    [] name = "streq" -> tc_streq(a[1], a[2], r)
    [] name = "strcmp" -> tc_strcmp(a[1], a[2], r)
    [] name = "substring" -> tc_substring(a[1], a[2].int, a[3].int, r)
    [] name = "concat" -> tc_concat(a[1], a[2], r)
    [] name = "not" -> tc_not(a[1].int, r)
    [] name = "exit" -> tc_exit(a[1].int, r)

-----------------------------------------------------------------------------
(* The machine: the frames of the calls under way, memory, output, how it  *)
(* ended.  One instruction is one step.                                    *)

Frame(bb, args, dst) ==
  [bb |-> bb, prev |-> 0, i |-> 1, regs |-> <<>>, args |-> args, dst |-> dst]
Boot(b, globals) ==
  [stack |-> <<Frame(b.entry[Main], <<>>, 0)>>, mem |-> [i \in DOMAIN globals |-> Undefined_v],
   globals |-> globals, out |-> <<>>, st |-> "run"]

Operand(v, f, r) ==
  CASE "int" \in DOMAIN v -> Word(v.int)
    [] "reg" \in DOMAIN v -> IF v.reg \in DOMAIN f.regs THEN f.regs[v.reg] ELSE Undefined_v
    [] "arg" \in DOMAIN v -> f.args[v.arg]
    [] "global" \in DOMAIN v -> Pointer(CHOOSE i \in DOMAIN r.globals : r.globals[i] = v.global)
    [] "string" \in DOMAIN v -> CString(Codes(v.string), -100 - v.name)
    [] "null" \in DOMAIN v -> Pointer(0)

\* The address of an integer is itself, for an icmp.
Bits(v) == IF IsInt(v) THEN v.int ELSE v.at

\* The next instruction of the frame, with the result of this one.
Next_(r, dst, v) ==
  LET n == Len(r.stack) IN
  [r EXCEPT !.stack[n].i = @ + 1, !.stack[n].regs = IF dst = 0 THEN @ ELSE (dst :> v) @@ @]
Jump(r, bb) ==
  LET n == Len(r.stack)  from == r.stack[n].bb IN
  [r EXCEPT !.stack[n] = [@ EXCEPT !.prev = from, !.bb = bb, !.i = 1]]
Halted(r, st) == [r EXCEPT !.st = st]
Return(r, v) ==
  LET f == Last(r.stack)  s == [r EXCEPT !.stack = Front(@)] IN
  IF s.stack = <<>> THEN Halted(s, "end") ELSE Next_(s, f.dst, v)

Memory(x, a, r) ==
  CASE x.op = "alloca" -> Next_(Stored(r, <<Undefined_v>>), x.dst, Pointer(Fresh(r)))
    [] x.op = "malloc" -> Next_(Stored(r, [i \in 1..a[1].int |-> Undefined_v]), x.dst,
                                Pointer(Fresh(r)))
    [] x.op = "gep" -> IF a[1].at = 0 THEN Halted(r, "nil")
                       ELSE Next_(r, x.dst, Pointer(a[1].at + a[2].int))
    [] x.op = "load" -> IF a[1].at \notin DOMAIN r.mem THEN Halted(r, "wild")
                        ELSE Next_(r, x.dst, r.mem[a[1].at])
    [] x.op = "store" -> IF a[2].at \notin DOMAIN r.mem THEN Halted(r, "wild")
                         ELSE Next_([r EXCEPT !.mem[a[2].at] = a[1]], 0, None_v)

Control(x, a, f, b, r) ==
  CASE x.op = "br" -> Jump(r, x.targets[1])
    [] x.op = "condbr" -> Jump(r, IF a[1].int # 0 THEN x.targets[1] ELSE x.targets[2])
    [] x.op = "phi" -> IF f.prev \notin ToSet(x.from) THEN Halted(r, "wild")
                       ELSE Next_(r, x.dst, a[CHOOSE i \in 1..2 : x.from[i] = f.prev])
    [] x.op = "ret" -> Return(r, IF a = <<>> THEN None_v ELSE a[1])
    [] x.op = "call" ->
         IF ~IsPrimitive(x.callee)
         THEN [r EXCEPT !.stack = Append(@, Frame(b.entry[x.callee], a, x.dst))]
         ELSE LET c == tc_(Primitives[x.callee][1], a, r) IN Next_(c.r, x.dst, c.v)
    [] x.op = "init_array" -> LET c == tc_init_array(a[1].int, a[2], r) IN Next_(c.r, x.dst, c.v)

Arithmetic(x, a, r) ==
  LET p == Bits(a[1])  q == Bits(a[2]) IN
  Next_(r, x.dst, CASE x.op = "+" -> Word(p + q) [] x.op = "-" -> Word(p - q)
                    [] x.op = "*" -> Word(p * q)
                    [] x.op \in {"=", "<>", "<", "<=", ">", ">="} -> Compare(x.op, p - q))

\* What reads a value that is not there may do anything.
Step(b, r) ==
  LET f == Last(r.stack)
      ins == b.code[f.bb].ins IN
  IF f.i > Len(ins) THEN Halted(r, "wild")
  ELSE LET x == ins[f.i]
           a == [i \in DOMAIN x.args |-> IF x.op = "phi" /\ x.from[i] # f.prev THEN None_v
                                         ELSE Operand(x.args[i], f, r)]
           defined == \A i \in DOMAIN a : a[i] # Undefined_v IN
       CASE ~defined -> Halted(r, "wild")
         [] defined /\ x.op \in {"alloca", "malloc", "gep", "load", "store"} -> Memory(x, a, r)
         [] defined /\ x.op \in {"br", "condbr", "phi", "ret", "call", "init_array"} ->
              Control(x, a, f, b, r)
         [] defined /\ x.op \in {"+", "-", "*", "=", "<>", "<", "<=", ">", ">="} -> Arithmetic(x, a, r)

\* At most 2^k steps.
RECURSIVE Steps(_, _, _)
Steps(k, b, r) ==
  IF r.st # "run" THEN r ELSE IF k = 0 THEN Step(b, r) ELSE Steps(k - 1, b, Steps(k - 1, b, r))

CONSTANT StepBits
Outcome(b, globals) ==
  LET r == Steps(StepBits, b, Boot(b, globals)) IN [out |-> r.out, st |-> r.st]
=============================================================================

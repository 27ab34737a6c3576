----------------------------- MODULE MCCompile -----------------------------
(* Programs of four kinds: records, arrays and nil, well typed or not;     *)
(* loops; strings; functions and the variables they share.                 *)
EXTENDS Compile

Names == {"x", "p", "w", "q", "z", "r", "s", "v", "a", "b", "f", "g", "h", "n", "y", "i", "int",
          "string", "print", "print_int", "ord", "chr", "size", "concat", "substring", "not", "exit", "streq", "strcmp"}
Parts == {"Any", "Var", "Do", "Int", "Stm", "Loop", "Str", "Num", "Code", "C", "Ty", "Rec", "Init", "Own", "Inner"}
Lexeme(x) == IF x \in DOMAIN Number THEN Val("INT", x) ELSE IF x \in Names THEN Val("ID", x)
             ELSE IF x \in Parts THEN Part(x) ELSE Tok(x)
Way(cost, xs) == [cost |-> cost, text |-> [i \in DOMAIN xs |-> Lexeme(xs[i])]]

TheStarts == {"types", "control", "strings", "functions"}
TheWrites == [
  types |-> {Way(0, <<"let", "type", "r", "=", "{", "a", ":", "int", ",", "b", ":", "r", "}",
                      "type", "v", "=", "array", "of", "Ty",
                      "var", "p", ":=", "Rec", "var", "q", ":=", "Init", "in",
                      "Do", ";", "print_int", "(", "p", ".", "a", ")", "end">>),
            Way(1, <<"let", "type", "v", "=", "array", "of", "Ty",
                      "function", "f", "(", "a", ":", "v", ")", ":", "int", "=", "1",
                      "in", "print_int", "(", "7", ")", "end">>)},
  Rec |-> {Way(0, <<"r", "{", "a", "=", "1", ",", "b", "=", "nil", "}">>),
           Way(1, <<"r", "{", "a", "=", "1", "}">>)},
  Ty |-> {Way(0, <<"int">>), Way(1, <<"r">>), Way(1, <<"v">>)},
  Init |-> {Way(0, <<"v", "[", "2", "]", "of", "5">>), Way(2, <<"v", "[", "2", "]", "of", "Any">>),
            Way(1, <<"Any">>)},
  Any |-> {Way(0, <<"1">>), Way(0, <<"p">>), Way(0, <<"nil">>), Way(0, <<"q">>),
           Way(1, <<"p", ".", "a">>), Way(1, <<"p", ".", "b">>), Way(2, <<"q", "[", "Any", "]">>),
           Way(2, <<"r", "{", "a", "=", "Any", ",", "b", "=", "Any", "}">>),
           Way(2, <<"r", "{", "a", "=", "Any", "}">>), Way(1, <<"r", "{", "b", "=", "p", ",", "a", "=", "2", "}">>),
           Way(1, <<"Any", "=", "Any">>), Way(1, <<"Any", "<", "Any">>), Way(1, <<"Any", "+", "Any">>),
           Way(2, <<"(", "if", "Any", "then", "Any", "else", "Any", ")">>), Way(1, <<"(", ")">>)},
  Var |-> {Way(0, <<"p">>), Way(0, <<"p", ".", "a">>), Way(0, <<"p", ".", "b">>),
           Way(0, <<"q", "[", "1", "]">>), Way(0, <<"q", "[", "2", "]">>), Way(1, <<"p", ".", "b", ".", "a">>)},
  Do |-> {Way(0, <<"print_int", "(", "Any", ")">>), Way(0, <<"Var", ":=", "Any">>), Way(0, <<"Any">>),
          Way(2, <<"if", "Any", "then", "Any">>), Way(2, <<"Do", ";", "Do">>)},

  control |-> {Way(0, <<"let", "var", "x", ":=", "1", "in", "Stm", ";", "print_int", "(", "x", ")", "end">>)},
  Int |-> {Way(0, <<"x">>), Way(0, <<"7">>), Way(1, <<"Int", "-", "Int">>), Way(1, <<"-", "Int">>),
           Way(1, <<"Int", "<", "Int">>), Way(1, <<"Int", "&", "Int">>), Way(1, <<"Int", "|", "Int">>),
           Way(1, <<"(", "if", "Int", "then", "Int", "else", "Int", ")">>),
           Way(1, <<"(", "let", "var", "y", ":=", "Int", "in", "y", "+", "Int", "end", ")">>),
           Way(1, <<"(", "Stm", ";", "Int", ")">>)},
  Stm |-> {Way(0, <<"x", ":=", "Int">>), Way(1, <<"exit", "(", "not", "(", "Int", ")", ")">>), Way(1, <<"if", "Int", "then", "Stm">>),
           Way(1, <<"for", "i", ":=", "Int", "to", "Int", "do", "Loop">>),
           Way(1, <<"for", "i", ":=", "5", "to", "i", "do", "Loop">>),
           Way(1, <<"while", "x", "<", "2", "do", "(", "Loop", ";", "x", ":=", "x", "+", "1", ")">>)},
  Loop |-> {Way(0, <<"print_int", "(", "i", ")">>), Way(0, <<"print_int", "(", "x", ")">>),
            Way(1, <<"break">>), Way(1, <<"i", ":=", "2">>), Way(1, <<"x", ":=", "x", "-", "-", "1">>),
            Way(1, <<"if", "x", "=", "Int", "then", "break">>),
            Way(1, <<"(", "Loop", ";", "Loop", ")">>), Way(1, <<"(", "Stm", ";", "Loop", ")">>)},

  strings |-> {Way(0, <<"let", "type", "s", "=", "string", "var", "w", ":", "s", ":=", "C", "in",
                        "print", "(", "Str", ")", ";", "print_int", "(", "Num", ")", "end">>),
               Way(1, <<"for", "i", ":=", "0", "to", "1", "do", "print", "(", "Str", ")">>)},
  Num |-> {Way(0, <<"size", "(", "Str", ")">>), Way(0, <<"ord", "(", "Str", ")">>),
           Way(0, <<"Str", "=", "Str">>), Way(0, <<"Str", "<>", "Str">>), Way(0, <<"Str", "<=", "Str">>)},
  Str |-> {Way(0, <<"C">>), Way(1, <<"w">>), Way(1, <<"chr", "(", "Code", ")">>),
           Way(1, <<"concat", "(", "Str", ",", "Str", ")">>),
           Way(1, <<"substring", "(", "Str", ",", "0", ",", "1", ")">>)},
  Code |-> {Way(0, <<"0">>), Way(0, <<"1">>), Way(0, <<"2">>), Way(0, <<"5">>)},
  C |-> {[cost |-> 0, text |-> <<Char("q"), Char("c"), Char("q")>>],
         [cost |-> 1, text |-> <<Char("q"), Char("c"), Char("c"), Char("q")>>],
         [cost |-> 1, text |-> <<Char("q"), Char("b"), Char("q"), Char("q")>>]},

  functions |-> {Way(0, <<"let", "var", "x", ":=", "1",
                          "function", "f", "(", "n", ":", "int", ")", ":", "int", "=",
                          "let", "var", "y", ":=", "n",
                                 "function", "h", "(", "a", ":", "int", ")", ":", "int", "=", "Inner",
                          "in", "(", "print_int", "(", "Own", ")", ";", "y", ")", "end",
                          "function", "g", "(", "n", ":", "int", ")", ":", "int", "=",
                          "if", "n", "<", "1", "then", "x", "else", "f", "(", "n", "-", "1", ")",
                          "in", "print_int", "(", "g", "(", "2", ")", ")", ";",
                                "print_int", "(", "x", ")", "end">>)},
  Own |-> {Way(0, <<"y">>), Way(0, <<"h", "(", "n", ")">>), Way(0, <<"x">>),
           Way(1, <<"Own", "+", "Own">>), Way(1, <<"(", "x", ":=", "Own", ";", "Own", ")">>),
           Way(1, <<"(", "y", ":=", "Own", ";", "Own", ")">>)},
  Inner |-> {Way(0, <<"y">>), Way(0, <<"a">>), Way(1, <<"g", "(", "a", ")">>),
             Way(1, <<"(", "y", ":=", "Inner", ";", "Inner", ")">>),
             Way(1, <<"(", "x", ":=", "Inner", "+", "1", ";", "Inner", ")">>),
             Way(1, <<"if", "a", "<", "1", "then", "Inner", "else", "h", "(", "a", "-", "1", ")">>)}]
=============================================================================

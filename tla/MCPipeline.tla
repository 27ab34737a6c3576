----------------------------- MODULE MCPipeline -----------------------------
(***************************************************************************)
(* The pipeline on the shipped task table, for every command line of at    *)
(* most MaxOptions options among AllowedOptions, or MaxRenewing among      *)
(* those that replace the tree.                                            *)
(***************************************************************************)
EXTENDS Pipeline

CONSTANTS MaxOptions, AllowedOptions, MaxRenewing

MCPrograms == {Build}

\* An option of each kind that never discards annotations for good.
ForwardOptions ==
  {"bindings-compute", "bound", "rename", "escapes-compute", "typed",
   "types-compute", "desugar-for", "desugar", "desugared", "no-prelude",
   "llvm-compute", "llvm-display"}
\* Options that replace the tree, or need annotations that those drop.
RenewingOptions ==
  {"parse", "clone", "raw-desugar", "bound", "rename", "escapes-compute",
   "types-compute", "desugar", "llvm-compute"}
AllOptions == TaskNames

ListsUpTo(S, n) == UNION {[1..k -> S] : k \in 0..n}
MCCommandLines ==
  [options : ListsUpTo(AllowedOptions, MaxOptions)
               \union ListsUpTo(RenewingOptions, MaxRenewing),
   help : {FALSE}, file : {TRUE}]

Sound == [parses |-> TRUE, binds |-> TRUE, types |-> TRUE, unit |-> FALSE,
          builtins |-> FALSE, compares |-> FALSE, forward |-> FALSE,
          argloop |-> FALSE]
\* The sound program, one program for each way to be refused or to be
\* fragile, and a few that combine them.
EachFeature ==
  {Sound,
   [Sound EXCEPT !.parses = FALSE], [Sound EXCEPT !.binds = FALSE],
   [Sound EXCEPT !.types = FALSE], [Sound EXCEPT !.builtins = TRUE],
   [Sound EXCEPT !.compares = TRUE], [Sound EXCEPT !.forward = TRUE],
   [Sound EXCEPT !.argloop = TRUE],
   [Sound EXCEPT !.compares = TRUE, !.unit = TRUE],
   [Sound EXCEPT !.compares = TRUE, !.types = FALSE]}

\* The options that are not among the forward ones, on the sound program only.
MCInit ==
  /\ PInit
  /\ program = Sound \/ Range(cmdline.options) \subseteq ForwardOptions
MCFairSpec == MCInit /\ [][PNext]_allVars /\ PFairness
=============================================================================

-------------------------------- MODULE Driver --------------------------------
(***************************************************************************)
(* main (src/src/main.cpp), run again and again over the same files: it    *)
(* reads its arguments, parses the input, opens an output and dumps the    *)
(* tree.  A run may be killed between any two steps.                       *)
(*                                                                         *)
(* A name is a pair: what stands before its first dot, and what behind.    *)
(* What yyparse and log do is left to Parser and SyntaxTree.               *)
(***************************************************************************)
EXTENDS Integers, Sequences

CONSTANTS
    Sources,        \* names of the source files and the programs in them
    Names,          \* the names that may be given to main
    Overread(_),    \* what an unterminated copy of a text may be read as
    Accepted,       \* the programs that yyparse accepts
    Locked          \* names that cannot be opened for writing

Stems == {n[1] : n \in Names}

ASSUME NamesAssumption ==
    /\ DOMAIN Sources \cup Locked \subseteq Names
    /\ \A s \in Stems : s \in Overread(s)

VARIABLES
    files,          \* the contents of the files
    pc,             \* where main is, how it ended, or "shell": it is not running
    argv,           \* its arguments
    output_v2,      \* where parseGetOutputByInput wrote the input's stem
    ast,            \* _ast, the program that it is the tree of, or ""
    target,         \* the name that ast_ofs was made with
    before          \* files when the run began

vars == <<files, pc, argv, output_v2, ast, target, before>>
runVars == <<argv, output_v2, ast, target, before>>

Absent == [kind |-> "absent", of |-> ""]
Empty == [kind |-> "empty", of |-> ""]
Partial == [kind |-> "partial", of |-> ""]
SourceOf(p) == [kind |-> "source", of |-> p]
DumpOf(p) == [kind |-> "dump", of |-> p]

NoName == <<"", "">>
AllNames == Names \cup {<<t, "ast">> : t \in UNION {Overread(s) : s \in Stems}}

-----------------------------------------------------------------------------
MODE_UNDEF == -1
MODE_AST == 0
MODE_IR == 1
MODE_ASM == 2
MODE_ALL == 3

Modes == {"-ast", "-koopa", "-riscv", "-all", "-o"}

ParseMode(mode) ==
    CASE mode = "-ast" -> MODE_AST
      [] mode = "-koopa" -> MODE_IR
      [] mode \in {"-asm", "-riscv"} -> MODE_ASM
      [] mode = "-all" -> MODE_ALL
      [] OTHER -> MODE_UNDEF

Ended == {"exit", "abort", "killed"}

NoArgs == [argc |-> 0, mode |-> "", input |-> NoName, output |-> NoName]

Init ==
    /\ files = [n \in AllNames |->
                   IF n \in DOMAIN Sources THEN SourceOf(Sources[n]) ELSE Absent]
    /\ pc = "shell"
    /\ argv = NoArgs
    /\ output_v2 = ""
    /\ ast = ""
    /\ target = NoName
    /\ before = files

\* main is called, and asserts that it has four arguments.  The stem is copied
\* into a buffer without room for its end.
Start ==
    /\ pc = "shell"
    /\ \E argc \in {4, 5}, mode \in Modes, input \in Names, output \in Names :
          /\ argv' = [argc |-> argc, mode |-> mode, input |-> input, output |-> output]
          /\ pc' = IF argc = 5 THEN "open" ELSE "abort"
          /\ output_v2' = IF argc = 5 THEN input[1] ELSE ""
    /\ UNCHANGED <<files, ast, target, before>>

\* yyin, asserted to be there.
OpenInput ==
    /\ pc = "open"
    /\ pc' = IF files[argv.input] = Absent THEN "abort" ELSE "parse"
    /\ UNCHANGED <<files, runVars>>

\* Mutant of Parse: the output is opened before the program is parsed.
ParseAfterOpen ==
    /\ pc = "parse"
    /\ LET text == files[argv.input]
           ok == text.kind = "source" /\ text.of \in Accepted
       IN  /\ pc' = IF ok THEN "output" ELSE "abort"
           /\ ast' = IF ok THEN text.of ELSE ""
    /\ files' = [files EXCEPT ![argv.output] = Empty]
    /\ UNCHANGED <<argv, output_v2, target, before>>

\* yyparse, asserted to return 0.  A dump or an empty file is no program.
Parse ==
    /\ pc = "parse"
    /\ LET text == files[argv.input]
           ok == text.kind = "source" /\ text.of \in Accepted
       IN  /\ pc' = IF ok THEN "output" ELSE "abort"
           /\ ast' = IF ok THEN text.of ELSE ""
    /\ UNCHANGED <<files, argv, output_v2, target, before>>

\* Mutant of OpenOutput: what stands behind the dot is taken for the stem.
OpenOutputAnyStem ==
    /\ pc = "output"
    /\ \E name \in {<<argv.input[2], "ast">>} :
          /\ target' = name
          /\ files' = IF name \in Locked THEN files ELSE [files EXCEPT ![name] = Empty]
    /\ pc' = "log"
    /\ UNCHANGED <<argv, output_v2, ast, before>>

\* Mutant of OpenOutput: the else is missing, both names are opened.
OpenOutputBoth ==
    /\ pc = "output"
    /\ \E name \in IF ParseMode(argv.mode) >= MODE_ALL
                   THEN {<<stem, "ast">> : stem \in Overread(output_v2)}
                   ELSE {argv.output} :
          /\ target' = name
          /\ files' = [n \in DOMAIN files |->
                         IF n \in {name, argv.output} \ Locked THEN Empty ELSE files[n]]
    /\ pc' = "log"
    /\ UNCHANGED <<argv, output_v2, ast, before>>

\* The output is opened, whatever the mode is, and truncated.  That it could be
\* opened is not asserted.  __STR_CAT__ reads the stem to the next zero.
OpenOutput ==
    /\ pc = "output"
    /\ \E name \in IF ParseMode(argv.mode) >= MODE_ALL
                   THEN {<<stem, "ast">> : stem \in Overread(output_v2)}
                   ELSE {argv.output} :
          /\ target' = name
          /\ files' = IF name \in Locked THEN files ELSE [files EXCEPT ![name] = Empty]
    /\ pc' = "log"
    /\ UNCHANGED <<argv, output_v2, ast, before>>

\* Mutant of Logs: the dump is written in mode AST only.
LogsAstOnly == ParseMode(argv.mode) = MODE_AST

Logs == ParseMode(argv.mode) \in {MODE_AST, MODE_ALL}

\* The tree is logged to a stream, which may write some of it on the way.
LogAst ==
    /\ pc = "log"
    /\ pc' = "return"
    /\ \/ UNCHANGED files
       \/ /\ Logs
          /\ target \notin Locked
          /\ files' = [files EXCEPT ![target] = Partial]
    /\ UNCHANGED runVars

\* main returns 0, its streams write what they still have.
Return ==
    /\ pc = "return"
    /\ pc' = "exit"
    /\ files' = IF Logs /\ target \notin Locked
                THEN [files EXCEPT ![target] = DumpOf(ast)]
                ELSE files
    /\ UNCHANGED runVars

\* From outside, at any moment.
Kill ==
    /\ pc \notin Ended \cup {"shell"}
    /\ pc' = "killed"
    /\ UNCHANGED <<files, runVars>>

\* The process is gone; only the files are left.
Gone ==
    /\ pc \in Ended
    /\ pc' = "shell"
    /\ argv' = NoArgs
    /\ output_v2' = ""
    /\ ast' = ""
    /\ target' = NoName
    /\ before' = files
    /\ UNCHANGED files

Next ==
    \/ Start \/ OpenInput \/ Parse \/ OpenOutput \/ LogAst \/ Return
    \/ Kill \/ Gone

Spec == Init /\ [][Next]_vars

-----------------------------------------------------------------------------
\* The type invariant of the driver: the names that main works with are names of
\* files, so that no step creates one beyond them.
DriverTypeOK ==
    /\ pc \in {"shell", "open", "parse", "output", "log", "return"} \cup Ended
    /\ DOMAIN files = AllNames
    /\ pc \in {"open", "parse", "output", "log", "return"} =>
          /\ argv.mode \in Modes /\ argv.input \in Names /\ argv.output \in Names
          /\ output_v2 = argv.input[1]
    /\ pc \in {"log", "return"} => target \in AllNames

\* A run that fails, for its arguments, its input or a program with an error,
\* leaves every file as it was, a dump of an earlier run included.
FailureKeepsFiles == pc = "abort" => files = before

\* Success in mode AST or ALL means that a dump is there, a whole one and of the
\* program that the input held when the run began, though it may have replaced
\* the input itself; only where the output could not be opened nothing is said.
SuccessMeansDump ==
    pc = "exit" /\ argv.mode \in {"-ast", "-all"} /\ target \notin Locked =>
        files[target] = DumpOf(before[argv.input].of)

\* A run that is killed, at any moment, has lost one file at most: its output, and
\* only when the input was a program that parses and the output could be opened.
\* What is left in it is nothing or, in a mode that dumps, a part of the dump; a
\* program with an error costs no file even then.
KilledHarmsOutputOnly ==
    pc = "killed" /\ files # before =>
        /\ \A n \in AllNames : n # target => files[n] = before[n]
        /\ target \notin Locked
        /\ files[target] \in IF Logs THEN {Empty, Partial} ELSE {Empty}
        /\ before[argv.input].kind = "source" /\ before[argv.input].of \in Accepted

\* What the Makefile's targets outir and outasm call the compiler for: success in
\* mode IR or ASM means that the output holds something.
SuccessMeansOutput ==
    pc = "exit" /\ argv.mode \in {"-koopa", "-riscv"} /\ argv.output # argv.input
        /\ target \notin Locked =>
        files[target] # Empty
=============================================================================

----------------------------- MODULE Driver_proofs -----------------------------
(***************************************************************************)
(* Proofs about the driver, for any files, names and programs, and         *)
(* whatever the unterminated stem is read as.                              *)
(***************************************************************************)
EXTENDS Driver, TLAPS

Running == {"open", "parse", "output", "log", "return"}

\* The input held a program that parses when the run began.
InputParses == before[argv.input].kind = "source" /\ before[argv.input].of \in Accepted

\* The difference that KilledHarmsOutputOnly allows.
OnlyOutputLost ==
    /\ \A n \in AllNames : n # target => files[n] = before[n]
    /\ target \notin Locked
    /\ files[target] \in IF Logs THEN {Empty, Partial} ELSE {Empty}
    /\ InputParses

\* Until the output is opened the files are those of the beginning; from the
\* parse on the tree is the one of the program that was there at the beginning,
\* so that its dump is the right one even if it goes to the input's own name.  Only
\* the output differs from the beginning then, and it is empty or a part of a dump.
DriverInv ==
    /\ DriverTypeOK
    /\ pc \in {"output", "log", "return"} => InputParses
    /\ pc \in {"log", "return", "killed"} => files = before \/ OnlyOutputLost
    /\ pc \in {"shell", "open", "parse", "output", "abort"} => files = before
    /\ pc \in {"output", "log", "return"} => ast = before[argv.input].of
    /\ pc = "exit" /\ Logs /\ target \notin Locked =>
          files[target] = DumpOf(before[argv.input].of)

\* The name that OpenOutput chooses is a name of a file: the stem of the input is
\* the one of a name given to main.
LEMMA TargetIsName ==
    ASSUME DriverTypeOK, pc = "output",
           NEW name \in IF ParseMode(argv.mode) >= MODE_ALL
                        THEN {<<stem, "ast">> : stem \in Overread(output_v2)}
                        ELSE {argv.output}
    PROVE  name \in AllNames
<1>1. argv.input \in Names /\ argv.output \in Names /\ output_v2 = argv.input[1]
  BY DEF DriverTypeOK
<1>2. output_v2 \in Stems
  BY <1>1 DEF Stems
<1>3. {<<stem, "ast">> : stem \in Overread(output_v2)} \subseteq AllNames
  BY <1>2 DEF AllNames
<1> QED
  BY <1>1, <1>3 DEF AllNames

\* The first state satisfies the invariant.
LEMMA InitDriverInv == Init => DriverInv
<1> SUFFICES ASSUME Init PROVE DriverInv
  OBVIOUS
<1>1. DriverTypeOK
  BY DEF Init, DriverTypeOK, Ended
<1> QED
  BY <1>1 DEF Init, DriverInv

\* Every step keeps it.
LEMMA NextDriverInv == DriverInv /\ [Next]_vars => DriverInv'
<1> SUFFICES ASSUME DriverInv, [Next]_vars PROVE DriverInv'
  OBVIOUS
<1> USE DEF Ended
<1>1. CASE Start
  <2> PICK argc \in {4, 5}, mode \in Modes, input \in Names, output \in Names :
          /\ argv' = [argc |-> argc, mode |-> mode, input |-> input, output |-> output]
          /\ pc' = IF argc = 5 THEN "open" ELSE "abort"
          /\ output_v2' = IF argc = 5 THEN input[1] ELSE ""
    BY <1>1 DEF Start
  <2>a. argv'.mode \in Modes /\ argv'.input \in Names /\ argv'.output \in Names
    OBVIOUS
  <2>b. pc' = "open" => output_v2' = argv'.input[1]
    OBVIOUS
  <2>c. pc' \in {"open", "abort"} /\ DOMAIN files' = AllNames
    BY <1>1 DEF Start, DriverInv, DriverTypeOK
  <2>1. DriverTypeOK'
    BY <2>a, <2>b, <2>c DEF DriverTypeOK
  <2>2. pc' \in {"open", "abort"} /\ files' = before'
    BY <1>1 DEF Start, DriverInv
  <2> QED
    BY <2>1, <2>2 DEF DriverInv
<1>2. CASE OpenInput
  <2>1. DriverTypeOK'
    BY <1>2 DEF OpenInput, runVars, DriverInv, DriverTypeOK
  <2>2. pc' \in {"parse", "abort"} /\ files' = before'
    BY <1>2 DEF OpenInput, runVars, DriverInv
  <2> QED
    BY <2>1, <2>2 DEF DriverInv
<1>3. CASE Parse
  <2>1. DriverTypeOK'
    BY <1>3 DEF Parse, DriverInv, DriverTypeOK
  <2>2. pc' \in {"output", "abort"} /\ files' = before'
    BY <1>3 DEF Parse, DriverInv
  <2>3. pc' = "output" => ast' = before'[argv'.input].of
    BY <1>3 DEF Parse, DriverInv
  <2>4. pc' = "output" => InputParses'
    BY <1>3 DEF Parse, DriverInv, InputParses
  <2> QED
    BY <2>1, <2>2, <2>3, <2>4 DEF DriverInv
<1>4. CASE OpenOutput
  <2>1. target' \in AllNames
    BY <1>4, TargetIsName DEF OpenOutput, DriverInv
  <2>2. DOMAIN files' = AllNames
    BY <1>4 DEF OpenOutput, DriverInv, DriverTypeOK
  <2>3. DriverTypeOK'
    BY <1>4, <2>1, <2>2 DEF OpenOutput, DriverInv, DriverTypeOK
  <2>4. pc' = "log" /\ ast' = before'[argv'.input].of
    BY <1>4 DEF OpenOutput, DriverInv
  <2>5. InputParses' /\ DOMAIN files = AllNames /\ files = before /\ before' = before
    BY <1>4 DEF OpenOutput, DriverInv, DriverTypeOK, InputParses
  <2>6. files' = before' \/ OnlyOutputLost'
    <3>1. CASE target' \in Locked
      BY <1>4, <2>5, <3>1 DEF OpenOutput
    <3>2. CASE target' \notin Locked
      <4>1. files' = [files EXCEPT ![target'] = Empty]
        BY <1>4, <3>2 DEF OpenOutput
      <4> QED
        BY <2>1, <2>5, <3>2, <4>1 DEF OnlyOutputLost
    <3> QED
      BY <3>1, <3>2
  <2> QED
    BY <2>3, <2>4, <2>5, <2>6 DEF DriverInv
<1>5. CASE LogAst
  <2>1. DOMAIN files' = AllNames
    BY <1>5 DEF LogAst, DriverInv, DriverTypeOK
  <2>2. DriverTypeOK'
    BY <1>5, <2>1 DEF LogAst, runVars, DriverInv, DriverTypeOK
  <2>3. pc' = "return" /\ ast' = before'[argv'.input].of
    BY <1>5 DEF LogAst, runVars, DriverInv
  <2>4. InputParses' /\ InputParses /\ UNCHANGED runVars
    BY <1>5 DEF LogAst, runVars, DriverInv, InputParses
  <2>5. DOMAIN files = AllNames /\ target \in AllNames /\ (files = before \/ OnlyOutputLost)
    BY <1>5 DEF LogAst, DriverInv, DriverTypeOK
  <2>6. files' = before' \/ OnlyOutputLost'
    <3>1. CASE UNCHANGED files
      BY <2>4, <2>5, <3>1 DEF OnlyOutputLost, runVars, Logs
    <3>2. CASE /\ Logs
               /\ target \notin Locked
               /\ files' = [files EXCEPT ![target] = Partial]
      <4>1. \A n \in AllNames : n # target => files[n] = before[n]
        BY <2>5 DEF OnlyOutputLost
      <4>2. files'[target] = Partial /\ \A n \in AllNames : n # target => files'[n] = before[n]
        BY <2>5, <3>2, <4>1
      <4>3. Logs' /\ target' = target /\ before' = before
        BY <2>4, <3>2 DEF Logs, runVars
      <4> QED
        BY <2>4, <3>2, <4>2, <4>3 DEF OnlyOutputLost
    <3> QED
      BY <1>5, <3>1, <3>2 DEF LogAst
  <2> QED
    BY <2>2, <2>3, <2>4, <2>6 DEF DriverInv
<1>6. CASE Return
  <2>1. DOMAIN files = AllNames /\ target \in AllNames /\ ast = before[argv.input].of
    BY <1>6 DEF Return, DriverInv, DriverTypeOK
  <2>2. pc' = "exit" /\ UNCHANGED runVars
    BY <1>6 DEF Return
  <2>3. DOMAIN files' = AllNames
    BY <1>6, <2>1 DEF Return
  <2>4. DriverTypeOK'
    BY <2>2, <2>3 DEF DriverTypeOK
  <2>5. (Logs /\ target \notin Locked)' => files'[target'] = DumpOf(ast)
    BY <1>6, <2>1, <2>2 DEF Return, runVars, Logs
  <2>6. DumpOf(ast) = DumpOf(before'[argv'.input].of)
    BY <2>1, <2>2 DEF runVars
  <2> QED
    BY <2>2, <2>4, <2>5, <2>6 DEF DriverInv
<1>7. CASE Kill
  <2>1. UNCHANGED <<files, runVars>> /\ pc' = "killed"
    BY <1>7 DEF Kill
  <2>2. DriverTypeOK'
    BY <2>1 DEF runVars, DriverInv, DriverTypeOK
  <2>3. files = before \/ OnlyOutputLost
    BY <1>7 DEF Kill, DriverInv, DriverTypeOK
  <2>4. files' = before' \/ OnlyOutputLost'
    BY <2>1, <2>3 DEF runVars, OnlyOutputLost, InputParses, Logs
  <2> QED
    BY <2>1, <2>2, <2>4 DEF DriverInv
<1>8. CASE Gone
  BY <1>8 DEF Gone, DriverInv, DriverTypeOK
<1>9. CASE UNCHANGED vars
  BY <1>9 DEF vars, DriverInv, DriverTypeOK, Logs, InputParses, OnlyOutputLost
<1> QED
  BY <1>1, <1>2, <1>3, <1>4, <1>5, <1>6, <1>7, <1>8, <1>9 DEF Next

\* The invariant holds in every state of every sequence of runs.
THEOREM DriverInvariant == Spec => []DriverInv
BY InitDriverInv, NextDriverInv, PTL DEF Spec

\* main only ever works with names of files.
THEOREM DriverTypeCorrect == Spec => []DriverTypeOK
<1>1. DriverInv => DriverTypeOK
  BY DEF DriverInv
<1> QED
  BY <1>1, DriverInvariant, PTL

\* A run that ends at one of main's assertions has changed no file.
THEOREM DriverFailureKeepsFiles == Spec => []FailureKeepsFiles
<1>1. DriverInv => FailureKeepsFiles
  BY DEF DriverInv, FailureKeepsFiles
<1> QED
  BY <1>1, DriverInvariant, PTL

\* A run that is killed has lost nothing but its output, and no program that does
\* not parse costs a file.
THEOREM DriverKilledHarmsOutputOnly == Spec => []KilledHarmsOutputOnly
<1>1. DriverInv => KilledHarmsOutputOnly
  BY DEF DriverInv, KilledHarmsOutputOnly, OnlyOutputLost, InputParses
<1> QED
  BY <1>1, DriverInvariant, PTL

\* Exit status 0 in mode AST or ALL means that the whole dump of the input is in
\* the output, wherever an output could be opened.
THEOREM DriverSuccessMeansDump == Spec => []SuccessMeansDump
<1>1. DriverInv => SuccessMeansDump
  <2>1. argv.mode \in {"-ast", "-all"} => Logs
    BY DEF Logs, ParseMode, MODE_AST, MODE_ALL, MODE_IR, MODE_ASM, MODE_UNDEF
  <2> QED
    BY <2>1 DEF DriverInv, SuccessMeansDump
<1> QED
  BY <1>1, DriverInvariant, PTL
=============================================================================

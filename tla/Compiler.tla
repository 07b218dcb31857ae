------------------------------- MODULE Compiler -------------------------------
(***************************************************************************)
(* The passes behind the parser, as the classes ProgramIR, FuncIR          *)
(* (src/include/_ir.hpp) and ProgramAsmGenerator (src/include/_rv64i.hpp)  *)
(* offer them: each is built from the object of the pass before it, moves  *)
(* parts out of that object, and can be logged.  main has the calls in     *)
(* comments; here a client may make them in any order.  The constructor of *)
(* FuncIR runs the one of BasicBlockIR, step by step.                      *)
(***************************************************************************)
EXTENDS BasicBlockIR, NumberText

CONSTANTS
    MaxCalls        \* bound on the calls of the client

VARIABLES
    called,         \* the client's calls so far
    status,         \* "ready" for a call, "building" the IR, or how it stopped
    func_def,       \* what the CompUnitAST owns: the function, or nothing
    fn,             \* <<>>, or the FuncIR: its name, type and instruction
    gen,            \* <<>>, or the last ProgramAsmGenerator
    printed         \* what has been logged: pairs of the pass and the output

compilerVars == <<called, status, func_def, fn, gen, printed>>

\* The text of an object that was moved away: a null pointer.
Null == <<>>

\* The name of a function, and the empty string that a move leaves.
Ident == "main"
Moved == ""

-----------------------------------------------------------------------------
\* __conv_keyword_.
Keywords == {
    <<"return", "ret">>, <<"!=", "ne">>, <<"!", "eq">>, <<"==", "eq">>, <<">", "gt">>,
    <<"<", "lt">>, <<">=", "ge">>, <<"<=", "le">>, <<"+", "add">>, <<"-", "sub">>,
    <<"*", "mul">>, <<"/", "div">>, <<"%", "mod">>, <<"&&", "and">>, <<"||", "or">>,
    <<"^", "xor">>, <<"<<", "shl">>, <<">>", "shr">>, <<">>?", "sar">> }

ConvKeyword(keyword) ==
    IF \E k \in Keywords : k[1] = keyword
    THEN (CHOOSE k \in Keywords : k[1] = keyword)[2]
    ELSE "__nani?__"

\* The text of the instruction that __push_val_ makes of a constant, and its
\* kind, which is that of an integer though it is a return.
ValueIR(value) ==
    [val |-> <<"\t", ConvKeyword("return"), " ">> \o Int2Str(value),
     kind |-> "KOOPA_RVT_INTEGER"]

\* _type_conv, for the types the grammar has.
TypeConv(type) == IF type = "int" THEN "i32" ELSE "any"

\* Mutant of GetIns: a number begins with a digit.
GetInsUnsigned(ir) ==
    LET begins == {k \in DOMAIN ir.val : ir.val[k] \in Below(10)}
    IN  SubSeq(ir.val, Min(begins), Len(ir.val))

\* ValAsmGenerator::GetIns: li a0 with the rest of the text from where a number
\* begins.
GetIns(ir) ==
    LET begins == {k \in DOMAIN ir.val : ir.val[k] \in Below(10) \cup {"-"}}
    IN  SubSeq(ir.val, Min(begins), Len(ir.val))

-----------------------------------------------------------------------------
CompilerInit ==
    /\ Init
    /\ called = <<>>
    /\ status = "ready"
    /\ func_def = <<[type |-> "int", ident |-> Ident]>>
    /\ fn = <<>>
    /\ gen = <<>>
    /\ printed = {}

Call(name) ==
    /\ status = "ready"
    /\ Len(called) < MaxCalls
    /\ called' = Append(called, name)

\* A log that succeeds prints, one that meets a null pointer is the end.
Prints(pass, output) ==
    /\ printed' = printed \cup {<<pass, output>>}
    /\ UNCHANGED status

Fails(how) ==
    /\ status' = how
    /\ UNCHANGED printed

\* CompUnitAST::log.
LogAST ==
    /\ Call("log AST")
    /\ IF func_def # Null THEN Prints("AST", func_def[1]) ELSE Fails("null read")
    /\ UNCHANGED <<vars, func_def, fn, gen>>

\* ProgramIR(CompUnitAST&) takes the function from the tree; there is none in it
\* the second time, which the cast asserts.
BuildIR ==
    /\ Call("build IR")
    /\ status' = IF func_def # Null THEN "building" ELSE "abort"
    /\ func_def' = Null
    /\ UNCHANGED <<vars, fn, gen, printed>>

\* FuncIR(FuncDefAST&): the basic block first.
BlockStep ==
    /\ status = "building"
    /\ Next
    /\ UNCHANGED compilerVars

\* And then its own name and type.
FuncBuilt ==
    /\ status = "building"
    /\ pc \in {"done", "abort", "trap", "undefined"}
    /\ \/ /\ pc = "done"
          /\ fn' = <<[name |-> Ident, type |-> TypeConv("int"),
                      ir |-> <<ValueIR(instructions[1][2])>>]>>
          /\ status' = "ready"
       \/ /\ pc # "done"
          /\ status' = pc
          /\ UNCHANGED fn
    /\ UNCHANGED <<vars, called, func_def, gen, printed>>

\* ProgramIR::log.
LogIR ==
    /\ fn # <<>>
    /\ Call("log IR")
    /\ IF fn[1].ir # Null
       THEN Prints("IR", [name |-> fn[1].name, type |-> fn[1].type, text |-> fn[1].ir[1].val])
       ELSE Fails("null read")
    /\ UNCHANGED <<vars, func_def, fn, gen>>

\* ProgramAsmGenerator(ProgramIR&) moves the name and the instructions of the
\* function out of it.
BuildAsm ==
    /\ fn # <<>>
    /\ Call("build asm")
    /\ gen' = <<[name |-> fn[1].name, ir |-> fn[1].ir]>>
    /\ fn' = <<[fn[1] EXCEPT !.name = Moved, !.ir = Null]>>
    /\ UNCHANGED <<vars, status, func_def, printed>>

\* Mutant of LogAsm: the texts are moved into the stream.
LogAsmMoves ==
    /\ gen # <<>>
    /\ Call("log asm")
    /\ IF gen[1].ir # Null
       THEN Prints("asm", [name |-> gen[1].name, text |-> GetIns(gen[1].ir[1])])
       ELSE Fails("null read")
    /\ gen' = <<[gen[1] EXCEPT !.ir = Null]>>
    /\ UNCHANGED <<vars, func_def, fn>>

\* ProgramAsmGenerator::log.
LogAsm ==
    /\ gen # <<>>
    /\ Call("log asm")
    /\ IF gen[1].ir # Null
       THEN Prints("asm", [name |-> gen[1].name, text |-> GetIns(gen[1].ir[1])])
       ELSE Fails("null read")
    /\ UNCHANGED <<vars, func_def, fn, gen>>

CompilerNext == LogAST \/ BuildIR \/ BlockStep \/ FuncBuilt \/ LogIR \/ BuildAsm \/ LogAsm

Stopped ==
    /\ status # "building" /\ (status # "ready" \/ Len(called) = MaxCalls)
    /\ UNCHANGED <<vars, compilerVars>>

CompilerSpec == CompilerInit /\ [][CompilerNext \/ Stopped]_<<vars, compilerVars>>

-----------------------------------------------------------------------------
\* The order of main's comments, as far as it goes: each object is logged before
\* the next is built from it, and each is built once.
InOrder ==
    \A i, j \in DOMAIN called :
        i < j =>
            /\ called[i] = "build IR" => called[j] \notin {"build IR", "log AST"}
            /\ called[i] = "build asm" => called[j] \notin {"build asm", "log IR"}

\* A client that keeps to that order never meets an object that was moved away:
\* all that can stop it is the program itself, in the constructor of its block.
\* Any object may be logged again before the next is built, the last one always.
InOrderIsSafe ==
    InOrder =>
        /\ status # "null read"
        /\ status = "abort" => pc = "abort"

\* What has been printed goes together: the assembler loads the text that the IR
\* returns, under the same name, and no pass prints two different things.
OutputsMatch ==
    \A p, q \in printed :
        /\ p[1] = "asm" => p[2].name = Ident
        /\ p[1] = "IR" /\ q[1] = "asm" =>
              p[2].name = q[2].name /\ SubSeq(p[2].text, 4, Len(p[2].text)) = q[2].text
        /\ p[1] = q[1] => p = q
=============================================================================

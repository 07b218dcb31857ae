# compile0: a verification project

TLA+ models of `compile0`, a small compiler for a subset of SysY written in C++ with
Flex and Bison. The models are translated from `src/`; TLC checks them on small instances
and TLAPS proves the central facts about the scanner, the parser and its trees, the traversal of the
tree, the constant folder, the passes behind it and the driver for instances of every size.

## 1. The system

```
main.cpp -> lexer (sysy.l) -> parser (sysy.y) -> syntax tree (_ast.hpp)
                                                     |
     ProgramIR -> FuncIR -> BasicBlockIR(BlockAST&)  <-+     (_ir.hpp, _ir.cpp)
                              | traverseExpr   tree -> __mid_op_stk_   (infix tokens)
                              | midExpr2RPN    __mid_op_stk_ -> __rpn_op_stk_
                              | evalRPN        __rpn_op_stk_ -> __const_expr_
                              | __push_val_    one "ret" instruction
                              v
     ProgramAsmGenerator -> BlockAsmGenerator -> ValAsmGenerator   (_rv64i.hpp)
```

One run of the program is sequential: one call at a time. What is hard in it is the state that
is built up token by token, whether a stack holds what the next pop expects depends on
everything that was read before; the objects that one pass moves out of the pass before it; and the
files, which stay from run to run and are truncated in place.

| Component | State | Operations | What makes it correct |
| --- | --- | --- | --- |
| Lexer `src/src/sysy.l` | position in the text | one token per call, comments skipped, `strtol` of a literal | longest match; all of the code becomes tokens; the value of a literal |
| Parser `src/src/sysy.y` | LALR stack | shift, reduce, build a node | which programs are accepted; the shape of the tree |
| Syntax tree `_ast.hpp`, casts `_stllib.hpp` | nodes owned by `unique_ptr` | move, cast, `collect`, `log` | the dump says what the program says; a cast names the node's real class |
| Basic block IR `_ir.hpp`, `_ir.cpp` | three token queues, `__const_expr_`, `__instructions_` | constructor, `traverseExpr`, `midExpr2RPN`, `evalRPN`, `__push_val_` | the constant returned is the value of the expression; no pop of an empty stack |
| Operator table `__init_opt_priority_` | `__opt_priority_` | filled once per block | one entry per operator, the right one |
| `FuncIR`, `ProgramIR` | one block, one function | constructor, `log` | nothing is read after it was moved; the output of each pass is about the same value |
| Symbol table `_ref.hpp` | a map | `Put`, `Get`, `Exist` | lookup after insertion |
| RISC-V generator `_rv64i.hpp`, `riscv/_rv64i.cpp` | list of blocks | next register, constant of an instruction | the constant survives the text |
| Driver `main.cpp`, `_alib.hpp` | files | mode, open, parse, dump | what is written where in each mode; a failed run leaves the files alone |
| `koopa.h` | - | - | vendored declarations, only constants are used |

Components talk by calls and by moving the tree; the only shared state is the static table
`__opt_priority_`. `main` has the calls of the IR and of the generator commented out: at this
commit the back end is reached only through its classes.

The behaviours that are hard to test, each at its line, are the `hazards` of `PROJECT.json`.

## 2. Modules

| Module | Models | How it corresponds to the code |
| --- | --- | --- |
| `MidExpr` | vocabulary | `Height`, `Depth`, `WellFormed` (infix), `IsRPN`: what a queue of tokens means. No code. |
| `MidExpr2RPN` | `midExpr2RPN`, `__opt_less_` | One action per trip round a loop: `Operand`, `PopOperator`/`PushOperator` (the `while` and the push after it), `OpenParen`, `PopInParen`/`CloseParen`, `IllegalToken` (the `assert(0)`), `Flush`, `Return`. |
| `OptTable` | `__init_opt_priority_`, `__is_opt_`, the lexer's operators | The assignments in program order; `TablePrio` is what is in the table afterwards (last write), `FirstPrio` the first assignment to each text, which is the binary operator's. |
| `I32` | `__i32_opt_res_` | The operators on an int of `Bits` bits (`TwoTo` for the powers of two). A result is a pair of a kind and a value: `val`, `abort` (assertion), `trap` (signal). |
| `EvalRPN` | `midExpr2RPN` then `evalRPN` | Extends `MidExpr2RPN`; `EvalOperand`, `EvalOpt`, `Underflow` (`top()` of an empty stack, undefined), `EvalEnd`. |
| `ConstFold` | abstract specification of the folder | One step from the infix expression to one of its outcomes; grouping by priorities, equal ones from the left (`PartOutcomes`, a recursive function over the parts of the queue). A queue that lacks an operand has no value: the folder stops, or what it does is undefined. `FoldSafety` is what it may do, `FoldSpec` also that it does it. |
| `BasicBlockIR` | the constructor and `traverseExpr` | `TakeStatement` (casts), `PushToken`/`VisitNode` (one node of the tree; the recursion is the sequence `to_visit`), `StartFolding`, `FoldStep` (all of `EvalRPN`), `PushVal`. `BlockSafety` is what it may do, `Spec` also that it goes on. |
| `ExprMeaning` | the meaning of a tree | The value of the expression from the tree, without a queue (`Chain`, a recursive function over the nodes), and the properties that compare it with the instruction. |
| `Grammar` | the rules of `sysy.y` | A rule is its two sides and the node its action builds. `Rules` are those that Bison keeps, `Items`, `Goto` and `Complete` the automaton it makes of them; what can begin what (`LeftCorners`) is a transitive closure, without recursion. |
| `Parser` | `yyparse` reading from `yylex` | `Lex` (any token class, or the end), `Shift`, `Reduce` (one rule and its action), `Error` (`yyerror`), `Accept`; `Push` has the limit of the stack. `nodes` is the heap: tokens and nodes of the tree in the order they are made, each with the numbers of its sub-trees; a value on the stack is such a number, the pointer. |
| `ParserTrees` | properties of the trees | The texts of the trees on the stack and those of the program, recursive functions over the heap and over the stack. |
| `SyntaxTree` | `_ast.hpp`: `log`, the layout of the classes | Extends `ParserTrees`: for each class what its `log` prints, in order, a literal as the int that the scanner kept of it (`IntOf`); `Words` is an object's memory behind its class, in which `Constructor` follows the casts of `BasicBlockIR` to the wrong classes. |
| `Collect` | `BlockItemsAST::collect`, `static_uptr_cast` | Extends `SyntaxTree`: `Begin` (the item into the vector, the next list into `cur_raw`), `Cast`, `PushCur`, `Follow` (`cur->__next_`, behind the move of `cur`), `Leave`. A `unique_ptr` is the number of its object or `NullPtr`; `moved` are the fields of nodes that were moved from. |
| `NumberText` | `__is_int_`, `strtol`, `std::to_string`, the lexer's conversion | Numbers as sequences of characters; `IsNumber` is `__is_int_` behind the sign; an int of `Bits`, a long of `LongBits` bits. |
| `Lexer` | `yylex` | A pattern is a function from the places of the file to the sets of places where a match from there may end, `Star` a recursive one; the rules in their order, `Longest` is flex's choice. `Match` is one rule and its action, `EndOfFile` the end. |
| `Driver` | `main`, `parseMode`, `parseGetOutputByInput`, `__STR_CAT__` | `Start` (the arguments), `OpenInput`, `Parse`, `OpenOutput` (truncates), `LogAst`, `Return`, `Kill` between any two of them, `Gone` (the next run starts on the files as they are). |
| `Compiler` | `ProgramIR`, `FuncIR`, `ValueIR`, the RISC-V generator | A client's calls in any order: `BuildIR`, `BuildAsm`, `LogAST`, `LogIR`, `LogAsm`. `BuildIR` runs the constructor of `BasicBlockIR`, step by step (`BlockStep`), up to `FuncBuilt`. |
| `CompilerOutputs` | what the outputs say | `OutputsAgree`, which compares the outputs with the meaning of the expression. |
| `Registers`, `SymTable` | `GetTempRegister`, `Put`/`Exist`/`Get` | Operators with an `ASSUME` each: nothing in the program calls them, so there is no machine to put them in. |
| `MC*` | instances | the constants of the runs |
| `Induction` | lemmas | Induction over numbers and over finite sets, the largest element of a set, and functions defined by recursion from left to right, stated with sets, since the library's induction theorems take operators |
| `EvalRPN_proofs`, `Compiler_proofs` (of the block, too), `Lexer_proofs`, `Parser_proofs`, `SyntaxTree_proofs`, `Driver_proofs` | theorems | see section 5 |
| `NumberText_proofs` | lemmas | What the conversions between numbers and texts compute, for every width |

`EvalRPN` composes the two passes by extension: its variables are those of `MidExpr2RPN` and
three more, each action of one pass leaves the other's state alone. `BasicBlockIR` extends
`EvalRPN` in the same way, and `Compiler` extends it once more. `EvalRPN` instantiates
`ConstFold` twice, with the table that the code has and with the one its comments speak of.

The trees of `BasicBlockIR` are constants: `BlockContents` are the blocks, `Nodes` all nodes below their
expressions, `NamesVariable(n)` whether a variable is named below `n`. `NodesAssumption` says
that each node has the operands that its class and `__sub_expr_type_` in `_ast.hpp` ask for,
and that `NamesVariable` is what its operands make it. This says all that is needed of trees of any
size without recursion. `ExprMeaning` adds `Levels(n)`, how many levels of nodes are below `n`: the recursion of
`Chain` goes down by it. The MC module computes all of these from the trees with recursive operators.

`Parser` works on states that are sets of items, LR(0), which decide this grammar once its conflicts
are resolved as Bison does without precedences: shift before reduce, and of two reductions the
first rule. Two complete rules meet in one state only, where an item of a block may begin. Bison drops
the rules of `VarDecl` as unproductive: `VarDefs` has no rule that ends it. What Bison and Flex
generate is not in the repository; `map` marks it external.

A token of the folder is an uninterpreted value: the code looks at its class and, for operators, at its
table entry. Text/int conversions between two operators are left out, because `std::to_string`
and `strtol` are inverse on an int. Widths are parameters; what C++ leaves undefined is given
the results a debug build has (wrap-around, shift count modulo the width) or, where
processors differ (`INT_MIN / -1`), the choice of both.

Each specification module also holds a few operators called "mutant of ...": a plausible
mistake in the definition that follows. Replacing that definition by its mutant must make TLC
refute the property it is listed with in `PROJECT.json`, which shows that the property can
fail.

## 3. Runs

`tlc -config <cfg> <module>` in this directory.

| Run | Config | States | What it shows |
| --- | --- | --- | --- |
| `convert` | `MCMidExpr2RPN.cfg` | 30 307 | On every queue of up to 4 tokens, unbalanced and illegal ones too, and on every infix expression of up to 6: `ConvertTypeOK`, `NothingLost`, `OperandOrder`, `ConvertEnds`; of the infix ones the inductive `ConvertInv` and `ResultIsRPN`. |
| `fold_all` | `MCEvalRPN_all.cfg` | 96 090 | Expressions of up to 5 tokens, all 17 operators of the lexer, 4-bit ints, the operands 0, 3 and a variable: `EvalTypeOK`, `OneValueLeft`, `NoUnderflow`, `MissingOperandNeverFolds`, and that the folder implements `ConstFold` (`FoldsByTable`). |
| `fold_chains` | `MCEvalRPN_chains.cfg` | 159 056 | Up to 7 tokens, one operator for each of seven table entries, 5-bit ints: `FoldsByTable` for three operators in every order. |
| `fold_binary` | `MCEvalRPN_binary.cfg` | violation | The folder does not implement `ConstFold` with the binary operators' own entries (finding below). |
| `block` | `MCBasicBlockIR.cfg` | 89 126 | The constructor on blocks of one statement, 3-bit ints: `BlockTypeOK`, `QueueIsInfix`, `FoldMeansExpression`, `ConstantReturnIsDefined`. |
| `parse` | `MCCollect.cfg` | 31 852 | Every token sequence of up to 12 tokens, cut off at its first error; a stack of 12 states: `ParserTypeOK`, `AcceptedExactly`, `StackFits`, `TreesSpellProgram`, `ChainsAreFlat`, `ParserEnds`; of the syntax tree `DumpReadsBack`, `DumpIsHeader`, `NoStatementIsCompiled`; and behind every program that is accepted `collect`, one step for each move of a pointer: `ItemsHaveOneOwner`, `CollectNeedsEmptyBlock`. |
| `parse_hello` | `MCParser_hello.cfg` | violation | `test/hello.sysy` is refused at the `=` of its declaration (finding below). |
| `lexer` | `MCLexer.cfg` | 83 640 | Every short file over six alphabets: `LexerTypeOK`, `TokensCoverCode`, `EveryCharacterHasRule`, `ForeignByteEnds`, `KeywordsAreWhole`, `LiteralsSurvive`, `IsIntTakesNumbers`. |
| `lexer_boundary` | `MCLexer_boundary.cfg` | violation | `__is_int_` accepts numbers that are no int, though its comment lists "boundary" (finding below). |
| `driver` | `MCDriver.cfg` | 393 350 | Any number of runs over five files, killed anywhere: `DriverTypeOK`, `FailureKeepsFiles`, `SuccessMeansDump`, `KilledHarmsOutputOnly`. |
| `driver_koopa` | `MCDriver_koopa.cfg` | violation | Mode `-koopa` ends with success and an empty output (finding below). |
| `compiler` | `MCCompiler.cfg` | 6 272 | Every order of seven calls of the passes behind the parser: `InOrderIsSafe`, `OutputsAgree`. |

Bounds, and why they are enough:

* `midExpr2RPN` distinguishes operators by the order of their entries only; three operators, two of
  them of equal priority, give every outcome of a comparison. Four arbitrary tokens reach every
  branch, including an operator that meets a stack emptied by a stray `)`. The proofs remove the
  bound on length.
* Two operators decide how a pair groups (5 tokens), three operators (7 tokens) how groups nest.
* 3 to 5 bits contain a wrapped sum, a truncated quotient of either sign, a comparison of
  each kind, a division by zero and the quotient that does not fit.
* `block` has parser-shaped trees: chains at `MUL_EXPR` of one to three operands, unary operators
  up to two deep, parentheses inside and around them, variables in every place of a short
  chain, a negative literal (what the lexer's truncation makes of 4294967295). Trees with two
  operands at a higher level, which `traverseExpr` handles but the grammar's resolved
  conflicts never build, are there for the remaining cases. The block's contents are a block
  item, as the constructor's cast says; the list of items that the parser really puts there is
  one more input, with an undefined outcome.

* `parse`: the shortest program with a statement has 9 tokens, 5 of them the header; 12 tokens (`MaxTokens`) have
  every operand form, two operators, an operator before and after a parenthesis, two
  statements, which is one more than the loop of `collect` gets to, and an assignment or a constant definition up to the token that is refused. The
  stack of 12 states (`MaxDepth`; Bison's is 10 000) is full for the programs that open a
  parenthesis after every token. Two of the characters that the lexer passes on, `=` and `,`, stand for all
  that no rule writes in single quotes. The literals of a program are hexadecimal, octal and decimal in turn (`LiteralAt`),
  with ints of 6 bits, so that one prints as its text, two as another number and one as a negative number.
* `lexer`: the rules compete in groups, and each alphabet has the characters of one group: comments and
  the operators they begin with (6 characters, 8 for a comment that is open), byte 0 and the bytes
  outside ASCII (5), literals in their bases (4), keywords against names (5), operators that are prefixes of others (4).
  `return` and `const` have up to two characters before and behind them. An int of 6 bits and a
  long of 8 let a literal of two digits overflow the one, of three the other.
* `driver`: two programs that parse and one that does not, two inputs with one stem, an output that cannot be
  opened; the dump of mode ALL may have the name of another program's dump. A stem without its
  terminator is read as itself or as another name (`Overread`). The number of runs is not bounded.
* `compiler`: seven calls (`MaxCalls`) are the five in order and two more, anywhere. Values of both
  signs, the smallest int of 3 bits among them, a division by zero, a variable, and the contents of
  a block that are no statement.

Deadlock is checked in every run: a finished call is a step that changes nothing
(`Converted`, `Terminated`, `Constructed`, `Returned`).

**Fairness.** The code runs to its end unless it is stopped: weak fairness of the whole next-state
relation, nothing about single actions. `ConvertEnds`, `FoldsByTable` (that there is an outcome at
all), `ConstantReturnIsDefined` and `ParserEnds` need it; the input file of the parser ends
(`MaxTokens`), and nothing is assumed of `collect`, which no code calls. Finished calls stutter under no fairness. `lexer`,
`driver` and `compiler` check safety only: what a client calls and whether main is run again is
nothing the code promises.

**Findings.** `__opt_priority_` is keyed by text, and the entries commented `// unary` (line 308,
`-`) and `// deAddress/getValue` (line 302, `*`) are assigned after the binary ones (291, 295).
`__mid_op_stk_` has no unary operators at all, `traverseExpr` writes `- x` as `( 0 - x )`; so
binary `-` binds tighter than `/` and `+`, and `*` tighter than `/` and `%`. `8 / 2 - 1` folds to 8.

The grammar writes `";"`, `"="` and `","` in double quotes, for Bison tokens that are not the
characters `yylex` returns; only the `;` after `return` is in single quotes (line 236). So no declaration
and no assignment is accepted, although the sample program of the `Makefile` begins with one.

`main` opens the output with `ofstream` in every mode (`main.cpp:50`), which truncates it, and writes
to it in the modes AST and ALL only. The targets `outir` and `outasm` of the `Makefile` (lines 101, 103)
call the compiler with `-koopa` and `-riscv`: it ends with success, the output is empty.

`__is_int_` tests the characters of a number and not its size, although the comment above it lists
`// 3. boundary, bits` (`_ir.cpp:190`). It has no effect as long as every operand is the text of an int,
which `LiteralsSurvive` says.

No finding, since no line of the repository says otherwise, but good to know: the block of an accepted
program is a list, which the constructor of `BasicBlockIR` reads as an item, so that no accepted program
gets past its casts (`NoStatementIsCompiled`; `main` does not call it at this commit); the dump
of a program shows no statement (`DumpIsHeader`), since nobody calls `collect`, which reads
through a null pointer on a block with a statement (`CollectNeedsEmptyBlock`).

## 4. What the properties say

* `ConvertTypeOK`, `EvalTypeOK`, `BlockTypeOK`: the type invariants. They say which tokens can
  reach which stack: a `)` never does, the marker `#` reaches the result only by a stray `)`.
* `NothingLost`, `OperandOrder`: for any queue, at any moment, the operands and operators read are
  those on the stack and in the result; operands keep their order.
* `ConvertInv`: on an infix expression the stack holds the open parentheses, every operator on it
  lacks exactly one operand, and the part of the result that is there already can be executed.
* `ResultIsRPN`, `OneValueLeft`, `NoUnderflow`: the contract between the passes.
* `MissingOperandNeverFolds`: the queue of an expression with variables has operands missing; it is
  never folded to a number by accident.
* `FoldsByTable`: refinement, the two passes are one atomic fold.
* `QueueIsInfix`, `FoldMeansExpression`, `ConstantReturnIsDefined`: the same for the tree: the
  parentheses around unary operators keep their operand, and match even where a variable was left
  out; the instruction returns what the tree means; a return of a constant gets its instruction or
  stops at a division.
* `ReturnsConstantsOnly`: the part of it that is safety, proved only: a return of a constant
  expression never pops an empty stack, and with a variable in it there is no instruction.
* `AcceptedExactly`: the conflicts, resolved silently by Bison, lose no program and let no other in: the
  parser accepts what a reader who counts parentheses accepts.
* `StackFits`: the stack is never deeper than the program is long; no empty rule is reduced for ever.
* `TreesSpellProgram`: each text is on the stack once and in order, whatever was reduced.
* `ChainsAreFlat`: only `MUL_EXPR` has two operands, the fact on which the inputs of `block` rest.
* `ParserEnds`, `HelloParses`: `yyparse` returns; the sample program is not refused.
* `DumpReadsBack`: the dump of an expression, at any moment of the parse, is the expression, token by token;
  a class whose `log` left out or swapped a part would change it. It is not its text: a literal is dumped as the
  decimal number of the int that was kept of it, `0x10` as 16 and 4294967295 as -1. `DumpIsHeader`,
  `NoStatementIsCompiled`: see the findings.
* `CollectNeedsEmptyBlock`: how the loop ends and what is in the vector then. `ItemsHaveOneOwner`: between its
  steps no item is owned twice, which would free it twice, or by nobody.
* `TokensCoverCode`: the tokens are the code, no more and no less: the patterns of comments end where a
  comment ends. `ForeignByteEnds`: byte 0 and a byte outside ASCII are the end of the file for the parser.
  `EveryCharacterHasRule`: flex never echoes. `KeywordsAreWhole`: longest match, first rule.
* `LiteralsSurvive`: the int of a literal, cut to its width, comes back from its text with its sign, which
  is what lets the folder treat tokens as values. `IsIntTakesNumbers`: `__is_int_` accepts the forms
  that items 1 and 2 of its comment list. `IsIntInBounds`: item 3, see the findings.
* `DriverTypeOK`, `FailureKeepsFiles`, `SuccessMeansDump`, `KilledHarmsOutputOnly`, `SuccessMeansOutput`: no file is created beyond
  those that are named; a run that fails changed nothing; one that succeeds in a mode that dumps left the whole
  dump of its input, even over the input itself; one that is killed has lost its output at most, and only for a
  program that parses.
* `InOrderIsSafe`, `OutputsAgree`: in the order of `main`'s comments no pass reads what another moved
  away; tree, IR and assembler are about one value and one name.
* Two assumptions are facts about code without a caller, which TLC evaluates in `compiler`:
  `RegistersAreCycled` (all fifteen registers are given before one is given twice) and `AnswersTellNothing`
  (what `SymTable` answers is the same for every value that was put, and `Exist` is inverted).

## 5. Proofs

`tlapm <module>` checks them. They hold for every set of operators, operands, priorities, trees, programs,
stack sizes and files with these assumptions, which TLC evaluates in the runs:

* `TokenAssumption`: the classes of tokens are disjoint, the marker is no token, priorities are integers;
* `OutcomesAssumption`: an operator gives values of the type, or stops;
* `NodesAssumption`: `0` is an operand, `&&` and `||` are operators, and the nodes have the operands that
  their classes in `_ast.hpp` ask for;
* `TreesAssumption`: trees are finite (a node has more levels below it than its operands), what a unary operator
  or a literal's node has below it is an operand, the text `0` denotes 0, and the folder's `!` computes `0 == v`
  (`__i32_opt_res_`). Only `BlockFoldMeansExpression` needs it;
* `BitsAssumption`, `LongBitsAssumption`, `IntsAssumption`: an int has a width, a long is at least as wide, and the
  ints that the folder computes with are among those of that width (`CompilerOutputsAgree` needs them, the
  scanner the first two);
* `InputsAssumption`: a file is a sequence of characters, of whatever set of characters;
* `ClassesAssumption`, `BoundsAssumption`: the end of the file is no token class, no rule of the lexer returns one
  of the tokens that the grammar has in double quotes (`sysy.l:58` returns a character), and the bounds of the
  parser are numbers. The grammar is no parameter: the proofs read its rules;
* `LiteralsAssumption`: the text of each literal is one that the lexer's rules take for a literal;
* `NamesAssumption`: sources and locked files are among the names, and the stem of a name may be
  read as itself.

| Theorem | States |
| --- | --- |
| `ConvertTypeCorrect` | `ConvertSpec => []ConvertTypeOK` |
| `ConvertInvariant` | `ConvertSpec => []ConvertInv` |
| `ConvertResult` | `ConvertSpec => []ResultIsRPN` |
| `ConvertLosesNothing` | `ConvertSpec => []NothingLost` |
| `ConvertKeepsOrder` | `ConvertSpec => []OperandOrder` |
| `EvalTypeCorrect` | `EvalSpec => []EvalTypeOK` |
| `EvalInvariant` | `EvalSpec => []EvalInv` |
| `EvalNeverUnderflows` | `EvalSpec => []NoUnderflow` |
| `EvalLeavesOneValue` | `EvalSpec => []OneValueLeft` |
| `BalancedInvariant` | `EvalSpec => []BalancedInv` |
| `EvalMissingNeverFolds` | `EvalSpec => []MissingOperandNeverFolds` |
| `FoldInvariant` | `EvalSpec => []FoldInv` |
| `EvalImplementsFold` | `EvalSpec => Table!FoldSafety` |
| `EvalFoldsByTable` | `EvalSpec /\ <>Over => FoldsByTable` |
| `BlockTypeCorrect` | `Spec => []BlockTypeOK` |
| `BlockInvariant` | `Spec => []BlockInv` |
| `BlockQueueIsInfix` | `Spec => []QueueIsInfix` |
| `BlockReturnsConstantsOnly` | `Spec => []ReturnsConstantsOnly` |
| `BlockFoldMeansExpression` | `Spec => []FoldMeansExpression` |
| `ParserInvariant` | `Spec => []ParserInv` |
| `ParserTypeCorrect` | `Spec => []ParserTypeOK` |
| `ParserStackFits` | `Spec => []StackFits` |
| `ParserTraced` | `Spec => []Traced` |
| `ParserPlants` | `Spec => []Planted` |
| `ParserChainsFlat` | `Spec => []ChainsAreFlat` |
| `ParserCompilesNothing` | `Spec => []NoStatementIsCompiled` |
| `ParserLocates` | `Spec => []Located` |
| `ParserAcceptsExactly` | `Spec => []AcceptedExactly` |
| `ParserKeepsReturns` | `Spec => []ReturnsKept` |
| `ParserSpells` | `Spec => []TreesSpellProgram` |
| `ParserDumps` | `Spec => []DumpReadsBack` |
| `ParserDumpsHeader` | `Spec => []DumpIsHeader` |
| `CollectNeedsEmpty` | `CollectSpec => []CollectNeedsEmptyBlock` |
| `LexerInvariant` | `Spec => []LexInv` |
| `LexerTypeCorrect` | `Spec => []LexerTypeOK` |
| `LexerCoversCode` | `Spec => []TokensCoverCode` |
| `LexerForeignEnds` | `Spec => []ForeignByteEnds` |
| `LexerHasRule` | `Spec => []EveryCharacterHasRule` |
| `LexerKeywordsWhole` | `Spec => []KeywordsAreWhole` |
| `LexerLiteralsSurvive` | `Spec => []LiteralsSurvive` |
| `LexerIsIntTakesNumbers` | `Spec => []IsIntTakesNumbers` |
| `CompilerInvariant` | `CompilerSpec => []CompilerInv` |
| `CompilerInOrderIsSafe` | `CompilerSpec => []InOrderIsSafe` |
| `CompilerImplementsBlock` | `CompilerSpec => BlockSafety` |
| `OutputsInvariant` | `CompilerSpec => []OutputsInv` |
| `CompilerOutputsAgree` | `CompilerSpec => []OutputsAgree` |
| `DriverInvariant` | `Spec => []DriverInv` |
| `DriverTypeCorrect` | `Spec => []DriverTypeOK` |
| `DriverFailureKeepsFiles` | `Spec => []FailureKeepsFiles` |
| `DriverSuccessMeansDump` | `Spec => []SuccessMeansDump` |
| `DriverKilledHarmsOutputOnly` | `Spec => []KilledHarmsOutputOnly` |

**The folder on an infix expression.** `EvalRPN_proofs` begins with the arithmetic of `Count` and `Height`
(cardinalities of positions) and what appending a token does to them. `ResultIsRPN` alone is not
inductive: it says nothing before the return. `ConvertInv` strengthens it: `OperandBalance`
relates the height of the result to the operators on the stack and to the class of the last
token read, so that popping an operator is possible (the result has two values or more) and
the flush ends at height one; `MarkerAtBottom` and `OpenParensOnStack` say that the loop of
`)` stops at its `(` and that the last loop leaves the marker. `EvalInv` adds `OneValueLeft`:
the height of `__opof` is the height of the prefix of the result that was read, which
`RPNSoFar` bounds from below at every operator. `ConvertKeepsOrder` needs `SameOrder`: the operands of
the result are those of the tokens read, for any queue.

**The folder with an operand missing.** `MissingOperandNeverFolds` is about queues on which
`OperandBalance` is false. `BalancedInv` replaces it by sums: `WeightKept` (an operand weighs 1, an
operator -1: the weight of the tokens read is that of the result less the operators that wait on the
stack), `StackKept` (with matching parentheses none of them, and no marker, gets into the
result) and `StackHasWeight` (the height of `__opof` is the weight of the tokens read). If
evalRPN comes to its end with a value, that weight is at least 1, and it is the one of the
queue. Without matching parentheses it is false: a `(` in the result counts as the operand 0.

**The refinement.** That the two loops compute an outcome of the expression as the table groups it says nothing
of the moments in between, where the expression is in pieces. `FoldInv` describes them. Between two neighbours
on the operator stack lies a part of the queue that was read: nothing, or the left operand of the
upper one (`Gap`, `LastGap`); the positions of the stack's elements in the queue are not in the code's
state, an existential quantifier supplies them (`Grouping`). The result is in postfix order, and evaluating
a postfix sequence gives one set of outcomes for each value it leaves (`Denotes`); these are the outcomes of the
operands in the gaps. `OperatorJoinsParts` is the heart: a popped operator joins the parts around it, and it
is the one `ConstFold` takes as the root of the joined part, because whatever is left of it was not popped before
(`Prio` larger or equal) and whatever is right of it was. In evalRPN the values on `__opof` are members of the
outcomes denoted by the prefix that was read (`StackMatches`), and once an operand has stopped the program, that
end is an outcome of every part around it (`StoppedAt`). That the recursive function of `ConstFold` exists at all, for a
queue of every length, is an induction over the length of the parts. `FoldInv` quantifies over functions, which TLC cannot
enumerate; what TLC checks is its consequence, `FoldsByTable`. The proof found a flaw in an earlier form of
`ConstFold`: on `(0^0)/x` an operator can stop the folder before it meets the missing operand, so that
"undefined" alone is too little for `LacksOperand`; `NoValue` is what holds.

**The traversal.** `QueueIsInfix` says nothing before the traversal is over. `BlockInv` looks at the
tokens pushed and, behind them, at one token for each node still to visit (`Pending`): its own for a
leaf, an operand for an expression, the marker, which is neither operand nor operator, for an expression
that names a variable. That queue is an infix expression from the first node to the last, or one that is
balanced and of height 0 or less. A leaf that is pushed does not change it; a node that is visited has
its one token replaced by the tokens of what it visits. The beginning of `Compiler_proofs` shows that such a splice keeps
parentheses, heights and well-formedness, and `ShapesGood` that each of the few shapes in which
`traverseExpr` visits operands is itself such a queue. From there on the invariants of the folder take over, lemma by lemma:
the folder's theorems are about the states in which it begins (`EvalBegins`), not about its inputs.

**The meaning of a tree.** `FoldMeansExpression` compares two readings of one expression: `ConstFold` reads a queue
and looks for the root of a part among the tokens outside its parentheses; `ExprMeaning` reads a tree and
groups the operands of a chain, and knows no parentheses. `Spelling` gives a tree its tokens, by recursion over
the nodes; `MeaningInv` says that the tokens pushed, followed by those of the nodes still to visit (`HasText`), spell the
tree of the statement, so that the queue the folder gets is its spelling. A queue `Reads` a chain between two
positions, its fences, if the operands of the chain lie one behind the other with the chain's operators between
them, and each operand denotes, as a part of its own, what the chain says. Between the fences only the chain's operators are
outside parentheses, so the root that `ConstFold` takes is the operator `LastApplied` takes, and the parts on its two sides
are read by the two shorter chains (`SpansJoin`); an induction over the length of the chain gives `Grouped`. That the
spelling of a tree reads its chain is an induction on `Levels`, with a case for each shape of a node: in
a parenthesis the chain becomes one operand; a unary operator is pushed as `( 0 op x )`, where the 0 is an operand of its own, and
binds `x` because the parenthesis holds nothing else. With `FoldInv` of the refinement, carried through the steps of
`BasicBlockIR`, the value on `__opof` at the return is an outcome of the spelling. `MeaningInv` speaks of
`Spelling`, which TLC need not compute: what it checks is `FoldMeansExpression` itself.

**The parser.** `StackFits` is false step by step without knowing which reductions are possible. `ParserInv` says
that the stack of states is a path of the automaton (each state is the `Goto` of the one below), so that an
item with its dot behind `k` symbols has its rule begun `k` entries below, where the left-hand side is expected: no pop and no
goto fails, which is all of `ParserTypeOK`. For the depth: every value on the stack stands for a token of its own, but for the empty
list, and the rules (`Orderly`) let only tokens follow a list, so that there is at most one.

**The automaton.** What the parser accepts depends on how the conflicts of this grammar are resolved, so the rest
is about its rules, 49 with the one that Bison adds, and the table Bison makes of them. `Parser_proofs` works the
table out from the definitions: which nonterminals derive a program (`ProductiveNames`) and which rules are left
(`UsefulRules`); which rules a nonterminal may begin with, through the closure of `LeftCorners` (`BegunExp` and its
like); the kernels of the states that the parser comes to, 44 of them (`Alive`); and for each what it expects,
what is complete in it and where a symbol leads (`StateFacts`). A state is named by its first item: 261 is the one behind
`RETURN` in rule 26. `Traced` says that the stack is a path of the moves of this table. It is inductive because
the goto of a reduction is decided by the state below the right-hand side, and `Handle` walks down from the state on top to
there: a state can be entered from few others (`Over`). `Facing` is the part that is easily overlooked: on top of
`391` and the levels above it the lookahead is one that `371` did not shift, so it cannot be `OPT`, and no
binary rule of a higher level is ever begun; that is `ChainsAreFlat`.

**What is accepted.** `AcceptedExactly` compares the parser with a reader who knows the header, `return`, operands,
operators and a number of parentheses. `Located` says where the reader is, by the state on top and the states `281` below
it, one for each open parenthesis (`Opened`); outside of expressions there is none (`Unnested`). A shift takes both the
same way (`ReaderShift`), a reduction leaves the reader and leads to a state of the same place (`ReaderReduce`),
and where the table has neither the reader has rejected the token (`ReaderStuck`). In the states after `CONST` and after
a name that is assigned to the reader has rejected before the parser has (`Rejecting`); they lead nowhere else.

**The trees.** `Planted` gives each value on the stack the class of its state and each node the shape of its rule; so the tree
of an accepted program is known down to its statements (`AcceptedTree`), and what the constructor's
casts read of it. `ReturnsKept` says that a return statement which was read stands on the stack as its token,
as a statement or as a list with an element, and never gets lost in a reduction. `TreesSpellProgram` is about a recursive function of
the heap. That there is such a function is an induction over the heap, in which the kids of a node are older than the node
(`TextsExist`); it is the only one (`TextsAgree`), so it unfolds (`TextsIs`), and what is appended to the heap does not change
it (`TextsStay`). Then the step: each rule that is reduced passes on what its right-hand side spells, because what is between
its kids are tokens without a text (`TokensByState`, `ReducedTexts`), and joining is associative (`JoinOfSpelled`).

**The dumps.** What `log` prints is a recursive function of the heap too. It exists and unfolds because every node is
one that `log` has a case for, with a kid for each that the case prints: that is so by the rule that made the node
(`RulePrints`, `ParserPrintable`). A rule of expressions prints what its right-hand side prints (`ReducedDumps`), so the
dumps on the stack behind the last return always join to what was read behind it (`ExprGoesOn`), each literal as the number `log` makes
of it. Every other
rule leaves no return on the stack (`StatementStep`), and then `DumpReadsBack` asks for nothing. For `DumpIsHeader`
the invariant is that the name on the stack, and that in the node of the function, is the second token of the program
(`NamedBySecond`); it needs the states in which no token, or one, has been shifted. With `AcceptedTree` it leaves one
dump (`DumpOfHeader`).

**collect.** `CollectSpec` is the parser, and behind its end the steps of `collect` on the list of the tree; they change
nothing of the parser (`CollectParses`), so that all its invariants hold. `CollectInv` says for each place of the loop
which pointer has the first of the list's two fields and which the second. It shows that the loop is entered
once at most: behind the push `cur` is null, and the next step reads through it. That the list of an accepted
program has two fields if there is a return, and otherwise none, comes from `ReturnsKept` and
`AcceptedTree` (`AcceptedList`).

**The scanner.** The runs have files of a few characters; the theorems are about every file. First each pattern is
reduced to the stretches it takes (`Run`): `StarSolves` shows that the recursive
function of `Star` exists, `StarOne` that over a class of characters it is every run of them, and `LinesCommentFacts`, the
hardest, that `"/*"([^*]|"*"+[^*/])*"*"+"/"` takes from a `/*` exactly the text up to the first `*/`: no part of the body
runs over a `*/` (`BodyHasNoClose`), and the body reaches the row of stars before the first one (`BodyReachesClose`).
`NextMatch` then says what the longest match by the first rule can be: white space, a whole comment, or a token that begins where no
comment does. `TokensCoverCode` alone is not inductive: it speaks of the places before `pos` and says nothing of
what comes. `LexInv` adds `CodeAhead`, that the code of the file from `pos` on is that of a file which begins there, so that
`pos` is never inside a comment; a token keeps it because none of its characters but the first can begin one
(`Plain`), though `/` itself is an operator and may stand before a `*` of an unclosed comment. Its other part, that every token was the choice of the rules
at its place (`IsTaken`), gives `KeywordsAreWhole`: a longer name would have been a longer match. `LiteralsSurvive` joins the digits
that a rule lets through with what `strtol` makes of them in base 0 (`ReadsDigits`), and `std::to_string`, which
writes no leading 0 that `__is_int_` would take for another base (`NoLeadingZero`), with `Int2Str2Int`.

**The passes.** `CompilerInv`: whatever is missing in an object was taken by a call the client made, and what
stops a run was missing; in order, each call comes before the one that takes what it reads. `OutputsAgree` reads
texts: the instruction holds the constant as `std::to_string` printed it, and the generator reads that with `strtol`.
That this is the identity on every int of `Bits` bits is `Int2Str2Int`, by way of the two recursions of `NumberText`,
the digits of a number and the value of digits; the powers of two are the function `TwoTo`, because the
prover knows nothing of `^`. `CompilerImplementsBlock` says that the constructor, started by a client's call
in whatever order, takes the steps of `BasicBlockIR` and no others, so that `BlockFoldMeansExpression` is true of it. `OutputsInv`
says that once there is a function its block is finished, and that the IR dumped, the values in the
assembler's list and the assembler dumped are made of that block's one instruction, of whichever calls there were
between.

**The driver.** `DriverInv`: until the output is opened the files are those of the beginning, and from the
parse on the tree is the one of the program that was there; so the dump is right even when the output is
the input. From there on `OnlyOutputLost` says that one file differs at most, the output, and that the input parsed.

Only model-checked: `ItemsHaveOneOwner`, which rests on no node being owned by two others; the liveness properties, since fairness and `ENABLED` are beyond the prover (of
`FoldsByTable` that is the hypothesis `<>Over`, that the folder ends). The library's induction theorems take an operator as a
parameter, which no backend can instantiate; `Induction` states what is needed of them with sets in place of operators.

## 6. Not modelled

* `koopa.h`: vendored declarations.
* `dynamic_uptr_cast` (no caller), the printing of containers, the macros that generate declarations and
  debugging output.
* Line numbers, and the layout of the dumps: braces, line breaks, the names of the classes.
* `SymTable` and `GetTempRegister` are modelled as operators only: they have no caller. The
  "assignment" case of `__push_val_` has none either.
* `strcat` in `_strcat_dup` writes behind the end of the heap object of `strdup`; what that
  overwrites is not modelled, the name it makes is.
* A write that fails, on a full disk say: `main` never looks at the state of its stream.
* What C++ leaves undefined and a debug build computes (signed overflow, shift counts) has the
  result of that build.

## 7. Plan

Done: every component that the repository's own code has, as far as section 6 says. What is left, in
this order:

1. Composition of `Parser` with `BasicBlockIR`: from tokens to the instruction, for a constructor that is
   given the item in place of the list. The facts it would rest on are there one by one (`ChainsAreFlat`,
   `NoStatementIsCompiled`, `NodesAssumption`).
2. Composition of `Lexer` with `Parser`: a file with a foreign byte is accepted if what is before it is.

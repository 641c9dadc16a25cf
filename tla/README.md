# A formal model of the Aurora compiler

Aurora is a small compiled language; `aurorac` turns a source file into an
object file, and `run.sh` compiles, links and runs one. This directory holds
TLA+ modules that model the whole of the compiler's own logic - lexer, parser,
semantic analysis, IR generation, the driver and the script -, the TLC
configurations that check them on small instances, and TLAPS proofs about every
part for every instance. Paths below are relative to the repository root
(`src/lexer.cpp` is `src/src/lexer.cpp` in `PROJECT.json`).

## 1. The system

| Component | Source | State it keeps | Operations |
|---|---|---|---|
| Lexer | `src/lexer.cpp`, `src/token.h` | position in the text, line, column | `lex`, `skipWS`, `identOrKw`, `number`, `get`, `peek` |
| Parser | `src/parser.cpp` | position in the token vector, the call stack | `parseProgram`, `parseFunc`, `parseBlock`, `parseStmt`, `parseType`, one function per precedence level |
| AST, types | `src/ast.h`, `src/types.*` | none | constructors, `equals`, `clone`, `str` |
| Scope | `src/scope.h` | a vector of maps name -> `VarInfo` | `push`, `pop`, `declare`, `lookup` |
| Sema | `src/sema.cpp` | `scope`, `fns`, `loopDepth`, a vector of deferred expressions per block (on the call stack) | `analyze`, `checkStmt`, `infer` |
| CodeGen | `src/codegen.cpp` | `namedValues`, `namedTypes`, `functions`, the module's symbols, the builder's insertion block, `loopExitStack`, `loopContinueStack`, blocks held on the call stack | `emit`, `genStmt`, `genExpr`, `writeIR`, `writeObject` |
| Driver | `src/main.cpp`, `src/util.h` | files | parse arguments, read, run the passes, write |
| Run script | `run.sh` | files in `build/` | compile, link, run |
| Runtime | `stdlib/aurora_runtime.c` | none | `print_i64`, `read_i64` |

Inside one process the passes run one after the other in one thread: `main`
calls the lexer, the parser, `Sema::analyze` and `CodeGen::emit`, then writes
the outputs. The channel between lexer and parser is the vector of tokens, that
between the other passes the AST, which no pass changes. An error is `fatal()`:
it prints and exits, so nothing is ever undone or retried. Processes meet only
in the file system. What is hard:

* *Long sequences of legal calls.* Scopes, defers, loop counters, loop stacks
  and the calls of `parseBlock` are pushed and popped along a recursion, partly
  by hand; some of them outlive the function being compiled.
* *Two views of one thing.* Sema resolves names in a stack of scopes, CodeGen
  in one flat map. Sema computes types, CodeGen guesses them again. Sema counts
  loops, CodeGen keeps two stacks. The module's symbol table and `functions`
  both say what a name is. Each pair can disagree.
* *Implicit control flow.* After `return`, `break` and `continue` generation
  goes on, into a block that is closed or that nobody enters.
* *Ends and edges.* Comments, blocks and texts end by one token or character
  of lookahead; literals can be too large; loops must get on whatever follows.
* *What others leave behind.* Files are written in place. A compiler or a
  script that was killed, or that runs beside another one, leaves torn or stale
  files for the next.
* *Documented features that exist in one pass only* (`defer`, `unique`).

What makes each component correct: the lexer cuts a text into the longest
lexemes; the parser returns exactly the one program that the grammar gives the
tokens; Scope and Sema resolve names lexically and accept exactly the programs
that the typing rules admit; CodeGen's control-flow graph is that of the
source, its references go to the lexically right variable, and what Sema
accepts it can compile; an exit status of 0 means whole files of the source
that was read, and the script runs no other program.

## 2. Modules

| Module | Models | Role |
|---|---|---|
| `Lexer` | `lexer.cpp` | the lexer, one action per kind of token or gap; maximal munch as its reference |
| `Grammar` | - | abstract specification: the programs a sequence of tokens can stand for |
| `Parser` | `parser.cpp` | the parser, one action per header, statement and end of block |
| `Syntax` | `ast.h`, `types.h` | types, expressions, statements; the nesting of a body; `Lexical`, the reference for scoping |
| `Typing` | `Sema::infer`, `primaries` | the type of an expression; `WellFormed`, the typing rules in one formula |
| `Judge` | - | abstract specification: one verdict per program, "accepted" iff `WellFormed` |
| `Sema` | `sema.cpp`, `scope.h` | the analyser, one action per kind of statement |
| `Lowering` | `genExpr`, `tyLLVM`, the constructor | the LLVM value and the instructions an expression becomes |
| `CodeGen` | `emit`, `genStmt` | the generator, one action per kind of statement; LLVM's verifier |
| `Aurorac` | `main.cpp:31-33` | Sema and CodeGen composed |
| `Driver` | `main.cpp`, `util.h`, `writeIR`, `writeObject`, `run.sh` | compilers and scripts side by side on one file system |
| `ProgramSets` | - | sets of function bodies for the MC modules |
| `MCLexer`, `MCParser`, `MCSema`, `MCCodeGen`, `MCAurorac`, `MCDriver` | - | instances for TLC |
| `Recursion` | - | what a recursive function is: instantiated for each recursion of the model that a proof looks into |
| `LexerProofs`, `SyntaxProofs`, `ParserProofs`, `SemaProofs`, `CodeGenProofs`, `AuroracProofs`, `DriverProofs` | - | lemmas and theorems checked by TLAPS |

`Grammar`, `Typing` and `Lowering` extend `Syntax`; `Parser` extends `Grammar`,
`Sema` extends `Typing` and instantiates `Judge` with its verdict; `Aurorac`
extends `CodeGen` and instantiates `Sema` with `prog` shared. The parser's output type is the input
type of Sema and CodeGen: what those two assume of programs
(`ProgramsAssumption`) is what `ParserProofs` proves of the parser
(`ParserReturnsParsed`). `Lexer` and `Parser` share the representation of a
token; lines and columns are used for messages only and end at the parser.
`Driver` stands above all of them: what the passes make of a text is a constant
there.

### How a program is represented

A function body is the sequence of nodes in the order in which `parseStmt`,
`checkStmt` and `genStmt` visit the statement tree, with `else`, `endif` and
`endwhile` nodes where the recursion leaves a block: the C++ call stack becomes
a program counter, and what the C++ code holds in local variables of the
recursion (`localDefers`, `MergeBB`, ...) becomes an explicit stack (`open` in
Parser, `defers` in Sema, `frames` in CodeGen). Every `if` has an `else` node,
as `SIf::elseStmts` always exists. Expressions stay trees, and recursion over
them is a recursive function on the set `Exprs`, so that no `RECURSIVE` operator is
needed. Each of these functions is an operator that says what is made of one
expression, given what is made of its operands (`infer`, `genExpr`; `parseType`
and `parseLevel` likewise, for places in the input), and the function that it
defines by recursion (`Infer`, `Gen`, `ParseType`, `ParseLevel`).

Four assumptions say what the parser guarantees, and TLC evaluates them in
every run: `ProgramsAssumption` (bodies are well nested, parameters and results
have types), `ExprsAssumption` (an expression is a finite tree whose operands
are expressions), `OperatorsAssumption` (an operator is one that `parseAssign`
and the functions below it look for) and `NodesAssumption` (a statement's
expression is one of `Exprs`).

### Correspondence, Lexer

`src`, `i`, `line`, `col` are the members of `Lexer`, `toks` its result. A step
is one turn of the loop in `lex` or in `skipWS`. NUL is a character of its own,
since `peek()` returns it both for a NUL in the text and at the end. `MaxInt`
stands for 2^63-1: `std::stoll` throws beyond it, nobody catches, and the
process ends ("aborted"). The alphabet is what the language is written in, all
six characters that `isspace` takes for blanks included; the vertical tab,
which a TLA+ string cannot contain, is called `VT`.

The reference has no lexer in it: a language says of a stretch of text whether
it is a lexeme, a position begins a lexeme if it is the first or the longest
lexeme from an earlier one ends before it (`Begins`), and line and column are
counted from the whole text before a position.

### Correspondence, Parser

`parseType`, `parseExpr` and the functions below it keep nothing but position
and result, so they are functions from a position to a `Result` (the
expression, and the position behind it) or to `Failed`, their `fatal()`. There
is one operator per function of the code, the six binary levels being one
(`parseBinary`), and their calls of each other go through `E`, the function of
all calls: `E[<<n, FALSE, j>>]` is the function of level `n` called at `j`,
`E[<<n, TRUE, j>>]` its loop entered at `j`. The
loops of `parseProgram`, `parseFunc`, `parseBlock` and the branches of
`parseStmt` are actions. The tree is built as the sequence of nodes above.

### Correspondence, Sema

`scope`, `fns`, `loopDepth` are the members of `Sema`; `defers` stacks the
`defers` and `localDefers` vectors of the active `checkStmt` calls. A step is
one turn of the signature loop (`GatherSig`), the beginning or end of a body
(`EnterFunction`, `LeaveFunction`), or one statement (`Check...`). Each action
has a disjunct that succeeds and one, `Fatal`, for the code's calls of
`fatal()`. A scope entry carries, beside the C++ fields, the site of its
declaration, which only the properties read. `infer` is the function `Infer`;
`Ill` is its `fatal()`.

### Correspondence, CodeGen

`ir` holds the basic blocks of each `llvm::Function`, `ins` the builder's
insertion block. An instruction is a record of what the properties and the
verifier look at: its kind, the allocas it refers to, whether its operand types
are right, branch targets, callee, and the statement it was made for. Blocks
are numbered in the order of creation; all are in the function when it ends,
so the point of insertion is left out. `Lowering` says for every expression
which value and which code `genExpr` gives: constants fold as the `IRBuilder`
folds them, arrays decay to their alloca, `print_i64` and friends are the
functions declared by the constructor. A variable annotated with a type that
is not an array is filled by an array literal through ill-typed element
addresses (`NoArray`), which the verifier refuses. The builtins' place in the
module's symbol table, and LLVM's renaming of a second symbol of the same name,
are in `symtab`. LLVM renames a second parameter of one name as well, `x` to
`x1`, and `namedValues` gets an entry for the new name (`ParamSlots`); a program
that has a variable of that very name besides is left out.

`Verifies` is what `llvm::verifyFunction` is used for: one terminator per
block, at its end; operand types; an alloca dominating its uses in reachable
blocks. It and the other definitions for LLVM's own API are marked external in
`PROJECT.json`. A pointer used as a condition makes the code call
`ConstantInt::get` on a pointer type, which LLVM does not define; the model
lets the verifier reject the comparison, the outcome of a release build.

### Correspondence, Driver

A job is a process: `aurorac` called directly, or `run.sh`. `pc` is where it
is, `fs` the files, each absent, torn (opened and empty, cut off, or written
by two) or whole with the text it was made from. `Compile` is `slurp` and all
four passes: they touch no file. `Open...` and the writing behind it are
separate steps, so that a kill or another job comes in between. `Strike` is a
kill, a full disk, or an open that fails; it ends the job and may leave what
it was writing torn. `slurp` does not look at the state of the stream, so a
source that cannot be opened reads as `Empty`, in `Compile`. `Edit` is a user
who changes or removes sources. `struck` and `crossed` record which jobs were
interrupted, or ran beside one with an output in common; only the properties
read them. What the passes make of a text is the interface to the other
modules: `Rejected` are the texts on which a run of Lexer, Parser and Aurorac
does not end in "emitted". `Linkable` are the texts whose object links: it has a
`main`, and a body for every function that it calls, which an object of two
functions of one name lacks (`MCDefinitions`). The assumption that `Empty` is
neither is the empty program's run through the passes.
`PathsAssumption` says that nobody names a source file as an output.

Definitions marked `\* mutant` are not part of the specification. Each is a
wrong variant of the definition below it and is used to show that a property
would notice that error (`PROJECT.json`, "mutants").

## 3. What the runs show

Passing runs (TLC, two workers, each under a minute):

| Run | Instance | Shows |
|---|---|---|
| `MCLexer` | every text of up to 3 characters of operators and their neighbours, 4 of words, literals and blanks, 6 of comments, newlines and NULs | `LongestMatch`: tokens, lines and columns are those of maximal munch. `LiteralsFit`: the process dies of the first literal too large, and only of that. `Ends`: lexing terminates |
| `MCParser` | in a function, every expression statement of up to 4 tokens, every chain of two infix operators, every sequence of up to 5 pieces of blocks ended anywhere; a text with everything in it, whole, without one token, with one replaced, cut off at each | `ParsesGrammar`: the parser returns the one program of the grammar, or there is none. `ReturnsParsed`, `OpenMirrorsBody`: well-nested bodies. `TakesTokens` and no deadlock: it comes to an end |
| `MCSema` | all bodies of up to 4 statements over `let`, annotated `let`, `let unique`, use, `defer`, `if`, `while`; all nestings of `break`, `continue`, `if`, `while` up to 4, and up to 2 before a second function; one expression of each shape in each kind of statement, with 3 return types and 5 sets of other definitions | `ScopeIsLexical`, `LoopDepthIsExact`, `StacksMirrorBlocks`, `DefersOfOpenBlocks`. `ImplementsJudge`: Sema refines `Judge`, liveness included |
| `MCCodeGen` | expressions of every shape, ill-typed ones included, calls as operands of one another, all nestings of jumps and declarations of up to 3 statements, in one and two functions | `StacksMirrorNesting`, `NamesAreFlat` also on the error paths Sema normally hides. `EvaluatesInOrder`: the code of a statement makes exactly its calls, in order and in one block, also on the right of `&&`; what the first element of an array literal calls is made twice, or three times for an unannotated `let`, and oftener in nested literals |
| `MCAurorac` | all bodies of up to 4 statements over return, break, continue, assignment, of up to 3 or 4 over declarations and uses, under `if` and `while`, with several types of parameter and return; expressions with unknown names and callees, empty array literals and array literals for a scalar, in every kind of statement and beside a second function of the same name | `JumpsMatchSource`, `LiveCodeStaysLive`, `RejectionsExplained`, `SemaCoversErrors`, `LexicalUnlessShadowed` |
| `MCDriver` | two jobs, each `run.sh` on one of two sources of one base name, or a direct call with its arguments in every order that matters; two texts that link, one that compiles and does not, and a wrong one | `RunsItsSource`, `CompiledWhole` (with the names that the last `-o` and the last `--emit-ll` give), `FailsForAReason` under edits, kills and failing files at every step |

Properties worth a second look:

* `ParsesGrammar` compares recursive descent with a grammar that has no order
  of reading: `Grammar` tries every split of every stretch of tokens, and the
  set of programs it finds must be what the parser returned, or empty when it
  called `fatal()`. It therefore also says that the grammar is unambiguous on
  these inputs.
* `ImplementsJudge` compares the one-pass analyser with rules stated without a
  scope stack, a counter or an order: names through `Lexical`, loops by
  position, signatures by last definition.
* `LiveCodeStaysLive` compares reachability in the generated graph with
  reachability in the source, in both directions.
* `RejectionsExplained` characterises, as an equivalence, what an accepted
  program whose types agree may still fail on: code behind a `return` in the
  same list (after `break` and `continue` there is a fresh block, after
  `return` there is none); a function whose implicit return does not fit its
  type; a use that control reaches around the declaration the flat map gives it;
  the elements of an array literal as the initialiser of a `let` annotated not
  to be an array, which Sema does not look into.
* `EvaluatesInOrder` takes the calls that a statement has left behind, in all
  blocks of the function, and compares them with `CallsMade`, which says from
  the source alone which calls there are, how often and in which order.
* `SemaCoversErrors` holds with two exceptions, and both occur. CodeGen meets an
  unknown name in an accepted program if it stands in the initialiser of an
  annotated `let`, which Sema does not infer, or in a body whose name a later
  function has taken over in `functions`, because that body is generated with
  the later one's parameters.
* `RunsItsSource` is about all that earlier jobs may leave: the script's only
  protection is that each of its three commands overwrites its output or fails.
  Jobs that are at work while another one is with an output in common
  (`crossed`) are set aside in the properties of `Driver`. The script guarantees
  them nothing: either may run the other's program or fail.

Runs that expect a violation; each shows where the code parts from what the
repository says of it (quoted in `PROJECT.json`, "findings"):

| Run | The program | What happens |
|---|---|---|
| `MCSemaDefer` | `defer u;` with `u` undeclared | accepted, although `sema.cpp:193` says "type-checked above" |
| `MCDefer` | `defer print_i64(1);` or `let unique<ptr<i64>> x = malloc(8);` | no code is generated for the deferred call |
| `MCDefinitions` | two `fn g()`, or a `print_i64` of one's own | calls go to a declaration without that body |
| `MCStores` | `y = x && 1;` with `y: bool`; `y = true;` after `let y = x < 1;`; `let y: ptr<i64> = x;`; `let y: i64[1] = [1, 1];` | a value of another type is stored, or two elements in a slot of one |
| `MCSort` | the call in `examples/bubble_sort.aur` | accepted by Sema, rejected by the verifier |
| `MCShadowing` | a shadowing `let` in a block, a use behind it | the use refers to the inner variable |

### Bounds

*Programs.* Four statements are enough for a shadowing declaration in a block
followed by a use, for a loop in a loop with jumps on both levels, for a branch
with a jump on each side and code behind it; three levels of nesting occur. Two
functions suffice for state that leaks from one to the next, since nothing
depends on more than the previous one. The sets are complete for their
alphabets: `ProgramSets!Bodies` builds every body, so no interesting order is
left out by hand.

*Texts.* The lexer looks one character ahead, so three characters show every
operator beside every neighbour; a comment that opens, ends and is followed by
something takes six. `MaxInt` is 230, so that literals of three digits lie on
both sides of it, and a word can follow one.

*Tokens.* Every pair of infix operators in one expression decides precedence
and associativity; five pieces of blocks give an `else` behind a nested branch
and a loop in each part of it. Every end of input and every missing token of a
text with all constructs is an input of its own.

*Jobs.* Two: every hazard is one job and what another one did before it or
beside it. Two sources of one base name are the case in which scripts meet,
and a direct call can write the script's files, too. Three texts that compile
(one that does not link, and two that do) tell a file from a stale one. The two
that link and the jobs are interchangeable (`SYMMETRY`; no liveness is checked there).

Nothing else is bounded: every run visits all states of its instance.

### Fairness

`Lexer!Spec`, `Sema!Spec`, `CodeGen!Spec` and `Compiler` have weak fairness of
their next-state action (the stutter after the end excepted): the process is a
single thread that does nothing but run the pass, every action is one turn of a
loop or one statement, and each of them terminates. It is used by `Ends` (every
text is lexed) and by `ImplementsJudge` (a verdict is eventually given).
`Parser` states none: there `TakesTokens` says that each step consumes input or
is the last, and the absence of deadlock that there is a next one. `Driver`
states none either: a job may be stopped at any time, and nothing is promised
of jobs that are.

## 4. What is proved

Each theorem holds for every value of the constants that satisfies the named
assumptions: any set of programs, inputs or jobs, of any size.

### Functions defined by recursion

What a run compares with a recursive function, or lets it compute, needs that
function's equation: `f[e \in D] == ...` only chooses a function that satisfies
it, if there is one; a fold is such a function, of sets of positions.
`Recursion` proves once (`Unfolding`) that there is one if
the body, for an argument of rank `n`, looks at the function on arguments of
lower rank only, and that every value is then `Fit` if the body makes fit
values of fit ones. What is to be shown of a body is thus what one turn of the
recursion does. For folds (`Folding`) the rank is the greatest position in the
set. The module is instantiated, with a domain, a rank, a body and a claim, for

* `FlattenSeq` (position in the sequence), in `SyntaxProofs` and `LexerProofs`;
* `Begins`, `ValueOf` and the characters `GetTo` reads (position in the text),
  in `LexerProofs`;
* `Options` (position of the argument), in `DriverProofs`;
* `SiteTypes` (place of the declaration in the text), in `SemaProofs`;
* `Gen`, `Infer` and `CallOrder` (depth of the expression), in
  `CodeGenProofs` and `AuroracProofs`;
* `LiveAround` (position in the body) and `Reached` (number of steps), in
  `CodeGenProofs`;
* `ParseType` and `ParseLevel`, in `ParserProofs`. Their rank is what is left of
  the input, and for calls at one place the level. Where the function looks
  next depends here on how far earlier calls have got, so the claim `Reaches` -
  a result lies behind the place of the call and within the input - is proved
  in the same induction;
* the arguments and subscripts an expression has taken (`Grown`, a fold), and
  `TypesIn`, `ExprsIn`, `StmtsIn`, `ParamsIn` and `FuncsIn` of `Grammar`, in
  `ParserProofs`. The rank is the length of the stretch of tokens, and within a
  stretch the level of the expression.

### Lexer

`LexerProofs`, from `LexerAssumption` (a text is a sequence of characters):

* `LexerTypeCorrect`: `Spec => []TypeOK`;
* `LexerLongestMatch`: `Spec => []LongestMatch`;
* `LexerLiteralsFit`: `Spec => []LiteralsFit`.

`LongestMatch` compares two results, and says nothing of the lexer half-way. The
inductive invariant `LInv` does: `i` is a position where a lexeme begins, and
every lexeme that began before it has ended (`At`); the tokens so far are what
the positions before `i` owe (`Known`); `line` and `col` are the position's; no
literal before `i` is too large. One half of the argument is about languages:
what the longest lexeme at a position is, by the characters there (`Longest...`),
which needs that the classes of characters are disjoint and that what a loop
stops at, no longer lexeme contains. The other half is that nothing begins within
a lexeme and the next one begins behind it (`NextAt`), so that one turn of the
loop adds what one position owes (`Turn`).

### Parser

`ParserProofs`, from `InputsAssumption` (a sequence of tokens has one `eof`, at
its end, which is what `lex` returns):

* `ParserReturnsParsed`: `Spec => []ReturnsParsed`. It is the assumption
  `ProgramsAssumption` of the modules behind the parser, so that together they
  speak of everything the parser can return.
* `ParserTypeCorrect`: `Spec => []TypeOK`, in particular the parser never reads
  behind the `eof`.
* `ParserTakesTokens`: `Spec => TakesTokens`, each step moves on or is the last.
* `ParserBlocks`: `Spec => []OpenMirrorsBody`;
* `ParserParsesGrammar`: `Spec => []ParsesGrammar`.

The inductive invariant of the first four is `PInv /\ Placed`. `PInv` rests on
`Nested(body, open)`: the body parsed so far is well nested but for the blocks
in progress, and each of those began at its node, has not been left since, has
had its `else` or not as recorded, and lies in as many loops as are open below
it. Being well nested alone says nothing about which block the next `}` closes.
`Placed` says that there is a token at `i` and that every block in progress has
its node in the body; a step keeps it because `expect` and `accept` never move
past the `eof` (`Reaches`), however deep in an expression they are called.

`ParsesGrammar` says that the parser decides the grammar: what it returns is the
one program the tokens stand for, so the grammar is not ambiguous, and it calls
`fatal()` only on tokens that stand for none. The proof has three parts.

*Expressions and types.* `Decides(n, j)` says of a level and a position that a
result of the parser is an expression of the stretch up to where it stops, and
that for every expression of the grammar from `j` on, behind which no token
stands that could continue it (`Continues`), the parser returns that one and no
other. Nothing is said of a stretch that could be continued: there the parser
reads on, which is why the first lemmas are about what may follow a level. `Decides` is
proved from the end of the input backwards (`ExprsDecided`), at each position
from the tightest level to the loosest. Operators, subscripts, arguments and
elements are all chains, a head and links: the grammar takes the last link off,
the loop of the parser the first one. `ChainGrows` and `ChainPasses` bring the two together: every prefix
of a chain that the grammar derives is a point the loop passes.

*Statements.* `Tails(W, a)` is what the tokens from `a` on can stand for inside a
block: the statements up to its end, and then one of the things `W` that can
follow it. With what can follow the end of a loop, of an `else`, of a branch
and of the function (`EndLoop`, `EndElse`, `EndThen`, `EndFunc`) the grammar's
trees become a walk: `Moves(W, a, n, V, c)` says that tails at `a` are the nodes
`n` and a tail at `c`, where `V` is what can follow then. There is one such lemma
for each kind of statement (`SimpleMoves`, `HeaderMoves`, `EndMoves`), and one for
each case in which nothing can follow, which are those in which the parser calls
`fatal()`. This is where an `else` is found to belong to the branch just closed,
and where a header must be followed by a brace.

*Steps.* The invariant `Derived` says, in each status, that the programs the
whole text stands for are those that begin with what has been parsed and go on
with what the rest can stand for (`ProgLeft`, `ParamsLeft`, `RetLeft`,
`BodyLeft`). In a body "the rest" depends on the blocks in progress: `Conts` gives
each entry of `open` what can follow it. Each step of the parser keeps
`Derived`; at the end nothing is left, and the set is `{prog}` or empty.
`Derived` quantifies over all programs, so it has no run of its own; what follows
from it is the property that `MCParser` checks.

### Sema

`SemaProofs`, from `ProgramsAssumption`:

* `SemaTypeCorrect`, `SemaStacks`, `SemaLoopDepth`: `TypeOK`,
  `StacksMirrorBlocks` and `LoopDepthIsExact` are invariants;
* `SemaScopeIsLexical`: `Spec => []ScopeIsLexical`;
* `SemaDefersOfOpenBlocks`: `Spec => []DefersOfOpenBlocks`;
* `SemaImplementsJudge`: `Spec => J!Init /\ [][J!Decide]_<<prog, Verdict>>`,
  the refinement of `Judge` step by step.

None of the first three is inductive. Their strengthening `IInv` joins them and
adds that the program is one of the given ones, that `scope` and `defers` are
sequences, that the nesting depth is not negative during a body, and that
`loopDepth` is zero while signatures are gathered. They need each other: that
`pop()` leaves a scope on the stack follows from the stack's height, the height
from the body's nesting, and that `loopDepth` is right in a function from its
being zero between functions, which the end of the previous body must
establish. The proof has one lemma per kind of statement; all rest on
`Advanced`, which says what a statement must do to the three stacks, and on
`AtStatement`, which says what the invariant gives it.

`Lexical` takes the last declaration whose list is still open, `lookup` the
innermost scope. The invariant `Mirrors` says that the stack holds every open
declaration at its level, that it holds nothing else, and (`DeeperIsLater`) that
of two open declarations the deeper one comes later in the text: without it
innermost and last are not the same. For the deferred expressions `Collects`
gives each its vector and its place in it, and each vector its length.

For the refinement, `JInv` says that what has been checked is right and that a
program that has failed is not `WellFormed`. A statement is checked in the
environment of the scope stack and judged in `EnvAt`; they are the same
(`SameEnv`) as names are resolved lexically and every entry has the type of its
site (`TypesOfSites`), a type that `SiteTypes` computes from the declarations
before it. `fns` is `Sigs` of the functions read so far, which is `Sigs` of the
program when the bodies begin. That a verdict comes is liveness and left to
TLC.

### CodeGen

`CodeGenProofs`, from `ProgramsAssumption`, `ExprsAssumption`,
`OperatorsAssumption` and `NodesAssumption`, and whether or not Sema has
accepted the program:

* `CodeGenTypeCorrect`, `CodeGenStacks`, `CodeGenNamesAreFlat`: `TypeOK`,
  `StacksMirrorNesting` and `NamesAreFlat` are invariants;
* `CodeGenLexical`: `Spec => []LexicalUnlessShadowed`;
* `CodeGenJumps`: `Spec => []JumpsMatchSource`;
* `CodeGenEvaluatesInOrder`: `Spec => []EvaluatesInOrder`;
* `CodeGenLiveCode`: `Spec => []LiveCodeStaysLive`.

`GInv` adds to the first two that every block in `frames` is a block of the
function being filled (`Held`), that every declared name leads to a function of
the program (`Declared`), and that the stacks are empty while functions are
declared. An `else` or `endwhile` moves the builder to a block that `genStmt`
held across the inner statements: that the insertion block exists needs the
held blocks to exist, that there is a held block at all needs `frames` to mirror
the nesting, and that the blocks have not moved needs every step only to add to
them (`Advanced`). For the flat map one more node means one more entry or none
(`DeclaredNext`), and a new function starts from its parameters alone
(`BeginNames`).

The others are about all instructions of all functions. `CInv` says that
every block's code refers to slots and targets as it should (`UseOK`, `JumpOK`)
and that entry `n` of the loop stacks is the end and the condition of the
`n`-th loop around the statement (`ExitOf`, `NextOf`). A step adds code and
takes none away (`Grown`); what it adds for an expression refers to slots in
`namedValues` only (`GoodGen`, by induction on the expression); those are the
last declarations of their names (`NamesAreFlat`), and the last declaration is
the lexical one or stands in a block closed since (`LastOrShadowing`). For
jumps, that the loop on top of the stack is `InnermostLoop` is a fact about
nesting alone (`LoopsNested`).

For the order of calls, `Does` says of a value that the calls in its code are
exactly those of a given sequence, `Makes` the same of a piece of code. Both
are about equality, so joining pieces joins the sequences (`CallsOfAll`). By
induction on the expression `genExpr` makes the calls of `CallOrder`
(`DoesExpr`), one case for each kind of expression and for each kind of target
that an assignment may have: it needs to know the operators there are
(`OperatorsAssumption`). A declaration initialised by an array literal does not
go through `genExpr`, but generates the first element once or twice for its
type and then fills its slot (`ArrayMakes`). A statement then puts one such
piece into one block, that of the insertion point or, for a loop's condition, a
new one (`StatementCalls`). That the function holds no other calls of this
statement is the invariant `OInv`: of the position that `genStmt` is at, nothing
has been emitted yet, whatever blocks were filled before.

`LiveCodeStaysLive` compares two recursions: `Reached`, over the graph, and
`Live`, over the text of the body. `Reached` becomes a statement about sets
first: with as many steps as there are blocks nothing new is reached, so that it
is the least set that has the entry and that no edge leaves (`ReachedIs`), and a
block is in it if every such set has it (`Entered`). Added edges only enter more
blocks, so a block that has been entered stays entered while the graph grows;
that a block is not reached is shown by one set that no edge leaves, that of the
blocks whose statement begins where control reaches the text (`Begins`). Thus
the invariant `FInv` can speak of half a function without knowing its other
edges: code for a position that control reaches is in a block entered, code
for any other in a block that does not begin live, and no branch goes from the
first kind to a block of the second (`Flows`); the insertion point carries
control to the next position exactly if that is live (`Leads`); and the blocks
held for each open statement, its `else`, condition or end, are entered as soon
as they must be and still empty if they must be (`Frames`). A branch that ends
without a terminator enters `ifend`; one that has returned leaves that to the
other; `Live` says so with the `else` and the `endif` (`JoinsIs`). Code behind a
`return` in the same list goes into the same block and would break all this, and
the generator does not look: but then a terminator stands in the middle of a
block (`Broken`), stays there (`StillBroken`), and the verifier refuses the
function (`VerifiedIsWhole`). `NamesDistinct` is needed for a function's blocks
to be its own (`TargetIsCur`).

### Sema and CodeGen composed

`AuroracProofs`, from the same assumptions:

* `CompilerCoversErrors`: `Compiler => []SemaCoversErrors`.

The inductive invariant `AInv` joins the three of the analysis (`IInv`,
`LexInv`, `JInv`) with `GInv` and `NamesAreFlat`. By `JInv` an accepted program
is `WellFormed`, so every statement that CodeGen comes to is right in `EnvAt`;
what has a site in `EnvAt` has a slot in `namedValues`, since a declaration that
is still open is among those met so far (`DeclaredOrIn`), and what has a
signature in `Sigs` is in the module's symbol table (`KnownHere`). An expression
that `Infer` gives a type then is one in which `genExpr` finds all names, by
induction on the expression (`CleanExpr`): if it has a type, so have its
operands (`TypedOperands`), down to the target of an assignment to an element,
which `genExpr` takes apart itself. In a loop by position (`WellFormed`) the
loop stacks are not empty (`StacksMirrorNesting`). The lemmas named `Same...`
say that the two instances of `Sema` in the module, that of `Aurorac` and that
of its proofs, define the same.

### Driver

`DriverProofs`, from `ContentsAssumption`, `CallsAssumption` and
`PathsAssumption`:

* `DriverTypeCorrect`: `Spec => []TypeOK`;
* `DriverRunsItsSource`: `Spec => []RunsItsSource`;
* `DriverFailsForAReason`: `Spec => []FailsForAReason`;
* `DriverCompiledWhole`: `Spec => CompiledWhole`.

The invariant is `Shape`, `Apart` and `Fine(j)` for every job. `Fine` follows
the object from the opened file to the program that runs (`OwnFiles`); `Apart`
says that jobs at work have no output in common unless they are in `crossed`,
and is what keeps another job's step from changing a file between `EmitObj` and
`Run`. A step of job `k` is proved to keep `Fine(j)` once for `j = k` and once
for the others. For `CompiledWhole`, `OwnFiles` follows the listing too, and
`OptionsTaken`, by induction on the arguments read so far, says which of them
`main` has taken as a file's name: those that the last option of each name gives.

### Only model-checked

* `Ends`, and that Sema comes to a verdict (`ImplementsJudge`): liveness.
* `RejectionsExplained`: that the verifier refuses for the four reasons given
  and for no other needs dominance, which speaks of the blocks reached around
  another, and so the argument of `LiveCodeStaysLive` once for every declaration
  left out, and the types of all generated values besides (plan, 1).

## 5. Plan

Done: the analyser, its refinement and the generator; the composition; lexer,
grammar and parser; the driver; the proofs listed above. Left, in this order:

1. `Flows` for the blocks reached around a block (`LiveAround` with a cut), and
   from it, with the types of generated values, `RejectionsExplained`.
2. `Exec`: an execution semantics with values, of the source and of the
   generated blocks, the second compared with the first.

## 6. Not modelled

* *Values.* The passes are modelled by types, names and control. To what an i64
  index is truncated (`codegen.cpp:101`), and what `&&` yields on two integers,
  is outside (plan, 2); that a truncation takes place, and what becomes of an i1
  index, is modelled.
* The code LLVM emits, target selection and the linker: `Driver` has only
  whether they give a whole file.
* `Type::str` and the texts of errors (wording); `Type::clone` (a copy of a
  value); `runDefers` (never called).
* The runtime library (two lines of stdio), the build files and the generated
  files beside them (`CMakeFiles/`), the scratch test `test_debug.cpp`. The
  examples serve as inputs.

## 7. Running

    tlc -workers 2 -config MCSema.cfg MCSema
    tlc -workers 2 -config MCSort.cfg MCAurorac
    tlapm LexerProofs.tla

A run's module and configuration are in `PROJECT.json`; a configuration of the
runs with violations belongs to `MCAurorac`, except `MCSemaDefer`, which
belongs to `MCSema`.

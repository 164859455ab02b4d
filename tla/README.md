# Jynx in TLA+

Jynx is a compiler for a small language: `src/main.cc` reads one file, parses
it, analyses the tree in three passes, generates a graph of basic blocks and
prints it. The modules here model that pipeline from the characters of the file
to the end of the process, TLC checks it on small instances, and TLAPS proves
theorems about the lexer, the parser, the analysis, the driver, the generator
and the def-use lists for all instances. Everything is one thread; what makes
the program hard is that a great deal of state is shared by walks that happen
one after the other (the current scope, the current function, the current
block, the look-ahead), that nodes carry raw pointers nobody initialises, and
that errors are reported while the walk goes on.

Paths in this file are relative to the root of the repository.

## Inventory

| Part | State | Operations | Hard behaviour |
|---|---|---|---|
| Lexer (`src/lexer.cc`, `token.cc`, `trie.hh`) | the stream, line, column | `next_token`, `skip_whitespace` | look-ahead by `unget`, comments and strings that run into the end of the file |
| Parser (`src/parser.cc`, `include/parser.hh`) | `current`, the deque `peeked_tokens`, the C++ call stack, the tree so far | `peek`, `advance`, one `parse...` function per phrase | two tokens of look-ahead taken in any mixture with `advance`; precedence climbing; errors reported while parsing goes on; loops that must see the end of the file |
| Syntax tree (`include/ast.hh`) | nodes, and the annotations `SemanticInfo` on them | none of its own | pointers left uninitialised |
| Types (`include/*type*.hh`, `src/primitive_type.cc`) | the type caches of the context | `equals` | a type name is an operator of the grammar |
| Scopes, symbols, method table (`src/scope.cc`, `src/context.cc`, `include/methodtable.hh`) | the scope tree, the current scope, overload buckets | `push_scope`, `pop_scope`, `set_current_scope`, `declare`, `lookup`, `add_method`, `find_overload` | three passes walk the same scopes by pointers the first one left |
| SymbolCollector, NameResolver, TypeChecker (`src/visitor/`) | annotations, `current_function` | one handler per kind of node | state set for a method and not reset; handlers that fail and leave null for their caller |
| Sema (`src/sema.cc`) | none | `analyze` | the order of the passes, three ways out |
| IRGenerator (`src/ir/gen.cc`) | `module`, `current_block`, `locals`, the values of expressions | one handler per kind of node | nested methods, branches that end elsewhere than they began, an iterator into `locals` kept while the right side of an assignment adds to it, expressions that cannot be generated |
| IR containers (`include/ir/basic_block.hh`, `function.hh`, `module.hh`) | instructions, predecessors, successors, blocks | `appendInstruction`, `addEdge`, destructors | order of destruction |
| Def-use lists (`include/ir/instruction.hh`) | intrusive doubly linked lists threaded through `Use` cells | `addUse`, `removeUse`, `set`, `addOperand`, `setOperand`, `~User`, `~Value` | stale links, values that die before their users |
| Diagnostics (`include/diagnostics.hh`) | the errors reported, by pass | `report_error`, `has_errors` | a pass is judged by its own errors only |
| main (`src/main.cc`) | the order of all this | `main` | goes on after a failed analysis |
| IRPrinter, log, `ast_utils`, assembly generator, tests | | | output, or not compiled |

The parts interact by calls: `main` owns the lexer and the parser; the parser
pulls tokens and hands a tree to `Sema`; the passes share the tree, the
`CompilerContext` and the diagnostics; the generator reads the annotations and
owns the module; the module's destructors run the def-use lists down.

What makes each part correct: the lexer returns the longest pieces of the text
and then the end, and knows where it is; the parser gives every sentence its one tree,
never loses its place and always returns; the collector's scope is the one
around the node it is at; a name is bound to its nearest declaration and a call
to its one overload; an accepted tree is typed all through; the graph has a
branch at the end of every block, edges that match the branches and operands
that are there on every path; the use lists are sets of uses and no operand
ever refers to a dead value; the process ends, with a status that is true.

## Modules

`UseSets` <- `UseList` <- `MCUseList`, `UseList_proofs`

The def-use chains. `UseSets` is the abstract promise: every value has a set
of uses and may die only when it is empty. `UseList` keeps the pointers of
`instruction.hh`: `links` is `Value::use_list`, `Use::prev` and `Use::next`,
`value` and `user` the fields of a `Use`, `operands` those of a `User`. Callers
are free: any value may be constructed, used and destroyed in any order. A
destructor is several steps (`BeginDestroy`, `DeleteOperand` for each turn of
the loop in `~User`, `DestroyValue` for `~Value`), and a failed assert stops
everything. An operand may be null, which is what the generator passes for an
expression it could not generate.

`Tokens`, `Lexemes`, `TokenSource` <- `Lexer` <- `MCLexer`, `Lexer_proofs`

Characters to tokens. `cursor` is the `std::istream` with the location: how many
characters have been taken, the flags `eof` and `fail`, which `get`, `peek` and
`unget` of the standard set and clear, line and column. One action is one turn of
a loop of `next_token` or of a function it calls; `mode` is the loop, `buf` the
value put together so far. `Lexemes` says what the tokens of a text are without a
stream: at each place the longest piece that begins there. `TokenSource` is what
the parser counts on: calls return the tokens of the file one after the other,
and `EOF` from then on. `MCLexer` shows that the lexer implements it for the
tokens `Lexemes` defines.

`Ast`, `Types`, `Scopes`, `Passes` <- `SymbolCollector`, `NameResolver`,
`TypeChecker` <- `Sema` <- `MCSema`

Semantic analysis. A tree is a sequence of nodes in the order of the source,
so a node is a number. The recursion of a visitor is `agenda`, the pending
calls: `<<"visit", n, i>>` is the call of the handler for node n, other tasks
are what the handler does when the calls for its children have returned. Each
handler of each pass is an action, with its early returns. `ctx` is the context
with its scopes in the order they were pushed, `symbolOf`, `scopeOf` and
`typeOf` are `semantic.data.variable.symbol`, `semantic.scope` and
`semantic.declared_type` of the nodes. The first two start as garbage: null, as
on a fresh heap page, or `WILD`, as under AddressSanitizer, which CMakeLists.txt
turns on: `Analyze` picks one of the two for all of them, a simplification. Following
either is the state `"crashed"`. Programs are the ones the
parser can build (`IsProgram` of `Ast`, which `compile` checks of the parser).

`Language` is the abstract specification of all three passes: one step judges a
tree by rules about declarations, names and types that know no scope objects, no
annotations and no order of walking. `Sema` implements it (`ImplementsLanguage`):
`tree` is `prog`, `verdict` is `pass` once the analysis has ended, and `fresh`,
what uninitialised pointers hold, is read off the root, whose symbol no pass
sets. The rules include what the code does and the grammar does not say: names
in initialisers are not looked up, bodies of loops are not checked, a method's
parameters outlive it, an assignment is accepted only if a pointer that nobody
sets is not null.

`AstBuilder`, `SourceText`, `IRGen`, `Parser`, `Sema` <- `Driver` <- `MCDriver`

`IRGen` adds the generator to the same agenda: `functions`, `blocks`, `insts`
with operands, `locals` and `valueOf`, the value each expression returned.
`generateAssignmentExpr` finds an iterator into `locals`, an `unordered_map`, before
it generates the right side, and uses it after: it is the third part of the call
`<<"store", n, symbol>>`, the symbol whose element it points to. A right side that
declares a variable (`x = int y`) may rehash the map (`MayRehash`), which makes the
iterators held at that time (`Holders`) invalid: they are in `stale`. References to
elements stay valid. To use an invalid iterator is undefined, so the model has both
outcomes a build can have. The maps of the usual libraries keep each element in a
node of its own, which a rehash does not move: the iterator leads to the same element
(`GenStore`). A library that checks its iterators ends the process
(`GenStaleIterator`, a step to `"crashed"`).
`Driver` is `main`, from the tokens of a file to the exit status: `Refuse` (no
file, or none that opens), the parser (`P == INSTANCE Parser`) with `AstBuilder`
making of its postfix output the tree with names, types and operators that the
passes get, `AfterParser`, the passes, generation of whatever came back (node 0
is the null tree), and the destructors: of the module, instruction by
instruction, and then of the context with the constants. A source is
`[tokens, malformed, tree]`: the tokens the lexer returns, whether it has reported
an error on the way, and, where it is known, the tree that is written there.
`SourceText` writes that text from a tree, by the grammar and without the parser.
The order in which `std::vector` destroys its elements is open in the standard
and differs between libraries: `fromBack` chooses.

`Parser` <- `Grammar` <- `MCParser`, `Parser_proofs`

The recursive-descent parser as a stack machine. A token is its position in
the file; `tokens` is `current`, the deque and how far the lexer has been read;
`calls` is the C++ stack, a frame being the place where a function goes on and
the one local it still needs; `out` is the tree in postfix order; `errors` the
kinds of error reported. `Grammar` builds sentences together with their trees,
without parsing, and states what the parser should do with them.

`Trees` writes the programs of the MC modules as nested trees.

`Passes_proofs` <- `Sema_proofs` are the proofs about walks over a tree and about the
analysis, `Passes_proofs` <- `Tree_proofs` those about the trees that the parser makes;
`Driver_proofs` takes both to the whole program, and `Graph_proofs`, on top of it, is
about the graph that the generator makes. `Passes_proofs` is
also what is known of trees: induction over their numbers, the children of a node,
the nodes above it and below it, and that these are intervals. No module declares a `RECURSIVE` operator: the prover
cannot handle them, and recursive functions do.

## What the runs check

| Run | Instance | Question |
|---|---|---|
| `use_list` | a constant or block, two instructions, three cells | Do the lists stay what they stand for? The pointers agree and are not cyclic (`ListsWellFormed`), a walk along `next` meets exactly the uses of the value (`WalkMeetsEveryUse`), `use_empty` is exact, no operand of a live user dangles, every cell belongs to one operand slot, the whole implements `UseSets`, and a destructor ends. |
| `lex` | all texts of up to three of eight characters that begin something, and of four of those with look-ahead; a type name with every suffix of up to four brackets and digits; every pair of 25 fragments, alone and before more text | Does the lexer return the longest pieces and then the end (`ImplementsTokenSource`), whatever the end of the file cuts off; are exactly the malformed pieces reported (`ErrorsExact`), line and column right (`LocationExact`), and is the stream at its end when it has failed (`FlagsExact`)? Reading ends. |
| `analysis` | programs of a global part, `int main()` with two statements out of 18 and 5 kinds, and a statement after it | Scopes stay in step with the tree, names are bound to the nearest declaration, a variable never hides one that is visible, overloads are found exactly, crashes have a cause, accepted programs are typed, the three passes together decide what `Language` does, analysis ends. |
| `compile` | the text of programs most of which are accepted, with ifs in ifs, loops, methods in methods, statements outside methods, assignments whose right side declares a variable; two programs with a token removed or replaced, at each place; files the lexer complains of | A file gives the tree that is written in it (`TreeAsWritten`), and any file that parses gives a tree of the shape the passes take for granted (`TreesWellFormed`). Every block ends in a ret or a branch, and a branch ends its block (`BlocksTerminated`: only a ret may be followed by more, as the code does after a return), edges match the branches, operands dominate their uses (but for the address of a variable that is declared in the branch of an if without braces, which later statements can name), loads and stores go to the variable of their name, also when the map has been rehashed in between (`AccessesOwnVariable`), iterators become invalid only by a declaration in the right side of their own assignment, and the generator dies of nothing else but the null tree (`StaleIteratorsExplained`), nulls are reported, nothing is left out, teardown aborts exactly when it must, status 0 is only for what nothing was said against (`SuccessIsEarned`). The process ends, unless a list is open at the end of the file (`ProcessEnds`). |
| `parse` | every sentence of the language with up to three operators in any grouping, statements nested two deep, classes and methods; three programs cut, with a token removed or replaced at each place; all files of up to three of 13 tokens | Sentences get their trees (`DerivationsParse`), the parser meets the tokens in order (`LookAheadInOrder`), and it returns from every file that does not end in an open list (`StopsOrOpenList`). |

Seven runs state what the repository says and show the program that disagrees:

| Run | What happens |
|---|---|
| `leaked_parameter` | After a method's body the resolver returns to the method's own scope: its parameters are visible to the statements that follow. |
| `return_outside` | `current_function` is never reset: a return after a method is accepted. |
| `aborting_teardown` | Blocks die in order, each with its instructions, so a value, or a block that others branch to, may die before its users, and `~Value` aborts. From the back it is the end block of any `if`, which goes before the branches that jump to it; from the front an address in the entry block, or the end block of an outer `if`. A program with an `if` aborts the compiler. `TeardownAbortsExactly` of `compile` says when. |
| `generating_null` | After "skipping code generation" the null tree is generated. |
| `open_class` | A class that is not closed is never left. |
| `dropped_tokens` | `f(-x)` loses the x, `f(1 + 2)` has two arguments, without an error. |
| `field_semicolon` | The semicolon of a field declaration is an error. |

Other departures from `examples/grammar.md` are in the model, as the code has
them, without runs of their own: a group may go without its closing parenthesis;
a statement that starts with an operator continues the condition before it
(`if (a) -b;` has the condition `a - b`); an expression statement that starts
with a call takes only the call; assignment groups to the left and binds tighter
than comparison; a type name is a binary operator, the tightest; skipping a bad
class member may take the brace that closes the class. `Grammar` builds the
sentences on which the grammar and these rules agree.

### Bounds

Bounds are the instances above. Three cells and three values make every position
of a cell in a list (front, middle, end, alone) and a self-use. Two statements in
`main`, each nesting up to two more, with something before and after, make every
pair of handlers follow each other across a scope. In `parse` the operators have one
member of each precedence, with each of them left of, right of and below each
other. In `lex` four characters are more than the longest look-ahead, which is
two for `//` and for a suffix of brackets, with the end of the file at every place
after it; every pair of fragments puts every kind of token next to every other.
In `compile` every place of a file that uses most of the language is broken in
five ways. The parameter loop goes on making parameters at the end of the file; they
are not kept (`ParseParams`), so that the run that never ends is a loop of
states. No other counter is cut.

`CHECK_DEADLOCK FALSE` is in the configurations of what stops: a compiler exits,
aborts or crashes. The lexer does not stop, for it can be called again.

### Fairness

Each pipeline has one thread and no waiting, so a call that is pending is made:
weak fairness of the next-state relation of `Driver`, and of the parser and the
passes where they are checked by themselves. The lexer runs when it is called,
and is called because the parser asks until it gets `EOF` (`MCLexer`). In
`UseList`, whose callers are free, only a destructor that has started is carried
on.

## What is proved

For every set of values, users and cells (`UseList_proofs`, from
`UseListAssumption`: users are values, and null is neither a value nor a cell):

* `TypeCorrect`, `OwnershipCorrect`: types, and each cell belongs to one operand
  slot of a live user. Both are inductive together.
* `UseEmptyCorrect`, `NoDangling`: that `use_empty` is exact is not inductive:
  taking out a cell with wrong links would break any list. The invariant is that
  the pointers agree (`WellLinked`) and that the lists are acyclic, stated by a
  ranking of the cells that decreases along `next`. It is needed to find the head
  of the list of a value that has a use. `addUse` keeps the ranking by giving the
  new cell a higher rank, `removeUse` keeps it as it is.
* `ListsCorrect`, `WalkCorrect`: a list that is ranked is not cyclic (the cell of
  lowest rank in a set has its next outside of it), and a walk from the head of a
  list meets all the uses of the value and nothing else: of the uses it missed,
  one of highest rank would be the head, or come after a use that was met.
  Induction is a fact about sets of numbers there (a set has a least member), which
  the provers can cite, as they cannot the theorems that speak of a predicate.
* `RefinesUseSets`: every step of the lists is a step of `UseSets` or none.

For every set of files (`Parser_proofs`, from `FilesAssumption`: a file is a
sequence of tokens):

* `LookAheadCorrect`: the waiting tokens are exactly those between the current
  one and the lexer. The invariant says this of a stream together with its type
  and the bound of two; it is shown of `Peek` and `Advance` once and carried
  through every function.
* `TypeCorrect`: the variables keep their types, and at most two tokens wait.
  Every action is one `Do`, so one lemma says what a function may push and make.

For every set of texts (`Lexer_proofs`, from `TextsAssumption`: a text is a
sequence of characters):

* `FlagsCorrect`: the stream has never failed without being at its end, and is at
  its end only when everything is read. The invariant says this of the cursor
  together with its type and its location. It is shown once of `Peek`, of `Advance`
  and of `PutBack`, and every cursor a turn of a loop makes comes from the last
  one by these.
* `LocationCorrect`: line and column are those of the characters taken, also
  after `--column`, which is right because what is put back has just been taken
  and is no newline. The column is left open once the stream has failed.
* `TypeCorrect`: tokens have the types the parser knows.

For every program (`Sema_proofs`, from `AstAssumption`: programs have the shape
of `IsProgram`, which includes that the nodes are numbered as they are met, and null
is not the garbage pointer; and `ScopesAssumption`: null is no symbol, no type and no
pointer to a symbol):

* `OverloadsAreDistinct`: after the collector, a look-up with a method's own
  parameter types finds that method. The invariant says that no bucket of the
  table holds equal parameter lists, that scopes keep what is declared in them,
  that every method that has a symbol is in the table under it unless an error
  was reported, and which pass may have reported by when: the collector goes on
  after an error, so the property rests on `Sema` not letting its errors by.

* `AnalysisIsTyped`: no annotation is of a wrong type, and no symbol or scope
  pointer that a pass has set, in a node, in the method table or in
  `current_function`, points to what is not declared. Types alone are not inductive,
  for a handler may follow the pointers of a node only because an earlier pass has
  been there. The invariant (`SettledInv`) has three more parts. Every pending call
  is one its node's handler makes, for the pass that runs (`Planned`). During the
  collector a block has its scope and a method its symbol, or a call is pending that
  will see to it (`Covered`); afterwards they all have (`Settled`). And a pointer
  that is set leads to the scope of the node itself (`Placed`).
* `CrashesHaveReasons`: the resolver never dies, since once the root is entered there
  is a current scope (`InsideScope`: only the root's scope has none around it); and
  wherever the checker uses the type of a child unseen, that type is known, or an
  error was reported, or the call that finds it is made before (`Promised`).
* `AcceptedTreesAreTyped`: in a program that is accepted, names outside the bodies of
  loops are bound, initialisers fit their variables, and expressions have the types they
  mean. The invariant (`RightInv`) does not speak of what they mean. Unless an error was
  reported, every node outside a loop lies ahead of exactly one pending call
  (`HandledOnce`) or has the type that the types of its children give it (`Right`). It
  stays so because an expression is looked at once, after its operands (`Answered`), and
  what a return writes on its value no other node reads. At the end no call is pending,
  and then, from the leaves up, what the nodes have is what they mean: `Meaning` exists
  (`MeaningExists`) since the type of a node depends on nodes of higher numbers only.

Also for every program (the second part of `Sema_proofs`, from the same assumptions):

* `CollectorInItsScope`: before each handler of the collector the current scope is
  the one around its node. That is a fact about one call; the invariant (`NearInv`)
  says it of all pending calls. Each call leaves the current scope where the next
  one expects it (`Linked`), and the parents of the scopes are those of their nodes
  in the tree (`FollowsTree`).
* `VariablesHideNothing`: a look-up sees only what is declared so far, so the
  property is about time, and time is the numbers of the nodes. The invariant
  (`OrderInv`) says that the pending calls come in that order, with all that a call
  reaches before what the next one does (`Ordered`), and that whatever has a scope
  or is declared was met before every pending call (`AllBehind`).
* `NamesBoundToNearest`: the resolver's calls are `Linked` as well, but by another
  rule, because after a method the current scope is that of the method and not the
  one around it. `Standing` says which scope that is: of the nodes with scopes of
  their own that were passed in a block, the last one's, if it is a method. So
  `BindInv` has the scope of the current call from the tree alone, and a look-up
  along its chain finds what `BoundToNearest` says, by `FollowsTree` and by the
  order in which the scopes were pushed.

For every set of files (`Tree_proofs` and `Driver_proofs`, with `DriverAssumption`:
null is no exit status, and `SourcesAssumption`: an identifier token of a file holds one
of the `Names`. `Names` stands for all identifiers, and nothing else is asked of a
file: it may be any sequence of tokens):

* `StatusMeansWhatItSays`: status 0 is only for a file that neither lexer, parser
  nor analysis has reported an error in, and with status 1 nothing was analysed.
  The invariant carries what has been reported past the point where `main` goes
  on after a failed analysis: that path has status none, for the generator dies
  on the null tree.
* `TreesAreWellFormed`: a file that is parsed without an error gives a tree of the shape
  the passes take for granted (`IsProgram`): kinds have the children they are read
  with, and nodes are numbered as they are met. The invariant (`TreeInv`) relates the C++
  stack to the trees that the functions on it have made and not yet put together. Each place
  where a function goes on says which trees it has in hand (`Awaits`, and `Holds` for
  one that waits for another's result) and which kinds the function above it may return
  (`Gives`); these fit from one frame to the next, down to `parse` itself (`Ready`). Per
  parser function one lemma shows that the step keeps this, per constructor one that
  the new node's tree has the right shape, which is arithmetic about where the trees
  of its children start. Errors are never taken back (`ErrorsStay`), so the invariant may
  give up once one is reported, and `main` analyses nothing then.
* `OwnVariableIsAccessed`: loads and stores go to the address of their own
  variable, also after the right side of an assignment has changed `locals`. The
  invariant is about the pending calls: between the look-up of the target and the
  store there are only calls inside expressions, so no method is generated, which
  would clear `locals`; the element the iterator points to is that of the target's
  symbol (`CallsInv`) and is not removed; and what a symbol is bound to is always an
  address made for that symbol. It needs trees that are well formed, and the previous
  theorem provides them. Where the use of an invalid iterator ends the process,
  nothing is stored.
* `StaleIteratorsAreExplained`: an iterator becomes invalid only by a declaration in
  the right side of its own assignment, and the generator crashes only where such an
  iterator is used, or of the null tree. The invariant (`IteratorsInv`) says that all calls which
  come before the store of an assignment are for nodes of its right side
  (`RightSidesFirst`), so a declaration met while the assignment waits stands there. It
  is kept because a handler passes on only calls for its own node and the ones below
  it (`HandlersDelegate`).
* `NothingIsLeftOut`: when the generator has not complained, each node outside the
  loops has exactly the instructions its kind stands for. The invariant (`Counting`)
  says of each node that either all its instructions are made, or exactly one
  pending call is going to make what is missing (`Accounted`): the call of one of the
  nodes above it that is still to visit it, or the later half of its own handler (`Due`).
  A handler therefore has to pass on what was due from it: `HandsOver` and `AllHanded`
  say that it gives each child to one of its new calls and to one only, `Owed` that what
  it does not make itself the rest of it will, and `MeetsGoesOn` that the sum stays right
  when the first call gives way to the ones it makes. The exceptions are few and have to
  be shown to be harmless: the target of an assignment, and what is below a loop. A
  method without a symbol would be skipped silently; that the analysis accepts none comes
  from the invariant of the analysis (`SettledInv`), which is carried up to here.

For every set of files (`Graph_proofs`, with `IRAssumption`: null is no value of
the generator), again by `TreesAreWellFormed`:

* `IrIsTyped`, `EdgesAreBranches`, `ControlLeavesBlocks`: the graph is typed, its
  edges are its branches, and in the end control leaves every block, by a ret or by
  a branch, and nothing comes after a branch in its block. None of them is inductive. The invariant (`ModuleInv`) divides the blocks of a function by the
  pending calls: a block is closed by its terminator, or it is the current one, in which there is
  no branch yet, or
  exactly one pending call waits for it, as a branch of an if that is still to be
  generated, as the block after one, or as the block that a nested method
  interrupts and returns to (`Waits`, `Flow`). The blocks waited for are all different and none
  is the current block (`Apart`), so a handler that makes one of them current
  finds it without successors, and what it leaves it has closed.
* `NullsHaveReasons`: a handler never takes the value of an expression that was
  not generated, unless the generator has reported one. The invariant is about
  the calls again: a handler that needs the value of a child is behind the call
  that produces it, or the value is there and not null (`NeedsMet`).

Only model-checked: liveness under fairness (and `ENABLED`), which the prover
does not handle; what the recursive definitions `Reading` or `Texts` compute for
every input, and with it the two refinements `ImplementsTokenSource` and
`ImplementsLanguage`, and `ErrorsExact` and `DerivationsParse`, which compare with
them; what dominates what in the generated
graph (`OperandsDominate`) and how it is destroyed (`TeardownAbortsExactly`); and that a file gives the tree that is written in
it (`TreeAsWritten`), for which one would have to do induction over sentences.

## Not modelled

The printers and the log (output: they read the tree and the functions, look
before they follow a pointer, and change no state), the assembly generator in
`src/gen.cc` (not compiled any more), the tests (not compiled). Of what is
modelled: source locations after the lexer, the values of literals after the
lexer, the caches of types, class members after parsing (no pass visits them),
the types the parser can never build (arrays: it gives them the type void), and
functions without callers. `Driver` reads tokens and not characters: `MCLexer`
shows that calls of the lexer return the tokens of the text one by one, which is
all the parser asks of it.

## Plan

Done: the def-use lists, the lexer and the look-ahead of the parser with their
proofs; the three passes with `Language`, what they decide; the whole compiler
from tokens to exit status; the proofs about types, scopes, names, overloads and
crashes in the analysis, and that what it accepts is typed; the trees of the parser,
the status, the addresses of variables and the iterators to them, the generated graph, and that it has all of the tree. Left, in this order:

1. `OperandsDominate`, from the order in which the blocks of a function are made.
2. `Driver` with `UseList` in place of its set of users: `TeardownAbortsExactly`
   over the pointers, through `UseSets`.

------------------------------- MODULE Driver -------------------------------
(***************************************************************************)
(* main (src/main.cc): the parser, Sema::analyze, IRGenerator::generateIR, *)
(* and at the end the destructors.  The lexer is the sequence of tokens it *)
(* returns, and whether it has reported an error on the way.  Printing the *)
(* tree and the functions changes nothing.                                 *)
(***************************************************************************)
EXTENDS Sema, IRGen, SequencesExt

CONSTANT Sources  \* the files, [tokens, malformed, tree]: whether the lexer reports
                  \* an error, and the tree that is written there, if it is known

ASSUME DriverAssumption == NULL \notin {0, 1}

(* Names are those that files use: an identifier token holds one of them.  *)
ASSUME SourcesAssumption ==
    \A file \in Sources : \A p \in DOMAIN file.tokens :
        file.tokens[p].type = "ID" => file.tokens[p].value \in Names

VARIABLES
    source,        \* the file
    tokens,        \* the parser's variables, as in Parser
    calls,
    out,
    syntaxErrors,  \* its errors
    parts,         \* the trees it has made that are not part of one yet
    destroyed,     \* the values whose destructors have run
    fromBack,      \* whether std::vector destroys its elements last one first
    status         \* the exit status, NULL while there is none

parserVars == <<tokens, calls, out, syntaxErrors, parts>>
teardownVars == <<destroyed, fromBack>>
driverVars == <<source, parserVars, semaVars, genVars, teardownVars, status>>

TypesOf(file) == [p \in DOMAIN file.tokens |-> file.tokens[p].type]

P == INSTANCE Parser
         WITH Files <- {TypesOf(file) : file \in Sources},
              input <- TypesOf(source),
              errors <- syntaxErrors

B == INSTANCE AstBuilder

-----------------------------------------------------------------------------
(* exit(1) before anything is read: no file is named, or it cannot be      *)
(* opened.                                                                 *)
Refuse ==
    /\ pass = "parse"
    /\ tokens.current = 0
    /\ pass' = "exited"
    /\ status' = 1
    /\ UNCHANGED <<source, parserVars, agenda, errors, genVars, teardownVars>>
    /\ AnalysisUnchanged

Parse ==
    /\ pass = "parse"
    /\ UNCHANGED source
    /\ P!Next
    /\ parts' = B!Grown(source.tokens, parts, SubSeq(out', Len(out) + 1, Len(out')))
    /\ UNCHANGED <<semaVars, genVars, teardownVars, status>>

(* The parser has returned, and the lexer has read the whole file: errors  *)
(* of either end the compiler.                                             *)
AfterParser_ParserOnly ==
    /\ pass = "parse"
    /\ P!Finished
    /\ IF syntaxErrors # {}
       THEN /\ pass' = "exited"
            /\ status' = 1
            /\ UNCHANGED <<agenda, errors>>
            /\ AnalysisUnchanged
       ELSE /\ Analyze(parts[1])
            /\ UNCHANGED status
    /\ UNCHANGED <<source, parserVars, genVars, teardownVars>>

AfterParser ==
    /\ pass = "parse"
    /\ P!Finished
    /\ IF syntaxErrors # {} \/ source.malformed
       THEN /\ pass' = "exited"
            /\ status' = 1
            /\ UNCHANGED <<agenda, errors>>
            /\ AnalysisUnchanged
       ELSE /\ Analyze(parts[1])
            /\ UNCHANGED status
    /\ UNCHANGED <<source, parserVars, genVars, teardownVars>>

(* What analysis returns, null or not, is generated; node 0 is the null    *)
(* tree.                                                                   *)
StartGenerator ==
    /\ pass \in {"accepted", "rejected"}
    /\ pass' = "generate"
    /\ agenda' = <<Task("visit", IF pass = "accepted" THEN 1 ELSE 0, 0)>>
    /\ valueOf' = [n \in Nodes |-> NULL]
    /\ UNCHANGED <<source, parserVars, status, functions, blocks, insts, block, locals,
                   stale, errors, teardownVars>>
    /\ AnalysisUnchanged

(* The module goes out of scope.  The standard leaves open in which order  *)
(* a vector destroys its elements, and the libraries differ.               *)
StartTeardown ==
    /\ PassOver("generate")
    /\ pass' = "destroy"
    /\ fromBack' \in BOOLEAN
    /\ UNCHANGED <<source, parserVars, status, agenda, genVars, errors, destroyed>>
    /\ AnalysisUnchanged

-----------------------------------------------------------------------------
Destruction(s) == IF fromBack THEN Reverse(s) ELSE s

(* The blocks that are left, in the order in which they go.                *)
Doomed ==
    LET ordered == FlattenSeq([f \in DOMAIN functions |->
                                  Destruction(Destruction(functions)[f].blocks)])
    IN  SelectSeq(ordered, LAMBDA b : Label(b) \notin destroyed)

LiveInsts(b) == SelectSeq(blocks[b].insts, LAMBDA i : Inst(i) \notin destroyed)

(* The use list of a value, less the uses by what goes with it: ~User      *)
(* deletes its operands before ~Value looks at the list.                   *)
UsersOf(v) == {i \in DOMAIN insts : /\ Inst(i) \notin destroyed
                                    /\ \E k \in DOMAIN insts[i].operands :
                                           insts[i].operands[k] = v}

(* ~Value: it prints the users that are left, and aborts.                  *)
DestroyValue(v) ==
    IF UsersOf(v) \ {i \in DOMAIN insts : Inst(i) = v} # {}
    THEN pass' = "aborted" /\ UNCHANGED destroyed
    ELSE destroyed' = destroyed \union {v} /\ UNCHANGED pass

(* ~BasicBlock: its instructions, the last one first, and then the block   *)
(* as a value.                                                             *)
DestroyInstruction_First ==
    /\ LiveInsts(Head(Doomed)) # <<>>
    /\ DestroyValue(Inst(Head(LiveInsts(Head(Doomed)))))

DestroyInstruction_Again ==
    /\ LiveInsts(Head(Doomed)) # <<>>
    /\ UNCHANGED <<pass, destroyed>>

DestroyInstruction ==
    /\ LiveInsts(Head(Doomed)) # <<>>
    /\ DestroyValue(Inst(Last(LiveInsts(Head(Doomed)))))

DestroyBlock ==
    /\ LiveInsts(Head(Doomed)) = <<>>
    /\ DestroyValue(Label(Head(Doomed)))

(* The constants are the context's, and go with it when main has returned. *)
DestroyConstants == Constant \notin destroyed /\ DestroyValue(Constant)

Exit ==
    /\ Constant \in destroyed
    /\ pass' = "exited"
    /\ UNCHANGED destroyed

Teardown ==
    /\ pass = "destroy"
    /\ \/ Doomed # <<>> /\ DestroyInstruction /\ UNCHANGED status
       \/ Doomed # <<>> /\ DestroyBlock /\ UNCHANGED status
       \/ Doomed = <<>> /\ DestroyConstants /\ UNCHANGED status
       \/ Doomed = <<>> /\ Exit /\ status' = 0
    /\ UNCHANGED <<source, parserVars, agenda, genVars, errors, fromBack>>
    /\ AnalysisUnchanged

-----------------------------------------------------------------------------
Init ==
    /\ source \in Sources
    /\ P!Start
    /\ parts = <<>>
    /\ InitPasses
    /\ InitIR
    /\ destroyed = {}
    /\ fromBack = FALSE
    /\ status = NULL

Main ==
    \/ Refuse
    \/ Parse
    \/ AfterParser
    \/ Analysis /\ UNCHANGED <<source, parserVars, genVars, teardownVars, status>>
    \/ StartGenerator
    \/ Generate /\ UNCHANGED <<source, parserVars, teardownVars, status>>
    \/ StartTeardown
    \/ Teardown

MainSpec == Init /\ [][Main]_driverVars

(* A sequential program runs on.                                           *)
FairMainSpec == MainSpec /\ WF_driverVars(Main)

-----------------------------------------------------------------------------
(* A file in which a tree is written parses to that tree.                  *)
TreeAsWritten ==
    /\ source.tree # <<>> /\ pass = "parse" /\ P!Finished => syntaxErrors = {}
    /\ source.tree # <<>> /\ prog # <<>> => prog = source.tree

(* Whatever file parses without errors gives a tree of the shape that the  *)
(* passes take for granted: they follow children without a look.           *)
TreesWellFormed ==
    pass = "collect" /\ agenda = <<Task("visit", 1, 0)>> => IsProgram(prog)

(* The exit status tells a file that was compiled from one that was not:   *)
(* with 1 nothing has been analysed, and with 0 neither the lexer, the     *)
(* parser nor the analysis has reported anything.                          *)
SuccessIsEarned ==
    /\ status = 1 => prog = <<>>
    /\ status = 0 =>
           /\ syntaxErrors = {} /\ ~source.malformed
           /\ \A e \in errors : e[1] = "IRGenerator"

-----------------------------------------------------------------------------
Value == ({"inst"} \X (1..Len(insts))) \union ({"block"} \X (1..Len(blocks)))
             \union {Constant, NULL}

(* The generator's state: blocks and functions hold what exists, and a     *)
(* pointer to an instruction or a block points to one.                     *)
IrTypeOK ==
    /\ \A f \in DOMAIN functions : functions[f].blocks \in Seq(1..Len(blocks))
    /\ \A b \in DOMAIN blocks : /\ blocks[b].insts \in Seq(1..Len(insts))
                                /\ blocks[b].preds \in Seq(1..Len(blocks))
                                /\ blocks[b].succs \in Seq(1..Len(blocks))
    /\ \A i \in DOMAIN insts : insts[i].operands \in Seq(Value)
    /\ block \in 0..Len(blocks)
    /\ \A s \in DOMAIN locals : locals[s] \in Value
    /\ \A n \in DOMAIN valueOf : valueOf[n] \in Value
    /\ pass = "generate" /\ agenda # <<>> =>
           (block = 0) = (Head(agenda) \in {Task("visit", 0, 0), Task("visit", 1, 0)})

Generated == pass = "destroy" /\ destroyed = {}

(* Every block of a generated function ends by leaving it, so that control *)
(* never runs off the end of a block, whatever ifs and methods are nested  *)
(* in each other; and nothing goes into a block that has jumped.  A ret    *)
(* may be followed: a branch that returns still gets its jump.             *)
BlocksTerminated ==
    Generated => \A b \in DOMAIN blocks :
        /\ blocks[b].insts # <<>>
        /\ insts[Last(blocks[b].insts)].op \in {"Ret", "Br", "CondBr"}
        /\ \A k \in 1..(Len(blocks[b].insts) - 1) :
               insts[blocks[b].insts[k]].op \notin {"Br", "CondBr"}

(* The edges of the graph are those of the branches, both ways round.      *)
Targets(b) ==
    {t \in DOMAIN blocks : \E i \in Range(blocks[b].insts) :
         Label(t) \in Range(insts[i].operands)}

EdgesMatchBranches ==
    \A b \in DOMAIN blocks :
        /\ Range(blocks[b].succs) = Targets(b)
        /\ Len(blocks[b].succs) = Cardinality(Targets(b))
        /\ \A t \in DOMAIN blocks :
               (b \in Range(blocks[t].preds)) = (t \in Range(blocks[b].succs))

-----------------------------------------------------------------------------
(* The blocks control can reach from the given one without passing avoid.  *)
Reached(from, avoid) ==
    LET after[k \in 0..Len(blocks)] ==
            IF k = 0 THEN {from} \ {avoid}
            ELSE after[k - 1] \union
                 (UNION {Range(blocks[b].succs) : b \in after[k - 1]} \ {avoid})
    IN  after[Len(blocks)]

BlockOf(i) == CHOOSE b \in DOMAIN blocks : i \in Range(blocks[b].insts)

FunctionOf(b) == CHOOSE f \in DOMAIN functions : Has(f, b)

Entry(f) == functions[f].blocks[1]

(* The block of i is on every path from the entry of its function to the   *)
(* block of j; in one block, i comes first.                                *)
Dominates(i, j) ==
    LET f == FunctionOf(BlockOf(i))
    IN  /\ Has(f, BlockOf(j))
        /\ IF BlockOf(i) = BlockOf(j) THEN i < j
           ELSE BlockOf(j) \notin Reached(Entry(f), BlockOf(i))

(* A declaration in a branch of an if that is no block: its scope is the   *)
(* one around the if, but its alloca is in the branch.                     *)
DeclaredInBareBranch(i) ==
    LET n == insts[i].node
    IN  /\ Kind(n) = "VarDecl"
        /\ \E m \in Path(prog, n) :
               /\ Kind(m) = "If" /\ Kid(m, 1) \notin Path(prog, n)
               /\ \A k \in Path(prog, n) \ Path(prog, m) : Kind(k) \notin {"Block", "Method"}

(* What an instruction uses is there on every path that leads to it: no    *)
(* operand from another function, from a branch not taken, or from later.  *)
OperandsDominate ==
    Generated =>
        \A j \in DOMAIN insts : \A i \in DOMAIN insts :
            Inst(i) \in Range(insts[j].operands) =>
                Dominates(i, j) \/ DeclaredInBareBranch(i)

(* A load or a store goes to the address of the variable that its name is  *)
(* bound to, also if the value that is stored declares another one.        *)
Accessed(i) ==
    CASE Kind(insts[i].node) = "Ident" -> {insts[i].node}
      [] Kind(insts[i].node) = "Assign" -> {Kid(insts[i].node, 1)}
      [] OTHER -> {}

AccessesOwnVariable ==
    \A i \in DOMAIN insts : \A n \in Accessed(i) :
        \E j \in 1..(i - 1) :
            /\ insts[i].operands[1] = Inst(j)
            /\ insts[j].op = "Alloca"
            /\ symbolOf[insts[j].node] = symbolOf[n]

(* The iterator an assignment holds becomes invalid only by a declaration  *)
(* in its right side, and the generator dies of nothing but the use of     *)
(* such an iterator, and the null tree.                                    *)
StaleIteratorsExplained ==
    /\ \A n \in stale :
           \E m \in Nodes : Kind(m) = "VarDecl" /\ Kid(n, 2) \in Path(prog, m)
    /\ pass = "crashed" /\ functions # <<>> =>
           stale # {} \/ \E f \in DOMAIN functions : functions[f].decl = 0

(* An operand is null only if something has been reported.                 *)
NullsAreReported ==
    (\E i \in DOMAIN insts : NULL \in Range(insts[i].operands))
        => ReportedBy("IRGenerator")

(* A program the generator does not complain of is generated as a whole:   *)
(* outside loops, for every node as many instructions as it stands for.    *)
(* The target of an assignment is not loaded.                              *)
Stands(n) ==
    CASE Kind(n) = "VarDecl" -> 1 + Len(Kids(n))
      [] Kind(n) \in {"Assign", "Binary", "Unary", "Return"} -> 1
      [] Kind(n) = "If" -> 3
      [] Kind(n) = "Ident" ->
             IF \E m \in Nodes : Kind(m) = "Assign" /\ Kid(m, 1) = n THEN 0 ELSE 1
      [] OTHER -> 0

InLoop(n) == \E m \in Path(prog, n) : Kind(m) = "While"

AllGenerated ==
    Generated /\ ~ReportedBy("IRGenerator") =>
        \A n \in Nodes : Kind(n) \notin {"Program", "Method"} =>
            Cardinality({i \in DOMAIN insts : insts[i].node = n})
                = IF InLoop(n) THEN 0 ELSE Stands(n)

-----------------------------------------------------------------------------
(* The block of the instructions that use v comes after, or before, the    *)
(* block v is in or is.                                                    *)
Home(v) == IF v[1] = "block" THEN v[2] ELSE BlockOf(v[2])

Place(b) == CHOOSE k \in DOMAIN functions[FunctionOf(b)].blocks :
                functions[FunctionOf(b)].blocks[k] = b

Outlived ==
    \E i \in DOMAIN insts : \E v \in Range(insts[i].operands) \ {Constant, NULL} :
        IF fromBack THEN Place(BlockOf(i)) < Place(Home(v))
                    ELSE Place(BlockOf(i)) > Place(Home(v))

(* Destruction aborts for exactly one reason, a value that is used from a  *)
(* block that goes later; a function of one block never does.              *)
TeardownAbortsExactly ==
    /\ pass = "aborted" => Outlived
    /\ pass = "exited" => ~Outlived

(* "destroying Value that still has users": that never happens.            *)
TeardownIsClean == pass # "aborted"

(* "Semantic analysis failed; skipping code generation"                    *)
FailedIsNotGenerated ==
    pass = "generate" =>
        \A by \in {"SymbolCollector", "NameResolver", "TypeChecker"} : ~ReportedBy(by)

(* The process ends, but for a class or a list of parameters that is open  *)
(* at the end of the file.                                                 *)
ProcessEnds ==
    \/ <>(pass \in {"exited", "crashed", "aborted"})
    \/ <>[]P!InOpenList
=============================================================================

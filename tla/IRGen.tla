------------------------------- MODULE IRGen -------------------------------
(***************************************************************************)
(* IRGenerator (src/ir/gen.cc): an analysed tree to functions of basic     *)
(* blocks of instructions.  Instructions and blocks are numbered in the    *)
(* order they are made.  A value is an instruction, a block or a constant; *)
(* names, types and the texts of literals are left out, so the constants   *)
(* the context pools are one.                                              *)
(***************************************************************************)
EXTENDS Passes

VARIABLES
    functions,  \* Module::functions: the declaring node and the blocks
    blocks,     \* BasicBlock: instructions, predecessors, successors
    insts,      \* Instruction: opcode, operands, and the node it is for
    block,      \* current_block, whose function is current_function; 0: null
    locals,     \* locals: the address of each variable, by symbol
    stale,      \* the assignments under way whose iterator into locals has
                \* become invalid
    valueOf     \* what the handler of an expression returned

genVars == <<functions, blocks, insts, block, locals, stale, valueOf>>

Inst(i)  == <<"inst", i>>
Label(b) == <<"block", b>>
Constant == <<"const", 0>>

ASSUME IRAssumption == NULL \notin {"inst", "block", "const"} \X Nat

Generating(what, n, i) == Doing("generate", what, n, i)

EmptyBlock == [insts |-> <<>>, preds |-> <<>>, succs |-> <<>>]

(* Module::create_function, and createBlock("entry").                      *)
CreateFunction(n) ==
    /\ functions' = Append(functions, [decl |-> n, blocks |-> <<Len(blocks) + 1>>])
    /\ blocks' = Append(blocks, EmptyBlock)
    /\ block' = Len(blocks) + 1

Has(f, b) == \E i \in DOMAIN functions[f].blocks : functions[f].blocks[i] = b

(* Instructions of the node n at the end of a block, and the edges of a    *)
(* branch.                                                                 *)
Made(n, op, operands) ==
    insts' = Append(insts, [op |-> op, operands |-> operands, node |-> n])

WithInst(bs, b) == [bs EXCEPT ![b].insts = Append(@, Len(insts) + 1)]

WithEdge(bs, from, to) ==
    [bs EXCEPT ![from].succs = Append(@, to), ![to].preds = Append(@, from)]

Emit(n, op, operands) ==
    /\ Made(n, op, operands)
    /\ blocks' = WithInst(blocks, block)

EmitNothing == UNCHANGED <<insts, blocks>>

Returns(n, v) == valueOf' = [valueOf EXCEPT ![n] = v]

Fails_Silently(n, message) ==
    /\ Returns(n, NULL)
    /\ Then(<<>>)
    /\ EmitNothing
    /\ UNCHANGED errors

(* An error: the handler reports it, and returns null.                     *)
Fails(n, message) ==
    /\ Report("IRGenerator", message, n)
    /\ Returns(n, NULL)
    /\ Then(<<>>)
    /\ EmitNothing

(* ret, unless the block ends with one already.                            *)
EndsWithRet(b) ==
    /\ blocks[b].insts # <<>>
    /\ insts[blocks[b].insts[Len(blocks[b].insts)]].op = "Ret"

CloseWithRet_Never(n, operands) == EmitNothing

CloseWithRet(n, operands) ==
    IF EndsWithRet(block) THEN EmitNothing ELSE Emit(n, "Ret", operands)

-----------------------------------------------------------------------------
(* generateProgram: the statements go into a function jynx_main.           *)
GenProgram(n) ==
    /\ Generating("visit", n, 0)
    /\ Kind(n) = "Program"
    /\ CreateFunction(n)
    /\ Then(Visits(Kids(n)) \o <<Task("leave", n, 0)>>)
    /\ UNCHANGED <<pass, errors, insts, locals, stale, valueOf>>

GenProgramEnd(n) ==
    /\ Generating("leave", n, 0)
    /\ Kind(n) = "Program"
    /\ CloseWithRet(n, <<Constant>>)
    /\ block' = 0
    /\ Then(<<>>)
    /\ UNCHANGED <<pass, errors, functions, locals, stale, valueOf>>

(* The program is a null reference: the driver generates whatever analysis *)
(* returns.                                                                *)
GenNull ==
    /\ Generating("visit", 0, 0)
    /\ CreateFunction(0)
    /\ Crash
    /\ UNCHANGED <<errors, insts, locals, stale, valueOf>>

(* generateMethodDecl: a function of its own, with no locals of another.   *)
GenMethodDecl_KeepsLocals(n) ==
    /\ Generating("visit", n, 0)
    /\ Kind(n) = "Method"
    /\ CreateFunction(n)
    /\ Then(Visits(Kids(n)) \o <<Task("leave", n, block)>>)
    /\ UNCHANGED <<pass, errors, insts, locals, stale, valueOf>>

GenMethodDecl(n) ==
    /\ Generating("visit", n, 0)
    /\ Kind(n) = "Method"
    /\ IF symbolOf[n] = NULL
       THEN Then(<<>>) /\ UNCHANGED <<functions, blocks, block, locals>>
       ELSE /\ CreateFunction(n)
            /\ locals' = <<>>
            /\ Then(Visits(Kids(n)) \o <<Task("leave", n, block)>>)
    /\ UNCHANGED <<pass, errors, insts, stale, valueOf>>

GenMethodEnd_ForgetsBlock(n, previous) ==
    /\ Generating("leave", n, previous)
    /\ Kind(n) = "Method"
    /\ CloseWithRet(n, <<>>)
    /\ block' = 0
    /\ Then(<<>>)
    /\ UNCHANGED <<pass, errors, functions, locals, stale, valueOf>>

(* Back to the function and the block before; the locals are not restored. *)
GenMethodEnd(n, previous) ==
    /\ Generating("leave", n, previous)
    /\ Kind(n) = "Method"
    /\ CloseWithRet(n, <<>>)
    /\ block' = previous
    /\ Then(<<>>)
    /\ UNCHANGED <<pass, errors, functions, locals, stale, valueOf>>

(* generateBlock, generateExprStmt, and generateWhileStmt, which is left   *)
(* out of the code: nothing is generated for a loop.                       *)
GenNested(n) ==
    /\ Generating("visit", n, 0)
    /\ Kind(n) \in {"Block", "ExprStmt", "While"}
    /\ Then(IF Kind(n) = "While" THEN <<>> ELSE Visits(Kids(n)))
    /\ UNCHANGED <<pass, errors, functions, blocks, insts, block, locals, stale, valueOf>>

GenUnknown(n) ==
    /\ Generating("visit", n, 0)
    /\ Kind(n) \in {"Class", "Call", "Arg"}
    /\ Fails(n, "Unknown statement or expression type")
    /\ UNCHANGED <<pass, functions, block, locals, stale>>

(* generateReturnStmt: what follows it goes into the same block.           *)
GenReturn(n) ==
    /\ Kind(n) = "Return"
    /\ \/ /\ Generating("visit", n, 0)
          /\ Then(<<Task("visit", Kid(n, 1), 0), Task("ret", n, 0)>>)
          /\ EmitNothing
       \/ /\ Generating("ret", n, 0)
          /\ Emit(n, "Ret", IF valueOf[Kid(n, 1)] = NULL THEN <<>>
                            ELSE <<valueOf[Kid(n, 1)]>>)
          /\ Then(<<>>)
    /\ UNCHANGED <<pass, errors, functions, block, locals, stale, valueOf>>

-----------------------------------------------------------------------------
(* generateIfStmt.  The blocks then, if.else and if.end are b, b + 1 and   *)
(* b + 2; a branch may itself have moved on to further blocks by the time  *)
(* it jumps to the end.                                                    *)
GenIf(n) ==
    /\ Generating("visit", n, 0)
    /\ Kind(n) = "If"
    /\ LET b == Len(blocks) + 1
       IN  /\ blocks' = blocks \o <<EmptyBlock, EmptyBlock, EmptyBlock>>
           /\ functions' = [f \in DOMAIN functions |->
                  IF Has(f, block)
                  THEN [functions[f] EXCEPT !.blocks = @ \o <<b, b + 1, b + 2>>]
                  ELSE functions[f]]
           /\ Then(<<Task("visit", Kid(n, 1), 0), Task("branch", n, b)>>)
    /\ UNCHANGED <<pass, errors, insts, block, locals, stale, valueOf>>

GenBranch(n, b) ==
    /\ Generating("branch", n, b)
    /\ Made(n, "CondBr", <<valueOf[Kid(n, 1)], Label(b), Label(b + 1)>>)
    /\ blocks' = WithEdge(WithEdge(WithInst(blocks, block), block, b), block, b + 1)
    /\ block' = b
    /\ Then(<<Task("visit", Kid(n, 2), 0), Task("else", n, b)>>)
    /\ UNCHANGED <<pass, errors, functions, locals, stale, valueOf>>

JumpTo_FromBranchStart(n, b, end) ==
    /\ Made(n, "Br", <<Label(end)>>)
    /\ blocks' = WithEdge(WithInst(blocks, block), b, end)

JumpTo(n, b, end) ==
    /\ Made(n, "Br", <<Label(end)>>)
    /\ blocks' = WithEdge(WithInst(blocks, block), block, end)

GenElse_SkipsBranch(n, b) ==
    /\ Generating("else", n, b)
    /\ JumpTo(n, b, b + 2)
    /\ block' = b + 1
    /\ Then(<<Task("end", n, b)>>)
    /\ UNCHANGED <<pass, errors, functions, locals, stale, valueOf>>

GenElse(n, b) ==
    /\ Generating("else", n, b)
    /\ JumpTo(n, b, b + 2)
    /\ block' = b + 1
    /\ Then(Visits(SubSeq(Kids(n), 3, Len(Kids(n)))) \o <<Task("end", n, b)>>)
    /\ UNCHANGED <<pass, errors, functions, locals, stale, valueOf>>

GenIfEnd(n, b) ==
    /\ Generating("end", n, b)
    /\ JumpTo(n, b + 1, b + 2)
    /\ block' = b + 2
    /\ Then(<<>>)
    /\ UNCHANGED <<pass, errors, functions, locals, stale, valueOf>>

-----------------------------------------------------------------------------
Bind(symbol, address) ==
    [s \in DOMAIN locals \union {symbol} |-> IF s = symbol THEN address ELSE locals[s]]

(* A new symbol may rehash the map.  That makes the iterators into it      *)
(* invalid which the assignments hold that wait for their right sides.  It *)
(* leaves the elements where they are: references to them stay valid.      *)
Holders ==
    {n \in Nodes : /\ Kind(n) = "Assign"
                   /\ \E k \in DOMAIN agenda : agenda[k][1] = "store" /\ agenda[k][2] = n}

MayRehash(symbol) ==
    \/ UNCHANGED stale
    \/ symbol \notin DOMAIN locals /\ stale' = stale \union Holders

GenVarDecl(n) ==
    /\ Generating("visit", n, 0)
    /\ Kind(n) = "VarDecl"
    /\ Emit(n, "Alloca", <<>>)
    /\ locals' = Bind(symbolOf[n], Inst(Len(insts) + 1))
    /\ MayRehash(symbolOf[n])
    /\ Returns(n, Inst(Len(insts) + 1))
    /\ Then(Visits(Kids(n)) \o (IF Kids(n) = <<>> THEN <<>> ELSE <<Task("store", n, 0)>>))
    /\ UNCHANGED <<pass, errors, functions, block>>

GenIdentifier(n) ==
    /\ Generating("visit", n, 0)
    /\ Kind(n) = "Ident"
    /\ IF symbolOf[n] \in DOMAIN locals
       THEN /\ Emit(n, "Load", <<locals[symbolOf[n]]>>)
            /\ Returns(n, Inst(Len(insts) + 1))
            /\ Then(<<>>)
            /\ UNCHANGED errors
       ELSE Fails(n, "Identifier found for non-existent variable")
    /\ UNCHANGED <<pass, functions, block, locals, stale>>

(* generateAssignmentExpr: the target is a variable, never loaded, and is  *)
(* found before the right side is generated.  The iterator, a local of the *)
(* handler, is the symbol whose element it points to.                      *)
IsLocal(n) == Kind(n) = "Ident" /\ symbolOf[n] \in DOMAIN locals

GenAssignment_TakesEnd(n) ==
    /\ Generating("visit", n, 0)
    /\ Kind(n) = "Assign"
    /\ IF IsLocal(Kid(n, 1))
       THEN /\ Then(<<Task("visit", Kid(n, 2), 0), Task("store", n, symbolOf[Kid(n, 1)])>>)
            /\ UNCHANGED pass
       ELSE Crash
    /\ EmitNothing
    /\ UNCHANGED <<errors, functions, block, locals, stale, valueOf>>

GenAssignment(n) ==
    /\ Generating("visit", n, 0)
    /\ Kind(n) = "Assign"
    /\ IF IsLocal(Kid(n, 1))
       THEN /\ Then(<<Task("visit", Kid(n, 2), 0), Task("store", n, symbolOf[Kid(n, 1)])>>)
            /\ EmitNothing
            /\ UNCHANGED <<errors, valueOf>>
       ELSE Fails(n, "Tried to assign to no variable")
    /\ UNCHANGED <<pass, functions, block, locals, stale>>

(* The store of a declaration goes to its own address.                     *)
GenInitializer(n) ==
    /\ Kind(n) = "VarDecl"
    /\ Generating("store", n, 0)
    /\ Emit(n, "Store", <<valueOf[n], valueOf[Kid(n, 1)]>>)
    /\ Then(<<>>)
    /\ UNCHANGED <<pass, errors, functions, block, locals, stale, valueOf>>

(* That of an assignment goes to the address in the element its iterator   *)
(* points to, valid or not, and the iterator goes out of scope.            *)
GenStore_ElementsMove(n, symbol) ==
    /\ Generating("store", n, symbol)
    /\ Kind(n) = "Assign"
    /\ LET last == CHOOSE i \in DOMAIN insts : /\ insts[i].op = "Alloca"
                                               /\ \A j \in DOMAIN insts :
                                                      insts[j].op = "Alloca" => j <= i
       IN  Emit(n, "Store", <<IF n \in stale THEN Inst(last) ELSE locals[symbol],
                              valueOf[Kid(n, 2)]>>)
    /\ Returns(n, valueOf[Kid(n, 2)])
    /\ stale' = stale \ {n}
    /\ Then(<<>>)
    /\ UNCHANGED <<pass, errors, functions, block, locals>>

GenStore(n, symbol) ==
    /\ Generating("store", n, symbol)
    /\ Kind(n) = "Assign"
    /\ Emit(n, "Store", <<locals[symbol], valueOf[Kid(n, 2)]>>)
    /\ Returns(n, valueOf[Kid(n, 2)])
    /\ stale' = stale \ {n}
    /\ Then(<<>>)
    /\ UNCHANGED <<pass, errors, functions, block, locals>>

(* The use of an invalid iterator is undefined.  The elements of the       *)
(* libraries' maps are nodes of lists, and it leads to the same one; a     *)
(* library that checks its iterators ends the process.                     *)
GenStaleIterator(n, symbol) ==
    /\ Generating("store", n, symbol)
    /\ Kind(n) = "Assign"
    /\ n \in stale
    /\ Crash
    /\ UNCHANGED <<errors, functions, blocks, insts, block, locals, stale, valueOf>>

GenLiteral(n) ==
    /\ Generating("visit", n, 0)
    /\ Kind(n) = "Literal"
    /\ Returns(n, Constant)
    /\ Then(<<>>)
    /\ EmitNothing
    /\ UNCHANGED <<pass, errors, functions, block, locals, stale>>

(* generateBinaryExpr and generateUnaryExpr look at the operator after     *)
(* they have generated the operands.                                       *)
GenOperands(n) ==
    /\ Generating("visit", n, 0)
    /\ Kind(n) \in {"Binary", "Unary"}
    /\ Then(Visits(Kids(n)) \o <<Task("op", n, 0)>>)
    /\ UNCHANGED <<pass, errors, functions, blocks, insts, block, locals, stale, valueOf>>

GenOperator(n) ==
    /\ Generating("op", n, 0)
    /\ LET op == prog[n].op
       IN  IF op = "-" \/ (op = "+" /\ Kind(n) = "Binary")
           THEN /\ Emit(n, IF op = "-" THEN "Sub" ELSE "Add",
                        IF Kind(n) = "Unary" THEN <<Constant, valueOf[Kid(n, 1)]>>
                        ELSE <<valueOf[Kid(n, 1)], valueOf[Kid(n, 2)]>>)
                /\ Returns(n, Inst(Len(insts) + 1))
                /\ Then(<<>>)
                /\ UNCHANGED errors
           ELSE Fails(n, "Unsupported operator")
    /\ UNCHANGED <<pass, functions, block, locals, stale>>

-----------------------------------------------------------------------------
InitIR ==
    /\ functions = <<>>
    /\ blocks = <<>>
    /\ insts = <<>>
    /\ block = 0
    /\ locals = <<>>
    /\ stale = {}
    /\ valueOf = <<>>

(* What no handler of the generator touches.                               *)
AnalysisUnchanged ==
    UNCHANGED <<prog, ctx, methods, symbolOf, scopeOf, typeOf, result, currentFunction>>

Generate ==
    /\ \/ GenNull
       \/ \E n \in Pending \ {0} :
             \/ GenProgram(n)
             \/ GenProgramEnd(n)
             \/ GenMethodDecl(n)
             \/ GenMethodEnd(n, Head(agenda)[3])
             \/ GenNested(n)
             \/ GenUnknown(n)
             \/ GenReturn(n)
             \/ GenIf(n)
             \/ GenBranch(n, Head(agenda)[3])
             \/ GenElse(n, Head(agenda)[3])
             \/ GenIfEnd(n, Head(agenda)[3])
             \/ GenVarDecl(n)
             \/ GenIdentifier(n)
             \/ GenAssignment(n)
             \/ GenInitializer(n)
             \/ GenStore(n, Head(agenda)[3])
             \/ GenStaleIterator(n, Head(agenda)[3])
             \/ GenLiteral(n)
             \/ GenOperands(n)
             \/ GenOperator(n)
    /\ AnalysisUnchanged
=============================================================================

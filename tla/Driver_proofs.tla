--------------------------- MODULE Driver_proofs ---------------------------
(***************************************************************************)
(* For every set of files, broken ones included: the exit status of the    *)
(* compiler says what it found; whatever is parsed without an error gives  *)
(* a well-formed tree; whatever an assigned expression declares or assigns *)
(* itself, a load or a store goes to the variable it names; iterators into *)
(* locals become invalid only by what the assigned expression declares;    *)
(* and a program that is generated without a complaint is generated as a   *)
(* whole.                                                                  *)
(***************************************************************************)
EXTENDS Tree_proofs, Sema_proofs, FiniteSetTheorems

(* What each stage can count on from those before it.                      *)
StatusInv ==
    /\ pass = "parse" => prog = <<>>
    /\ pass # "exited" => status = NULL
    /\ pass \notin {"parse", "exited"} => syntaxErrors = {} /\ ~source.malformed
    /\ pass = "generate" => OnlyFrom("IRGenerator") \/ agenda = <<Task("visit", 0, 0)>>
    /\ pass = "destroy" => OnlyFrom("IRGenerator")
    /\ status = 1 => prog = <<>>
    /\ status = 0 => /\ syntaxErrors = {} /\ ~source.malformed
                     /\ OnlyFrom("IRGenerator")
    /\ ErrorsByPass

Analysing == {"collect", "resolve", "check"}

LEMMA AnalysisPasses ==
    ASSUME Analysis
    PROVE  pass \in Analysing /\ pass' \in Analysing \union Ends
<1>1. CASE Collect
  BY <1>1, CollectReports DEF Analysing
<1>2. CASE Resolve
  BY <1>2, ResolveReports DEF Analysing, Ends
<1>3. CASE Check
  BY <1>3, CheckReports DEF Analysing, Ends
<1>4. CASE AfterCollector \/ AfterResolver \/ AfterChecker
  BY <1>4 DEF AfterCollector, AfterResolver, AfterChecker, PassOver, Finish, Begin,
              Analysing, Ends
<1> QED
  BY <1>1, <1>2, <1>3, <1>4 DEF Analysis

(* The generator dies of the null tree and of an iterator that a library   *)
(* has found to be invalid.                                                *)
GeneratorDies == GenNull \/ \E n \in Pending \ {0} : GenStaleIterator(n, Head(agenda)[3])

LEMMA DeathOf ==
    ASSUME GeneratorDies
    PROVE  /\ pass = "generate" /\ pass' = "crashed"
           /\ UNCHANGED <<errors, insts, locals, valueOf>>
BY DEF GeneratorDies, GenNull, GenStaleIterator, Generating, Doing, Crash

(* The generator reports under its own name, unless it dies.               *)
LEMMA GenerateReports ==
    ASSUME Generate
    PROVE  /\ pass = "generate"
           /\ \/ pass' = "crashed" /\ errors' = errors
              \/ /\ pass' = "generate"
                 /\ Reports("IRGenerator")
                 /\ agenda # <<Task("visit", 0, 0)>>
<1>1. CASE GeneratorDies
  BY <1>1, DeathOf
<1>2. CASE ~GeneratorDies
  <2> PICK n \in Pending \ {0} :
         \/ GenProgram(n)
         \/ GenProgramEnd(n)
         \/ GenMethodDecl(n)
         \/ GenMethodEnd(n, Head(agenda)[3])
         \/ GenNested(n)
         \/ GenUnknown(n)
         \/ GenReturn(n)
         \/ GenIf(n)
         \/ GenBranch(n, Head(agenda)[3])
         \/ GenElse(n, Head(agenda)[3])
         \/ GenIfEnd(n, Head(agenda)[3])
         \/ GenVarDecl(n)
         \/ GenIdentifier(n)
         \/ GenAssignment(n)
         \/ GenInitializer(n)
         \/ GenStore(n, Head(agenda)[3])
         \/ GenLiteral(n)
         \/ GenOperands(n)
         \/ GenOperator(n)
    BY <1>2 DEF Generate, GeneratorDies
  <2>1. Head(agenda)[2] # 0
    BY DEF Pending
  <2>2. agenda # <<Task("visit", 0, 0)>>
    BY <2>1 DEF Task
  <2> USE DEF Generating, Doing
  <2>3. \A m, message : Fails(m, message) => Reports("IRGenerator")
    BY ReportReports DEF Fails
  <2>4. errors' = errors => Reports("IRGenerator")
    BY DEF Reports
  <2>5. CASE GenProgram(n) \/ GenProgramEnd(n) \/ GenMethodDecl(n) \/ GenNested(n)
    BY <2>2, <2>4, <2>5 DEF GenProgram, GenProgramEnd, GenMethodDecl, GenNested
  <2>6. CASE GenMethodEnd(n, Head(agenda)[3])
    BY <2>2, <2>4, <2>6 DEF GenMethodEnd
  <2>7. CASE \/ GenReturn(n) \/ GenIf(n) \/ GenVarDecl(n)
             \/ GenInitializer(n) \/ GenStore(n, Head(agenda)[3])
    BY <2>2, <2>4, <2>7 DEF GenReturn, GenIf, GenVarDecl, GenInitializer, GenStore
  <2>8. CASE \/ GenBranch(n, Head(agenda)[3])
             \/ GenElse(n, Head(agenda)[3])
             \/ GenIfEnd(n, Head(agenda)[3])
    BY <2>2, <2>4, <2>8 DEF GenBranch, GenElse, GenIfEnd
  <2>9. CASE GenLiteral(n) \/ GenOperands(n)
    BY <2>2, <2>4, <2>9 DEF GenLiteral, GenOperands
  <2>10. CASE GenUnknown(n) \/ GenIdentifier(n) \/ GenAssignment(n)
    BY <2>2, <2>3, <2>4, <2>10 DEF GenUnknown, GenIdentifier, GenAssignment
  <2>11. CASE GenOperator(n)
    BY <2>2, <2>3, <2>4, <2>11 DEF GenOperator
  <2> QED
    BY <2>5, <2>6, <2>7, <2>8, <2>9, <2>10, <2>11
<1> QED
  BY <1>1, <1>2

-----------------------------------------------------------------------------
LEMMA StatusInit == Init => StatusInv
BY DriverAssumption DEF Init, InitPasses, StatusInv, ErrorsByPass

LEMMA StatusNext ==
    ASSUME StatusInv, Main
    PROVE  StatusInv'
<1> USE DriverAssumption DEF StatusInv
<1>1. CASE Refuse
  BY <1>1 DEF Refuse, AnalysisUnchanged, parserVars, ErrorsByPass
<1>2. CASE Parse
  BY <1>2 DEF Parse, semaVars, ErrorsByPass
<1>3. CASE AfterParser
  <2>1. CASE syntaxErrors # {} \/ source.malformed
    BY <1>3, <2>1 DEF AfterParser, AnalysisUnchanged, parserVars, ErrorsByPass
  <2>2. CASE ~(syntaxErrors # {} \/ source.malformed)
    <3>1. /\ pass = "parse" /\ Analyze(parts[1])
          /\ UNCHANGED <<source, syntaxErrors, status>>
      BY <1>3, <2>2 DEF AfterParser, parserVars
    <3>2. pass' = "collect" /\ ErrorsByPass'
      BY <3>1, AnalyzeErrors DEF Analyze
    <3> QED
      BY <2>2, <3>1, <3>2
  <2> QED
    BY <2>1, <2>2
<1>4. CASE Analysis /\ UNCHANGED <<source, parserVars, genVars, teardownVars, status>>
  <2>1. ErrorsByPass'
    BY <1>4, AnalysisErrors
  <2>2. UNCHANGED <<source, syntaxErrors, status>>
    BY <1>4 DEF parserVars
  <2> QED
    BY <1>4, <2>1, <2>2, AnalysisPasses DEF Analysing, Ends
<1>5. CASE StartGenerator
  <2>1. /\ pass \in {"accepted", "rejected"} /\ pass' = "generate"
        /\ UNCHANGED <<source, syntaxErrors, status, errors>>
        /\ pass = "rejected" => agenda' = <<Task("visit", 0, 0)>>
    BY <1>5 DEF StartGenerator, parserVars
  <2>2. pass = "accepted" => errors = {}
    BY DEF ErrorsByPass
  <2> QED
    BY <2>1, <2>2 DEF OnlyFrom, ErrorsByPass
<1>6. CASE Generate /\ UNCHANGED <<source, parserVars, teardownVars, status>>
  <2>1. UNCHANGED <<source, syntaxErrors, status>>
    BY <1>6 DEF parserVars
  <2> QED
    BY <1>6, <2>1, GenerateReports DEF Reports, OnlyFrom, ErrorsByPass
<1>7. CASE StartTeardown
  BY <1>7 DEF StartTeardown, PassOver, parserVars, OnlyFrom, ErrorsByPass
<1>8. CASE Teardown
  <2>1. /\ pass = "destroy"
        /\ UNCHANGED <<source, syntaxErrors, errors>>
        /\ \/ pass' \in {"destroy", "aborted"} /\ status' = status
           \/ pass' = "exited" /\ status' = 0
    BY <1>8 DEF Teardown, parserVars, DestroyInstruction, DestroyBlock, DestroyConstants,
                DestroyValue, Exit
  <2> QED
    BY <2>1 DEF OnlyFrom, ErrorsByPass
<1> QED
  BY <1>1, <1>2, <1>3, <1>4, <1>5, <1>6, <1>7, <1>8 DEF Main

(* Exit status 1 means that nothing has been analysed, and 0 that neither  *)
(* the lexer, the parser nor the analysis has had anything to report.      *)
THEOREM StatusMeansWhatItSays == MainSpec => []SuccessIsEarned
<1>1. StatusInv /\ [Main]_driverVars => StatusInv'
  <2> SUFFICES ASSUME StatusInv, [Main]_driverVars
               PROVE  StatusInv'
    OBVIOUS
  <2>1. CASE UNCHANGED driverVars
    BY <2>1 DEF driverVars, parserVars, semaVars, StatusInv, ErrorsByPass, OnlyFrom
  <2> QED
    BY <2>1, StatusNext
<1>2. StatusInv => SuccessIsEarned
  BY DEF StatusInv, SuccessIsEarned, OnlyFrom
<1> QED
  BY <1>1, <1>2, StatusInit, PTL DEF MainSpec
-----------------------------------------------------------------------------
(* Calls made for an expression, and the store that an assignment is to    *)
(* end with.                                                               *)
Inner(t) == t[1] \in {"store", "op"} \/ (t[1] = "visit" /\ Kind(t[2]) \in ExprKinds)

Stores(t) == t[1] = "store" /\ Kind(t[2]) = "Assign"

Target(t) == symbolOf[Kid(t[2], 1)]

OfItsKind(t) ==
    /\ t[1] \in {"branch", "else", "end"} => Kind(t[2]) = "If"
    /\ t[1] = "op" => Kind(t[2]) \in {"Binary", "Unary"}
    /\ Stores(t) => t[3] = Target(t)

(* From the look at its target to its store, an assignment is inside its   *)
(* own expression, where no method begins and no local is forgotten.       *)
CallsInv ==
    /\ IsSeq(agenda)
    /\ \A k \in DOMAIN agenda :
           /\ OfItsKind(agenda[k])
           /\ Stores(agenda[k]) =>
                  /\ Target(agenda[k]) \in DOMAIN locals
                  /\ \A j \in 1..(k - 1) : Inner(agenda[j])

Located(s) ==
    \E j \in 1..Len(insts) : /\ locals[s] = Inst(j)
                             /\ insts[j].op = "Alloca"
                             /\ symbolOf[insts[j].node] = s

InstsInv ==
    /\ IsSeq(insts)
    /\ \A s \in DOMAIN locals : Located(s)
    /\ AccessesOwnVariable

LEMMA CallsOutside ==
    ASSUME CallsInv, agenda # <<>>, ~Inner(Head(agenda)),
           UNCHANGED <<prog, symbolOf>>,
           NEW ts, IsSeq(ts), Then(ts),
           \A k \in DOMAIN ts : OfItsKind(ts[k]) /\ ~Stores(ts[k])
    PROVE  CallsInv'
<1> DEFINE m == Len(ts)
           a == agenda
<1>1. /\ IsSeq(agenda')
      /\ m \in Nat /\ Len(a) \in Nat
      /\ DOMAIN ts = 1..m /\ DOMAIN a = 1..Len(a)
      /\ DOMAIN agenda' = 1..(m + Len(a) - 1)
      /\ \A k \in 1..m : agenda'[k] = ts[k]
      /\ \A k \in (m + 1)..(m + Len(a) - 1) : agenda'[k] = a[k - m + 1]
  BY CallsBefore DEF CallsInv, Then
<1>2. \A k \in 2..Len(a) : OfItsKind(a[k]) /\ ~Stores(a[k])
  <2> TAKE k \in 2..Len(a)
  <2>1. k \in DOMAIN a /\ 1 \in 1..(k - 1) /\ a[1] = Head(a)
    BY <1>1
  <2> QED
    BY <2>1 DEF CallsInv
<1>3. ASSUME NEW k \in DOMAIN agenda'
      PROVE  OfItsKind(agenda'[k]) /\ ~Stores(agenda'[k])
  <2>1. CASE k \in 1..m
    BY <1>1, <2>1
  <2>2. CASE k \in (m + 1)..(m + Len(a) - 1)
    <3>1. k - m + 1 \in 2..Len(a) /\ agenda'[k] = a[k - m + 1]
      BY <1>1, <2>2
    <3> QED
      BY <1>2, <3>1
  <2>3. k \in 1..m \/ k \in (m + 1)..(m + Len(a) - 1)
    BY <1>1
  <2> QED
    BY <2>1, <2>2, <2>3
<1>4. \A t : (OfItsKind(t) => OfItsKind(t)') /\ (Stores(t)' => Stores(t))
  BY DEF OfItsKind, Stores, Target, Kind, Kid
<1> QED
  BY <1>1, <1>3, <1>4 DEF CallsInv

LEMMA CallsInside ==
    ASSUME CallsInv, agenda # <<>>,
           UNCHANGED <<prog, symbolOf>>, DOMAIN locals \subseteq DOMAIN locals',
           NEW ts, IsSeq(ts), Then(ts),
           \A k \in DOMAIN ts : /\ OfItsKind(ts[k]) /\ Inner(ts[k])
                                /\ Stores(ts[k]) => Target(ts[k]) \in DOMAIN locals
    PROVE  CallsInv'
<1> DEFINE m == Len(ts)
           a == agenda
<1>1. /\ IsSeq(agenda')
      /\ m \in Nat /\ Len(a) \in Nat
      /\ DOMAIN ts = 1..m /\ DOMAIN a = 1..Len(a)
      /\ DOMAIN agenda' = 1..(m + Len(a) - 1)
      /\ \A k \in 1..m : agenda'[k] = ts[k]
      /\ \A k \in (m + 1)..(m + Len(a) - 1) : agenda'[k] = a[k - m + 1]
  BY CallsBefore DEF CallsInv, Then
<1>2. ASSUME NEW k \in DOMAIN agenda'
      PROVE  /\ OfItsKind(agenda'[k])
             /\ Stores(agenda'[k]) =>
                    /\ Target(agenda'[k]) \in DOMAIN locals
                    /\ \A j \in 1..(k - 1) : Inner(agenda'[j])
  <2>1. CASE k \in 1..m
    <3>1. agenda'[k] = ts[k]
      BY <1>1, <2>1
    <3>2. ASSUME NEW j \in 1..(k - 1)
          PROVE  Inner(agenda'[j])
      <4>1. j \in 1..m
        BY <1>1, <2>1
      <4> QED
        BY <1>1, <4>1
    <3> QED
      BY <1>1, <2>1, <3>1, <3>2
  <2>2. CASE k \in (m + 1)..(m + Len(a) - 1)
    <3> DEFINE l == k - m + 1
    <3>1. l \in 2..Len(a) /\ agenda'[k] = a[l]
      BY <1>1, <2>2
    <3>2. ASSUME Stores(a[l]), NEW j \in 1..(k - 1)
          PROVE  Inner(agenda'[j])
      <4>1. CASE j \in 1..m
        BY <1>1, <4>1
      <4>2. CASE j \in (m + 1)..(k - 1)
        <5>1. j - m + 1 \in 1..(l - 1) /\ agenda'[j] = a[j - m + 1]
          BY <1>1, <2>2, <4>2
        <5> QED
          BY <1>1, <3>1, <3>2, <5>1 DEF CallsInv
      <4> QED
        BY <1>1, <2>2, <4>1, <4>2
    <3> QED
      BY <1>1, <3>1, <3>2 DEF CallsInv
  <2> QED
    BY <1>1, <2>1, <2>2
<1>3. \A t : /\ OfItsKind(t) => OfItsKind(t)'
             /\ Stores(t)' => Stores(t)
             /\ Inner(t) => Inner(t)'
             /\ Target(t)' = Target(t)
  BY DEF OfItsKind, Stores, Inner, Target, Kind, Kid
<1> QED
  BY <1>1, <1>2, <1>3 DEF CallsInv

-----------------------------------------------------------------------------
(* An instruction more: what it accesses is the variable it is for.        *)
Accesses(n, operands) ==
    LET own(m) == \E j \in 1..Len(insts) : /\ operands[1] = Inst(j)
                                           /\ insts[j].op = "Alloca"
                                           /\ symbolOf[insts[j].node] = symbolOf[m]
    IN  /\ Kind(n) = "Ident" => own(n)
        /\ Kind(n) = "Assign" => own(Kid(n, 1))

LEMMA InstMade ==
    ASSUME InstsInv, UNCHANGED <<prog, symbolOf>>,
           NEW n, NEW op, NEW operands, Made(n, op, operands), Accesses(n, operands)
    PROVE  /\ IsSeq(insts')
           /\ AccessesOwnVariable'
           /\ \A s \in DOMAIN locals : locals' = locals => Located(s)'
           /\ Len(insts) \in Nat /\ Len(insts') = Len(insts) + 1
           /\ \A i \in 1..Len(insts) : insts'[i] = insts[i]
           /\ insts'[Len(insts) + 1] = [op |-> op, operands |-> operands, node |-> n]
<1> DEFINE e == [op |-> op, operands |-> operands, node |-> n]
           last == Len(insts) + 1
<1>1. /\ IsSeq(insts')
      /\ Len(insts) \in Nat /\ Len(insts') = last
      /\ DOMAIN insts = 1..Len(insts) /\ DOMAIN insts' = 1..last
      /\ \A i \in 1..Len(insts) : insts'[i] = insts[i]
      /\ insts'[last] = e
  <2> HIDE DEF e
  <2>1. insts' = Append(insts, e) /\ IsSeq(insts)
    BY DEF Made, InstsInv, e
  <2> QED
    BY <2>1, AppendTo
<1>2. ASSUME NEW s \in DOMAIN locals, locals' = locals
      PROVE  Located(s)'
  BY <1>1, <1>2 DEF InstsInv, Located
<1>3. ASSUME NEW i \in DOMAIN insts', NEW m \in Accessed(i)'
      PROVE  \E j \in 1..(i - 1) :
                 /\ insts'[i].operands[1] = Inst(j)
                 /\ insts'[j].op = "Alloca"
                 /\ symbolOf[insts'[j].node] = symbolOf[m]
  <2>1. CASE i \in 1..Len(insts)
    <3>1. i \in DOMAIN insts /\ m \in Accessed(i) /\ insts'[i] = insts[i]
      BY <1>1, <1>3, <2>1 DEF Accessed, Kind, Kid
    <3>2. PICK j \in 1..(i - 1) : /\ insts[i].operands[1] = Inst(j)
                                  /\ insts[j].op = "Alloca"
                                  /\ symbolOf[insts[j].node] = symbolOf[m]
      BY <3>1 DEF InstsInv, AccessesOwnVariable
    <3>3. insts'[j] = insts[j]
      BY <1>1, <2>1, <3>2
    <3> QED
      BY <3>1, <3>2, <3>3
  <2>2. CASE i = last
    <3>1. /\ insts'[i].node = n /\ insts'[i].operands = operands
          /\ i - 1 = Len(insts)
      BY <1>1, <2>2
    <3>2. \/ Kind(n) = "Ident" /\ m = n
          \/ Kind(n) = "Assign" /\ m = Kid(n, 1)
      BY <1>3, <3>1 DEF Accessed, Kind, Kid
    <3>3. PICK j \in 1..Len(insts) : /\ operands[1] = Inst(j)
                                     /\ insts[j].op = "Alloca"
                                     /\ symbolOf[insts[j].node] = symbolOf[m]
      BY <3>2 DEF Accesses
    <3> QED
      BY <1>1, <3>1, <3>3
  <2> QED
    BY <1>1, <2>1, <2>2
<1>4. AccessesOwnVariable'
  BY <1>3 DEF AccessesOwnVariable
<1> QED
  BY <1>1, <1>2, <1>4

LEMMA InstsSame ==
    ASSUME InstsInv, UNCHANGED <<prog, symbolOf, insts, locals>>
    PROVE  InstsInv'
BY DEF InstsInv, Located, AccessesOwnVariable, Accessed, Kind, Kid

LEMMA InstElsewhere ==
    ASSUME InstsInv, UNCHANGED <<prog, symbolOf, locals>>,
           NEW n, NEW op, NEW operands, Made(n, op, operands), Accesses(n, operands)
    PROVE  InstsInv'
BY InstMade DEF InstsInv

LEMMA NoCalls ==
    ASSUME CallsInv, agenda # <<>>, UNCHANGED <<prog, symbolOf, locals>>, Then(<<>>)
    PROVE  CallsInv'
<1>1. <<>> \in Seq({}) /\ DOMAIN <<>> = {}
  OBVIOUS
<1>2. IsSeq(<<>>)
  BY <1>1 DEF IsSeq
<1> QED
  BY <1>1, <1>2, CallsInside

LEMMA TwoCalls ==
    ASSUME NEW t, NEW u
    PROVE  /\ IsSeq(<<t, u>>)
           /\ \A k \in DOMAIN <<t, u>> : <<t, u>>[k] \in {t, u}
<1>1. <<t, u>> \in Seq({t, u}) /\ DOMAIN <<t, u>> = {1, 2}
  OBVIOUS
<1>2. IsSeq(<<t, u>>)
  BY <1>1 DEF IsSeq
<1>3. <<t, u>>[1] = t /\ <<t, u>>[2] = u
  OBVIOUS
<1> QED
  BY <1>1, <1>2, <1>3

LEMMA OuterCalls ==
    ASSUME NEW ns \in Seq(Nat), NEW t, OfItsKind(t), ~Stores(t)
    PROVE  LET ts == Visits(ns) \o <<t>>
           IN  IsSeq(ts) /\ \A k \in DOMAIN ts : OfItsKind(ts[k]) /\ ~Stores(ts[k])
<1> DEFINE ts == Visits(ns) \o <<t>>
<1>1. /\ IsSeq(ts)
      /\ \A k \in DOMAIN ts :
             ts[k] = t \/ \E i \in DOMAIN ns : ts[k] = <<"visit", ns[i], 0>>
  BY VisitsThen
<1>2. \A m : OfItsKind(<<"visit", m, 0>>) /\ ~Stores(<<"visit", m, 0>>)
  BY DEF OfItsKind, Stores
<1> HIDE DEF ts
<1>3. \A k \in DOMAIN ts : OfItsKind(ts[k]) /\ ~Stores(ts[k])
  BY <1>1, <1>2
<1> QED
  BY <1>1, <1>3 DEF ts

LEMMA OuterVisits ==
    ASSUME NEW ns \in Seq(Nat)
    PROVE  LET ts == Visits(ns)
           IN  IsSeq(ts) /\ \A k \in DOMAIN ts : OfItsKind(ts[k]) /\ ~Stores(ts[k])
<1>1. \A m : OfItsKind(<<"visit", m, 0>>) /\ ~Stores(<<"visit", m, 0>>)
  BY DEF OfItsKind, Stores
<1> QED
  BY <1>1, VisitsOf

-----------------------------------------------------------------------------
LEMMA InnerCalls ==
    ASSUME IsProgram(prog), NEW n \in Nodes,
           Kind(n) \in {"Binary", "Unary", "VarDecl"},
           NEW t, OfItsKind(t), Inner(t), ~Stores(t)
    PROVE  LET ts == Visits(Kids(n)) \o <<t>>
           IN  /\ IsSeq(ts)
               /\ \A k \in DOMAIN ts : OfItsKind(ts[k]) /\ Inner(ts[k]) /\ ~Stores(ts[k])
<1> DEFINE ts == Visits(Kids(n)) \o <<t>>
<1>1. Kids(n) \in Seq(Nat)
  BY KidsAreNumbers
<1>2. /\ IsSeq(ts)
      /\ \A k \in DOMAIN ts :
             ts[k] = t \/ \E i \in DOMAIN Kids(n) : ts[k] = <<"visit", Kids(n)[i], 0>>
  BY <1>1, VisitsThen
<1>3. \A i \in DOMAIN Kids(n) : LET v == <<"visit", Kids(n)[i], 0>>
                                IN  OfItsKind(v) /\ Inner(v) /\ ~Stores(v)
  BY OperandsAreExpressions DEF OfItsKind, Inner, Stores, Kid, Kids
<1> HIDE DEF ts
<1>4. \A k \in DOMAIN ts : OfItsKind(ts[k]) /\ Inner(ts[k]) /\ ~Stores(ts[k])
  BY <1>2, <1>3
<1> QED
  BY <1>2, <1>4 DEF ts

-----------------------------------------------------------------------------
LEMMA GenerateKeeps ==
    ASSUME IsProgram(prog), CallsInv, InstsInv, Generate
    PROVE  InstsInv' /\ (pass' = "generate" => CallsInv')
<1>1. UNCHANGED <<prog, symbolOf>>
  BY DEF Generate, AnalysisUnchanged
<1>2. CASE GeneratorDies
  BY <1>1, <1>2, DeathOf, InstsSame
<1>3. CASE ~GeneratorDies
  <2> PICK n \in Pending \ {0} :
         \/ GenProgram(n)
         \/ GenProgramEnd(n)
         \/ GenMethodDecl(n)
         \/ GenMethodEnd(n, Head(agenda)[3])
         \/ GenNested(n)
         \/ GenUnknown(n)
         \/ GenReturn(n)
         \/ GenIf(n)
         \/ GenBranch(n, Head(agenda)[3])
         \/ GenElse(n, Head(agenda)[3])
         \/ GenIfEnd(n, Head(agenda)[3])
         \/ GenVarDecl(n)
         \/ GenIdentifier(n)
         \/ GenAssignment(n)
         \/ GenInitializer(n)
         \/ GenStore(n, Head(agenda)[3])
         \/ GenLiteral(n)
         \/ GenOperands(n)
         \/ GenOperator(n)
    BY <1>3 DEF Generate, GeneratorDies
  <2> DEFINE h == Head(agenda)
  <2>1. n \in Nodes /\ agenda # <<>> /\ h[2] = n
    BY DEF Pending
  <2>2. /\ h = agenda[1] /\ 1 \in DOMAIN agenda
        /\ OfItsKind(h) /\ (Stores(h) => Target(h) \in DOMAIN locals)
    <3>1. PICK S : agenda \in Seq(S)
      BY DEF CallsInv, IsSeq
    <3>2. h = agenda[1] /\ 1 \in DOMAIN agenda
      BY <2>1, <3>1
    <3> QED
      BY <3>2 DEF CallsInv
  <2>3. \A what, i : Generating(what, n, i) => h = <<what, n, i>>
    BY DEF Generating, Doing, Task
  <2>4. Kids(n) \in Seq(Nat)
    BY <2>1, KidsAreNumbers
  <2> HIDE DEF h
  <2>5. \A ts : IsSeq(ts) /\ Then(ts) /\ ~Inner(h)
                /\ (\A k \in DOMAIN ts : OfItsKind(ts[k]) /\ ~Stores(ts[k])) => CallsInv'
    BY <1>1, <2>1, CallsOutside DEF h
  <2>6. \A op, operands :
            Made(n, op, operands) /\ Accesses(n, operands) /\ locals' = locals => InstsInv'
    BY <1>1, InstElsewhere
  <2>7. Kind(n) \notin {"Ident", "Assign"} => \A operands : Accesses(n, operands)
    BY DEF Accesses
  <2>8. \A operands : CloseWithRet(n, operands) /\ locals' = locals
                      /\ Kind(n) \notin {"Ident", "Assign"} => InstsInv'
    BY <1>1, <2>6, <2>7, InstsSame DEF CloseWithRet, EmitNothing, Emit
  <2>9. Then(<<>>) /\ locals' = locals => CallsInv'
    BY <1>1, <2>1, NoCalls
  <2>10. CASE GenProgram(n)
    <3>1. /\ h = <<"visit", n, 0>> /\ Kind(n) = "Program"
          /\ Then(Visits(Kids(n)) \o <<<<"leave", n, 0>>>>)
          /\ UNCHANGED <<insts, locals>>
      BY <2>3, <2>10 DEF GenProgram, Task
    <3>2. ~Inner(h)
      BY <3>1 DEF Inner, ExprKinds
    <3>3. OfItsKind(<<"leave", n, 0>>) /\ ~Stores(<<"leave", n, 0>>)
      BY DEF OfItsKind, Stores
    <3> QED
      BY <1>1, <2>4, <2>5, <3>1, <3>2, <3>3, OuterCalls, InstsSame
  <2>11. CASE GenProgramEnd(n) \/ GenMethodEnd(n, Head(agenda)[3])
    BY <2>8, <2>9, <2>11 DEF GenProgramEnd, GenMethodEnd
  <2>12. CASE GenMethodDecl(n)
    <3>1. h = <<"visit", n, 0>> /\ Kind(n) = "Method"
      BY <2>3, <2>12 DEF GenMethodDecl
    <3>2. CASE symbolOf[n] = NULL
      BY <1>1, <2>9, <2>12, <3>2, InstsSame DEF GenMethodDecl
    <3>3. CASE symbolOf[n] # NULL
      <4>1. /\ Then(Visits(Kids(n)) \o <<<<"leave", n, block>>>>)
            /\ locals' = <<>> /\ insts' = insts
        BY <2>12, <3>3 DEF GenMethodDecl, Task
      <4>2. ~Inner(h)
        BY <3>1 DEF Inner, ExprKinds
      <4>3. OfItsKind(<<"leave", n, block>>) /\ ~Stores(<<"leave", n, block>>)
        BY DEF OfItsKind, Stores
      <4>4. InstsInv'
        BY <1>1, <4>1 DEF InstsInv, AccessesOwnVariable, Accessed, Kind, Kid
      <4> QED
        BY <2>4, <2>5, <4>1, <4>2, <4>3, <4>4, OuterCalls
    <3> QED
      BY <3>2, <3>3
  <2>13. CASE GenNested(n)
    <3>1. /\ h = <<"visit", n, 0>> /\ Kind(n) \in {"Block", "ExprStmt", "While"}
          /\ Then(<<>>) \/ Then(Visits(Kids(n)))
          /\ UNCHANGED <<insts, locals>>
      BY <2>3, <2>13 DEF GenNested
    <3>2. ~Inner(h)
      BY <3>1 DEF Inner, ExprKinds
    <3> QED
      BY <1>1, <2>4, <2>5, <2>9, <3>1, <3>2, OuterVisits, InstsSame
  <2>14. CASE GenUnknown(n) \/ GenLiteral(n)
    BY <1>1, <2>9, <2>14, InstsSame DEF GenUnknown, GenLiteral, Fails, EmitNothing
  <2>15. CASE GenReturn(n)
    <3>1. CASE Generating("visit", n, 0)
      <4>1. /\ h = <<"visit", n, 0>> /\ Kind(n) = "Return"
            /\ Then(<<<<"visit", Kid(n, 1), 0>>, <<"ret", n, 0>>>>)
            /\ UNCHANGED <<insts, locals>>
        BY <2>3, <2>15, <3>1 DEF GenReturn, Task, EmitNothing, Generating, Doing
      <4>2. ~Inner(h)
        BY <4>1 DEF Inner, ExprKinds
      <4>3. \A t \in {<<"visit", Kid(n, 1), 0>>, <<"ret", n, 0>>} : OfItsKind(t) /\ ~Stores(t)
        BY DEF OfItsKind, Stores
      <4> QED
        BY <1>1, <2>5, <4>1, <4>2, <4>3, TwoCalls, InstsSame
    <3>2. CASE ~Generating("visit", n, 0)
      <4>1. /\ Kind(n) = "Return" /\ Then(<<>>) /\ locals' = locals
            /\ \E operands : Made(n, "Ret", operands)
        BY <2>15, <3>2 DEF GenReturn, Emit
      <4> QED
        BY <2>6, <2>7, <2>9, <4>1
    <3> QED
      BY <3>1, <3>2
  <2>16. CASE GenIf(n)
    <3> DEFINE b == Len(blocks) + 1
    <3>1. /\ h = <<"visit", n, 0>> /\ Kind(n) = "If"
          /\ Then(<<<<"visit", Kid(n, 1), 0>>, <<"branch", n, b>>>>)
          /\ UNCHANGED <<insts, locals>>
      BY <2>3, <2>16 DEF GenIf, Task
    <3>2. ~Inner(h)
      BY <3>1 DEF Inner, ExprKinds
    <3>3. \A t \in {<<"visit", Kid(n, 1), 0>>, <<"branch", n, b>>} : OfItsKind(t) /\ ~Stores(t)
      BY <3>1 DEF OfItsKind, Stores
    <3> HIDE DEF b
    <3> QED
      BY <1>1, <2>5, <3>1, <3>2, <3>3, TwoCalls, InstsSame
  <2>17. CASE GenBranch(n, Head(agenda)[3])
    <3> DEFINE b == Head(agenda)[3]
    <3>1. /\ h = <<"branch", n, b>>
          /\ Then(<<<<"visit", Kid(n, 2), 0>>, <<"else", n, b>>>>)
          /\ locals' = locals
          /\ \E operands : Made(n, "CondBr", operands)
      BY <2>3, <2>17 DEF GenBranch, Task
    <3> HIDE DEF b
    <3>2. Kind(n) = "If" /\ ~Inner(h)
      BY <2>2, <3>1 DEF OfItsKind, Inner
    <3>3. \A t \in {<<"visit", Kid(n, 2), 0>>, <<"else", n, b>>} : OfItsKind(t) /\ ~Stores(t)
      BY <3>2 DEF OfItsKind, Stores
    <3> QED
      BY <2>5, <2>6, <2>7, <3>1, <3>2, <3>3, TwoCalls
  <2>18. CASE GenElse(n, Head(agenda)[3])
    <3> DEFINE b == Head(agenda)[3]
               ns == SubSeq(Kids(n), 3, Len(Kids(n)))
    <3>1. /\ h = <<"else", n, b>>
          /\ Then(Visits(ns) \o <<<<"end", n, b>>>>)
          /\ locals' = locals
          /\ \E operands : Made(n, "Br", operands)
      BY <2>3, <2>18 DEF GenElse, JumpTo, Task
    <3>2. ns \in Seq(Nat)
      BY <2>4
    <3> HIDE DEF b, ns
    <3>3. Kind(n) = "If" /\ ~Inner(h)
      BY <2>2, <3>1 DEF OfItsKind, Inner
    <3>4. OfItsKind(<<"end", n, b>>) /\ ~Stores(<<"end", n, b>>)
      BY <3>3 DEF OfItsKind, Stores
    <3> QED
      BY <2>5, <2>6, <2>7, <3>1, <3>2, <3>3, <3>4, OuterCalls
  <2>19. CASE GenIfEnd(n, Head(agenda)[3])
    <3> DEFINE b == Head(agenda)[3]
    <3>1. /\ h = <<"end", n, b>> /\ Then(<<>>) /\ locals' = locals
          /\ \E operands : Made(n, "Br", operands)
      BY <2>3, <2>19 DEF GenIfEnd, JumpTo
    <3> HIDE DEF b
    <3>2. Kind(n) = "If"
      BY <2>2, <3>1 DEF OfItsKind
    <3> QED
      BY <2>6, <2>7, <2>9, <3>1, <3>2
  <2>20. CASE GenVarDecl(n)
    <3> DEFINE last == Len(insts) + 1
    <3>1. /\ Kind(n) = "VarDecl"
          /\ Made(n, "Alloca", <<>>)
          /\ locals' = Bind(symbolOf[n], Inst(last))
          /\ Then(Visits(Kids(n)) \o (IF Kids(n) = <<>> THEN <<>> ELSE <<<<"store", n, 0>>>>))
      BY <2>20 DEF GenVarDecl, Emit, Task
    <3>2. /\ IsSeq(insts') /\ AccessesOwnVariable'
          /\ Len(insts) \in Nat /\ Len(insts') = last
          /\ \A i \in 1..Len(insts) : insts'[i] = insts[i]
          /\ insts'[last] = [op |-> "Alloca", operands |-> <<>>, node |-> n]
      BY <1>1, <2>7, <3>1, InstMade
    <3>3. /\ DOMAIN locals' = DOMAIN locals \union {symbolOf[n]}
          /\ locals'[symbolOf[n]] = Inst(last)
          /\ \A s \in DOMAIN locals \ {symbolOf[n]} : locals'[s] = locals[s]
      BY <3>1 DEF Bind
    <3>4. ASSUME NEW s \in DOMAIN locals'
          PROVE  Located(s)'
      <4>1. CASE s = symbolOf[n]
        BY <1>1, <3>2, <3>3, <4>1 DEF Located
      <4>2. CASE s # symbolOf[n]
        <5>1. s \in DOMAIN locals /\ Located(s)
          BY <3>3, <3>4, <4>2 DEF InstsInv
        <5> HIDE DEF last
        <5>2. Len(insts) <= Len(insts')
          BY <3>2 DEF last
        <5> QED
          BY <1>1, <3>2, <3>3, <4>2, <5>1, <5>2 DEF Located
      <4> QED
        BY <4>1, <4>2
    <3>5. InstsInv'
      BY <3>2, <3>4 DEF InstsInv
    <3>6. CASE Kids(n) = <<>>
      <4>1. Visits(Kids(n)) \o <<>> = <<>>
        BY <3>6 DEF Visits
      <4>2. IsSeq(<<>>) /\ DOMAIN <<>> = {}
        <5>1. <<>> \in Seq({})
          OBVIOUS
        <5> QED
          BY <5>1 DEF IsSeq
      <4>3. Then(<<>>)
        BY <3>1, <3>6, <4>1
      <4> QED
        BY <1>1, <2>1, <3>3, <3>5, <4>2, <4>3, CallsInside
    <3>7. CASE Kids(n) # <<>>
      <4> DEFINE t == <<"store", n, 0>>
                 ts == Visits(Kids(n)) \o <<t>>
      <4>1. OfItsKind(t) /\ Inner(t) /\ ~Stores(t)
        BY <3>1 DEF OfItsKind, Inner, Stores
      <4> HIDE DEF t
      <4>2. /\ IsSeq(ts)
            /\ \A k \in DOMAIN ts : OfItsKind(ts[k]) /\ Inner(ts[k]) /\ ~Stores(ts[k])
        BY <2>1, <3>1, <4>1, InnerCalls
      <4>3. Then(ts)
        BY <3>1, <3>7 DEF t
      <4> HIDE DEF ts
      <4> QED
        BY <1>1, <2>1, <3>3, <3>5, <4>2, <4>3, CallsInside
    <3> QED
      BY <3>6, <3>7
  <2>21. CASE GenIdentifier(n)
    <3>1. Then(<<>>) /\ locals' = locals
      BY <2>21 DEF GenIdentifier, Fails
    <3>2. CASE symbolOf[n] \in DOMAIN locals
      <4>1. Kind(n) = "Ident" /\ Made(n, "Load", <<locals[symbolOf[n]]>>)
        BY <2>21, <3>2 DEF GenIdentifier, Emit
      <4>2. Accesses(n, <<locals[symbolOf[n]]>>)
        BY <3>2, <4>1 DEF Accesses, InstsInv, Located
      <4> QED
        BY <2>6, <2>9, <3>1, <4>1, <4>2
    <3>3. CASE symbolOf[n] \notin DOMAIN locals
      <4>1. UNCHANGED insts
        BY <2>21, <3>3 DEF GenIdentifier, Fails, EmitNothing
      <4> QED
        BY <1>1, <2>9, <3>1, <4>1, InstsSame
    <3> QED
      BY <3>2, <3>3
  <2>22. CASE GenAssignment(n)
    <3>1. UNCHANGED <<insts, locals>> /\ Kind(n) = "Assign"
      BY <2>22 DEF GenAssignment, Fails, EmitNothing
    <3>2. InstsInv'
      BY <1>1, <3>1, InstsSame
    <3>3. CASE ~IsLocal(Kid(n, 1))
      BY <2>9, <2>22, <3>1, <3>2, <3>3 DEF GenAssignment, Fails
    <3>4. CASE IsLocal(Kid(n, 1))
      <4> DEFINE v == <<"visit", Kid(n, 2), 0>>
                 t == <<"store", n, symbolOf[Kid(n, 1)]>>
      <4>1. Then(<<v, t>>)
        BY <2>22, <3>4 DEF GenAssignment, Task
      <4>2. Kind(Kid(n, 2)) \in ExprKinds
        BY <2>1, <2>4, <3>1, OperandsAreExpressions
      <4>3. OfItsKind(v) /\ Inner(v) /\ ~Stores(v)
        BY <4>2 DEF OfItsKind, Inner, Stores
      <4>4. OfItsKind(t) /\ Inner(t) /\ Target(t) \in DOMAIN locals
        BY <3>4 DEF OfItsKind, Inner, Stores, Target, IsLocal
      <4> HIDE DEF v, t
      <4>5. /\ IsSeq(<<v, t>>)
            /\ \A k \in DOMAIN <<v, t>> :
                   LET c == <<v, t>>[k]
                   IN  /\ OfItsKind(c) /\ Inner(c)
                       /\ Stores(c) => Target(c) \in DOMAIN locals
        BY <4>3, <4>4, TwoCalls
      <4> QED
        BY <1>1, <2>1, <3>1, <3>2, <4>1, <4>5, CallsInside
    <3> QED
      BY <3>3, <3>4
  <2>23. CASE GenInitializer(n)
    <3>1. /\ Then(<<>>) /\ locals' = locals /\ Kind(n) = "VarDecl"
          /\ \E operands : Made(n, "Store", operands)
      BY <2>23 DEF GenInitializer, Emit
    <3> QED
      BY <2>6, <2>7, <2>9, <3>1
  <2>26. CASE GenStore(n, Head(agenda)[3])
    <3> DEFINE symbol == Head(agenda)[3]
               operands == <<locals[symbol], valueOf[Kid(n, 2)]>>
    <3>1. /\ Then(<<>>) /\ locals' = locals /\ h = <<"store", n, symbol>>
          /\ Kind(n) = "Assign" /\ Made(n, "Store", operands)
      BY <2>3, <2>26 DEF GenStore, Emit
    <3> HIDE DEF symbol
    <3>2. symbol = symbolOf[Kid(n, 1)] /\ symbol \in DOMAIN locals
      BY <2>2, <3>1 DEF OfItsKind, Stores, Target
    <3>3. Accesses(n, operands)
      BY <3>1, <3>2 DEF Accesses, InstsInv, Located
    <3> HIDE DEF operands
    <3> QED
      BY <2>6, <2>9, <3>1, <3>3
  <2>24. CASE GenOperands(n)
    <3> DEFINE t == <<"op", n, 0>>
               ts == Visits(Kids(n)) \o <<t>>
    <3>1. Then(ts) /\ UNCHANGED <<insts, locals>> /\ Kind(n) \in {"Binary", "Unary"}
      BY <2>24 DEF GenOperands, Task
    <3>2. OfItsKind(t) /\ Inner(t) /\ ~Stores(t)
      BY <3>1 DEF OfItsKind, Inner, Stores
    <3> HIDE DEF t
    <3>3. /\ IsSeq(ts)
          /\ \A k \in DOMAIN ts : OfItsKind(ts[k]) /\ Inner(ts[k]) /\ ~Stores(ts[k])
      BY <2>1, <3>1, <3>2, InnerCalls
    <3> HIDE DEF ts
    <3> QED
      BY <1>1, <2>1, <3>1, <3>3, CallsInside, InstsSame
  <2>25. CASE GenOperator(n)
    <3>1. /\ Then(<<>>) /\ locals' = locals
          /\ \/ \E op, operands : Made(n, op, operands)
             \/ insts' = insts
      BY <2>25 DEF GenOperator, Fails, EmitNothing, Emit
    <3>2. h = <<"op", n, 0>>
      BY <2>3, <2>25 DEF GenOperator
    <3>3. Kind(n) \in {"Binary", "Unary"}
      BY <2>2, <3>2 DEF OfItsKind
    <3> QED
      BY <1>1, <2>6, <2>7, <2>9, <3>1, <3>3, InstsSame
  <2> QED
    BY <2>10, <2>11, <2>12, <2>13, <2>14, <2>15, <2>16, <2>17, <2>18, <2>19, <2>20, <2>21,
       <2>22, <2>23, <2>24, <2>25, <2>26
<1> QED
  BY <1>2, <1>3

-----------------------------------------------------------------------------
Before == {"parse", "collect", "resolve", "check", "accepted", "rejected"}

GeneratorInv ==
    /\ pass \in Before => insts = <<>> /\ locals = <<>>
    /\ pass \notin {"parse", "exited"} => IsProgram(prog)
    /\ pass = "generate" => CallsInv
    /\ InstsInv

LEMMA NothingYet ==
    /\ insts = <<>> /\ locals = <<>> => InstsInv
    /\ insts' = <<>> /\ locals' = <<>> => InstsInv'
<1>1. <<>> \in Seq({}) /\ DOMAIN <<>> = {}
  OBVIOUS
<1>2. IsSeq(<<>>)
  BY <1>1 DEF IsSeq
<1> QED
  BY <1>1, <1>2 DEF InstsInv, AccessesOwnVariable

LEMMA AnalysisKeepsTree ==
    ASSUME Analysis
    PROVE  prog' = prog
<1>1. CASE Collect
  BY <1>1 DEF Collect, CollectScope, LeaveScope, CollectMethodDecl, CollectParam,
              DeclareMethod, CollectVarDecl, CollectOther, CollectorUnchanged
<1>2. CASE Resolve
  BY <1>2 DEF Resolve, ResolveScope, ResolveLeave, ResolveIdentifier, ResolveUnknown,
              ResolveOther, ResolverUnchanged
<1>3. CASE Check
  BY <1>3 DEF Check, CheckScope, CheckLeave, CheckMethodDecl, CheckerUnchanged
<1>4. CASE AfterCollector \/ AfterResolver \/ AfterChecker
  BY <1>4 DEF AfterCollector, AfterResolver, AfterChecker
<1> QED
  BY <1>1, <1>2, <1>3, <1>4 DEF Analysis

LEMMA GeneratorNext ==
    ASSUME GeneratorInv, Main, TreesWellFormed'
    PROVE  GeneratorInv'
<1> USE DEF GeneratorInv, Before
<1>1. CASE Refuse \/ Parse
  <2>1. /\ pass = "parse" /\ pass' \in {"parse", "exited"}
        /\ UNCHANGED <<insts, locals>>
    BY <1>1 DEF Refuse, Parse, semaVars, genVars
  <2> QED
    BY <2>1, NothingYet
<1>2. CASE AfterParser
  <2>1. /\ pass = "parse" /\ UNCHANGED <<insts, locals>>
        /\ \/ pass' = "exited"
           \/ pass' = "collect" /\ agenda' = <<Task("visit", 1, 0)>>
    BY <1>2 DEF AfterParser, Analyze, genVars
  <2>2. pass' = "collect" => IsProgram(prog)'
    BY <2>1 DEF TreesWellFormed
  <2>3. InstsInv'
    BY <2>1, NothingYet
  <2> QED
    BY <2>1, <2>2, <2>3
<1>3. CASE Analysis /\ UNCHANGED <<source, parserVars, genVars, teardownVars, status>>
  <2>1. UNCHANGED <<insts, locals>>
    BY <1>3 DEF genVars
  <2>2. /\ prog' = prog
        /\ pass \in Analysing /\ pass' \in Analysing \union Ends
    BY <1>3, AnalysisKeepsTree, AnalysisPasses
  <2>3. InstsInv'
    BY <2>1, <2>2, NothingYet DEF Analysing
  <2> QED
    BY <2>1, <2>2, <2>3 DEF Analysing, Ends
<1>4. CASE StartGenerator
  <2> PICK t : agenda' = <<t>> /\ t[1] = "visit"
    BY <1>4 DEF StartGenerator, Task
  <2>1. /\ pass \in {"accepted", "rejected"} /\ pass' = "generate"
        /\ UNCHANGED <<prog, symbolOf, insts, locals>>
    BY <1>4 DEF StartGenerator, AnalysisUnchanged
  <2>2. InstsInv'
    BY <2>1, InstsSame
  <2>3. OfItsKind(t)' /\ ~Stores(t)'
    BY DEF OfItsKind, Stores
  <2>4. CallsInv'
    <3>1. <<t>> \in Seq({t}) /\ DOMAIN <<t>> = {1} /\ <<t>>[1] = t
      OBVIOUS
    <3>2. IsSeq(agenda')
      BY <3>1 DEF IsSeq
    <3> QED
      BY <2>3, <3>1, <3>2 DEF CallsInv
  <2> QED
    BY <2>1, <2>2, <2>4
<1>5. CASE Generate /\ UNCHANGED <<source, parserVars, teardownVars, status>>
  <2>1. pass = "generate" /\ pass' \in {"generate", "crashed"} /\ prog' = prog
    BY <1>5, GenerateReports DEF Generate, AnalysisUnchanged
  <2> QED
    BY <1>5, <2>1, GenerateKeeps
<1>6. CASE StartTeardown \/ Teardown
  <2>1. /\ pass \in {"generate", "destroy"} /\ pass' \in {"destroy", "aborted", "exited"}
        /\ UNCHANGED <<prog, symbolOf, insts, locals>>
    BY <1>6 DEF StartTeardown, PassOver, Teardown, DestroyInstruction, DestroyBlock,
                DestroyConstants, DestroyValue, Exit, AnalysisUnchanged, genVars
  <2> QED
    BY <2>1, InstsSame
<1> QED
  BY <1>1, <1>2, <1>3, <1>4, <1>5, <1>6 DEF Main

-----------------------------------------------------------------------------
(* The parser's parts fit the functions that are under way, and the passes *)
(* keep the tree it has returned.                                          *)
PartsFit == IsSeq(out) /\ Shape(source.tokens, calls, parts, tokens.current)

TreeInv ==
    /\ source \in Sources
    /\ pass = "parse" /\ syntaxErrors = {} => PartsFit
    /\ pass \notin {"parse", "exited"} => IsProgram(prog)

LEMMA NothingBeneath ==
    ASSUME NEW file, NEW cs, IsSeq(cs), cs = <<>>, NEW ps, IsSeq(ps)
    PROVE  Beneath(file, cs, "Program", ps, 0)
<1>1. PICK m, e : m = Len(cs) /\ e = 0
  OBVIOUS
<1>2. m = 0 /\ Len(ps) \in Nat
  BY <1>1, LengthOf
<1>3. PICK b : b = [d \in 1..(m + 1) |-> e]
  OBVIOUS
<1>4. b \in [1..(m + 1) -> Nat] /\ b[1] = 0 /\ b[m + 1] = e /\ e <= Len(ps)
  BY <1>1, <1>2, <1>3
<1>5. \A c, d \in 1..(m + 1) : c <= d => b[c] <= b[d]
  BY <1>1, <1>2, <1>3
<1>6. Gives(PlaceAt(cs, "Program", 1)) = {"Program"}
  <2>1. 1 # 0 /\ 1 = Len(cs) + 1
    BY <1>1, <1>2
  <2>2. PlaceAt(cs, "Program", 1) = "Program"
    BY <2>1 DEF PlaceAt
  <2> QED
    BY <2>2, GivesValue
<1>7. 1..m = {}
  BY <1>2
<1>8. Base(file, cs, "Program", ps, e, b)
  BY <1>1, <1>4, <1>5, <1>6, <1>7 DEF Base
<1> QED
  BY <1>1, <1>8 DEF Beneath

LEMMA FirstFrame ==
    ASSUME NEW file, NEW current
    PROVE  Shape(file, <<<<"Program", 0>>>>, <<>>, current)
<1>1. PICK frame, cs, ps : frame = <<"Program", 0>> /\ cs = <<>> /\ ps = <<>>
  OBVIOUS
<1>2. IsSeq(cs) /\ IsSeq(ps)
  <2>1. <<>> \in Seq({})
    OBVIOUS
  <2> QED
    BY <1>1, <2>1 DEF IsSeq
<1>3. Under(cs) = "" /\ Len(ps) = 0
  BY <1>1, <1>2, LengthOf DEF Under
<1>4. 0 \in 0..Len(ps) /\ Seg(ps, 0, Len(ps)) = <<>>
  <2>1. 0 \in 0..Len(ps)
    <3>1. PICK n : n = Len(ps)
      OBVIOUS
    <3>2. n = 0
      BY <1>3, <3>1
    <3>3. 0 \in 0..n
      BY <3>2
    <3> QED
      BY <3>1, <3>3
  <2>2. Seg(ps, 0, 0) = <<>>
    BY <1>2, <2>1, EmptySeg
  <2> QED
    BY <1>3, <2>1, <2>2
<1>5. frame[1] = "Program" /\ Fine(file, frame)
  BY <1>1, PlainFine
<1>6. Ready(file, current, "Program", Under(cs), <<>>)
  BY DEF Ready
<1>7. Beneath(file, cs, "Program", ps, 0)
  BY <1>1, <1>2, NothingBeneath
<1>8. PICK e : e = 0
  OBVIOUS
<1>9. Runs(file, current, cs, frame[1], ps, e)
  BY <1>4, <1>5, <1>6, <1>7, <1>8 DEF Runs
<1>10. Shape(file, <<frame>> \o cs, ps, current)
  BY <1>2, <1>5, <1>9, Running
<1>11. <<frame>> \o cs = <<frame>>
  BY <1>1
<1> QED
  BY <1>1, <1>10, <1>11

LEMMA TreeInit == Init => TreeInv
<1> SUFFICES ASSUME Init PROVE TreeInv
  OBVIOUS
<1>1. /\ source \in Sources /\ pass = "parse" /\ out = <<>> /\ parts = <<>>
      /\ calls = <<<<"Program", 0>>>>
  BY DEF Init, InitPasses, P!Start
<1>2. IsSeq(out)
  <2>1. out \in Seq({})
    BY <1>1
  <2> QED
    BY <2>1 DEF IsSeq
<1> QED
  BY <1>1, <1>2, FirstFrame DEF TreeInv, PartsFit

LEMMA LastPart ==
    ASSUME NEW file, NEW ps, NEW current, Shape(file, <<>>, ps, current)
    PROVE  IsProgram(ps[1])
BY DEF Shape, One, Item, IsTree, IsProgram

LEMMA TreeNext ==
    ASSUME TreeInv, [Main]_driverVars
    PROVE  TreeInv'
<1>1. CASE UNCHANGED driverVars
  BY <1>1 DEF driverVars, parserVars, semaVars, TreeInv, PartsFit
<1>2. CASE Refuse
  BY <1>2 DEF Refuse, TreeInv
<1>3. CASE Parse
  <2>1. pass = "parse" /\ source' = source /\ pass' = pass
    BY <1>3 DEF Parse, semaVars
  <2>2. ASSUME syntaxErrors' = {} PROVE PartsFit'
    <3>1. syntaxErrors = {}
      BY <1>3, <2>2, ErrorsStay DEF Parse
    <3>2. NamesAreKnown(source.tokens)
      BY SourcesAssumption DEF TreeInv, NamesAreKnown
    <3>3. Stepping
      BY <1>3, <2>1, <2>2, <3>1, <3>2 DEF Parse, Stepping, TreeInv, PartsFit
    <3>4. FitsThen
      BY <1>3, <3>3, ParserFits DEF Parse
    <3> QED
      BY <2>1, <3>4 DEF FitsThen, PartsFit
  <2> QED
    BY <2>1, <2>2 DEF TreeInv
<1>4. CASE AfterParser
  <2>1. source' = source /\ pass = "parse" /\ calls = <<>>
    BY <1>4 DEF AfterParser, P!Finished
  <2>2. CASE syntaxErrors # {} \/ source.malformed
    BY <1>4, <2>1, <2>2 DEF AfterParser, TreeInv
  <2>3. CASE ~(syntaxErrors # {} \/ source.malformed)
    <3>1. IsProgram(parts[1])
      BY <2>1, <2>3, LastPart DEF TreeInv, PartsFit
    <3>2. prog' = parts[1] /\ pass' = "collect"
      BY <1>4, <2>3 DEF AfterParser, Analyze
    <3> QED
      BY <2>1, <3>1, <3>2 DEF TreeInv, IsProgram
  <2> QED
    BY <2>2, <2>3
<1>5. CASE Analysis /\ UNCHANGED <<source, parserVars, genVars, teardownVars, status>>
  <2>1. prog' = prog /\ pass \in Analysing /\ pass' \in Analysing \union Ends
    BY <1>5, AnalysisKeepsTree, AnalysisPasses
  <2>2. source' = source /\ pass # "parse" /\ pass # "exited" /\ pass' # "parse"
    BY <1>5, <2>1 DEF Analysing, Ends
  <2> QED
    BY <2>1, <2>2 DEF TreeInv, IsProgram
<1>6. CASE StartGenerator \/ StartTeardown
  <2>1. /\ source' = source /\ prog' = prog /\ pass \notin {"parse", "exited"}
        /\ pass' # "parse"
    BY <1>6 DEF StartGenerator, StartTeardown, PassOver, AnalysisUnchanged
  <2> QED
    BY <2>1 DEF TreeInv, IsProgram
<1>7. CASE Generate /\ UNCHANGED <<source, parserVars, teardownVars, status>>
  <2>1. pass = "generate" /\ pass' \in {"generate", "crashed"} /\ prog' = prog
    BY <1>7, GenerateReports DEF Generate, AnalysisUnchanged
  <2> QED
    BY <1>7, <2>1 DEF TreeInv, IsProgram
<1>8. CASE Teardown
  <2>1. /\ source' = source /\ prog' = prog /\ pass = "destroy"
        /\ pass' \in {"destroy", "aborted", "exited"}
    BY <1>8 DEF Teardown, DestroyInstruction, DestroyBlock, DestroyConstants, DestroyValue,
                Exit, AnalysisUnchanged
  <2> QED
    BY <2>1 DEF TreeInv, IsProgram
<1> QED
  BY <1>1, <1>2, <1>3, <1>4, <1>5, <1>6, <1>7, <1>8 DEF Main

LEMMA TreeHolds == MainSpec => []TreeInv
BY TreeInit, TreeNext, PTL DEF MainSpec

(* Whatever file is parsed without an error: what the analysis is given is *)
(* a program, every node of it with the children its kind has.             *)
THEOREM TreesAreWellFormed == MainSpec => []TreesWellFormed
<1>1. TreeInv => TreesWellFormed
  BY DEF TreeInv, TreesWellFormed
<1> QED
  BY <1>1, TreeHolds, PTL

-----------------------------------------------------------------------------
LEMMA GeneratorHolds == MainSpec => []GeneratorInv
<1>1. Init => GeneratorInv
  BY NothingYet DEF Init, InitPasses, InitIR, GeneratorInv, Before
<1>2. GeneratorInv /\ TreesWellFormed' /\ [Main]_driverVars => GeneratorInv'
  <2> SUFFICES ASSUME GeneratorInv, TreesWellFormed', [Main]_driverVars
               PROVE  GeneratorInv'
    OBVIOUS
  <2>1. CASE UNCHANGED driverVars
    <3>1. UNCHANGED <<pass, agenda, prog, symbolOf, insts, locals>>
      BY <2>1 DEF driverVars, semaVars, genVars
    <3>2. CallsInv => CallsInv'
      BY <3>1 DEF CallsInv, OfItsKind, Stores, Target, Inner, Kind, Kid
    <3> QED
      BY <3>1, <3>2, InstsSame DEF GeneratorInv
  <2> QED
    BY <2>1, GeneratorNext
<1> QED
  BY <1>1, <1>2, TreesAreWellFormed, PTL DEF MainSpec

(* The iterator that generateAssignmentExpr keeps into locals: whatever    *)
(* the assigned expression declares or assigns itself, and also when it    *)
(* has rehashed the map on the way, the store goes to the variable on the  *)
(* left, and a load to the one its name is bound to.                       *)
THEOREM OwnVariableIsAccessed == MainSpec => []AccessesOwnVariable
<1>1. GeneratorInv => AccessesOwnVariable
  BY DEF GeneratorInv, InstsInv
<1> QED
  BY <1>1, GeneratorHolds, PTL

-----------------------------------------------------------------------------
(* How many instructions a node has, and how many it is to have.           *)
MadeFor(n) == {i \in DOMAIN insts : insts[i].node = n}

Count(n) == Cardinality(MadeFor(n))

Expected(n) == IF InLoop(n) THEN 0 ELSE Stands(n)

(* The children that a pending call will still visit, and the instructions *)
(* that it will still make for its own node.                               *)
Yields(what, i) ==
    \/ what = "branch" /\ i > 1
    \/ what = "else" /\ i > 2

Owes(what) ==
    CASE what = "branch" -> 3
      [] what = "else" -> 2
      [] what \in {"end", "store", "op", "ret"} -> 1
      [] OTHER -> 0

Reaches(t, x) ==
    \/ t[1] = "visit" /\ t[2] \in Path(prog, x)
    \/ \E i \in DOMAIN Kids(t[2]) : Yields(t[1], i) /\ Kid(t[2], i) \in Path(prog, x)

Due(t, x) ==
    IF Reaches(t, x) THEN Expected(x) ELSE IF t[2] = x THEN Owes(t[1]) ELSE 0

Dues(ts, x) == [k \in DOMAIN ts |-> Due(ts[k], x)]

(* At most one of the numbers is not 0, and makes up what c lacks of e.    *)
Meets(f, c, e) ==
    \/ c = e /\ \A k \in DOMAIN f : f[k] = 0
    \/ \E k \in DOMAIN f : c + f[k] = e /\ \A j \in DOMAIN f : j # k => f[j] = 0

(* All instructions of a node are made, or one pending call makes those    *)
(* that are missing.                                                       *)
Accounted(x) == Meets(Dues(agenda, x), Count(x), Expected(x))

(* The same of the calls that the one at the front makes.                  *)
Carries(ts, x) == Meets(Dues(ts, x), Count(x)', Count(x) + Due(Head(agenda), x))

(* The generator does not visit the target of an assignment, and nothing   *)
(* below a loop.                                                           *)
IsTarget(n) == \E m \in Nodes : Kind(m) = "Assign" /\ Kid(m, 1) = n

Proper(t) ==
    /\ t[2] \in Nodes
    /\ \A m \in Path(prog, t[2]) \ {t[2]} : Kind(m) # "While"
    /\ Kind(t[2]) = "While" => t[1] = "visit"
    /\ t[1] = "visit" => ~IsTarget(t[2])

LEMMA OwesIs ==
    /\ Owes("branch") = 3 /\ Owes("else") = 2
    /\ Owes("end") = 1 /\ Owes("store") = 1 /\ Owes("op") = 1 /\ Owes("ret") = 1
    /\ Owes("leave") = 0 /\ Owes("visit") = 0
    /\ \A what : Owes(what) \in Nat
BY DEF Owes

LEMMA StandsIs ==
    ASSUME NEW n
    PROVE  /\ Kind(n) = "VarDecl" => Stands(n) = 1 + Len(Kids(n))
           /\ Kind(n) \in {"Assign", "Binary", "Unary", "Return"} => Stands(n) = 1
           /\ Kind(n) = "If" => Stands(n) = 3
           /\ Kind(n) = "Ident" => Stands(n) = IF IsTarget(n) THEN 0 ELSE 1
           /\ Kind(n) \notin {"VarDecl", "Assign", "Binary", "Unary", "Return", "If", "Ident"}
                 => Stands(n) = 0
BY DEF Stands, IsTarget

LEMMA ExpectedIsNumber ==
    ASSUME IsProgram(prog), NEW n \in Nodes
    PROVE  Expected(n) \in Nat
<1>1. Len(Kids(n)) \in Nat
  BY KidsArePending
<1> QED
  BY <1>1, StandsIs DEF Expected

LEMMA DueIsNumber ==
    ASSUME IsProgram(prog), NEW n \in Nodes, NEW t
    PROVE  Due(t, n) \in Nat
BY ExpectedIsNumber, OwesIs DEF Due

LEMMA DueSame ==
    ASSUME prog' = prog
    PROVE  /\ \A n : Expected(n)' = Expected(n) /\ IsTarget(n)' = IsTarget(n)
           /\ \A t, x : Due(t, x)' = Due(t, x)
           /\ \A t : Proper(t)' = Proper(t)
           /\ Nodes' = Nodes
<1>1. /\ Nodes' = Nodes /\ \A n : Kind(n)' = Kind(n) /\ Kids(n)' = Kids(n)
      /\ \A n, i : Kid(n, i)' = Kid(n, i)
  BY DEF Nodes, Kind, Kids, Kid
<1>2. \A n : Stands(n)' = Stands(n) /\ InLoop(n)' = InLoop(n) /\ IsTarget(n)' = IsTarget(n)
  BY DEF Stands, InLoop, IsTarget, Nodes, Kind, Kids, Kid
<1>3. \A n : Expected(n)' = Expected(n)
  BY <1>2 DEF Expected
<1>4. \A t, x : Reaches(t, x)' = Reaches(t, x)
  BY DEF Reaches, Kids, Kid
<1>5. \A t, x : Due(t, x)' = Due(t, x)
  BY <1>3, <1>4 DEF Due
<1>6. \A t : Proper(t)' = Proper(t)
  BY <1>2 DEF Proper, Nodes, Kind
<1> QED
  BY <1>1, <1>2, <1>3, <1>5, <1>6

LEMMA FirstMeets ==
    ASSUME NEW l \in Nat, 1 \in 1..l, NEW f \in [1..l -> Nat], NEW c \in Nat, NEW e \in Nat,
           Meets(f, c, e), \A k \in 2..l : f[k] = 0
    PROVE  c + f[1] = e
<1>1. DOMAIN f = 1..l
  OBVIOUS
<1>2. CASE c = e /\ \A k \in 1..l : f[k] = 0
  BY <1>2
<1>3. ASSUME NEW k \in 1..l, c + f[k] = e, \A j \in 1..l : j # k => f[j] = 0
      PROVE  c + f[1] = e
  <2>1. CASE k = 1
    BY <1>3, <2>1
  <2>2. CASE k # 1
    <3>1. k \in 2..l
      BY <2>2
    <3>2. f[k] = 0 /\ f[1] = 0
      BY <1>3, <2>2, <3>1
    <3> QED
      BY <1>3, <3>2
  <2> QED
    BY <2>1, <2>2
<1> QED
  BY <1>1, <1>2, <1>3 DEF Meets

(* The numbers h are those of g and then those of f without its first.     *)
Replaced(l, m, f, g, h) ==
    /\ l \in Nat /\ m \in Nat /\ 1 \in 1..l
    /\ f \in [1..l -> Nat] /\ g \in [1..m -> Nat] /\ h \in [1..(m + l - 1) -> Nat]
    /\ \A k \in 1..m : h[k] = g[k]
    /\ \A k \in (m + 1)..(m + l - 1) : h[k] = f[k - m + 1]

LEMMA MeetsGoesOn ==
    ASSUME NEW l, NEW m, NEW f, NEW g, NEW h, Replaced(l, m, f, g, h),
           NEW c \in Nat, NEW d \in Nat, NEW e \in Nat, c <= d,
           NEW b \in Nat, b = c + f[1], Meets(f, c, e), Meets(g, d, b)
    PROVE  Meets(h, d, e)
<1> USE DEF Replaced
<1>1. DOMAIN f = 1..l /\ DOMAIN g = 1..m /\ DOMAIN h = 1..(m + l - 1)
  OBVIOUS
<1>2. ASSUME NEW k \in 1..(m + l - 1)
      PROVE  \/ k \in 1..m /\ h[k] = g[k]
             \/ k \in (m + 1)..(m + l - 1) /\ k - m + 1 \in 2..l /\ h[k] = f[k - m + 1]
  <2>1. k \in 1..m \/ k \in (m + 1)..(m + l - 1)
    OBVIOUS
  <2>2. k \in (m + 1)..(m + l - 1) => k - m + 1 \in 2..l
    OBVIOUS
  <2> QED
    BY <2>1, <2>2
<1>3. CASE \A k \in 2..l : f[k] = 0
  <2>1. c + f[1] = e
    BY <1>3, FirstMeets
  <2>2. b = e /\ Meets(g, d, e)
    BY <2>1
  <2>3. CASE d = e /\ \A k \in 1..m : g[k] = 0
    BY <1>1, <1>2, <1>3, <2>3 DEF Meets
  <2>4. ASSUME NEW k \in 1..m, d + g[k] = e, \A j \in 1..m : j # k => g[j] = 0
        PROVE  Meets(h, d, e)
    <3>1. k \in 1..(m + l - 1)
      OBVIOUS
    <3>2. \A j \in 1..(m + l - 1) : j # k => h[j] = 0
      BY <1>2, <1>3, <2>4
    <3> QED
      BY <1>1, <2>4, <3>1, <3>2 DEF Meets
  <2> QED
    BY <1>1, <2>2, <2>3, <2>4 DEF Meets
<1>4. ASSUME NEW k \in 2..l, f[k] # 0 PROVE Meets(h, d, e)
  <2>1. k \in 1..l /\ k # 1
    OBVIOUS
  <2>2. c + f[k] = e /\ \A j \in 1..l : j # k => f[j] = 0
    BY <1>1, <1>4, <2>1 DEF Meets
  <2>3. f[1] = 0
    BY <2>1, <2>2
  <2>4. b = c /\ Meets(g, d, c)
    BY <2>3
  <2>5. d = c /\ \A j \in 1..m : g[j] = 0
    <3>1. ASSUME NEW i \in 1..m, d + g[i] = c, \A j \in 1..m : j # i => g[j] = 0
          PROVE  d = c /\ \A j \in 1..m : g[j] = 0
      <4>1. g[i] \in Nat
        OBVIOUS
      <4>2. g[i] = 0 /\ d = c
        BY <3>1, <4>1
      <4> QED
        BY <3>1, <4>2
    <3> QED
      BY <1>1, <2>4, <3>1 DEF Meets
  <2> PICK i : i = k + m - 1
    OBVIOUS
  <2>6. i \in 1..(m + l - 1) /\ i \in (m + 1)..(m + l - 1) /\ i - m + 1 = k
    OBVIOUS
  <2>7. h[i] = f[k]
    BY <2>6
  <2>8. ASSUME NEW j \in 1..(m + l - 1), j # i PROVE h[j] = 0
    <3>1. CASE j \in 1..m /\ h[j] = g[j]
      BY <2>5, <3>1
    <3>2. CASE j \in (m + 1)..(m + l - 1) /\ j - m + 1 \in 2..l /\ h[j] = f[j - m + 1]
      <4>1. j - m + 1 # k /\ j - m + 1 \in 1..l
        BY <2>8, <3>2
      <4> QED
        BY <2>2, <3>2, <4>1
    <3> QED
      BY <1>2, <3>1, <3>2
  <2> QED
    BY <1>1, <2>2, <2>5, <2>6, <2>7, <2>8 DEF Meets
<1> QED
  BY <1>3, <1>4

LEMMA DuesIs ==
    ASSUME IsProgram(prog), NEW x \in Nodes, NEW ts
    PROVE  /\ Dues(ts, x) \in [DOMAIN ts -> Nat]
           /\ \A k \in DOMAIN ts : Dues(ts, x)[k] = Due(ts[k], x)
BY DueIsNumber DEF Dues

LEMMA StillAccounted ==
    ASSUME IsSeq(agenda), agenda # <<>>, IsProgram(prog), prog' = prog,
           NEW ts, IsSeq(ts), Then(ts), NEW x \in Nodes,
           Count(x) \in Nat, Count(x)' \in Nat, Count(x) <= Count(x)',
           Accounted(x), Carries(ts, x)
    PROVE  Accounted(x)'
<1> PICK l, m : l = Len(agenda) /\ m = Len(ts)
  OBVIOUS
<1>1. /\ IsSeq(agenda')
      /\ m \in Nat /\ l \in Nat
      /\ DOMAIN ts = 1..m /\ DOMAIN agenda = 1..l
      /\ DOMAIN agenda' = 1..(m + l - 1)
      /\ \A k \in 1..m : agenda'[k] = ts[k]
      /\ \A k \in (m + 1)..(m + l - 1) : agenda'[k] = agenda[k - m + 1]
      /\ Head(agenda) = agenda[1] /\ 1 \in 1..l
  BY NextCalls
<1>2. PICK f : f = Dues(agenda, x)
  OBVIOUS
<1>3. PICK g : g = Dues(ts, x)
  OBVIOUS
<1>4. PICK h : h = Dues(agenda, x)'
  OBVIOUS
<1>5. /\ f \in [1..l -> Nat]
      /\ \A k \in 1..l : f[k] = Due(agenda[k], x)
  BY <1>1, <1>2, DuesIs
<1>6. /\ g \in [1..m -> Nat]
      /\ \A k \in 1..m : g[k] = Due(ts[k], x)
  BY <1>1, <1>3, DuesIs
<1>7. /\ h \in [1..(m + l - 1) -> Nat]
      /\ \A k \in 1..(m + l - 1) : h[k] = Due(agenda'[k], x)
  <2>1. h = [k \in DOMAIN agenda' |-> Due(agenda'[k], x)]
    BY <1>4, DueSame DEF Dues
  <2> QED
    BY <1>1, <2>1, DueIsNumber
<1>8. \A k \in 1..m : h[k] = g[k]
  <2>1. \A k \in 1..m : k \in 1..(m + l - 1)
    BY <1>1
  <2>2. \A k \in 1..m : agenda'[k] = ts[k]
    BY <1>1
  <2> QED
    BY <1>6, <1>7, <2>1, <2>2
<1>9. \A k \in (m + 1)..(m + l - 1) : h[k] = f[k - m + 1]
  <2>1. \A k \in (m + 1)..(m + l - 1) : k \in 1..(m + l - 1) /\ k - m + 1 \in 1..l
    BY <1>1
  <2>2. \A k \in (m + 1)..(m + l - 1) : agenda'[k] = agenda[k - m + 1]
    BY <1>1
  <2> TAKE k \in (m + 1)..(m + l - 1)
  <2> PICK i : i = k - m + 1
    OBVIOUS
  <2>3. h[k] = Due(agenda'[k], x)
    BY <1>7, <2>1
  <2>4. f[i] = Due(agenda[i], x)
    BY <1>5, <2>1
  <2>5. agenda'[k] = agenda[i]
    BY <2>2
  <2> QED
    BY <2>3, <2>4, <2>5
<1>10. PICK c, d, e : c = Count(x) /\ d = Count(x)' /\ e = Expected(x)
  OBVIOUS
<1>11. PICK b : b = Count(x) + Due(Head(agenda), x)
  OBVIOUS
<1>12. c \in Nat /\ d \in Nat /\ c <= d /\ e \in Nat
  BY <1>10, ExpectedIsNumber
<1>13. 1 \in 1..l /\ b = c + f[1] /\ b \in Nat
  <2>1. f[1] = Due(Head(agenda), x) /\ f[1] \in Nat /\ 1 \in 1..l
    BY <1>1, <1>5
  <2> QED
    BY <1>10, <1>11, <1>12, <2>1
<1>14. Meets(f, c, e)
  BY <1>2, <1>10 DEF Accounted
<1>15. Meets(g, d, b)
  BY <1>3, <1>10, <1>11 DEF Carries
<1>16. Meets(h, d, e)
  <2>1. l \in Nat /\ m \in Nat
    BY <1>1
  <2>2. Replaced(l, m, f, g, h)
    BY <1>5, <1>6, <1>7, <1>8, <1>9, <1>13, <2>1 DEF Replaced
  <2> QED
    BY <1>12, <1>13, <1>14, <1>15, <2>2, MeetsGoesOn
<1>17. Expected(x)' = e
  BY <1>10, DueSame
<1> QED
  BY <1>4, <1>10, <1>16, <1>17 DEF Accounted

-----------------------------------------------------------------------------
(* What is due from a call of the node n, or for one of its children.      *)
LEMMA NothingElsewhere ==
    ASSUME IsProgram(prog), NEW n \in Nodes, NEW x \in Nodes, n \notin Path(prog, x), NEW t,
           \/ t[2] = n
           \/ t[1] = "visit" /\ \E i \in DOMAIN Kids(n) : t[2] = Kid(n, i)
    PROVE  Due(t, x) = 0
<1>1. /\ x \in Path(prog, x)
      /\ \A i \in DOMAIN Kids(n) : Kid(n, i) \notin Path(prog, x)
  <2>1. x \in Path(prog, x)
    BY PathsGoUp DEF Nodes
  <2> QED
    BY <2>1, KidsPart
<1>2. CASE t[2] = n
  BY <1>1, <1>2 DEF Due, Reaches
<1>3. CASE t[1] = "visit" /\ \E i \in DOMAIN Kids(n) : t[2] = Kid(n, i)
  <2>1. \A i : ~Yields("visit", i)
    BY DEF Yields
  <2> QED
    BY <1>1, <1>3, <2>1 DEF Due, Reaches
<1> QED
  BY <1>2, <1>3

LEMMA DueAtItself ==
    ASSUME IsProgram(prog), NEW n \in Nodes
    PROVE  /\ \A i \in DOMAIN Kids(n) : Due(<<"visit", Kid(n, i), 0>>, n) = 0
           /\ \A t : t[2] = n => Due(t, n) = IF t[1] = "visit" THEN Expected(n) ELSE Owes(t[1])
<1>1. n \in Path(prog, n) /\ \A i \in DOMAIN Kids(n) : Kid(n, i) \notin Path(prog, n)
  <2>1. n \in Path(prog, n)
    BY PathsGoUp DEF Nodes
  <2> QED
    BY <2>1, KidsPart
<1>2. \A i : ~Yields("visit", i)
  BY DEF Yields
<1>3. ASSUME NEW i \in DOMAIN Kids(n)
      PROVE  Due(<<"visit", Kid(n, i), 0>>, n) = 0
  <2> PICK m : m = Kid(n, i)
    OBVIOUS
  <2>1. m \notin Path(prog, n) /\ m # n
    BY <1>1, <1>3
  <2>2. Due(<<"visit", m, 0>>, n) = 0
    BY <1>2, <2>1 DEF Due, Reaches
  <2> QED
    BY <2>2
<1>4. \A t : t[2] = n => Due(t, n) = IF t[1] = "visit" THEN Expected(n) ELSE Owes(t[1])
  BY <1>1 DEF Due, Reaches
<1> QED
  BY <1>3, <1>4

LEMMA DueBeneath ==
    ASSUME IsProgram(prog), NEW n \in Nodes, NEW x \in Nodes, NEW i \in DOMAIN Kids(n),
           Kid(n, i) \in Path(prog, x)
    PROVE  /\ \A j \in DOMAIN Kids(n) :
                  Due(<<"visit", Kid(n, j), 0>>, x) = IF j = i THEN Expected(x) ELSE 0
           /\ \A t : t[2] = n =>
                  Due(t, x) = IF t[1] = "visit" \/ Yields(t[1], i) THEN Expected(x) ELSE 0
<1>1. /\ n \in Path(prog, x) /\ x # n
      /\ \A j \in DOMAIN Kids(n) : Kid(n, j) \in Path(prog, x) => j = i
  BY KidsPart
<1>2. x \in Path(prog, x)
  BY PathsGoUp DEF Nodes
<1>3. \A j : ~Yields("visit", j)
  BY DEF Yields
<1>4. ASSUME NEW j \in DOMAIN Kids(n)
      PROVE  Due(<<"visit", Kid(n, j), 0>>, x) = IF j = i THEN Expected(x) ELSE 0
  <2> PICK m : m = Kid(n, j)
    OBVIOUS
  <2>1. m \in Path(prog, x) <=> j = i
    BY <1>1
  <2>2. m = x => m \in Path(prog, x)
    BY <1>2
  <2>3. Due(<<"visit", m, 0>>, x) = IF j = i THEN Expected(x) ELSE 0
    BY <1>3, <2>1, <2>2 DEF Due, Reaches, Owes
  <2> QED
    BY <2>3
<1>5. ASSUME NEW t, t[2] = n
      PROVE  Due(t, x) = IF t[1] = "visit" \/ Yields(t[1], i) THEN Expected(x) ELSE 0
  <2>1. Reaches(t, x) <=> t[1] = "visit" \/ Yields(t[1], i)
    BY <1>1, <1>5 DEF Reaches
  <2> QED
    BY <1>1, <1>5, <2>1 DEF Due
<1> QED
  BY <1>4, <1>5

-----------------------------------------------------------------------------
(* A call sees to the i-th child of n: it visits it, or it belongs to the  *)
(* handler of n and will.                                                  *)
HandlesKid(t, n, i) ==
    \/ t = <<"visit", Kid(n, i), 0>>
    \/ t[2] = n /\ Yields(t[1], i)

(* New calls of the handler of n: visits of children, and one more for n   *)
(* itself.  None sees to a child that another sees to.                     *)
HandsOver(ts, n) ==
    /\ \A k \in DOMAIN ts :
          \/ ts[k][2] = n /\ ts[k][1] # "visit"
          \/ \E i \in DOMAIN Kids(n) : ts[k] = <<"visit", Kid(n, i), 0>>
    /\ \A i \in DOMAIN Kids(n) : \A j, k \in DOMAIN ts :
          HandlesKid(ts[j], n, i) /\ HandlesKid(ts[k], n, i) => j = k
    /\ \A j, k \in DOMAIN ts : ts[j][2] = n /\ ts[k][2] = n => j = k

(* Below the i-th child nothing is to be generated.                        *)
Skipped(n, i) == \A x \in Nodes : Kid(n, i) \in Path(prog, x) => Expected(x) = 0

(* Some call sees to it.                                                   *)
Handled(ts, n, i) == \E k \in DOMAIN ts : HandlesKid(ts[k], n, i)

(* The children that the call t was to see to are those its new calls see  *)
(* to, those aside of which nothing is generated.                          *)
AllHanded(ts, t, n) ==
    \A i \in DOMAIN Kids(n) :
        \/ Skipped(n, i)
        \/ (t[1] = "visit" \/ Yields(t[1], i)) <=> Handled(ts, n, i)

(* The handler t has made c instructions for n: the new calls owe the rest *)
(* of those that were due from it.                                         *)
Total(t, n) == IF t[1] = "visit" THEN Expected(n) ELSE Owes(t[1])

Owed(ts, t, n, c) ==
    \/ c = Total(t, n) /\ \A k \in DOMAIN ts : ts[k][2] # n
    \/ \E k \in DOMAIN ts : ts[k][2] = n /\ c + Owes(ts[k][1]) = Total(t, n)

LEMMA HandedOver ==
    ASSUME IsProgram(prog), NEW n \in Nodes, NEW x \in Nodes, Head(agenda)[2] = n,
           NEW ts, HandsOver(ts, n), AllHanded(ts, Head(agenda), n),
           NEW c \in Nat, x = n => Owed(ts, Head(agenda), n, c),
           Count(x) \in Nat, Count(x)' = Count(x) + (IF x = n THEN c ELSE 0)
    PROVE  Carries(ts, x)
<1> PICK h : h = Head(agenda)
  OBVIOUS
<1> PICK f : f = Dues(ts, x)
  OBVIOUS
<1>1. /\ f \in [DOMAIN ts -> Nat] /\ DOMAIN f = DOMAIN ts
      /\ \A k \in DOMAIN ts : f[k] = Due(ts[k], x)
  BY DuesIs
<1>2. Due(h, x) \in Nat /\ Expected(x) \in Nat
  BY DueIsNumber, ExpectedIsNumber
<1>3. SUFFICES Meets(f, Count(x)', Count(x) + Due(h, x))
  BY DEF Carries
<1>4. CASE n \notin Path(prog, x)
  <2>1. Due(h, x) = 0
    BY <1>4, NothingElsewhere
  <2>2. \A k \in DOMAIN ts : f[k] = 0
    <3> TAKE k \in DOMAIN ts
    <3>1. \/ ts[k][2] = n
          \/ ts[k][1] = "visit" /\ \E i \in DOMAIN Kids(n) : ts[k][2] = Kid(n, i)
      BY DEF HandsOver
    <3> QED
      BY <1>1, <1>4, <3>1, NothingElsewhere
  <2>3. x # n
    BY <1>4, PathsGoUp DEF Nodes
  <2> QED
    BY <1>1, <2>1, <2>2, <2>3 DEF Meets
<1>5. CASE x = n
  <2>1. /\ Due(h, x) = IF h[1] = "visit" THEN Expected(x) ELSE Owes(h[1])
        /\ \A k \in DOMAIN ts : f[k] = IF ts[k][2] = n THEN Owes(ts[k][1]) ELSE 0
    <3>1. ASSUME NEW k \in DOMAIN ts
          PROVE  f[k] = IF ts[k][2] = n THEN Owes(ts[k][1]) ELSE 0
      <4>1. CASE ts[k][2] = n /\ ts[k][1] # "visit"
        BY <1>1, <1>5, <4>1, DueAtItself
      <4>2. ASSUME NEW i \in DOMAIN Kids(n), ts[k] = <<"visit", Kid(n, i), 0>>
            PROVE  f[k] = 0 /\ ts[k][2] # n
        <5>1. Kid(n, i) > n
          BY KidsArePending
        <5>2. Due(ts[k], n) = 0
          BY <4>2, DueAtItself
        <5>3. n \in Nat
          BY DEF Nodes, IsProgram
        <5> QED
          BY <1>1, <1>5, <4>2, <5>1, <5>2, <5>3
      <4> QED
        BY <4>1, <4>2 DEF HandsOver
    <3> QED
      BY <1>5, <3>1, DueAtItself
  <2>2. CASE c = Due(h, x) /\ \A k \in DOMAIN ts : ts[k][2] # n
    BY <1>1, <1>5, <2>1, <2>2 DEF Meets
  <2>3. ASSUME NEW k \in DOMAIN ts, ts[k][2] = n, c + Owes(ts[k][1]) = Due(h, x)
        PROVE  Meets(f, Count(x)', Count(x) + Due(h, x))
    <3>1. f[k] = Owes(ts[k][1]) /\ f[k] \in Nat
      BY <1>1, <2>1, <2>3
    <3>2. \A j \in DOMAIN ts : j # k => f[j] = 0
      BY <2>1, <2>3 DEF HandsOver
    <3>3. Count(x)' + f[k] = Count(x) + Due(h, x)
      BY <1>2, <1>5, <2>3, <3>1
    <3> QED
      BY <1>1, <3>2, <3>3 DEF Meets
  <2> QED
    BY <1>5, <2>1, <2>2, <2>3 DEF Owed, Total
<1>6. ASSUME NEW i \in DOMAIN Kids(n), Kid(n, i) \in Path(prog, x)
      PROVE  Meets(f, Count(x)', Count(x) + Due(h, x))
  <2>1. x # n
    BY <1>6, KidsPart
  <2>2. Due(h, x) = IF h[1] = "visit" \/ Yields(h[1], i) THEN Expected(x) ELSE 0
    BY <1>6, DueBeneath
  <2>3. ASSUME NEW k \in DOMAIN ts
        PROVE  f[k] = IF HandlesKid(ts[k], n, i) THEN Expected(x) ELSE 0
    <3>1. CASE ts[k][2] = n /\ ts[k][1] # "visit"
      <4>1. HandlesKid(ts[k], n, i) <=> Yields(ts[k][1], i)
        BY <3>1 DEF HandlesKid
      <4>2. Due(ts[k], x) = IF Yields(ts[k][1], i) THEN Expected(x) ELSE 0
        BY <1>6, <3>1, DueBeneath
      <4> QED
        BY <1>1, <4>1, <4>2
    <3>2. ASSUME NEW j \in DOMAIN Kids(n), ts[k] = <<"visit", Kid(n, j), 0>>
          PROVE  f[k] = IF HandlesKid(ts[k], n, i) THEN Expected(x) ELSE 0
      <4>1. Due(ts[k], x) = IF j = i THEN Expected(x) ELSE 0
        BY <1>6, <3>2, DueBeneath
      <4>2. HandlesKid(ts[k], n, i) <=> j = i
        <5>1. Kid(n, i) = Kid(n, j) => i = j
          BY <1>6, KidsPart
        <5>2. ~Yields(ts[k][1], i)
          BY <3>2 DEF Yields
        <5> QED
          BY <3>2, <5>1, <5>2 DEF HandlesKid
      <4> QED
        BY <1>1, <4>1, <4>2
    <3> QED
      BY <3>1, <3>2 DEF HandsOver
  <2>4. CASE Skipped(n, i)
    <3>1. Expected(x) = 0
      BY <1>6, <2>4 DEF Skipped
    <3> QED
      BY <1>1, <2>1, <2>2, <2>3, <3>1 DEF Meets
  <2>5. CASE /\ ~(h[1] = "visit" \/ Yields(h[1], i))
             /\ ~\E k \in DOMAIN ts : HandlesKid(ts[k], n, i)
    BY <1>1, <2>1, <2>2, <2>3, <2>5 DEF Meets
  <2>6. ASSUME h[1] = "visit" \/ Yields(h[1], i), NEW k \in DOMAIN ts, HandlesKid(ts[k], n, i)
        PROVE  Meets(f, Count(x)', Count(x) + Due(h, x))
    <3>1. Count(x)' + f[k] = Count(x) + Due(h, x)
      BY <2>1, <2>2, <2>3, <2>6
    <3>2. \A j \in DOMAIN ts : j # k => f[j] = 0
      BY <2>3, <2>6 DEF HandsOver
    <3> QED
      BY <1>1, <3>1, <3>2 DEF Meets
  <2> QED
    BY <2>4, <2>5, <2>6 DEF AllHanded, Handled
<1>7. n \in Path(prog, x) /\ x # n => \E i \in DOMAIN Kids(n) : Kid(n, i) \in Path(prog, x)
  BY PathsGoUp DEF Nodes, Kids, Kid
<1> QED
  BY <1>4, <1>5, <1>6, <1>7

-----------------------------------------------------------------------------
(* The new calls of the handlers, in the forms they have.                  *)
LEMMA HandsNothing ==
    ASSUME NEW n
    PROVE  /\ IsSeq(<<>>) /\ HandsOver(<<>>, n)
           /\ \A i : ~Handled(<<>>, n, i)
           /\ \A k \in DOMAIN <<>> : FALSE
<1>1. DOMAIN <<>> = {}
  OBVIOUS
<1> QED
  BY <1>1, NothingIsASequence DEF HandsOver, Handled

LEMMA HandsVisits ==
    ASSUME IsProgram(prog), NEW n \in Nodes
    PROVE  LET ts == Visits(Kids(n))
           IN  /\ IsSeq(ts) /\ HandsOver(ts, n)
               /\ \A i \in DOMAIN Kids(n) : Handled(ts, n, i)
               /\ \A k \in DOMAIN ts : ts[k][2] # n
<1> PICK ts : ts = Visits(Kids(n))
  OBVIOUS
<1>1. /\ IsSeq(ts) /\ DOMAIN ts = DOMAIN Kids(n)
      /\ \A k \in DOMAIN Kids(n) : ts[k] = <<"visit", Kid(n, k), 0>>
  BY KidsArePending, VisitsOf
<1>2. \A k \in DOMAIN ts : ts[k][2] # n /\ ts[k][1] = "visit"
  <2>1. n \in Nat /\ \A k \in DOMAIN Kids(n) : Kid(n, k) > n
    BY KidsArePending DEF Nodes, IsProgram
  <2>2. \A k \in DOMAIN Kids(n) : Kid(n, k) # n
    BY <2>1
  <2> QED
    BY <1>1, <2>2
<1>3. \A i, j \in DOMAIN Kids(n) : Kid(n, i) = Kid(n, j) => i = j
  <2>1. \A i \in DOMAIN Kids(n) : Kid(n, i) \in Nodes /\ Kid(n, i) \in Path(prog, Kid(n, i))
    BY KidsArePending, PathsGoUp DEF Nodes
  <2> QED
    BY <2>1, KidsPart
<1>4. HandsOver(ts, n)
  <2>1. ASSUME NEW i \in DOMAIN Kids(n), NEW j \in DOMAIN ts, HandlesKid(ts[j], n, i)
        PROVE  j = i
    BY <1>1, <1>2, <1>3, <2>1 DEF HandlesKid
  <2> QED
    BY <1>1, <1>2, <2>1 DEF HandsOver
<1>5. \A i \in DOMAIN Kids(n) : Handled(ts, n, i)
  BY <1>1 DEF Handled, HandlesKid
<1> QED
  BY <1>1, <1>2, <1>4, <1>5

Includes(ts, w) == \E k \in DOMAIN ts : ts[k] = w

(* Nodes that are children of n, from the one after d on.                  *)
KidsAfter(ns, n, d) ==
    \A k \in 1..Len(ns) : k + d \in DOMAIN Kids(n) /\ ns[k] = Kid(n, k + d)

(* Visits of all children from one on, and a call of the handler itself.   *)
LEMMA HandsVisitsThen ==
    ASSUME IsProgram(prog), NEW n \in Nodes,
           NEW d \in Nat, NEW ns \in Seq(Nat),
           KidsAfter(ns, n, d),
           NEW w, w[2] = n, w[1] # "visit", \A i : ~Yields(w[1], i)
    PROVE  LET ts == Visits(ns) \o <<w>>
           IN  /\ IsSeq(ts) /\ HandsOver(ts, n)
               /\ \A i \in DOMAIN Kids(n) : Handled(ts, n, i) <=> i - d \in 1..Len(ns)
               /\ Includes(ts, w)
<1> PICK ts : ts = Visits(ns) \o <<w>>
  OBVIOUS
<1>1. /\ IsSeq(ts)
      /\ Len(ns) \in Nat /\ DOMAIN ns = 1..Len(ns)
      /\ DOMAIN ts = 1..(Len(ns) + 1)
      /\ \A k \in DOMAIN ns : ts[k] = <<"visit", ns[k], 0>>
      /\ ts[Len(ns) + 1] = w
  BY VisitsThenAt
<1>2. DOMAIN Kids(n) \subseteq Nat
  <2>1. DOMAIN Kids(n) = 1..Len(Kids(n)) /\ Len(Kids(n)) \in Nat
    BY KidsArePending
  <2> QED
    BY <2>1
<1>3. \A i, j \in DOMAIN Kids(n) : Kid(n, i) = Kid(n, j) => i = j
  <2>1. \A i \in DOMAIN Kids(n) : Kid(n, i) \in Nodes /\ Kid(n, i) \in Path(prog, Kid(n, i))
    BY KidsArePending, PathsGoUp DEF Nodes
  <2> QED
    BY <2>1, KidsPart
<1>4. \A i \in DOMAIN Kids(n) : Kid(n, i) # n
  <2>1. n \in Nat /\ \A k \in DOMAIN Kids(n) : Kid(n, k) > n
    BY KidsArePending DEF Nodes, IsProgram
  <2> QED
    BY <2>1
<1>5. ASSUME NEW k \in DOMAIN ts
      PROVE  \/ k = Len(ns) + 1 /\ ts[k] = w
             \/ /\ k \in 1..Len(ns) /\ k + d \in DOMAIN Kids(n)
                /\ ts[k] = <<"visit", Kid(n, k + d), 0>>
  <2>1. k = Len(ns) + 1 \/ k \in 1..Len(ns)
    BY <1>1
  <2> QED
    BY <1>1, <2>1 DEF KidsAfter
<1>6. ASSUME NEW i \in DOMAIN Kids(n), NEW k \in DOMAIN ts, HandlesKid(ts[k], n, i)
      PROVE  k \in 1..Len(ns) /\ k = i - d
  <2>1. CASE k = Len(ns) + 1 /\ ts[k] = w
    BY <1>6, <2>1 DEF HandlesKid
  <2>2. CASE /\ k \in 1..Len(ns) /\ k + d \in DOMAIN Kids(n)
             /\ ts[k] = <<"visit", Kid(n, k + d), 0>>
    <3>1. Kid(n, k + d) = Kid(n, i)
      BY <1>4, <1>6, <2>2 DEF HandlesKid
    <3>2. k + d = i
      BY <1>3, <2>2, <3>1
    <3> QED
      BY <1>2, <2>2, <3>2
  <2> QED
    BY <1>5, <2>1, <2>2
<1>7. HandsOver(ts, n)
  <2>1. \A k \in DOMAIN ts :
            \/ ts[k][2] = n /\ ts[k][1] # "visit"
            \/ \E i \in DOMAIN Kids(n) : ts[k] = <<"visit", Kid(n, i), 0>>
    BY <1>5
  <2>2. \A k \in DOMAIN ts : ts[k][2] = n => k = Len(ns) + 1
    BY <1>4, <1>5
  <2>3. \A i \in DOMAIN Kids(n) : \A j, k \in DOMAIN ts :
            HandlesKid(ts[j], n, i) /\ HandlesKid(ts[k], n, i) => j = k
    BY <1>6
  <2> QED
    BY <2>1, <2>2, <2>3 DEF HandsOver
<1>8. ASSUME NEW i \in DOMAIN Kids(n), i - d \in 1..Len(ns)
      PROVE  Handled(ts, n, i)
  <2> PICK k : k = i - d
    OBVIOUS
  <2>1. k \in DOMAIN ts /\ k \in DOMAIN ns
    BY <1>1, <1>8
  <2>3. i \in Nat /\ k + d = i
    BY <1>2
  <2>4. ns[k] = Kid(n, i)
    BY <1>1, <2>1, <2>3 DEF KidsAfter
  <2>2. ts[k] = <<"visit", Kid(n, i), 0>>
    BY <1>1, <2>1, <2>4
  <2> QED
    BY <2>1, <2>2 DEF Handled, HandlesKid
<1>9. \A i \in DOMAIN Kids(n) : Handled(ts, n, i) <=> i - d \in 1..Len(ns)
  BY <1>6, <1>8 DEF Handled
<1>10. Includes(ts, w)
  <2>1. Len(ns) + 1 \in DOMAIN ts
    BY <1>1
  <2> QED
    BY <1>1, <2>1 DEF Includes
<1> QED
  BY <1>1, <1>7, <1>9, <1>10

(* The visit of one child, and a call of the handler itself.               *)
LEMMA HandsTwo ==
    ASSUME IsProgram(prog), NEW n \in Nodes, NEW i \in DOMAIN Kids(n),
           NEW w, w[2] = n, w[1] # "visit", ~Yields(w[1], i)
    PROVE  LET ts == <<<<"visit", Kid(n, i), 0>>, w>>
           IN  /\ IsSeq(ts) /\ HandsOver(ts, n)
               /\ \A j \in DOMAIN Kids(n) : Handled(ts, n, j) <=> (j = i \/ Yields(w[1], j))
               /\ Includes(ts, w)
<1> PICK v : v = <<"visit", Kid(n, i), 0>>
  OBVIOUS
<1> PICK ts : ts = <<v, w>>
  OBVIOUS
<1>1. IsSeq(ts) /\ DOMAIN ts = {1, 2} /\ ts[1] = v /\ ts[2] = w
  BY TwoCalls
<1>2. \A j \in DOMAIN Kids(n) : Kid(n, j) = Kid(n, i) => j = i
  <2>1. \A j \in DOMAIN Kids(n) : Kid(n, j) \in Nodes /\ Kid(n, j) \in Path(prog, Kid(n, j))
    BY KidsArePending, PathsGoUp DEF Nodes
  <2> QED
    BY <2>1, KidsPart
<1>3. Kid(n, i) # n
  <2>1. n \in Nat /\ Kid(n, i) > n
    BY KidsArePending DEF Nodes, IsProgram
  <2> QED
    BY <2>1
<1>4. \A j \in DOMAIN Kids(n) : HandlesKid(v, n, j) <=> j = i
  BY <1>2, <1>3 DEF HandlesKid
<1>5. \A j \in DOMAIN Kids(n) : HandlesKid(w, n, j) <=> Yields(w[1], j)
  BY DEF HandlesKid
<1>6. v[2] # n /\ v[1] = "visit"
  BY <1>3
<1>7. HandsOver(ts, n)
  <2>1. \A k \in DOMAIN ts :
            \/ ts[k][2] = n /\ ts[k][1] # "visit"
            \/ \E j \in DOMAIN Kids(n) : ts[k] = <<"visit", Kid(n, j), 0>>
    BY <1>1
  <2>2. \A j \in DOMAIN Kids(n) : ~(HandlesKid(v, n, j) /\ HandlesKid(w, n, j))
    BY <1>4, <1>5
  <2> QED
    BY <1>1, <1>6, <2>1, <2>2 DEF HandsOver
<1>8. \A j \in DOMAIN Kids(n) : Handled(ts, n, j) <=> (j = i \/ Yields(w[1], j))
  BY <1>1, <1>4, <1>5 DEF Handled
<1>9. Includes(ts, w)
  BY <1>1 DEF Includes
<1> QED
  BY <1>1, <1>7, <1>8, <1>9

-----------------------------------------------------------------------------
(* How many instructions there are when one is made.                       *)
LEMMA CountMade ==
    ASSUME IsSeq(insts), NEW n, NEW op, NEW operands, Made(n, op, operands)
    PROVE  \A x : Count(x) \in Nat /\ Count(x)' = Count(x) + (IF x = n THEN 1 ELSE 0)
<1> PICK e : e = [op |-> op, operands |-> operands, node |-> n]
  OBVIOUS
<1>1. insts' = Append(insts, e)
  BY DEF Made
<1>2. PICK l : l = Len(insts)
  OBVIOUS
<1>3. /\ l \in Nat /\ DOMAIN insts = 1..l /\ DOMAIN insts' = 1..(l + 1)
      /\ \A i \in 1..l : insts'[i] = insts[i]
      /\ insts'[l + 1] = e
  BY <1>1, <1>2, AppendTo
<1>4. e.node = n
  OBVIOUS
<1> TAKE x
<1> PICK was, are : was = MadeFor(x) /\ are = MadeFor(x)'
  OBVIOUS
<1>5. was \subseteq 1..l /\ IsFiniteSet(was)
  <2>1. was \subseteq 1..l
    BY <1>3 DEF MadeFor
  <2>2. IsFiniteSet(1..l)
    BY <1>3, FS_Interval
  <2> QED
    BY <2>1, <2>2, FS_Subset
<1>6. are = IF x = n THEN was \union {l + 1} ELSE was
  <2>1. was = {i \in 1..l : insts[i].node = x}
    BY <1>3 DEF MadeFor
  <2>2. are = {i \in 1..(l + 1) : insts'[i].node = x}
    BY <1>3 DEF MadeFor
  <2>3. 1..(l + 1) = (1..l) \union {l + 1}
    BY <1>3
  <2>4. \A i : i \in are <=> (i \in was \/ (i = l + 1 /\ n = x))
    <3>1. \A i : i \in are <=> (i \in (1..l) \union {l + 1}) /\ insts'[i].node = x
      BY <2>2, <2>3
    <3>2. \A i \in 1..l : insts'[i].node = insts[i].node
      BY <1>3
    <3>3. insts'[l + 1].node = n
      BY <1>3, <1>4
    <3> QED
      BY <2>1, <3>1, <3>2, <3>3
  <2> QED
    BY <2>4
<1>7. Cardinality(was) \in Nat
  BY <1>5, FS_CardinalityType
<1>8. Cardinality(was \union {l + 1}) = Cardinality(was) + 1
  <2>1. l + 1 \notin was
    BY <1>3, <1>5
  <2> QED
    BY <1>5, <2>1, FS_AddElement
<1>9. Count(x) = Cardinality(was) /\ Count(x)' = Cardinality(are)
  BY DEF Count
<1> QED
  BY <1>6, <1>7, <1>8, <1>9

LEMMA CountSame ==
    ASSUME IsSeq(insts), insts' = insts
    PROVE  \A x : Count(x) \in Nat /\ Count(x)' = Count(x)
<1> TAKE x
<1>1. PICK S : insts \in Seq(S)
  BY DEF IsSeq
<1>2. PICK l : l = Len(insts)
  OBVIOUS
<1>3. l \in Nat /\ DOMAIN insts = 1..l
  BY <1>1, <1>2
<1>4. MadeFor(x) \subseteq 1..l
  BY <1>3 DEF MadeFor
<1>5. IsFiniteSet(1..l)
  BY <1>3, FS_Interval
<1>6. IsFiniteSet(MadeFor(x))
  BY <1>4, <1>5, FS_Subset
<1> QED
  BY <1>6, FS_CardinalityType DEF Count, MadeFor

-----------------------------------------------------------------------------
(* Where nothing is generated: in loops, and for the target of an          *)
(* assignment.                                                             *)
LEMMA NoKids ==
    ASSUME IsProgram(prog), NEW n \in Nodes, Kind(n) \in {"Ident", "Literal"}
    PROVE  DOMAIN Kids(n) = {}
<1>1. Kind(n) \notin {"Program", "Block", "Call"} /\ ChildKinds(Kind(n)) = {<<>>}
  BY DEF ChildKinds
<1>2. Len(Kids(n)) = Len(<<>>)
  BY <1>1, KidsFit
<1>3. DOMAIN Kids(n) = 1..Len(Kids(n))
  BY KidsArePending
<1> QED
  BY <1>2, <1>3

LEMMA LoopsAreSkipped ==
    ASSUME IsProgram(prog), NEW n \in Nodes, Kind(n) = "While"
    PROVE  Expected(n) = 0 /\ \A i \in DOMAIN Kids(n) : Skipped(n, i)
<1>1. ASSUME NEW x, n \in Path(prog, x) PROVE Expected(x) = 0
  BY <1>1 DEF Expected, InLoop
<1>2. n \in Path(prog, n)
  BY PathsGoUp DEF Nodes
<1> QED
  BY <1>1, <1>2, KidsPart DEF Skipped

LEMMA TargetsAreSkipped ==
    ASSUME IsProgram(prog), NEW n \in Nodes, Kind(n) = "Assign", Kind(Kid(n, 1)) = "Ident"
    PROVE  Skipped(n, 1)
<1> PICK m : m = Kid(n, 1)
  OBVIOUS
<1>1. 1 \in DOMAIN Kids(n) /\ m \in Nodes
  <2>1. Len(Kids(n)) = 2
    BY OperandsAreExpressions
  <2> QED
    BY <2>1, KidsArePending
<1>2. ASSUME NEW x \in Nodes, m \in Path(prog, x) PROVE x = m
  <2>1. m # x => \E i \in DOMAIN Kids(m) : Kid(m, i) \in Path(prog, x)
    BY <1>1, <1>2, PathsGoUp DEF Nodes, Kids, Kid
  <2> QED
    BY <1>1, <2>1, NoKids
<1>3. IsTarget(m)
  BY DEF IsTarget
<1>4. Expected(m) = 0
  BY <1>3, StandsIs DEF Expected
<1> QED
  BY <1>2, <1>4 DEF Skipped

LEMMA ExpectedOfCall ==
    ASSUME NEW n \in Nodes, NEW t, t[1] = "visit", t[2] = n, Proper(t), Kind(n) # "While"
    PROVE  ~IsTarget(n) /\ Expected(n) = Stands(n)
<1>1. ~InLoop(n)
  BY DEF InLoop, Proper
<1> QED
  BY <1>1 DEF Expected, Proper

LEMMA ProperCalls ==
    ASSUME IsProgram(prog), NEW n \in Nodes, NEW t, t[2] = n, Proper(t), Kind(n) # "While",
           NEW ts, HandsOver(ts, n), Kind(n) = "Assign" => ~Handled(ts, n, 1)
    PROVE  \A k \in DOMAIN ts : Proper(ts[k])
<1>1. \A m \in Path(prog, n) : Kind(m) # "While"
  BY DEF Proper
<1> TAKE k \in DOMAIN ts
<1>2. CASE ts[k][2] = n /\ ts[k][1] # "visit"
  BY <1>1, <1>2 DEF Proper
<1>3. ASSUME NEW i \in DOMAIN Kids(n), ts[k] = <<"visit", Kid(n, i), 0>>
      PROVE  Proper(ts[k])
  <2> PICK m : m = Kid(n, i)
    OBVIOUS
  <2>1. m \in Nodes /\ Path(prog, m) = {m} \union Path(prog, n)
    BY <1>3, KidsArePending, PathOfKid DEF Nodes, Kids, Kid
  <2>2. ASSUME IsTarget(m) PROVE FALSE
    <3> PICK l \in Nodes : Kind(l) = "Assign" /\ Kid(l, 1) = m
      BY <2>2 DEF IsTarget
    <3>1. 1 \in DOMAIN Kids(l)
      <4>1. Len(Kids(l)) = 2
        BY OperandsAreExpressions
      <4> QED
        BY <4>1, KidsArePending
    <3>2. m \in Path(prog, m)
      BY <2>1, PathsGoUp DEF Nodes
    <3>3. l = n /\ i = 1
      BY <1>3, <2>1, <3>1, <3>2, KidsPart
    <3>4. HandlesKid(ts[k], n, 1)
      BY <1>3, <3>3 DEF HandlesKid
    <3> QED
      BY <3>3, <3>4 DEF Handled
  <2>3. ts[k][1] = "visit" /\ ts[k][2] = m
    BY <1>3
  <2> QED
    BY <1>1, <2>1, <2>2, <2>3 DEF Proper
<1> QED
  BY <1>2, <1>3 DEF HandsOver

-----------------------------------------------------------------------------
(* What a handler does: it makes c instructions for its node, and passes   *)
(* the rest on.                                                            *)
Makes(n, c) == \A x : Count(x) \in Nat /\ Count(x)' = Count(x) + (IF x = n THEN c ELSE 0)

Counted(n) == Kind(n) \notin {"Program", "Method"}

WorkGoesOn(n) ==
    \E ts : /\ IsSeq(ts) /\ Then(ts)
            /\ \A k \in DOMAIN ts : Proper(ts[k])
            /\ \/ ReportedBy("IRGenerator")'
               \/ \E c \in {0, 1} : /\ Makes(n, c)
                                    /\ HandsOver(ts, n)
                                    /\ AllHanded(ts, Head(agenda), n)
                                    /\ Counted(n) => Owed(ts, Head(agenda), n, c)

(* The handler at the front, and what it is called for.                    *)
AtWork(n) == n \in Nodes /\ Head(agenda)[2] = n /\ Proper(Head(agenda)) /\ IsProgram(prog)

LEMMA NoMoreCalls ==
    ASSUME NEW n, AtWork(n), Then(<<>>), NEW c \in {0, 1}, Makes(n, c),
           \A i \in DOMAIN Kids(n) :
               \/ Skipped(n, i)
               \/ ~(Head(agenda)[1] = "visit" \/ Yields(Head(agenda)[1], i)),
           Counted(n) => c = Total(Head(agenda), n)
    PROVE  WorkGoesOn(n)
<1> PICK ts : ts = <<>>
  OBVIOUS
<1>1. /\ IsSeq(ts) /\ HandsOver(ts, n) /\ \A i : ~Handled(ts, n, i)
      /\ \A k \in DOMAIN ts : FALSE
  BY HandsNothing
<1>2. AllHanded(ts, Head(agenda), n)
  BY <1>1 DEF AllHanded
<1>3. Counted(n) => Owed(ts, Head(agenda), n, c)
  BY <1>1 DEF Owed
<1> QED
  BY <1>1, <1>2, <1>3 DEF WorkGoesOn

LEMMA FailsReported ==
    ASSUME NEW n, Then(<<>>), ReportedBy("IRGenerator")'
    PROVE  WorkGoesOn(n)
<1>1. IsSeq(<<>>) /\ \A k \in DOMAIN <<>> : FALSE
  BY HandsNothing
<1> QED
  BY <1>1 DEF WorkGoesOn

LEMMA VisitsAll ==
    ASSUME NEW n, AtWork(n), Then(Visits(Kids(n))), Makes(n, 0),
           Head(agenda)[1] = "visit", Kind(n) \in {"Block", "ExprStmt"}
    PROVE  WorkGoesOn(n)
<1> PICK ts : ts = Visits(Kids(n))
  OBVIOUS
<1> PICK h : h = Head(agenda)
  OBVIOUS
<1>1. n \in Nodes /\ IsProgram(prog) /\ h[2] = n /\ Proper(h)
  BY DEF AtWork
<1>2. /\ IsSeq(ts) /\ HandsOver(ts, n)
      /\ \A i \in DOMAIN Kids(n) : Handled(ts, n, i)
      /\ \A k \in DOMAIN ts : ts[k][2] # n
  BY <1>1, HandsVisits
<1>3. \A k \in DOMAIN ts : Proper(ts[k])
  BY <1>1, <1>2, ProperCalls
<1>4. AllHanded(ts, h, n)
  BY <1>2 DEF AllHanded
<1>5. Total(h, n) = 0
  BY <1>1, ExpectedOfCall, StandsIs DEF Total
<1>6. Owed(ts, h, n, 0)
  BY <1>2, <1>5 DEF Owed
<1> QED
  BY <1>2, <1>3, <1>4, <1>6 DEF WorkGoesOn

LEMMA VisitsAndMore ==
    ASSUME NEW n, AtWork(n), Kind(n) \notin {"While", "Assign"}, NEW c \in {0, 1}, Makes(n, c),
           NEW d \in Nat, NEW ns \in Seq(Nat),
           KidsAfter(ns, n, d),
           \A i \in DOMAIN Kids(n) :
               (Head(agenda)[1] = "visit" \/ Yields(Head(agenda)[1], i)) <=> i - d \in 1..Len(ns),
           NEW w, w[2] = n, w[1] \in {"leave", "end", "store", "op"},
           Counted(n) => c + Owes(w[1]) = Total(Head(agenda), n),
           Then(Visits(ns) \o <<w>>)
    PROVE  WorkGoesOn(n)
<1> PICK ts : ts = Visits(ns) \o <<w>>
  OBVIOUS
<1> PICK h : h = Head(agenda)
  OBVIOUS
<1>1. n \in Nodes /\ IsProgram(prog) /\ h[2] = n /\ Proper(h)
  BY DEF AtWork
<1>2. w[1] # "visit" /\ \A i : ~Yields(w[1], i)
  BY DEF Yields
<1>3. /\ IsSeq(ts) /\ HandsOver(ts, n)
      /\ \A i \in DOMAIN Kids(n) : Handled(ts, n, i) <=> i - d \in 1..Len(ns)
      /\ Includes(ts, w)
  <2>1. Includes(ts, w)
    BY <1>1, <1>2, HandsVisitsThen
  <2>2. IsSeq(ts) /\ HandsOver(ts, n)
    BY <1>1, <1>2, HandsVisitsThen
  <2>3. \A i \in DOMAIN Kids(n) : Handled(ts, n, i) <=> i - d \in 1..Len(ns)
    BY <1>1, <1>2, HandsVisitsThen
  <2> QED
    BY <2>1, <2>2, <2>3
<1>4. \A k \in DOMAIN ts : Proper(ts[k])
  BY <1>1, <1>3, ProperCalls
<1>5. AllHanded(ts, h, n)
  BY <1>3 DEF AllHanded
<1>6. Counted(n) => Owed(ts, h, n, c)
  BY <1>3 DEF Owed, Includes
<1> QED
  BY <1>3, <1>4, <1>5, <1>6 DEF WorkGoesOn

LEMMA VisitsOneAndMore ==
    ASSUME NEW n, AtWork(n), Kind(n) # "While", NEW c \in {0, 1}, Makes(n, c),
           NEW i \in DOMAIN Kids(n), Kind(n) = "Assign" => i # 1,
           NEW w, w[2] = n, w[1] \in {"branch", "else", "store", "ret"}, ~Yields(w[1], i),
           \A j \in DOMAIN Kids(n) :
               \/ Skipped(n, j)
               \/ (Head(agenda)[1] = "visit" \/ Yields(Head(agenda)[1], j))
                       <=> (j = i \/ Yields(w[1], j)),
           Kind(n) = "Assign" => w[1] = "store",
           c + Owes(w[1]) = Total(Head(agenda), n),
           Then(<<<<"visit", Kid(n, i), 0>>, w>>)
    PROVE  WorkGoesOn(n)
<1> PICK ts : ts = <<<<"visit", Kid(n, i), 0>>, w>>
  OBVIOUS
<1> PICK h : h = Head(agenda)
  OBVIOUS
<1>1. n \in Nodes /\ IsProgram(prog) /\ h[2] = n /\ Proper(h)
  BY DEF AtWork
<1>2. w[1] # "visit"
  OBVIOUS
<1>3. /\ IsSeq(ts) /\ HandsOver(ts, n)
      /\ \A j \in DOMAIN Kids(n) : Handled(ts, n, j) <=> (j = i \/ Yields(w[1], j))
      /\ Includes(ts, w)
  BY <1>1, <1>2, HandsTwo
<1>4. \A k \in DOMAIN ts : Proper(ts[k])
  <2>1. Kind(n) = "Assign" => ~Handled(ts, n, 1)
    <3>1. ASSUME Kind(n) = "Assign" PROVE ~Handled(ts, n, 1)
      <4>1. 1 \in DOMAIN Kids(n)
        <5>1. Len(Kids(n)) = 2
          BY <1>1, <3>1, OperandsAreExpressions
        <5> QED
          BY <1>1, <5>1, KidsArePending
      <4>2. ~Yields(w[1], 1)
        BY <3>1 DEF Yields
      <4> QED
        BY <1>3, <3>1, <4>1, <4>2
    <3> QED
      BY <3>1
  <2> QED
    BY <1>1, <1>3, <2>1, ProperCalls
<1>5. AllHanded(ts, h, n)
  BY <1>3 DEF AllHanded
<1>6. Owed(ts, h, n, c)
  BY <1>3 DEF Owed, Includes
<1> QED
  BY <1>3, <1>4, <1>5, <1>6 DEF WorkGoesOn

-----------------------------------------------------------------------------
MethodsKnown == \A n \in Nodes : Kind(n) = "Method" => symbolOf[n] # NULL

LEMMA YieldsIs ==
    ASSUME NEW i
    PROVE  /\ Yields("branch", i) <=> i > 1
           /\ Yields("else", i) <=> i > 2
           /\ \A what \in {"visit", "end", "store", "op", "ret", "leave"} : ~Yields(what, i)
BY DEF Yields

LEMMA AllKids ==
    ASSUME IsProgram(prog), NEW n \in Nodes
    PROVE  /\ Kids(n) \in Seq(Nat) /\ DOMAIN Kids(n) = 1..Len(Kids(n)) /\ Len(Kids(n)) \in Nat
           /\ KidsAfter(Kids(n), n, 0)
           /\ \A i \in DOMAIN Kids(n) : i - 0 \in 1..Len(Kids(n))
<1>1. /\ Kids(n) \in Seq(Nat) /\ DOMAIN Kids(n) = 1..Len(Kids(n)) /\ Len(Kids(n)) \in Nat
      /\ \A i \in DOMAIN Kids(n) : Kids(n)[i] = Kid(n, i)
  BY KidsArePending
<1>2. \A i \in 1..Len(Kids(n)) : i + 0 = i /\ i - 0 = i
  BY <1>1
<1> QED
  BY <1>1, <1>2 DEF KidsAfter

LEMMA ElseKids ==
    ASSUME IsProgram(prog), NEW n \in Nodes, Kind(n) = "If",
           NEW ns, ns = SubSeq(Kids(n), 3, Len(Kids(n)))
    PROVE  /\ ns \in Seq(Nat) /\ KidsAfter(ns, n, 2)
           /\ \A i \in DOMAIN Kids(n) : i > 2 <=> i - 2 \in 1..Len(ns)
<1>1. /\ Kids(n) \in Seq(Nat) /\ DOMAIN Kids(n) = 1..Len(Kids(n))
      /\ \A i \in DOMAIN Kids(n) : Kids(n)[i] = Kid(n, i)
  BY KidsArePending
<1>2. PICK l : l = Len(Kids(n))
  OBVIOUS
<1>3. l \in {2, 3}
  BY <1>2, IfHasKids
<1>4. /\ ns \in Seq(Nat) /\ Len(ns) = l - 2
      /\ \A k \in 1..(l - 2) : ns[k] = Kids(n)[k + 2]
  <2>1. ns \in Seq(Nat)
    BY <1>1, <1>2, <1>3
  <2>2. Len(ns) = l - 2
    BY <1>1, <1>2, <1>3
  <2>3. \A k \in 1..(l - 2) : ns[k] = Kids(n)[k + 2]
    BY <1>1, <1>2, <1>3
  <2> QED
    BY <2>1, <2>2, <2>3
<1>5. \A k \in 1..(l - 2) : k + 2 \in 1..l
  BY <1>3
<1>6. \A i \in 1..l : i > 2 <=> i - 2 \in 1..(l - 2)
  BY <1>3
<1> QED
  BY <1>1, <1>2, <1>4, <1>5, <1>6 DEF KidsAfter

LEMMA ReportedByGenerator ==
    ASSUME NEW n, NEW message, Fails(n, message)
    PROVE  Then(<<>>) /\ ReportedBy("IRGenerator")'
<1>1. <<"IRGenerator", message, n>> \in errors'
  BY DEF Fails, Report
<1>2. <<"IRGenerator", message, n>>[1] = "IRGenerator"
  OBVIOUS
<1> QED
  BY <1>1, <1>2 DEF Fails, ReportedBy

LEMMA FailureGoesOn ==
    ASSUME NEW n, \E message : Fails(n, message)
    PROVE  WorkGoesOn(n)
BY ReportedByGenerator, FailsReported

LEMMA CallEnds ==
    ASSUME NEW n, AtWork(n), NEW c \in {0, 1}, Makes(n, c), Then(<<>>),
           Head(agenda)[1] \in {"end", "store", "op", "ret", "leave"},
           Counted(n) => c = Owes(Head(agenda)[1])
    PROVE  WorkGoesOn(n)
<1>1. \A i : ~(Head(agenda)[1] = "visit" \/ Yields(Head(agenda)[1], i))
  BY YieldsIs
<1>2. Counted(n) => c = Total(Head(agenda), n)
  BY DEF Total
<1> QED
  BY <1>1, <1>2, NoMoreCalls

LEMMA AllKidsAndMore ==
    ASSUME NEW n, AtWork(n), NEW c \in {0, 1}, Makes(n, c),
           NEW w, w[2] = n, w[1] \in {"leave", "store", "op"},
           Head(agenda)[1] = "visit", Kind(n) \notin {"While", "Assign"},
           Counted(n) => c + Owes(w[1]) = Stands(n),
           Then(Visits(Kids(n)) \o <<w>>)
    PROVE  WorkGoesOn(n)
<1>1. n \in Nodes /\ IsProgram(prog) /\ Head(agenda)[2] = n /\ Proper(Head(agenda))
  BY DEF AtWork
<1>2. Total(Head(agenda), n) = Stands(n)
  BY <1>1, ExpectedOfCall DEF Total
<1>3. /\ Kids(n) \in Seq(Nat) /\ KidsAfter(Kids(n), n, 0)
      /\ \A i \in DOMAIN Kids(n) :
            (Head(agenda)[1] = "visit" \/ Yields(Head(agenda)[1], i)) <=> i - 0 \in 1..Len(Kids(n))
  BY <1>1, AllKids
<1>4. Counted(n) => c + Owes(w[1]) = Total(Head(agenda), n)
  BY <1>2
<1>5. 0 \in Nat /\ w[1] \in {"leave", "end", "store", "op"}
  OBVIOUS
<1> QED
  BY <1>3, <1>4, <1>5, VisitsAndMore

LEMMA GeneratorGoesOn ==
    ASSUME IsProgram(prog), CallsInv, IsSeq(insts), MethodsKnown,
           \A k \in DOMAIN agenda : Proper(agenda[k]),
           Generate, pass' = "generate"
    PROVE  \E n : AtWork(n) /\ WorkGoesOn(n)
<1>1. ~GeneratorDies
  BY DeathOf
<1> PICK n \in Pending \ {0} :
       \/ GenProgram(n)
       \/ GenProgramEnd(n)
       \/ GenMethodDecl(n)
       \/ GenMethodEnd(n, Head(agenda)[3])
       \/ GenNested(n)
       \/ GenUnknown(n)
       \/ GenReturn(n)
       \/ GenIf(n)
       \/ GenBranch(n, Head(agenda)[3])
       \/ GenElse(n, Head(agenda)[3])
       \/ GenIfEnd(n, Head(agenda)[3])
       \/ GenVarDecl(n)
       \/ GenIdentifier(n)
       \/ GenAssignment(n)
       \/ GenInitializer(n)
       \/ GenStore(n, Head(agenda)[3])
       \/ GenLiteral(n)
       \/ GenOperands(n)
       \/ GenOperator(n)
  BY <1>1 DEF Generate, GeneratorDies
<1>2. PICK h : h = Head(agenda)
  OBVIOUS
<1>3. n \in Nodes /\ agenda # <<>> /\ h[2] = n
  BY <1>2 DEF Pending
<1>4. h = agenda[1] /\ 1 \in DOMAIN agenda
  <2>1. PICK S : agenda \in Seq(S)
    BY DEF CallsInv, IsSeq
  <2> QED
    BY <1>2, <1>3, <2>1
<1>5. OfItsKind(h) /\ Proper(h)
  BY <1>4 DEF CallsInv
<1>6. AtWork(n)
  BY <1>2, <1>3, <1>5 DEF AtWork
<1>7. \A what, i : Generating(what, n, i) => h = <<what, n, i>>
  BY <1>2 DEF Generating, Doing, Task
<1>8. \A op, operands : Made(n, op, operands) => Makes(n, 1)
  BY CountMade DEF Makes
<1>9. insts' = insts => Makes(n, 0)
  BY CountSame DEF Makes
<1>10. h[1] = "visit" /\ Kind(n) # "While" => Total(h, n) = Stands(n) /\ ~IsTarget(n)
  BY <1>3, <1>5, ExpectedOfCall DEF Total
<1>11. h[1] # "visit" => Total(h, n) = Owes(h[1])
  BY DEF Total
<1>12. /\ Kids(n) \in Seq(Nat) /\ DOMAIN Kids(n) = 1..Len(Kids(n)) /\ Len(Kids(n)) \in Nat
       /\ KidsAfter(Kids(n), n, 0)
       /\ \A i \in DOMAIN Kids(n) : i - 0 \in 1..Len(Kids(n))
  BY <1>3, AllKids
<1>16. CASE GenProgram(n) \/ GenMethodDecl(n)
  <2>1. PICK i : /\ h = <<"visit", n, 0>> /\ Kind(n) \in {"Program", "Method"}
                 /\ Then(Visits(Kids(n)) \o <<<<"leave", n, i>>>>)
                 /\ insts' = insts
    <3>1. CASE GenProgram(n)
      BY <1>7, <3>1 DEF GenProgram, Task
    <3>2. CASE GenMethodDecl(n)
      <4>1. symbolOf[n] # NULL
        BY <1>3, <3>2 DEF GenMethodDecl, MethodsKnown
      <4> QED
        BY <1>7, <3>2, <4>1 DEF GenMethodDecl, Task
    <3> QED
      BY <1>16, <3>1, <3>2
  <2>2. PICK w : w = <<"leave", n, i>>
    OBVIOUS
  <2>3. w[2] = n /\ w[1] = "leave" /\ ~Counted(n) /\ h[1] = "visit"
    BY <2>1, <2>2 DEF Counted
  <2> QED
    BY <1>2, <1>6, <1>9, <2>1, <2>2, <2>3, AllKidsAndMore
<1>17. CASE GenProgramEnd(n) \/ GenMethodEnd(n, Head(agenda)[3])
  <2>1. /\ h[1] = "leave" /\ Kind(n) \in {"Program", "Method"} /\ Then(<<>>)
        /\ \E operands : CloseWithRet(n, operands)
    BY <1>7, <1>17 DEF GenProgramEnd, GenMethodEnd
  <2>2. Makes(n, 0) \/ Makes(n, 1)
    BY <1>8, <1>9, <2>1 DEF CloseWithRet, EmitNothing, Emit
  <2>3. ~Counted(n)
    BY <2>1 DEF Counted
  <2> QED
    BY <1>2, <1>6, <2>1, <2>2, <2>3, CallEnds
<1>18. CASE GenNested(n)
  <2>1. /\ h[1] = "visit" /\ Kind(n) \in {"Block", "ExprStmt", "While"}
        /\ insts' = insts
    BY <1>7, <1>18 DEF GenNested
  <2>2. CASE Kind(n) = "While"
    <3>1. Then(<<>>)
      BY <1>18, <2>2 DEF GenNested
    <3>2. Total(h, n) = 0 /\ \A i \in DOMAIN Kids(n) : Skipped(n, i)
      BY <1>3, <2>1, <2>2, LoopsAreSkipped DEF Total
    <3> QED
      BY <1>2, <1>6, <1>9, <2>1, <3>1, <3>2, NoMoreCalls
  <2>3. CASE Kind(n) # "While"
    <3>1. Then(Visits(Kids(n)))
      BY <1>18, <2>3 DEF GenNested
    <3> QED
      BY <1>2, <1>6, <1>9, <2>1, <2>3, <3>1, VisitsAll
  <2> QED
    BY <2>2, <2>3
<1>19. CASE GenUnknown(n)
  BY <1>6, <1>19, FailureGoesOn DEF GenUnknown
<1>20. CASE GenLiteral(n)
  <2>1. h[1] = "visit" /\ Kind(n) = "Literal" /\ Then(<<>>) /\ insts' = insts
    BY <1>7, <1>20 DEF GenLiteral, EmitNothing
  <2>2. DOMAIN Kids(n) = {} /\ Total(h, n) = 0
    BY <1>3, <1>10, <2>1, NoKids, StandsIs
  <2> QED
    BY <1>2, <1>6, <1>9, <2>1, <2>2, NoMoreCalls
<1>21. CASE GenReturn(n)
  <2>1. Kind(n) = "Return"
    BY <1>21 DEF GenReturn
  <2>2. CASE Generating("visit", n, 0)
    <3>1. PICK w : w = <<"ret", n, 0>>
      OBVIOUS
    <3>2. /\ h[1] = "visit" /\ Then(<<<<"visit", Kid(n, 1), 0>>, w>>)
          /\ insts' = insts
      BY <1>7, <1>21, <2>2, <3>1 DEF GenReturn, Task, EmitNothing, Generating, Doing
    <3>3. DOMAIN Kids(n) = {1}
      <4>1. Len(Kids(n)) = 1
        BY <1>3, <2>1, OneKid
      <4> QED
        BY <1>12, <4>1
    <3>4. w[2] = n /\ w[1] = "ret" /\ \A i : ~Yields(w[1], i)
      BY <3>1, YieldsIs
    <3>5. 0 + Owes(w[1]) = Total(h, n)
      BY <1>10, <2>1, <3>2, <3>4, OwesIs, StandsIs
    <3> QED
      BY <1>2, <1>6, <1>9, <2>1, <3>2, <3>3, <3>4, <3>5, VisitsOneAndMore
  <2>3. CASE ~Generating("visit", n, 0)
    <3>1. /\ h[1] = "ret" /\ Then(<<>>) /\ \E operands : Made(n, "Ret", operands)
      BY <1>7, <1>21, <2>3 DEF GenReturn, Emit
    <3> QED
      BY <1>2, <1>6, <1>8, <3>1, OwesIs, CallEnds
  <2> QED
    BY <2>2, <2>3
<1>22. CASE GenIf(n)
  <2>1. PICK w : w = <<"branch", n, Len(blocks) + 1>>
    OBVIOUS
  <2>2. /\ h[1] = "visit" /\ Kind(n) = "If"
        /\ Then(<<<<"visit", Kid(n, 1), 0>>, w>>)
        /\ insts' = insts
    BY <1>7, <1>22, <2>1 DEF GenIf, Task
  <2>3. 1 \in DOMAIN Kids(n) /\ \A i \in DOMAIN Kids(n) : i = 1 \/ i > 1
    <3>1. Len(Kids(n)) \in {2, 3}
      BY <1>3, <2>2, IfHasKids
    <3> QED
      BY <1>12, <3>1
  <2>4. w[2] = n /\ w[1] = "branch"
    BY <2>1
  <2>5. 0 + Owes(w[1]) = Total(h, n)
    BY <1>10, <2>2, <2>4, OwesIs, StandsIs
  <2>6. \A i \in DOMAIN Kids(n) : i = 1 \/ Yields(w[1], i)
    BY <2>3, <2>4, YieldsIs
  <2>7. ~Yields(w[1], 1)
    BY <2>4, YieldsIs
  <2> QED
    BY <1>2, <1>6, <1>9, <2>2, <2>3, <2>4, <2>5, <2>6, <2>7, VisitsOneAndMore
<1>23. CASE GenBranch(n, Head(agenda)[3])
  <2>1. PICK w : w = <<"else", n, Head(agenda)[3]>>
    OBVIOUS
  <2>2. /\ h[1] = "branch" /\ Then(<<<<"visit", Kid(n, 2), 0>>, w>>)
        /\ \E operands : Made(n, "CondBr", operands)
    BY <1>7, <1>23, <2>1 DEF GenBranch, Task
  <2>3. Kind(n) = "If"
    BY <1>3, <1>5, <2>2 DEF OfItsKind
  <2>4. 2 \in DOMAIN Kids(n) /\ \A i \in DOMAIN Kids(n) : i > 1 <=> (i = 2 \/ i > 2)
    <3>1. Len(Kids(n)) \in {2, 3}
      BY <1>3, <2>3, IfHasKids
    <3> QED
      BY <1>12, <3>1
  <2>5. w[2] = n /\ w[1] = "else"
    BY <2>1
  <2>6. 1 + Owes(w[1]) = Total(h, n)
    BY <1>11, <2>2, <2>5, OwesIs
  <2>7. \A i \in DOMAIN Kids(n) :
            (h[1] = "visit" \/ Yields(h[1], i)) <=> (i = 2 \/ Yields(w[1], i))
    BY <2>2, <2>4, <2>5, YieldsIs
  <2>8. ~Yields(w[1], 2)
    BY <2>5, YieldsIs
  <2> QED
    BY <1>2, <1>6, <1>8, <2>2, <2>3, <2>4, <2>5, <2>6, <2>7, <2>8, VisitsOneAndMore
<1>24. CASE GenElse(n, Head(agenda)[3])
  <2>1. PICK w : w = <<"end", n, Head(agenda)[3]>>
    OBVIOUS
  <2>2. PICK ns : ns = SubSeq(Kids(n), 3, Len(Kids(n)))
    OBVIOUS
  <2>3. /\ h[1] = "else" /\ Then(Visits(ns) \o <<w>>)
        /\ \E operands : Made(n, "Br", operands)
    BY <1>7, <1>24, <2>1, <2>2 DEF GenElse, JumpTo, Task
  <2>4. Kind(n) = "If"
    BY <1>3, <1>5, <2>3 DEF OfItsKind
  <2>5. /\ ns \in Seq(Nat) /\ KidsAfter(ns, n, 2)
        /\ \A i \in DOMAIN Kids(n) : i > 2 <=> i - 2 \in 1..Len(ns)
    BY <1>3, <2>2, <2>4, ElseKids
  <2>6. w[2] = n /\ w[1] = "end" /\ 2 \in Nat
    BY <2>1
  <2>7. 1 + Owes(w[1]) = Total(h, n)
    BY <1>11, <2>3, <2>6, OwesIs
  <2>8. \A i \in DOMAIN Kids(n) :
            (h[1] = "visit" \/ Yields(h[1], i)) <=> i - 2 \in 1..Len(ns)
    BY <2>3, <2>5, YieldsIs
  <2> QED
    BY <1>2, <1>6, <1>8, <2>3, <2>4, <2>5, <2>6, <2>7, <2>8, VisitsAndMore
<1>25. CASE GenIfEnd(n, Head(agenda)[3])
  <2>1. h[1] = "end" /\ Then(<<>>) /\ \E operands : Made(n, "Br", operands)
    BY <1>7, <1>25 DEF GenIfEnd, JumpTo
  <2> QED
    BY <1>2, <1>6, <1>8, <2>1, OwesIs, CallEnds
<1>26. CASE GenVarDecl(n)
  <2>1. PICK w : w = <<"store", n, 0>>
    OBVIOUS
  <2>2. /\ h[1] = "visit" /\ Kind(n) = "VarDecl"
        /\ Made(n, "Alloca", <<>>)
        /\ Then(Visits(Kids(n)) \o (IF Kids(n) = <<>> THEN <<>> ELSE <<w>>))
    BY <1>7, <1>26, <2>1 DEF GenVarDecl, Emit, Task
  <2>3. w[2] = n /\ w[1] = "store"
    BY <2>1
  <2>4. CASE Kids(n) = <<>>
    <3>1. Visits(Kids(n)) \o <<>> = <<>>
      BY <2>4 DEF Visits
    <3>2. Then(<<>>)
      BY <2>2, <2>4, <3>1
    <3>3. DOMAIN Kids(n) = {} /\ Len(Kids(n)) = 0
      BY <2>4
    <3>4. 1 = Total(h, n)
      BY <1>10, <2>2, <3>3, StandsIs
    <3> QED
      BY <1>2, <1>6, <1>8, <2>2, <3>2, <3>3, <3>4, NoMoreCalls
  <2>5. CASE Kids(n) # <<>>
    <3>1. Len(Kids(n)) = 1
      <4>1. Len(Kids(n)) \in {0, 1}
        BY <1>3, <2>2, VarDeclKids
      <4> QED
        BY <1>12, <2>5, <4>1
    <3>2. Then(Visits(Kids(n)) \o <<w>>)
      BY <2>2, <2>5
    <3>3. 1 + Owes(w[1]) = Stands(n)
      BY <2>2, <2>3, <3>1, OwesIs, StandsIs
    <3> QED
      BY <1>2, <1>6, <1>8, <2>2, <2>3, <3>2, <3>3, AllKidsAndMore
  <2> QED
    BY <2>4, <2>5
<1>27. CASE GenIdentifier(n)
  <2>1. CASE symbolOf[n] \in DOMAIN locals
    <3>1. /\ h[1] = "visit" /\ Kind(n) = "Ident" /\ Then(<<>>)
          /\ \E operands : Made(n, "Load", operands)
      BY <1>7, <1>27, <2>1 DEF GenIdentifier, Emit
    <3>2. DOMAIN Kids(n) = {}
      BY <1>3, <3>1, NoKids
    <3>3. 1 = Total(h, n)
      BY <1>10, <3>1, StandsIs
    <3> QED
      BY <1>2, <1>6, <1>8, <3>1, <3>2, <3>3, NoMoreCalls
  <2>2. CASE symbolOf[n] \notin DOMAIN locals
    BY <1>6, <1>27, <2>2, FailureGoesOn DEF GenIdentifier
  <2> QED
    BY <2>1, <2>2
<1>28. CASE GenAssignment(n)
  <2>1. CASE ~IsLocal(Kid(n, 1))
    BY <1>6, <1>28, <2>1, FailureGoesOn DEF GenAssignment
  <2>2. CASE IsLocal(Kid(n, 1))
    <3>1. PICK w : w = <<"store", n, symbolOf[Kid(n, 1)]>>
      OBVIOUS
    <3>2. /\ h[1] = "visit" /\ Kind(n) = "Assign"
          /\ Then(<<<<"visit", Kid(n, 2), 0>>, w>>)
          /\ insts' = insts
      BY <1>7, <1>28, <2>2, <3>1 DEF GenAssignment, Task, EmitNothing
    <3>3. w[2] = n /\ w[1] = "store" /\ \A i : ~Yields(w[1], i)
      BY <3>1, YieldsIs
    <3>4. 0 + Owes(w[1]) = Total(h, n)
      BY <1>10, <3>2, <3>3, OwesIs, StandsIs
    <3>5. DOMAIN Kids(n) = {1, 2}
      <4>1. Len(Kids(n)) = 2
        BY <1>3, <3>2, OperandsAreExpressions
      <4> QED
        BY <1>12, <4>1
    <3>6. Skipped(n, 1)
      BY <1>3, <2>2, <3>2, TargetsAreSkipped DEF IsLocal
    <3>7. \A i \in DOMAIN Kids(n) :
              \/ Skipped(n, i)
              \/ (h[1] = "visit" \/ Yields(h[1], i)) <=> (i = 2 \/ Yields(w[1], i))
      BY <3>2, <3>5, <3>6
    <3>8. 2 \in DOMAIN Kids(n) /\ 2 # 1 /\ Kind(n) # "While"
      BY <3>2, <3>5
    <3> QED
      BY <1>2, <1>6, <1>9, <3>2, <3>3, <3>4, <3>7, <3>8, VisitsOneAndMore
  <2> QED
    BY <2>1, <2>2
<1>29. CASE GenInitializer(n) \/ GenStore(n, Head(agenda)[3])
  <2>1. h[1] = "store" /\ Then(<<>>) /\ \E operands : Made(n, "Store", operands)
    BY <1>7, <1>29 DEF GenInitializer, GenStore, Emit
  <2> QED
    BY <1>2, <1>6, <1>8, <2>1, OwesIs, CallEnds
<1>30. CASE GenOperands(n)
  <2>1. PICK w : w = <<"op", n, 0>>
    OBVIOUS
  <2>2. /\ h[1] = "visit" /\ Kind(n) \in {"Binary", "Unary"}
        /\ Then(Visits(Kids(n)) \o <<w>>)
        /\ insts' = insts
    BY <1>7, <1>30, <2>1 DEF GenOperands, Task
  <2>3. w[2] = n /\ w[1] = "op"
    BY <2>1
  <2>4. 0 + Owes(w[1]) = Stands(n)
    BY <2>2, <2>3, OwesIs, StandsIs
  <2> QED
    BY <1>2, <1>6, <1>9, <2>2, <2>3, <2>4, AllKidsAndMore
<1>31. CASE GenOperator(n)
  <2>1. h[1] = "op" /\ Then(<<>>)
    <3>1. h[1] = "op"
      <4>1. Generating("op", n, 0)
        BY <1>31 DEF GenOperator
      <4> QED
        BY <1>7, <4>1
    <3>2. Then(<<>>)
      BY <1>31 DEF GenOperator, Fails
    <3> QED
      BY <3>1, <3>2
  <2>2. (\E op, operands : Made(n, op, operands)) \/ (\E message : Fails(n, message))
    BY <1>31 DEF GenOperator, Emit
  <2> QED
    BY <1>2, <1>6, <1>8, <2>1, <2>2, OwesIs, CallEnds, FailureGoesOn
<1> QED
  BY <1>6, <1>16, <1>17, <1>18, <1>19, <1>20, <1>21, <1>22, <1>23, <1>24, <1>25, <1>26,
     <1>27, <1>28, <1>29, <1>30, <1>31

-----------------------------------------------------------------------------
(* While the tree is analysed the analysis keeps its invariant; of a tree  *)
(* that it accepts, every method has a symbol; from the root's call on,    *)
(* all instructions are accounted for, unless one has been reported to be  *)
(* missing.                                                                *)
Complete == ReportedBy("IRGenerator") \/ \A x \in Nodes : Counted(x) => Count(x) = Expected(x)

Counting ==
    /\ MethodsKnown
    /\ \A k \in DOMAIN agenda : Proper(agenda[k])
    /\ ReportedBy("IRGenerator") \/ \A x \in Nodes : Counted(x) => Accounted(x)

CountingInv ==
    /\ pass = "parse" \/ pass \in Analysing => SettledInv
    /\ pass = "accepted" => MethodsKnown
    /\ pass = "generate" => agenda = <<Task("visit", 0, 0)>> \/ Counting
    /\ pass = "destroy" => Complete

LEMMA SettledMethods ==
    ASSUME Settled
    PROVE  MethodsKnown
<1>1. NULL \notin Nat \X Names
  BY ScopesAssumption
<1>2. ASSUME NEW n \in Nodes, Kind(n) = "Method" PROVE symbolOf[n] # NULL
  <2>1. symbolOf[n] \in Refs(ctx)
    BY <1>2 DEF Settled, Own
  <2> QED
    BY <1>1, <2>1 DEF Refs
<1> QED
  BY <1>2 DEF MethodsKnown

LEMMA NothingCounted ==
    ASSUME insts = <<>>
    PROVE  \A x : Count(x) = 0
<1>1. DOMAIN insts = {}
  OBVIOUS
<1>2. \A x : MadeFor(x) = {}
  BY <1>1 DEF MadeFor
<1> QED
  BY <1>2, FS_EmptySet DEF Count

(* The first call has the whole tree before it.                            *)
AllAhead ==
    /\ \A k \in DOMAIN agenda : Proper(agenda[k])
    /\ \A x \in Nodes : Accounted(x)

LEMMA AheadAtFirst ==
    ASSUME IsProgram(prog), insts = <<>>, agenda = <<Task("visit", 1, 0)>>
    PROVE  AllAhead
<1> PICK t : t = <<"visit", 1, 0>>
  OBVIOUS
<1>1. DOMAIN agenda = {1} /\ agenda[1] = t
  BY DEF Task
<1>2. t[1] = "visit" /\ t[2] = 1
  OBVIOUS
<1>3. Proper(t)
  <2>1. 1 \in Nodes /\ Kind(1) = "Program" /\ Path(prog, 1) = {1}
    BY PathIs DEF IsProgram, Nodes, Kind
  <2>2. ~IsTarget(1)
    <3> SUFFICES ASSUME NEW m \in Nodes, Kind(m) = "Assign", Kid(m, 1) = 1
                 PROVE  FALSE
      BY DEF IsTarget
    <3>1. Len(Kids(m)) = 2
      BY OperandsAreExpressions
    <3>2. 1 \in DOMAIN Kids(m)
      BY <3>1, KidsArePending
    <3>3. Kid(m, 1) # 1
      BY <3>2, KidsArePending
    <3> QED
      BY <3>3
  <2> QED
    BY <1>2, <2>1, <2>2 DEF Proper
<1>4. ASSUME NEW x \in Nodes PROVE Accounted(x)
  <2>1. 1 \in Path(prog, x)
    BY <1>4, PathsGoUp DEF Nodes
  <2>2. Due(t, x) = Expected(x) /\ Expected(x) \in Nat
    BY <1>2, <1>4, <2>1, ExpectedIsNumber DEF Due, Reaches
  <2>3. Count(x) = 0
    BY NothingCounted
  <2>4. DOMAIN Dues(agenda, x) = {1} /\ Dues(agenda, x)[1] = Due(t, x)
    BY <1>1 DEF Dues
  <2>5. Count(x) + Dues(agenda, x)[1] = Expected(x)
    BY <2>2, <2>3, <2>4
  <2> QED
    BY <2>4, <2>5 DEF Accounted, Meets
<1> QED
  BY <1>1, <1>3, <1>4 DEF AllAhead

AtFirst == IsProgram(prog) /\ insts = <<>> /\ agenda = <<Task("visit", 1, 0)>>

LEMMA StartsAhead == AtFirst => AllAhead
BY AheadAtFirst DEF AtFirst

LEMMA CountingStarts ==
    ASSUME IsProgram(prog)', insts' = <<>>, MethodsKnown',
           agenda' = <<Task("visit", 1, 0)>>
    PROVE  Counting'
<1>1. AtFirst'
  BY DEF AtFirst
<1>2. AllAhead'
  BY <1>1, StartsAhead, PTL
<1> QED
  BY <1>2 DEF Counting, AllAhead

LEMMA CountingGoesOn ==
    ASSUME IsProgram(prog), CallsInv, InstsInv, Counting, Generate, pass' = "generate"
    PROVE  Counting'
<1>1. IsSeq(insts) /\ IsSeq(agenda)
  BY DEF InstsInv, CallsInv
<1>2. PICK n : AtWork(n) /\ WorkGoesOn(n)
  BY <1>1, GeneratorGoesOn DEF Counting
<1>3. UNCHANGED <<prog, symbolOf>>
  BY DEF Generate, AnalysisUnchanged
<1>4. agenda # <<>>
  BY DEF Generate, Pending, GenNull, Generating, Doing
<1>5. errors \subseteq errors'
  BY GenerateReports DEF Reports
<1>6. ReportedBy("IRGenerator") => ReportedBy("IRGenerator")'
  BY <1>5 DEF ReportedBy
<1>7. PICK ts : /\ IsSeq(ts) /\ Then(ts)
                /\ \A k \in DOMAIN ts : Proper(ts[k])
                /\ \/ ReportedBy("IRGenerator")'
                   \/ \E c \in {0, 1} : /\ Makes(n, c)
                                        /\ HandsOver(ts, n)
                                        /\ AllHanded(ts, Head(agenda), n)
                                        /\ Counted(n) => Owed(ts, Head(agenda), n, c)
  BY <1>2 DEF WorkGoesOn
<1>8. n \in Nodes /\ Head(agenda)[2] = n
  BY <1>2 DEF AtWork
<1>9. MethodsKnown'
  BY <1>3 DEF Counting, MethodsKnown, Nodes, Kind
<1>10. \A k \in DOMAIN agenda' : Proper(agenda'[k])
  <2> PICK l, m : l = Len(agenda) /\ m = Len(ts)
    OBVIOUS
  <2>1. /\ m \in Nat /\ l \in Nat
        /\ DOMAIN ts = 1..m /\ DOMAIN agenda = 1..l
        /\ DOMAIN agenda' = 1..(m + l - 1)
        /\ \A k \in 1..m : agenda'[k] = ts[k]
        /\ \A k \in (m + 1)..(m + l - 1) : agenda'[k] = agenda[k - m + 1]
    BY <1>1, <1>4, <1>7, NextCalls
  <2>2. ASSUME NEW k \in DOMAIN agenda' PROVE Proper(agenda'[k])
    <3>1. k \in 1..m \/ (k \in (m + 1)..(m + l - 1) /\ k - m + 1 \in 1..l)
      BY <2>1
    <3>2. PICK t : t = agenda'[k]
      OBVIOUS
    <3>3. Proper(t)
      BY <1>7, <2>1, <3>1, <3>2 DEF Counting
    <3> QED
      BY <3>2, <3>3
  <2> QED
    BY <2>2
<1>11. ASSUME ~ReportedBy("IRGenerator")', NEW x \in Nodes, Counted(x)
       PROVE  Accounted(x)'
  <2>1. PICK c \in {0, 1} : /\ Makes(n, c)
                            /\ HandsOver(ts, n)
                            /\ AllHanded(ts, Head(agenda), n)
                            /\ Counted(n) => Owed(ts, Head(agenda), n, c)
    BY <1>7, <1>11
  <2>2. Accounted(x)
    BY <1>6, <1>11 DEF Counting
  <2>3. /\ Count(x) \in Nat /\ Count(x)' = Count(x) + (IF x = n THEN c ELSE 0)
    BY <2>1 DEF Makes
  <2>4. c \in Nat /\ (x = n => Owed(ts, Head(agenda), n, c))
    BY <1>11, <2>1
  <2>5. Carries(ts, x)
    BY <1>8, <2>1, <2>3, <2>4, HandedOver
  <2>6. Count(x)' \in Nat /\ Count(x) <= Count(x)'
    BY <2>3, <2>4
  <2> QED
    BY <1>1, <1>3, <1>4, <1>7, <2>2, <2>3, <2>5, <2>6, StillAccounted
<1>12. Nodes' = Nodes /\ \A x : Counted(x)' = Counted(x)
  BY <1>3 DEF Counted, Nodes, Kind
<1>13. (\A k \in DOMAIN agenda : Proper(agenda[k]))'
  BY <1>3, <1>10 DEF Proper, Nodes, Kind, IsTarget, Kids, Kid
<1>14. ReportedBy("IRGenerator")' \/ (\A x \in Nodes : Counted(x) => Accounted(x))'
  <2>1. ASSUME ~ReportedBy("IRGenerator")'
        PROVE  (\A x \in Nodes : Counted(x) => Accounted(x))'
    <3>1. \A x \in Nodes : Counted(x) => Accounted(x)'
      BY <1>11, <2>1
    <3> QED
      BY <1>12, <3>1
  <2> QED
    BY <2>1
<1> QED
  BY <1>9, <1>13, <1>14 DEF Counting

LEMMA CountingEnds ==
    ASSUME IsProgram(prog), Counting, agenda = <<>>
    PROVE  Complete
<1>1. DOMAIN agenda = {}
  OBVIOUS
<1>2. \A x : DOMAIN Dues(agenda, x) = {}
  BY <1>1 DEF Dues
<1>3. \A x \in Nodes : Accounted(x) => Count(x) = Expected(x)
  BY <1>2 DEF Accounted, Meets
<1> QED
  BY <1>3 DEF Counting, Complete

LEMMA CompleteSame ==
    ASSUME UNCHANGED <<prog, insts>>, errors \subseteq errors', Complete
    PROVE  Complete'
<1>1. /\ Nodes' = Nodes /\ \A x : Counted(x)' = Counted(x)
      /\ \A x : Count(x)' = Count(x)
  BY DEF Nodes, Counted, Kind, Count, MadeFor
<1>2. \A x : Expected(x)' = Expected(x)
  BY DueSame
<1>3. ReportedBy("IRGenerator") => ReportedBy("IRGenerator")'
  BY DEF ReportedBy
<1> QED
  BY <1>1, <1>2, <1>3 DEF Complete

LEMMA CountingSame ==
    ASSUME UNCHANGED <<prog, agenda, errors, insts>>, MethodsKnown', Counting
    PROVE  Counting'
<1>1. Nodes' = Nodes /\ \A x : Counted(x)' = Counted(x)
  BY DEF Nodes, Counted, Kind
<1>2. \A x : /\ Expected(x)' = Expected(x)
             /\ Count(x)' = Count(x)
             /\ Dues(agenda, x)' = Dues(agenda, x)
  BY DueSame DEF Count, MadeFor, Dues
<1>3. \A x : Accounted(x)' = Accounted(x)
  BY <1>2 DEF Accounted
<1>4. (\A k \in DOMAIN agenda : Proper(agenda[k]))'
  BY DEF Counting, Proper, Nodes, Kind, IsTarget, Kids, Kid
<1>5. ReportedBy("IRGenerator")' = ReportedBy("IRGenerator")
  BY DEF ReportedBy
<1> QED
  BY <1>1, <1>3, <1>4, <1>5 DEF Counting

(* The analysis accepts a program when the checker is over and nowhere else. *)
LEMMA AcceptsInTheEnd ==
    ASSUME Analysis, pass' = "accepted"
    PROVE  AfterChecker
<1>1. ~Collect /\ ~Resolve /\ ~Check
  BY CollectReports, ResolveReports, CheckReports
<1>2. ~AfterCollector
  BY DEF AfterCollector, Finish, Begin
<1>3. ~AfterResolver
  BY DEF AfterResolver, Finish, Begin
<1> QED
  BY <1>1, <1>2, <1>3 DEF Analysis

LEMMA CountingNext ==
    ASSUME CountingInv, TreeInv, GeneratorInv, GeneratorInv', [Main]_driverVars
    PROVE  CountingInv'
<1>1. CASE UNCHANGED driverVars
  <2>1. UNCHANGED semaVars /\ UNCHANGED <<prog, pass, agenda, symbolOf, errors, insts>>
    BY <1>1 DEF driverVars, semaVars, genVars
  <2>2. SettledInv => SettledInv'
    BY <2>1, SettledSame
  <2>3. MethodsKnown => MethodsKnown'
    BY <2>1 DEF MethodsKnown, Nodes, Kind
  <2>4. Complete => Complete'
    BY <2>1, CompleteSame
  <2>5. Counting => Counting'
    BY <2>1, <2>3, CountingSame DEF Counting
  <2> QED
    BY <2>1, <2>2, <2>3, <2>4, <2>5 DEF CountingInv
<1>2. CASE Refuse
  BY <1>2 DEF Refuse, CountingInv, Analysing
<1>3. CASE Parse
  <2>1. pass = "parse" /\ pass' = pass /\ UNCHANGED semaVars
    BY <1>3 DEF Parse, semaVars
  <2> QED
    BY <2>1, SettledSame DEF CountingInv, Analysing
<1>4. CASE AfterParser
  <2>1. pass = "parse" /\ calls = <<>>
    BY <1>4 DEF AfterParser, P!Finished
  <2>2. CASE syntaxErrors # {} \/ source.malformed
    BY <1>4, <2>2 DEF AfterParser, CountingInv, Analysing
  <2>3. CASE ~(syntaxErrors # {} \/ source.malformed)
    <3>1. IsProgram(parts[1])
      BY <2>1, <2>3, LastPart DEF TreeInv, PartsFit
    <3>2. Analyze(parts[1]) /\ pass' = "collect"
      BY <1>4, <2>3 DEF AfterParser, Analyze
    <3>3. SettledInv'
      BY <2>1, <3>1, <3>2, ParserSettled DEF CountingInv
    <3> QED
      BY <3>2, <3>3 DEF CountingInv, Analysing
  <2> QED
    BY <2>2, <2>3
<1>5. CASE Analysis /\ UNCHANGED <<source, parserVars, genVars, teardownVars, status>>
  <2>1. pass \in Analysing /\ pass' \in Analysing \union Ends
    BY <1>5, AnalysisPasses
  <2>2. SettledInv /\ SettledInv'
    BY <1>5, <2>1, AnalysisSettled DEF CountingInv
  <2>3. ASSUME pass' = "accepted" PROVE MethodsKnown'
    <3>1. AfterChecker
      BY <1>5, <2>3, AcceptsInTheEnd
    <3>2. pass = "check" /\ UNCHANGED <<prog, symbolOf>>
      BY <3>1 DEF AfterChecker, PassOver
    <3>3. MethodsKnown
      BY <2>2, <3>2, SettledMethods DEF SettledInv
    <3> QED
      BY <3>2, <3>3 DEF MethodsKnown, Nodes, Kind
  <2> QED
    BY <2>1, <2>2, <2>3 DEF CountingInv, Analysing, Ends
<1>6. CASE StartGenerator
  <2>1. /\ pass \in {"accepted", "rejected"} /\ pass' = "generate"
        /\ UNCHANGED <<prog, symbolOf, insts>>
    BY <1>6 DEF StartGenerator, AnalysisUnchanged
  <2>2. CASE pass = "rejected"
    BY <1>6, <2>1, <2>2 DEF StartGenerator, CountingInv, Analysing
  <2>3. CASE pass = "accepted"
    <3>1. MethodsKnown'
      BY <2>1, <2>3 DEF CountingInv, MethodsKnown, Nodes, Kind
    <3>2. insts' = <<>> /\ IsProgram(prog)'
      BY <2>1, <2>3 DEF GeneratorInv, Before
    <3>3. agenda' = <<Task("visit", 1, 0)>>
      BY <1>6, <2>3 DEF StartGenerator
    <3>4. Counting'
      BY <3>1, <3>2, <3>3, CountingStarts
    <3> QED
      BY <2>1, <3>4 DEF CountingInv, Analysing
  <2> QED
    BY <2>1, <2>2, <2>3
<1>7. CASE Generate /\ UNCHANGED <<source, parserVars, teardownVars, status>>
  <2>1. /\ pass = "generate" /\ pass' \in {"generate", "crashed"}
        /\ pass' = "generate" => agenda # <<Task("visit", 0, 0)>>
    BY <1>7, GenerateReports
  <2>2. pass' = "generate" => Counting'
    BY <1>7, <2>1, CountingGoesOn DEF CountingInv, GeneratorInv
  <2> QED
    BY <2>1, <2>2 DEF CountingInv, Analysing
<1>8. CASE StartTeardown
  <2>1. /\ pass = "generate" /\ agenda = <<>> /\ pass' = "destroy"
        /\ UNCHANGED <<prog, insts, errors>>
    BY <1>8 DEF StartTeardown, PassOver, AnalysisUnchanged, genVars
  <2>2. agenda # <<Task("visit", 0, 0)>>
    BY <2>1
  <2>3. Complete
    BY <2>1, <2>2, CountingEnds DEF CountingInv, GeneratorInv
  <2>4. Complete'
    BY <2>1, <2>3, CompleteSame
  <2> QED
    BY <2>1, <2>4 DEF CountingInv, Analysing
<1>9. CASE Teardown
  <2>1. /\ pass = "destroy" /\ pass' \in {"destroy", "aborted", "exited"}
        /\ UNCHANGED <<prog, insts, errors>>
    BY <1>9 DEF Teardown, DestroyInstruction, DestroyBlock, DestroyConstants, DestroyValue,
                Exit, AnalysisUnchanged, genVars
  <2>2. Complete'
    BY <2>1, CompleteSame DEF CountingInv
  <2> QED
    BY <2>1, <2>2 DEF CountingInv, Analysing
<1> QED
  BY <1>1, <1>2, <1>3, <1>4, <1>5, <1>6, <1>7, <1>8, <1>9 DEF Main

(* A program of which the generator does not complain is generated as a    *)
(* whole: a handler makes its instructions or passes them on to the calls  *)
(* it makes, each child to one of them, and none is left out of the walk   *)
(* but the targets of assignments and the bodies of loops.                 *)
THEOREM NothingIsLeftOut == MainSpec => []AllGenerated
<1>1. Init => CountingInv
  BY SettledInit DEF Init, InitPasses, CountingInv, Analysing
<1>2. CountingInv => AllGenerated
  BY DEF CountingInv, Complete, AllGenerated, Generated, Counted, Count, MadeFor, Expected
<1> QED
  BY <1>1, <1>2, CountingNext, TreeHolds, GeneratorHolds, PTL DEF MainSpec

-----------------------------------------------------------------------------
(* While an assignment waits to store, the calls before it are for nodes   *)
(* of its right side.                                                      *)
RightSideOf(u, t) == Stores(u) => Kid(u[2], 2) \in Path(prog, t[2])

RightSidesFirst == \A k \in DOMAIN agenda : \A j \in 1..(k - 1) : RightSideOf(agenda[k], agenda[j])

Handler(n) ==
    \/ GenProgram(n)
    \/ GenProgramEnd(n)
    \/ GenMethodDecl(n)
    \/ GenMethodEnd(n, Head(agenda)[3])
    \/ GenNested(n)
    \/ GenUnknown(n)
    \/ GenReturn(n)
    \/ GenIf(n)
    \/ GenBranch(n, Head(agenda)[3])
    \/ GenElse(n, Head(agenda)[3])
    \/ GenIfEnd(n, Head(agenda)[3])
    \/ GenVarDecl(n)
    \/ GenIdentifier(n)
    \/ GenAssignment(n)
    \/ GenInitializer(n)
    \/ GenStore(n, Head(agenda)[3])
    \/ GenLiteral(n)
    \/ GenOperands(n)
    \/ GenOperator(n)

(* The new calls of a handler: a store comes after the right side only.    *)
Delegates(ts, n) ==
    /\ IsSeq(ts) /\ Then(ts)
    /\ \A k \in DOMAIN ts : ts[k][2] = n \/ \E i \in DOMAIN Kids(n) : ts[k][2] = Kid(n, i)
    /\ \A k \in DOMAIN ts : \A j \in 1..(k - 1) : RightSideOf(ts[k], ts[j])

Delegated(n) == \E ts : Delegates(ts, n)

LEMMA NothingDelegated ==
    ASSUME NEW n, Then(<<>>)
    PROVE  Delegated(n)
<1> PICK ts : ts = <<>>
  OBVIOUS
<1>1. IsSeq(ts) /\ DOMAIN ts = {}
  BY HandsNothing
<1> QED
  BY <1>1 DEF Delegated, Delegates

(* Calls that hand over, of a node that is no assignment.                  *)
LEMMA OtherDelegates ==
    ASSUME NEW n, Kind(n) # "Assign", NEW ts, IsSeq(ts), Then(ts), HandsOver(ts, n)
    PROVE  Delegated(n)
<1>1. \A k \in DOMAIN ts : ~Stores(ts[k])
  <2> SUFFICES ASSUME NEW k \in DOMAIN ts, Stores(ts[k]) PROVE FALSE
    OBVIOUS
  <2>1. ts[k][1] = "store" /\ Kind(ts[k][2]) = "Assign"
    BY DEF Stores
  <2>2. ts[k][2] = n
    BY <2>1 DEF HandsOver
  <2> QED
    BY <2>1, <2>2
<1>2. \A k \in DOMAIN ts : ts[k][2] = n \/ \E i \in DOMAIN Kids(n) : ts[k][2] = Kid(n, i)
  BY DEF HandsOver
<1> QED
  BY <1>1, <1>2 DEF Delegated, Delegates, RightSideOf

LEMMA HandlersDelegate ==
    ASSUME IsProgram(prog), CallsInv, NEW n \in Pending \ {0}, Handler(n)
    PROVE  Delegated(n)
<1>1. Then(<<>>) => Delegated(n)
  BY NothingDelegated
<1> PICK h : h = Head(agenda)
  OBVIOUS
<1>2. n \in Nodes /\ agenda # <<>> /\ h[2] = n
  BY DEF Pending
<1>3. OfItsKind(h)
  <2>1. h = agenda[1] /\ 1 \in DOMAIN agenda
    <3>1. PICK S : agenda \in Seq(S)
      BY DEF CallsInv, IsSeq
    <3> QED
      BY <1>2, <3>1
  <2> QED
    BY <2>1 DEF CallsInv
<1>4. \A what, i : Generating(what, n, i) => h = <<what, n, i>>
  BY DEF Generating, Doing, Task
<1>5. /\ Kids(n) \in Seq(Nat) /\ DOMAIN Kids(n) = 1..Len(Kids(n)) /\ Len(Kids(n)) \in Nat
      /\ KidsAfter(Kids(n), n, 0) /\ 0 \in Nat
  BY <1>2, AllKids
<1>6. Kind(n) # "Assign" /\ Then(Visits(Kids(n))) => Delegated(n)
  BY <1>2, HandsVisits, OtherDelegates
<1>7. \A d \in Nat : \A ns \in Seq(Nat) : \A w :
         /\ KidsAfter(ns, n, d) /\ w[2] = n /\ w[1] \in {"leave", "store", "op", "end"}
         /\ Kind(n) # "Assign" /\ Then(Visits(ns) \o <<w>>)
         => Delegated(n)
  <2> SUFFICES ASSUME NEW d \in Nat, NEW ns \in Seq(Nat), NEW w,
                      KidsAfter(ns, n, d), w[2] = n, w[1] \in {"leave", "store", "op", "end"},
                      Kind(n) # "Assign", Then(Visits(ns) \o <<w>>)
               PROVE  Delegated(n)
    OBVIOUS
  <2>1. w[1] # "visit" /\ \A i : ~Yields(w[1], i)
    BY DEF Yields
  <2> PICK ts : ts = Visits(ns) \o <<w>>
    OBVIOUS
  <2>2. IsSeq(ts) /\ HandsOver(ts, n)
    BY <1>2, <2>1, HandsVisitsThen
  <2> QED
    BY <2>2, OtherDelegates
<1>8. \A i \in DOMAIN Kids(n) : \A w :
         /\ w[2] = n /\ w[1] # "visit" /\ ~Yields(w[1], i)
         /\ Kind(n) # "Assign" /\ Then(<<<<"visit", Kid(n, i), 0>>, w>>)
         => Delegated(n)
  <2> SUFFICES ASSUME NEW i \in DOMAIN Kids(n), NEW w,
                      w[2] = n, w[1] # "visit", ~Yields(w[1], i), Kind(n) # "Assign",
                      Then(<<<<"visit", Kid(n, i), 0>>, w>>)
               PROVE  Delegated(n)
    OBVIOUS
  <2> PICK ts : ts = <<<<"visit", Kid(n, i), 0>>, w>>
    OBVIOUS
  <2>1. IsSeq(ts) /\ HandsOver(ts, n)
    BY <1>2, HandsTwo
  <2> QED
    BY <2>1, OtherDelegates
<1>9. CASE GenProgram(n) \/ GenMethodDecl(n)
  <2>1. \A i : /\ Kind(n) \in {"Program", "Method"}
               /\ Then(Visits(Kids(n)) \o <<<<"leave", n, i>>>>)
               => Delegated(n)
    <3> SUFFICES ASSUME NEW i, Kind(n) \in {"Program", "Method"},
                        Then(Visits(Kids(n)) \o <<<<"leave", n, i>>>>)
                 PROVE  Delegated(n)
      OBVIOUS
    <3> PICK w : w = <<"leave", n, i>>
      OBVIOUS
    <3>1. w[2] = n /\ w[1] = "leave"
      OBVIOUS
    <3> QED
      BY <1>5, <1>7, <3>1
  <2>2. CASE GenProgram(n)
    BY <2>1, <2>2 DEF GenProgram, Task
  <2>3. CASE GenMethodDecl(n)
    BY <1>1, <2>1, <2>3 DEF GenMethodDecl, Task
  <2> QED
    BY <1>9, <2>2, <2>3
<1>10. CASE \/ GenProgramEnd(n) \/ GenMethodEnd(n, Head(agenda)[3]) \/ GenUnknown(n)
            \/ GenIfEnd(n, Head(agenda)[3]) \/ GenIdentifier(n) \/ GenInitializer(n)
            \/ GenStore(n, Head(agenda)[3]) \/ GenLiteral(n) \/ GenOperator(n)
  BY <1>1, <1>10 DEF GenProgramEnd, GenMethodEnd, GenUnknown, GenIfEnd, GenIdentifier,
                     GenInitializer, GenStore, GenLiteral, GenOperator, Fails
<1>11. CASE GenNested(n)
  BY <1>1, <1>6, <1>11 DEF GenNested
<1>12. CASE GenReturn(n)
  <2>1. CASE ~Then(<<>>)
    <3> PICK w : w = <<"ret", n, 0>>
      OBVIOUS
    <3>1. Kind(n) = "Return" /\ Then(<<<<"visit", Kid(n, 1), 0>>, w>>)
      BY <1>12, <2>1 DEF GenReturn, Task
    <3>2. w[2] = n /\ w[1] = "ret" /\ ~Yields("ret", 1)
      BY YieldsIs
    <3>3. 1 \in DOMAIN Kids(n)
      <4>1. Len(Kids(n)) = 1
        BY <1>2, <3>1, OneKid
      <4> QED
        BY <1>5, <4>1
    <3> QED
      BY <1>8, <3>1, <3>2, <3>3
  <2> QED
    BY <1>1, <2>1
<1>13. CASE GenIf(n)
  <2> PICK w : w = <<"branch", n, Len(blocks) + 1>>
    OBVIOUS
  <2>1. Kind(n) = "If" /\ Then(<<<<"visit", Kid(n, 1), 0>>, w>>)
    BY <1>13 DEF GenIf, Task
  <2>2. w[2] = n /\ w[1] = "branch" /\ ~Yields("branch", 1)
    BY YieldsIs
  <2>3. 1 \in DOMAIN Kids(n)
    <3>1. Len(Kids(n)) \in {2, 3}
      BY <1>2, <2>1, IfHasKids
    <3> QED
      BY <1>5, <3>1
  <2> QED
    BY <1>8, <2>1, <2>2, <2>3
<1>14. CASE GenBranch(n, Head(agenda)[3])
  <2> PICK w : w = <<"else", n, Head(agenda)[3]>>
    OBVIOUS
  <2>1. h[1] = "branch" /\ Then(<<<<"visit", Kid(n, 2), 0>>, w>>)
    BY <1>4, <1>14 DEF GenBranch, Task
  <2>2. Kind(n) = "If"
    BY <1>2, <1>3, <2>1 DEF OfItsKind
  <2>3. w[2] = n /\ w[1] = "else" /\ ~Yields("else", 2)
    BY YieldsIs
  <2>4. 2 \in DOMAIN Kids(n)
    <3>1. Len(Kids(n)) \in {2, 3}
      BY <1>2, <2>2, IfHasKids
    <3> QED
      BY <1>5, <3>1
  <2> QED
    BY <1>8, <2>1, <2>2, <2>3, <2>4
<1>15. CASE GenElse(n, Head(agenda)[3])
  <2> PICK w : w = <<"end", n, Head(agenda)[3]>>
    OBVIOUS
  <2> PICK ns : ns = SubSeq(Kids(n), 3, Len(Kids(n)))
    OBVIOUS
  <2>1. h[1] = "else" /\ Then(Visits(ns) \o <<w>>)
    BY <1>4, <1>15 DEF GenElse, Task
  <2>2. Kind(n) = "If"
    BY <1>2, <1>3, <2>1 DEF OfItsKind
  <2>3. ns \in Seq(Nat) /\ KidsAfter(ns, n, 2) /\ 2 \in Nat
    BY <1>2, <2>2, ElseKids
  <2>4. w[2] = n /\ w[1] = "end"
    OBVIOUS
  <2> QED
    BY <1>7, <2>1, <2>2, <2>3, <2>4
<1>16. CASE GenVarDecl(n)
  <2> PICK w : w = <<"store", n, 0>>
    OBVIOUS
  <2>1. /\ Kind(n) = "VarDecl"
        /\ Then(Visits(Kids(n)) \o (IF Kids(n) = <<>> THEN <<>> ELSE <<w>>))
    BY <1>16 DEF GenVarDecl, Task
  <2>2. CASE Kids(n) = <<>>
    <3>1. Visits(Kids(n)) \o <<>> = <<>>
      BY <2>2 DEF Visits
    <3> QED
      BY <1>1, <2>1, <2>2, <3>1
  <2>3. CASE Kids(n) # <<>>
    <3>1. Then(Visits(Kids(n)) \o <<w>>)
      BY <2>1, <2>3
    <3>2. w[2] = n /\ w[1] = "store"
      OBVIOUS
    <3> QED
      BY <1>5, <1>7, <2>1, <3>1, <3>2
  <2> QED
    BY <2>2, <2>3
<1>17. CASE GenAssignment(n)
  <2>1. CASE ~IsLocal(Kid(n, 1))
    BY <1>1, <1>17, <2>1 DEF GenAssignment, Fails
  <2>2. CASE IsLocal(Kid(n, 1))
    <3> PICK w : w = <<"store", n, symbolOf[Kid(n, 1)]>>
      OBVIOUS
    <3> PICK v : v = <<"visit", Kid(n, 2), 0>>
      OBVIOUS
    <3> PICK ts : ts = <<v, w>>
      OBVIOUS
    <3>1. Kind(n) = "Assign" /\ Then(ts)
      BY <1>17, <2>2 DEF GenAssignment, Task
    <3>2. 2 \in DOMAIN Kids(n)
      <4>1. Len(Kids(n)) = 2
        BY <1>2, <3>1, OperandsAreExpressions
      <4> QED
        BY <1>5, <4>1
    <3>3. IsSeq(ts) /\ DOMAIN ts = {1, 2} /\ ts[1] = v /\ ts[2] = w
      BY TwoCalls
    <3>4. w[2] = n /\ v[2] = Kid(n, 2)
      OBVIOUS
    <3>5. Kid(n, 2) \in Path(prog, Kid(n, 2))
      BY <1>2, <3>2, KidsArePending, PathsGoUp DEF Nodes
    <3>6. RightSideOf(w, v)
      BY <3>4, <3>5 DEF RightSideOf
    <3>7. \A k \in DOMAIN ts : \A j \in 1..(k - 1) : k = 2 /\ j = 1
      BY <3>3
    <3>8. \A k \in DOMAIN ts : \A j \in 1..(k - 1) : RightSideOf(ts[k], ts[j])
      BY <3>3, <3>6, <3>7
    <3>9. \A k \in DOMAIN ts : ts[k][2] = n \/ \E i \in DOMAIN Kids(n) : ts[k][2] = Kid(n, i)
      BY <3>2, <3>3, <3>4
    <3>10. Delegates(ts, n)
      BY <3>1, <3>3, <3>8, <3>9 DEF Delegates
    <3> QED
      BY <3>10 DEF Delegated
  <2> QED
    BY <2>1, <2>2
<1>18. CASE GenOperands(n)
  <2> PICK w : w = <<"op", n, 0>>
    OBVIOUS
  <2>1. Kind(n) \in {"Binary", "Unary"} /\ Then(Visits(Kids(n)) \o <<w>>)
    BY <1>18 DEF GenOperands, Task
  <2>2. w[2] = n /\ w[1] = "op"
    OBVIOUS
  <2> QED
    BY <1>5, <1>7, <2>1, <2>2
<1> QED
  BY <1>9, <1>10, <1>11, <1>12, <1>13, <1>14, <1>15, <1>16, <1>17, <1>18 DEF Handler

LEMMA WaitingGoesOn ==
    ASSUME IsProgram(prog), CallsInv, RightSidesFirst, prog' = prog,
           NEW n \in Pending \ {0}, Delegated(n)
    PROVE  RightSidesFirst'
<1> PICK ts : Delegates(ts, n)
  BY DEF Delegated
<1> DEFINE m == Len(ts)
           a == agenda
<1>1. /\ IsSeq(agenda')
      /\ m \in Nat /\ Len(a) \in Nat
      /\ DOMAIN ts = 1..m /\ DOMAIN a = 1..Len(a)
      /\ DOMAIN agenda' = 1..(m + Len(a) - 1)
      /\ \A k \in 1..m : agenda'[k] = ts[k]
      /\ \A k \in (m + 1)..(m + Len(a) - 1) : agenda'[k] = a[k - m + 1]
      /\ Head(a) = a[1] /\ 1 \in 1..Len(a)
  BY NextCalls DEF Delegates, CallsInv, Pending
<1>2. n \in Nodes /\ a[1][2] = n
  BY <1>1 DEF Pending
<1>3. \A k \in (m + 1)..(m + Len(a) - 1) :
          k - m + 1 \in 2..Len(a) /\ k - m + 1 \in DOMAIN a /\ 1 \in 1..(k - m + 1 - 1)
  BY <1>1
<1>4. \A k \in DOMAIN ts : Path(prog, n) \subseteq Path(prog, ts[k][2])
  <2> TAKE k \in DOMAIN ts
  <2>1. CASE ts[k][2] = n
    BY <2>1
  <2>2. CASE \E i \in DOMAIN Kids(n) : ts[k][2] = Kid(n, i)
    <3>1. PICK i \in DOMAIN Kids(n) : ts[k][2] = Kid(n, i)
      BY <2>2
    <3>2. Path(prog, Kid(n, i)) = {Kid(n, i)} \union Path(prog, n)
      BY <1>2, PathOfKid DEF Nodes, Kids, Kid
    <3> QED
      BY <3>1, <3>2
  <2> QED
    BY <2>1, <2>2 DEF Delegates
<1>5. ASSUME NEW k \in DOMAIN agenda', NEW j \in 1..(k - 1)
      PROVE  RightSideOf(agenda'[k], agenda'[j])
  <2>1. CASE k \in 1..m
    <3>1. j \in 1..m
      BY <1>1, <2>1
    <3> QED
      BY <1>1, <2>1, <3>1 DEF Delegates
  <2>2. CASE k \in (m + 1)..(m + Len(a) - 1) /\ j \in 1..m
    <3> PICK u : u = a[k - m + 1]
      OBVIOUS
    <3>1. RightSideOf(u, a[1]) /\ agenda'[k] = u
      BY <1>1, <1>3, <2>2 DEF RightSidesFirst
    <3>2. agenda'[j] = ts[j] /\ j \in DOMAIN ts
      BY <1>1, <2>2
    <3>3. RightSideOf(u, ts[j])
      BY <1>2, <1>4, <3>1, <3>2 DEF RightSideOf
    <3> QED
      BY <3>1, <3>2, <3>3
  <2>3. CASE k \in (m + 1)..(m + Len(a) - 1) /\ j \in (m + 1)..(m + Len(a) - 1)
    <3> PICK q : q = k - m + 1
      OBVIOUS
    <3> PICK r : r = j - m + 1
      OBVIOUS
    <3>1. r \in 1..(q - 1)
      BY <1>1, <2>3
    <3>2. q \in DOMAIN agenda
      BY <1>3, <2>3
    <3>3. RightSideOf(agenda[q], agenda[r])
      BY <3>1, <3>2 DEF RightSidesFirst
    <3>4. agenda'[k] = agenda[q] /\ agenda'[j] = agenda[r]
      BY <1>1, <2>3
    <3> QED
      BY <3>3, <3>4, Zenon
  <2>4. k \in 1..m \/ (k \in (m + 1)..(m + Len(a) - 1)
                          /\ (j \in 1..m \/ j \in (m + 1)..(m + Len(a) - 1)))
    BY <1>1
  <2> QED
    BY <2>1, <2>2, <2>3, <2>4
<1>6. \A u, t : RightSideOf(u, t) => RightSideOf(u, t)'
  BY DEF RightSideOf, Stores, Kind, Kid
<1> QED
  BY <1>5, <1>6 DEF RightSidesFirst

-----------------------------------------------------------------------------
Explained(n) == \E m \in Nodes : Kind(m) = "VarDecl" /\ Kid(n, 2) \in Path(prog, m)

AllExplained == \A n \in stale : Explained(n)

NullGenerated == \E f \in DOMAIN functions : functions[f].decl = 0

IteratorsInv ==
    /\ pass \in Before => functions = <<>> /\ stale = {}
    /\ pass = "generate" => RightSidesFirst
    /\ pass = "crashed" /\ functions # <<>> => stale # {} \/ NullGenerated
    /\ AllExplained

LEMMA StillExplained ==
    ASSUME AllExplained, prog' = prog, stale' \subseteq stale
    PROVE  AllExplained'
BY DEF AllExplained, Explained, Nodes, Kind, Kid

(* A declaration finds the iterators of those assignments whose right side *)
(* it is part of.                                                          *)
LEMMA HoldersExplained ==
    ASSUME IsSeq(agenda), RightSidesFirst, NEW n \in Pending \ {0}, Kind(n) = "VarDecl",
           Head(agenda)[1] = "visit", NEW x \in Holders
    PROVE  Explained(x)
<1>1. PICK S : agenda \in Seq(S)
  BY DEF IsSeq
<1>2. n \in Nodes /\ agenda # <<>> /\ Head(agenda)[2] = n
  BY DEF Pending
<1>3. agenda[1] = Head(agenda) /\ DOMAIN agenda \subseteq Nat \ {0}
  BY <1>1, <1>2
<1>4. PICK k \in DOMAIN agenda : agenda[k][1] = "store" /\ agenda[k][2] = x
  BY DEF Holders
<1>5. Kind(x) = "Assign"
  BY DEF Holders
<1>6. k # 1
  BY <1>3, <1>4
<1>7. 1 \in 1..(k - 1)
  BY <1>3, <1>4, <1>6
<1>8. RightSideOf(agenda[k], agenda[1])
  BY <1>7 DEF RightSidesFirst
<1>9. Stores(agenda[k])
  BY <1>4, <1>5 DEF Stores
<1>10. Kid(x, 2) \in Path(prog, n)
  BY <1>2, <1>3, <1>4, <1>8, <1>9 DEF RightSideOf
<1> QED
  BY <1>2, <1>10 DEF Explained

LEMMA IteratorsGenerate ==
    ASSUME IteratorsInv, IsProgram(prog), pass = "generate" => CallsInv, Generate
    PROVE  IteratorsInv'
<1>1. prog' = prog /\ pass = "generate" /\ pass' \in {"generate", "crashed"}
  BY GenerateReports DEF Generate, AnalysisUnchanged
<1>2. CallsInv /\ RightSidesFirst /\ AllExplained
  BY <1>1 DEF IteratorsInv
<1>3. CASE GenNull
  <2>1. stale' = stale /\ CreateFunction(0) /\ pass' = "crashed"
    BY <1>3 DEF GenNull, Crash
  <2>2. NullGenerated'
    <3>1. functions' = Append(functions, [decl |-> 0, blocks |-> <<Len(blocks) + 1>>])
      BY <2>1 DEF CreateFunction
    <3> QED
      BY <3>1 DEF NullGenerated
  <2> QED
    BY <1>1, <1>2, <2>1, <2>2, StillExplained DEF IteratorsInv, Before
<1>4. CASE \E n \in Pending \ {0} : GenStaleIterator(n, Head(agenda)[3])
  <2>1. stale' = stale /\ stale # {} /\ pass' = "crashed"
    BY <1>4 DEF GenStaleIterator, Crash
  <2> QED
    BY <1>1, <1>2, <2>1, StillExplained DEF IteratorsInv, Before
<1>5. CASE ~GeneratorDies
  <2> PICK n \in Pending \ {0} : Handler(n)
    BY <1>5 DEF Generate, GeneratorDies, Handler
  <2>1. RightSidesFirst'
    BY <1>1, <1>2, HandlersDelegate, WaitingGoesOn
  <2>2. pass' = pass
    BY DEF Handler, GenProgram, GenProgramEnd, GenMethodDecl, GenMethodEnd, GenNested,
           GenUnknown, GenReturn, GenIf, GenBranch, GenElse, GenIfEnd, GenVarDecl,
           GenIdentifier, GenAssignment, GenInitializer, GenStore, GenLiteral, GenOperands,
           GenOperator
  <2>3. CASE GenVarDecl(n)
    <3>1. Kind(n) = "VarDecl" /\ Head(agenda)[1] = "visit" /\ stale' \subseteq stale \union Holders
      BY <2>3 DEF GenVarDecl, MayRehash, Generating, Doing, Task
    <3>2. \A x \in Holders : Explained(x)
      BY <1>2, <3>1, HoldersExplained DEF CallsInv
    <3>3. \A x : Explained(x) => Explained(x)'
      BY <1>1 DEF Explained, Nodes, Kind, Kid
    <3>4. AllExplained'
      BY <1>2, <3>1, <3>2, <3>3 DEF AllExplained
    <3> QED
      BY <1>1, <2>1, <2>2, <3>4 DEF IteratorsInv, Before
  <2>4. CASE ~GenVarDecl(n)
    <3>1. stale' \subseteq stale
      BY <2>4 DEF Handler, GenProgram, GenProgramEnd, GenMethodDecl, GenMethodEnd, GenNested,
             GenUnknown, GenReturn, GenIf, GenBranch, GenElse, GenIfEnd,
             GenIdentifier, GenAssignment, GenInitializer, GenStore, GenLiteral, GenOperands,
             GenOperator
    <3> QED
      BY <1>1, <1>2, <2>1, <2>2, <3>1, StillExplained DEF IteratorsInv, Before
  <2> QED
    BY <2>3, <2>4
<1> QED
  BY <1>3, <1>4, <1>5 DEF GeneratorDies

LEMMA IteratorsNext ==
    ASSUME IteratorsInv, GeneratorInv, [Main]_driverVars
    PROVE  IteratorsInv'
<1>1. CASE UNCHANGED driverVars
  <2>1. UNCHANGED <<prog, pass, agenda, functions, stale>>
    BY <1>1 DEF driverVars, semaVars, genVars
  <2>2. RightSidesFirst => RightSidesFirst'
    BY <2>1 DEF RightSidesFirst, RightSideOf, Stores, Kind, Kid
  <2>3. AllExplained'
    BY <2>1, StillExplained DEF IteratorsInv
  <2> QED
    BY <2>1, <2>2, <2>3 DEF IteratorsInv, NullGenerated
<1>2. CASE Refuse \/ Parse \/ AfterParser
  <2>1. /\ pass = "parse" /\ pass' \in {"parse", "exited", "collect"}
        /\ functions' = functions /\ stale' = stale
    BY <1>2 DEF Refuse, Parse, AfterParser, Analyze, semaVars, genVars
  <2> QED
    BY <2>1 DEF IteratorsInv, Before, AllExplained
<1>3. CASE Analysis /\ UNCHANGED <<source, parserVars, genVars, teardownVars, status>>
  <2>1. /\ pass \in Analysing /\ pass' \in Analysing \union Ends
        /\ functions' = functions /\ stale' = stale
    BY <1>3, AnalysisPasses DEF genVars
  <2> QED
    BY <2>1 DEF IteratorsInv, Before, AllExplained, Analysing, Ends
<1>4. CASE StartGenerator
  <2> PICK t : agenda' = <<t>>
    BY <1>4 DEF StartGenerator
  <2>1. /\ pass \in {"accepted", "rejected"} /\ pass' = "generate" /\ stale' = stale
    BY <1>4 DEF StartGenerator
  <2>2. \A k \in DOMAIN agenda' : \A j \in 1..(k - 1) : FALSE
    BY SMT
  <2>3. RightSidesFirst'
    BY <2>2 DEF RightSidesFirst
  <2> QED
    BY <2>1, <2>3 DEF IteratorsInv, Before, AllExplained
<1>5. CASE Generate /\ UNCHANGED <<source, parserVars, teardownVars, status>>
  <2>1. pass = "generate"
    BY <1>5, GenerateReports
  <2> QED
    BY <1>5, <2>1, IteratorsGenerate DEF GeneratorInv
<1>6. CASE StartTeardown \/ Teardown
  <2>1. /\ pass \in {"generate", "destroy"} /\ pass' \in {"destroy", "aborted", "exited"}
        /\ UNCHANGED <<prog, stale>>
    BY <1>6 DEF StartTeardown, PassOver, Teardown, DestroyInstruction, DestroyBlock,
                DestroyConstants, DestroyValue, Exit, AnalysisUnchanged, genVars
  <2>2. AllExplained'
    BY <2>1, StillExplained DEF IteratorsInv
  <2> QED
    BY <2>1, <2>2 DEF IteratorsInv, Before
<1> QED
  BY <1>1, <1>2, <1>3, <1>4, <1>5, <1>6 DEF Main

(* An iterator that generateAssignmentExpr keeps becomes invalid only by a *)
(* declaration in the right side it waits for; and the generator dies of   *)
(* nothing but the use of one, and the null tree.                          *)
THEOREM StaleIteratorsAreExplained == MainSpec => []StaleIteratorsExplained
<1>1. Init => IteratorsInv
  BY DEF Init, InitPasses, InitIR, IteratorsInv, Before, AllExplained
<1>2. IteratorsInv => StaleIteratorsExplained
  BY DEF IteratorsInv, AllExplained, Explained, NullGenerated, StaleIteratorsExplained
<1> QED
  BY <1>1, <1>2, IteratorsNext, GeneratorHolds, PTL DEF MainSpec
=============================================================================

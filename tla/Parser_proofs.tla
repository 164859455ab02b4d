--------------------------- MODULE Parser_proofs ---------------------------
(***************************************************************************)
(* What the token look-ahead of Parser guarantees for every file.          *)
(***************************************************************************)
EXTENDS Parser, TLAPS

(* A stream the parser can hold: of the right type, in order, and with no  *)
(* more than two tokens waiting.                                           *)
Good(t) == t \in Streams /\ InOrder(t) /\ Len(t.peeked_tokens) <= 2

StreamInv == input \in Seq(TokenTypes) /\ Good(tokens)

-----------------------------------------------------------------------------
(* The end of the file is a position. *)
LEMMA EndPosition ==
    ASSUME input \in Seq(TokenTypes)
    PROVE  End \in Nat \ {0}
BY DEF End

(* peek adds the tokens that follow, at most up to the number it is asked. *)
LEMMA FilledGood ==
    ASSUME input \in Seq(TokenTypes), NEW t \in Streams, InOrder(t)
    PROVE  /\ Filled(t) \in Streams
           /\ InOrder(Filled(t))
           /\ Len(Filled(t).peeked_tokens) = Len(t.peeked_tokens) + 1
<1> DEFINE q == t.peeked_tokens
           u == Filled(t)
<1>1. End \in Nat \ {0} /\ q \in Seq(Positions) /\ t.read \in Positions
        /\ t.current \in Positions /\ Len(q) \in Nat
  BY EndPosition DEF Streams
<1>2. After(t.read) \in Positions
  BY <1>1 DEF After, Positions
<1>3. u.peeked_tokens = Append(q, After(t.read)) /\ u.read = After(t.read)
        /\ u.current = t.current
  BY DEF Filled, Streams
<1>4. u \in Streams
  <2>1. Append(q, After(t.read)) \in Seq(Positions)
    BY <1>1, <1>2
  <2> QED
    BY <1>1, <1>2, <2>1 DEF Filled, Streams
<1>5. Len(u.peeked_tokens) = Len(q) + 1
  BY <1>1, <1>3
<1>6. After(t.read) = Later(t.current, Len(q) + 1)
  BY <1>1 DEF InOrder, Later, After, Positions
<1>7. InOrder(u)
  <2> SUFFICES ASSUME NEW i \in 1..Len(q) + 1
               PROVE  u.peeked_tokens[i] = Later(t.current, i)
    BY <1>3, <1>5, <1>6 DEF InOrder
  <2>1. CASE i = Len(q) + 1
    BY <1>1, <1>2, <1>3, <1>6, <2>1
  <2>2. CASE i \in 1..Len(q)
    <3>1. u.peeked_tokens[i] = q[i]
      BY <1>1, <1>2, <1>3, <2>2
    <3> QED
      BY <2>2, <3>1 DEF InOrder
  <2> QED
    BY <1>1, <2>1, <2>2
<1> QED
  BY <1>4, <1>5, <1>7

LEMMA PeekGood ==
    ASSUME input \in Seq(TokenTypes), NEW t, Good(t), NEW count \in {1, 2}
    PROVE  Good(Peek(t, count))
<1>1. /\ t \in Streams /\ InOrder(t)
      /\ Len(t.peeked_tokens) \in Nat /\ Len(t.peeked_tokens) <= 2
  <2>1. t \in Streams /\ InOrder(t) /\ Len(t.peeked_tokens) <= 2
    BY DEF Good
  <2>2. t.peeked_tokens \in Seq(Positions)
    BY <2>1 DEF Streams
  <2>3. Len(t.peeked_tokens) \in Nat
    BY <2>2
  <2> QED
    BY <2>1, <2>3
<1>2. CASE Len(t.peeked_tokens) >= count
  BY <1>2 DEF Peek
<1>3. CASE Len(t.peeked_tokens) = count - 1
  <2>1. Peek(t, count) = Filled(t)
    BY <1>1, <1>3 DEF Peek
  <2> QED
    BY <1>1, <1>3, <2>1, FilledGood DEF Good
<1>4. CASE ~(Len(t.peeked_tokens) >= count) /\ Len(t.peeked_tokens) # count - 1
  <2>1. Peek(t, count) = Filled(Filled(t))
    BY <1>1, <1>4 DEF Peek
  <2>2. Len(t.peeked_tokens) = 0
    BY <1>1, <1>4
  <2> DEFINE s == Filled(t)
  <2>3. s \in Streams /\ InOrder(s) /\ Len(s.peeked_tokens) = Len(t.peeked_tokens) + 1
    BY <1>1, FilledGood
  <2> HIDE DEF s
  <2>4. /\ Filled(s) \in Streams /\ InOrder(Filled(s))
        /\ Len(Filled(s).peeked_tokens) = Len(s.peeked_tokens) + 1
    BY <2>3, FilledGood
  <2>5. Len(Filled(s).peeked_tokens) <= 2
    BY <2>2, <2>3, <2>4
  <2> QED
    BY <2>1, <2>4, <2>5 DEF Good, s
<1> QED
  BY <1>2, <1>3, <1>4

(* advance takes the next token, from the deque or from the lexer. *)
LEMMA AdvanceGood ==
    ASSUME input \in Seq(TokenTypes), NEW t, Good(t)
    PROVE  Good(Advance(t))
<1> DEFINE q == t.peeked_tokens
           u == Advance(t)
<1>1. End \in Nat \ {0} /\ q \in Seq(Positions) /\ t.read \in Positions
        /\ t.current \in Positions /\ Len(q) \in Nat /\ t \in Streams /\ InOrder(t)
        /\ Len(q) <= 2
  BY EndPosition DEF Good, Streams
<1>2. CASE q = <<>>
  <2>1. u.current = After(t.read) /\ u.read = After(t.read) /\ u.peeked_tokens = <<>>
    BY <1>1, <1>2 DEF Advance, Streams
  <2>2. After(t.read) \in Positions
    BY <1>1 DEF After, Positions
  <2>3. u \in Streams
    BY <1>1, <1>2, <2>2 DEF Advance, Streams
  <2>4. InOrder(u)
    BY <1>1, <2>1, <2>2 DEF InOrder, Later, Positions
  <2> QED
    BY <2>1, <2>3, <2>4 DEF Good
<1>3. CASE q # <<>>
  <2>1. u.current = q[1] /\ u.read = t.read /\ u.peeked_tokens = Tail(q)
    BY <1>1, <1>3 DEF Advance, Streams
  <2>2. q[1] \in Positions /\ Tail(q) \in Seq(Positions) /\ Len(Tail(q)) = Len(q) - 1
          /\ Len(q) >= 1
    BY <1>1, <1>3
  <2>3. u \in Streams
    <3>1. u = [current |-> q[1], peeked_tokens |-> Tail(q), read |-> t.read]
      BY <1>1, <1>3, Head(q) = q[1] DEF Advance
    <3> QED
      BY <1>1, <2>2, <3>1 DEF Streams
  <2>4. q[1] = Later(t.current, 1)
    BY <1>1, <2>2 DEF InOrder
  <2>5. \A n \in Nat : Later(q[1], n) = Later(t.current, n + 1)
    <3> SUFFICES ASSUME NEW n \in Nat PROVE Later(q[1], n) = Later(t.current, n + 1)
      OBVIOUS
    <3>1. t.current \in Nat /\ t.current <= End /\ End \in Nat
      BY <1>1 DEF Positions
    <3>2. CASE t.current + 1 <= End
      <4>1. q[1] = t.current + 1
        BY <2>4, <3>2 DEF Later
      <4> QED
        BY <3>1, <4>1 DEF Later
    <3>3. CASE ~(t.current + 1 <= End)
      <4>1. q[1] = End
        BY <2>4, <3>3 DEF Later
      <4> QED
        BY <3>1, <3>3, <4>1 DEF Later
    <3> QED
      BY <3>2, <3>3
  <2>6. u.read = Later(u.current, Len(u.peeked_tokens))
    <3>1. Len(q) - 1 \in Nat /\ (Len(q) - 1) + 1 = Len(q)
      BY <1>1, <2>2
    <3>2. Later(q[1], Len(q) - 1) = Later(t.current, Len(q))
      BY <2>5, <3>1
    <3> QED
      BY <1>1, <2>1, <2>2, <3>2 DEF InOrder
  <2>7. \A i \in 1..Len(Tail(q)) : Tail(q)[i] = Later(q[1], i)
    <3> SUFFICES ASSUME NEW i \in 1..Len(Tail(q)) PROVE Tail(q)[i] = Later(q[1], i)
      OBVIOUS
    <3>1. i \in Nat /\ i + 1 \in 1..Len(q)
      BY <1>1, <2>2
    <3>2. Tail(q)[i] = q[i + 1]
      BY <1>1, <1>3, <2>2
    <3>3. q[i + 1] = Later(t.current, i + 1)
      BY <1>1, <3>1 DEF InOrder
    <3> QED
      BY <2>5, <3>1, <3>2, <3>3
  <2>8. InOrder(u)
    BY <2>1, <2>6, <2>7 DEF InOrder
  <2> QED
    BY <1>1, <2>1, <2>2, <2>3, <2>8 DEF Good
<1> QED
  BY <1>2, <1>3
-----------------------------------------------------------------------------
(* Whatever function is running, it moves the stream by peek and advance.  *)
LEMMA StreamStep == StreamInv /\ [Next]_vars => StreamInv'
<1> SUFFICES ASSUME StreamInv, [Next]_vars PROVE StreamInv'
  OBVIOUS
<1> USE DEF Do, Call, Make
<1>1. input \in Seq(TokenTypes) /\ Good(tokens)
  BY DEF StreamInv
<1> DEFINE t == tokens
           a == Advance(t)
           b == Advance(a)
           p == Peek(t, 1)
<1>2. Good(a) /\ Good(b) /\ Good(Advance(b)) /\ Good(p) /\ Good(Advance(p))
        /\ Good(Peek(t, 2))
  BY <1>1, AdvanceGood, PeekGood
<1>3. ASSUME input' = input, Good(tokens') PROVE StreamInv'
  BY <1>1, <1>3 DEF StreamInv, Good, InOrder, Later, Streams, Positions, End
<1>4. CASE UNCHANGED vars
  BY <1>1, <1>3, <1>4 DEF vars
<1>5. CASE Next
  <2>1. CASE ParseProgram \/ ParseStatement \/ EndStatement
    BY <1>1, <1>2, <1>3, <2>1 DEF ParseProgram, ParseStatement, EndStatement
  <2>2. CASE ParseClass \/ ParseClassMember \/ ParseFieldDecl
    BY <1>1, <1>2, <1>3, <2>2 DEF ParseClass, ParseClassMember, ParseFieldDecl
  <2>3. CASE ParseConstructorDecl \/ ParseMethodDecl
    BY <1>1, <1>2, <1>3, <2>3 DEF ParseConstructorDecl, ParseMethodDecl
  <2>4. CASE ParseParams
    BY <1>1, <1>2, <1>3, <2>4 DEF ParseParams
  <2>5. CASE ParseBlock \/ ParseIfStmt \/ ParseWhileStmt \/ ParseReturnStmt
    BY <1>1, <1>2, <1>3, <2>5
       DEF ParseBlock, ParseIfStmt, ParseWhileStmt, ParseReturnStmt
  <2>6. CASE ParseExprStmt \/ ParseVarDecl
    BY <1>1, <1>2, <1>3, <2>6 DEF ParseExprStmt, ParseVarDecl
  <2>7. CASE ParseBinaryExpr \/ ParseOperators \/ ParseUnaryExpr \/ ParseExpr
    BY <1>1, <1>2, <1>3, <2>7
       DEF ParseBinaryExpr, ParseOperators, ParseUnaryExpr, ParseExpr
  <2>8. CASE ParseMethodCall \/ ParseArguments
    BY <1>1, <1>2, <1>3, <2>8 DEF ParseMethodCall, ParseArguments, ParseComma
  <2> QED
    BY <1>5, <2>1, <2>2, <2>3, <2>4, <2>5, <2>6, <2>7, <2>8 DEF Next
<1> QED
  BY <1>4, <1>5

(* However far the parser looks ahead, it meets the tokens of every file   *)
(* in their order, each once: those in the deque are the ones between the  *)
(* current token and the lexer.                                            *)
THEOREM LookAheadCorrect == Spec => []LookAheadInOrder
<1>1. Init => StreamInv
  <2> SUFFICES ASSUME Init PROVE StreamInv
    OBVIOUS
  <2>1. input \in Seq(TokenTypes)
    BY FilesAssumption DEF Init, Start
  <2>2. End \in Nat \ {0}
    BY <2>1, EndPosition
  <2> QED
    BY <2>1, <2>2 DEF Init, Start, StreamInv, Good, Streams, InOrder, Later, Positions
<1>2. StreamInv => LookAheadInOrder
  BY DEF StreamInv, Good, LookAheadInOrder
<1> QED
  BY <1>1, <1>2, StreamStep, PTL DEF Spec
-----------------------------------------------------------------------------
(* A function is replaced on the stack by at most three frames and makes   *)
(* at most one node.                                                       *)
LEMMA NodesType ==
    /\ <<>> \in Seq(Nodes)
    /\ \A n \in Nodes : <<n>> \in Seq(Nodes)
OBVIOUS

LEMMA RequireType ==
    /\ {} \in SUBSET ErrorKinds
    /\ \A e, f \in SUBSET ErrorKinds : e \union f \in SUBSET ErrorKinds
OBVIOUS

LEMMA PrecedenceType ==
    ASSUME NEW type
    PROVE  BinaryPrecedence(type) \in Int /\ UnaryPrecedence(type) \in Int
BY DEF BinaryPrecedence, UnaryPrecedence

LEMMA DoType ==
    ASSUME TypeOK, calls # <<>>, StreamInv',
           NEW t, NEW frames \in Seq(Frames), NEW nodes \in Seq(Nodes),
           NEW reported \in SUBSET ErrorKinds, Do(t, frames, nodes, reported)
    PROVE  TypeOK'
<1>1. Tail(calls) \in Seq(Frames) /\ out \in Seq(Nodes) /\ errors \subseteq ErrorKinds
  BY DEF TypeOK
<1>2. frames \o Tail(calls) \in Seq(Frames) /\ out \o nodes \in Seq(Nodes)
  BY <1>1
<1>3. calls' \in Seq(Frames) /\ out' \in Seq(Nodes) /\ errors' \subseteq ErrorKinds
  BY <1>1, <1>2 DEF Do
<1> QED
  BY <1>3 DEF TypeOK, StreamInv, Good, Frames, Nodes

LEMMA PushNone ==
    ASSUME TypeOK, calls # <<>>, StreamInv', NEW t,
           NEW nodes \in Seq(Nodes), NEW reported \in SUBSET ErrorKinds,
           Do(t, <<>>, nodes, reported)
    PROVE  TypeOK'
BY <<>> \in Seq(Frames), DoType

LEMMA PushOne ==
    ASSUME TypeOK, calls # <<>>, StreamInv', NEW t, NEW f \in Frames,
           NEW nodes \in Seq(Nodes), NEW reported \in SUBSET ErrorKinds,
           Do(t, <<f>>, nodes, reported)
    PROVE  TypeOK'
BY <<f>> \in Seq(Frames), DoType

LEMMA PushTwo ==
    ASSUME TypeOK, calls # <<>>, StreamInv', NEW t, NEW f \in Frames, NEW g \in Frames,
           NEW nodes \in Seq(Nodes), NEW reported \in SUBSET ErrorKinds,
           Do(t, <<f, g>>, nodes, reported)
    PROVE  TypeOK'
BY <<f, g>> \in Seq(Frames), DoType

LEMMA PushThree ==
    ASSUME TypeOK, calls # <<>>, StreamInv', NEW t,
           NEW f \in Frames, NEW g \in Frames, NEW h \in Frames,
           NEW nodes \in Seq(Nodes), NEW reported \in SUBSET ErrorKinds,
           Do(t, <<f, g, h>>, nodes, reported)
    PROVE  TypeOK'
BY <<f, g, h>> \in Seq(Frames), DoType

LEMMA TypeStep == StreamInv /\ TypeOK /\ [Next]_vars => TypeOK'
<1> SUFFICES ASSUME StreamInv, TypeOK, [Next]_vars PROVE TypeOK'
  OBVIOUS
<1>1. StreamInv'
  BY StreamStep
<1>2. CASE UNCHANGED vars
  BY <1>2 DEF TypeOK, vars, Streams, Positions, End, Frames, Nodes
<1>3. CASE Next
  <2>1. Good(tokens) /\ Good(Advance(tokens)) /\ Good(Advance(Advance(tokens)))
    BY AdvanceGood DEF StreamInv
  <2>2. ASSUME calls # <<>>
        PROVE  calls[1] \in Frames /\ Local \in Int
    BY <2>2 DEF TypeOK, Frames, Local
  <2>3. \A p \in Places, n \in Int : <<p, n>> \in Frames
    BY DEF Frames
  <2>4. \A k \in NodeKinds, n \in Int : <<k, n>> \in Nodes
    BY DEF Nodes
  <2>5. tokens.current \in Int
    BY DEF TypeOK, Streams, Positions
  <2>6. \A u : Good(u) => u.current \in Int
    BY DEF Good, Streams, Positions
  <2>7. CASE ParseProgram
    <3>1. /\ <<"InProgram", 0>> \in Frames
          /\ <<"Statement", 0>> \in Frames
      BY DEF Frames, Places
    <3>2. /\ <<"Program", 0>> \in Nodes
          /\ Open \in Nodes
      BY DEF Nodes, NodeKinds, Open
    <3> QED
      BY <1>1, <2>1, <2>2, <2>5, <2>6, <2>7, <3>1, <3>2,
         NodesType, RequireType, PrecedenceType,
         PushNone, PushOne, PushTwo, PushThree
         DEF ParseProgram, At, Call, Make
  <2>8. CASE ParseStatement
    <3>1. /\ <<"Block", 0>> \in Frames
          /\ <<"MethodDecl", 0>> \in Frames
          /\ <<"VarDecl", 0>> \in Frames
          /\ <<"DeclEnd", 0>> \in Frames
          /\ <<"If", 0>> \in Frames
          /\ <<"While", 0>> \in Frames
          /\ <<"Return", 0>> \in Frames
          /\ <<"StmtEnd", 0>> \in Frames
          /\ <<"Class", 0>> \in Frames
          /\ <<"ExprStmt", 0>> \in Frames
      BY DEF Frames, Places
    <3> QED
      BY <1>1, <2>1, <2>2, <2>5, <2>6, <2>8, <3>1,
         NodesType, RequireType, PrecedenceType,
         PushNone, PushOne, PushTwo, PushThree
         DEF ParseStatement, At, Call, Make
  <2>9. CASE EndStatement
    <3>1. <<"ExprStmt", 0>> \in Nodes
      BY DEF Nodes, NodeKinds, Open
    <3>2. \A k, t : Require(k, t, "semicolon") \in SUBSET ErrorKinds
      BY DEF ErrorKinds, Require
    <3> DEFINE wrong == Require("SEMICOLON", tokens, "semicolon")
               made == <<"ExprStmt", 0>>
    <3>3. wrong \in SUBSET ErrorKinds
      BY <3>2
    <3>4. calls # <<>>
      BY <2>9 DEF EndStatement, At
    <3>5. <<>> \in Seq(Nodes) /\ <<made>> \in Seq(Nodes)
      BY <3>1, NodesType
    <3>6. \/ Do(Advance(tokens), <<>>, <<>>, wrong)
          \/ Do(Advance(tokens), <<>>, <<made>>, wrong)
      BY <2>9 DEF EndStatement
    <3> HIDE DEF wrong, made
    <3> QED
      BY <1>1, <3>3, <3>4, <3>5, <3>6, PushNone
  <2>10. CASE ParseClass
    <3>1. /\ <<"Member", 0>> \in Frames
          /\ \A n \in Int : <<"Members", n>> \in Frames
      BY DEF Frames, Places
    <3>2. /\ \A n \in Int : <<"Class", n>> \in Nodes
          /\ Open \in Nodes
      BY DEF Nodes, NodeKinds, Open
    <3>3. /\ \A k, t : Require(k, t, "identifier") \in SUBSET ErrorKinds
          /\ \A k, t : Require(k, t, "class body") \in SUBSET ErrorKinds
      BY DEF ErrorKinds, Require
    <3> DEFINE name == Advance(tokens)
               brace == Advance(name)
               wrong == Require("ID", name, "identifier")
                          \union Require("LBRACE", brace, "class body")
               frame == <<"Members", name.current>>
               class == <<"Class", Local>>
    <3>4. wrong \in SUBSET ErrorKinds
      BY <3>3, RequireType
    <3>5. calls # <<>> /\ frame \in Frames /\ <<Open>> \in Seq(Nodes)
      BY <2>1, <2>6, <2>10, <3>1, <3>2, NodesType DEF ParseClass, At
    <3>6. <<class>> \in Seq(Nodes)
      BY <2>2, <3>2, <3>5, NodesType
    <3>7. \/ Do(Advance(brace), <<frame>>, <<Open>>, wrong)
          \/ Do(tokens, <<<<"Member", 0>>, calls[1]>>, <<>>, {})
          \/ Do(Advance(tokens), <<>>, <<class>>, {})
      BY <2>10 DEF ParseClass, Call, Make
    <3> HIDE DEF name, brace, wrong, frame, class
    <3> QED
      BY <1>1, <2>2, <3>1, <3>4, <3>5, <3>6, <3>7, NodesType, RequireType,
         PushNone, PushOne, PushTwo
  <2>11. CASE ParseClassMember
    <3>1. /\ <<"BareMember", 0>> \in Frames
          /\ <<"MethodDecl", 0>> \in Frames
          /\ <<"FieldDecl", 0>> \in Frames
          /\ <<"ConstructorDecl", 0>> \in Frames
          /\ <<"SkipMember", 0>> \in Frames
      BY DEF Frames, Places
    <3>2. {"class member"} \in SUBSET ErrorKinds
      BY DEF ErrorKinds, Require
    <3> QED
      BY <1>1, <2>1, <2>2, <2>5, <2>6, <2>11, <3>1, <3>2,
         NodesType, RequireType, PrecedenceType,
         PushNone, PushOne, PushTwo, PushThree
         DEF ParseClassMember, At, Call, Make
  <2>12. CASE ParseFieldDecl
    <3>1. \A n \in Int : <<"FieldDecl", n>> \in Nodes
      BY DEF Nodes, NodeKinds, Open
    <3>2. \A k, t : Require(k, t, "identifier") \in SUBSET ErrorKinds
      BY DEF ErrorKinds, Require
    <3> DEFINE name == Advance(tokens)
               wrong == Require("ID", name, "identifier")
               field == <<"FieldDecl", name.current>>
    <3>3. wrong \in SUBSET ErrorKinds /\ <<field>> \in Seq(Nodes) /\ calls # <<>>
      BY <2>1, <2>6, <2>12, <3>1, <3>2, NodesType DEF ParseFieldDecl, At
    <3>4. Do(Advance(name), <<>>, <<field>>, wrong)
      BY <2>12 DEF ParseFieldDecl
    <3> HIDE DEF name, wrong, field
    <3> QED
      BY <1>1, <3>3, <3>4, PushNone
  <2>13. CASE ParseConstructorDecl
    <3>1. /\ <<"Params", 0>> \in Frames
          /\ <<"Block", 0>> \in Frames
          /\ \A n \in Int : <<"EndConstructor", n>> \in Frames
      BY DEF Frames, Places
    <3>2. /\ \A n \in Int : <<"ConstructorDecl", n>> \in Nodes
          /\ Open \in Nodes
      BY DEF Nodes, NodeKinds, Open
    <3> QED
      BY <1>1, <2>1, <2>2, <2>5, <2>6, <2>13, <3>1, <3>2,
         NodesType, RequireType, PrecedenceType,
         PushNone, PushOne, PushTwo, PushThree
         DEF ParseConstructorDecl, At, Call, Make
  <2>14. CASE ParseMethodDecl
    <3>1. /\ <<"Params", 0>> \in Frames
          /\ <<"Block", 0>> \in Frames
          /\ \A n \in Int : <<"EndMethod", n>> \in Frames
      BY DEF Frames, Places
    <3>2. /\ \A n \in Int : <<"MethodDecl", n>> \in Nodes
          /\ Open \in Nodes
      BY DEF Nodes, NodeKinds, Open
    <3>3. \A k, t : Require(k, t, "identifier") \in SUBSET ErrorKinds
      BY DEF ErrorKinds, Require
    <3> QED
      BY <1>1, <2>1, <2>2, <2>5, <2>6, <2>14, <3>1, <3>2, <3>3,
         NodesType, RequireType, PrecedenceType,
         PushNone, PushOne, PushTwo, PushThree
         DEF ParseMethodDecl, At, Call, Make
  <2>15. CASE ParseParams
    <3>1. \A n \in Int : <<"Param", n>> \in Nodes
      BY DEF Nodes, NodeKinds, Open
    <3>2. /\ \A k, t : Require(k, t, "parameter type") \in SUBSET ErrorKinds
          /\ \A k, t : Require(k, t, "parameter name") \in SUBSET ErrorKinds
      BY DEF ErrorKinds, Require
    <3> DEFINE t == Advance(tokens)
               name == Advance(t)
               wrong == Require("DATA_TYPE", t, "parameter type")
                          \union Require("ID", name, "parameter name")
               param == <<"Param", name.current>>
               made == IF name.current = End THEN <<>> ELSE <<param>>
    <3>3. calls # <<>>
      BY <2>15 DEF ParseParams, At
    <3>4. wrong \in SUBSET ErrorKinds
      BY <3>2, RequireType
    <3>5. <<param>> \in Seq(Nodes)
      BY <2>1, <2>6, <3>1, NodesType
    <3>6. made \in Seq(Nodes)
      <4> HIDE DEF param
      <4> QED BY <3>5, NodesType
    <3>7. \/ Do(Advance(t), <<>>, <<>>, {})
          \/ Do(t, <<calls[1]>>, <<>>, {})
          \/ Do(name, <<calls[1]>>, made, wrong)
      BY <2>15 DEF ParseParams, Call
    <3> HIDE DEF t, name, wrong, made
    <3> QED
      BY <1>1, <2>2, <3>3, <3>4, <3>6, <3>7, NodesType, RequireType, PushNone, PushOne
  <2>16. CASE ParseBlock
    <3>1. /\ <<"InBlock", 0>> \in Frames
          /\ <<"Statement", 0>> \in Frames
      BY DEF Frames, Places
    <3>2. /\ <<"Block", 0>> \in Nodes
          /\ Open \in Nodes
      BY DEF Nodes, NodeKinds, Open
    <3>3. /\ \A k, t : Require(k, t, "opening brace") \in SUBSET ErrorKinds
          /\ {"closing brace"} \in SUBSET ErrorKinds
      BY DEF ErrorKinds, Require
    <3> DEFINE wrong == Require("LBRACE", tokens, "opening brace")
               inside == <<"InBlock", 0>>
               statement == <<"Statement", 0>>
               block == <<"Block", 0>>
    <3>4. /\ calls # <<>>
          /\ wrong \in SUBSET ErrorKinds
          /\ inside \in Frames /\ statement \in Frames
          /\ <<Open>> \in Seq(Nodes) /\ <<block>> \in Seq(Nodes)
      BY <2>16, <3>1, <3>2, <3>3, NodesType DEF ParseBlock, At
    <3>5. \/ Do(Advance(tokens), <<inside>>, <<Open>>, wrong)
          \/ Do(Advance(tokens), <<>>, <<block>>, {})
          \/ Do(tokens, <<>>, <<block>>, {"closing brace"})
          \/ Do(tokens, <<statement, inside>>, <<>>, {})
      BY <2>16 DEF ParseBlock, Call, Make
    <3> HIDE DEF wrong, inside, statement, block
    <3> QED
      BY <1>1, <3>3, <3>4, <3>5, NodesType, RequireType, PushNone, PushOne, PushTwo
  <2>17. CASE ParseIfStmt
    <3>1. /\ <<"Binary", 0>> \in Frames
          /\ <<"Statement", 0>> \in Frames
          /\ <<"Else", 0>> \in Frames
          /\ <<"EndElse", 0>> \in Frames
      BY DEF Frames, Places
    <3>2. /\ <<"If", 0>> \in Nodes
          /\ <<"IfElse", 0>> \in Nodes
      BY DEF Nodes, NodeKinds, Open
    <3>3. \A k, t : Require(k, t, "opening parenthesis") \in SUBSET ErrorKinds
      BY DEF ErrorKinds, Require
    <3> QED
      BY <1>1, <2>1, <2>2, <2>5, <2>6, <2>17, <3>1, <3>2, <3>3,
         NodesType, RequireType, PrecedenceType,
         PushNone, PushOne, PushTwo, PushThree
         DEF ParseIfStmt, At, Call, Make
  <2>18. CASE ParseWhileStmt
    <3>1. /\ <<"Binary", 0>> \in Frames
          /\ <<"Statement", 0>> \in Frames
          /\ <<"EndWhile", 0>> \in Frames
      BY DEF Frames, Places
    <3>2. <<"While", 0>> \in Nodes
      BY DEF Nodes, NodeKinds, Open
    <3>3. \A k, t : Require(k, t, "opening parenthesis") \in SUBSET ErrorKinds
      BY DEF ErrorKinds, Require
    <3> QED
      BY <1>1, <2>1, <2>2, <2>5, <2>6, <2>18, <3>1, <3>2, <3>3,
         NodesType, RequireType, PrecedenceType,
         PushNone, PushOne, PushTwo, PushThree
         DEF ParseWhileStmt, At, Call, Make
  <2>19. CASE ParseReturnStmt
    <3>1. /\ <<"Binary", 0>> \in Frames
          /\ <<"EndReturn", 0>> \in Frames
      BY DEF Frames, Places
    <3>2. <<"Return", 0>> \in Nodes
      BY DEF Nodes, NodeKinds, Open
    <3> QED
      BY <1>1, <2>1, <2>2, <2>5, <2>6, <2>19, <3>1, <3>2,
         NodesType, RequireType, PrecedenceType,
         PushNone, PushOne, PushTwo, PushThree
         DEF ParseReturnStmt, At, Call, Make
  <2>20. CASE ParseExprStmt
    <3>1. /\ <<"MethodCall", 0>> \in Frames
          /\ <<"Binary", 0>> \in Frames
          /\ <<"EndExprStmt", 0>> \in Frames
      BY DEF Frames, Places
    <3>2. <<"ExprStmt", 0>> \in Nodes
      BY DEF Nodes, NodeKinds, Open
    <3> QED
      BY <1>1, <2>1, <2>2, <2>5, <2>6, <2>20, <3>1, <3>2,
         NodesType, RequireType, PrecedenceType,
         PushNone, PushOne, PushTwo, PushThree
         DEF ParseExprStmt, At, Call, Make
  <2>21. CASE ParseVarDecl
    <3>1. /\ <<"Binary", 0>> \in Frames
          /\ \A n \in Int : <<"EndVarDecl", n>> \in Frames
      BY DEF Frames, Places
    <3>2. /\ \A n \in Int : <<"VarDecl", n>> \in Nodes
          /\ \A n \in Int : <<"VarDeclInit", n>> \in Nodes
      BY DEF Nodes, NodeKinds, Open
    <3>3. \A k, t : Require(k, t, "identifier") \in SUBSET ErrorKinds
      BY DEF ErrorKinds, Require
    <3> DEFINE name == Advance(tokens)
               after == Advance(name)
               wrong == Require("ID", name, "identifier")
               plain == <<"VarDecl", name.current>>
               frame == <<"EndVarDecl", name.current>>
               binary == <<"Binary", 0>>
               full == <<"VarDeclInit", Local>>
    <3>4. /\ calls # <<>>
          /\ wrong \in SUBSET ErrorKinds
          /\ binary \in Frames /\ frame \in Frames
          /\ <<plain>> \in Seq(Nodes)
      BY <2>1, <2>6, <2>21, <3>1, <3>2, <3>3, NodesType DEF ParseVarDecl, At
    <3>5. <<full>> \in Seq(Nodes)
      BY <2>2, <3>2, <3>4, NodesType
    <3>6. \/ Do(Advance(after), <<binary, frame>>, <<>>, wrong)
          \/ Do(after, <<>>, <<plain>>, wrong)
          \/ Do(tokens, <<>>, <<full>>, {})
      BY <2>21 DEF ParseVarDecl, Make
    <3> HIDE DEF name, after, wrong, plain, frame, binary, full
    <3> QED
      BY <1>1, <3>4, <3>5, <3>6, NodesType, RequireType, PushNone, PushTwo
  <2>22. CASE ParseBinaryExpr
    <3>1. /\ <<"Unary", 0>> \in Frames
          /\ <<"Expr", 0>> \in Frames
          /\ \A n \in Int : <<"Operators", n>> \in Frames
      BY DEF Frames, Places
    <3> QED
      BY <1>1, <2>1, <2>2, <2>5, <2>6, <2>22, <3>1,
         NodesType, RequireType, PrecedenceType,
         PushNone, PushOne, PushTwo, PushThree
         DEF ParseBinaryExpr, At, Call, Make
  <2>23. CASE ParseOperators
    <3>1. /\ \A n \in Int : <<"Binary", n>> \in Frames
          /\ \A n \in Int : <<"EndBinary", n>> \in Frames
      BY DEF Frames, Places
    <3>2. /\ \A n \in Int : <<"Binary", n>> \in Nodes
          /\ \A n \in Int : <<"Assignment", n>> \in Nodes
      BY DEF Nodes, NodeKinds, Open
    <3> QED
      BY <1>1, <2>1, <2>2, <2>5, <2>6, <2>23, <3>1, <3>2,
         NodesType, RequireType, PrecedenceType,
         PushNone, PushOne, PushTwo, PushThree
         DEF ParseOperators, At, Call, Make
  <2>24. CASE ParseUnaryExpr
    <3>1. /\ \A n \in Int : <<"Binary", n>> \in Frames
          /\ \A n \in Int : <<"EndUnary", n>> \in Frames
      BY DEF Frames, Places
    <3>2. \A n \in Int : <<"Unary", n>> \in Nodes
      BY DEF Nodes, NodeKinds, Open
    <3> QED
      BY <1>1, <2>1, <2>2, <2>5, <2>6, <2>24, <3>1, <3>2,
         NodesType, RequireType, PrecedenceType,
         PushNone, PushOne, PushTwo, PushThree
         DEF ParseUnaryExpr, At, Call, Make
  <2>25. CASE ParseExpr
    <3>1. /\ <<"Binary", 0>> \in Frames
          /\ <<"EndGroup", 0>> \in Frames
          /\ <<"VarDecl", 0>> \in Frames
          /\ <<"MethodCall", 0>> \in Frames
      BY DEF Frames, Places
    <3>2. /\ \A n \in Int : <<"Identifier", n>> \in Nodes
          /\ \A n \in Int : <<"Literal", n>> \in Nodes
      BY DEF Nodes, NodeKinds, Open
    <3> QED
      BY <1>1, <2>1, <2>2, <2>5, <2>6, <2>25, <3>1, <3>2,
         NodesType, RequireType, PrecedenceType,
         PushNone, PushOne, PushTwo, PushThree
         DEF ParseExpr, At, Call, Make
  <2>26. CASE ParseMethodCall
    <3>1. \A n \in Int : <<"Arguments", n>> \in Frames
      BY DEF Frames, Places
    <3>2. Open \in Nodes
      BY DEF Nodes, NodeKinds, Open
    <3> QED
      BY <1>1, <2>1, <2>2, <2>5, <2>6, <2>26, <3>1, <3>2,
         NodesType, RequireType, PrecedenceType,
         PushNone, PushOne, PushTwo, PushThree
         DEF ParseMethodCall, At, Call, Make
  <2>27. CASE ParseArguments
    <3>1. /\ <<"Expr", 0>> \in Frames
          /\ <<"EndArgument", 0>> \in Frames
      BY DEF Frames, Places
    <3>2. /\ <<"Argument", 0>> \in Nodes
          /\ \A n \in Int : <<"MethodCall", n>> \in Nodes
      BY DEF Nodes, NodeKinds, Open
    <3>3. {"end of file", "closing parenthesis"} \in SUBSET ErrorKinds
      BY DEF ErrorKinds, Require
    <3> QED
      BY <1>1, <2>1, <2>2, <2>5, <2>6, <2>27, <3>1, <3>2, <3>3,
         NodesType, RequireType, PrecedenceType,
         PushNone, PushOne, PushTwo, PushThree
         DEF ParseArguments, ParseComma, At, Call, Make
  <2> QED
    BY <1>3, <2>7, <2>8, <2>9, <2>10, <2>11, <2>12, <2>13, <2>14, <2>15, <2>16, <2>17, <2>18, <2>19, <2>20, <2>21, <2>22, <2>23, <2>24, <2>25, <2>26, <2>27
       DEF Next
<1> QED
  BY <1>2, <1>3

(* Every variable of the parser keeps its type, and the deque of           *)
(* parser.hh never holds more than two tokens.                             *)
THEOREM TypeCorrect == Spec => []TypeOK
<1>1. Init => StreamInv /\ TypeOK
  <2> SUFFICES ASSUME Init PROVE StreamInv /\ TypeOK
    OBVIOUS
  <2>1. input \in Seq(TokenTypes)
    BY FilesAssumption DEF Init, Start
  <2>2. End \in Nat \ {0}
    BY <2>1, EndPosition
  <2>3. StreamInv
    BY <2>1, <2>2 DEF Init, Start, StreamInv, Good, Streams, InOrder, Later, Positions
  <2>4. <<"Program", 0>> \in Frames
    BY DEF Frames, Places
  <2>5. calls \in Seq(Frames)
    BY <2>4 DEF Init, Start
  <2> QED
    BY <2>1, <2>3, <2>5 DEF Init, Start, TypeOK, StreamInv, Good
<1>2. StreamInv /\ TypeOK /\ [Next]_vars => (StreamInv /\ TypeOK)'
  BY StreamStep, TypeStep
<1> QED
  BY <1>1, <1>2, PTL DEF Spec
=============================================================================

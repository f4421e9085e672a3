------------------------ MODULE ShippabilityProofs ------------------------
(***************************************************************************)
(* Proofs about Shippability for conditions of any size and any set of     *)
(* collations.                                                             *)
(***************************************************************************)
EXTENDS Shippability, SequenceTheorems, TLAPS

(* A collation no node of a condition to be sent may have.                 *)
Foreign(collation) == collation \notin {"none", "default"}
ForeignOp(n) == Foreign(n.inputcollid) \/ Foreign(n.opcollid)

(* A context never gets to NEED_INSPECTION, and an unsafe one is not       *)
(* shippable.                                                              *)
Settled(c) ==
    /\ c \in Context
    /\ c.collation_state # NEED_INSPECTION
    /\ c.shippable => c.collation_state = SAFE_TO_SHIP

LEMMA Compared ==
    ASSUME NEW c, Settled(c), NEW collation \in AnyCollation
    PROVE  LET d == compare_collation(c, collation) IN
           /\ Settled(d)
           /\ d.shippable => c.shippable /\ ~Foreign(collation)
<1> DEFINE d == Collated(c, collation)
<1> DEFINE e == compare_collation(c, collation)
<1>0. /\ c \in Context
      /\ c.collation_state = 0 \/ c.collation_state = 2
      /\ c.shippable \in BOOLEAN
  BY DEF Settled, Context, SAFE_TO_SHIP, NEED_INSPECTION, UNSAFE_TO_SHIP
<1>1. /\ Foreign(collation) => deduce_collation_state(c, collation) = 2
      /\ ~Foreign(collation) => deduce_collation_state(c, collation) = 0
  BY <1>0 DEF Foreign, deduce_collation_state, SAFE_TO_SHIP, NEED_INSPECTION,
    UNSAFE_TO_SHIP
<1>2. IF Foreign(collation) /\ c.collation_state = 0
      THEN d = [c EXCEPT !.collation = collation, !.collation_state = 2]
      ELSE d = c
  <2>1. CASE Foreign(collation) /\ c.collation_state = 0
    BY <1>1, <2>1, 2 > 0 DEF Collated
  <2>2. CASE Foreign(collation) /\ c.collation_state = 2
    BY <1>1, <2>2, ~(2 > 2), 2 # 1, 0 # 2
      DEF Collated, NEED_INSPECTION
  <2>3. CASE ~Foreign(collation)
    BY <1>0, <1>1, <2>3, ~(0 > 0), ~(0 > 2), 0 # 1
      DEF Collated, NEED_INSPECTION
  <2> QED
    BY <1>0, <2>1, <2>2, <2>3
<1>3. /\ d \in Context
      /\ d.shippable = c.shippable
      /\ d.collation_state # NEED_INSPECTION
      /\ Foreign(collation) => d.collation_state = UNSAFE_TO_SHIP
      /\ ~Foreign(collation) => d.collation_state = c.collation_state
  <2>1. CASE Foreign(collation) /\ c.collation_state = 0
    <3>1. d = [c EXCEPT !.collation = collation, !.collation_state = 2]
      BY <1>2, <2>1
    <3> HIDE DEF d
    <3>2. c \in [collation : AnyCollation, collation_state : {0, 1, 2},
                 shippable : BOOLEAN]
      BY <1>0 DEF Context, SAFE_TO_SHIP, NEED_INSPECTION, UNSAFE_TO_SHIP
    <3>3. d \in [collation : AnyCollation, collation_state : {0, 1, 2},
                 shippable : BOOLEAN]
      BY <3>1, <3>2
    <3>4. d.shippable = c.shippable /\ d.collation_state = 2
      BY <3>1, <3>2
    <3> QED
      BY <2>1, <3>3, <3>4
        DEF Context, SAFE_TO_SHIP, NEED_INSPECTION, UNSAFE_TO_SHIP
  <2>2. CASE ~(Foreign(collation) /\ c.collation_state = 0)
    <3>1. d = c
      BY <1>2, <2>2
    <3> HIDE DEF d
    <3> QED
      BY <1>0, <2>2, <3>1 DEF NEED_INSPECTION, UNSAFE_TO_SHIP
  <2> QED
    BY <2>1, <2>2
<1>4. e = [d EXCEPT !.shippable =
             d.shippable /\ d.collation_state # UNSAFE_TO_SHIP]
  BY <1>3 DEF compare_collation, Context
<1>5. /\ e \in Context
      /\ e.collation_state = d.collation_state
      /\ e.shippable <=> c.shippable /\ d.collation_state # UNSAFE_TO_SHIP
  BY <1>3, <1>4 DEF Context
<1>6. Settled(e)
  BY <1>3, <1>5 DEF Settled, Context, SAFE_TO_SHIP, NEED_INSPECTION,
    UNSAFE_TO_SHIP
<1> QED
  BY <1>3, <1>5, <1>6

LEMMA NotShippableSettled ==
    ASSUME NEW c, Settled(c)
    PROVE  Settled(NotShippable(c)) /\ ~NotShippable(c).shippable
BY DEF Settled, NotShippable, Context

LEMMA LeafInspected ==
    ASSUME NEW c, Settled(c), NEW n \in Leaf
    PROVE  LET d == InspectLeaf(n, c) IN
           /\ Settled(d)
           /\ d.shippable => c.shippable /\ SafeNode(n)
<1>1. CASE n \in Var
  <2> DEFINE b == IF n.rel = "own" /\ n.att \in {"system", "wholerow"}
                  THEN NotShippable(c) ELSE c
  <2>1. InspectLeaf(n, c) = compare_collation(b, n.collation)
    BY <1>1 DEF Var, InspectLeaf, inspect_for_T_Var
  <2>2. /\ Settled(b)
        /\ b.shippable => c.shippable
        /\ b.shippable => ~(n.rel = "own" /\ n.att \in {"system", "wholerow"})
    BY NotShippableSettled
  <2>3. n.collation \in AnyCollation /\ n.kind = "Var"
        /\ n.att \in {"column", "ctid", "system", "wholerow"}
    BY <1>1 DEF Var
  <2> HIDE DEF b
  <2> QED
    BY <2>1, <2>2, <2>3, Compared DEF SafeNode, Foreign
<1>2. CASE n \in Const
  <2>1. InspectLeaf(n, c) = compare_collation(c, n.collation)
    BY <1>2 DEF Const, InspectLeaf, inspect_for_T_Const
  <2>2. n.collation \in AnyCollation /\ n.kind = "Const"
    BY <1>2 DEF Const
  <2> QED
    BY <2>1, <2>2, Compared DEF SafeNode, Foreign
<1>3. CASE n \in Other
  BY <1>3, NotShippableSettled DEF Other, InspectLeaf
<1> QED
  BY <1>1, <1>2, <1>3 DEF Leaf

-----------------------------------------------------------------------------
(* What is known of a node that has been visited: all that SafeNode asks,  *)
(* but for the collations of an operator that is still open.               *)
Seen(n) ==
    IF n.kind = "OpExpr" THEN Compatible(n) /\ ~n.mutable ELSE SafeNode(n)

(* Once all was visited, an operator with a foreign collation can only be  *)
(* waiting on the stack for its turn to be compared.                       *)
VisitedSafe ==
    context.shippable =>
        \A i \in 1 .. Len(expr) :
            /\ Seen(expr[i])
            /\ expr[i].kind = "OpExpr" /\ ForeignOp(expr[i]) =>
                 \E j \in 1 .. Len(stack) : stack[j].node = expr[i]

Finished ==
    /\ expr = <<>> => stack = <<>>
    /\ Remote => stack = <<>> /\ context.shippable
    /\ stage # "deparsed" => sql = "none"
    /\ stage = "deparsed" =>
         \/ sql = "text"
         \/ \E i \in 1 .. Len(expr) : sql = NodeSql(expr[i])

IInv == TypeOK /\ Settled(context) /\ VisitedSafe /\ Finished

LEMMA Initially == Init => IInv
  BY DEF Init, IInv, TypeOK, Settled, Context, AnyCollation, VisitedSafe,
    Finished, Remote, SAFE_TO_SHIP, NEED_INSPECTION, UNSAFE_TO_SHIP

(* The last element of a sequence and what comes before it.                *)
LEMMA SeqFront ==
    ASSUME NEW S, NEW s \in Seq(S), s # <<>>
    PROVE  /\ Len(s) \in Nat \ {0}
           /\ s[Len(s)] \in S
           /\ SubSeq(s, 1, Len(s) - 1) \in Seq(S)
           /\ Len(SubSeq(s, 1, Len(s) - 1)) = Len(s) - 1
           /\ \A j \in 1 .. Len(s) - 1 : SubSeq(s, 1, Len(s) - 1)[j] = s[j]
<1>1. Len(s) \in Nat \ {0} /\ \A j \in 1 .. Len(s) : s[j] \in S
  OBVIOUS
<1> DEFINE n == Len(s) - 1
<1>2. n \in Nat /\ \A j \in 1 .. n : s[j] \in S
  BY <1>1
<1> HIDE DEF n
<1>3. /\ SubSeq(s, 1, n) \in Seq(S)
      /\ Len(SubSeq(s, 1, n)) = IF 1 <= n THEN n - 1 + 1 ELSE 0
      /\ \A j \in 1 .. n - 1 + 1 : SubSeq(s, 1, n)[j] = s[1 + j - 1]
  BY <1>2, SubSeqProperties
<1>4. /\ Len(SubSeq(s, 1, n)) = n
      /\ \A j \in 1 .. n : SubSeq(s, 1, n)[j] = s[j]
  BY <1>2, <1>3
<1> QED
  BY <1>1, <1>3, <1>4 DEF n

LEMMA SeqAppend ==
    ASSUME NEW S, NEW s \in Seq(S), NEW x \in S
    PROVE  /\ Append(s, x) \in Seq(S)
           /\ Len(Append(s, x)) = Len(s) + 1
           /\ \A j \in 1 .. Len(s) : Append(s, x)[j] = s[j]
           /\ Append(s, x)[Len(s) + 1] = x
OBVIOUS

(* Taking an argument keeps the open operators.                            *)
LEMMA TakenKeeps ==
    ASSUME TypeOK, stack # <<>> => Top.left > 0
    PROVE  /\ Taken \in Seq(Frame)
           /\ Len(Taken) = Len(stack)
           /\ \A j \in 1 .. Len(stack) : Taken[j].node = stack[j].node
<1>1. CASE stack = <<>>
  BY <1>1 DEF Taken
<1>2. CASE stack # <<>>
  <2> DEFINE top == [Top EXCEPT !.left = @ - 1]
  <2>1. /\ Len(stack) \in Nat \ {0} /\ stack[Len(stack)] = Top
        /\ Top \in Frame
        /\ Below \in Seq(Frame)
        /\ Len(Below) = Len(stack) - 1
        /\ \A j \in 1 .. Len(stack) - 1 : Below[j] = stack[j]
    BY <1>2, SeqFront DEF TypeOK, Top, Below
  <2>2. top \in Frame /\ top.node = Top.node
    BY <1>2, <2>1 DEF Frame
  <2>3. Taken = Append(Below, top)
    BY <1>2 DEF Taken
  <2> HIDE DEF top
  <2>4. /\ Taken \in Seq(Frame)
        /\ Len(Taken) = Len(stack)
        /\ \A j \in 1 .. Len(stack) - 1 : Taken[j] = stack[j]
        /\ Taken[Len(stack)] = top
    BY <2>1, <2>2, <2>3, SeqAppend
  <2> QED
    BY <2>1, <2>2, <2>4
<1> QED
  BY <1>1, <1>2

(* What a visit to n does, whatever the node is.                           *)
LEMMA VisitKeeps ==
    ASSUME IInv, NEW n \in Node, Visit(n)
    PROVE  /\ stage = "inspect" /\ stage' = stage /\ sql' = "none"
           /\ context.shippable
           /\ expr' \in Seq(Node) /\ Len(expr') = Len(expr) + 1
           /\ \A i \in 1 .. Len(expr) : expr'[i] = expr[i]
           /\ expr'[Len(expr) + 1] = n
           /\ expr' # <<>>
           /\ Taken \in Seq(Frame)
           /\ Len(Taken) = Len(stack)
           /\ \A j \in 1 .. Len(stack) : Taken[j].node = stack[j].node
<1>1. /\ stage = "inspect" /\ stage' = stage /\ sql' = "none"
      /\ context.shippable /\ expr' = Append(expr, n)
  BY DEF Visit, IInv, Finished
<1>2. stack # <<>> => Top.left > 0
  BY DEF Visit, IInv, Finished
<1>3. expr \in Seq(Node) /\ TypeOK
  BY DEF IInv, TypeOK
<1>4. /\ Append(expr, n) \in Seq(Node)
      /\ Len(Append(expr, n)) = Len(expr) + 1
      /\ \A i \in 1 .. Len(expr) : Append(expr, n)[i] = expr[i]
      /\ Append(expr, n)[Len(expr) + 1] = n
  BY <1>3, SeqAppend
<1>5. Append(expr, n) # <<>>
  BY <1>3, <1>4
<1> QED
  BY <1>1, <1>2, <1>3, <1>4, <1>5, TakenKeeps

LEMMA LeafStep ==
    ASSUME IInv, NEW n \in Leaf, VisitLeaf(n) PROVE IInv'
<1>1. n \in Node /\ n.kind # "OpExpr"
  BY DEF Node, Leaf, Var, Const, Other
<1>2. Visit(n) /\ context' = InspectLeaf(n, context) /\ stack' = Taken
  BY DEF VisitLeaf
<1>3. /\ Settled(context')
      /\ context'.shippable => context.shippable /\ SafeNode(n)
  BY <1>2, LeafInspected DEF IInv
<1>4. TypeOK'
  BY <1>1, <1>2, <1>3, VisitKeeps DEF TypeOK, Settled
<1>5. VisitedSafe'
  <2> SUFFICES ASSUME context'.shippable, NEW i \in 1 .. Len(expr')
               PROVE  /\ Seen(expr'[i])
                      /\ expr'[i].kind = "OpExpr" /\ ForeignOp(expr'[i]) =>
                           \E j \in 1 .. Len(stack') : stack'[j].node = expr'[i]
    BY DEF VisitedSafe, ForeignOp, Foreign, Seen, SafeNode, Compatible
  <2>1. CASE i = Len(expr) + 1
    <3>1. expr'[i] = n
      BY <1>1, <1>2, <2>1, VisitKeeps
    <3> QED
      BY <1>1, <1>3, <3>1 DEF Seen
  <2>2. CASE i \in 1 .. Len(expr)
    <3>1. expr'[i] = expr[i]
      BY <1>1, <1>2, <2>2, VisitKeeps
    <3>2. /\ Seen(expr[i])
          /\ expr[i].kind = "OpExpr" /\ ForeignOp(expr[i]) =>
               \E j \in 1 .. Len(stack) : stack[j].node = expr[i]
      BY <1>3, <2>2 DEF IInv, VisitedSafe
    <3> QED
      BY <1>1, <1>2, <3>1, <3>2, VisitKeeps
  <2>3. i \in 1 .. Len(expr) \/ i = Len(expr) + 1
    <3>1. Len(expr) \in Nat /\ Len(expr') = Len(expr) + 1
      BY <1>1, <1>2, VisitKeeps DEF IInv, TypeOK
    <3> QED
      BY <3>1
  <2> QED
    BY <2>1, <2>2, <2>3
<1>6. Finished'
  BY <1>1, <1>2, VisitKeeps DEF Finished, Remote
<1> QED
  BY <1>3, <1>4, <1>5, <1>6 DEF IInv

LEMMA OpStep ==
    ASSUME IInv, NEW n \in OpExpr, EnterOpExpr(n) PROVE IInv'
<1>1. n \in Node /\ n.kind = "OpExpr"
  BY DEF Node, OpExpr
<1>2. Visit(n)
  BY DEF EnterOpExpr
<1>3. CASE Compatible(n) /\ ~n.mutable
  <2>1. PICK args \in {1, 2} :
          stack' = Append(Taken, [node |-> n, left |-> args])
    BY <1>3 DEF EnterOpExpr
  <2> DEFINE frame == [node |-> n, left |-> args]
  <2>2. frame \in Frame /\ frame.node = n
    BY <2>1 DEF Frame
  <2> HIDE DEF frame
  <2>3. stack' = Append(Taken, frame)
    BY <2>1 DEF frame
  <2>4. /\ stack' \in Seq(Frame)
        /\ Len(stack') = Len(stack) + 1
        /\ \A j \in 1 .. Len(stack) : stack'[j].node = stack[j].node
        /\ stack'[Len(stack) + 1].node = n
    BY <1>1, <1>2, <2>2, <2>3, VisitKeeps, SeqAppend
  <2>5. context' = context
    BY <1>3 DEF EnterOpExpr
  <2>6. TypeOK'
    BY <1>1, <1>2, <2>4, <2>5, VisitKeeps DEF IInv, TypeOK
  <2>7. Len(stack) \in Nat /\ Len(expr) \in Nat
    BY DEF IInv, TypeOK
  <2>8. VisitedSafe'
    <3> SUFFICES ASSUME NEW i \in 1 .. Len(expr')
                 PROVE  /\ Seen(expr'[i])
                        /\ expr'[i].kind = "OpExpr" /\ ForeignOp(expr'[i]) =>
                             \E j \in 1 .. Len(stack') :
                               stack'[j].node = expr'[i]
      BY DEF VisitedSafe, ForeignOp, Foreign, Seen, SafeNode, Compatible
    <3>1. CASE i = Len(expr) + 1
      <4>1. expr'[i] = n
        BY <1>1, <1>2, <3>1, VisitKeeps
      <4>2. Seen(n)
        BY <1>1, <1>3 DEF Seen
      <4>3. Len(stack) + 1 \in 1 .. Len(stack')
        BY <2>4, <2>7
      <4> QED
        BY <2>4, <4>1, <4>2, <4>3
    <3>2. CASE i \in 1 .. Len(expr)
      <4>1. expr'[i] = expr[i] /\ context.shippable
        BY <1>1, <1>2, <3>2, VisitKeeps
      <4>2. /\ Seen(expr[i])
            /\ expr[i].kind = "OpExpr" /\ ForeignOp(expr[i]) =>
                 \E j \in 1 .. Len(stack) : stack[j].node = expr[i]
        BY <3>2, <4>1 DEF IInv, VisitedSafe
      <4>3. \A j \in 1 .. Len(stack) :
              j \in 1 .. Len(stack') /\ stack'[j].node = stack[j].node
        BY <2>4, <2>7
      <4> QED
        BY <4>1, <4>2, <4>3
    <3>3. i \in 1 .. Len(expr) \/ i = Len(expr) + 1
      <4>1. Len(expr') = Len(expr) + 1
        BY <1>1, <1>2, VisitKeeps
      <4> QED
        BY <2>7, <4>1
    <3> QED
      BY <3>1, <3>2, <3>3
  <2>9. Finished'
    BY <1>1, <1>2, VisitKeeps DEF Finished, Remote
  <2> QED
    BY <2>5, <2>6, <2>8, <2>9 DEF IInv, Settled
<1>4. CASE ~(Compatible(n) /\ ~n.mutable)
  <2>1. context' = NotShippable(context) /\ stack' = Taken
    BY <1>4 DEF EnterOpExpr
  <2>2. Settled(context') /\ ~context'.shippable
    BY <2>1, NotShippableSettled DEF IInv
  <2>3. TypeOK'
    BY <1>1, <1>2, <2>1, <2>2, VisitKeeps DEF TypeOK, Settled
  <2>4. VisitedSafe'
    BY <2>2 DEF VisitedSafe
  <2>5. Finished'
    BY <1>1, <1>2, VisitKeeps DEF Finished, Remote
  <2> QED
    BY <2>2, <2>3, <2>4, <2>5 DEF IInv
<1> QED
  BY <1>3, <1>4

LEMMA LeaveStep ==
    ASSUME IInv, LeaveOpExpr PROVE IInv'
<1> DEFINE c == compare_collation(context, Top.node.inputcollid)
<1>1. /\ stage = "inspect" /\ stack # <<>>
      /\ context' = compare_collation(c, Top.node.opcollid)
      /\ stack' = Below
      /\ stage' = stage /\ expr' = expr /\ sql' = sql
  BY DEF LeaveOpExpr
<1>2. /\ Len(stack) \in Nat \ {0} /\ stack[Len(stack)] = Top
      /\ Top \in Frame
      /\ Below \in Seq(Frame)
      /\ Len(Below) = Len(stack) - 1
      /\ \A j \in 1 .. Len(stack) - 1 : Below[j] = stack[j]
  BY <1>1, SeqFront DEF IInv, TypeOK, Top, Below
<1>3. Top.node.inputcollid \in AnyCollation /\ Top.node.opcollid \in AnyCollation
  BY <1>2 DEF Frame, OpExpr
<1>4. Settled(c) /\ (c.shippable => context.shippable
                        /\ ~Foreign(Top.node.inputcollid))
  BY <1>3, Compared DEF IInv
<1> HIDE DEF c
<1>5. /\ Settled(context')
      /\ context'.shippable => context.shippable /\ ~ForeignOp(Top.node)
  <2>1. /\ Settled(context')
        /\ context'.shippable => c.shippable /\ ~Foreign(Top.node.opcollid)
    BY <1>1, <1>3, <1>4, Compared
  <2> QED
    BY <1>4, <2>1 DEF ForeignOp
<1>6. TypeOK'
  BY <1>1, <1>2, <1>5 DEF IInv, TypeOK, Settled
<1>7. VisitedSafe'
  <2> SUFFICES ASSUME context'.shippable, NEW i \in 1 .. Len(expr)
               PROVE  /\ Seen(expr[i])
                      /\ expr[i].kind = "OpExpr" /\ ForeignOp(expr[i]) =>
                           \E j \in 1 .. Len(Below) : Below[j].node = expr[i]
    BY <1>1 DEF VisitedSafe
  <2>1. /\ Seen(expr[i])
        /\ expr[i].kind = "OpExpr" /\ ForeignOp(expr[i]) =>
             \E j \in 1 .. Len(stack) : stack[j].node = expr[i]
    BY <1>5 DEF IInv, VisitedSafe
  <2>2. ASSUME expr[i].kind = "OpExpr", ForeignOp(expr[i])
        PROVE  \E j \in 1 .. Len(Below) : Below[j].node = expr[i]
    <3>1. PICK j \in 1 .. Len(stack) : stack[j].node = expr[i]
      BY <2>1, <2>2
    <3>2. j # Len(stack)
      BY <1>2, <1>5, <2>2, <3>1
    <3>3. j \in 1 .. Len(Below) /\ Below[j] = stack[j]
      BY <1>2, <3>2
    <3> QED
      BY <3>1, <3>3
  <2> QED
    BY <2>1, <2>2
<1>8. Finished'
  <2>1. expr # <<>>
    BY <1>1 DEF IInv, Finished
  <2> QED
    BY <1>1, <2>1 DEF IInv, Finished, Remote
<1> QED
  BY <1>5, <1>6, <1>7, <1>8 DEF IInv

LEMMA ClassifyStep ==
    ASSUME IInv, Classify PROVE IInv'
<1>1. /\ stage = "inspect" /\ stack = <<>>
      /\ stage' = IF context.shippable THEN "remote" ELSE "local"
      /\ context' = context /\ stack' = stack /\ expr' = expr /\ sql' = sql
  BY DEF Classify
<1>2. TypeOK' /\ Settled(context')
  BY <1>1 DEF IInv, TypeOK
<1>3. VisitedSafe'
  BY <1>1 DEF IInv, VisitedSafe
<1>4. Finished'
  BY <1>1 DEF IInv, Finished, Remote
<1> QED
  BY <1>2, <1>3, <1>4 DEF IInv

(* Where the statement ends up is where one of the nodes does.             *)
LEMMA DeparseStep ==
    ASSUME IInv, Deparse PROVE IInv'
<1> DEFINE ends == {NodeSql(expr[i]) : i \in 1 .. Len(expr)}
<1>1. /\ stage = "remote" /\ stage' = "deparsed"
      /\ sql' \in IF ends = {"text"} THEN ends ELSE ends \ {"text"}
      /\ context' = context /\ stack' = stack /\ expr' = expr
  BY DEF Deparse
<1>2. sql' \in ends
  BY <1>1
<1>3. PICK i \in 1 .. Len(expr) : sql' = NodeSql(expr[i])
  BY <1>2
<1>4. NodeSql(expr[i]) \in {"text", "error", "undefined", "unimplemented"}
  <2>1. expr[i] \in Node
    BY <1>3 DEF IInv, TypeOK
  <2>2. CASE expr[i] \in Var
    BY <2>2 DEF NodeSql, Var
  <2>3. CASE expr[i] \in Const
    BY <2>3 DEF NodeSql, Const, ConstTypes, ConstSql
  <2>4. CASE expr[i] \in Other
    BY <2>4 DEF NodeSql, Other
  <2>5. CASE expr[i] \in OpExpr
    BY <2>5 DEF NodeSql, OpExpr
  <2> QED
    BY <2>1, <2>2, <2>3, <2>4, <2>5 DEF Node, Leaf
<1>5. TypeOK' /\ Settled(context')
  BY <1>1, <1>3, <1>4 DEF IInv, TypeOK
<1>6. VisitedSafe'
  BY <1>1 DEF IInv, VisitedSafe
<1>7. Finished'
  BY <1>1, <1>3 DEF IInv, Finished, Remote
<1> QED
  BY <1>5, <1>6, <1>7 DEF IInv

LEMMA Inductive == IInv /\ [Next]_vars => IInv'
<1> SUFFICES ASSUME IInv, [Next]_vars PROVE IInv'
  OBVIOUS
<1>1. ASSUME NEW n \in Leaf, VisitLeaf(n) PROVE IInv'
  BY <1>1, LeafStep
<1>2. ASSUME NEW n \in OpExpr, EnterOpExpr(n) PROVE IInv'
  BY <1>2, OpStep
<1>3. CASE LeaveOpExpr
  BY <1>3, LeaveStep
<1>4. CASE Classify
  BY <1>4, ClassifyStep
<1>5. CASE Deparse
  BY <1>5, DeparseStep
<1>6. CASE UNCHANGED vars
  BY <1>6 DEF vars, IInv, TypeOK, VisitedSafe, Finished, Remote
<1> QED
  BY <1>1, <1>2, <1>3, <1>4, <1>5, <1>6 DEF Next

(* The inspection keeps its invariant: while nothing was found against a   *)
(* condition, what was visited is safe or still open.                      *)
THEOREM InvariantHolds == Spec => []IInv
<1>1. IInv /\ [Next]_vars => IInv'
  BY Inductive
<1> QED
  BY <1>1, Initially, PTL DEF Spec

(* The walk and the deparser keep the types of their state.                *)
THEOREM TypeCorrect == Spec => []TypeOK
<1>1. IInv => TypeOK
  BY DEF IInv
<1> QED
  BY <1>1, InvariantHolds, PTL

(* An operator that is closed was compared.                                *)
LEMMA SafeWhenSent == IInv => RemoteIsSafe
<1> SUFFICES ASSUME IInv, Remote, NEW i \in 1 .. Len(expr)
             PROVE  SafeNode(expr[i])
  BY DEF RemoteIsSafe
<1>1. stack = <<>> /\ context.shippable
  BY DEF IInv, Finished
<1>2. /\ Seen(expr[i])
      /\ expr[i].kind = "OpExpr" /\ ForeignOp(expr[i]) =>
           \E j \in 1 .. Len(stack) : stack[j].node = expr[i]
  BY <1>1 DEF IInv, VisitedSafe
<1>3. ~(expr[i].kind = "OpExpr" /\ ForeignOp(expr[i]))
  BY <1>1, <1>2
<1>4. CASE expr[i].kind = "OpExpr"
  BY <1>2, <1>3, <1>4 DEF Seen, SafeNode, ForeignOp, Foreign, Compatible
<1>5. CASE expr[i].kind # "OpExpr"
  BY <1>2, <1>5 DEF Seen
<1> QED
  BY <1>4, <1>5

(* Whatever the size of a condition and wherever in it a collation or an   *)
(* operator stands, what start_inspection lets pass is safe to send.       *)
THEOREM RemoteSafety == Spec => []RemoteIsSafe
  BY SafeWhenSent, InvariantHolds, PTL

(* Where conditions only refer to the scanned table, the deparser has code *)
(* for whatever start_inspection lets pass.                                *)
THEOREM DeparserTotal ==
    ASSUME Lateral = FALSE PROVE Spec => []DeparserIsComplete
<1>1. IInv => RemoteIsSafe /\ DeparserIsComplete
  <2> SUFFICES ASSUME IInv, RemoteIsSafe, sql = "unimplemented" PROVE FALSE
    BY SafeWhenSent DEF DeparserIsComplete
  <2>1. stage = "deparsed"
    BY DEF IInv, Finished
  <2>2. PICK i \in 1 .. Len(expr) : sql = NodeSql(expr[i])
    BY <2>1 DEF IInv, Finished
  <2>3. expr[i] \in Node /\ SafeNode(expr[i])
    BY <2>1, <2>2 DEF IInv, TypeOK, RemoteIsSafe, Remote
  <2>4. CASE expr[i] \in Var
    BY <2>2, <2>4 DEF NodeSql, Var
  <2>5. CASE expr[i] \in Const
    BY <2>2, <2>5 DEF NodeSql, Const, ConstTypes, ConstSql
  <2>6. CASE expr[i] \in Other
    BY <2>3, <2>6 DEF SafeNode, Other
  <2>7. CASE expr[i] \in OpExpr
    BY <2>2, <2>7 DEF NodeSql, OpExpr
  <2> QED
    BY <2>3, <2>4, <2>5, <2>6, <2>7 DEF Node, Leaf
<1> QED
  BY <1>1, InvariantHolds, PTL
=============================================================================

------------------------ MODULE ForeignInsertProofs ------------------------
(***************************************************************************)
(* Proofs about ForeignInsert for tables of any size and shape.            *)
(***************************************************************************)
EXTENDS ForeignInsert, FiniteSetTheorems, TLAPS

(* When every placeholder has a parameter, no attribute is generated and   *)
(* none is dropped but behind the last live one: numbers by attribute and  *)
(* by position are then the same.                                          *)
LEMMA Matched ==
    ASSUME TypeOK, Executable
    PROVE  /\ TargetAttrs = Placeholders
           /\ Sent = TargetAttrs
           /\ \A a \in TargetAttrs : Position(a) = a /\ OutputFunction(a) = a
<1> DEFINE n == Cardinality(TargetAttrs)
<1>1. TargetAttrs \subseteq Atts /\ Sent \subseteq TargetAttrs
  BY DEF TargetAttrs, Sent
<1>2. IsFiniteSet(TargetAttrs) /\ n \in Nat
  <2>1. IsFiniteSet(Atts)
    BY FS_Interval, InsertAssumption DEF Atts
  <2>2. IsFiniteSet(TargetAttrs)
    BY <1>1, <2>1, FS_Subset
  <2> QED
    BY <2>2, FS_CardinalityType
<1>3. IsFiniteSet(1 .. n) /\ Cardinality(1 .. n) = n
  BY <1>2, FS_Interval
<1>4. 1 .. n \in SUBSET TargetAttrs
  BY <1>1 DEF Executable, Placeholders
<1>5. TargetAttrs = 1 .. n
  BY <1>2, <1>3, <1>4, FS_Subset
<1>6. Sent = 1 .. n
  BY <1>1, <1>5 DEF Executable, Placeholders
<1>7. ASSUME NEW a \in 1 .. n PROVE Position(a) = a
  <2>1. {b \in TargetAttrs : b <= a} = 1 .. a
    BY <1>2, <1>5
  <2>2. Cardinality(1 .. a) = a
    BY <1>2, FS_Interval
  <2> QED
    BY <2>1, <2>2 DEF Position
<1>8. ASSUME NEW p \in 1 .. n PROVE Target(p) = p
  BY <1>5, <1>7 DEF Target
<1>9. ASSUME NEW a \in 1 .. n PROVE OutputFunction(a) = a
  <2>1. {b \in Sent : b < a} = 1 .. (a - 1)
    BY <1>2, <1>6
  <2>2. Cardinality(1 .. (a - 1)) = a - 1
    BY <1>2, FS_Interval
  <2>3. Cardinality({b \in Sent : b < a}) + 1 = a
    <3>1. a \in Int
      BY <1>2
    <3> QED
      BY <2>1, <2>2, <3>1, (a - 1) + 1 = a
  <2> QED
    BY <2>3, <1>8 DEF OutputFunction
<1> QED
  BY <1>5, <1>6, <1>7, <1>9 DEF Placeholders

(* The row that an execution sends.                                        *)
LEMMA SentRow ==
    ASSUME TypeOK, Executable,
           NEW row \in Nat, NEW nulls \in SUBSET Sent
    PROVE  /\ Received(row, nulls) \in [TargetAttrs -> Value]
           /\ \A c \in TargetAttrs :
                /\ Received(row, nulls)[c].row = row
                /\ Received(row, nulls)[c].att = c
                /\ Received(row, nulls)[c].fn \in {0, c}
<1>1. ASSUME NEW c \in TargetAttrs
      PROVE  Received(row, nulls)[c] =
               [row |-> row, att |-> c,
                fn |-> IF c \in nulls THEN 0 ELSE c]
  BY <1>1, Matched DEF Received, Bound
<1>2. TargetAttrs \subseteq Atts
  BY DEF TargetAttrs
<1>3. Received(row, nulls) = [c \in TargetAttrs |-> Received(row, nulls)[c]]
  BY DEF Received
<1>4. ASSUME NEW c \in TargetAttrs PROVE Received(row, nulls)[c] \in Value
  <2>1. c \in Atts
    BY <1>2
  <2>2. CASE c \in nulls
    <3>1. Received(row, nulls)[c] = [row |-> row, att |-> c, fn |-> 0]
      BY <1>1, <2>2
    <3>2. 0 \in Atts \union {0}
      OBVIOUS
    <3> QED
      BY <2>1, <3>1, <3>2 DEF Value
  <2>3. CASE c \notin nulls
    <3>1. Received(row, nulls)[c] = [row |-> row, att |-> c, fn |-> c]
      BY <1>1, <2>3
    <3>2. c \in Atts \union {0}
      BY <2>1
    <3> QED
      BY <2>1, <3>1, <3>2 DEF Value
  <2> QED
    BY <2>2, <2>3
<1> QED
  BY <1>1, <1>3, <1>4

(* Rows arrive in the order of the executor, and the flag knows of them.   *)
Executions ==
    /\ executed => Len(remote) = 1
    /\ ~executed => remote = <<>> /\ returned = 0
    /\ stage \in {"none", "explain", "unprepared"} => ~executed

IInv == TypeOK /\ ColumnsAligned /\ Executions

LEMMA Initially == Init => IInv
<1> SUFFICES ASSUME Init PROVE IInv
  OBVIOUS
<1>1. PICK dropped, generated \in SUBSET Atts :
        table = [dropped |-> dropped, generated |-> generated]
  BY DEF Init
<1>2. stage = "none" /\ executed = FALSE /\ remote = <<>> /\ returned = 0
  BY DEF Init
<1>3. TypeOK
  <2>1. table \in [dropped : SUBSET Atts, generated : SUBSET Atts]
    BY <1>1
  <2>2. remote \in Seq([Atts \ table.dropped -> Value])
    BY <1>2
  <2> QED
    BY <1>2, <2>1, <2>2 DEF TypeOK
<1>4. ColumnsAligned /\ Executions
  BY <1>2 DEF ColumnsAligned, Executions
<1> QED
  BY <1>3, <1>4 DEF IInv

(* The step that sends a row.                                              *)
LEMMA ExecKeeps ==
    ASSUME IInv, ExecForeignInsert PROVE IInv'
<1> USE DEF IInv
<1>1. CASE executed
  BY <1>1 DEF ExecForeignInsert, TypeOK, ColumnsAligned, Executions
<1>2. CASE ~executed
  <2>1. PICK nulls \in SUBSET Sent :
          remote' = Append(remote, Received(returned + 1, nulls))
    BY <1>2 DEF ExecForeignInsert
  <2> DEFINE r == Received(1, nulls)
  <2>2. Executable /\ returned = 0 /\ remote = <<>>
    BY <1>2 DEF ExecForeignInsert, Executions, TypeOK
  <2>3. remote' = <<r>>
    BY <2>1, <2>2
  <2>4. /\ r \in [TargetAttrs -> Value]
        /\ \A c \in TargetAttrs :
             r[c].row = 1 /\ r[c].att = c /\ r[c].fn \in {0, c}
    BY <2>2, SentRow
  <2>5. table' = table /\ stage' = stage /\ executed' = TRUE /\ returned' = 1
    BY <2>2 DEF ExecForeignInsert
  <2>6. TypeOK'
    <3>1. remote' \in Seq([Atts \ table.dropped -> Value])
      BY <2>3, <2>4 DEF TargetAttrs
    <3> QED
      BY <2>5, <3>1 DEF TypeOK
  <2>7. ColumnsAligned'
    <3>1. Len(remote') = 1 /\ remote'[1] = r
      BY <2>3
    <3>2. DOMAIN r = TargetAttrs
      BY <2>4
    <3> QED
      BY <2>4, <3>1, <3>2 DEF ColumnsAligned
  <2>8. Executions'
    BY <2>3, <2>5 DEF Executions, ExecForeignInsert
  <2> QED
    BY <2>6, <2>7, <2>8
<1> QED
  BY <1>1, <1>2

(* A step that leaves the table and the remote rows alone.                 *)
LEMMA Others ==
    ASSUME IInv, UNCHANGED <<table, remote, returned>>, executed' \in BOOLEAN,
           stage' \in {"none", "explain", "unprepared", "ready", "failed",
                       "crashed", "ended"},
           Executions'
    PROVE  IInv'
<1>1. TypeOK'
  BY DEF IInv, TypeOK
<1>2. ColumnsAligned'
  BY DEF IInv, ColumnsAligned
<1> QED
  BY <1>1, <1>2 DEF IInv

LEMMA Inductive == IInv /\ [Next]_vars => IInv'
<1> SUFFICES ASSUME IInv, [Next]_vars PROVE IInv'
  OBVIOUS
<1> USE DEF IInv
<1>1. CASE ExecForeignInsert
  BY <1>1, ExecKeeps
<1>2. CASE BeginForeignModify
  <2>1. Executions' /\ executed' \in BOOLEAN
    BY <1>2 DEF BeginForeignModify, Fresh, Executions
  <2> QED
    BY <1>2, <2>1, Others DEF BeginForeignModify
<1>3. CASE BeginFails \/ ExecFails \/ EndForeignModify
  <2>1. UNCHANGED <<table, executed, remote, returned>>
    BY <1>3 DEF BeginFails, ExecFails, EndForeignModify
  <2>2. stage' \in {"failed", "crashed", "ended"}
    BY <1>3 DEF BeginFails, ExecFails, EndForeignModify
  <2>3. Executions' /\ executed' \in BOOLEAN
    BY <2>1, <2>2 DEF Executions, TypeOK
  <2> QED
    BY <2>1, <2>2, <2>3, Others
<1>4. CASE BeginExplainOnly \/ BeginRouted \/ ExecUnprepared
  <2>1. UNCHANGED <<table, executed, remote, returned>>
    BY <1>4 DEF BeginExplainOnly, BeginRouted, ExecUnprepared
  <2>2. /\ stage \in {"none", "unprepared"}
        /\ stage' \in {"explain", "unprepared", "crashed"}
    BY <1>4 DEF BeginExplainOnly, BeginRouted, ExecUnprepared
  <2>3. Executions' /\ executed' \in BOOLEAN
    BY <2>1, <2>2 DEF Executions, TypeOK
  <2> QED
    BY <2>1, <2>2, <2>3, Others
<1>5. CASE UNCHANGED vars
  <2>1. Executions' /\ executed' \in BOOLEAN
    BY <1>5 DEF vars, Executions, TypeOK
  <2> QED
    BY <1>5, <2>1, Others DEF vars, TypeOK
<1> QED
  BY <1>1, <1>2, <1>3, <1>4, <1>5 DEF Next

(* An INSERT keeps its invariant: the rows received are aligned, and there *)
(* is one as soon as a row was executed, and never a second.               *)
THEOREM InvariantHolds == Spec => []IInv
  BY Initially, Inductive, PTL DEF Spec

(* The state of an insert keeps its type.                                  *)
THEOREM TypeCorrect == Spec => []TypeOK
<1>1. IInv => TypeOK
  BY DEF IInv
<1> QED
  BY <1>1, InvariantHolds, PTL

(* Whatever the shape of the table, no value reaches the server in another *)
(* column than its own, nor formatted as another type.                     *)
THEOREM Alignment == Spec => []ColumnsAligned
<1>1. IInv => ColumnsAligned
  BY DEF IInv
<1> QED
  BY <1>1, InvariantHolds, PTL

(* A statement that reports a row has sent its first one.                  *)
THEOREM FirstRow == Spec => []FirstRowSent
<1>1. IInv => FirstRowSent
  BY DEF IInv, Executions, FirstRowSent
<1> QED
  BY <1>1, InvariantHolds, PTL
=============================================================================

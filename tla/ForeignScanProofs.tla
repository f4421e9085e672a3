------------------------- MODULE ForeignScanProofs -------------------------
(***************************************************************************)
(* Theorems about ForeignScan, for every size of the remote result and of  *)
(* the batches and any number of rescans.                                  *)
(***************************************************************************)
EXTENDS ForeignScan, SequenceTheorems, TLAPS

(* The batch lies within the remote result and the position within the     *)
(* batch.                                                                  *)
Shape(s) ==
    /\ s.cursor <= Rows /\ s.base <= Rows
    /\ s.tuple_cnt = TB_FDW_INIT_TUPLE_CNT => s.cur_tuple_idx = 0
    /\ s.tuple_cnt # TB_FDW_INIT_TUPLE_CNT =>
         /\ s.cur_tuple_idx <= s.tuple_cnt
         /\ s.base + s.tuple_cnt <= Rows

(* During a pass the batch is either a left-over of an earlier pass, and   *)
(* then the cursor is still at its beginning, or it ends where the cursor  *)
(* stands; in that case all rows up to the position have been delivered.   *)
Progress(s) ==
    s.query_executed /\ ~s.end_of_fetch /\ s.cursor > 0 =>
        /\ s.tuple_cnt # TB_FDW_INIT_TUPLE_CNT
        /\ s.base + s.tuple_cnt = s.cursor
        /\ 1 .. s.base + s.cur_tuple_idx \subseteq delivered

IInv ==
    /\ Shape(fsstate)
    /\ Progress(fsstate)
    /\ fsstate.end_of_fetch => fsstate.query_executed /\ delivered = 1 .. Rows

(* IInv is inductive: first the initial states.                            *)
LEMMA InitInv == Init => TypeOK /\ IInv
  BY ScanAssumption DEF Init, TypeOK, IInv, ScanState, NewScanState, Shape,
                        Progress, TB_FDW_INIT_TUPLE_CNT

(* Executing the query keeps the shape and starts a pass with no progress. *)
LEMMA ExecutedInv ==
    ASSUME TypeOK, IInv
    PROVE  /\ Executed(fsstate) \in ScanState
           /\ Shape(Executed(fsstate))
           /\ Progress(Executed(fsstate))
           /\ Executed(fsstate).query_executed
           /\ Executed(fsstate).end_of_fetch = fsstate.end_of_fetch
  <1>1. CASE fsstate.query_executed
    BY <1>1 DEF TypeOK, IInv, Executed
  <1>2. CASE ~fsstate.query_executed
    <2>1. /\ Executed(fsstate) \in ScanState
          /\ Executed(fsstate).query_executed
          /\ Executed(fsstate).cursor = 0
          /\ Executed(fsstate).end_of_fetch = fsstate.end_of_fetch
          /\ Executed(fsstate).tuple_cnt = fsstate.tuple_cnt
          /\ Executed(fsstate).cur_tuple_idx = fsstate.cur_tuple_idx
          /\ Executed(fsstate).base = fsstate.base
      BY <1>2 DEF TypeOK, ScanState, Executed
    <2> QED BY <2>1, ScanAssumption DEF IInv, Shape, Progress
  <1> QED BY <1>1, <1>2

(* A batch stays within the result, and is empty at its end only.          *)
LEMMA BatchSizeRange ==
    ASSUME NEW s \in ScanState, Shape(s)
    PROVE  /\ BatchSize(s) \in Nat
           /\ s.cursor + BatchSize(s) <= Rows
           /\ BatchSize(s) = 0 => s.cursor = Rows
  BY ScanAssumption DEF ScanState, Shape, BatchSize

(* What get_next_tuple finds: the end with everything delivered, or a      *)
(* position inside a batch.                                                *)
LEMMA FetchedInv ==
    ASSUME TypeOK, IInv
    PROVE  LET s == Fetched(fsstate) IN
           /\ s \in ScanState
           /\ Shape(s)
           /\ Progress(s)
           /\ s.query_executed
           /\ s.end_of_fetch => delivered = 1 .. Rows
           /\ ~s.end_of_fetch => /\ s.tuple_cnt # TB_FDW_INIT_TUPLE_CNT
                                 /\ s.cur_tuple_idx < s.tuple_cnt
  <1> DEFINE e == Executed(fsstate)
  <1>1. /\ e \in ScanState /\ Shape(e) /\ Progress(e) /\ e.query_executed
        /\ e.end_of_fetch = fsstate.end_of_fetch
    BY ExecutedInv
  <1>2. delivered \in SUBSET (1 .. Rows)
    BY DEF TypeOK
  <1>3. e.end_of_fetch => delivered = 1 .. Rows
    BY <1>1 DEF IInv
  <1> HIDE DEF e
  <1>4. CASE ~need_fetch_tuples(e)
    <2>1. Fetched(fsstate) = e
      BY <1>4 DEF Fetched, e
    <2> QED BY <2>1, <1>1, <1>3, <1>4
            DEF need_fetch_tuples, Shape, ScanState, TB_FDW_INIT_TUPLE_CNT
  <1>5. CASE need_fetch_tuples(e)
    <2>1. Fetched(fsstate) = fetch_tuples(e)
      BY <1>5 DEF Fetched, e
    <2>2. /\ BatchSize(e) \in Nat /\ e.cursor + BatchSize(e) <= Rows
          /\ BatchSize(e) = 0 => e.cursor = Rows
      BY <1>1, BatchSizeRange
    <2>3. e.cursor > 0 => 1 .. e.cursor \subseteq delivered
      BY <1>1, <1>5 DEF need_fetch_tuples, Progress, ScanState
    <2>4. CASE BatchSize(e) = 0
      <3>1. delivered = 1 .. Rows
        <4>1. e.cursor = Rows
          BY <2>2, <2>4
        <4>2. CASE Rows = 0
          <5>1. 1 .. Rows = {}
            BY <4>2
          <5> QED BY <5>1, <1>2
        <4>3. CASE Rows # 0
          <5>1. 1 .. Rows \subseteq delivered
            BY <4>1, <4>3, <2>3, ScanAssumption
          <5> QED BY <5>1, <1>2
        <4> QED BY <4>2, <4>3
      <3> DEFINE f == fetch_tuples(e)
      <3>2. /\ f \in ScanState /\ f.query_executed /\ f.end_of_fetch
            /\ f.tuple_cnt = 0 /\ f.cur_tuple_idx = 0
            /\ f.cursor = e.cursor /\ f.base = e.base
        BY <2>4, <1>1 DEF fetch_tuples, ScanState
      <3> HIDE DEF f
      <3>3. Shape(f) /\ Progress(f)
        BY <3>2, <1>1 DEF Shape, Progress, ScanState, TB_FDW_INIT_TUPLE_CNT
      <3> QED BY <2>1, <3>1, <3>2, <3>3 DEF f
    <2>5. CASE BatchSize(e) # 0
      <3> DEFINE n == BatchSize(e)
      <3>1. n \in Nat \ {0} /\ e.cursor + n <= Rows
        BY <2>2, <2>5
      <3> HIDE DEF n
      <3> DEFINE f == fetch_tuples(e)
      <3>2. f = [e EXCEPT !.tuple_cnt = n, !.cur_tuple_idx = 0,
                          !.base = e.cursor, !.cursor = e.cursor + n]
        BY <2>5, <1>1 DEF fetch_tuples, n, ScanState
      <3> HIDE DEF f
      <3>3. /\ f \in ScanState /\ f.query_executed /\ ~f.end_of_fetch
            /\ f.tuple_cnt = n /\ f.cur_tuple_idx = 0
            /\ f.cursor = e.cursor + n /\ f.base = e.cursor
        <4>1. e.cursor + n \in Nat /\ ~e.end_of_fetch
          BY <3>1, <1>1, <1>5 DEF ScanState, need_fetch_tuples
        <4> QED BY <4>1, <3>1, <3>2, <1>1 DEF ScanState
      <3>4. 1 .. e.cursor \subseteq delivered
        <4>1. CASE e.cursor > 0
          BY <4>1, <2>3
        <4>2. CASE e.cursor = 0
          BY <4>2
        <4> QED BY <4>1, <4>2, <1>1 DEF ScanState
      <3>5. Shape(f)
        BY <3>1, <3>3, <1>1, ScanAssumption DEF Shape, ScanState, TB_FDW_INIT_TUPLE_CNT
      <3>6. Progress(f)
        BY <3>1, <3>3, <3>4, <1>1 DEF Progress, ScanState, TB_FDW_INIT_TUPLE_CNT
      <3> QED BY <2>1, <3>1, <3>3, <3>5, <3>6 DEF TB_FDW_INIT_TUPLE_CNT, f
    <2> QED BY <2>4, <2>5
  <1> QED BY <1>4, <1>5

(* Delivering a row extends what has been delivered to the position.       *)
LEMMA IterateRowInv == ASSUME TypeOK, IInv, IterateRow PROVE (TypeOK /\ IInv)'
  <1> DEFINE s == Fetched(fsstate)
  <1>1. /\ s \in ScanState /\ Shape(s) /\ Progress(s) /\ s.query_executed
        /\ ~s.end_of_fetch
        /\ s.tuple_cnt # TB_FDW_INIT_TUPLE_CNT
        /\ s.cur_tuple_idx < s.tuple_cnt
    BY FetchedInv DEF IterateRow
  <1>2. /\ slot' = s.base + s.cur_tuple_idx + 1
        /\ fsstate' = [s EXCEPT !.cur_tuple_idx = s.cur_tuple_idx + 1]
        /\ delivered' = delivered \union {slot'}
        /\ UNCHANGED <<state, rescans>>
    BY <1>1 DEF IterateRow, ScanState
  <1> HIDE DEF s
  <1>3. slot' \in 1 .. Rows
    BY <1>1, <1>2, ScanAssumption DEF ScanState, Shape, TB_FDW_INIT_TUPLE_CNT
  <1>4. fsstate' \in ScanState /\ Shape(fsstate') /\ ~fsstate'.end_of_fetch
    BY <1>1, <1>2, ScanAssumption DEF ScanState, Shape, TB_FDW_INIT_TUPLE_CNT
  <1>5. Progress(fsstate)'
    <2>1. fsstate'.cursor = s.cursor /\ fsstate'.base = s.base
          /\ fsstate'.tuple_cnt = s.tuple_cnt
          /\ fsstate'.cur_tuple_idx = s.cur_tuple_idx + 1
      BY <1>1, <1>2 DEF ScanState
    <2>2. s.cursor > 0 => /\ s.base + s.tuple_cnt = s.cursor
                          /\ 1 .. s.base + s.cur_tuple_idx \subseteq delivered
      BY <1>1 DEF Progress
    <2>3. s.cursor > 0 => 1 .. s.base + s.cur_tuple_idx + 1 \subseteq delivered'
      BY <1>1, <1>2, <2>2 DEF ScanState
    <2> QED BY <1>1, <2>1, <2>2, <2>3 DEF Progress, ScanState
  <1>6. TypeOK'
    BY <1>2, <1>3, <1>4 DEF TypeOK
  <1> QED BY <1>4, <1>5, <1>6 DEF IInv

(* Every action keeps type and invariant.                                  *)
LEMMA NextInv == ASSUME TypeOK, IInv, [Next]_vars PROVE (TypeOK /\ IInv)'
  <1>1. CASE BeginForeignScan
    BY <1>1, ScanAssumption
       DEF BeginForeignScan, TypeOK, IInv, ScanState, NewScanState, Shape,
           Progress, TB_FDW_INIT_TUPLE_CNT
  <1>2. CASE BeginExplainOnly
    BY <1>2 DEF BeginExplainOnly, TypeOK, IInv, Progress
  <1>3. CASE IterateRow
    BY <1>3, IterateRowInv
  <1>4. CASE IterateEnd
    <2>1. LET s == Fetched(fsstate) IN
          /\ s \in ScanState /\ Shape(s) /\ Progress(s) /\ s.query_executed
          /\ s.end_of_fetch => delivered = 1 .. Rows
      BY FetchedInv
    <2>2. fsstate' = Fetched(fsstate) /\ slot' = 0
          /\ UNCHANGED <<state, rescans, delivered>>
      BY <1>4 DEF IterateEnd
    <2> QED BY <2>1, <2>2, ScanAssumption DEF TypeOK, IInv, Progress
  <1>5. CASE IterateFails
    BY <1>5, ScanAssumption DEF IterateFails, TypeOK, IInv, Progress
  <1>6. CASE ReScanForeignScan
    <2>1. /\ fsstate' \in ScanState
          /\ fsstate'.cursor = fsstate.cursor /\ fsstate'.base = fsstate.base
          /\ fsstate'.tuple_cnt = fsstate.tuple_cnt
          /\ fsstate'.cur_tuple_idx = 0
          /\ ~fsstate'.query_executed /\ ~fsstate'.end_of_fetch
      BY <1>6 DEF ReScanForeignScan, Rewound, TypeOK, ScanState
    <2>2. Shape(fsstate')
      BY <2>1 DEF TypeOK, IInv, ScanState, Shape, TB_FDW_INIT_TUPLE_CNT
    <2>3. TypeOK'
      BY <1>6, <2>1, ScanAssumption DEF ReScanForeignScan, TypeOK
    <2> QED BY <2>1, <2>2, <2>3 DEF IInv, Progress
  <1>7. CASE EndForeignScan
    BY <1>7, ScanAssumption DEF EndForeignScan, TypeOK, IInv, Progress
  <1>8. CASE UNCHANGED vars
    BY <1>8 DEF vars, TypeOK, IInv, Progress
  <1> QED BY <1>1, <1>2, <1>3, <1>4, <1>5, <1>6, <1>7, <1>8 DEF Next

(* The shape of the batch and the progress of the pass hold throughout.    *)
THEOREM InvariantHolds == Spec => [](TypeOK /\ IInv)
  <1>1. Init => TypeOK /\ IInv
    BY InitInv
  <1>2. TypeOK /\ IInv /\ [Next]_vars => (TypeOK /\ IInv)'
    BY NextInv
  <1> QED BY <1>1, <1>2, PTL DEF Spec

(* The state of a scan keeps its type.                                     *)
THEOREM TypeCorrect == Spec => []TypeOK
  <1> QED BY InvariantHolds, PTL

(* A pass that reports its end has delivered every remote row, even when   *)
(* it began in the middle of a batch.                                      *)
THEOREM ScanComplete == Spec => []EndIsComplete
  <1>1. TypeOK /\ IInv => EndIsComplete
    BY DEF IInv, EndIsComplete
  <1> QED BY <1>1, InvariantHolds, PTL

(* The assertion of get_next_tuple never fails.                            *)
THEOREM AssertHolds == Spec => []InsideBatch
  <1>1. TypeOK /\ IInv => InsideBatch
    BY FetchedInv DEF InsideBatch
  <1> QED BY <1>1, InvariantHolds, PTL

-----------------------------------------------------------------------------
(* The scan implements the stream of rows.  What is due is the rest of the *)
(* batch and then what the cursor has left; a fetch moves rows from the    *)
(* second part to the first.                                               *)

(* Consecutive numbers after a, and two such runs one after the other.     *)
Run(a, n) == [i \in 1 .. n |-> a + i]

(* A run has its length and its numbers.                                   *)
LEMMA RunProps ==
    ASSUME NEW a \in Int, NEW n \in Int
    PROVE  /\ Run(a, n) \in Seq(Int)
           /\ Len(Run(a, n)) = IF n > 0 THEN n ELSE 0
           /\ \A i \in 1 .. n : Run(a, n)[i] = a + i
  <1>1. CASE n > 0
    <2>1. \A i \in 1 .. n : a + i \in Int
      OBVIOUS
    <2>2. Run(a, n) \in Seq(Int) /\ Len(Run(a, n)) = n
      BY <1>1, <2>1 DEF Run
    <2> QED BY <1>1, <2>2 DEF Run
  <1>2. CASE n <= 0
    <2>1. 1 .. n = {}
      BY <1>2
    <2>2. Run(a, n) = <<>>
      BY <2>1 DEF Run
    <2> QED BY <1>2, <2>1, <2>2
  <1> QED BY <1>1, <1>2

(* Two runs make one when the second goes on where the first ends.         *)
LEMMA RunsJoin ==
    ASSUME NEW a \in Int, NEW m \in Nat, NEW n \in Nat
    PROVE  Run(a, m) \o Run(a + m, n) = Run(a, m + n)
  <1> DEFINE x == Run(a, m)
             y == Run(a + m, n)
             z == Run(a, m + n)
  <1>1. x \in Seq(Int) /\ Len(x) = m /\ \A i \in 1 .. m : x[i] = a + i
    BY RunProps
  <1>2. y \in Seq(Int) /\ Len(y) = n /\ \A i \in 1 .. n : y[i] = a + m + i
    BY RunProps
  <1>3. z \in Seq(Int) /\ Len(z) = m + n /\ \A i \in 1 .. m + n : z[i] = a + i
    BY RunProps
  <1> HIDE DEF x, y, z
  <1>4. /\ x \o y \in Seq(Int) /\ Len(x \o y) = m + n
        /\ \A i \in 1 .. m + n :
              (x \o y)[i] = IF i <= m THEN x[i] ELSE y[i - m]
    BY <1>1, <1>2, ConcatProperties
  <1>5. ASSUME NEW i \in 1 .. m + n
        PROVE  (x \o y)[i] = z[i]
    <2>0. i <= m \/ i > m
      OBVIOUS
    <2>1. CASE i <= m
      BY <1>1, <1>3, <1>4, <2>1
    <2>2. CASE i > m
      <3>1. i - m \in 1 .. n
        BY <2>2
      <3>2. y[i - m] = a + m + (i - m) /\ z[i] = a + i
        BY <1>2, <1>3, <3>1
      <3> QED BY <1>4, <2>2, <3>2
    <2> QED BY <2>0, <2>1, <2>2, Zenon
  <1>6. x \o y = z
    BY <1>3, <1>4, <1>5, SeqEqual
  <1> QED BY <1>6 DEF x, y, z

(* Nothing before, nothing after.                                          *)
LEMMA RunEmpty ==
    ASSUME NEW a \in Int, NEW n \in Int, n <= 0
    PROVE  Run(a, n) = <<>>
  <1>1. Run(a, n) \in Seq(Int) /\ Len(Run(a, n)) = 0
    BY RunProps
  <1> QED BY <1>1, EmptySeq

(* An empty sequence before or after a run adds nothing.                   *)
LEMMA RunAlone ==
    ASSUME NEW a \in Int, NEW n \in Int
    PROVE  <<>> \o Run(a, n) = Run(a, n) /\ Run(a, n) \o <<>> = Run(a, n)
  BY RunProps, ConcatEmptySeq

(* The first row due and the others.                                       *)
FirstThen(due, first, others) ==
    due # <<>> /\ Head(due) = first /\ Tail(due) = others

(* A run loses its first number.                                           *)
LEMMA RunHead ==
    ASSUME NEW a \in Int, NEW m \in Nat, NEW b \in Int, NEW n \in Int,
           NEW c \in Int, c = a + 1, NEW k \in Nat, m = k + 1
    PROVE  FirstThen(Run(a, m) \o Run(b, n), c, Run(c, k) \o Run(b, n))
  <1> DEFINE x == Run(a, m)
             y == Run(b, n)
             z == Run(c, k)
             due == x \o y
  <1>1. x \in Seq(Int) /\ Len(x) = m /\ \A i \in 1 .. m : x[i] = a + i
    BY RunProps
  <1>2. y \in Seq(Int) /\ Len(y) \in Nat
    BY RunProps
  <1>3. z \in Seq(Int) /\ Len(z) = k /\ \A i \in 1 .. k : z[i] = c + i
    BY RunProps
  <1> HIDE DEF x, y, z
  <1>4. /\ due \in Seq(Int) /\ Len(due) = m + Len(y)
        /\ \A i \in 1 .. m + Len(y) :
              due[i] = IF i <= m THEN x[i] ELSE y[i - m]
    <2>1. /\ due \in Seq(Int) /\ Len(due) = Len(x) + Len(y)
          /\ \A i \in 1 .. Len(x) + Len(y) :
                due[i] = IF i <= Len(x) THEN x[i] ELSE y[i - Len(x)]
      BY <1>1, <1>2, ConcatProperties, Zenon
    <2>2. Len(x) = m
      BY <1>1
    <2> QED BY <2>1, <2>2, Zenon
  <1>5. /\ z \o y \in Seq(Int) /\ Len(z \o y) = k + Len(y)
        /\ \A i \in 1 .. k + Len(y) :
              (z \o y)[i] = IF i <= k THEN z[i] ELSE y[i - k]
    BY <1>2, <1>3, ConcatProperties
  <1> HIDE DEF due
  <1>6. due # <<>> /\ Head(due) = due[1]
    BY <1>2, <1>4, EmptySeq
  <1>7. Head(due) = c
    BY <1>1, <1>2, <1>4, <1>6
  <1>8. /\ Tail(due) \in Seq(Int) /\ Len(Tail(due)) = k + Len(y)
        /\ \A i \in 1 .. k + Len(y) : Tail(due)[i] = due[i + 1]
    BY <1>2, <1>4, <1>6, HeadTailProperties
  <1>9. ASSUME NEW i \in 1 .. k + Len(y)
        PROVE  Tail(due)[i] = (z \o y)[i]
    <2>1. i + 1 \in 1 .. m + Len(y) /\ i \in Int
      BY <1>2
    <2>0. i <= k \/ i > k
      BY <2>1
    <2>2. CASE i <= k
      <3>0. i + 1 \in 1 .. m /\ i \in 1 .. k
        BY <2>1, <2>2
      <3>1. Tail(due)[i] = x[i + 1]
        BY <1>4, <1>8, <2>1, <3>0
      <3>2. (z \o y)[i] = z[i]
        BY <1>5, <2>2
      <3>3. x[i + 1] = a + (i + 1) /\ z[i] = c + i
        BY <1>1, <1>3, <3>0
      <3>4. a + (i + 1) = c + i
        BY <2>1
      <3> QED BY <3>1, <3>2, <3>3, <3>4
    <2>3. CASE i > k
      <3>0. Tail(due)[i] = due[i + 1] /\ ~(i + 1 <= m)
        BY <1>8, <2>1, <2>3
      <3>1. Tail(due)[i] = y[i + 1 - m]
        BY <1>4, <2>1, <3>0
      <3>2. (z \o y)[i] = y[i - k]
        BY <1>5, <2>3
      <3>3. i + 1 - m = i - k
        BY <2>1
      <3> QED BY <3>1, <3>2, <3>3
    <2> QED BY <2>0, <2>2, <2>3, Zenon
  <1>10. Tail(due) = z \o y
    BY <1>5, <1>8, <1>9, SeqEqual
  <1> QED BY <1>6, <1>7, <1>10 DEF FirstThen, due, x, y, z

(* The rows a scan state stands for.                                       *)
Taken(s) == IF s.query_executed THEN s.cursor ELSE 0
DueOf(s) ==
    IF s.end_of_fetch THEN <<>>
    ELSE Run(s.base + s.cur_tuple_idx, s.tuple_cnt - s.cur_tuple_idx)
         \o Run(Taken(s), Rows - Taken(s))

(* The refinement mapping in these terms.                                  *)
LEMMA DueIs == Due = IF state # "scanning" THEN <<>> ELSE DueOf(fsstate)
  BY DEF Due, DueOf, Taken, Run

(* Executing and fetching take no row away and add none.                   *)
LEMMA FetchKeepsDue ==
    ASSUME TypeOK, IInv
    PROVE  DueOf(Fetched(fsstate)) = DueOf(fsstate)
  <1> DEFINE e == Executed(fsstate)
  <1>0. fsstate \in ScanState
    BY DEF TypeOK
  <1>1. /\ e \in ScanState /\ Shape(e) /\ e.query_executed
    BY ExecutedInv
  <1>2. DueOf(e) = DueOf(fsstate)
    <2>1. CASE fsstate.query_executed
      BY <2>1 DEF Executed
    <2>2. CASE ~fsstate.query_executed
      <3>1. /\ e.query_executed /\ e.cursor = 0
            /\ e.end_of_fetch = fsstate.end_of_fetch
            /\ e.tuple_cnt = fsstate.tuple_cnt
            /\ e.cur_tuple_idx = fsstate.cur_tuple_idx /\ e.base = fsstate.base
        BY <1>0, <2>2 DEF Executed, ScanState
      <3>2. Taken(e) = 0 /\ Taken(fsstate) = 0
        BY <2>2, <3>1 DEF Taken
      <3> HIDE DEF e
      <3> QED BY <3>1, <3>2 DEF DueOf
    <2> QED BY <2>1, <2>2
  <1>3. Fetched(fsstate) = IF need_fetch_tuples(e) THEN fetch_tuples(e) ELSE e
    BY DEF Fetched
  <1> HIDE DEF e
  <1>4. CASE ~need_fetch_tuples(e)
    BY <1>2, <1>3, <1>4
  <1>5. CASE need_fetch_tuples(e)
    <2> DEFINE f == fetch_tuples(e)
               n == BatchSize(e)
    <2>1. /\ e.base \in Nat /\ e.cursor \in Nat /\ e.cur_tuple_idx \in Nat
          /\ e.tuple_cnt \in Int /\ Rows \in Nat /\ e.cursor <= Rows
      BY <1>1, ScanAssumption DEF ScanState, Shape, TB_FDW_INIT_TUPLE_CNT
    <2>2. ~e.end_of_fetch /\ e.tuple_cnt - e.cur_tuple_idx <= 0
      BY <1>1, <1>5, <2>1 DEF need_fetch_tuples, Shape, TB_FDW_INIT_TUPLE_CNT
    <2>3. DueOf(e) = Run(e.cursor, Rows - e.cursor)
      <3>1. Taken(e) = e.cursor
        BY <1>1 DEF Taken
      <3>2. /\ e.base + e.cur_tuple_idx \in Int /\ e.cursor \in Int
            /\ e.tuple_cnt - e.cur_tuple_idx \in Int /\ Rows - e.cursor \in Int
        BY <2>1
      <3>3. Run(e.base + e.cur_tuple_idx, e.tuple_cnt - e.cur_tuple_idx)
            \o Run(e.cursor, Rows - e.cursor) = Run(e.cursor, Rows - e.cursor)
        <4>1. Run(e.base + e.cur_tuple_idx, e.tuple_cnt - e.cur_tuple_idx) = <<>>
          BY <2>2, <3>2, RunEmpty, Zenon
        <4>2. <<>> \o Run(e.cursor, Rows - e.cursor) = Run(e.cursor, Rows - e.cursor)
          BY <3>2, RunAlone, Zenon
        <4> QED BY <4>1, <4>2, Zenon
      <3>4. DueOf(e) = Run(e.base + e.cur_tuple_idx, e.tuple_cnt - e.cur_tuple_idx)
                       \o Run(e.cursor, Rows - e.cursor)
        BY <2>2, <3>1, Zenon DEF DueOf
      <3> QED BY <3>3, <3>4, Zenon
    <2>4. /\ n \in Nat /\ e.cursor + n <= Rows /\ (n = 0 => e.cursor = Rows)
      BY <1>1, BatchSizeRange
    <2>5. CASE n = 0
      <3>1. f.end_of_fetch
        BY <1>1, <2>5 DEF fetch_tuples, ScanState
      <3>2. DueOf(f) = <<>>
        BY <3>1 DEF DueOf
      <3>3. Rows - e.cursor = 0
        BY <2>1, <2>4, <2>5
      <3>4. Run(e.cursor, 0) = <<>>
        <4>1. e.cursor \in Int /\ 0 \in Int /\ 0 <= 0
          BY <2>1
        <4> QED BY <4>1, RunEmpty, Zenon
      <3> HIDE DEF f, n
      <3> QED BY <1>2, <1>3, <1>5, <2>3, <3>2, <3>3, <3>4 DEF f
    <2>6. CASE n # 0
      <3>1. f = [e EXCEPT !.tuple_cnt = n, !.cur_tuple_idx = 0,
                          !.base = e.cursor, !.cursor = e.cursor + n]
        BY <2>6, <1>1 DEF fetch_tuples, ScanState
      <3> HIDE DEF f, n
      <3>2. /\ f.query_executed /\ f.end_of_fetch = e.end_of_fetch
            /\ f.tuple_cnt = n /\ f.cur_tuple_idx = 0
            /\ f.cursor = e.cursor + n /\ f.base = e.cursor
        BY <3>1, <1>1 DEF ScanState
      <3> DEFINE k == Rows - (e.cursor + n)
      <3>3. k \in Nat /\ n + k = Rows - e.cursor
        BY <2>1, <2>4
      <3>4. Taken(f) = e.cursor + n
        BY <3>2 DEF Taken
      <3>5. f.base + f.cur_tuple_idx = e.cursor /\ f.tuple_cnt - f.cur_tuple_idx = n
        BY <2>1, <2>4, <3>2
      <3>6. DueOf(f) = Run(e.cursor, n) \o Run(e.cursor + n, k)
        BY <2>2, <3>2, <3>4, <3>5, Zenon DEF DueOf
      <3> HIDE DEF k
      <3>7. DueOf(f) = Run(e.cursor, n + k)
        <4>1. e.cursor \in Int /\ n \in Nat /\ k \in Nat
          BY <2>1, <2>4, <3>3
        <4> QED BY <3>6, <4>1, RunsJoin, Zenon
      <3> QED BY <1>2, <1>3, <1>5, <2>3, <3>3, <3>7 DEF f
    <2> QED BY <2>5, <2>6
  <1> QED BY <1>4, <1>5

(* The slot holds the row at the position; it is empty before the first    *)
(* row of a pass, at the end, and outside the scan.                        *)
Slots ==
    /\ state # "scanning" => slot = 0
    /\ fsstate.tuple_cnt <= fetch_size
    /\ fsstate.end_of_fetch => fsstate.tuple_cnt = 0
    /\ state = "scanning" /\ slot = 0 /\ ~fsstate.end_of_fetch
       => ~fsstate.query_executed /\ fsstate.cur_tuple_idx = 0
    /\ slot # 0 => /\ ~fsstate.end_of_fetch /\ fsstate.query_executed
                   /\ fsstate.tuple_cnt # TB_FDW_INIT_TUPLE_CNT
                   /\ fsstate.cur_tuple_idx > 0
                   /\ slot = fsstate.base + fsstate.cur_tuple_idx

(* A fetch returns no more than a batch, and nothing at the end.           *)
LEMMA FetchedBatch ==
    ASSUME TypeOK, IInv, Slots
    PROVE  LET s == Fetched(fsstate)
           IN  s.tuple_cnt <= fetch_size /\ (s.end_of_fetch => s.tuple_cnt = 0)
  <1> DEFINE e == Executed(fsstate)
  <1>0. fsstate \in ScanState
    BY DEF TypeOK
  <1>1. e \in ScanState /\ Shape(e)
    BY ExecutedInv
  <1>2. /\ e.tuple_cnt = fsstate.tuple_cnt
        /\ e.end_of_fetch = fsstate.end_of_fetch
    BY <1>0 DEF Executed, ScanState
  <1>3. Fetched(fsstate) = IF need_fetch_tuples(e) THEN fetch_tuples(e) ELSE e
    BY DEF Fetched
  <1> HIDE DEF e
  <1>4. CASE ~need_fetch_tuples(e)
    BY <1>2, <1>3, <1>4 DEF Slots
  <1>5. CASE need_fetch_tuples(e)
    <2>1. ~e.end_of_fetch
      BY <1>5 DEF need_fetch_tuples
    <2>2. BatchSize(e) <= fetch_size
      BY <1>1, ScanAssumption DEF BatchSize, ScanState
    <2> DEFINE n == BatchSize(e)
    <2>3. CASE n = 0
      <3>1. fetch_tuples(e).tuple_cnt = 0
        BY <1>1, <2>3 DEF fetch_tuples, ScanState
      <3> QED BY <1>3, <1>5, <3>1, ScanAssumption
    <2>4. CASE n # 0
      <3>1. /\ fetch_tuples(e).tuple_cnt = n
            /\ fetch_tuples(e).end_of_fetch = e.end_of_fetch
        BY <1>1, <2>4 DEF fetch_tuples, ScanState
      <3> QED BY <1>3, <1>5, <2>1, <2>2, <3>1
    <2> QED BY <2>3, <2>4
  <1> QED BY <1>4, <1>5

(* Slots is inductive: the initial states, and every step.                 *)
LEMMA SlotsInit == Init => Slots
  BY ScanAssumption DEF Init, Slots, NewScanState, TB_FDW_INIT_TUPLE_CNT

(* Every action keeps Slots.                                               *)
LEMMA SlotsNext == ASSUME TypeOK, IInv, Slots, [Next]_vars PROVE Slots'
  <1>1. CASE BeginForeignScan
    BY <1>1, ScanAssumption
       DEF BeginForeignScan, Slots, NewScanState, TB_FDW_INIT_TUPLE_CNT
  <1>2. CASE BeginExplainOnly
    BY <1>2 DEF BeginExplainOnly, Slots
  <1>3. CASE IterateRow
    <2> DEFINE s == Fetched(fsstate)
    <2>1. /\ s \in ScanState /\ s.query_executed /\ ~s.end_of_fetch
          /\ s.tuple_cnt # TB_FDW_INIT_TUPLE_CNT /\ s.tuple_cnt <= fetch_size
      BY <1>3, FetchedInv, FetchedBatch DEF IterateRow
    <2>2. /\ slot' = s.base + s.cur_tuple_idx + 1 /\ state' = "scanning"
          /\ fsstate' = [s EXCEPT !.cur_tuple_idx = s.cur_tuple_idx + 1]
      BY <1>3, <2>1 DEF IterateRow, ScanState
    <2> HIDE DEF s
    <2>3. /\ fsstate'.base = s.base /\ fsstate'.tuple_cnt = s.tuple_cnt
          /\ fsstate'.cur_tuple_idx = s.cur_tuple_idx + 1
          /\ fsstate'.query_executed /\ ~fsstate'.end_of_fetch
          /\ s.base \in Nat /\ s.cur_tuple_idx \in Nat
      BY <2>1, <2>2 DEF ScanState
    <2> QED BY <2>1, <2>2, <2>3 DEF Slots
  <1>4. CASE IterateEnd
    <2>1. fsstate' = Fetched(fsstate) /\ slot' = 0 /\ Fetched(fsstate).end_of_fetch
      BY <1>4 DEF IterateEnd
    <2> QED BY <2>1, FetchedBatch DEF Slots
  <1>5. CASE IterateFails
    BY <1>5 DEF IterateFails, Slots
  <1>6. CASE ReScanForeignScan
    <2>1. /\ fsstate'.tuple_cnt = fsstate.tuple_cnt /\ fsstate'.cur_tuple_idx = 0
          /\ ~fsstate'.query_executed /\ ~fsstate'.end_of_fetch /\ slot' = 0
      BY <1>6 DEF ReScanForeignScan, Rewound, TypeOK, ScanState
    <2> QED BY <2>1 DEF Slots
  <1>7. CASE EndForeignScan
    BY <1>7 DEF EndForeignScan, Slots
  <1>8. CASE UNCHANGED vars
    BY <1>8 DEF vars, Slots
  <1> QED BY <1>1, <1>2, <1>3, <1>4, <1>5, <1>6, <1>7, <1>8 DEF Next

(* A pass that begins without a left-over delivers the whole result.       *)
LEMMA WholeResult ==
    ASSUME NEW a \in Int, NEW n \in Int, n <= 0
    PROVE  Run(a, n) \o Run(0, Rows) = RS!All
  <1>1. Run(a, n) = <<>>
    BY RunEmpty
  <1>2. <<>> \o Run(0, Rows) = Run(0, Rows)
    BY RunAlone, ScanAssumption
  <1>3. Run(0, Rows) = RS!All
    BY ScanAssumption DEF Run, RS!All, RS!Interval
  <1> QED BY <1>1, <1>2, <1>3

(* Nothing is due before the scan begins.                                  *)
LEMMA InitRefines == Init => RS!Init
  BY DEF Init, RS!Init, Stage, Due

(* A row of the batch is the first of those due.                           *)
LEMMA RowRefines ==
    ASSUME TypeOK, IInv, IterateRow
    PROVE  RS!Deliver
  <1> DEFINE s == Fetched(fsstate)
  <1>1. /\ s \in ScanState /\ ~s.end_of_fetch
        /\ s.tuple_cnt # TB_FDW_INIT_TUPLE_CNT /\ s.cur_tuple_idx < s.tuple_cnt
    BY FetchedInv DEF IterateRow
  <1>2. /\ slot' = s.base + s.cur_tuple_idx + 1
        /\ fsstate' = [s EXCEPT !.cur_tuple_idx = s.cur_tuple_idx + 1]
        /\ state = "scanning" /\ state' = "scanning"
    BY <1>1 DEF IterateRow, ScanState
  <1>3. Due = DueOf(s)
    BY <1>2, DueIs, FetchKeepsDue
  <1>4. Due' = DueOf(fsstate')
    BY <1>2 DEF Due, DueOf, Taken, Run
  <1> HIDE DEF s
  <1> DEFINE a == s.base + s.cur_tuple_idx
             m == s.tuple_cnt - s.cur_tuple_idx
             b == Taken(s)
             n == Rows - Taken(s)
             k == m - 1
             c == a + 1
  <1>5. /\ s.base \in Nat /\ s.cur_tuple_idx \in Nat /\ s.tuple_cnt \in Nat
        /\ s.cursor \in Nat
    BY <1>1 DEF ScanState, TB_FDW_INIT_TUPLE_CNT
  <1>6. /\ a \in Int /\ m \in Nat /\ b \in Int /\ n \in Int /\ c \in Int
        /\ c = a + 1 /\ k \in Nat /\ m = k + 1
    BY <1>1, <1>5, ScanAssumption DEF Taken
  <1>7. DueOf(s) = Run(a, m) \o Run(b, n)
    BY <1>1, Zenon DEF DueOf
  <1>8. DueOf(fsstate') = Run(c, k) \o Run(b, n)
    <2>1. /\ fsstate'.base = s.base /\ fsstate'.tuple_cnt = s.tuple_cnt
          /\ fsstate'.cur_tuple_idx = s.cur_tuple_idx + 1
          /\ ~fsstate'.end_of_fetch /\ fsstate'.cursor = s.cursor
          /\ fsstate'.query_executed = s.query_executed
      BY <1>1, <1>2 DEF ScanState
    <2>2. Taken(fsstate') = b
      BY <2>1 DEF Taken
    <2>3. /\ fsstate'.base + fsstate'.cur_tuple_idx = c
          /\ fsstate'.tuple_cnt - fsstate'.cur_tuple_idx = k
      BY <1>5, <2>1
    <2> HIDE DEF b, c, k
    <2>4. Rows - Taken(fsstate') = n
      BY <2>2 DEF b
    <2> HIDE DEF n
    <2> QED BY <2>1, <2>2, <2>3, <2>4, Zenon DEF DueOf
  <1>9. slot' = c
    BY <1>2
  <1> HIDE DEF a, m, b, n, c, k
  <1>10. /\ Due # <<>> /\ Head(Due) = c
         /\ Tail(Due) = Run(c, k) \o Run(b, n)
    <2>1. FirstThen(Run(a, m) \o Run(b, n), c, Run(c, k) \o Run(b, n))
      BY <1>6, RunHead, Zenon
    <2> QED BY <1>3, <1>7, <2>1, Zenon DEF FirstThen
  <1>11. Stage = "scanning" /\ Stage' = "scanning"
    BY <1>2, Zenon DEF Stage
  <1> QED BY <1>4, <1>8, <1>9, <1>10, <1>11 DEF RS!Deliver

(* The end is reported when nothing is due.                                *)
LEMMA EndRefines ==
    ASSUME TypeOK, IInv, IterateEnd
    PROVE  RS!AtEnd
  <1>1. /\ state = "scanning" /\ state' = "scanning" /\ slot' = 0
        /\ fsstate' = Fetched(fsstate) /\ Fetched(fsstate).end_of_fetch
    BY DEF IterateEnd
  <1>2. Due = <<>>
    <2>1. Due = DueOf(Fetched(fsstate))
      BY <1>1, DueIs, FetchKeepsDue
    <2> QED BY <1>1, <2>1 DEF DueOf
  <1>3. Due' = <<>>
    BY <1>1 DEF Due
  <1>4. Stage = "scanning" /\ Stage' = "scanning"
    BY <1>1, Zenon DEF Stage
  <1> QED BY <1>1, <1>2, <1>3, <1>4 DEF RS!AtEnd

(* A rescan restarts the stream, in the middle of a batch with the batch   *)
(* once more.                                                              *)
LEMMA ReScanRefines ==
    ASSUME TypeOK, IInv, Slots, ReScanForeignScan
    PROVE  RS!Restart \/ RS!RestartMidway
  <1> DEFINE b == fsstate.base
             n == fsstate.tuple_cnt
  <1>1. /\ state = "scanning" /\ state' = "scanning" /\ slot' = 0
        /\ fsstate' = Rewound(fsstate)
    BY DEF ReScanForeignScan
  <1>2. /\ fsstate'.cur_tuple_idx = 0 /\ ~fsstate'.query_executed
        /\ ~fsstate'.end_of_fetch
        /\ fsstate'.tuple_cnt = n /\ fsstate'.base = b
    BY <1>1 DEF Rewound, TypeOK, ScanState
  <1>3. b \in Nat /\ n \in Int /\ fsstate.cur_tuple_idx \in Nat /\ Rows \in Nat
    BY ScanAssumption DEF TypeOK, ScanState, TB_FDW_INIT_TUPLE_CNT
  <1>4. Due' = Run(b, n) \o Run(0, Rows)
    <2>1. Due' = DueOf(fsstate')
      BY <1>1 DEF Due, DueOf, Taken, Run
    <2>2. /\ Taken(fsstate') = 0 /\ fsstate'.base + fsstate'.cur_tuple_idx = b
          /\ fsstate'.tuple_cnt - fsstate'.cur_tuple_idx = n /\ Rows - 0 = Rows
      BY <1>2, <1>3 DEF Taken
    <2> HIDE DEF b, n
    <2> QED BY <1>2, <2>1, <2>2, Zenon DEF DueOf
  <1>5. Stage = "scanning" /\ Stage' = "scanning"
    BY <1>1, Zenon DEF Stage
  <1>6. CASE slot = 0 /\ fsstate.end_of_fetch
    <2>1. Due = <<>>
      BY <1>6 DEF Due
    <2>2. n = 0
      BY <1>6 DEF Slots
    <2>3. Due' = RS!All
      <3>1. b \in Int /\ n \in Int /\ n <= 0
        BY <1>3, <2>2
      <3> HIDE DEF b, n
      <3> QED BY <1>4, <3>1, WholeResult, Zenon
    <2> QED BY <1>1, <1>5, <1>6, <2>1, <2>3 DEF RS!Restart
  <1>7. CASE slot = 0 /\ ~fsstate.end_of_fetch
    <2>1. ~fsstate.query_executed /\ fsstate.cur_tuple_idx = 0
      BY <1>1, <1>7 DEF Slots
    <2>2. Due = Run(b, n) \o Run(0, Rows)
      <3>1. Due = DueOf(fsstate)
        BY <1>1, DueIs
      <3>2. /\ Taken(fsstate) = 0 /\ fsstate.base + fsstate.cur_tuple_idx = b
            /\ fsstate.tuple_cnt - fsstate.cur_tuple_idx = n /\ Rows - 0 = Rows
        BY <1>3, <2>1 DEF Taken
      <3> HIDE DEF b, n
      <3> QED BY <1>7, <3>1, <3>2, Zenon DEF DueOf
    <2>3. Due' = Due
      BY <1>4, <2>2
    <2>4. Due = <<>> => Due = RS!All
      <3>1. CASE n <= 0
        <4>1. b \in Int /\ n \in Int /\ n <= 0
          BY <1>3, <3>1
        <4> HIDE DEF b, n
        <4> QED BY <2>2, <4>1, WholeResult, Zenon
      <3>2. CASE n > 0
        <4> DEFINE k == n - 1
                   c == b + 1
        <4>1. /\ b \in Int /\ n \in Nat /\ 0 \in Int /\ Rows \in Int /\ c \in Int
              /\ c = b + 1 /\ k \in Nat /\ n = k + 1
          BY <1>3, <3>2
        <4> HIDE DEF b, n, c, k
        <4>2. FirstThen(Run(b, n) \o Run(0, Rows), c, Run(c, k) \o Run(0, Rows))
          BY <4>1, RunHead, Zenon
        <4> QED BY <2>2, <4>2, Zenon DEF FirstThen
      <3> QED BY <1>3, <3>1, <3>2
    <2> QED BY <1>1, <1>5, <1>7, <2>3, <2>4 DEF RS!Restart
  <1>8. CASE slot # 0
    <2> DEFINE lo == b + 1
               hi == b + n
    <2>1. /\ n # TB_FDW_INIT_TUPLE_CNT /\ fsstate.cur_tuple_idx > 0
          /\ slot = b + fsstate.cur_tuple_idx /\ n <= fetch_size
      BY <1>8 DEF Slots
    <2>2. fsstate.cur_tuple_idx <= n /\ b + n <= Rows
      BY <2>1 DEF IInv, Shape
    <2>3. /\ lo \in 1 .. Rows /\ hi \in 1 .. Rows /\ lo <= slot /\ slot <= hi
          /\ hi - lo < fetch_size
      BY <1>3, <2>1, <2>2, ScanAssumption
    <2>4. Run(b, n) = RS!Interval(lo, hi)
      <3> HIDE DEF b, n
      <3> QED BY <1>3 DEF Run, RS!Interval
    <2>5. Run(0, Rows) = RS!All
      BY <1>3 DEF Run, RS!All, RS!Interval
    <2>6. Due' = RS!Interval(lo, hi) \o RS!All
      BY <1>4, <2>4, <2>5, Zenon
    <2> HIDE DEF lo, hi
    <2> QED BY <1>1, <1>5, <1>8, <2>3, <2>6, Zenon DEF RS!RestartMidway
  <1> QED BY <1>6, <1>7, <1>8

(* Every step of the scan is a step of the stream or none.                 *)
LEMMA NextRefines ==
    ASSUME TypeOK, IInv, Slots, [Next]_vars
    PROVE  [RS!Next]_RS!svars
  <1>1. CASE BeginForeignScan
    <2>1. state = "none" /\ state' = "scanning" /\ fsstate' = NewScanState
          /\ slot' = slot
      BY <1>1 DEF BeginForeignScan
    <2>2. slot' = 0
      BY <2>1 DEF Slots
    <2>3. Due' = Run(0, -1) \o Run(0, Rows)
      <3>1. Due' = DueOf(NewScanState)
        BY <2>1 DEF Due, DueOf, Taken, Run
      <3>2. /\ ~NewScanState.end_of_fetch /\ Taken(NewScanState) = 0
            /\ NewScanState.base + NewScanState.cur_tuple_idx = 0
            /\ NewScanState.tuple_cnt - NewScanState.cur_tuple_idx = -1
            /\ Rows - 0 = Rows
        BY ScanAssumption DEF NewScanState, Taken, TB_FDW_INIT_TUPLE_CNT
      <3> QED BY <3>1, <3>2, Zenon DEF DueOf
    <2>4. Due' = RS!All
      <3>1. 0 \in Int /\ -1 \in Int /\ -1 <= 0
        OBVIOUS
      <3> QED BY <2>3, <3>1, WholeResult, Zenon
    <2>5. Stage = "none" /\ Stage' = "scanning"
      BY <2>1, Zenon DEF Stage
    <2> QED BY <2>2, <2>4, <2>5 DEF RS!Start, RS!Next
  <1>2. CASE BeginExplainOnly \/ IterateFails \/ EndForeignScan
    <2>1. state' \in {"explain", "failed", "ended"} /\ slot' = 0
      BY <1>2 DEF BeginExplainOnly, IterateFails, EndForeignScan, Slots
    <2>2. Due' = <<>>
      BY <2>1 DEF Due
    <2>3. Stage' = "over"
      <3>1. state' # "none" /\ state' # "scanning"
        BY <2>1
      <3> QED BY <3>1, Zenon DEF Stage
    <2> QED BY <2>1, <2>2, <2>3 DEF RS!Stop, RS!Next
  <1>3. CASE IterateRow
    BY <1>3, RowRefines DEF RS!Next
  <1>4. CASE IterateEnd
    BY <1>4, EndRefines DEF RS!Next
  <1>5. CASE ReScanForeignScan
    BY <1>5, ReScanRefines DEF RS!Next
  <1>6. CASE UNCHANGED vars
    <2>1. Stage' = Stage /\ Due' = Due /\ slot' = slot
      BY <1>6 DEF vars, Stage, Due
    <2> QED BY <2>1 DEF RS!svars
  <1> QED BY <1>1, <1>2, <1>3, <1>4, <1>5, <1>6 DEF Next

(* The scan promises what RowStream says: in order, once per pass, and at  *)
(* most one batch repeated after a rescan.                                 *)
THEOREM Refinement == Spec => ImplementsRowStream
  <1>1. Init => TypeOK /\ IInv /\ Slots
    BY InitInv, SlotsInit
  <1>2. TypeOK /\ IInv /\ Slots /\ [Next]_vars => (TypeOK /\ IInv /\ Slots)'
    BY NextInv, SlotsNext
  <1>3. Init => RS!Init
    BY InitRefines
  <1>4. TypeOK /\ IInv /\ Slots /\ [Next]_vars => [RS!Next]_RS!svars
    BY NextRefines
  <1> QED BY <1>1, <1>2, <1>3, <1>4, PTL DEF Spec, ImplementsRowStream, RS!Spec
=============================================================================

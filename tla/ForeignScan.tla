---------------------------- MODULE ForeignScan ----------------------------
(***************************************************************************)
(* One foreign scan node of tibero_fdw (src/tibero_fdw.c): the batch of    *)
(* rows the driver has filled, the position in it, and the remote cursor,  *)
(* under any order of the executor's calls IterateForeignScan,             *)
(* ReScanForeignScan and EndForeignScan.                                   *)
(*                                                                         *)
(* The remote result is the rows 1..Rows in this order, the same for every *)
(* execution of the query.  A batch of rows base+1, ..., base+tuple_cnt is *)
(* represented by base.                                                    *)
(***************************************************************************)
EXTENDS Integers, Sequences

CONSTANTS
    Rows,          \* rows of the remote result
    fetch_size,    \* SQL_ATTR_ROW_ARRAY_SIZE
    MaxRescans,    \* bound: calls of ReScanForeignScan
    DriverFails    \* TRUE if the driver or a conversion may fail

ASSUME ScanAssumption ==
    /\ Rows \in Nat /\ fetch_size \in Nat \ {0} /\ MaxRescans \in Nat
    /\ DriverFails \in BOOLEAN

TB_FDW_INIT_TUPLE_CNT == -1

VARIABLES
    state,      \* "none", "explain", "scanning", "failed" or "ended"
    fsstate,    \* the scan state, TbFdwScanState
    slot,       \* the row in the result slot, 0 when it is empty
    rescans,    \* calls of ReScanForeignScan so far
    delivered   \* rows delivered since the last of them

vars == <<state, fsstate, slot, rescans, delivered>>

(* cursor: the rows the driver has handed over in this execution.          *)
ScanState == [tuple_cnt : Nat \union {TB_FDW_INIT_TUPLE_CNT},
              cur_tuple_idx : Nat, end_of_fetch : BOOLEAN,
              query_executed : BOOLEAN, base : Nat, cursor : Nat]

TypeOK ==
    /\ state \in {"none", "explain", "scanning", "failed", "ended"}
    /\ fsstate \in ScanState
    /\ slot \in 0 .. Rows
    /\ rescans \in Nat
    /\ delivered \in SUBSET (1 .. Rows)

NewScanState ==
    [tuple_cnt |-> TB_FDW_INIT_TUPLE_CNT, cur_tuple_idx |-> 0,
     end_of_fetch |-> FALSE, query_executed |-> FALSE, base |-> 0, cursor |-> 0]

Init ==
    /\ state = "none"
    /\ fsstate = NewScanState
    /\ slot = 0
    /\ rescans = 0
    /\ delivered = {}

-----------------------------------------------------------------------------
(* TbSQLExecute, unless the query has been executed: a new cursor.         *)
Executed(s) ==
    IF s.query_executed THEN s
    ELSE [s EXCEPT !.query_executed = TRUE, !.cursor = 0]

\* Mutant: a batch is refetched only when there was none or more are due.
need_fetch_tuples_Late(s) ==
    /\ ~s.end_of_fetch
    /\ \/ s.tuple_cnt = TB_FDW_INIT_TUPLE_CNT
       \/ s.cur_tuple_idx > s.tuple_cnt
need_fetch_tuples(s) ==
    /\ ~s.end_of_fetch
    /\ \/ s.tuple_cnt = TB_FDW_INIT_TUPLE_CNT
       \/ s.cur_tuple_idx = s.tuple_cnt

BatchSize(s) ==
    IF Rows - s.cursor < fetch_size THEN Rows - s.cursor ELSE fetch_size

(* SQLFetch: the driver sets the row count through SQL_ATTR_ROWS_FETCHED_  *)
(* PTR, to 0 with SQL_NO_DATA; make_tuples then replaces the batch.        *)
\* Mutant: the position in the batch is not reset.
fetch_tuples_KeepsIdx(s) ==
    IF BatchSize(s) = 0
    THEN [s EXCEPT !.tuple_cnt = 0, !.end_of_fetch = TRUE]
    ELSE [s EXCEPT !.tuple_cnt = BatchSize(s), !.base = s.cursor,
                   !.cursor = @ + BatchSize(s)]
\* Mutant: a short batch is taken for the last one and ends the scan.
fetch_tuples_ShortEnds(s) ==
    IF BatchSize(s) < fetch_size
    THEN [s EXCEPT !.tuple_cnt = 0, !.cur_tuple_idx = 0, !.end_of_fetch = TRUE]
    ELSE [s EXCEPT !.tuple_cnt = BatchSize(s), !.cur_tuple_idx = 0,
                   !.base = s.cursor, !.cursor = @ + BatchSize(s)]
fetch_tuples(s) ==
    IF BatchSize(s) = 0
    THEN [s EXCEPT !.tuple_cnt = 0, !.cur_tuple_idx = 0, !.end_of_fetch = TRUE]
    ELSE [s EXCEPT !.tuple_cnt = BatchSize(s), !.cur_tuple_idx = 0,
                   !.base = s.cursor, !.cursor = @ + BatchSize(s)]

(* The scan state with which get_next_tuple is called.                     *)
Fetched(s) ==
    IF need_fetch_tuples(Executed(s)) THEN fetch_tuples(Executed(s))
    ELSE Executed(s)

-----------------------------------------------------------------------------
BeginForeignScan ==
    /\ state = "none"
    /\ state' = "scanning"
    /\ fsstate' = NewScanState
    /\ UNCHANGED <<slot, rescans, delivered>>

(* EXPLAIN without ANALYZE: no scan state is made.                         *)
BeginExplainOnly ==
    /\ state = "none"
    /\ state' = "explain"
    /\ UNCHANGED <<fsstate, slot, rescans, delivered>>

IterateRow ==
    /\ state = "scanning"
    /\ ~Fetched(fsstate).end_of_fetch
    /\ LET s == Fetched(fsstate) IN
         /\ slot' = s.base + s.cur_tuple_idx + 1
         /\ fsstate' = [s EXCEPT !.cur_tuple_idx = @ + 1]
    /\ delivered' = delivered \union {slot'}
    /\ UNCHANGED <<state, rescans>>

IterateEnd ==
    /\ state = "scanning"
    /\ Fetched(fsstate).end_of_fetch
    /\ fsstate' = Fetched(fsstate)
    /\ slot' = 0
    /\ UNCHANGED <<state, rescans, delivered>>

(* Executing, fetching or converting fails: the query is aborted.          *)
IterateFails ==
    /\ DriverFails
    /\ state = "scanning"
    /\ ~fsstate.query_executed \/ need_fetch_tuples(fsstate)
    /\ state' = "failed"
    /\ slot' = 0
    /\ UNCHANGED <<fsstate, rescans, delivered>>

\* Mutant: the end of the previous pass is not forgotten.
Rewound_KeepsEnd(s) ==
    [s EXCEPT !.cur_tuple_idx = 0, !.query_executed = FALSE]
\* Mutant: the query is not executed again.
Rewound_NoExecute(s) ==
    [s EXCEPT !.end_of_fetch = FALSE, !.cur_tuple_idx = 0]
Rewound(s) ==
    [s EXCEPT !.end_of_fetch = FALSE, !.cur_tuple_idx = 0,
              !.query_executed = FALSE]

(* The executor clears the slot itself; tuple_cnt and the batch stay.      *)
ReScanForeignScan ==
    /\ state = "scanning"
    /\ rescans < MaxRescans
    /\ fsstate' = Rewound(fsstate)
    /\ slot' = 0
    /\ rescans' = rescans + 1
    /\ delivered' = {}
    /\ UNCHANGED state

(* The statement handle is dropped, if there is one.                       *)
EndForeignScan ==
    /\ state \in {"scanning", "explain"}
    /\ state' = "ended"
    /\ slot' = 0
    /\ UNCHANGED <<fsstate, rescans, delivered>>

Next ==
    \/ BeginForeignScan \/ BeginExplainOnly
    \/ IterateRow \/ IterateEnd \/ IterateFails
    \/ ReScanForeignScan \/ EndForeignScan

Spec == Init /\ [][Next]_vars

-----------------------------------------------------------------------------
(* Properties.                                                             *)

(* When a pass reports its end, every remote row has been delivered since  *)
(* the pass began, also when it began in the middle of a batch.            *)
EndIsComplete ==
    state = "scanning" /\ fsstate.end_of_fetch => delivered = 1 .. Rows

(* The assertion of get_next_tuple: a row is only taken from inside the    *)
(* batch, whatever the batch was before a rescan.                          *)
InsideBatch ==
    state = "scanning" /\ ~Fetched(fsstate).end_of_fetch =>
        Fetched(fsstate).cur_tuple_idx < Fetched(fsstate).tuple_cnt

(* The rows still to come: the rest of the batch, then what the cursor has *)
(* not handed over.                                                        *)
Due ==
    LET taken == IF fsstate.query_executed THEN fsstate.cursor ELSE 0 IN
    IF state # "scanning" \/ fsstate.end_of_fetch THEN <<>>
    ELSE [i \in 1 .. fsstate.tuple_cnt - fsstate.cur_tuple_idx |->
            fsstate.base + fsstate.cur_tuple_idx + i]
         \o [i \in 1 .. Rows - taken |-> taken + i]

Stage == CASE state = "none" -> "none"
           [] state = "scanning" -> "scanning"
           [] OTHER -> "over"

RS == INSTANCE RowStream WITH
        FetchSize <- fetch_size, stage <- Stage, due <- Due, out <- slot

(* The scan delivers the remote rows in order and once per pass, except    *)
(* that a pass begun in the middle of a batch repeats this batch first.    *)
ImplementsRowStream == RS!Spec
=============================================================================

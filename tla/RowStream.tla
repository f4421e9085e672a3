----------------------------- MODULE RowStream -----------------------------
(***************************************************************************)
(* What a foreign scan promises to the executor: after each (re)start the  *)
(* rows 1..Rows of the remote result come in order, and then the end, for  *)
(* as long as the executor asks.  A restart in the middle of a result may  *)
(* deliver the rows of at most one batch, a contiguous piece around the    *)
(* last row delivered, once more before the whole result.                  *)
(***************************************************************************)
EXTENDS Integers, Sequences

CONSTANTS Rows, FetchSize

VARIABLES
    stage,   \* "none", "scanning" or "over"
    due,     \* the rows still to be delivered in this pass
    out      \* the row delivered last, 0 for none or the end

Interval(lo, hi) == [i \in 1 .. hi - lo + 1 |-> lo + i - 1]
All == Interval(1, Rows)

svars == <<stage, due, out>>

Init == stage = "none" /\ due = <<>> /\ out = 0

Start ==
    /\ stage = "none"
    /\ stage' = "scanning"
    /\ due' = All
    /\ out' = 0

Deliver ==
    /\ stage = "scanning"
    /\ due # <<>>
    /\ out' = Head(due)
    /\ due' = Tail(due)
    /\ UNCHANGED stage

AtEnd ==
    /\ stage = "scanning"
    /\ due = <<>>
    /\ out' = 0
    /\ UNCHANGED <<stage, due>>

(* After the end, or before a first row was delivered, exact.              *)
Restart ==
    /\ stage = "scanning"
    /\ out = 0
    /\ due' = IF due = <<>> THEN All ELSE due
    /\ UNCHANGED <<stage, out>>

RestartMidway ==
    /\ stage = "scanning"
    /\ out # 0
    /\ \E lo, hi \in 1 .. Rows :
         /\ lo <= out /\ out <= hi
         /\ hi - lo < FetchSize
         /\ due' = Interval(lo, hi) \o All
    /\ out' = 0
    /\ UNCHANGED stage

Stop ==
    /\ stage' = "over"
    /\ due' = <<>>
    /\ out' = 0

Next == Start \/ Deliver \/ AtEnd \/ Restart \/ RestartMidway \/ Stop

Spec == Init /\ [][Next]_svars
=============================================================================

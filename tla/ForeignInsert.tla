--------------------------- MODULE ForeignInsert ---------------------------
(***************************************************************************)
(* An INSERT into a foreign table (src/tibero_fdw.c, src/deparse.c): the   *)
(* remote statement with one placeholder per column, the parameters bound  *)
(* to it for each row, and its execution.                                  *)
(*                                                                         *)
(* Columns are named by their attribute numbers.  A table may have dropped *)
(* and generated ones; the parameters are numbered by attribute number,    *)
(* the placeholders by position in the column list.                        *)
(***************************************************************************)
EXTENDS Integers, Sequences, FiniteSets

CONSTANTS
    natts,         \* attributes of the table, dropped ones included
    MaxRows,       \* bound: rows the executor hands over
    DriverFails    \* TRUE if the driver may fail at will

ASSUME InsertAssumption ==
    natts \in Nat /\ MaxRows \in Nat /\ DriverFails \in BOOLEAN

Atts == 1 .. natts

VARIABLES
    table,      \* its dropped and its generated attributes
    stage,      \* where the statement is
    executed,   \* query_executed
    remote,     \* rows the server has received
    returned    \* rows reported to the executor as inserted

vars == <<table, stage, executed, remote, returned>>

(* What a parameter or a remote column gets: an attribute of a row, as     *)
(* text made by the output function for the type of attribute fn, or NULL  *)
(* (fn = 0).                                                               *)
Value == [row : Nat, att : Atts, fn : Atts \union {0}]

TypeOK ==
    /\ table \in [dropped : SUBSET Atts, generated : SUBSET Atts]
    /\ stage \in {"none", "explain", "unprepared", "ready", "failed",
                  "crashed", "ended"}
    /\ executed \in BOOLEAN
    /\ remote \in Seq([Atts \ table.dropped -> Value])
    /\ returned \in Nat

-----------------------------------------------------------------------------
(* The statement.                                                          *)

(* target_attrs: every attribute that is not dropped, in order.            *)
\* Mutant: attisdropped is not looked at.
TargetAttrs_All == Atts
TargetAttrs == Atts \ table.dropped
Sent == TargetAttrs \ table.generated

Position(a) == Cardinality({b \in TargetAttrs : b <= a})
Placeholders == 1 .. Cardinality(TargetAttrs)
Target(p) == CHOOSE a \in TargetAttrs : Position(a) = p

(* p_flinfo has an output function per target attribute; findex counts     *)
(* those that were not skipped as generated.                               *)
\* Mutant: findex is not advanced.
OutputFunction_First(a) == Target(1)
OutputFunction(a) == Target(Cardinality({b \in Sent : b < a}) + 1)

(* The parameters TbSQLBindParameter has set, by parameter number.         *)
Bound(row, nulls) ==
    [a \in Sent |-> [row |-> row, att |-> a,
                     fn |-> IF a \in nulls THEN 0 ELSE OutputFunction(a)]]

(* The driver refuses to execute with a placeholder that was never bound.  *)
Executable == Placeholders \subseteq Sent

Received(row, nulls) ==
    [c \in TargetAttrs |-> Bound(row, nulls)[Position(c)]]

-----------------------------------------------------------------------------
Init ==
    /\ \E dropped, generated \in SUBSET Atts :
         /\ dropped \intersect generated = {}
         /\ table = [dropped |-> dropped, generated |-> generated]
    /\ stage = "none"
    /\ executed = FALSE
    /\ remote = <<>>
    /\ returned = 0

\* Mutant: query_executed starts out true.
Fresh_Executed == TRUE
Fresh == FALSE

BeginForeignModify ==
    /\ stage = "none"
    /\ TargetAttrs # {}
    /\ stage' = "ready"
    /\ executed' = Fresh
    /\ UNCHANGED <<table, remote, returned>>

(* No session, or the server does not accept the statement; it does not    *)
(* when there is no column to insert into.                                 *)
BeginFails ==
    /\ stage = "none"
    /\ DriverFails \/ TargetAttrs = {}
    /\ stage' = "failed"
    /\ UNCHANGED <<table, executed, remote, returned>>

(* EXPLAIN without ANALYZE.                                                *)
BeginExplainOnly ==
    /\ stage = "none"
    /\ stage' = "explain"
    /\ UNCHANGED <<table, executed, remote, returned>>

(* COPY and tuple routing do not call BeginForeignModify, and there is no  *)
(* BeginForeignInsert: ri_FdwState stays NULL.                             *)
BeginRouted ==
    /\ stage = "none"
    /\ stage' = "unprepared"
    /\ UNCHANGED <<table, executed, remote, returned>>

ExecForeignInsert ==
    /\ stage = "ready"
    /\ returned < MaxRows
    /\ executed \/ Executable
    /\ remote' \in IF executed THEN {remote}
                   ELSE {Append(remote, Received(returned + 1, nulls)) :
                           nulls \in SUBSET Sent}
    /\ executed' = TRUE
    /\ returned' = returned + 1
    /\ UNCHANGED <<table, stage>>

(* A driver call fails: by itself, because a placeholder has no parameter, *)
(* or because a parameter's number is beyond the last placeholder.  In the *)
(* last case isnull was also indexed past its end, by attribute number,    *)
(* which may crash the backend.                                            *)
ExecFails ==
    /\ stage = "ready"
    /\ returned < MaxRows
    /\ DriverFails \/ ~Executable \/ ~(Sent \subseteq Placeholders)
    /\ \/ stage' = "failed"
       \/ ~(Sent \subseteq Placeholders) /\ stage' = "crashed"
    /\ UNCHANGED <<table, executed, remote, returned>>

(* fmstate is a null pointer.                                              *)
ExecUnprepared ==
    /\ stage = "unprepared"
    /\ stage' = "crashed"
    /\ UNCHANGED <<table, executed, remote, returned>>

(* The statement handle is dropped, if there is one.                       *)
EndForeignModify ==
    /\ stage \in {"ready", "explain"}
    /\ stage' = "ended"
    /\ UNCHANGED <<table, executed, remote, returned>>

Next ==
    \/ BeginForeignModify \/ BeginFails \/ BeginExplainOnly \/ BeginRouted
    \/ ExecForeignInsert \/ ExecFails \/ ExecUnprepared
    \/ EndForeignModify

Spec == Init /\ [][Next]_vars

-----------------------------------------------------------------------------
(* Properties.                                                             *)

(* A remote row is one row of the statement, with each value in its own    *)
(* column and as text of its own type, whatever attributes are dropped or  *)
(* generated: where parameters and placeholders do not match, nothing is   *)
(* sent (tiberoExecForeignInsert numbers parameters by attribute).         *)
ColumnsAligned ==
    \A i \in 1 .. Len(remote) : \A c \in DOMAIN remote[i] :
        /\ remote[i][c].row = i
        /\ remote[i][c].att = c
        /\ remote[i][c].fn \in {0, c}

(* A statement that has reported a row as inserted has sent its first row. *)
FirstRowSent == returned > 0 => Len(remote) > 0

(* Every row reported as inserted has been sent.                           *)
EveryRowSent == stage = "ended" => Len(remote) = returned
=============================================================================

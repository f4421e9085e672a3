------------------------------ MODULE ScanPlan ------------------------------
(***************************************************************************)
(* From a query's use of a foreign table to the tuples of its scan: the    *)
(* callbacks of the planner, the column list of the statement and the      *)
(* tuples made of what the driver delivers.                                *)
(*                                                                         *)
(* Three places have to agree on columns although they share no more than  *)
(* two lists: the size callback decides which attributes are used, the     *)
(* deparser writes one result column for each and notes its number, and    *)
(* the executor takes result columns apart by position.                    *)
(*                                                                         *)
(* Attribute numbers are PostgreSQL's: 0 is the whole row, -1 is ctid.     *)
(***************************************************************************)
EXTENDS Integers, Sequences

CONSTANTS
    natts,         \* number of attributes, dropped ones included; maybe none
    BaseClauses,   \* the conditions on the table alone
    ParamClauses,  \* conditions that a lateral reference brings to the scan
    Names,         \* names of remote columns
    attname,       \* the name of each attribute
    Renames,       \* possible column_name options: attributes to names
    MaxRow         \* bound on the rows taken

Attrs == 1 .. natts
WholeRow == 0
SelfItemPointer == -1

ASSUME PlanConstants ==
    /\ natts \in Nat
    /\ BaseClauses \intersect ParamClauses = {}
    /\ attname \in [Attrs -> Names]
    /\ \A r \in Renames : DOMAIN r \subseteq Attrs /\ \A a \in DOMAIN r : r[a] \in Names
    /\ "NULL" \notin Names
    /\ MaxRow \in Nat

VARIABLES
    stage,      \* the callback that ran last
    rel,        \* the table: dropped attributes, column_name options, and
                \* whether the remote table has a column called ctid
    query,      \* what the query wants of the table
    fpinfo,     \* the TbFdwRelationInfo
    fsplan,     \* the ForeignScan node
    next_att,   \* i of deparse_target_list
    sql,        \* the statement's result columns
    row,        \* number of the row the tuple is made of
    remote_row, \* the columns that are NULL in it
    tuple       \* dvalues of make_tuples; NULL where nulls is set

planVars == <<stage, rel, query, fpinfo, fsplan, next_att, sql, row,
              remote_row, tuple>>

Clauses == BaseClauses \union ParamClauses
NULL == [column |-> "NULL", row |-> 0]
Cells == [column : Names \union {"NULL"}, row : Nat]

Rels == [dropped : SUBSET Attrs, column_name : Renames, ctid : BOOLEAN]
Live(r) == Attrs \ r.dropped

(* reltarget: the attributes the query's output and joins need.            *)
(* shippable is expr_inspect_shippability's answer, which is the same for  *)
(* a clause whenever it is asked (module Shippability).                    *)
Queries ==
    [reltarget : SUBSET (Attrs \union {WholeRow, SelfItemPointer}),
     lateral : SUBSET ParamClauses,
     attrs : [Clauses -> SUBSET (Attrs \union {WholeRow})],
     pseudoconstant : SUBSET Clauses,
     shippable : SUBSET Clauses]

(* What the planner guarantees: a query names no dropped attribute; a      *)
(* pseudoconstant clause has no variables; whatever a lateral clause needs *)
(* of the table is in its reltarget too.                                   *)
Sensible(q, r) ==
    /\ q.reltarget \intersect r.dropped = {}
    /\ \A c \in Clauses :
         /\ q.attrs[c] \intersect r.dropped = {}
         /\ c \in q.pseudoconstant => q.attrs[c] = {}
         /\ c \in ParamClauses => q.attrs[c] \subseteq q.reltarget

-----------------------------------------------------------------------------
NoPlan == [retrieved_attrs |-> <<>>, remote_exprs |-> {}, local_exprs |-> {}]
NoInfo == [remote_conds |-> {}, local_conds |-> {}, attrs_used |-> {}]

PlanInit ==
    /\ stage = "start"
    /\ rel = [dropped |-> {}, column_name |-> <<>>, ctid |-> FALSE]
    /\ query = [reltarget |-> {}, lateral |-> {}, attrs |-> [c \in Clauses |-> {}],
                pseudoconstant |-> {}, shippable |-> {}]
    /\ fpinfo = NoInfo /\ fsplan = NoPlan
    /\ next_att = 1 /\ sql = <<>>
    /\ row = 0 /\ remote_row = {} /\ tuple = [a \in Attrs |-> NULL]

(* The query as the planner sees it.                                       *)
Plan ==
    /\ stage = "start"
    /\ stage' = "query"
    /\ rel' \in Rels
    /\ query' \in {q \in Queries : Sensible(q, rel')}
    /\ UNCHANGED <<fpinfo, fsplan, next_att, sql, row, remote_row, tuple>>

(* The attributes a set of local conditions adds.                          *)
\* Mutant: the local conditions' columns are forgotten.
AttrsUsed_Target(local_conds) == query.reltarget
AttrsUsed(local_conds) ==
    query.reltarget \union UNION {query.attrs[c] : c \in local_conds}

GetForeignRelSize ==
    /\ stage = "query"
    /\ stage' = "size"
    /\ LET local == BaseClauses \ query.shippable
       IN fpinfo' = [remote_conds |-> BaseClauses \intersect query.shippable,
                     local_conds |-> local, attrs_used |-> AttrsUsed(local)]
    /\ UNCHANGED <<rel, query, fsplan, next_att, sql, row, remote_row, tuple>>

(* The one path has the table's lateral references as its parameters, so   *)
(* the clauses of its plan are the table's own and the lateral ones.       *)
ScanClauses == BaseClauses \union query.lateral

\* Mutant: clauses that were not classified are taken for remote ones.
RunsRemotely_Unknown(c) == c \notin fpinfo.local_conds
RunsRemotely(c) ==
    \/ c \in fpinfo.remote_conds
    \/ c \notin fpinfo.local_conds /\ c \in query.shippable

GetForeignPlan ==
    /\ stage = "size"
    /\ stage' = "target"
    /\ LET scan_clauses == ScanClauses \ query.pseudoconstant
       IN fsplan' = [fsplan EXCEPT
                       !.remote_exprs = {c \in scan_clauses : RunsRemotely(c)},
                       !.local_exprs = {c \in scan_clauses : ~RunsRemotely(c)}]
    /\ UNCHANGED <<rel, query, fpinfo, next_att, sql, row, remote_row, tuple>>

-----------------------------------------------------------------------------
(* deparse_target_list, one step for each attribute.                       *)

RemoteName(a) == IF a \in DOMAIN rel.column_name THEN rel.column_name[a]
                 ELSE attname[a]

Wanted(a) == {a, WholeRow} \intersect fpinfo.attrs_used # {}

Emit(column, a) ==
    /\ sql' = Append(sql, column)
    /\ fsplan' = [fsplan EXCEPT !.retrieved_attrs = Append(@, a)]

TargetColumn ==
    /\ stage = "target" /\ next_att <= natts
    /\ next_att' = next_att + 1
    /\ IF next_att \in Live(rel) /\ Wanted(next_att)
       THEN Emit(RemoteName(next_att), next_att)
       ELSE UNCHANGED <<sql, fsplan>>
    /\ UNCHANGED <<stage, rel, query, fpinfo, row, remote_row, tuple>>

(* deparse_target_list writes ctid where deparse_column_ref has ROWID.      *)
\* Mutant: a name that Tibero knows.
RowidColumn_Tibero == "ROWID"
RowidColumn == "ctid"

TargetEnd ==
    /\ stage = "target" /\ next_att > natts
    /\ stage' = "plan"
    /\ IF SelfItemPointer \in fpinfo.attrs_used THEN Emit(RowidColumn, SelfItemPointer)
       ELSE /\ sql' = IF sql = <<>> THEN <<"NULL">> ELSE sql
            /\ UNCHANGED fsplan
    /\ UNCHANGED <<rel, query, fpinfo, next_att, row, remote_row, tuple>>

-----------------------------------------------------------------------------
Retrieved == {fsplan.retrieved_attrs[i] : i \in DOMAIN fsplan.retrieved_attrs}

(* tiberoBeginForeignScan prepares the statement and takes a buffer for    *)
(* each result column from an array with one element for each attribute.   *)
(* Tibero refuses ctid unless the remote table has a column of that name.  *)
BeginForeignScan ==
    /\ stage = "plan"
    /\ stage' = IF ~rel.ctid /\ \E i \in DOMAIN sql : sql[i] = "ctid" THEN "refused"
                ELSE IF Len(sql) > natts THEN "undefined"
                ELSE "scan"
    /\ UNCHANGED <<rel, query, fpinfo, fsplan, next_att, sql, row, remote_row,
                   tuple>>

Fetched(column) == IF column \in remote_row' THEN NULL
                   ELSE [column |-> column, row |-> row']

(* One round of make_tuples: dvalues keeps what no result column sets.     *)
\* Mutant: the result column is looked up by attribute number.
Source_Number(a) == {i \in DOMAIN sql : i = a}
Source(a) ==
    {i \in DOMAIN fsplan.retrieved_attrs : fsplan.retrieved_attrs[i] = a}

MakeTuple ==
    /\ stage = "scan" /\ row < MaxRow
    /\ Retrieved \subseteq Attrs
    /\ row' = row + 1
    /\ remote_row' \in SUBSET Names
    /\ tuple' = [a \in Attrs |->
                   IF Source(a) = {} THEN tuple[a]
                   ELSE Fetched(sql[CHOOSE i \in Source(a) : TRUE])]
    /\ UNCHANGED <<stage, rel, query, fpinfo, fsplan, next_att, sql>>

(* The number noted for ctid is no index into the tuple descriptor.        *)
MakeTupleOutside ==
    /\ stage = "scan" /\ row < MaxRow
    /\ ~(Retrieved \subseteq Attrs)
    /\ stage' = "undefined"
    /\ UNCHANGED <<rel, query, fpinfo, fsplan, next_att, sql, row, remote_row,
                   tuple>>

PlanNext ==
    \/ Plan \/ GetForeignRelSize \/ GetForeignPlan
    \/ TargetColumn \/ TargetEnd
    \/ BeginForeignScan \/ MakeTuple \/ MakeTupleOutside

PlanSpec == PlanInit /\ [][PlanNext]_planVars

-----------------------------------------------------------------------------
(* Properties.                                                             *)

Stages == {"start", "query", "size", "target", "plan", "refused", "scan",
           "undefined"}

PlanTypeOK ==
    /\ stage \in Stages
    /\ rel.dropped \subseteq Attrs
    /\ query \in Queries
    /\ fpinfo \in [remote_conds : SUBSET Clauses, local_conds : SUBSET Clauses,
                   attrs_used : SUBSET (Attrs \union {WholeRow, SelfItemPointer})]
    /\ fsplan.remote_exprs \subseteq Clauses /\ fsplan.local_exprs \subseteq Clauses
    /\ next_att \in 1 .. natts + 1
    /\ row \in 0 .. MaxRow
    /\ remote_row \subseteq Names
    /\ tuple \in [Attrs -> Cells]

(* The attributes that are retrieved for a set of wanted ones.             *)
Expanded(atts) == (atts \ {WholeRow}) \union (IF WholeRow \in atts THEN Live(rel) ELSE {})

(* Every condition of the scan is decided, by Tibero if it can, otherwise  *)
(* by the executor with all the columns it reads: also a condition that    *)
(* only the plan callback classified, when the columns were long chosen.   *)
(* The recheck of the remote ones, which needs the whole row of a locked   *)
(* row, finds their columns too.                                           *)
ConditionsDecided ==
    stage = "scan" =>
        \A c \in ScanClauses \ query.pseudoconstant :
            /\ c \in fsplan.remote_exprs => c \in query.shippable
            /\ c \in fsplan.remote_exprs \/ c \in fsplan.local_exprs
            /\ c \in fsplan.local_exprs \/ WholeRow \in query.reltarget
               => Expanded(query.attrs[c]) \subseteq Retrieved

(* Each attribute that was asked for has the value of its own remote       *)
(* column in this row, whatever was dropped, renamed or left out before    *)
(* it; an attribute nobody asked for is NULL.                              *)
ValuesInPlace ==
    stage = "scan" /\ row > 0 =>
        \A a \in Attrs :
            tuple[a] = IF a \notin Expanded(fpinfo.attrs_used) THEN NULL
                       ELSE IF RemoteName(a) \in remote_row THEN NULL
                       ELSE [column |-> RemoteName(a), row |-> row]

(* The executor indexes an array with one TbColumn for each attribute by   *)
(* result column, and the tuple descriptor by the retrieved numbers.  Both *)
(* stay inside, with two exceptions: a table without attributes, whose     *)
(* statement still has a result column; and a query for ctid, if the       *)
(* remote table happens to have a column of that name.                     *)
ColumnsFit ==
    stage \in {"scan", "undefined"} =>
        \/ Len(sql) <= natts /\ Retrieved \subseteq Attrs
        \/ natts = 0 /\ sql = <<"NULL">>
        \/ rel.ctid /\ SelfItemPointer \in query.reltarget
=============================================================================

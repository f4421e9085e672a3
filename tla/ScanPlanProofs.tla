--------------------------- MODULE ScanPlanProofs ---------------------------
(***************************************************************************)
(* Proofs about ScanPlan, for any number of attributes and rows and any    *)
(* conditions.                                                             *)
(*                                                                         *)
(* The argument goes along the stages: what the size callback decides      *)
(* about clauses and attributes, what the plan callback does with the      *)
(* clauses, how far the column list has come, and that the list, once      *)
(* accepted, stands for the attributes that were wanted.                   *)
(***************************************************************************)
EXTENDS ScanPlan, SequenceTheorems, TLAPS

FsPlans ==
    [retrieved_attrs : Seq(Attrs \union {SelfItemPointer}),
     remote_exprs : SUBSET Clauses, local_exprs : SUBSET Clauses]
Infos ==
    [remote_conds : SUBSET Clauses, local_conds : SUBSET Clauses,
     attrs_used : SUBSET (Attrs \union {WholeRow, SelfItemPointer})]

TypesOK ==
    /\ stage \in Stages
    /\ rel.dropped \subseteq Attrs /\ (stage # "start" => rel \in Rels)
    /\ query \in Queries
    /\ fpinfo \in Infos /\ fsplan \in FsPlans
    /\ next_att \in 1 .. natts + 1
    /\ row \in 0 .. MaxRow
    /\ remote_row \subseteq Names
    /\ tuple \in [Attrs -> Cells]

Sized == {"size", "target", "plan", "refused", "scan", "undefined"}
Planned == Sized \ {"size"}

(* What the callbacks of the planner have decided.                         *)
DecisionsOK ==
    /\ stage # "start" => Sensible(query, rel)
    /\ stage \in Sized =>
         fpinfo = [remote_conds |-> BaseClauses \intersect query.shippable,
                   local_conds |-> BaseClauses \ query.shippable,
                   attrs_used |-> AttrsUsed(BaseClauses \ query.shippable)]
    /\ stage \in Planned =>
         LET scan_clauses == ScanClauses \ query.pseudoconstant
         IN  /\ fsplan.remote_exprs = {c \in scan_clauses : RunsRemotely(c)}
             /\ fsplan.local_exprs = {c \in scan_clauses : ~RunsRemotely(c)}

(* A result column is that of a live attribute that is wanted: each one of *)
(* them, or each one but ctid.                                             *)
ColumnWanted(i) ==
    /\ fsplan.retrieved_attrs[i] \in Live(rel)
    /\ Wanted(fsplan.retrieved_attrs[i])
    /\ sql[i] = RemoteName(fsplan.retrieved_attrs[i])
ColumnsWanted == \A i \in 1 .. Len(fsplan.retrieved_attrs) : ColumnWanted(i)
OwnWanted ==
    \A i \in 1 .. Len(fsplan.retrieved_attrs) :
        fsplan.retrieved_attrs[i] \in Attrs => ColumnWanted(i)

(* Every live attribute before n that is wanted has a column.              *)
CompleteBefore(n) ==
    \A a \in Live(rel) :
        a < n /\ Wanted(a) =>
            \E i \in 1 .. Len(fsplan.retrieved_attrs) : fsplan.retrieved_attrs[i] = a

(* The column list while deparse_target_list is at next_att.               *)
ListOK ==
    /\ sql \in Seq(Names)
    /\ Len(sql) = Len(fsplan.retrieved_attrs) /\ Len(sql) < next_att
    /\ ColumnsWanted /\ CompleteBefore(next_att)

(* The list when it is done.                                               *)
DoneOK ==
    /\ OwnWanted /\ CompleteBefore(natts + 1)
    /\ Retrieved \subseteq Attrs \/ SelfItemPointer \in fpinfo.attrs_used
    /\ \/ Len(sql) <= natts
       \/ natts = 0 /\ sql = <<"NULL">>
       \/ SelfItemPointer \in fpinfo.attrs_used

ColumnsOK ==
    /\ stage \in {"start", "query", "size"} => ListOK /\ next_att = 1
    /\ stage = "target" => ListOK
    /\ stage \in {"plan", "scan", "undefined"} => DoneOK
    /\ stage = "plan" /\ SelfItemPointer \in fpinfo.attrs_used
       => \E i \in DOMAIN sql : sql[i] = "ctid"
    /\ stage \in {"scan", "undefined"} /\ SelfItemPointer \in fpinfo.attrs_used
       => rel.ctid

(* Before the first row, and in a row.                                     *)
RowOK ==
    /\ row > 0 => stage \in {"scan", "undefined"}
    /\ row = 0 => tuple = [a \in Attrs |-> NULL]
    /\ ValuesInPlace

IInv == TypesOK /\ DecisionsOK /\ ColumnsOK /\ RowOK

-----------------------------------------------------------------------------
(* A condition wants columns of live attributes, so does the output.       *)
LEMMA UsedLive ==
    ASSUME TypesOK, DecisionsOK, stage \in Sized, NEW a \in Attrs,
           a \in fpinfo.attrs_used
    PROVE  a \in Live(rel)
<1>1. /\ Sensible(query, rel)
      /\ fpinfo.attrs_used = AttrsUsed(BaseClauses \ query.shippable)
    BY DEF DecisionsOK, Sized
<1>2. a \in query.reltarget \/ \E c \in BaseClauses : a \in query.attrs[c]
    BY <1>1 DEF AttrsUsed
<1> QED BY <1>1, <1>2 DEF Sensible, Clauses, Live

(* What is retrieved of a live attribute is what was wanted of it.         *)
LEMMA WantedExpanded ==
    ASSUME TypesOK, DecisionsOK, stage \in Sized, NEW a \in Attrs
    PROVE  a \in Expanded(fpinfo.attrs_used) <=> a \in Live(rel) /\ Wanted(a)
<1>1. a # WholeRow
    BY PlanConstants DEF Attrs, WholeRow
<1>2. a \in fpinfo.attrs_used => a \in Live(rel)
    BY UsedLive
<1> QED BY <1>1, <1>2 DEF Expanded, Wanted

(* The remote column of an attribute.                                      *)
LEMMA RemoteNames ==
    ASSUME TypesOK, stage # "start", NEW a \in Attrs
    PROVE  RemoteName(a) \in Names
BY PlanConstants DEF TypesOK, Rels, RemoteName

(* The columns retrieved are those of the wanted attributes, and each has  *)
(* its own place.                                                          *)
LEMMA DoneColumns ==
    ASSUME TypesOK, DecisionsOK, DoneOK, stage \in Sized, NEW a \in Attrs
    PROVE  /\ a \in Expanded(fpinfo.attrs_used) <=> Source(a) # {}
           /\ \A i \in Source(a) : sql[i] = RemoteName(a)
<1>1. DOMAIN fsplan.retrieved_attrs = 1 .. Len(fsplan.retrieved_attrs)
    BY DEF TypesOK, FsPlans
<1>2. a \in Live(rel) /\ Wanted(a) => Source(a) # {}
  <2>1. a < natts + 1
      BY PlanConstants DEF Attrs
  <2> QED BY <1>1, <2>1 DEF DoneOK, CompleteBefore, Source
<1>3. Source(a) # {} => a \in Live(rel) /\ Wanted(a)
    BY <1>1 DEF DoneOK, OwnWanted, ColumnWanted, Source
<1>4. \A i \in Source(a) : sql[i] = RemoteName(a)
    BY <1>1 DEF DoneOK, OwnWanted, ColumnWanted, Source
<1> QED BY <1>2, <1>3, <1>4, WantedExpanded

-----------------------------------------------------------------------------
(* No query, no plan, no columns.                                          *)
LEMMA InitValid == PlanInit => IInv
<1> SUFFICES ASSUME PlanInit PROVE IInv
    OBVIOUS
<1>0. /\ natts \in Nat /\ MaxRow \in Nat
    BY PlanConstants
<1>1. /\ fsplan.retrieved_attrs = <<>> /\ Len(fsplan.retrieved_attrs) = 0
      /\ sql = <<>> /\ Len(sql) = 0 /\ sql \in Seq(Names)
      /\ <<>> \in Seq(Attrs \union {SelfItemPointer})
    BY DEF PlanInit, NoPlan
<1>2. query \in Queries
    BY DEF PlanInit, Queries, Clauses
<1>3. NULL \in Cells
    BY DEF NULL, Cells
<1>4. fpinfo \in Infos
    BY DEF PlanInit, NoInfo, Infos
<1>5. fsplan \in FsPlans
    BY <1>1 DEF PlanInit, NoPlan, FsPlans
<1>6. TypesOK
    BY <1>0, <1>2, <1>3, <1>4, <1>5 DEF TypesOK, PlanInit, Stages
<1>7. DecisionsOK
    BY DEF DecisionsOK, PlanInit, Sized, Planned
<1>8. ListOK
  <2>1. ColumnsWanted
      BY <1>1 DEF ColumnsWanted
  <2>2. \A a \in Live(rel) : ~(a < next_att)
      BY <1>0 DEF PlanInit, Live, Attrs
  <2> QED BY <1>1, <2>1, <2>2 DEF ListOK, CompleteBefore, PlanInit
<1>9. ColumnsOK
    BY <1>8 DEF ColumnsOK, PlanInit
<1>10. RowOK
    BY DEF RowOK, PlanInit, ValuesInPlace
<1> QED BY <1>6, <1>7, <1>9, <1>10 DEF IInv

(* The query arrives.                                                      *)
LEMMA PlanValid ==
    ASSUME IInv, Plan
    PROVE  IInv'
<1> USE DEF Plan
<1>1. TypesOK'
  <2>1. rel' \in Rels /\ query' \in Queries /\ rel'.dropped \subseteq Attrs
      BY DEF Rels
  <2> QED BY <2>1 DEF IInv, TypesOK, Stages
<1>2. DecisionsOK'
    BY DEF IInv, DecisionsOK, Sized, Planned
<1>3. fpinfo' = fpinfo /\ fsplan' = fsplan /\ sql' = sql /\ next_att' = next_att
    OBVIOUS
<1>4. ListOK /\ next_att = 1
    BY DEF IInv, ColumnsOK
<1>5. Len(sql) = 0 /\ Len(fsplan.retrieved_attrs) = 0 /\ sql \in Seq(Names)
    BY <1>4 DEF ListOK
<1>6. ColumnsWanted'
    BY <1>3, <1>5 DEF ColumnsWanted
<1>7. CompleteBefore(next_att)'
  <2>1. \A a \in Attrs : ~(a < 1)
      BY PlanConstants DEF Attrs
  <2> QED BY <1>3, <1>4, <2>1 DEF CompleteBefore, Live
<1>8. ColumnsOK'
    BY <1>3, <1>4, <1>5, <1>6, <1>7 DEF ColumnsOK, ListOK
<1>9. RowOK'
    BY DEF IInv, RowOK, ValuesInPlace
<1> QED BY <1>1, <1>2, <1>8, <1>9 DEF IInv

(* The size callback classifies the table's own conditions.                *)
LEMMA SizeValid ==
    ASSUME IInv, GetForeignRelSize
    PROVE  IInv'
<1> USE DEF GetForeignRelSize
<1>1. /\ UNCHANGED <<rel, query, fsplan, next_att, sql, row, remote_row, tuple>>
      /\ stage = "query" /\ stage' = "size"
      /\ TypesOK /\ DecisionsOK /\ ColumnsOK /\ RowOK
    BY DEF IInv
<1>2. fpinfo' = [remote_conds |-> BaseClauses \intersect query.shippable,
                 local_conds |-> BaseClauses \ query.shippable,
                 attrs_used |-> AttrsUsed(BaseClauses \ query.shippable)]
    OBVIOUS
<1>3. AttrsUsed(BaseClauses \ query.shippable)
      \subseteq Attrs \union {WholeRow, SelfItemPointer}
    BY <1>1 DEF AttrsUsed, TypesOK, Queries, Clauses
<1>4. fpinfo' \in Infos
    BY <1>2, <1>3 DEF Infos, Clauses
<1>5. TypesOK'
    BY <1>1, <1>4 DEF TypesOK, Stages
<1>6. DecisionsOK'
    BY <1>1, <1>2 DEF DecisionsOK, Planned, Sized, Sensible, AttrsUsed
<1>7. ListOK /\ next_att = 1
    BY <1>1 DEF ColumnsOK
<1>8. Len(sql) = 0 /\ Len(fsplan.retrieved_attrs) = 0 /\ sql \in Seq(Names)
    BY <1>7 DEF ListOK
<1>9. ColumnsWanted'
    BY <1>1, <1>8 DEF ColumnsWanted
<1>10. CompleteBefore(next_att)'
  <2>1. \A a \in Attrs : ~(a < 1)
      BY PlanConstants DEF Attrs
  <2> QED BY <1>1, <1>7, <2>1 DEF CompleteBefore, Live
<1>11. ColumnsOK'
    BY <1>1, <1>7, <1>8, <1>9, <1>10 DEF ColumnsOK, ListOK
<1>12. RowOK'
    BY <1>1 DEF RowOK, ValuesInPlace
<1> QED BY <1>5, <1>6, <1>11, <1>12 DEF IInv

(* The plan callback divides all conditions of the scan.                   *)
LEMMA PlanCallbackValid ==
    ASSUME IInv, GetForeignPlan
    PROVE  IInv'
<1> USE DEF GetForeignPlan
<1> DEFINE scan_clauses == ScanClauses \ query.pseudoconstant
           remote == {c \in scan_clauses : RunsRemotely(c)}
           local == {c \in scan_clauses : ~RunsRemotely(c)}
<1>1. /\ UNCHANGED <<rel, query, fpinfo, next_att, sql, row, remote_row, tuple>>
      /\ stage = "size" /\ stage' = "target"
      /\ TypesOK /\ DecisionsOK /\ ColumnsOK /\ RowOK /\ fsplan \in FsPlans
    BY DEF IInv, TypesOK
<1>2. fsplan' = [fsplan EXCEPT !.remote_exprs = remote, !.local_exprs = local]
    OBVIOUS
<1>3. remote \subseteq Clauses /\ local \subseteq Clauses
    BY <1>1 DEF ScanClauses, Clauses, TypesOK, Queries
<1>4. scan_clauses' = scan_clauses
    BY <1>1 DEF ScanClauses
<1>5. remote' = remote /\ local' = local
    BY <1>1, <1>4 DEF RunsRemotely
<1> HIDE DEF scan_clauses, remote, local
<1>6. /\ fsplan'.retrieved_attrs = fsplan.retrieved_attrs
      /\ fsplan'.remote_exprs = remote /\ fsplan'.local_exprs = local
    BY <1>1, <1>2 DEF FsPlans
<1>7. fsplan' \in FsPlans
    BY <1>1, <1>2, <1>3, Zenon DEF FsPlans
<1>8. TypesOK'
    BY <1>1, <1>7 DEF TypesOK, Stages
<1>9. DecisionsOK'
  <2>1. /\ Sensible(query, rel)
        /\ fpinfo = [remote_conds |-> BaseClauses \intersect query.shippable,
                     local_conds |-> BaseClauses \ query.shippable,
                     attrs_used |-> AttrsUsed(BaseClauses \ query.shippable)]
      BY <1>1 DEF DecisionsOK, Sized
  <2>2. AttrsUsed(BaseClauses \ query.shippable)' = AttrsUsed(BaseClauses \ query.shippable)
      BY <1>1 DEF AttrsUsed
  <2>3. Sensible(query, rel)'
      BY <1>1, <2>1 DEF Sensible
  <2>4. /\ fsplan'.remote_exprs = remote' /\ fsplan'.local_exprs = local'
      BY <1>5, <1>6
  <2> QED BY <1>1, <2>1, <2>2, <2>3, <2>4
          DEF DecisionsOK, remote, local, scan_clauses
<1>10. ColumnsOK'
  <2>1. ListOK
      BY <1>1 DEF ColumnsOK
  <2>2. ListOK'
      BY <1>1, <1>6, <2>1 DEF ListOK, ColumnsWanted, ColumnWanted, CompleteBefore,
                              Wanted, RemoteName, Live
  <2> QED BY <1>1, <2>2 DEF ColumnsOK
<1>11. RowOK'
    BY <1>1 DEF RowOK, ValuesInPlace
<1> QED BY <1>8, <1>9, <1>10, <1>11 DEF IInv

(* The decisions stand while the column list is written and rows are made. *)
LEMMA DecisionsKept ==
    ASSUME TypesOK, DecisionsOK, stage \in Planned, stage' \in Planned,
           UNCHANGED <<rel, query, fpinfo>>,
           fsplan'.remote_exprs = fsplan.remote_exprs,
           fsplan'.local_exprs = fsplan.local_exprs
    PROVE  DecisionsOK'
<1>1. stage # "start" /\ stage \in Sized
    BY DEF Planned, Sized
<1>2. Sensible(query, rel)'
    BY <1>1 DEF DecisionsOK, Sensible
<1>3. AttrsUsed(BaseClauses \ query.shippable)' = AttrsUsed(BaseClauses \ query.shippable)
    BY DEF AttrsUsed
<1>4. fpinfo' = [remote_conds |-> BaseClauses \intersect query'.shippable,
                 local_conds |-> BaseClauses \ query'.shippable,
                 attrs_used |-> AttrsUsed(BaseClauses \ query.shippable)']
    BY <1>1, <1>3 DEF DecisionsOK
<1>5. /\ fsplan.remote_exprs = {c \in ScanClauses \ query.pseudoconstant : RunsRemotely(c)}
      /\ fsplan.local_exprs = {c \in ScanClauses \ query.pseudoconstant : ~RunsRemotely(c)}
    BY DEF DecisionsOK
<1>6. /\ fsplan'.remote_exprs
         = {c \in ScanClauses \ query.pseudoconstant : RunsRemotely(c)}'
      /\ fsplan'.local_exprs
         = {c \in ScanClauses \ query.pseudoconstant : ~RunsRemotely(c)}'
    BY <1>5 DEF ScanClauses, RunsRemotely
<1> QED BY <1>2, <1>4, <1>6 DEF DecisionsOK

(* A result column for an attribute.                                       *)
LEMMA Emitted ==
    ASSUME fsplan \in FsPlans, NEW S, sql \in Seq(S), NEW column \in S,
           NEW a \in Attrs \union {SelfItemPointer}, Emit(column, a)
    PROVE  /\ fsplan' \in FsPlans
           /\ fsplan'.remote_exprs = fsplan.remote_exprs
           /\ fsplan'.local_exprs = fsplan.local_exprs
           /\ sql' \in Seq(S) /\ Len(sql') = Len(sql) + 1
           /\ \A i \in 1 .. Len(sql) : sql'[i] = sql[i]
           /\ sql'[Len(sql) + 1] = column
           /\ LET ret == fsplan.retrieved_attrs
                  new == fsplan'.retrieved_attrs
              IN  /\ Len(new) = Len(ret) + 1 /\ Len(ret) \in Nat
                  /\ \A i \in 1 .. Len(ret) : new[i] = ret[i]
                  /\ new[Len(ret) + 1] = a
<1> DEFINE ret == fsplan.retrieved_attrs
           new == Append(ret, a)
<1>1. fsplan' = [fsplan EXCEPT !.retrieved_attrs = new] /\ sql' = Append(sql, column)
    BY DEF Emit
<1>2. ret \in Seq(Attrs \union {SelfItemPointer})
    BY DEF FsPlans
<1>3. /\ new \in Seq(Attrs \union {SelfItemPointer})
      /\ Len(new) = Len(ret) + 1 /\ Len(ret) \in Nat
      /\ \A i \in 1 .. Len(ret) : new[i] = ret[i]
      /\ new[Len(ret) + 1] = a
    BY <1>2
<1>4. /\ sql' \in Seq(S) /\ Len(sql') = Len(sql) + 1
      /\ \A i \in 1 .. Len(sql) : sql'[i] = sql[i]
      /\ sql'[Len(sql) + 1] = column
    BY <1>1
<1> HIDE DEF new
<1>5. /\ fsplan'.retrieved_attrs = new
      /\ fsplan'.remote_exprs = fsplan.remote_exprs
      /\ fsplan'.local_exprs = fsplan.local_exprs
    BY <1>1 DEF FsPlans
<1>6. fsplan' \in FsPlans
    BY <1>1, <1>3 DEF FsPlans
<1> QED BY <1>3, <1>4, <1>5, <1>6

(* One attribute of deparse_target_list.                                   *)
LEMMA TargetColumnValid ==
    ASSUME IInv, TargetColumn
    PROVE  IInv'
<1> DEFINE ret == fsplan.retrieved_attrs
<1>1. /\ UNCHANGED <<stage, rel, query, fpinfo, row, remote_row, tuple>>
      /\ stage = "target" /\ next_att' = next_att + 1 /\ next_att <= natts
      /\ TypesOK /\ DecisionsOK /\ ListOK /\ RowOK
      /\ fsplan \in FsPlans /\ next_att \in Nat \ {0}
    BY PlanConstants DEF IInv, TypesOK, ColumnsOK, TargetColumn
<1>2. next_att \in Attrs /\ next_att + 1 \in 1 .. natts + 1
    BY <1>1, PlanConstants DEF Attrs
<1>3. Len(sql) = Len(ret) /\ Len(ret) \in Nat /\ sql \in Seq(Names)
    BY <1>1 DEF ListOK
<1>4. \A a \in Live(rel) : a \in Int
    BY PlanConstants DEF Live, Attrs
<1>5. CASE next_att \in Live(rel) /\ Wanted(next_att)
  <2>1. RemoteName(next_att) \in Names
      BY <1>1, <1>2, RemoteNames
  <2>2. Emit(RemoteName(next_att), next_att)
      BY <1>5 DEF TargetColumn
  <2>3. /\ fsplan' \in FsPlans
        /\ fsplan'.remote_exprs = fsplan.remote_exprs
        /\ fsplan'.local_exprs = fsplan.local_exprs
        /\ sql' \in Seq(Names) /\ Len(sql') = Len(sql) + 1
        /\ \A i \in 1 .. Len(sql) : sql'[i] = sql[i]
        /\ sql'[Len(sql) + 1] = RemoteName(next_att)
        /\ Len(ret') = Len(ret) + 1
        /\ \A i \in 1 .. Len(ret) : ret'[i] = ret[i]
        /\ ret'[Len(ret) + 1] = next_att
      BY <1>1, <1>2, <1>3, <2>1, <2>2, Emitted
  <2> HIDE DEF ret
  <2>4. ColumnsWanted'
    <3> SUFFICES ASSUME NEW i \in 1 .. Len(ret')
                 PROVE  /\ ret'[i] \in Live(rel) /\ Wanted(ret'[i])
                        /\ sql'[i] = RemoteName(ret'[i])
        BY <1>1 DEF ColumnsWanted, ColumnWanted, Wanted, RemoteName, Live, ret
    <3>1. CASE i = Len(ret) + 1
        BY <1>3, <1>5, <2>3, <3>1
    <3>2. CASE i # Len(ret) + 1
      <4>1. i \in 1 .. Len(ret)
          BY <1>3, <2>3, <3>2
      <4> QED BY <1>1, <1>3, <2>3, <4>1 DEF ListOK, ColumnsWanted, ColumnWanted, ret
    <3> QED BY <3>1, <3>2
  <2>5. CompleteBefore(next_att)'
    <3> SUFFICES ASSUME NEW a \in Live(rel), a < next_att + 1, Wanted(a)
                 PROVE  \E i \in 1 .. Len(ret') : ret'[i] = a
        BY <1>1 DEF CompleteBefore, Wanted, Live, ret
    <3>1. CASE a = next_att
        BY <1>3, <2>3, <3>1
    <3>2. CASE a # next_att
      <4>1. a < next_att
          BY <1>1, <1>4, <3>2
      <4>2. PICK i \in 1 .. Len(ret) : ret[i] = a
          BY <1>1, <4>1 DEF ListOK, CompleteBefore, ret
      <4>3. i \in 1 .. Len(ret') /\ ret'[i] = a
          BY <1>3, <2>3, <4>2
      <4> QED BY <4>3
    <3> QED BY <3>1, <3>2
  <2>6. ListOK'
      BY <1>1, <1>3, <2>3, <2>4, <2>5 DEF ListOK, ret
  <2> QED BY <1>1, <1>2, <2>3, <2>6, DecisionsKept
          DEF IInv, TypesOK, ColumnsOK, RowOK, ValuesInPlace, Planned, Sized
<1>6. CASE ~(next_att \in Live(rel) /\ Wanted(next_att))
  <2>1. UNCHANGED <<sql, fsplan>>
      BY <1>6 DEF TargetColumn
  <2>2. ColumnsWanted'
      BY <1>1, <2>1 DEF ListOK, ColumnsWanted, ColumnWanted, Wanted, RemoteName, Live
  <2>3. CompleteBefore(next_att + 1)
    <3> SUFFICES ASSUME NEW a \in Live(rel), a < next_att + 1, Wanted(a)
                 PROVE  \E i \in 1 .. Len(ret) : ret[i] = a
        BY DEF CompleteBefore
    <3>1. a < next_att
        BY <1>1, <1>4, <1>6
    <3> QED BY <1>1, <3>1 DEF ListOK, CompleteBefore
  <2>4. CompleteBefore(next_att)'
      BY <1>1, <2>1, <2>3 DEF CompleteBefore, Wanted, Live
  <2>5. ListOK'
      BY <1>1, <1>3, <2>1, <2>2, <2>4 DEF ListOK
  <2> QED BY <1>1, <1>2, <2>1, <2>5, DecisionsKept
          DEF IInv, TypesOK, ColumnsOK, RowOK, ValuesInPlace, Planned, Sized
<1> QED BY <1>5, <1>6

(* The list is done, with the row's identity or without.                   *)
LEMMA TargetEndValid ==
    ASSUME IInv, TargetEnd
    PROVE  IInv'
<1> DEFINE ret == fsplan.retrieved_attrs
<1>1. /\ UNCHANGED <<rel, query, fpinfo, next_att, row, remote_row, tuple>>
      /\ stage = "target" /\ stage' = "plan" /\ next_att > natts
      /\ TypesOK /\ DecisionsOK /\ ListOK /\ RowOK
      /\ fsplan \in FsPlans /\ next_att \in 1 .. natts + 1
    BY DEF IInv, TypesOK, ColumnsOK, TargetEnd
<1>2. next_att = natts + 1
    BY <1>1, PlanConstants
<1>3. /\ sql \in Seq(Names) /\ Len(sql) <= natts /\ Len(sql) \in Nat
      /\ Len(sql) = Len(ret)
    BY <1>1, <1>2, PlanConstants DEF ListOK
<1>4. \A i \in 1 .. Len(ret) : ret[i] \in Attrs
    BY <1>1 DEF ListOK, ColumnsWanted, ColumnWanted, Live
<1>5. CASE SelfItemPointer \in fpinfo.attrs_used
  <2>1. Emit("ctid", SelfItemPointer)
      BY <1>5 DEF TargetEnd, RowidColumn
  <2>2. sql \in Seq(Names \union {"ctid"})
      BY <1>3
  <2>3. /\ fsplan' \in FsPlans
        /\ fsplan'.remote_exprs = fsplan.remote_exprs
        /\ fsplan'.local_exprs = fsplan.local_exprs
        /\ sql' \in Seq(Names \union {"ctid"}) /\ Len(sql') = Len(sql) + 1
        /\ \A i \in 1 .. Len(sql) : sql'[i] = sql[i]
        /\ sql'[Len(sql) + 1] = "ctid"
        /\ Len(ret') = Len(ret) + 1 /\ Len(ret) \in Nat
        /\ \A i \in 1 .. Len(ret) : ret'[i] = ret[i]
        /\ ret'[Len(ret) + 1] = SelfItemPointer
      BY <1>1, <2>1, <2>2, Emitted
  <2>4. Len(sql) + 1 \in DOMAIN sql'
      BY <1>3, <2>3
  <2> HIDE DEF ret
  <2>5. OwnWanted'
    <3> SUFFICES ASSUME NEW i \in 1 .. Len(ret'), ret'[i] \in Attrs
                 PROVE  /\ ret'[i] \in Live(rel) /\ Wanted(ret'[i])
                        /\ sql'[i] = RemoteName(ret'[i])
        BY <1>1 DEF OwnWanted, ColumnWanted, Wanted, RemoteName, Live, ret
    <3>1. i # Len(ret) + 1
        BY <2>3, PlanConstants DEF Attrs, SelfItemPointer
    <3>2. i \in 1 .. Len(ret)
        BY <2>3, <3>1
    <3> QED BY <1>1, <1>3, <2>3, <3>2 DEF ListOK, ColumnsWanted, ColumnWanted, ret
  <2>6. CompleteBefore(natts + 1)'
    <3> SUFFICES ASSUME NEW a \in Live(rel), a < natts + 1, Wanted(a)
                 PROVE  \E i \in 1 .. Len(ret') : ret'[i] = a
        BY <1>1 DEF CompleteBefore, Wanted, Live, ret
    <3>1. PICK i \in 1 .. Len(ret) : ret[i] = a
        BY <1>1, <1>2 DEF ListOK, CompleteBefore, ret
    <3>2. i \in 1 .. Len(ret') /\ ret'[i] = a
        BY <2>3, <3>1
    <3> QED BY <3>2
  <2>7. DoneOK'
      BY <1>1, <1>5, <2>5, <2>6 DEF DoneOK
  <2>8. ColumnsOK'
      BY <1>1, <2>3, <2>4, <2>7 DEF ColumnsOK
  <2>9. DecisionsOK'
      BY <1>1, <2>3, DecisionsKept DEF Planned, Sized
  <2> QED BY <1>1, <2>3, <2>8, <2>9
          DEF IInv, TypesOK, RowOK, ValuesInPlace, Stages
<1>6. CASE SelfItemPointer \notin fpinfo.attrs_used
  <2>1. fsplan' = fsplan /\ sql' = IF sql = <<>> THEN <<"NULL">> ELSE sql
      BY <1>6 DEF TargetEnd
  <2>2. Len(sql') <= natts \/ (natts = 0 /\ sql' = <<"NULL">>)
    <3>1. CASE sql = <<>>
        BY <2>1, <3>1, PlanConstants
    <3>2. CASE sql # <<>>
        BY <1>3, <2>1, <3>2
    <3> QED BY <3>1, <3>2
  <2>3. \A i \in 1 .. Len(ret) : sql'[i] = sql[i]
    <3>1. CASE sql = <<>>
        BY <1>3, <3>1
    <3>2. CASE sql # <<>>
        BY <2>1, <3>2
    <3> QED BY <3>1, <3>2
  <2>4. OwnWanted'
      BY <1>1, <2>1, <2>3
      DEF ListOK, ColumnsWanted, ColumnWanted, OwnWanted, Wanted, RemoteName, Live
  <2>5. CompleteBefore(natts + 1)'
      BY <1>1, <1>2, <2>1 DEF ListOK, CompleteBefore, Wanted, Live
  <2>6. (Retrieved \subseteq Attrs)'
    <3>1. DOMAIN ret = 1 .. Len(ret)
        BY <1>1 DEF FsPlans
    <3> QED BY <1>4, <2>1, <3>1 DEF Retrieved
  <2>7. DoneOK'
      BY <2>2, <2>4, <2>5, <2>6 DEF DoneOK
  <2>8. ColumnsOK'
      BY <1>1, <1>6, <2>7 DEF ColumnsOK
  <2>9. DecisionsOK'
      BY <1>1, <2>1, DecisionsKept DEF Planned, Sized
  <2> QED BY <1>1, <2>1, <2>8, <2>9
          DEF IInv, TypesOK, RowOK, ValuesInPlace, Stages
<1> QED BY <1>5, <1>6

(* Without a change of the list and of what was decided, it stays done.    *)
LEMMA DoneKept ==
    ASSUME DoneOK, UNCHANGED <<rel, query, fpinfo, fsplan, sql>>
    PROVE  DoneOK'
BY DEF DoneOK, OwnWanted, ColumnWanted, CompleteBefore, Wanted, RemoteName, Live,
       Retrieved

(* Tibero accepts the statement, or not.                                   *)
LEMMA BeginValid ==
    ASSUME IInv, BeginForeignScan
    PROVE  IInv'
<1>1. /\ UNCHANGED <<rel, query, fpinfo, fsplan, next_att, sql, row, remote_row, tuple>>
      /\ stage = "plan" /\ stage' \in {"refused", "scan", "undefined"}
      /\ stage' # "refused" => rel.ctid \/ ~\E i \in DOMAIN sql : sql[i] = "ctid"
      /\ TypesOK /\ DecisionsOK /\ ColumnsOK /\ RowOK
    BY DEF IInv, BeginForeignScan
<1>2. TypesOK'
    BY <1>1 DEF TypesOK, Stages
<1>3. DecisionsOK'
    BY <1>1, DecisionsKept DEF Planned, Sized
<1>4. DoneOK'
    BY <1>1, DoneKept DEF ColumnsOK
<1>5. stage' # "refused" /\ SelfItemPointer \in fpinfo.attrs_used => rel.ctid
    BY <1>1 DEF ColumnsOK
<1>6. ColumnsOK'
    BY <1>1, <1>4, <1>5 DEF ColumnsOK
<1>7. row = 0
    BY <1>1 DEF RowOK, TypesOK
<1>8. RowOK'
    BY <1>1, <1>7 DEF RowOK, ValuesInPlace
<1> QED BY <1>2, <1>3, <1>6, <1>8 DEF IInv

(* A row: the values of the wanted attributes are found by number.         *)
LEMMA MakeTupleValid ==
    ASSUME IInv, MakeTuple
    PROVE  IInv'
<1>1. /\ UNCHANGED <<stage, rel, query, fpinfo, fsplan, next_att, sql>>
      /\ stage = "scan" /\ stage \in Sized /\ stage \in Planned
      /\ row' = row + 1 /\ row < MaxRow /\ remote_row' \subseteq Names
      /\ TypesOK /\ DecisionsOK /\ DoneOK /\ ColumnsOK /\ RowOK
    BY DEF IInv, MakeTuple, ColumnsOK, Sized, Planned
<1>2. row' \in 0 .. MaxRow /\ row' > 0 /\ row' \in Nat
    BY <1>1, PlanConstants DEF TypesOK
<1>3. \A a \in Attrs :
          /\ a \in Expanded(fpinfo.attrs_used) <=> Source(a) # {}
          /\ \A i \in Source(a) : sql[i] = RemoteName(a)
    BY <1>1, DoneColumns
<1>4. ASSUME NEW a \in Attrs, a \notin Expanded(fpinfo.attrs_used)
      PROVE  tuple'[a] = NULL
  <2>1. tuple'[a] = tuple[a]
      BY <1>3, <1>4 DEF MakeTuple
  <2>2. tuple[a] = NULL
      BY <1>1, <1>4 DEF RowOK, ValuesInPlace, TypesOK
  <2> QED BY <2>1, <2>2
<1>5. ASSUME NEW a \in Attrs, a \in Expanded(fpinfo.attrs_used)
      PROVE  tuple'[a] = IF RemoteName(a) \in remote_row' THEN NULL
                         ELSE [column |-> RemoteName(a), row |-> row']
  <2>1. tuple'[a] = Fetched(sql[CHOOSE i \in Source(a) : TRUE])
      BY <1>3, <1>5 DEF MakeTuple
  <2>2. (CHOOSE i \in Source(a) : TRUE) \in Source(a)
      BY <1>3, <1>5
  <2>3. tuple'[a] = Fetched(RemoteName(a))
      BY <1>3, <2>1, <2>2
  <2> QED BY <2>3 DEF Fetched
<1>6. ValuesInPlace'
  <2>1. Expanded(fpinfo.attrs_used)' = Expanded(fpinfo.attrs_used)
      BY <1>1 DEF Expanded, Live
  <2>2. \A a \in Attrs : RemoteName(a)' = RemoteName(a)
      BY <1>1 DEF RemoteName
  <2>3. NULL' = NULL
      BY DEF NULL
  <2> QED BY <1>4, <1>5, <2>1, <2>2, <2>3 DEF ValuesInPlace
<1>7. tuple' \in [Attrs -> Cells]
  <2>1. \A a \in Attrs : tuple'[a] \in Cells
    <3> SUFFICES ASSUME NEW a \in Attrs PROVE tuple'[a] \in Cells
        OBVIOUS
    <3>1. NULL \in Cells
        BY DEF NULL, Cells
    <3>2. RemoteName(a) \in Names
        BY <1>1, RemoteNames
    <3>3. [column |-> RemoteName(a), row |-> row'] \in Cells
        BY <1>2, <3>2 DEF Cells
    <3> QED BY <1>4, <1>5, <3>1, <3>3
  <2> QED BY <2>1 DEF MakeTuple
<1>8. TypesOK'
    BY <1>1, <1>2, <1>7 DEF TypesOK
<1>9. DecisionsOK'
    BY <1>1, DecisionsKept
<1>10. ColumnsOK'
    BY <1>1, DoneKept DEF ColumnsOK
<1>11. RowOK'
    BY <1>1, <1>2, <1>6 DEF RowOK
<1> QED BY <1>8, <1>9, <1>10, <1>11 DEF IInv

(* A row that no tuple can be made of.                                     *)
LEMMA MakeTupleOutsideValid ==
    ASSUME IInv, MakeTupleOutside
    PROVE  IInv'
<1>1. /\ UNCHANGED <<rel, query, fpinfo, fsplan, next_att, sql, row, remote_row, tuple>>
      /\ stage = "scan" /\ stage' = "undefined"
      /\ TypesOK /\ DecisionsOK /\ DoneOK /\ ColumnsOK /\ RowOK
    BY DEF IInv, MakeTupleOutside, ColumnsOK
<1>2. TypesOK'
    BY <1>1 DEF TypesOK, Stages
<1>3. DecisionsOK'
    BY <1>1, DecisionsKept DEF Planned, Sized
<1>4. ColumnsOK'
    BY <1>1, DoneKept DEF ColumnsOK
<1>5. RowOK'
    BY <1>1 DEF RowOK, ValuesInPlace
<1> QED BY <1>2, <1>3, <1>4, <1>5 DEF IInv

(* Every callback keeps what the ones before it decided.                   *)
LEMMA StepValid ==
    ASSUME IInv, [PlanNext]_planVars
    PROVE  IInv'
<1>1. CASE UNCHANGED planVars
  <2>1. /\ UNCHANGED <<stage, rel, query, fpinfo, fsplan, next_att, sql, row,
                       remote_row, tuple>>
      BY <1>1 DEF planVars
  <2>2. TypesOK'
      BY <2>1 DEF IInv, TypesOK
  <2>3. DecisionsOK'
      BY <2>1 DEF IInv, DecisionsOK, Sensible, AttrsUsed, RunsRemotely, ScanClauses
  <2>4. ColumnsOK'
      BY <2>1, DoneKept DEF IInv, ColumnsOK, ListOK, ColumnsWanted, ColumnWanted,
                  CompleteBefore, Wanted, RemoteName, Live
  <2>5. RowOK'
      BY <2>1 DEF IInv, RowOK, ValuesInPlace, Expanded, Live, RemoteName
  <2> QED BY <2>2, <2>3, <2>4, <2>5 DEF IInv
<1> QED
    BY <1>1, PlanValid, SizeValid, PlanCallbackValid, TargetColumnValid,
       TargetEndValid, BeginValid, MakeTupleValid, MakeTupleOutsideValid
    DEF PlanNext

(* What holds at each stage of a query.                                    *)
THEOREM ScanPlanInv == PlanSpec => []IInv
BY InitValid, StepValid, PTL DEF PlanSpec

-----------------------------------------------------------------------------
(* The state keeps its type.                                               *)
THEOREM PlanTypes == PlanSpec => []PlanTypeOK
<1>1. IInv => PlanTypeOK
    BY DEF IInv, TypesOK, Infos, FsPlans, PlanTypeOK
<1> QED BY <1>1, ScanPlanInv, PTL

(* Every attribute that was asked for has its own remote column's value.   *)
THEOREM InPlace == PlanSpec => []ValuesInPlace
<1>1. IInv => ValuesInPlace
    BY DEF IInv, RowOK
<1> QED BY <1>1, ScanPlanInv, PTL

(* Result columns and retrieved numbers fit the arrays, for any table with *)
(* attributes and any query that does not ask for ctid, or asks for it     *)
(* where Tibero has no such column.                                        *)
THEOREM Fit == PlanSpec => []ColumnsFit
<1>1. IInv => ColumnsFit
  <2> SUFFICES ASSUME IInv, stage \in {"scan", "undefined"}
               PROVE  \/ Len(sql) <= natts /\ Retrieved \subseteq Attrs
                      \/ natts = 0 /\ sql = <<"NULL">>
                      \/ rel.ctid /\ SelfItemPointer \in query.reltarget
      BY DEF ColumnsFit
  <2>1. /\ DoneOK /\ TypesOK
        /\ SelfItemPointer \in fpinfo.attrs_used => rel.ctid
      BY DEF IInv, ColumnsOK
  <2>2. fpinfo.attrs_used = AttrsUsed(BaseClauses \ query.shippable)
      BY DEF IInv, DecisionsOK, Sized
  <2>3. \A c \in BaseClauses : query.attrs[c] \subseteq Attrs \union {WholeRow}
      BY <2>1 DEF TypesOK, Queries, Clauses
  <2>4. SelfItemPointer \notin Attrs \union {WholeRow}
      BY PlanConstants DEF Attrs, WholeRow, SelfItemPointer
  <2>5. SelfItemPointer \in fpinfo.attrs_used => SelfItemPointer \in query.reltarget
      BY <2>2, <2>3, <2>4 DEF AttrsUsed
  <2> QED BY <2>1, <2>5 DEF DoneOK
<1> QED BY <1>1, ScanPlanInv, PTL

(* Every condition is decided, with the columns that it reads.             *)
THEOREM Decided == PlanSpec => []ConditionsDecided
<1>1. IInv => ConditionsDecided
  <2> SUFFICES ASSUME IInv, stage = "scan",
                      NEW c \in ScanClauses \ query.pseudoconstant
               PROVE  /\ c \in fsplan.remote_exprs => c \in query.shippable
                      /\ c \in fsplan.remote_exprs \/ c \in fsplan.local_exprs
                      /\ c \in fsplan.local_exprs \/ WholeRow \in query.reltarget
                         => Expanded(query.attrs[c]) \subseteq Retrieved
      BY DEF ConditionsDecided
  <2> DEFINE used == fpinfo.attrs_used
  <2>1. /\ TypesOK /\ DecisionsOK /\ DoneOK
        /\ stage \in Planned /\ stage \in Sized /\ stage # "start"
      BY DEF IInv, ColumnsOK, Planned, Sized
  <2>2. /\ fpinfo.remote_conds = BaseClauses \intersect query.shippable
        /\ fpinfo.local_conds = BaseClauses \ query.shippable
        /\ used = AttrsUsed(BaseClauses \ query.shippable)
      BY <2>1 DEF DecisionsOK
  <2>3. /\ c \in fsplan.remote_exprs <=> RunsRemotely(c)
        /\ c \in fsplan.local_exprs <=> ~RunsRemotely(c)
      BY <2>1 DEF DecisionsOK
  <2>4. RunsRemotely(c) => c \in query.shippable
      BY <2>2 DEF RunsRemotely
  <2>5. c \in Clauses /\ (c \in BaseClauses \/ c \in ParamClauses)
      BY <2>1 DEF ScanClauses, Clauses, TypesOK, Queries
  <2>6. query.attrs[c] \subseteq Attrs \union {WholeRow} /\ WholeRow \notin Attrs
      BY <2>1, <2>5, PlanConstants DEF TypesOK, Queries, Attrs, WholeRow
  <2>7. /\ query.attrs[c] \intersect rel.dropped = {}
        /\ c \in ParamClauses => query.attrs[c] \subseteq query.reltarget
      BY <2>1, <2>5 DEF DecisionsOK, Sensible
  <2>8. \A a \in Attrs : a \in Expanded(used) => a \in Retrieved
      BY <2>1, DoneColumns DEF Source, Retrieved
  <2>9. Expanded(query.attrs[c]) \subseteq Live(rel)
      BY <2>6, <2>7 DEF Expanded, Live
  <2>10. ASSUME c \in fsplan.local_exprs
         PROVE  query.attrs[c] \subseteq used
    <3>1. CASE c \in ParamClauses
        BY <2>2, <2>7, <3>1 DEF AttrsUsed
    <3>2. CASE c \in BaseClauses
      <4>1. c \notin query.shippable
          BY <2>2, <2>3, <2>10, <3>2 DEF RunsRemotely
      <4> QED BY <2>2, <3>2, <4>1 DEF AttrsUsed
    <3> QED BY <2>5, <3>1, <3>2
  <2>11. ASSUME query.attrs[c] \subseteq used
         PROVE  Expanded(query.attrs[c]) \subseteq Expanded(used)
      BY <2>11 DEF Expanded
  <2>12. ASSUME WholeRow \in query.reltarget
         PROVE  Live(rel) \subseteq Expanded(used)
    <3>1. WholeRow \in used
        BY <2>2, <2>12 DEF AttrsUsed
    <3> QED BY <3>1 DEF Expanded
  <2>13. Expanded(query.attrs[c]) \subseteq Attrs
      BY <2>9 DEF Live
  <2> HIDE DEF used
  <2> QED BY <2>3, <2>4, <2>8, <2>9, <2>10, <2>11, <2>12, <2>13
<1> QED BY <1>1, ScanPlanInv, PTL
=============================================================================

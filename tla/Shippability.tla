---------------------------- MODULE Shippability ----------------------------
(***************************************************************************)
(* Whether a condition is sent to Tibero (src/conditions.c) and what the   *)
(* deparser makes of it then (src/deparse.c).                              *)
(*                                                                         *)
(* The inspection walks the expression tree depth first and threads one    *)
(* InspectionContext through it.  The tree is revealed as it is walked:    *)
(* each visit picks the node that comes next, so that all trees of up to   *)
(* MaxNodes nodes are walked.  Whether operands fit an operator's types is *)
(* left out.                                                               *)
(***************************************************************************)
EXTENDS Naturals, Sequences

CONSTANTS
    MaxNodes,      \* bound: nodes of a condition
    Collations,    \* collations other than the default one
    Lateral        \* TRUE if conditions may refer to an outer relation

ASSUME TreeAssumption ==
    /\ MaxNodes \in Nat
    /\ {"none", "default"} \intersect Collations = {}
    /\ Lateral \in BOOLEAN

VARIABLES
    stage,      \* "inspect", then "remote" or "local", then "deparsed"
    context,    \* the InspectionContext
    stack,      \* operators being inspected: their arguments still to come
    expr,       \* the nodes visited so far, parents first
    sql         \* what the deparser ended with

vars == <<stage, context, stack, expr, sql>>

-----------------------------------------------------------------------------
(* Expressions.  A collation is "none" for InvalidOid.                     *)

AnyCollation == {"none", "default"} \union Collations

(* Variables of the scanned table, or of an outer relation that a lateral  *)
(* join makes available to the scan.                                       *)
Var == [kind : {"Var"}, rel : {"own"} \union IF Lateral THEN {"outer"} ELSE {},
        att : {"column", "ctid", "system", "wholerow"},
        collation : AnyCollation]

(* Constants, by what deparse_datum does with them: NULL, numbers, finite  *)
(* dates and times and strings give a literal, infinite dates an error,    *)
(* and the other types are taken for C strings, which they are not.        *)
ConstTypes == {"literal", "infinite", "generic"}
Const == [kind : {"Const"}, type : ConstTypes, collation : AnyCollation]

(* Operators: int4mod is OID 530, modulo the other % operators; bpcharregex*)
(* is OID_BPCHAR_REGEXEQ_OP, regex the other ~ operators.                  *)
Builtin == {"plain", "like", "int4mod", "modulo", "bpcharregex", "regex"}
OpExpr == [kind : {"OpExpr"}, op : Builtin \union {"userdefined"},
           mutable : BOOLEAN, inputcollid : AnyCollation,
           opcollid : AnyCollation]

(* T_Param, T_FuncExpr, T_DistinctExpr, T_BoolExpr, T_NullTest,            *)
(* T_ArrayExpr, T_Aggref and every other node type.                        *)
Other == [kind : {"Other"}]

Leaf == Var \union Const \union Other
Node == Leaf \union OpExpr

-----------------------------------------------------------------------------
(* TbFDWCollationState                                                     *)
SAFE_TO_SHIP    == 0
NEED_INSPECTION == 1
UNSAFE_TO_SHIP  == 2

Context == [collation : AnyCollation,
            collation_state : {SAFE_TO_SHIP, NEED_INSPECTION, UNSAFE_TO_SHIP},
            shippable : BOOLEAN]

(* An operator whose arguments are being inspected.                        *)
Frame == [node : OpExpr, left : 0 .. 2]

TypeOK ==
    /\ stage \in {"inspect", "remote", "local", "deparsed"}
    /\ context \in Context
    /\ stack \in Seq(Frame)
    /\ expr \in Seq(Node)
    /\ sql \in {"none", "text", "error", "undefined", "unimplemented"}

\* Mutant: the first collation met is taken for the one to compare with.
deduce_collation_state_FromFirst(c, collation) ==
    CASE collation = "none" -> SAFE_TO_SHIP
      [] collation = "default" /\ c.collation # "default" -> SAFE_TO_SHIP
      [] OTHER -> NEED_INSPECTION
deduce_collation_state(c, collation) ==
    IF collation = "none" THEN SAFE_TO_SHIP
    ELSE IF c.collation_state = NEED_INSPECTION /\ collation = c.collation
    THEN NEED_INSPECTION
    ELSE IF collation = "default" THEN SAFE_TO_SHIP
    ELSE UNSAFE_TO_SHIP

(* compare_collation_with_current_state: a worse state overrides, and two  *)
(* different collations conflict, the default one giving way.              *)
Collated(c, collation) ==
    LET state == deduce_collation_state(c, collation)
        conflict == /\ state = NEED_INSPECTION
                    /\ c.collation_state = NEED_INSPECTION
                    /\ collation # c.collation
    IN
    CASE state > c.collation_state ->
           [c EXCEPT !.collation = collation, !.collation_state = state]
      [] conflict /\ c.collation = "default" ->
           [c EXCEPT !.collation = collation]
      [] conflict /\ c.collation # "default" /\ collation # "default" ->
           [c EXCEPT !.collation_state = UNSAFE_TO_SHIP]
      [] OTHER -> c
compare_collation(c, collation) ==
    LET d == Collated(c, collation) IN
    [d EXCEPT !.shippable = @ /\ d.collation_state # UNSAFE_TO_SHIP]

NotShippable(c) == [c EXCEPT !.shippable = FALSE]

inspect_for_T_Var(n, c) ==
    compare_collation(IF n.rel = "own" /\ n.att \in {"system", "wholerow"}
                      THEN NotShippable(c) ELSE c, n.collation)

inspect_for_T_Const(n, c) == compare_collation(c, n.collation)

\* Mutant: the other node types are let through.
InspectLeaf_AnyNode(n, c) ==
    CASE n.kind = "Var" -> inspect_for_T_Var(n, c)
      [] n.kind = "Const" -> inspect_for_T_Const(n, c)
      [] n.kind = "Other" -> c
InspectLeaf(n, c) ==
    CASE n.kind = "Var" -> inspect_for_T_Var(n, c)
      [] n.kind = "Const" -> inspect_for_T_Const(n, c)
      [] n.kind = "Other" -> NotShippable(c)

(* check_func_expr_compatible_with_tibero                                  *)
Compatible(n) == n.op \in Builtin \ {"bpcharregex", "int4mod"}

-----------------------------------------------------------------------------
Init ==
    /\ stage = "inspect"
    /\ context = [collation |-> "none", collation_state |-> SAFE_TO_SHIP,
                  shippable |-> TRUE]
    /\ stack = <<>>
    /\ expr = <<>>
    /\ sql = "none"

Top == stack[Len(stack)]
Below == SubSeq(stack, 1, Len(stack) - 1)

(* start_inspection is called for the root and for each argument, and goes *)
(* on while nothing was found against the condition.                       *)
\* Mutant: one argument too many is visited.
Visit_PastLast(n) ==
    /\ stage = "inspect"
    /\ context.shippable
    /\ Len(expr) < MaxNodes
    /\ expr = <<>> \/ stack # <<>>
    /\ expr' = Append(expr, n)
    /\ UNCHANGED <<stage, sql>>
Visit(n) ==
    /\ stage = "inspect"
    /\ context.shippable
    /\ Len(expr) < MaxNodes
    /\ \/ expr = <<>>
       \/ stack # <<>> /\ Top.left > 0
    /\ expr' = Append(expr, n)
    /\ UNCHANGED <<stage, sql>>

(* The open operators once the next argument is taken.                     *)
Taken == IF stack = <<>> THEN <<>>
         ELSE Append(Below, [Top EXCEPT !.left = @ - 1])

VisitLeaf(n) ==
    /\ Visit(n)
    /\ context' = InspectLeaf(n, context)
    /\ stack' = Taken

(* inspect_for_T_FuncExpr_internal up to the arguments;                    *)
(* contain_mutable_functions also looks at the operators below, which is   *)
(* left to their own visits.                                               *)
EnterOpExpr(n) ==
    /\ Visit(n)
    /\ IF Compatible(n) /\ ~n.mutable
       THEN /\ context' = context
            /\ \E args \in {1, 2} :
                 stack' = Append(Taken, [node |-> n, left |-> args])
       ELSE /\ context' = NotShippable(context)
            /\ stack' = Taken

(* The arguments are done, or skipped.                                     *)
LeaveOpExpr ==
    /\ stage = "inspect"
    /\ stack # <<>>
    /\ Top.left = 0 \/ ~context.shippable
    /\ context' = compare_collation(
                    compare_collation(context, Top.node.inputcollid),
                    Top.node.opcollid)
    /\ stack' = Below
    /\ UNCHANGED <<stage, expr, sql>>

(* The planner hands a clause with outer variables to a scan as one of the *)
(* ppi_clauses of its path, and only if the clause is about the scanned    *)
(* table as well.                                                          *)
Mentions(rel) == \E i \in 1 .. Len(expr) :
                    expr[i].kind = "Var" /\ expr[i].rel = rel
OwnClause == Mentions("outer") => Mentions("own")

(* The loops of classify_conditions and tiberoGetForeignPlan.              *)
Classify ==
    /\ stage = "inspect"
    /\ expr # <<>>
    /\ stack = <<>>
    /\ context.shippable => OwnClause
    /\ stage' = IF context.shippable THEN "remote" ELSE "local"
    /\ UNCHANGED <<context, stack, expr, sql>>

(* How deparse_datum ends.                                                 *)
ConstSql == [type \in ConstTypes |->
               CASE type = "literal" -> "text"
                 [] type = "infinite" -> "error"
                 [] type = "generic" -> "undefined"]

(* How deparse_expr ends for one node.                                     *)
NodeSql(n) ==
    CASE n.kind = "Var" -> IF n.rel = "own" THEN "text" ELSE "unimplemented"
      [] n.kind = "Const" -> ConstSql[n.type]
      [] n.kind = "OpExpr" -> "text"
      [] n.kind = "Other" -> "unimplemented"

(* append_conditions for this condition: the first node that does not give *)
(* text decides.                                                           *)
Deparse ==
    /\ stage = "remote"
    /\ stage' = "deparsed"
    /\ LET ends == {NodeSql(expr[i]) : i \in 1 .. Len(expr)} IN
       sql' \in IF ends = {"text"} THEN ends ELSE ends \ {"text"}
    /\ UNCHANGED <<context, stack, expr>>

Next ==
    \/ \E n \in Leaf : VisitLeaf(n)
    \/ \E n \in OpExpr : EnterOpExpr(n)
    \/ LeaveOpExpr
    \/ Classify
    \/ Deparse

Spec == Init /\ [][Next]_vars

-----------------------------------------------------------------------------
(* Properties.                                                             *)

Remote == stage \in {"remote", "deparsed"}

(* What is sent means the same in Tibero as far as the inspection can tell:*)
(* it is made of columns, constants and immutable built-in operators, and  *)
(* no part of it has a collation other than the default one, wherever in   *)
(* the tree it stands.                                                     *)
SafeNode(n) ==
    CASE n.kind = "Var" -> /\ n.collation \in {"none", "default"}
                           /\ n.rel = "own" => n.att \in {"column", "ctid"}
      [] n.kind = "Const" -> n.collation \in {"none", "default"}
      [] n.kind = "OpExpr" -> /\ n.inputcollid \in {"none", "default"}
                              /\ n.opcollid \in {"none", "default"}
                              /\ n.op \in Builtin
                              /\ ~n.mutable
      [] OTHER -> FALSE

RemoteIsSafe == Remote => \A i \in 1 .. Len(expr) : SafeNode(expr[i])

(* The deparser has code for every node type that the inspection lets pass:*)
(* it never gets to its "Not implemented" assertion or to an empty         *)
(* deparse_expr_for_ function, which would leave a hole in the statement.  *)
DeparserIsComplete == sql # "unimplemented"

(* The operators that conditions.c names as missing in Tibero, regular     *)
(* expression match and modulo, are evaluated locally.                     *)
NoForeignOperators ==
    Remote => \A i \in 1 .. Len(expr) :
                expr[i].kind = "OpExpr" =>
                  expr[i].op \notin {"int4mod", "modulo", "bpcharregex", "regex"}
=============================================================================

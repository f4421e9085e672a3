------------------------------ MODULE MCParts ------------------------------
(***************************************************************************)
(* Small instances of the components that share no state with one another. *)
(* One run checks them all: the first state chooses the component that     *)
(* will run, and the others stay in their initial states.  So each is      *)
(* checked as if alone, and no product of their states is built.           *)
(***************************************************************************)
EXTENDS RemoteSnapshot, TbcliHandles, ScanPlan, FdwOptions, SleepOnSig,
        SqlReader, ZoneText, ColumnBuffers, TLC

VARIABLE part

Parts == {"snapshot", "handles", "plan", "empty_table", "options", "signal",
          "text", "zone", "buffers"}

(* ScanPlan once more, for a table without attributes:                     *)
(* CREATE FOREIGN TABLE t () SERVER s.                                     *)
NoAttrs == INSTANCE ScanPlan WITH natts <- 0, attname <- <<>>, Renames <- {<<>>}

PartsInit ==
    /\ part \in Parts
    /\ SnapInit /\ HandleInit /\ OptionInit /\ SigInit /\ TextInit
    /\ ZoneInit /\ BufferInit
    /\ IF part = "empty_table" THEN NoAttrs!PlanInit ELSE PlanInit

Others(p) ==
    /\ UNCHANGED part
    /\ p # "snapshot" => UNCHANGED snapVars
    /\ p # "handles" => UNCHANGED handleVars
    /\ p \notin {"plan", "empty_table"} => UNCHANGED planVars
    /\ p # "options" => UNCHANGED options
    /\ p # "signal" => UNCHANGED sigVars
    /\ p # "text" => UNCHANGED textVars
    /\ p # "zone" => UNCHANGED zone
    /\ p # "buffers" => UNCHANGED bufferVars

PartsNext ==
    \/ part = "snapshot" /\ SnapNext /\ Others("snapshot")
    \/ part = "handles" /\ HandleNext /\ Others("handles")
    \/ part = "plan" /\ PlanNext /\ Others("plan")
    \/ part = "empty_table" /\ NoAttrs!PlanNext /\ Others("empty_table")
    \/ part = "options" /\ OptionNext /\ Others("options")
    \/ part = "signal" /\ SigNext /\ Others("signal")
    \/ part = "text" /\ TextNext /\ Others("text")
    \/ part = "zone" /\ deparse_ts_tz_datum /\ Others("zone")
    \/ part = "buffers" /\ BufferNext /\ Others("buffers")

PartsSpec ==
    PartsInit /\ [][PartsNext]_<<part, snapVars, handleVars, planVars, options,
                                 sigVars, textVars, zone, bufferVars>>

(* The state of every component has the form its module declares.          *)
PartsTypeOK ==
    /\ SnapTypeOK /\ HandleTypeOK /\ OptionTypeOK /\ SigTypeOK
    /\ TextTypeOK /\ ZoneTypeOK /\ BufferTypeOK
    /\ IF part = "empty_table" THEN NoAttrs!PlanTypeOK ELSE PlanTypeOK

(* ColumnsFit for the table without attributes: of its statements only the *)
(* one that selects NULL, or ctid where the remote table has a column of   *)
(* that name, gets a result column beyond the executor's array.            *)
EmptyTableFits == part = "empty_table" => NoAttrs!ColumnsFit

-----------------------------------------------------------------------------
(* ScanPlan: two attributes, one of which may have another's name, or one  *)
(* that has a meaning of its own to PostgreSQL.                            *)
TwoColumns == <<"c1", "c2">>
TwoRenames == {<<>>, (1 :> "ctid"), (2 :> "c1")}

(* FdwOptions: words, and how the server's parsers take them.              *)
Words == {"", "x", "0", "7", "max", "on", "off"}
Numbers == ("0" :> 0) @@ ("7" :> 7) @@ ("max" :> MaxFetchSize)
Truths == ("on" :> TRUE) @@ ("off" :> FALSE) @@ ("0" :> FALSE)
WordsTried ==
    [k \in Keywords |->
       CASE k = "fetch_size" -> {"", "x", "0", "7", "max"}
         [] k = "updatable" -> {"on", "off", "x"}
         [] k \in Booleans -> {"on", "x"}
         [] OTHER -> {"", "x"}]

(* DeparseText and SqlReader: every pair of operands under an operator,    *)
(* nested operators over a few of them, and conjunctions of two conditions.*)
Operands ==
    {Column, Null, Number(1), Number(-1)} \union
    {String(s) : s \in {<<>>, <<"x">>, <<"q">>, <<"q", "x", "q">>, <<"-", "-">>,
                        <<")", "q">>}}
FewOperands == {Column, Number(-1), String(<<"q">>)}
Over(E) ==
    {Unary(e) : e \in E}
    \union {Binary(op, l, r) : op \in {"-", "LIKE"}, l \in E, r \in E}
SmallTrees == FewOperands \union Over(FewOperands)
AllTrees == Operands \union Over(Operands) \union Over(SmallTrees)
Meant[e \in AllTrees] ==
    CASE e.node = "unary" -> Unary(Meant[e.arg])
      [] e.node = "binary" -> Binary(e.op, Meant[e.left], Meant[e.right])
      [] e = String(<<>>) -> Null
      [] e = Number(-1) -> Unary(Number(1))
      [] OTHER -> e
ConditionLists ==
    {<<e>> : e \in AllTrees}
    \union {<<d, e>> : d \in SmallTrees, e \in SmallTrees}
ZoneOffsets == {3600 * h + 60 * m : h \in -15 .. 15, m \in {0, 1, 30, 59}}
=============================================================================

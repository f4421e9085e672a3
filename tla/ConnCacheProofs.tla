-------------------------- MODULE ConnCacheProofs --------------------------
(***************************************************************************)
(* Theorems about ConnCache, for any number of servers and user mappings   *)
(* and any combination of failures.                                        *)
(***************************************************************************)
EXTENDS ConnCache, TLAPS

(* The operations on an entry keep it an entry, and end its participation  *)
(* in the remote transaction where they should.                            *)
LEMMA EntryOps ==
    ASSUME NEW c \in Entry
    PROVE  /\ TbFdwReportError(c) \in Entry
           /\ disconnect_tb_server(c) \in Entry
           /\ TbSQLEndTran(c) \in Entry
           /\ AfterEndTran(c) \in Entry
           /\ begin_remote_xact(c) \in Entry
           /\ ~TbFdwReportError(c).connected
           /\ TbFdwReportError(c).known = c.known
           /\ ~disconnect_tb_server(c).connected
           /\ disconnect_tb_server(c).known = c.known
           /\ ~TbSQLEndTran(c).begin_remote_xact
           /\ AfterEndTran(c).known = c.known
           /\ ~InXact(AfterEndTran(c))
           /\ AfterEndTran(c).connected => AfterEndTran(c).keep_connections
           /\ ~TbFdwReportError(TbSQLEndTran(c)).connected
  BY DEF Entry, TbFdwReportError, disconnect_tb_server, TbSQLEndTran,
         AfterEndTran, MustClose, begin_remote_xact, InXact

LEMMA NewEntryOps ==
    ASSUME NEW keep \in BOOLEAN
    PROVE  /\ NewEntry(keep) \in Entry
           /\ ~NewEntry(keep).connected
           /\ Connected(keep) \in Entry
           /\ Connected(keep).known
           /\ InXact(Connected(keep))
  BY DEF Entry, NewEntry, Connected, begin_remote_xact, InXact

(* The invalidation callback touches nothing but the invalidated flag.     *)
LEMMA InvalOps ==
    ASSUME NEW c \in Entry, NEW k, NEW new
    PROVE  /\ InvalCallback(c, k, new) \in Entry
           /\ InvalCallback(c, k, new).known = c.known
           /\ InvalCallback(c, k, new).connected = c.connected
           /\ InvalCallback(c, k, new).begin_remote_xact = c.begin_remote_xact
           /\ InvalCallback(c, k, new).keep_connections = c.keep_connections
  <1>1. CASE c.connected /\ (new[ServerOf[k]] # seen[ServerOf[k]] \/ new[k] # seen[k])
    BY <1>1 DEF Entry, InvalCallback
  <1>2. CASE ~(c.connected /\ (new[ServerOf[k]] # seen[ServerOf[k]] \/ new[k] # seen[k]))
    BY <1>2 DEF Entry, InvalCallback
  <1> QED BY <1>1, <1>2

-----------------------------------------------------------------------------
(* Type correctness.                                                       *)

LEMMA DropType ==
    ASSUME TypeOK, NEW k \in Mappings, DropSession(k)
    PROVE  /\ pend' \in [Mappings -> SUBSET Nat]
           /\ durable' \in [Mappings -> SUBSET Nat]
           /\ lost' \in [Mappings -> SUBSET Nat]
           /\ abandoned' \in [Mappings -> SUBSET Nat]
  BY DEF TypeOK, DropSession, Abandon

LEMMA AbandonType ==
    ASSUME TypeOK, NEW k \in Mappings, Abandon(k)
    PROVE  /\ pend' \in [Mappings -> SUBSET Nat]
           /\ durable' \in [Mappings -> SUBSET Nat]
           /\ lost' \in [Mappings -> SUBSET Nat]
           /\ abandoned' \in [Mappings -> SUBSET Nat]
  BY DEF TypeOK, Abandon

LEMMA PublishType ==
    ASSUME TypeOK, NEW k \in Mappings, Publish(k)
    PROVE  /\ pend' \in [Mappings -> SUBSET Nat]
           /\ durable' \in [Mappings -> SUBSET Nat]
           /\ lost' \in [Mappings -> SUBSET Nat]
           /\ abandoned' \in [Mappings -> SUBSET Nat]
  BY DEF TypeOK, Publish

LEMMA DiscardType ==
    ASSUME TypeOK, NEW k \in Mappings, Discard(k)
    PROVE  /\ pend' \in [Mappings -> SUBSET Nat]
           /\ durable' \in [Mappings -> SUBSET Nat]
           /\ lost' \in [Mappings -> SUBSET Nat]
           /\ abandoned' \in [Mappings -> SUBSET Nat]
  BY DEF TypeOK, Discard

LEMMA InitType == Init => TypeOK
  <1> SUFFICES ASSUME Init PROVE TypeOK
    OBVIOUS
  <1> USE DEF Init
  <1>1. conn \in [Mappings -> Entry]
    BY DEF Entry
  <1>2. session \in [Mappings -> Session]
    BY DEF Session
  <1>3. /\ pend \in [Mappings -> SUBSET Nat]
        /\ durable \in [Mappings -> SUBSET Nat]
        /\ lost \in [Mappings -> SUBSET Nat]
        /\ abandoned \in [Mappings -> SUBSET Nat]
    OBVIOUS
  <1>4. catalog \in [Objects -> Nat] /\ seen \in [Objects -> Nat]
    OBVIOUS
  <1>5. outcome \in [Xacts -> {"none", "committed", "aborted", "prepared"}]
    OBVIOUS
  <1> QED BY <1>1, <1>2, <1>3, <1>4, <1>5 DEF TypeOK, Phases

LEMMA StatementType ==
    ASSUME TypeOK, NEW k \in Mappings, Statement(k)
    PROVE  TypeOK'
  <1> USE DEF TypeOK, xactVars, catVars, cacheVars, stmtVars, remoteVars, rowVars
  <1>1. CASE GetReuse(k)
    <2>1. conn' \in [Mappings -> Entry]
      BY <1>1, EntryOps DEF GetReuse
    <2>2. session' \in [Mappings -> Session]
      BY <1>1 DEF GetReuse, SessionLevel, Session
    <2> QED BY <1>1, <2>1, <2>2 DEF GetReuse, UseCache, Phases
  <1>2. CASE Reconnect(k)
    <2>1. PICK u \in user, keep \in BOOLEAN, fresh \in {seen, catalog} :
            /\ conn' = [j \in Mappings |->
                          IF j = k THEN Connected(keep)
                          ELSE InvalCallback(conn[j], j, fresh)]
            /\ session' = [session EXCEPT ![k] =
                             [serializable |-> isolation,
                              server |-> fresh[ServerOf[k]],
                              mapping |-> u.mapping]]
            /\ seen' = fresh
      BY <1>2 DEF Reconnect
    <2>2. fresh \in [Objects -> Nat] /\ u.mapping \in Nat
      BY <2>1 DEF UserMapping
    <2>3. conn' \in [Mappings -> Entry]
      BY <2>1, NewEntryOps, InvalOps
    <2>4. session' \in [Mappings -> Session]
      BY <2>1, <2>2, MappingsAssumption DEF Session, Objects
    <2>5. seen' \in [Objects -> Nat]
      BY <2>1, <2>2
    <2> QED BY <1>2, <2>3, <2>4, <2>5, DropType DEF Reconnect, UseCache, Phases
  <1>3. CASE GetFails(k)
    <2>1. conn' \in [Mappings -> Entry]
      BY <1>3, NewEntryOps DEF GetFails
    <2> QED BY <1>3, <2>1, DropType DEF GetFails, UseFails, DropStatements, Phases
  <1>4. CASE GetCancelled(k)
    <2>1. conn' \in [Mappings -> Entry]
      BY <1>4, EntryOps DEF GetCancelled
    <2> QED BY <1>4, <2>1, DropType
            DEF GetCancelled, UseFails, DropStatements, Phases
  <1>5. CASE WriteRow(k)
    BY <1>5 DEF WriteRow
  <1>6. CASE CallFails(k)
    <2>1. conn' \in [Mappings -> Entry]
      BY <1>6, EntryOps DEF CallFails
    <2> QED BY <1>6, <2>1, DropType DEF CallFails, DropStatements, Phases
  <1>7. CASE GetUserMapping(k)
    BY <1>7 DEF GetUserMapping, UserMapping, Objects, Phases
  <1>8. CASE WriteStale(k)
    BY <1>8 DEF WriteStale
  <1>9. CASE EndStatement(k)
    BY <1>9 DEF EndStatement
  <1> QED BY <1>1, <1>2, <1>3, <1>4, <1>5, <1>6, <1>7, <1>8, <1>9 DEF Statement

LEMMA ScanType ==
    ASSUME TypeOK, NEW k \in Mappings, ScanStep(k)
    PROVE  TypeOK'
  <1> USE DEF TypeOK, xactVars, catVars, cacheVars, stmtVars, remoteVars, rowVars
  <1>1. CASE SkipEntry(k)
    BY <1>1 DEF SkipEntry
  <1>2. CASE CommitEntry(k)
    <2>1. conn' \in [Mappings -> Entry]
      BY <1>2, EntryOps DEF CommitEntry
    <2> QED BY <1>2, <2>1, PublishType DEF CommitEntry
  <1>3. CASE CommitThenCloseFails(k)
    <2>1. conn' \in [Mappings -> Entry]
      BY <1>3, EntryOps DEF CommitThenCloseFails
    <2> QED BY <1>3, <2>1, PublishType
            DEF CommitThenCloseFails, Interrupted, Known, Phases
  <1>4. CASE CommitFails(k)
    <2>1. conn' \in [Mappings -> Entry]
      BY <1>4, EntryOps DEF CommitFails
    <2> QED BY <1>4, <2>1, PublishType, DropType
            DEF CommitFails, Interrupted, Known, Phases
  <1>5. CASE RollbackEntry(k)
    <2>1. conn' \in [Mappings -> Entry]
      BY <1>5, EntryOps DEF RollbackEntry
    <2> QED BY <1>5, <2>1, DiscardType DEF RollbackEntry
  <1>6. CASE RollbackFails(k)
    <2>1. conn' \in [Mappings -> Entry]
      BY <1>6, EntryOps DEF RollbackFails
    <2> QED BY <1>6, <2>1, DiscardType, AbandonType
            DEF RollbackFails, Interrupted, Known, Phases
  <1>7. CASE TroubleEntry(k)
    <2>1. conn' \in [Mappings -> Entry]
      BY <1>7 DEF TroubleEntry, Entry
    <2> QED BY <1>7, <2>1, AbandonType DEF TroubleEntry
  <1> QED BY <1>1, <1>2, <1>3, <1>4, <1>5, <1>6, <1>7 DEF ScanStep

LEMMA NextType == ASSUME TypeOK, [Next]_vars PROVE TypeOK'
  <1> USE DEF TypeOK, xactVars, catVars, cacheVars, stmtVars, remoteVars, rowVars
  <1>1. CASE BeginXact
    BY <1>1 DEF BeginXact, Phases
  <1>2. CASE Trap
    BY <1>2 DEF Trap, Phases
  <1>3. CASE PreCommitBegin
    BY <1>3 DEF PreCommitBegin, Phases, Known
  <1>4. CASE AbortXact
    BY <1>4 DEF AbortXact, Phases, Known
  <1>5. CASE Prepare
    BY <1>5 DEF Prepare, Phases
  <1>6. ASSUME NEW k \in Mappings, Statement(k) PROVE TypeOK'
    BY <1>6, StatementType
  <1>7. ASSUME NEW k \in Mappings, ScanStep(k) PROVE TypeOK'
    BY <1>7, ScanType
  <1>8. CASE PreCommitEnd
    BY <1>8 DEF PreCommitEnd, Phases
  <1>9. CASE CommitLocal
    BY <1>9 DEF CommitLocal, Phases
  <1>10. CASE AbortEnd
    BY <1>10 DEF AbortEnd, Phases
  <1>11. ASSUME NEW o \in Objects, Alter(o) PROVE TypeOK'
    BY <1>11 DEF Alter
  <1>12. CASE AcceptInval
    <2>1. conn' \in [Mappings -> Entry]
      BY <1>12, InvalOps DEF AcceptInval
    <2> QED BY <1>12, <2>1 DEF AcceptInval
  <1>13. CASE InvalReset
    <2>1. conn' \in [Mappings -> Entry]
      BY <1>13 DEF InvalReset, Entry
    <2> QED BY <1>13, <2>1 DEF InvalReset
  <1>14. CASE UNCHANGED vars
    BY <1>14 DEF vars
  <1>15. CASE StartFails
    BY <1>15 DEF StartFails, Phases
  <1> QED BY <1>1, <1>2, <1>3, <1>4, <1>5, <1>6, <1>7, <1>8, <1>9, <1>10,
             <1>11, <1>12, <1>13, <1>14, <1>15 DEF Next, Finish

(* Every variable keeps its type, whatever fails.                          *)
THEOREM TypeCorrect == Spec => []TypeOK
  <1>1. Init => TypeOK
    BY InitType
  <1>2. TypeOK /\ [Next]_vars => TypeOK'
    BY NextType
  <1> QED BY <1>1, <1>2, PTL DEF Spec

-----------------------------------------------------------------------------
(* What holds whatever is used and whatever fails, PREPARE included: the   *)
(* callback can find every session; a statement on its entry's session and *)
(* a row that the session would publish are in a remote transaction that   *)
(* it can find; and the row is of the current transaction or of a prepared *)
(* one.  Statements of earlier sessions and rows left in sessions that the *)
(* backend has forgotten are not among these.                              *)

Executing == phase \in {"active", "begin", "error"}

Reach ==
    /\ \A k \in Mappings : conn[k].connected => conn[k].known
    /\ \A k \in Mappings : pend[k] # {} => InXact(conn[k])
    /\ OpenIsLive
    /\ LoopInv
    /\ ~Executing => open = {} /\ stale = {}
    /\ open # {} => xact_got_connection
    /\ phase = "pre_committed" => ~xact_got_connection
    /\ phase # "idle" /\ ~xact_got_connection =>
         \A k \in Mappings : cur \notin pend[k]

Ages ==
    /\ cur <= MaxXact /\ (phase # "idle" => cur \in Xacts)
    /\ \A k \in Mappings : \A x \in pend[k] :
         /\ x \in 1 .. cur
         /\ (x = cur /\ phase # "idle") \/ outcome[x] = "prepared"

LEMMA InitReach == Init => Reach /\ Ages
  BY BoundsAssumption
     DEF Init, Reach, Ages, OpenIsLive, LoopInv, InXact, Xacts, Executing

(* The ways a statement can go, as far as Reach can tell.                  *)
Gets(k) ==
    /\ phase' = "active" /\ xact_got_connection' /\ open' = open \union {k}
    /\ conn'[k].connected /\ conn'[k].begin_remote_xact
    /\ conn'[k].known \/ (conn[k].connected /\ conn'[k].known = conn[k].known)
    /\ pend' = pend \/ pend' = [pend EXCEPT ![k] = {}]

Loses(k) ==
    /\ phase' = "error" /\ open' = open \ {k}
    /\ xact_got_connection' \/ xact_got_connection' = xact_got_connection
    /\ ~conn'[k].connected
    /\ pend' = [pend EXCEPT ![k] = {}]

Writes(k) ==
    /\ phase' = "active" /\ open' = open /\ k \in open
    /\ xact_got_connection' = xact_got_connection
    /\ conn' = conn
    /\ pend' = [pend EXCEPT ![k] = pend[k] \union {cur}]

Goes ==
    /\ phase' \in {"active", "begin"} /\ open' \subseteq open
    /\ xact_got_connection' = xact_got_connection
    /\ conn' = conn
    /\ pend' = pend

LEMMA StatementEffect ==
    ASSUME TypeOK, NEW k \in Mappings, Statement(k)
    PROVE  /\ phase \in {"active", "begin"}
           /\ UNCHANGED <<todo, cur, isolation, outcome, durable, catalog>>
           /\ \A j \in Mappings \ {k} :
                /\ conn'[j].known = conn[j].known
                /\ conn'[j].connected = conn[j].connected
                /\ conn'[j].begin_remote_xact = conn[j].begin_remote_xact
                /\ conn'[j].keep_connections = conn[j].keep_connections
           /\ Gets(k) \/ Loses(k) \/ Writes(k) \/ Goes
  <1> USE DEF xactVars, catVars, cacheVars, stmtVars, remoteVars, rowVars, Beginning
  <1>1. CASE GetReuse(k)
    <2>1. \A j \in Mappings \ {k} : conn'[j] = conn[j]
      BY <1>1 DEF GetReuse, TypeOK
    <2>2. /\ conn'[k].connected /\ conn'[k].begin_remote_xact
          /\ conn'[k].known = conn[k].known
      BY <1>1 DEF GetReuse, TypeOK, begin_remote_xact, Entry
    <2> QED BY <1>1, <2>1, <2>2 DEF GetReuse, UseCache, Gets
  <1>2. CASE Reconnect(k)
    <2>1. PICK u \in user, keep \in BOOLEAN, fresh \in {seen, catalog} :
            /\ conn' = [j \in Mappings |->
                       IF j = k THEN Connected(keep)
                       ELSE InvalCallback(conn[j], j, fresh)]
            /\ phase = "begin"
      BY <1>2 DEF Reconnect
    <2>2. \A j \in Mappings \ {k} :
            /\ conn'[j].known = conn[j].known
            /\ conn'[j].connected = conn[j].connected
            /\ conn'[j].begin_remote_xact = conn[j].begin_remote_xact
            /\ conn'[j].keep_connections = conn[j].keep_connections
      BY <2>1, InvalOps DEF TypeOK
    <2>3. conn'[k].connected /\ conn'[k].begin_remote_xact /\ conn'[k].known
      BY <2>1, NewEntryOps DEF InXact
    <2>4. pend' = [pend EXCEPT ![k] = {}] /\ durable' = durable
      BY <1>2 DEF Reconnect, DropSession, Abandon
    <2> QED BY <1>2, <2>1, <2>2, <2>3, <2>4 DEF Reconnect, UseCache, Gets
  <1>3. CASE GetFails(k) \/ GetCancelled(k) \/ CallFails(k)
    <2>1. \A j \in Mappings \ {k} : conn'[j] = conn[j]
      BY <1>3 DEF GetFails, GetCancelled, CallFails, TypeOK
    <2>2. ~conn'[k].connected
      <3>1. CASE GetFails(k)
        BY <3>1, NewEntryOps DEF GetFails, TypeOK
      <3>2. CASE GetCancelled(k)
        BY <3>2, EntryOps DEF GetCancelled, TypeOK
      <3>3. CASE CallFails(k)
        BY <3>3, EntryOps DEF CallFails, TypeOK
      <3> QED BY <1>3, <3>1, <3>2, <3>3
    <2>3. pend' = [pend EXCEPT ![k] = {}] /\ durable' = durable
      BY <1>3 DEF GetFails, GetCancelled, CallFails, DropSession, Abandon
    <2> QED BY <1>3, <2>1, <2>2, <2>3
            DEF GetFails, GetCancelled, CallFails, UseFails, DropStatements, Loses
  <1>4. CASE WriteRow(k)
    BY <1>4 DEF WriteRow, Writes
  <1>5. CASE GetUserMapping(k) \/ WriteStale(k) \/ EndStatement(k)
    BY <1>5 DEF GetUserMapping, WriteStale, EndStatement, Goes
  <1> QED BY <1>1, <1>2, <1>3, <1>4, <1>5 DEF Statement

LEMMA StatementReach ==
    ASSUME TypeOK, Reach, Ages, NEW k \in Mappings, Statement(k)
    PROVE  Reach' /\ Ages'
  <1> USE DEF OpenIsLive, InXact, Executing
  <1>1. /\ phase \in {"active", "begin"}
        /\ UNCHANGED <<todo, cur, outcome>>
        /\ \A j \in Mappings \ {k} :
             /\ conn'[j].known = conn[j].known
             /\ conn'[j].connected = conn[j].connected
             /\ conn'[j].begin_remote_xact = conn[j].begin_remote_xact
        /\ Gets(k) \/ Loses(k) \/ Writes(k) \/ Goes
    BY StatementEffect
  <1>2. CASE Gets(k)
    BY <1>1, <1>2 DEF Gets, Reach, Ages, LoopInv, TypeOK
  <1>3. CASE Loses(k)
    BY <1>1, <1>3 DEF Loses, Reach, Ages, LoopInv, TypeOK
  <1>4. CASE Writes(k)
    <2>1. Reach'
      BY <1>1, <1>4 DEF Writes, Reach, LoopInv, TypeOK
    <2>2. Ages'
      BY <1>1, <1>4 DEF Writes, Ages, Xacts, TypeOK
    <2> QED BY <2>1, <2>2
  <1>5. CASE Goes
    BY <1>1, <1>5 DEF Goes, Reach, Ages, LoopInv, TypeOK
  <1> QED BY <1>1, <1>2, <1>3, <1>4, <1>5

(* Every step of the callback's scan takes the entry it visits out of its  *)
(* remote transaction, and restarts the scan when it fails.                *)
LEMMA ScanEffect ==
    ASSUME TypeOK, NEW k \in Mappings, ScanStep(k), ~SkipEntry(k)
    PROVE  /\ phase \in {"pre_commit", "aborting"}
           /\ phase' \in {"pre_commit", "aborting"}
           /\ \A j \in Mappings \ {k} : conn'[j] = conn[j]
           /\ ~InXact(conn'[k])
           /\ conn'[k].known = conn[k].known
           /\ conn[k].connected
           /\ conn'[k].connected => conn'[k].keep_connections
           /\ todo' = todo \ {k} \/ todo' = Known
           /\ pend' = [pend EXCEPT ![k] = {}]
           /\ UNCHANGED <<xact_got_connection, open, stale, cur, isolation,
                          session>>
  <1> USE DEF TypeOK, xactVars, catVars, cacheVars, stmtVars, remoteVars, rowVars, InXact
  <1>1. CASE CommitEntry(k)
    BY <1>1, EntryOps DEF CommitEntry, Committing, Publish, EndsIn
  <1>2. CASE CommitThenCloseFails(k)
    <2>1. TbSQLEndTran(conn[k]).known = conn[k].known
      BY DEF TbSQLEndTran, Entry
    <2> QED BY <1>2, <2>1, EntryOps
            DEF CommitThenCloseFails, Committing, Publish, Interrupted, EndsIn
  <1>3. CASE CommitFails(k)
    BY <1>3, EntryOps DEF CommitFails, Committing, Publish, DropSession, Abandon,
                          Interrupted, EndsIn
  <1>4. CASE RollbackEntry(k)
    BY <1>4, EntryOps DEF RollbackEntry, RollingBack, Discard, EndsIn
  <1>5. CASE RollbackFails(k)
    BY <1>5, EntryOps DEF RollbackFails, RollingBack, Discard, Abandon,
                          Interrupted, EndsIn
  <1>6. CASE TroubleEntry(k)
    BY <1>6 DEF TroubleEntry, RollingBack, Abandon, Entry, EndsIn
  <1> QED BY <1>1, <1>2, <1>3, <1>4, <1>5, <1>6 DEF ScanStep

LEMMA ScanReach ==
    ASSUME TypeOK, Reach, Ages, NEW k \in Mappings, ScanStep(k)
    PROVE  Reach' /\ Ages'
  <1> USE DEF OpenIsLive, InXact, Executing
  <1>1. CASE SkipEntry(k)
    BY <1>1 DEF SkipEntry, EndsIn, Reach, Ages, LoopInv, TypeOK, cacheVars,
                stmtVars, remoteVars, rowVars
  <1>2. CASE ~SkipEntry(k)
    <2>1. /\ phase \in {"pre_commit", "aborting"}
          /\ phase' \in {"pre_commit", "aborting"}
          /\ \A j \in Mappings \ {k} : conn'[j] = conn[j]
          /\ ~InXact(conn'[k])
          /\ conn'[k].known = conn[k].known
          /\ conn[k].connected
          /\ todo' = todo \ {k} \/ todo' = Known
          /\ pend' = [pend EXCEPT ![k] = {}]
          /\ UNCHANGED <<xact_got_connection, open, stale, cur>>
      BY <1>2, ScanEffect
    <2>2. outcome' = outcome
      BY <1>2 DEF ScanStep, CommitEntry, CommitThenCloseFails, CommitFails,
                  RollbackEntry, RollbackFails, TroubleEntry, Interrupted
    <2>3. LoopInv'
      BY <2>1 DEF Known, Reach, LoopInv
    <2>4. Reach'
      BY <2>1, <2>3 DEF Reach, TypeOK
    <2>5. Ages'
      BY <2>1, <2>2 DEF Ages, TypeOK
    <2> QED BY <2>4, <2>5
  <1> QED BY <1>1, <1>2

LEMMA NextReach ==
    ASSUME TypeOK, Reach, Ages, [Next]_vars
    PROVE  Reach' /\ Ages'
  <1> USE DEF xactVars, catVars, cacheVars, stmtVars, remoteVars, rowVars
  <1> USE DEF Reach, Ages, LoopInv, OpenIsLive, InXact, Executing
  <1>0. /\ cur \in Nat /\ outcome \in [Xacts -> {"none", "committed", "aborted", "prepared"}]
        /\ MaxXact \in Nat /\ pend \in [Mappings -> SUBSET Nat]
    BY BoundsAssumption DEF TypeOK
  <1>1. CASE BeginXact
    BY <1>0, <1>1 DEF BeginXact, Xacts
  <1>2. CASE Trap
    BY <1>2 DEF Trap
  <1>3. CASE PreCommitBegin
    BY <1>3 DEF PreCommitBegin, Known, StatementsEnded
  <1>4. CASE AbortXact
    BY <1>0, <1>4 DEF AbortXact, Known, Xacts
  <1>5. CASE Prepare
    BY <1>0, <1>5 DEF Prepare, Xacts, StatementsEnded
  <1>6. ASSUME NEW k \in Mappings, Statement(k) PROVE Reach' /\ Ages'
    BY <1>6, StatementReach
  <1>7. ASSUME NEW k \in Mappings, ScanStep(k) PROVE Reach' /\ Ages'
    BY <1>7, ScanReach
  <1>8. CASE PreCommitEnd
    BY <1>8 DEF PreCommitEnd
  <1>9. CASE CommitLocal
    BY <1>0, <1>9 DEF CommitLocal, Xacts
  <1>10. CASE AbortEnd
    BY <1>0, <1>10 DEF AbortEnd, Xacts
  <1>11. ASSUME NEW o \in Objects, Alter(o) PROVE Reach' /\ Ages'
    BY <1>11 DEF Alter
  <1>12. CASE AcceptInval \/ InvalReset
    <2>1. \A j \in Mappings :
            /\ conn'[j].known = conn[j].known
            /\ conn'[j].connected = conn[j].connected
            /\ conn'[j].begin_remote_xact = conn[j].begin_remote_xact
      <3>1. CASE AcceptInval
        BY <3>1, InvalOps DEF AcceptInval, TypeOK
      <3>2. CASE InvalReset
        BY <3>2 DEF InvalReset, TypeOK, Entry
      <3> QED BY <1>12, <3>1, <3>2
    <2>2. UNCHANGED <<pend, open, stale, phase, todo, cur, outcome,
                      xact_got_connection>>
      BY <1>12 DEF AcceptInval, InvalReset
    <2> QED BY <2>1, <2>2 DEF TypeOK
  <1>13. CASE UNCHANGED vars
    BY <1>13 DEF vars
  <1>14. CASE StartFails
    BY <1>14 DEF StartFails
  <1> QED BY <1>1, <1>2, <1>3, <1>4, <1>5, <1>6, <1>7, <1>8, <1>9, <1>10,
             <1>11, <1>12, <1>13, <1>14 DEF Next, Finish

(* Reach and Ages hold throughout.                                         *)
THEOREM Reached == Spec => [](TypeOK /\ Reach /\ Ages)
  <1>1. Init => TypeOK /\ Reach /\ Ages
    BY InitType, InitReach
  <1>2. TypeOK /\ Reach /\ Ages /\ [Next]_vars => (TypeOK /\ Reach /\ Ages)'
    BY NextType, NextReach
  <1> QED BY <1>1, <1>2, PTL DEF Spec

(* The entries that the callback has visited are out of their remote       *)
(* transactions, also when an error makes it start again.                  *)
THEOREM VisitedAreOut == Spec => []LoopInv
  <1>1. Reach => LoopInv
    BY DEF Reach
  <1> QED BY <1>1, Reached, PTL

(* A statement on the session that its entry has now is in a remote        *)
(* transaction of this local transaction.  Of statements left over from an *)
(* earlier session of the entry it says nothing.                           *)
THEOREM OpenScansLive == Spec => []OpenIsLive
  <1>1. Reach => OpenIsLive
    BY DEF Reach
  <1> QED BY <1>1, Reached, PTL

(* Rows that a commit of an entry's session would publish are of the       *)
(* current transaction or of a prepared one, and in the session's remote   *)
(* transaction: PREPARE alone lets a transaction come upon rows of another *)
(* one.                                                                    *)
PendingOrPrepared ==
    \A k \in Mappings : \A x \in pend[k] :
      InXact(conn[k]) /\ (x = cur \/ outcome[x] = "prepared")

THEOREM OnlyPreparedInherited == Spec => []PendingOrPrepared
  <1>1. Reach /\ Ages => PendingOrPrepared
    BY DEF Reach, Ages, PendingOrPrepared
  <1> QED BY <1>1, Reached, PTL

-----------------------------------------------------------------------------
(* The end of a transaction, once begun, gets somewhere with each of its   *)
(* steps: fewer entries are in a remote transaction, or the transaction    *)
(* manager has gone on, or fewer entries are left to visit.  These three,  *)
(* in this order, cannot go down for ever, however many calls fail.        *)

Busy == {k \in Mappings : InXact(conn[k])}
Rank == CASE phase = "pre_commit"    -> 3
          [] phase = "pre_committed" -> 2
          [] phase = "aborting"      -> 1
          [] OTHER                   -> 0

Less(A, B) == A \subseteq B /\ A # B
Nearer ==
    \/ Less(Busy', Busy)
    \/ Busy' = Busy /\ Rank' < Rank
    \/ Busy' = Busy /\ Rank' = Rank /\ Less(todo', todo)

LEMMA RankOf ==
    /\ phase = "pre_commit" => Rank = 3
    /\ phase = "pre_committed" => Rank = 2
    /\ phase = "aborting" => Rank = 1
    /\ phase \in {"idle", "active", "begin", "error"} => Rank = 0
  BY DEF Rank

LEMMA NextRankOf ==
    /\ phase' = "pre_committed" => Rank' = 2
    /\ phase' = "idle" => Rank' = 0
  BY DEF Rank

LEMMA ScanNearer ==
    ASSUME TypeOK, NEW k \in Mappings, ScanStep(k)
    PROVE  Nearer
  <1>1. CASE SkipEntry(k)
    <2>1. conn' = conn /\ phase' = phase /\ todo' = todo \ {k} /\ k \in todo
      BY <1>1 DEF SkipEntry, cacheVars
    <2>2. Busy' = Busy /\ Rank' = Rank
      BY <2>1 DEF Busy, Rank
    <2> QED BY <2>1, <2>2 DEF Nearer, Less
  <1>2. CASE ~SkipEntry(k)
    <2>1. /\ \A j \in Mappings \ {k} : conn'[j] = conn[j]
          /\ ~InXact(conn'[k])
      BY <1>2, ScanEffect
    <2>2. InXact(conn[k])
      BY <1>2 DEF ScanStep, CommitEntry, CommitThenCloseFails, CommitFails,
                  RollbackEntry, RollbackFails, TroubleEntry, Committing,
                  RollingBack, EndsIn, InXact
    <2>3. Busy' \subseteq Busy /\ k \in Busy /\ k \notin Busy'
      BY <2>1, <2>2 DEF Busy
    <2> QED BY <2>3 DEF Nearer, Less
  <1> QED BY <1>1, <1>2

LEMMA FinishNearer ==
    ASSUME TypeOK, Finish
    PROVE  Nearer
  <1>1. ASSUME NEW k \in Mappings, ScanStep(k) PROVE Nearer
    BY <1>1, ScanNearer
  <1>2. CASE PreCommitEnd \/ CommitLocal \/ AbortEnd
    <2>1. Busy' = Busy
      BY <1>2 DEF PreCommitEnd, CommitLocal, AbortEnd, Busy, cacheVars
    <2>2. Rank' < Rank
      <3>1. CASE PreCommitEnd
        BY <3>1, RankOf, NextRankOf DEF PreCommitEnd
      <3>2. CASE CommitLocal
        BY <3>2, RankOf, NextRankOf DEF CommitLocal
      <3>3. CASE AbortEnd
        BY <3>3, RankOf, NextRankOf DEF AbortEnd
      <3> QED BY <1>2, <3>1, <3>2, <3>3
    <2> QED BY <2>1, <2>2 DEF Nearer
  <1> QED BY <1>1, <1>2 DEF Finish

(* Nothing that happens meanwhile takes the end back.                      *)
LEMMA OthersNearer ==
    ASSUME TypeOK, Reach, [Next]_vars, ~Finish, Rank > 0
    PROVE  Nearer \/ UNCHANGED <<Busy, Rank, todo>>
  <1> USE DEF xactVars, catVars, cacheVars, stmtVars, remoteVars, rowVars
  <1>1. phase \in {"pre_commit", "pre_committed", "aborting"}
    BY RankOf DEF TypeOK, Phases
  <1>2. CASE AbortXact
    <2>1. phase = "pre_committed" /\ phase' = "idle" /\ conn' = conn
      BY <1>1, <1>2 DEF AbortXact, Reach
    <2>2. Busy' = Busy
      BY <2>1 DEF Busy
    <2> QED BY <2>1, <2>2, RankOf, NextRankOf DEF Nearer
  <1>3. CASE (\E o \in Objects : Alter(o)) \/ UNCHANGED vars
    <2>1. UNCHANGED <<conn, phase, todo>>
      BY <1>3 DEF Alter, vars
    <2> QED BY <2>1 DEF Busy, Rank
  <1>4. ~(\E k \in Mappings : Statement(k))
    BY <1>1, StatementEffect
  <1>5. ~(BeginXact \/ StartFails \/ Trap \/ PreCommitBegin \/ Prepare
          \/ AcceptInval \/ InvalReset)
    BY <1>1 DEF BeginXact, StartFails, Trap, PreCommitBegin, Prepare,
                AcceptInval, InvalReset
  <1> QED BY <1>2, <1>3, <1>4, <1>5 DEF Next

(* Every step of the end of a transaction brings it nearer, and no other   *)
(* step while it lasts takes it further away: the callback's scans, that   *)
(* each failure of the driver restarts, cannot go on for ever.             *)
THEOREM EndGetsNearer ==
    Spec => [][/\ Finish => Nearer
               /\ Rank > 0 => Nearer \/ UNCHANGED <<Busy, Rank, todo>>]_vars
  <1>1. TypeOK /\ Reach /\ [Next]_vars =>
          [/\ Finish => Nearer
           /\ Rank > 0 => Nearer \/ UNCHANGED <<Busy, Rank, todo>>]_vars
    BY FinishNearer, OthersNearer
  <1> QED BY <1>1, Reached, PTL DEF Spec

-----------------------------------------------------------------------------
(* The inductive invariant.  Quiescent, PendingIsCurrent and               *)
(* RemoteIsolation are not inductive by themselves: that nothing is left   *)
(* in a remote transaction when a transaction ends depends on what the     *)
(* scan has already visited (LoopInv), on the early return being right     *)
(* (GotInv), and on every live session being one the scan can find.        *)

Flags ==
    /\ phase \in {"idle", "pre_committed"} => ~xact_got_connection
    /\ ~Executing => open = {}
    /\ \A k \in Mappings : conn[k].connected =>
         /\ conn[k].known
         /\ conn[k].begin_remote_xact \/ conn[k].keep_connections

IInv ==
    /\ Flags
    /\ GotInv
    /\ LoopInv
    /\ PendingIsCurrent
    /\ OpenIsLive
    /\ RemoteIsolation

LEMMA InitInv == Init => IInv
  BY DEF Init, IInv, Flags, GotInv, LoopInv, PendingIsCurrent, OpenIsLive,
         RemoteIsolation, InXact, Executing

(* A statement changes the entry of k only in ways that keep the invariant *)
(* and leaves the participation of the other entries alone.                *)
LEMMA StatementInv ==
    ASSUME TypeOK, IInv, NEW k \in Mappings, Statement(k)
    PROVE  IInv'
  <1> USE DEF xactVars, catVars, cacheVars, stmtVars, remoteVars, rowVars
  <1> USE DEF IInv, Flags, GotInv, LoopInv, PendingIsCurrent, OpenIsLive,
              RemoteIsolation, InXact, Executing
  <1>1. CASE GetReuse(k)
    <2>1. /\ phase' = "active" /\ xact_got_connection' /\ open' = open \union {k}
          /\ cur' = cur /\ isolation' = isolation /\ pend' = pend
      BY <1>1 DEF GetReuse, UseCache
    <2>2. \A j \in Mappings \ {k} : conn'[j] = conn[j] /\ session'[j] = session[j]
      BY <1>1 DEF GetReuse, SessionLevel, TypeOK
    <2>3. /\ conn'[k].connected /\ conn'[k].begin_remote_xact
          /\ conn'[k].known = conn[k].known
      BY <1>1 DEF GetReuse, TypeOK, begin_remote_xact, Entry
    <2>4. session'[k].serializable = isolation
      BY <1>1 DEF GetReuse, SessionLevel, TypeOK, Session
    <2>5. conn[k].connected
      BY <1>1 DEF GetReuse
    <2> QED BY <2>1, <2>2, <2>3, <2>4, <2>5 DEF TypeOK
  <1>2. CASE Reconnect(k)
    <2>1. PICK u \in user, keep \in BOOLEAN, fresh \in {seen, catalog} :
            /\ conn' = [j \in Mappings |->
                          IF j = k THEN Connected(keep)
                          ELSE InvalCallback(conn[j], j, fresh)]
            /\ session' = [session EXCEPT ![k] =
                             [serializable |-> isolation,
                              server |-> fresh[ServerOf[k]],
                              mapping |-> u.mapping]]
      BY <1>2 DEF Reconnect
    <2>2. /\ phase' = "active" /\ xact_got_connection' /\ open' = open \union {k}
          /\ cur' = cur /\ isolation' = isolation
          /\ pend' = [pend EXCEPT ![k] = {}]
      BY <1>2 DEF Reconnect, UseCache, DropSession, Abandon
    <2>3. \A j \in Mappings \ {k} :
            /\ conn'[j].known = conn[j].known
            /\ conn'[j].connected = conn[j].connected
            /\ conn'[j].begin_remote_xact = conn[j].begin_remote_xact
            /\ conn'[j].keep_connections = conn[j].keep_connections
            /\ session'[j] = session[j]
      BY <2>1, InvalOps DEF TypeOK
    <2>4. /\ conn'[k].connected /\ conn'[k].begin_remote_xact /\ conn'[k].known
          /\ session'[k].serializable = isolation
      BY <2>1, NewEntryOps DEF TypeOK
    <2> QED BY <2>2, <2>3, <2>4 DEF TypeOK
  <1>3. CASE GetFails(k)
    <2>1. /\ phase' = "error" /\ xact_got_connection' /\ open' = open \ {k}
          /\ cur' = cur /\ isolation' = isolation /\ session' = session
          /\ pend' = [pend EXCEPT ![k] = {}]
      BY <1>3 DEF GetFails, UseFails, DropStatements, DropSession, Abandon
    <2>2. \A j \in Mappings \ {k} : conn'[j] = conn[j]
      BY <1>3 DEF GetFails, TypeOK
    <2>3. ~conn'[k].connected
      BY <1>3, NewEntryOps DEF GetFails, TypeOK
    <2> QED BY <2>1, <2>2, <2>3 DEF TypeOK
  <1>4. CASE GetCancelled(k)
    <2>1. /\ phase' = "error" /\ xact_got_connection' /\ open' = open \ {k}
          /\ cur' = cur /\ isolation' = isolation /\ session' = session
          /\ pend' = [pend EXCEPT ![k] = {}]
      BY <1>4 DEF GetCancelled, UseFails, DropStatements, DropSession, Abandon
    <2>2. \A j \in Mappings \ {k} : conn'[j] = conn[j]
      BY <1>4 DEF GetCancelled, TypeOK
    <2>3. ~conn'[k].connected
      BY <1>4, EntryOps DEF GetCancelled, TypeOK
    <2> QED BY <2>1, <2>2, <2>3 DEF TypeOK
  <1>5. CASE WriteRow(k)
    <2>1. /\ pend' = [pend EXCEPT ![k] = @ \union {cur}] /\ k \in open
          /\ conn' = conn /\ xact_got_connection' = xact_got_connection
          /\ open' = open /\ phase' = phase /\ todo' = todo /\ cur' = cur
          /\ isolation' = isolation /\ session' = session
      BY <1>5 DEF WriteRow
    <2> QED BY <2>1 DEF TypeOK
  <1>6. CASE CallFails(k)
    <2>1. /\ phase' = "error" /\ open' = open \ {k}
          /\ xact_got_connection' = xact_got_connection
          /\ cur' = cur /\ isolation' = isolation /\ session' = session
          /\ pend' = [pend EXCEPT ![k] = {}]
      BY <1>6 DEF CallFails, DropStatements, DropSession, Abandon
    <2>2. \A j \in Mappings \ {k} : conn'[j] = conn[j]
      BY <1>6 DEF CallFails, TypeOK
    <2>3. ~conn'[k].connected
      BY <1>6, EntryOps DEF CallFails, TypeOK
    <2> QED BY <2>1, <2>2, <2>3 DEF TypeOK
  <1>7. CASE GetUserMapping(k) \/ WriteStale(k) \/ EndStatement(k)
    <2>1. Goes /\ UNCHANGED <<todo, cur, isolation, session>>
      BY <1>7 DEF GetUserMapping, WriteStale, EndStatement, Goes
    <2>2. phase \in {"active", "begin"}
      BY StatementEffect
    <2> QED BY <2>1, <2>2 DEF Goes
  <1> QED BY <1>1, <1>2, <1>3, <1>4, <1>5, <1>6, <1>7 DEF Statement

LEMMA ScanInv ==
    ASSUME TypeOK, IInv, NEW k \in Mappings, ScanStep(k)
    PROVE  IInv'
  <1> USE DEF xactVars, catVars, cacheVars, stmtVars, remoteVars, rowVars
  <1> USE DEF IInv, Flags, GotInv, LoopInv, PendingIsCurrent, OpenIsLive,
              RemoteIsolation, InXact, Executing
  <1>1. CASE SkipEntry(k)
    BY <1>1 DEF SkipEntry, EndsIn, TypeOK
  <1>2. CASE ~SkipEntry(k)
    <2>1. /\ phase \in {"pre_commit", "aborting"}
          /\ phase' \in {"pre_commit", "aborting"}
          /\ \A j \in Mappings \ {k} : conn'[j] = conn[j]
          /\ ~InXact(conn'[k])
          /\ conn'[k].known = conn[k].known
          /\ conn[k].connected
          /\ conn'[k].connected => conn'[k].keep_connections
          /\ pend' = [pend EXCEPT ![k] = {}]
          /\ UNCHANGED <<xact_got_connection, open, cur, isolation, session>>
      BY <1>2, ScanEffect
    <2>2. todo' = todo \ {k} \/ todo' = Known
      BY <1>2, ScanEffect
    <2>3. \A j \in Mappings \ todo' : ~InXact(conn'[j])
      BY <2>1, <2>2 DEF Known
    <2>4. PendingIsCurrent' /\ OpenIsLive' /\ RemoteIsolation'
      BY <2>1 DEF TypeOK
    <2>5. Flags'
      BY <2>1
    <2>6. GotInv'
      BY <2>1
    <2>7. LoopInv'
      BY <2>3
    <2> QED BY <2>4, <2>5, <2>6, <2>7
  <1> QED BY <1>1, <1>2

LEMMA NextInv ==
    ASSUME AllowPrepare = FALSE, TypeOK, IInv, [Next]_vars
    PROVE  IInv'
  <1> USE DEF xactVars, catVars, cacheVars, stmtVars, remoteVars, rowVars
  <1> USE DEF IInv, Flags, GotInv, LoopInv, PendingIsCurrent, OpenIsLive,
              RemoteIsolation, InXact, Executing
  <1>1. CASE BeginXact
    BY <1>1 DEF BeginXact, TypeOK
  <1>2. CASE Trap
    BY <1>2 DEF Trap
  <1>3. CASE PreCommitBegin
    BY <1>3 DEF PreCommitBegin, Known, StatementsEnded
  <1>4. CASE AbortXact
    BY <1>4 DEF AbortXact, Known
  <1>5. CASE Prepare
    BY <1>5 DEF Prepare
  <1>6. ASSUME NEW k \in Mappings, Statement(k) PROVE IInv'
    BY <1>6, StatementInv
  <1>7. ASSUME NEW k \in Mappings, ScanStep(k) PROVE IInv'
    BY <1>7, ScanInv
  <1>8. CASE PreCommitEnd
    BY <1>8 DEF PreCommitEnd
  <1>9. CASE CommitLocal
    BY <1>9 DEF CommitLocal
  <1>10. CASE AbortEnd
    BY <1>10 DEF AbortEnd
  <1>11. ASSUME NEW o \in Objects, Alter(o) PROVE IInv'
    BY <1>11 DEF Alter
  <1>12. CASE AcceptInval
    <2>1. \A j \in Mappings :
            /\ conn'[j].known = conn[j].known
            /\ conn'[j].connected = conn[j].connected
            /\ conn'[j].begin_remote_xact = conn[j].begin_remote_xact
            /\ conn'[j].keep_connections = conn[j].keep_connections
      BY <1>12, InvalOps DEF AcceptInval, TypeOK
    <2> QED BY <1>12, <2>1 DEF AcceptInval, TypeOK
  <1>13. CASE InvalReset
    <2>1. \A j \in Mappings :
            /\ conn'[j].known = conn[j].known
            /\ conn'[j].connected = conn[j].connected
            /\ conn'[j].begin_remote_xact = conn[j].begin_remote_xact
            /\ conn'[j].keep_connections = conn[j].keep_connections
      BY <1>13 DEF InvalReset, TypeOK, Entry
    <2> QED BY <1>13, <2>1 DEF InvalReset, TypeOK
  <1>14. CASE UNCHANGED vars
    BY <1>14 DEF vars
  <1>15. CASE StartFails
    BY <1>15 DEF StartFails
  <1> QED BY <1>1, <1>2, <1>3, <1>4, <1>5, <1>6, <1>7, <1>8, <1>9, <1>10,
             <1>11, <1>12, <1>13, <1>14, <1>15 DEF Next, Finish

(* The invariant holds throughout, if transactions are not prepared.       *)
THEOREM InvariantHolds ==
    ASSUME AllowPrepare = FALSE
    PROVE  Spec => [](TypeOK /\ IInv)
  <1>1. Init => TypeOK /\ IInv
    BY InitType, InitInv
  <1>2. TypeOK /\ IInv /\ [Next]_vars => (TypeOK /\ IInv)'
    BY NextType, NextInv
  <1> QED BY <1>1, <1>2, PTL DEF Spec

(* No entry is left in a remote transaction between local transactions,    *)
(* whatever failed in the callback.                                        *)
THEOREM SessionsQuiescent ==
    ASSUME AllowPrepare = FALSE
    PROVE  Spec => []Quiescent
  <1>1. IInv => Quiescent
    BY DEF IInv, Flags, GotInv, Quiescent, InXact
  <1> QED BY <1>1, InvariantHolds, PTL

(* A session is left over by a transaction only where its server's options *)
(* allow to keep it, however the transaction ended.                        *)
THEOREM ClosedUnlessKept ==
    ASSUME AllowPrepare = FALSE
    PROVE  Spec => []NonKeepClosed
  <1>1. IInv => NonKeepClosed
    BY DEF IInv, Flags, GotInv, NonKeepClosed, InXact
  <1> QED BY <1>1, InvariantHolds, PTL

(* No remote transaction is out of the transaction callback's sight: the   *)
(* flag that sends it round the cache is set while one exists.             *)
THEOREM NoneOverlooked ==
    ASSUME AllowPrepare = FALSE
    PROVE  Spec => []GotInv
  <1>1. IInv => GotInv
    BY DEF IInv
  <1> QED BY <1>1, InvariantHolds, PTL

(* Rows that a commit of an entry's session would publish always belong to *)
(* the current transaction.                                                *)
THEOREM NoInheritedRows ==
    ASSUME AllowPrepare = FALSE
    PROVE  Spec => []PendingIsCurrent
  <1>1. IInv => PendingIsCurrent
    BY DEF IInv
  <1> QED BY <1>1, InvariantHolds, PTL

(* Every session works at the isolation level of the current transaction.  *)
THEOREM IsolationMatches ==
    ASSUME AllowPrepare = FALSE
    PROVE  Spec => []RemoteIsolation
  <1>1. IInv => RemoteIsolation
    BY DEF IInv
  <1> QED BY <1>1, InvariantHolds, PTL
-----------------------------------------------------------------------------
(* Refinement.                                                             *)

LEMMA InitRefines == Init => RC!Init
  BY DEF Init, RC!Init, Stage

(* A session that is dropped is a loss or an abandonment.                  *)
LEMMA DropRefines ==
    ASSUME NEW k \in Mappings, DropSession(k), cur' = cur, Stage # "idle",
           Stage' = RC!StageAfterLoss
    PROVE  RC!Lose(k) \/ RC!Abandon(k)
  BY DEF DropSession, Abandon, RC!Lose, RC!Abandon, MayAbandon

LEMMA StatementRefines ==
    ASSUME TypeOK, NEW k \in Mappings, Statement(k)
    PROVE  \/ RC!Write(k) \/ RC!WriteAside(k)
           \/ RC!Lose(k) \/ RC!Abandon(k)
           \/ UNCHANGED RC!rvars
  <1> USE DEF RC!rvars, xactVars, remoteVars, rowVars
  <1>1. /\ Stage = "open" /\ Stage' = "open" /\ cur' = cur
        /\ RC!StageAfterLoss = "open"
    <2>1. phase \in {"active", "begin"} /\ cur' = cur
      BY StatementEffect
    <2>2. phase' \in {"active", "begin", "error"}
      BY StatementEffect DEF Gets, Loses, Writes, Goes
    <2>3. Stage = "open" /\ Stage' = "open"
      BY <2>1, <2>2 DEF Stage
    <2> QED BY <2>1, <2>3 DEF RC!StageAfterLoss
  <1>2. CASE Reconnect(k) \/ GetFails(k) \/ GetCancelled(k) \/ CallFails(k)
    BY <1>1, <1>2, DropRefines DEF Reconnect, GetFails, GetCancelled, CallFails
  <1>3. CASE GetReuse(k) \/ GetUserMapping(k) \/ EndStatement(k)
    BY <1>1, <1>3 DEF GetReuse, GetUserMapping, EndStatement
  <1>4. CASE WriteRow(k)
    BY <1>1, <1>4 DEF WriteRow, RC!Write
  <1>5. CASE WriteStale(k)
    BY <1>1, <1>5 DEF WriteStale, RC!WriteAside, MayAbandon
  <1> QED BY <1>2, <1>3, <1>4, <1>5 DEF Statement

LEMMA ScanRefines ==
    ASSUME TypeOK, NEW k \in Mappings, ScanStep(k)
    PROVE  \/ RC!Publish(k) \/ RC!Lose(k) \/ RC!Abandon(k)
           \/ UNCHANGED RC!rvars
  <1> USE DEF Stage, RC!StageAfterLoss, RC!rvars, xactVars, remoteVars, rowVars
  <1>1. CASE SkipEntry(k)
    BY <1>1 DEF SkipEntry
  <1>2. CASE CommitEntry(k)
    BY <1>2 DEF CommitEntry, Committing, Publish, RC!Publish
  <1>3. CASE CommitThenCloseFails(k)
    BY <1>3 DEF CommitThenCloseFails, Committing, Publish, Interrupted, RC!Publish
  <1>4. CASE CommitFails(k)
    <2>1. Stage = "deciding" /\ Stage' = "undoing" /\ cur' = cur
      BY <1>4 DEF CommitFails, Committing, Interrupted
    <2>2. CASE DropSession(k)
      BY <2>1, <2>2, DropRefines
    <2>3. CASE Publish(k)
      BY <2>1, <2>3 DEF Publish, RC!Publish
    <2> QED BY <1>4, <2>2, <2>3 DEF CommitFails
  <1>5. CASE RollbackEntry(k)
    BY <1>5 DEF RollbackEntry, RollingBack, Discard, RC!Lose
  <1>6. CASE RollbackFails(k)
    <2>1. Stage = "undoing" /\ Stage' = "undoing" /\ cur' = cur
      BY <1>6 DEF RollbackFails, RollingBack, Interrupted
    <2>2. CASE Discard(k)
      BY <2>1, <2>2 DEF Discard, RC!Lose
    <2>3. CASE {"endtran", "disconnect"} \subseteq Faults /\ Abandon(k)
      BY <2>1, <2>3 DEF Abandon, RC!Abandon, MayAbandon
    <2> QED BY <1>6, <2>2, <2>3 DEF RollbackFails
  <1>7. CASE TroubleEntry(k)
    BY <1>7 DEF TroubleEntry, RollingBack, Abandon, RC!Abandon, MayAbandon
  <1> QED BY <1>1, <1>2, <1>3, <1>4, <1>5, <1>6, <1>7 DEF ScanStep

(* A transaction ends with nothing left that a commit could publish.       *)
LEMMA EndRefines ==
    ASSUME TypeOK, IInv, phase # "idle", phase' = "idle",
           ~xact_got_connection \/ (phase = "aborting" /\ todo = {}),
           UNCHANGED <<cur, pend, durable, abandoned>>
    PROVE  RC!End
  <1>1. \A k \in Mappings : pend[k] = {}
    BY DEF IInv, GotInv, LoopInv, PendingIsCurrent
  <1>2. Stage # "idle"
    BY DEF Stage, TypeOK, Phases
  <1> QED BY <1>1, <1>2 DEF RC!End, Stage

LEMMA NextRefines ==
    ASSUME AllowPrepare = FALSE, TypeOK, IInv, [Next]_vars
    PROVE  [RC!Next]_RC!rvars
  <1> USE DEF xactVars, remoteVars, rowVars
  <1>1. CASE BeginXact
    BY <1>1 DEF BeginXact, Stage, RC!Begin, RC!Next
  <1>2. CASE Trap
    BY <1>2 DEF Trap, Stage, RC!rvars
  <1>3. CASE PreCommitBegin
    BY <1>3 DEF PreCommitBegin, Stage, RC!Decide, RC!Next
  <1>4. CASE AbortXact
    <2>1. CASE xact_got_connection
      <3>1. phase \in {"active", "error"} /\ phase' = "aborting"
        BY <1>4, <2>1 DEF AbortXact, IInv, Flags
      <3>2. RC!Undo
        BY <1>4, <3>1 DEF AbortXact, RC!Undo, Stage
      <3> QED BY <3>2 DEF RC!Next
    <2>2. CASE ~xact_got_connection
      BY <1>4, <2>2, EndRefines DEF AbortXact, RC!Next
    <2> QED BY <2>1, <2>2
  <1>5. CASE Prepare
    BY <1>5 DEF Prepare
  <1>6. ASSUME NEW k \in Mappings, Statement(k) PROVE [RC!Next]_RC!rvars
    BY <1>6, StatementRefines DEF RC!Next
  <1>7. ASSUME NEW k \in Mappings, ScanStep(k) PROVE [RC!Next]_RC!rvars
    BY <1>7, ScanRefines DEF RC!Next
  <1>8. CASE PreCommitEnd
    BY <1>8 DEF PreCommitEnd, Stage, RC!rvars
  <1>9. CASE CommitLocal
    BY <1>9, EndRefines DEF CommitLocal, IInv, Flags, RC!Next
  <1>10. CASE AbortEnd
    BY <1>10, EndRefines DEF AbortEnd, RC!Next
  <1>11. ASSUME NEW o \in Objects, Alter(o) PROVE [RC!Next]_RC!rvars
    BY <1>11 DEF Alter, Stage, RC!rvars
  <1>12. CASE AcceptInval
    BY <1>12 DEF AcceptInval, Stage, RC!rvars
  <1>13. CASE InvalReset
    BY <1>13 DEF InvalReset, Stage, RC!rvars
  <1>14. CASE UNCHANGED vars
    BY <1>14 DEF vars, Stage, RC!rvars
  <1>15. CASE StartFails
    BY <1>15 DEF StartFails, Stage, RC!rvars
  <1> QED BY <1>1, <1>2, <1>3, <1>4, <1>5, <1>6, <1>7, <1>8, <1>9, <1>10,
             <1>11, <1>12, <1>13, <1>14, <1>15 DEF Next, Finish

(* The cache implements RemoteCommit: remote rows are published only by a  *)
(* transaction that has decided to commit, at its end none are left in a   *)
(* session that a later commit could publish, and rows abandoned in a      *)
(* forgotten session are never published.                                  *)
THEOREM Refinement ==
    ASSUME AllowPrepare = FALSE
    PROVE  Spec => ImplementsRemoteCommit
  <1>1. Init => RC!Init
    BY InitRefines
  <1>2. TypeOK /\ IInv /\ [Next]_vars => [RC!Next]_RC!rvars
    BY NextRefines
  <1> QED BY <1>1, <1>2, InvariantHolds, PTL DEF Spec, RC!Spec, ImplementsRemoteCommit
-----------------------------------------------------------------------------
(* The options a session was built with.                                   *)

(* A step that neither builds a session nor learns of a catalog change.    *)
Quiet ==
    /\ seen' = seen
    /\ \A k \in Mappings : Valid(k)' =>
         /\ Valid(k)
         /\ session'[k].server = session[k].server
         /\ session'[k].mapping = session[k].mapping

LEMMA ValidOps ==
    ASSUME NEW c \in Entry
    PROVE  /\ AfterEndTran(c).connected /\ ~AfterEndTran(c).invalidated
                => c.connected /\ ~c.invalidated
           /\ begin_remote_xact(c).connected = c.connected
           /\ begin_remote_xact(c).invalidated = c.invalidated
  BY DEF Entry, AfterEndTran, MustClose, disconnect_tb_server, TbSQLEndTran,
         begin_remote_xact

LEMMA ScanQuiet == ASSUME TypeOK, NEW k \in Mappings, ScanStep(k) PROVE Quiet
  <1> USE DEF TypeOK, Valid, Quiet, catVars, remoteVars, rowVars, cacheVars, stmtVars
  <1>1. CASE SkipEntry(k)
    BY <1>1 DEF SkipEntry
  <1>2. CASE CommitEntry(k) \/ RollbackEntry(k)
    BY <1>2, ValidOps DEF CommitEntry, RollbackEntry
  <1>3. CASE CommitThenCloseFails(k)
    BY <1>3, EntryOps DEF CommitThenCloseFails
  <1>4. CASE CommitFails(k) \/ RollbackFails(k)
    BY <1>4, EntryOps DEF CommitFails, RollbackFails
  <1>5. CASE TroubleEntry(k)
    BY <1>5 DEF TroubleEntry, Entry
  <1> QED BY <1>1, <1>2, <1>3, <1>4, <1>5 DEF ScanStep

LEMMA StatementQuiet ==
    ASSUME TypeOK, NEW k \in Mappings, Statement(k), ~Reconnect(k)
    PROVE  Quiet
  <1> USE DEF TypeOK, Valid, Quiet, catVars, remoteVars, rowVars, cacheVars, stmtVars
  <1>1. CASE GetReuse(k)
    <2>1. /\ conn' = [conn EXCEPT ![k] = begin_remote_xact(conn[k])]
          /\ session' = SessionLevel(k)
          /\ seen' = seen
          /\ Valid(k)
      BY <1>1 DEF GetReuse
    <2>2. \A j \in Mappings : /\ session'[j].server = session[j].server
                              /\ session'[j].mapping = session[j].mapping
      BY <2>1 DEF SessionLevel, Session
    <2> QED BY <2>1, <2>2
  <1>2. CASE GetFails(k)
    BY <1>2, NewEntryOps DEF GetFails
  <1>3. CASE GetCancelled(k)
    BY <1>3, EntryOps DEF GetCancelled
  <1>4. CASE WriteRow(k)
    BY <1>4 DEF WriteRow
  <1>5. CASE CallFails(k)
    BY <1>5, EntryOps DEF CallFails
  <1>6. CASE GetUserMapping(k) \/ WriteStale(k) \/ EndStatement(k)
    BY <1>6 DEF GetUserMapping, WriteStale, EndStatement
  <1> QED BY <1>1, <1>2, <1>3, <1>4, <1>5, <1>6 DEF Statement

(* What survives an invalidation unflagged was not concerned by it.        *)
LEMMA InvalValid ==
    ASSUME NEW c \in Entry, NEW k, NEW new,
           InvalCallback(c, k, new).connected,
           ~InvalCallback(c, k, new).invalidated
    PROVE  /\ c.connected /\ ~c.invalidated
           /\ new[ServerOf[k]] = seen[ServerOf[k]]
           /\ new[k] = seen[k]
  <1>1. CASE c.connected /\ (new[ServerOf[k]] # seen[ServerOf[k]] \/ new[k] # seen[k])
    BY <1>1 DEF Entry, InvalCallback
  <1>2. CASE ~(c.connected /\ (new[ServerOf[k]] # seen[ServerOf[k]] \/ new[k] # seen[k]))
    BY <1>2 DEF Entry, InvalCallback
  <1> QED BY <1>1, <1>2

(* What a step must do to keep both kinds of options fresh.                *)
OutdatedOnlyWhenReadTooEarly ==
    \A k \in Mappings : Outdated(k)' => Outdated(k) \/ ReadTooEarly(k)

LEMMA FreshReconnect ==
    ASSUME TypeOK, ServerOptionsFresh, NEW k \in Mappings, Reconnect(k)
    PROVE  ServerOptionsFresh' /\ OutdatedOnlyWhenReadTooEarly
  <1>1. PICK u \in user, keep \in BOOLEAN, fresh \in {seen, catalog} :
          /\ u.umid = k
          /\ conn' = [j \in Mappings |->
                        IF j = k THEN Connected(keep)
                        ELSE InvalCallback(conn[j], j, fresh)]
          /\ session' = [session EXCEPT ![k] =
                           [serializable |-> isolation,
                            server |-> fresh[ServerOf[k]],
                            mapping |-> u.mapping]]
          /\ seen' = fresh
    BY DEF Reconnect
  <1>2. session'[k].server = seen'[ServerOf[k]] /\ session'[k].mapping = u.mapping
    BY <1>1 DEF TypeOK
  <1>3. ASSUME NEW j \in Mappings \ {k}, Valid(j)'
        PROVE  /\ Valid(j)
               /\ seen'[ServerOf[j]] = seen[ServerOf[j]] /\ seen'[j] = seen[j]
               /\ session'[j] = session[j]
    <2>1. conn'[j] = InvalCallback(conn[j], j, fresh)
      BY <1>1
    <2>2. conn[j] \in Entry
      BY DEF TypeOK
    <2> QED BY <1>1, <1>3, <2>1, <2>2, InvalValid DEF TypeOK, Valid
  <1>4. u \in user \ user'
    BY <1>1 DEF Reconnect, UseCache
  <1>5. Outdated(k)' => ReadTooEarly(k)
    BY <1>1, <1>2, <1>4 DEF Outdated, ReadTooEarly
  <1>6. ServerOptionsFresh'
    BY <1>2, <1>3 DEF ServerOptionsFresh
  <1>7. \A j \in Mappings \ {k} : Outdated(j)' => Outdated(j)
    BY <1>3 DEF Outdated
  <1> QED BY <1>5, <1>6, <1>7 DEF OutdatedOnlyWhenReadTooEarly

LEMMA FreshNext ==
    ASSUME TypeOK, ServerOptionsFresh, [Next]_vars
    PROVE  ServerOptionsFresh' /\ OutdatedOnlyWhenReadTooEarly
  <1> USE DEF ServerOptionsFresh, OutdatedOnlyWhenReadTooEarly, Outdated, Valid
  <1>1. CASE \E k \in Mappings : Reconnect(k)
    BY <1>1, FreshReconnect
  <1>2. CASE Quiet
    BY <1>2 DEF Quiet
  <1>3. CASE AcceptInval
    <2>1. /\ seen' = catalog /\ session' = session
          /\ conn' = [k \in Mappings |-> InvalCallback(conn[k], k, catalog)]
      BY <1>3 DEF AcceptInval, remoteVars
    <2>2. ASSUME NEW j \in Mappings, conn'[j].connected, ~conn'[j].invalidated
          PROVE  /\ conn[j].connected /\ ~conn[j].invalidated
                 /\ seen'[ServerOf[j]] = seen[ServerOf[j]] /\ seen'[j] = seen[j]
      <3>1. conn'[j] = InvalCallback(conn[j], j, catalog) /\ conn[j] \in Entry
        BY <2>1 DEF TypeOK
      <3> QED BY <2>1, <2>2, <3>1, InvalValid
    <2> QED BY <2>1, <2>2
  <1>4. CASE InvalReset
    <2>1. \A j \in Mappings : ~(conn'[j].connected /\ ~conn'[j].invalidated)
      BY <1>4 DEF InvalReset, TypeOK, Entry
    <2> QED BY <2>1
  <1>5. CASE BeginXact \/ StartFails \/ Trap \/ PreCommitBegin \/ AbortXact
             \/ Prepare \/ PreCommitEnd \/ CommitLocal \/ AbortEnd
             \/ UNCHANGED vars \/ \E o \in Objects : Alter(o)
    <2>1. Quiet
      BY <1>5 DEF BeginXact, StartFails, Trap, PreCommitBegin, AbortXact, Prepare,
                  PreCommitEnd, CommitLocal, AbortEnd, Alter, Quiet, vars,
                  catVars, remoteVars, rowVars, cacheVars, stmtVars
    <2> QED BY <2>1, <1>2
  <1>6. ASSUME NEW k \in Mappings, Statement(k), ~Reconnect(k) PROVE Quiet
    BY <1>6, StatementQuiet
  <1>7. ASSUME NEW k \in Mappings, ScanStep(k) PROVE Quiet
    BY <1>7, ScanQuiet
  <1> QED BY <1>1, <1>2, <1>3, <1>4, <1>5, <1>6, <1>7 DEF Next, Finish

(* A session that passes for valid has the current server options, whether *)
(* or not invalidations arrive while another one is built.                 *)
THEOREM ServerFreshness == Spec => []ServerOptionsFresh
  <1>1. Init => ServerOptionsFresh
    BY DEF Init, ServerOptionsFresh, Valid
  <1>2. TypeOK /\ ServerOptionsFresh /\ [Next]_vars => ServerOptionsFresh'
    BY FreshNext
  <1> QED BY <1>1, <1>2, TypeCorrect, PTL DEF Spec

(* And those of the user mapping, unless the session was built from a      *)
(* UserMapping that was outdated when make_tb_connection was done with it: *)
(* the invalidation came after the caller had read it.                     *)
THEOREM MappingFreshness == Spec => MappingOptionsFresh
  <1>1. TypeOK /\ ServerOptionsFresh /\ [Next]_vars
          => [\A k \in Mappings :
                Outdated(k)' => Outdated(k) \/ ReadTooEarly(k)]_vars
    BY FreshNext DEF OutdatedOnlyWhenReadTooEarly
  <1> QED BY <1>1, TypeCorrect, ServerFreshness, PTL DEF Spec, MappingOptionsFresh

-----------------------------------------------------------------------------
(* As long as no option is altered no session gets stale: the invalidation *)
(* callback has nothing to mark.                                           *)

Steady ==
    /\ catalog = seen
    /\ \A k \in Mappings : conn[k].connected => ~conn[k].invalidated

LEMMA StatementSteady ==
    ASSUME TypeOK, Steady, NEW k \in Mappings, Statement(k)
    PROVE  Steady'
  <1> USE DEF xactVars, catVars, cacheVars, stmtVars, remoteVars, rowVars, Steady
  <1>1. CASE GetReuse(k)
    <2>1. conn'[k].invalidated = conn[k].invalidated /\ conn[k].connected
      BY <1>1 DEF GetReuse, TypeOK, begin_remote_xact, Entry
    <2>2. \A j \in Mappings \ {k} : conn'[j] = conn[j]
      BY <1>1 DEF GetReuse, TypeOK
    <2> QED BY <1>1, <2>1, <2>2 DEF GetReuse
  <1>2. CASE Reconnect(k)
    <2>1. PICK u \in user, keep \in BOOLEAN, fresh \in {seen, catalog} :
            /\ conn' = [j \in Mappings |->
                          IF j = k THEN Connected(keep)
                          ELSE InvalCallback(conn[j], j, fresh)]
            /\ seen' = fresh
      BY <1>2 DEF Reconnect
    <2>2. fresh = seen
      BY <2>1
    <2>3. \A j \in Mappings \ {k} : conn'[j] = conn[j]
      BY <2>1, <2>2 DEF InvalCallback
    <2>4. ~conn'[k].invalidated
      BY <2>1 DEF Connected, NewEntry, begin_remote_xact
    <2> QED BY <1>2, <2>1, <2>2, <2>3, <2>4 DEF Reconnect
  <1>3. CASE GetFails(k) \/ GetCancelled(k) \/ CallFails(k)
    <2>1. \A j \in Mappings \ {k} : conn'[j] = conn[j]
      BY <1>3 DEF GetFails, GetCancelled, CallFails, TypeOK
    <2>2. ~conn'[k].connected
      <3>1. CASE GetFails(k)
        BY <3>1, NewEntryOps DEF GetFails, TypeOK
      <3>2. CASE GetCancelled(k)
        BY <3>2, EntryOps DEF GetCancelled, TypeOK
      <3>3. CASE CallFails(k)
        BY <3>3, EntryOps DEF CallFails, TypeOK
      <3> QED BY <1>3, <3>1, <3>2, <3>3
    <2> QED BY <1>3, <2>1, <2>2 DEF GetFails, GetCancelled, CallFails
  <1>4. CASE WriteRow(k) \/ GetUserMapping(k) \/ WriteStale(k) \/ EndStatement(k)
    BY <1>4 DEF WriteRow, GetUserMapping, WriteStale, EndStatement
  <1> QED BY <1>1, <1>2, <1>3, <1>4 DEF Statement

LEMMA ScanSteady ==
    ASSUME TypeOK, Steady, NEW k \in Mappings, ScanStep(k)
    PROVE  Steady'
  <1> USE DEF xactVars, catVars, cacheVars, stmtVars, remoteVars, rowVars, Steady
  <1>1. catalog' = catalog /\ seen' = seen
    BY DEF ScanStep, SkipEntry, CommitEntry, CommitThenCloseFails, CommitFails,
           RollbackEntry, RollbackFails, TroubleEntry
  <1>2. CASE SkipEntry(k)
    BY <1>1, <1>2 DEF SkipEntry
  <1>3. CASE ~SkipEntry(k)
    <2>1. (\A j \in Mappings \ {k} : conn'[j] = conn[j]) /\ conn[k].connected
      BY <1>3, ScanEffect
    <2>2. conn[k] \in Entry
      BY DEF TypeOK
    <2>3. conn'[k].connected => conn'[k].invalidated = conn[k].invalidated
      <3>1. CASE CommitEntry(k) \/ RollbackEntry(k)
        <4>1. conn'[k] = AfterEndTran(conn[k])
          BY <3>1 DEF CommitEntry, RollbackEntry, TypeOK
        <4>2. AfterEndTran(conn[k]).invalidated = conn[k].invalidated
          BY <2>2 DEF AfterEndTran, disconnect_tb_server, TbSQLEndTran, Entry
        <4> QED BY <4>1, <4>2
      <3>2. CASE CommitThenCloseFails(k)
        BY <2>2, <3>2, EntryOps DEF CommitThenCloseFails, TypeOK
      <3>3. CASE CommitFails(k) \/ RollbackFails(k)
        BY <2>2, <3>3, EntryOps DEF CommitFails, RollbackFails, TypeOK
      <3>4. CASE TroubleEntry(k)
        BY <2>2, <3>4 DEF TroubleEntry, TypeOK, Entry
      <3> QED BY <1>3, <3>1, <3>2, <3>3, <3>4 DEF ScanStep
    <2> QED BY <1>1, <2>1, <2>3
  <1> QED BY <1>2, <1>3

LEMMA NextSteady ==
    ASSUME MaxVersion = 0, TypeOK, Steady, [Next]_vars
    PROVE  Steady'
  <1> USE DEF xactVars, catVars, cacheVars, stmtVars, remoteVars, rowVars, Steady
  <1>1. ASSUME NEW k \in Mappings, Statement(k) PROVE Steady'
    BY <1>1, StatementSteady
  <1>2. ASSUME NEW k \in Mappings, ScanStep(k) PROVE Steady'
    BY <1>2, ScanSteady
  <1>3. CASE BeginXact \/ StartFails \/ Trap \/ PreCommitBegin \/ AbortXact
             \/ Prepare
    BY <1>3 DEF BeginXact, StartFails, Trap, PreCommitBegin, AbortXact, Prepare
  <1>4. CASE PreCommitEnd \/ CommitLocal \/ AbortEnd
    BY <1>4 DEF PreCommitEnd, CommitLocal, AbortEnd
  <1>5. ASSUME NEW o \in Objects, Alter(o) PROVE Steady'
    BY <1>5 DEF Alter, TypeOK
  <1>6. CASE AcceptInval \/ InvalReset
    BY <1>6 DEF AcceptInval, InvalReset
  <1>7. CASE UNCHANGED vars
    BY <1>7 DEF vars
  <1> QED BY <1>1, <1>2, <1>3, <1>4, <1>5, <1>6, <1>7 DEF Next, Finish

(* When no session gets stale and none fails while it is being set up, a   *)
(* statement loses rows only by failing, and none is left from an earlier  *)
(* session as long as no error is trapped.                                 *)
NoneStale == phase \in {"active", "begin"} => stale = {}

Keeps(k) ==
    /\ phase' \in {"active", "begin"} /\ lost' = lost /\ abandoned' = abandoned
    /\ pend' = pend \/ pend' = [pend EXCEPT ![k] = pend[k] \union {cur}]
    /\ stale' = {}

Drops(k) ==
    /\ phase' = "error"
    /\ pend' = [pend EXCEPT ![k] = {}]
    /\ \/ /\ lost' = [lost EXCEPT ![k] = lost[k] \union pend[k]]
          /\ abandoned' = abandoned
       \/ /\ "disconnect" \in Faults
          /\ abandoned' = [abandoned EXCEPT ![k] = abandoned[k] \union pend[k]]
          /\ lost' = lost

LEMMA KeepsOrDrops ==
    ASSUME "setup" \notin Faults, TypeOK, Reach, Steady, NoneStale,
           NEW k \in Mappings, Statement(k)
    PROVE  /\ phase \in {"active", "begin"}
           /\ UNCHANGED <<cur, outcome, durable>>
           /\ Keeps(k) \/ Drops(k)
  <1> USE DEF xactVars, catVars, cacheVars, stmtVars, remoteVars, rowVars
  <1>1. phase \in {"active", "begin"} /\ UNCHANGED <<cur, outcome, durable>>
    BY StatementEffect
  <1>2. stale = {}
    BY <1>1 DEF NoneStale
  <1>3. CASE Reconnect(k)
    <2>1. ~conn[k].connected
      BY <1>3 DEF Reconnect, Steady
    <2>2. pend[k] = {} /\ k \notin open
      BY <2>1 DEF Reach, InXact, OpenIsLive
    <2>3. /\ DropSession(k)
          /\ stale' = stale \union (open \intersect {k})
          /\ phase' = "active"
      BY <1>3 DEF Reconnect, UseCache
    <2>4. pend' = pend /\ lost' = lost /\ abandoned' = abandoned
      <3>1. /\ [pend EXCEPT ![k] = {}] = pend
            /\ [lost EXCEPT ![k] = lost[k] \union pend[k]] = lost
            /\ [abandoned EXCEPT ![k] = abandoned[k] \union pend[k]] = abandoned
        BY <2>2 DEF TypeOK
      <3> QED BY <2>3, <3>1 DEF DropSession, Abandon
    <2>5. stale' = {}
      BY <1>2, <2>2, <2>3
    <2> QED BY <1>1, <2>3, <2>4, <2>5 DEF Keeps
  <1>4. CASE GetReuse(k)
    BY <1>1, <1>2, <1>4 DEF GetReuse, UseCache, Keeps
  <1>5. CASE WriteRow(k) \/ GetUserMapping(k) \/ EndStatement(k)
    BY <1>1, <1>2, <1>5 DEF WriteRow, GetUserMapping, EndStatement, Keeps
  <1>6. CASE GetFails(k) \/ GetCancelled(k) \/ CallFails(k)
    <2>1. DropSession(k) /\ phase' = "error"
      BY <1>6 DEF GetFails, GetCancelled, CallFails, UseFails
    <2> QED BY <1>1, <2>1 DEF DropSession, Abandon, Drops
  <1>7. ~WriteStale(k)
    BY <1>2 DEF WriteStale
  <1> QED BY <1>1, <1>3, <1>4, <1>5, <1>6, <1>7 DEF Statement

LEMMA NextNoneStale ==
    ASSUME "setup" \notin Faults, Subxacts = FALSE, TypeOK, Reach, Steady,
           NoneStale, [Next]_vars
    PROVE  NoneStale'
  <1> USE DEF xactVars, catVars, cacheVars, stmtVars, remoteVars, rowVars, NoneStale
  <1>1. ASSUME NEW k \in Mappings, Statement(k) PROVE NoneStale'
    BY <1>1, KeepsOrDrops DEF Keeps, Drops
  <1>2. ASSUME NEW k \in Mappings, ScanStep(k) PROVE NoneStale'
    <2>1. CASE SkipEntry(k)
      BY <2>1 DEF SkipEntry
    <2>2. CASE ~SkipEntry(k)
      BY <1>2, <2>2, ScanEffect
    <2> QED BY <2>1, <2>2
  <1>3. CASE BeginXact
    BY <1>3 DEF BeginXact, Reach, Executing
  <1>4. CASE StartFails \/ Trap \/ PreCommitBegin \/ AbortXact \/ Prepare
    BY <1>4 DEF StartFails, Trap, PreCommitBegin, AbortXact, Prepare
  <1>5. CASE PreCommitEnd \/ CommitLocal \/ AbortEnd
    BY <1>5 DEF PreCommitEnd, CommitLocal, AbortEnd
  <1>6. CASE (\E o \in Objects : Alter(o)) \/ AcceptInval \/ InvalReset
    BY <1>6 DEF Alter, AcceptInval, InvalReset
  <1>7. CASE UNCHANGED vars
    BY <1>7 DEF vars
  <1> QED BY <1>1, <1>2, <1>3, <1>4, <1>5, <1>6, <1>7 DEF Next, Finish

-----------------------------------------------------------------------------
(* Where the rows of a transaction stay visible to it.                     *)

(* The three ways to lose them: a session that is stale, one that fails    *)
(* while it is being set up, and an error that a subtransaction absorbs.   *)
Undisturbed ==
    /\ "setup" \notin Faults
    /\ Subxacts = FALSE
    /\ MaxVersion = 0

StillThere ==
    /\ \A k \in Mappings : lost[k] \union abandoned[k] \subseteq 1 .. cur
    /\ InsertStaysVisible

LEMMA NextStillThere ==
    ASSUME Undisturbed, TypeOK, Reach, Ages, Steady, NoneStale,
           StillThere, [Next]_vars
    PROVE  StillThere'
  <1> USE DEF xactVars, catVars, cacheVars, stmtVars, remoteVars, rowVars, StillThere, InsertStaysVisible
  <1>0. /\ cur \in Nat /\ lost \in [Mappings -> SUBSET Nat]
        /\ abandoned \in [Mappings -> SUBSET Nat]
    BY DEF TypeOK
  <1>1. ASSUME NEW k \in Mappings, Statement(k) PROVE StillThere'
    <2>1. /\ phase \in {"active", "begin"}
          /\ cur' = cur /\ (Keeps(k) \/ Drops(k))
      BY <1>1, KeepsOrDrops DEF Undisturbed
    <2>2. CASE Keeps(k)
      BY <2>1, <2>2 DEF Keeps
    <2>3. CASE Drops(k)
      BY <1>0, <2>1, <2>3 DEF Drops, Ages
    <2> QED BY <2>1, <2>2, <2>3
  <1>2. ASSUME NEW k \in Mappings, ScanStep(k) PROVE StillThere'
    <2>1. CASE SkipEntry(k)
      BY <2>1 DEF SkipEntry
    <2>2. CASE ~SkipEntry(k)
      <3>1. phase' \in {"pre_commit", "aborting"} /\ cur' = cur
        BY <1>2, <2>2, ScanEffect
      <3>2. /\ \/ lost' = lost
               \/ lost' = [lost EXCEPT ![k] = lost[k] \union pend[k]]
            /\ \/ abandoned' = abandoned
               \/ abandoned' = [abandoned EXCEPT ![k] = abandoned[k] \union pend[k]]
        BY <1>2, <2>2 DEF ScanStep, CommitEntry, CommitThenCloseFails, CommitFails,
              RollbackEntry, RollbackFails, TroubleEntry, Publish, Discard, DropSession, Abandon
      <3> QED BY <1>0, <3>1, <3>2 DEF Ages
    <2> QED BY <2>1, <2>2
  <1>3. CASE BeginXact
    BY <1>0, <1>3 DEF BeginXact
  <1>4. CASE Trap
    BY <1>4 DEF Trap, Undisturbed
  <1>5. CASE StartFails \/ PreCommitBegin \/ AbortXact \/ Prepare
    BY <1>5 DEF StartFails, PreCommitBegin, AbortXact, Prepare
  <1>6. CASE PreCommitEnd \/ CommitLocal \/ AbortEnd
    BY <1>6 DEF PreCommitEnd, CommitLocal, AbortEnd
  <1>7. CASE (\E o \in Objects : Alter(o)) \/ AcceptInval \/ InvalReset
    BY <1>7 DEF Alter, AcceptInval, InvalReset
  <1>8. CASE UNCHANGED vars
    BY <1>8 DEF vars
  <1> QED BY <1>1, <1>2, <1>3, <1>4, <1>5, <1>6, <1>7, <1>8 DEF Next, Finish

(* What a transaction has inserted stays visible to it until it ends, when *)
(* no option is altered, no session fails while it is being set up and no  *)
(* error is trapped.  Each of the three hypotheses is needed: the run      *)
(* conncache_visible shows what one ALTER does.                         *)
THEOREM RowsStayVisible ==
    ASSUME Undisturbed
    PROVE  Spec => []InsertStaysVisible
  <1>1. Init => Steady /\ NoneStale /\ StillThere
    BY DEF Init, Steady, NoneStale, StillThere, InsertStaysVisible
  <1>2. /\ TypeOK /\ Reach /\ Ages /\ Steady /\ NoneStale /\ StillThere
           /\ [Next]_vars => Steady' /\ NoneStale' /\ StillThere'
        /\ StillThere => InsertStaysVisible
    BY NextSteady, NextNoneStale, NextStillThere DEF Undisturbed, StillThere
  <1> QED BY <1>1, <1>2, Reached, PTL DEF Spec

-----------------------------------------------------------------------------
(* All or nothing, when statements may fail but the end of a transaction,  *)
(* the set-up of a session and the options do not, and no error is         *)
(* trapped.  PREPARE and error recursion trouble are allowed: this is not  *)
(* a consequence of IInv.                                                  *)

Calm ==
    /\ Faults \subseteq {"connect", "lookup", "use"}
    /\ Subxacts = FALSE
    /\ MaxVersion = 0

(* What has become of the rows of every transaction, and of the            *)
(* transaction.                                                            *)
Fates ==
    /\ \A x \in Xacts :
         x > cur \/ (x = cur /\ phase # "idle") => outcome[x] = "none"
    /\ \A k \in Mappings : \A x \in lost[k] :
         /\ x \in 1 .. cur
         /\ \/ x = cur /\ phase \in {"error", "aborting"}
            \/ outcome[x] \in {"aborted", "prepared"}
    /\ \A k \in Mappings : \A x \in abandoned[k] :
         /\ x \in 1 .. cur
         /\ \/ x = cur /\ phase = "aborting"
            \/ outcome[x] \in {"aborted", "prepared"}
    /\ \A k \in Mappings : \A x \in durable[k] :
         /\ x \in 1 .. cur
         /\ \/ x = cur /\ phase \in {"pre_commit", "pre_committed"}
            \/ outcome[x] \in {"committed", "prepared"}

LEMMA InitFates == Init => Fates
  BY BoundsAssumption DEF Init, Fates, Xacts

(* Statements: none drops a session that has rows, except by failing.      *)
LEMMA StatementFates ==
    ASSUME Calm, TypeOK, Reach, Ages, Steady, NoneStale, Fates,
           NEW k \in Mappings, Statement(k)
    PROVE  Fates'
  <1>1. /\ phase \in {"active", "begin"}
        /\ UNCHANGED <<cur, outcome, durable>>
        /\ Keeps(k) \/ Drops(k)
    BY KeepsOrDrops DEF Calm
  <1>2. CASE Keeps(k)
    BY <1>1, <1>2 DEF Keeps, Fates
  <1>3. CASE Drops(k)
    <2>1. /\ phase' = "error" /\ abandoned' = abandoned
          /\ lost' = [lost EXCEPT ![k] = lost[k] \union pend[k]]
      BY <1>3 DEF Drops, Calm
    <2> QED BY <1>1, <2>1 DEF Fates, Ages, TypeOK
  <1> QED BY <1>1, <1>2, <1>3

(* The callback's scan: no step of it fails, so a scan that commits goes   *)
(* on committing and one that rolls back goes on rolling back.             *)
LEMMA ScanFates ==
    ASSUME Calm, TypeOK, Ages, Fates, NEW k \in Mappings, ScanStep(k)
    PROVE  Fates'
  <1> USE DEF xactVars, catVars, cacheVars, stmtVars, remoteVars, rowVars
  <1>1. CASE SkipEntry(k)
    BY <1>1 DEF SkipEntry, Fates
  <1>2. CASE CommitEntry(k)
    <2>1. /\ UNCHANGED <<lost, abandoned, phase, cur, outcome>>
          /\ phase = "pre_commit"
          /\ durable' = [durable EXCEPT ![k] = durable[k] \union pend[k]]
      BY <1>2 DEF CommitEntry, Publish, Committing
    <2> QED BY <2>1 DEF Fates, Ages, TypeOK
  <1>3. CASE RollbackEntry(k)
    BY <1>3 DEF RollbackEntry, Discard, Fates
  <1>4. CASE TroubleEntry(k)
    <2>1. /\ UNCHANGED <<lost, durable, phase, cur, outcome>>
          /\ phase = "aborting"
          /\ abandoned' = [abandoned EXCEPT ![k] = abandoned[k] \union pend[k]]
      BY <1>4 DEF TroubleEntry, Abandon, RollingBack
    <2> QED BY <2>1 DEF Fates, Ages, TypeOK
  <1>5. ~CommitThenCloseFails(k) /\ ~CommitFails(k) /\ ~RollbackFails(k)
    BY DEF Calm, CommitThenCloseFails, CommitFails, RollbackFails
  <1> QED BY <1>1, <1>2, <1>3, <1>4, <1>5 DEF ScanStep

(* The other actions, and all of them together.                            *)
LEMMA NextFates ==
    ASSUME Calm, TypeOK, Reach, Ages, Steady, NoneStale, Fates,
           [Next]_vars
    PROVE  Fates'
  <1> USE DEF xactVars, catVars, cacheVars, stmtVars, remoteVars, rowVars, Fates
  <1>0. /\ cur \in Nat /\ outcome \in [Xacts -> {"none", "committed", "aborted", "prepared"}]
        /\ MaxXact \in Nat
    BY BoundsAssumption DEF TypeOK
  <1>1. CASE BeginXact
    BY <1>0, <1>1 DEF BeginXact, Xacts
  <1>2. CASE Trap
    BY <1>2 DEF Trap, Calm
  <1>3. CASE PreCommitBegin
    BY <1>3 DEF PreCommitBegin
  <1>4. CASE AbortXact
    BY <1>0, <1>4 DEF AbortXact, Calm, Ages, Xacts
  <1>5. CASE Prepare
    BY <1>0, <1>5 DEF Prepare, Ages, Xacts
  <1>6. ASSUME NEW k \in Mappings, Statement(k) PROVE Fates'
    BY <1>6, StatementFates
  <1>7. ASSUME NEW k \in Mappings, ScanStep(k) PROVE Fates'
    BY <1>7, ScanFates
  <1>8. CASE PreCommitEnd
    BY <1>8 DEF PreCommitEnd
  <1>9. CASE CommitLocal
    BY <1>0, <1>9 DEF CommitLocal, Ages, Xacts
  <1>10. CASE AbortEnd
    BY <1>0, <1>10 DEF AbortEnd, Ages, Xacts
  <1>11. CASE (\E o \in Objects : Alter(o)) \/ AcceptInval \/ InvalReset
    BY <1>11 DEF Alter, AcceptInval, InvalReset
  <1>12. CASE UNCHANGED vars
    BY <1>12 DEF vars
  <1>13. CASE StartFails
    BY <1>13 DEF StartFails
  <1> QED BY <1>1, <1>2, <1>3, <1>4, <1>5, <1>6, <1>7, <1>8, <1>9, <1>10,
             <1>11, <1>12, <1>13 DEF Next, Finish

(* All servers and the local transaction agree, on any number of servers   *)
(* and after any number of transactions, as long as no end of a            *)
(* transaction fails.                                                      *)
THEOREM Atomicity ==
    ASSUME Calm
    PROVE  Spec => []AllOrNothing
  <1>1. Init => Steady /\ NoneStale /\ Fates
    BY InitFates DEF Init, Steady, NoneStale
  <1>2. TypeOK /\ Reach /\ Ages /\ Steady /\ NoneStale /\ Fates /\ [Next]_vars
          => Steady' /\ NoneStale' /\ Fates'
    BY NextSteady, NextNoneStale, NextFates DEF Calm
  <1>3. Fates => AllOrNothing
    BY DEF Fates, AllOrNothing
  <1> QED BY <1>1, <1>2, <1>3, Reached, PTL DEF Spec
=============================================================================

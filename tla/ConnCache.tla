----------------------------- MODULE ConnCache -----------------------------
(***************************************************************************)
(* The connection cache of tibero_fdw (src/connection.c) in one PostgreSQL *)
(* backend: the hash table of remote sessions keyed by user mapping, the   *)
(* remote transactions opened in them, the transaction callback that       *)
(* commits or rolls them back, and the catalog invalidation callback.      *)
(*                                                                         *)
(* The backend is single threaded.  What interleaves is: the statements of *)
(* the transaction, the entries of one callback scan (whose order the hash *)
(* table decides), failures of driver calls, ALTERs committed by other     *)
(* backends, and the points where this backend accepts the invalidations.  *)
(***************************************************************************)
EXTENDS Naturals, FiniteSets

CONSTANTS
    Mappings,      \* user mappings (ConnCacheKey)
    Servers,       \* foreign servers
    ServerOf,      \* the server a user mapping belongs to
    Inserting,     \* the user mappings through which rows are inserted
    MaxXact,       \* bound: local transactions in a behaviour
    MaxVersion,    \* bound: ALTERs per catalog object
    Faults,        \* the driver calls and catalog lookups that may fail
    Subxacts,      \* TRUE if an error may be trapped by a subtransaction
    AllowPrepare,  \* TRUE if PREPARE TRANSACTION may be used
    ErrorTrouble   \* TRUE if an abort may run in error recursion trouble

FaultKinds == {"connect", "setup", "lookup", "use", "endtran", "disconnect",
               "local"}

Objects == Servers \union Mappings

ASSUME MappingsAssumption ==
    /\ ServerOf \in [Mappings -> Servers]
    /\ Servers \intersect Mappings = {}
    /\ Inserting \subseteq Mappings
ASSUME BoundsAssumption == MaxXact \in Nat /\ MaxVersion \in Nat
ASSUME OptionsAssumption ==
    /\ Faults \subseteq FaultKinds
    /\ {Subxacts, AllowPrepare, ErrorTrouble} \subseteq BOOLEAN

VARIABLES
    \* the backend's memory
    conn,                 \* ConnectionHash: one ConnCacheEntry per mapping
    xact_got_connection,  \* this transaction has used the cache
    open,                 \* mappings with a statement on the entry's session
    stale,                \* mappings with a statement of an earlier session
    user,                 \* the UserMapping read for the statement that begins
    \* the local transaction
    phase,                \* where the transaction manager is
    todo,                 \* entries the callback's scan has yet to visit
    cur,                  \* the number of the current transaction
    isolation,            \* IsolationUsesXactSnapshot()
    outcome,              \* how each transaction ended
    \* the remote side
    session,              \* what each session was opened with
    pend,                 \* pend[k]: transactions with uncommitted rows
    durable,              \* durable[k]: transactions with committed rows
    lost,                 \* lost[k]: transactions whose rows went with a session
    abandoned,            \* abandoned[k]: transactions with uncommitted rows in
                          \* a session that the backend has forgotten
    \* the catalogs
    catalog,              \* committed version of each server and mapping
    seen                  \* version of each that this backend works with

stmtVars   == <<open, stale, user>>
cacheVars  == <<conn, xact_got_connection, stmtVars>>
xactVars   == <<phase, todo, cur, isolation, outcome>>
rowVars    == <<pend, durable, lost, abandoned>>
remoteVars == <<session, rowVars>>
catVars    == <<catalog, seen>>
vars == <<cacheVars, xactVars, remoteVars, catVars>>

Xacts == 1 .. MaxXact
Phases == {"idle", "active", "begin", "error", "pre_commit", "pre_committed",
           "aborting"}

Entry == [known : BOOLEAN, connected : BOOLEAN, begin_remote_xact : BOOLEAN,
          invalidated : BOOLEAN, keep_connections : BOOLEAN]
Session == [serializable : BOOLEAN, server : Nat, mapping : Nat]
UserMapping == [umid : Mappings, mapping : Nat]

TypeOK ==
    /\ conn \in [Mappings -> Entry]
    /\ xact_got_connection \in BOOLEAN
    /\ open \in SUBSET Mappings
    /\ stale \in SUBSET Mappings
    /\ user \in SUBSET UserMapping
    /\ phase \in Phases
    /\ todo \in SUBSET Mappings
    /\ cur \in Nat
    /\ isolation \in BOOLEAN
    /\ outcome \in [Xacts -> {"none", "committed", "aborted", "prepared"}]
    /\ session \in [Mappings -> Session]
    /\ pend \in [Mappings -> SUBSET Nat]
    /\ durable \in [Mappings -> SUBSET Nat]
    /\ lost \in [Mappings -> SUBSET Nat]
    /\ abandoned \in [Mappings -> SUBSET Nat]
    /\ catalog \in [Objects -> Nat]
    /\ seen \in [Objects -> Nat]

-----------------------------------------------------------------------------
(* The operations on one entry.                                            *)

InXact(c) == c.connected /\ c.begin_remote_xact

(* TbFdwReportError: the failed entry forgets its session.                 *)
\* Mutant: the error is raised without touching the entry.
TbFdwReportError_Keeps(c) == c
TbFdwReportError(c) ==
    IF c.connected
    THEN [c EXCEPT !.connected = FALSE, !.begin_remote_xact = FALSE]
    ELSE c

disconnect_tb_server(c) ==
    IF c.connected
    THEN [c EXCEPT !.connected = FALSE, !.begin_remote_xact = FALSE]
    ELSE c

(* make_tb_connection up to connect_tb_server, as far as the cache keeps   *)
(* it; keep is the server's keep_connections option, TRUE when absent.     *)
\* Mutant: keep_connections gets no default.
NewEntry_NoDefault(keep) ==
    [known |-> TRUE, connected |-> FALSE, begin_remote_xact |-> FALSE,
     invalidated |-> FALSE]
NewEntry(keep) ==
    [known |-> TRUE, connected |-> FALSE, begin_remote_xact |-> FALSE,
     invalidated |-> FALSE, keep_connections |-> keep]

(* connect_tb_server, then begin_remote_xact in the new session.           *)
\* Mutant: the flag is not raised.
begin_remote_xact_NoFlag(c) == c
begin_remote_xact(c) == [c EXCEPT !.begin_remote_xact = TRUE]
Connected(keep) ==
    begin_remote_xact([NewEntry(keep) EXCEPT !.connected = TRUE])

\* Mutant: the flag stays up after the end.
TbSQLEndTran_FlagKept(c) == c
TbSQLEndTran(c) == [c EXCEPT !.begin_remote_xact = FALSE]

(* The callback closes a session that is stale or not to be kept.          *)
\* Mutant: keep_connections is not looked at.
MustClose_StaleOnly(c) == c.invalidated
MustClose(c) == c.invalidated \/ ~c.keep_connections
AfterEndTran(c) ==
    IF MustClose(c) THEN disconnect_tb_server(TbSQLEndTran(c))
    ELSE TbSQLEndTran(c)

(* TbfdwInvalCallback for every object whose version differs in new.       *)
\* Mutants: one of the two hash values is not compared.
InvalCallback_MappingOnly(c, k, new) ==
    IF c.connected /\ new[k] # seen[k]
    THEN [c EXCEPT !.invalidated = TRUE] ELSE c
InvalCallback_ServerOnly(c, k, new) ==
    IF c.connected /\ new[ServerOf[k]] # seen[ServerOf[k]]
    THEN [c EXCEPT !.invalidated = TRUE] ELSE c
InvalCallback(c, k, new) ==
    IF c.connected /\ (new[ServerOf[k]] # seen[ServerOf[k]] \/ new[k] # seen[k])
    THEN [c EXCEPT !.invalidated = TRUE]
    ELSE c

(* The entries TbfdwXactCallback acts on.                                  *)
\* Mutant: those not to be kept are left to be closed later.
EndsIn_Kept(c) == InXact(c) /\ c.keep_connections
EndsIn(c) == c.begin_remote_xact /\ c.connected

Known == {k \in Mappings : conn[k].known}

-----------------------------------------------------------------------------
Init ==
    /\ conn = [k \in Mappings |->
                 [known |-> FALSE, connected |-> FALSE,
                  begin_remote_xact |-> FALSE, invalidated |-> FALSE,
                  keep_connections |-> FALSE]]
    /\ xact_got_connection = FALSE
    /\ open = {}
    /\ stale = {}
    /\ user = {}
    /\ phase = "idle"
    /\ todo = {}
    /\ cur = 0
    /\ isolation = FALSE
    /\ outcome = [x \in Xacts |-> "none"]
    /\ session = [k \in Mappings |->
                    [serializable |-> FALSE, server |-> 0, mapping |-> 0]]
    /\ pend = [k \in Mappings |-> {}]
    /\ durable = [k \in Mappings |-> {}]
    /\ lost = [k \in Mappings |-> {}]
    /\ abandoned = [k \in Mappings |-> {}]
    /\ catalog = [o \in Objects |-> 0]
    /\ seen = [o \in Objects |-> 0]

BeginXact ==
    /\ phase = "idle"
    /\ cur < MaxXact
    /\ cur' = cur + 1
    /\ phase' = "active"
    /\ isolation' \in BOOLEAN
    /\ UNCHANGED <<todo, outcome, cacheVars, remoteVars, catVars>>

(* The entry leaves its session with nothing told to the server: the       *)
(* remote transaction stays open there and holds its rows and locks.       *)
Abandon(k) ==
    /\ abandoned' = [abandoned EXCEPT ![k] = @ \union pend[k]]
    /\ pend' = [pend EXCEPT ![k] = {}]
    /\ UNCHANGED <<durable, lost>>

(* The session of k is disconnected, and what it had not committed is gone *)
(* with it; or the driver refuses to disconnect it in mid-transaction.     *)
DropSession(k) ==
    \/ /\ lost' = [lost EXCEPT ![k] = @ \union pend[k]]
       /\ pend' = [pend EXCEPT ![k] = {}]
       /\ UNCHANGED <<durable, abandoned>>
    \/ "disconnect" \in Faults /\ Abandon(k)

(* The statements of a dropped session are still to be used and ended.     *)
DropStatements(k) ==
    /\ open' = open \ {k}
    /\ stale' = stale \union (open \intersect {k})

-----------------------------------------------------------------------------
(* tiberoBeginForeignScan and tiberoBeginForeignModify read the user       *)
(* mapping, open catalogs (where invalidations may be accepted) and call   *)
(* get_tb_statement with what they have read.                              *)
GetUserMapping(k) ==
    /\ phase = "active"
    /\ phase' = "begin"
    /\ user' = {[umid |-> k, mapping |-> seen[k]]}
    /\ UNCHANGED <<conn, xact_got_connection, open, stale, todo, cur,
                   isolation, outcome, remoteVars, catVars>>

StartFails ==
    /\ phase = "begin"
    /\ "lookup" \in Faults
    /\ phase' = "error"
    /\ user' = {}
    /\ UNCHANGED <<conn, xact_got_connection, open, stale, todo, cur,
                   isolation, outcome, remoteVars, catVars>>

(* get_tb_statement, by the path it takes.                                 *)
Beginning(u) == phase = "begin" /\ u \in user

\* Mutant: only a new entry counts as use of the cache.
UseCache_NewOnly(k) ==
    /\ xact_got_connection' = (xact_got_connection \/ ~conn[k].known)
    /\ open' = open \union {k}
    /\ user' = {}
    /\ phase' = "active"
UseCache(k) ==
    /\ xact_got_connection' = TRUE
    /\ open' = open \union {k}
    /\ user' = {}
    /\ phase' = "active"

(* It ends in an error, with the entry's session gone.                     *)
UseFails(k) ==
    /\ xact_got_connection' = TRUE
    /\ DropStatements(k)
    /\ user' = {}
    /\ phase' = "error"

(* begin_remote_xact sets the level, in a transaction not yet begun.       *)
\* Mutant: the level is set only when a session is opened.
SessionLevel_Once(k) == session
SessionLevel(k) ==
    IF conn[k].begin_remote_xact THEN session
    ELSE [session EXCEPT ![k].serializable = isolation]

(* A usable session: join its remote transaction or open one.              *)
GetReuse(k) ==
    /\ \E u \in user : Beginning(u) /\ u.umid = k
    /\ conn[k].connected
    /\ ~conn[k].invalidated
    /\ conn' = [conn EXCEPT ![k] = begin_remote_xact(@)]
    /\ session' = SessionLevel(k)
    /\ UseCache(k)
    /\ UNCHANGED <<stale, todo, cur, isolation, outcome, rowVars, catVars>>

(* No session, a stale one, or a driver error on the first attempt: build  *)
(* a new one with the options of the server as GetForeignServer finds it,  *)
(* which may accept invalidations, and of the mapping as the caller read   *)
(* it.                                                                     *)
\* Mutant: the server options are those known before GetForeignServer.
Reconnect_CallersServer(k) ==
    /\ ~conn[k].connected \/ conn[k].invalidated \/ "setup" \in Faults
    /\ \E u \in user, keep \in BOOLEAN, fresh \in {seen, catalog} :
         /\ Beginning(u) /\ u.umid = k
         /\ conn' = [j \in Mappings |->
                       IF j = k THEN Connected(keep)
                       ELSE InvalCallback(conn[j], j, fresh)]
         /\ session' = [session EXCEPT ![k] =
                          [serializable |-> isolation,
                           server |-> seen[ServerOf[k]],
                           mapping |-> u.mapping]]
         /\ seen' = fresh
    /\ DropSession(k)
    /\ stale' = stale \union (open \intersect {k})
    /\ UseCache(k)
    /\ UNCHANGED <<todo, cur, isolation, outcome, catalog>>
Reconnect(k) ==
    /\ ~conn[k].connected \/ conn[k].invalidated \/ "setup" \in Faults
    /\ \E u \in user, keep \in BOOLEAN, fresh \in {seen, catalog} :
         /\ Beginning(u) /\ u.umid = k
         /\ conn' = [j \in Mappings |->
                       IF j = k THEN Connected(keep)
                       ELSE InvalCallback(conn[j], j, fresh)]
         /\ session' = [session EXCEPT ![k] =
                          [serializable |-> isolation,
                           server |-> fresh[ServerOf[k]],
                           mapping |-> u.mapping]]
         /\ seen' = fresh
    /\ DropSession(k)
    /\ stale' = stale \union (open \intersect {k})
    /\ UseCache(k)
    /\ UNCHANGED <<todo, cur, isolation, outcome, catalog>>

(* The last attempt fails: refused by the server, or a driver error during *)
(* the second one.                                                         *)
GetFails(k) ==
    /\ \E u \in user : Beginning(u) /\ u.umid = k
    /\ \/ "connect" \in Faults /\ (~conn[k].connected \/ conn[k].invalidated)
       \/ "setup" \in Faults
    /\ \E keep \in BOOLEAN : conn' = [conn EXCEPT ![k] = NewEntry(keep)]
    /\ DropSession(k)
    /\ UseFails(k)
    /\ UNCHANGED <<todo, cur, isolation, outcome, session, catVars>>

(* GetForeignServer raises an error of its own (a dropped server, a query  *)
(* cancel), which is not retried.  A new entry then has only "connected"   *)
(* initialised.                                                            *)
GetCancelled(k) ==
    /\ \E u \in user : Beginning(u) /\ u.umid = k
    /\ "lookup" \in Faults
    /\ ~conn[k].connected \/ conn[k].invalidated \/ "setup" \in Faults
    /\ IF conn[k].known
       THEN conn' = [conn EXCEPT ![k] = disconnect_tb_server(@)]
       ELSE \E garbage \in Entry :
              /\ garbage.known /\ ~garbage.connected
              /\ conn' = [conn EXCEPT ![k] = garbage]
    /\ DropSession(k)
    /\ UseFails(k)
    /\ UNCHANGED <<todo, cur, isolation, outcome, session, catVars>>

-----------------------------------------------------------------------------
(* The statements' own work.                                               *)

(* tiberoExecForeignInsert executes on the statement's session.            *)
WriteRow(k) ==
    /\ phase = "active"
    /\ k \in open \intersect Inserting
    /\ pend' = [pend EXCEPT ![k] = @ \union {cur}]
    /\ UNCHANGED <<session, durable, lost, abandoned, cacheVars, xactVars,
                   catVars>>

(* A statement of an earlier session, which the driver refused to close:   *)
(* its rows join those that nobody will end.                               *)
WriteStale(k) ==
    /\ phase = "active"
    /\ k \in stale \intersect Inserting
    /\ "disconnect" \in Faults
    /\ abandoned' = [abandoned EXCEPT ![k] = @ \union {cur}]
    /\ UNCHANGED <<session, pend, durable, lost, cacheVars, xactVars, catVars>>

(* Any driver call on an open statement fails, or one on a statement whose *)
(* session is gone: both report to the entry and drop the session that it  *)
(* has now.                                                                *)
CallFails(k) ==
    /\ phase = "active"
    /\ \/ "use" \in Faults /\ k \in open
       \/ k \in stale
    /\ conn' = [conn EXCEPT ![k] = TbFdwReportError(@)]
    /\ DropSession(k)
    /\ DropStatements(k)
    /\ phase' = "error"
    /\ UNCHANGED <<xact_got_connection, user, todo, cur, isolation, outcome,
                   session, catVars>>

(* tiberoEndForeignScan or tiberoEndForeignModify for the last statement   *)
(* of either kind, or its portal went with a failed subtransaction.        *)
EndStatement(k) ==
    /\ phase = "active"
    /\ \/ k \in open /\ open' = open \ {k} /\ stale' = stale
       \/ k \in stale /\ stale' = stale \ {k} /\ open' = open
    /\ UNCHANGED <<conn, xact_got_connection, user, xactVars, remoteVars,
                   catVars>>

(* A subtransaction absorbs the error: TbfdwSubxactCallback does nothing.  *)
Trap ==
    /\ Subxacts
    /\ phase = "error"
    /\ phase' = "active"
    /\ UNCHANGED <<todo, cur, isolation, outcome, cacheVars,
                   remoteVars, catVars>>

-----------------------------------------------------------------------------
(* TbfdwXactCallback.  It returns at once when the transaction has not     *)
(* used the cache, and else visits the entries in hash order.              *)

(* The portals are closed before the transaction is committed or prepared, *)
(* and without the executor's end callbacks when it is aborted.            *)
StatementsEnded == open = {} /\ stale = {}

PreCommitBegin ==
    /\ phase = "active"
    /\ StatementsEnded
    /\ phase' = IF xact_got_connection THEN "pre_commit" ELSE "pre_committed"
    /\ todo' = IF xact_got_connection THEN Known ELSE {}
    /\ UNCHANGED <<cur, isolation, outcome, cacheVars, remoteVars, catVars>>

(* An entry without a remote transaction, or without a session.            *)
SkipEntry(k) ==
    /\ phase \in {"pre_commit", "aborting"}
    /\ k \in todo
    /\ ~EndsIn(conn[k])
    /\ todo' = todo \ {k}
    /\ UNCHANGED <<phase, cur, isolation, outcome, cacheVars,
                   remoteVars, catVars>>

Committing(k) == phase = "pre_commit" /\ k \in todo /\ EndsIn(conn[k])

Publish(k) ==
    /\ durable' = [durable EXCEPT ![k] = @ \union pend[k]]
    /\ pend' = [pend EXCEPT ![k] = {}]
    /\ UNCHANGED <<lost, abandoned>>

CommitEntry(k) ==
    /\ Committing(k)
    /\ conn' = [conn EXCEPT ![k] = AfterEndTran(@)]
    /\ Publish(k)
    /\ todo' = todo \ {k}
    /\ UNCHANGED <<xact_got_connection, stmtVars, phase, cur, isolation,
                   outcome, session, catVars>>

(* An error in the callback leaves the scan; the transaction manager       *)
(* aborts, which calls the callback again.                                 *)
Interrupted ==
    /\ phase' = "aborting"
    /\ todo' = Known
    /\ UNCHANGED <<cur, isolation, outcome>>

CommitThenCloseFails(k) ==
    /\ "disconnect" \in Faults
    /\ Committing(k)
    /\ MustClose(conn[k])
    /\ conn' = [conn EXCEPT ![k] = TbFdwReportError(TbSQLEndTran(@))]
    /\ Publish(k)
    /\ Interrupted
    /\ UNCHANGED <<xact_got_connection, stmtVars, session, catVars>>

(* SQLEndTran reports an error: the commit may have happened or not.       *)
CommitFails(k) ==
    /\ "endtran" \in Faults
    /\ Committing(k)
    /\ conn' = [conn EXCEPT ![k] = TbFdwReportError(@)]
    /\ DropSession(k) \/ Publish(k)
    /\ Interrupted
    /\ UNCHANGED <<xact_got_connection, stmtVars, session, catVars>>

PreCommitEnd ==
    /\ phase = "pre_commit"
    /\ todo = {}
    /\ phase' = "pre_committed"
    /\ xact_got_connection' = FALSE
    /\ UNCHANGED <<conn, stmtVars, todo, cur, isolation, outcome,
                   remoteVars, catVars>>

(* The local commit record; XACT_EVENT_COMMIT then returns early.          *)
CommitLocal ==
    /\ phase = "pre_committed"
    /\ phase' = "idle"
    /\ outcome' = [outcome EXCEPT ![cur] = "committed"]
    /\ UNCHANGED <<cacheVars, todo, cur, isolation, remoteVars, catVars>>

(* ROLLBACK, an untrapped error, or a local failure after the callback.    *)
AbortXact ==
    /\ \/ phase \in {"active", "error"}
       \/ phase = "pre_committed" /\ "local" \in Faults
    /\ open' = {} /\ stale' = {}
    /\ IF xact_got_connection
       THEN phase' = "aborting" /\ todo' = Known /\ outcome' = outcome
       ELSE /\ phase' = "idle"
            /\ outcome' = [outcome EXCEPT ![cur] = "aborted"]
            /\ todo' = {}
    /\ UNCHANGED <<conn, xact_got_connection, user, cur, isolation,
                   remoteVars, catVars>>

RollingBack(k) == phase = "aborting" /\ k \in todo /\ EndsIn(conn[k])

\* Mutant: SQL_COMMIT where SQL_ROLLBACK is meant.
Discard_Commits(k) == Publish(k)
Discard(k) ==
    /\ pend' = [pend EXCEPT ![k] = {}]
    /\ UNCHANGED <<durable, lost, abandoned>>

RollbackEntry(k) ==
    /\ RollingBack(k)
    /\ conn' = [conn EXCEPT ![k] = AfterEndTran(@)]
    /\ Discard(k)
    /\ todo' = todo \ {k}
    /\ UNCHANGED <<xact_got_connection, stmtVars, phase, cur, isolation,
                   outcome, session, catVars>>

(* SQLEndTran fails, or the session's closing after it.  When the session  *)
(* cannot be closed either, its transaction stays open at the server.      *)
RollbackFails(k) ==
    /\ \/ "endtran" \in Faults
       \/ "disconnect" \in Faults /\ MustClose(conn[k])
    /\ RollingBack(k)
    /\ conn' = [conn EXCEPT ![k] = TbFdwReportError(@)]
    /\ \/ Discard(k)
       \/ {"endtran", "disconnect"} \subseteq Faults /\ Abandon(k)
    /\ Interrupted
    /\ UNCHANGED <<xact_got_connection, stmtVars, session, catVars>>

(* in_error_recursion_trouble(): no driver call at all, and                *)
(* begin_remote_xact keeps its value.                                      *)
TroubleEntry(k) ==
    /\ ErrorTrouble
    /\ RollingBack(k)
    /\ conn' = [conn EXCEPT ![k].connected = FALSE]
    /\ Abandon(k)
    /\ todo' = todo \ {k}
    /\ UNCHANGED <<xact_got_connection, stmtVars, phase, cur, isolation,
                   outcome, session, catVars>>

AbortEnd ==
    /\ phase = "aborting"
    /\ todo = {}
    /\ phase' = "idle"
    /\ xact_got_connection' = FALSE
    /\ outcome' = [outcome EXCEPT ![cur] = "aborted"]
    /\ UNCHANGED <<conn, stmtVars, todo, cur, isolation, remoteVars, catVars>>

(* PREPARE TRANSACTION: PRE_PREPARE does nothing to the entries and resets *)
(* xact_got_connection, so PREPARE returns early.                          *)
Prepare ==
    /\ AllowPrepare
    /\ phase = "active"
    /\ StatementsEnded
    /\ phase' = "idle"
    /\ outcome' = [outcome EXCEPT ![cur] = "prepared"]
    /\ xact_got_connection' = FALSE
    /\ UNCHANGED <<conn, stmtVars, todo, cur, isolation, remoteVars, catVars>>

-----------------------------------------------------------------------------
(* The catalogs.                                                           *)

(* ALTER SERVER or ALTER USER MAPPING commits in some backend.             *)
Alter(o) ==
    /\ catalog[o] < MaxVersion
    /\ catalog' = [catalog EXCEPT ![o] = @ + 1]
    /\ UNCHANGED <<seen, cacheVars, xactVars, remoteVars>>

(* AcceptInvalidationMessages between statements or transactions, or while *)
(* a statement that begins opens catalogs.                                 *)
AcceptInval ==
    /\ phase \in {"idle", "active", "begin"}
    /\ seen # catalog
    /\ seen' = catalog
    /\ conn' = [k \in Mappings |-> InvalCallback(conn[k], k, catalog)]
    /\ UNCHANGED <<catalog, xact_got_connection, stmtVars, xactVars, remoteVars>>

(* The invalidation queue overflowed: every cache is reset, and            *)
(* TbfdwInvalCallback is called with hash value 0.                         *)
InvalReset ==
    /\ phase \in {"idle", "active", "begin"}
    /\ seen # catalog
    /\ seen' = catalog
    /\ conn' = [k \in Mappings |->
                  IF conn[k].connected THEN [conn[k] EXCEPT !.invalidated = TRUE]
                  ELSE conn[k]]
    /\ UNCHANGED <<catalog, xact_got_connection, stmtVars, xactVars, remoteVars>>

-----------------------------------------------------------------------------
Statement(k) ==
    \/ GetUserMapping(k)
    \/ GetReuse(k) \/ Reconnect(k) \/ GetFails(k) \/ GetCancelled(k)
    \/ WriteRow(k) \/ WriteStale(k) \/ CallFails(k) \/ EndStatement(k)

ScanStep(k) ==
    \/ SkipEntry(k)
    \/ CommitEntry(k) \/ CommitThenCloseFails(k) \/ CommitFails(k)
    \/ RollbackEntry(k) \/ RollbackFails(k) \/ TroubleEntry(k)

(* What the backend does by itself once the end of a transaction started.  *)
Finish ==
    \/ \E k \in Mappings : ScanStep(k)
    \/ PreCommitEnd \/ CommitLocal \/ AbortEnd

Next ==
    \/ BeginXact \/ StartFails \/ Trap \/ PreCommitBegin \/ AbortXact \/ Prepare
    \/ \E k \in Mappings : Statement(k)
    \/ Finish
    \/ \E o \in Objects : Alter(o)
    \/ AcceptInval \/ InvalReset

Spec == Init /\ [][Next]_vars

(* The end of a transaction is straight-line code of a single process: it  *)
(* waits for nobody but the driver.                                        *)
FairSpec == Spec /\ WF_vars(Finish)

-----------------------------------------------------------------------------
(* Properties.                                                             *)

(* Between transactions no session has an open remote transaction: the     *)
(* callback has ended every one it could have, in whatever order it met    *)
(* the entries and whichever driver calls failed.                          *)
Quiescent == phase = "idle" => \A k \in Mappings : ~InXact(conn[k])

(* The callback's early return on xact_got_connection skips nothing: while *)
(* the flag is down no session has an open remote transaction.             *)
GotInv == ~xact_got_connection => \A k \in Mappings : ~InXact(conn[k])

(* During a scan of the callback the entries already visited are out of    *)
(* their remote transaction, also when the scan was restarted by an error. *)
LoopInv ==
    phase \in {"pre_commit", "aborting"} =>
        \A k \in Mappings \ todo : ~InXact(conn[k])

(* A session that takes part in the current transaction runs it at the     *)
(* isolation level of this transaction, though it was opened and set up    *)
(* for another one.                                                        *)
RemoteIsolation ==
    \A k \in Mappings :
        InXact(conn[k]) => session[k].serializable = isolation

(* The rows that a commit of an entry's session would publish belong to    *)
(* the current transaction and sit in its live remote transaction: no      *)
(* transaction inherits the rows of another one.  Rows left in a session   *)
(* that the backend has forgotten are in "abandoned".                      *)
PendingIsCurrent ==
    \A k \in Mappings :
        pend[k] # {} => InXact(conn[k]) /\ pend[k] = {cur}

(* A statement on the session that its entry has now works in a remote     *)
(* transaction that the callback will end.  Statements of earlier sessions *)
(* are in "stale": nothing of the kind holds of them.                      *)
OpenIsLive == \A k \in open : InXact(conn[k])

(* All or nothing over all servers and the local transaction: a committed  *)
(* transaction has no rows that went with a session or that were left in a *)
(* forgotten one, an aborted transaction has none that are permanent.      *)
AllOrNothing ==
    \A k \in Mappings, x \in Xacts :
        /\ outcome[x] = "committed" => x \notin lost[k] \union abandoned[k]
        /\ outcome[x] = "aborted" => x \notin durable[k]

(* An idle session is one that its server's options allow to keep.         *)
NonKeepClosed ==
    phase = "idle" =>
        \A k \in Mappings : conn[k].connected => conn[k].keep_connections

Valid(k) == conn[k].connected /\ ~conn[k].invalidated

(* A session that passes for valid was built with the server options that  *)
(* this backend works with: no invalidation gets lost, whether it arrives  *)
(* between statements or inside make_tb_connection.                        *)
ServerOptionsFresh ==
    \A k \in Mappings : Valid(k) => session[k].server = seen[ServerOf[k]]

Outdated(k) == Valid(k) /\ session[k].mapping # seen[k]
ReadTooEarly(k) ==
    \E u \in user \ user' : u.umid = k /\ u.mapping # seen'[k]

(* A session comes to pass for valid with outdated user mapping options in *)
(* one way only: make_tb_connection built it from a UserMapping read       *)
(* before the invalidation arrived, and cleared "invalidated".             *)
MappingOptionsFresh ==
    [][\A k \in Mappings :
          Outdated(k)' => Outdated(k) \/ ReadTooEarly(k)]_vars

(* Rows inserted earlier in a transaction are still there for the later    *)
(* statements of the same transaction.                                     *)
InsertStaysVisible ==
    phase \in {"active", "begin"} =>
        \A k \in Mappings : cur \notin lost[k] \union abandoned[k]

(* Once its end has started, a transaction ends, however many driver calls *)
(* of the callback fail: each failure takes an entry out of the next scan. *)
XactEnds ==
    phase \in {"pre_commit", "pre_committed", "aborting"} ~> phase = "idle"

-----------------------------------------------------------------------------
(* The abstract specification, implemented when prepared transactions are  *)
(* not used.                                                               *)

Stage == CASE phase = "idle" -> "idle"
           [] phase \in {"active", "begin", "error"} -> "open"
           [] phase \in {"pre_commit", "pre_committed"} -> "deciding"
           [] phase = "aborting" -> "undoing"

(* What lets a remote transaction be left open at the server.              *)
MayAbandon == ErrorTrouble \/ "disconnect" \in Faults

RC == INSTANCE RemoteCommit WITH
        xact <- cur, stage <- Stage, pending <- pend, published <- durable

(* The cache publishes remote work only for a transaction that decided to  *)
(* commit, and at its end leaves none in a session that a later commit     *)
(* could publish; work in forgotten sessions is never published.           *)
ImplementsRemoteCommit == RC!Spec
=============================================================================

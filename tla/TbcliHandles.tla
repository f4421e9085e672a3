---------------------------- MODULE TbcliHandles ----------------------------
(***************************************************************************)
(* The driver's handles behind one entry of the connection cache, and the  *)
(* statement handles of the scans that use it: what connect_tb_server,     *)
(* disconnect_tb_server, TbFdwReportError and the retry of                 *)
(* get_tb_statement do to them when any call of the driver may fail.       *)
(*                                                                         *)
(* The rest of the cache is in ConnCache.  Here an invalidation, and an    *)
(* option that ends a session with its transaction, are free choices.      *)
(***************************************************************************)
EXTENDS Naturals

CONSTANTS
    Cursors,     \* scans of the queries being run
    MaxConnect,  \* bound on attempts to connect
    MaxStmt      \* bound on statement handles

ASSUME HandleBounds == MaxConnect \in Nat /\ MaxStmt \in Nat

VARIABLES
    conn,     \* henv, hdbc and connected of the entry
    live,     \* the driver's handles that are allocated
    made,     \* numbers of attempts to connect and of statements so far
    hstmt,    \* the statement handle of each scan
    misused,  \* handles that were given to the driver after they were freed
    refused,  \* disconnect_tb_server met a refusal to free an environment
    lost,     \* handles left behind by a failure
    dropped   \* statements freed under a scan by a failure or an invalidation

handleVars == <<conn, live, made, hstmt, misused, refused, lost, dropped>>

(* A handle is known by the attempt to connect it comes from.              *)
Env(n) == [kind |-> "env", session |-> n, number |-> 0]
Dbc(n) == [kind |-> "dbc", session |-> n, number |-> 0]
Stmt(n, i) == [kind |-> "stmt", session |-> n, number |-> i]
NoStmt == Stmt(0, 0)
Handles == [kind : {"env", "dbc", "stmt"}, session : Nat, number : Nat]

HandleTypeOK ==
    /\ conn \in [connected : BOOLEAN, henv : Nat, hdbc : Nat]
    /\ live \subseteq Handles /\ lost \subseteq Handles
    /\ made \in [sessions : Nat, stmts : Nat]
    /\ hstmt \in [Cursors -> Handles]
    /\ misused \subseteq Handles /\ dropped \subseteq Handles
    /\ refused \in BOOLEAN

HandleInit ==
    /\ conn = [connected |-> FALSE, henv |-> 0, hdbc |-> 0]
    /\ live = {} /\ made = [sessions |-> 0, stmts |-> 0]
    /\ hstmt = [s \in Cursors |-> NoStmt]
    /\ misused = {} /\ refused = FALSE /\ lost = {} /\ dropped = {}

-----------------------------------------------------------------------------
(* Calls of the driver, as functions of the driver and the entry together: *)
(* h has the fields of conn, live, made, misused, refused and lost.        *)

State == [connected |-> conn.connected, henv |-> conn.henv, hdbc |-> conn.hdbc,
          live |-> live, made |-> made, misused |-> misused, refused |-> refused,
          lost |-> lost]

Becomes(h) ==
    /\ conn' = [connected |-> h.connected, henv |-> h.henv, hdbc |-> h.hdbc]
    /\ live' = h.live /\ made' = h.made
    /\ misused' = h.misused /\ refused' = h.refused /\ lost' = h.lost

Use(h, handles) == [h EXCEPT !.misused = @ \union (handles \ h.live)]

Freed(h, handles) == [h EXCEPT !.live = @ \ handles]

(* What the driver has for the entry's session.  Disconnecting frees the   *)
(* statements.                                                             *)
OfSession(h) == {x \in h.live : x.session = h.hdbc}
Stmts(h) == {x \in OfSession(h) : x.kind = "stmt"}
EntryHandles(h) == {Env(h.henv), Dbc(h.hdbc)}

(* TbFdwReportError ignores what SQLDisconnect and the two SQLFreeHandle   *)
(* return.  A driver may refuse the first in an open transaction, and then *)
(* refuses the others too; what it keeps nobody will free.                 *)
Releases(h) ==
    {{}, Stmts(h), Stmts(h) \union {Dbc(h.hdbc)},
     Stmts(h) \union EntryHandles(h)}

\* Mutant: the handles are freed whether or not there is a session.
TbFdwReportError_Always(h) ==
    {[Freed(Use(h, EntryHandles(h)), released) EXCEPT
        !.connected = FALSE,
        !.lost = @ \union (OfSession(h) \ released)] : released \in Releases(h)}
TbFdwReportError(h) ==
    IF h.connected
    THEN {[Freed(Use(h, EntryHandles(h)), released) EXCEPT
             !.connected = FALSE,
             !.lost = @ \union (OfSession(h) \ released)] :
            released \in Releases(h)}
    ELSE {h}

Ok(h) == [h |-> h, err |-> "none"]

(* ERRCODE_FDW_ERROR, the code that is retried.                            *)
FdwError(h) == {[h |-> x, err |-> "fdw"] : x \in TbFdwReportError(h)}

(* disconnect_tb_server: all goes well, or the first, the second or the    *)
(* third call fails.                                                       *)
FailedDisconnects(h) ==
    FdwError(h)
    \union FdwError(Freed(h, Stmts(h)))
    \union FdwError([Freed(h, Stmts(h) \union {Dbc(h.hdbc)}) EXCEPT
                       !.refused = TRUE])

\* Mutant: the environment is left alone.
disconnect_tb_server_KeepEnv(h) ==
    IF ~h.connected THEN {Ok(h)}
    ELSE {Ok([Freed(Use(h, EntryHandles(h)), Stmts(h) \union {Dbc(h.hdbc)})
                EXCEPT !.connected = FALSE])}
         \union FailedDisconnects(h)
disconnect_tb_server(h) ==
    IF ~h.connected THEN {Ok(h)}
    ELSE {Ok([Freed(Use(h, EntryHandles(h)), Stmts(h) \union EntryHandles(h))
                EXCEPT !.connected = FALSE])}
         \union FailedDisconnects(h)

(* make_tb_connection with connect_tb_server.  The handles of a failed     *)
(* attempt stay: TbFdwReportError does nothing when connected is not set.  *)
(* The error of SQLDriverConnect is the only one that is not retried.      *)
make_tb_connection(h) ==
    LET n == h.made.sessions + 1
        tried == [h EXCEPT !.made.sessions = n]
        env == [tried EXCEPT !.henv = n, !.live = @ \union {Env(n)}]
        dbc == [env EXCEPT !.hdbc = n, !.live = @ \union {Dbc(n)}]
    IN {Ok([dbc EXCEPT !.connected = TRUE]),
        [h |-> [dbc EXCEPT !.lost = @ \union {Env(n), Dbc(n)}], err |-> "connect"]}
       \union FdwError(tried)
       \union FdwError([env EXCEPT !.lost = @ \union {Env(n)}])

(* SQLAllocHandle for a statement, and the calls that use it at once.      *)
NewStmt(h) == Stmt(h.hdbc, h.made.stmts + 1)
MakeStmt(h) ==
    LET with == [h EXCEPT !.made.stmts = @ + 1, !.live = @ \union {NewStmt(h)}]
    IN {Ok(with)} \union FdwError(h) \union FdwError(with)

Then(outcomes, Op(_)) ==
    UNION {IF x.err = "none" THEN Op(x.h) ELSE {x} : x \in outcomes}

(* The PG_TRY of get_tb_statement, and what follows its PG_CATCH.          *)
Connect(h) == IF h.connected THEN {Ok(h)} ELSE make_tb_connection(h)

\* Mutant: every statement gets a session of its own.
Usable_Fresh(h, invalidated) == disconnect_tb_server(h)
Usable(h, invalidated) ==
    IF invalidated THEN disconnect_tb_server(h) ELSE {Ok(h)}

FirstAttempt(h, invalidated) ==
    Then(Then(Usable(h, invalidated), Connect), MakeStmt)

Retry(h) == Then(Then(disconnect_tb_server(h), make_tb_connection), MakeStmt)

-----------------------------------------------------------------------------
(* The scans.                                                              *)

Open == {s \in Cursors : hstmt[s] # NoStmt}
Closed(gone) == [s \in Cursors |-> IF s \in gone THEN NoStmt ELSE hstmt[s]]

(* The statements that a step has freed under scans that are still open.   *)
LeftDangling(open) == {hstmt[s] : s \in open} \intersect (live \ live')

(* An error ends some of the queries without End: their statements stay    *)
(* with the session.                                                       *)
Forget(gone, h) ==
    /\ Becomes([h EXCEPT !.lost = @ \union ({hstmt[s] : s \in gone} \intersect h.live)])
    /\ hstmt' = Closed(gone)
    /\ dropped' = dropped \union LeftDangling(Open \ gone)

TakeStatement(s) ==
    /\ hstmt[s] = NoStmt
    /\ made.sessions + 2 <= MaxConnect /\ made.stmts + 2 <= MaxStmt
    /\ \E invalidated \in BOOLEAN :
       \E x \in FirstAttempt(State, invalidated) :
       \E y \in IF x.err = "fdw" THEN Retry(x.h) ELSE {x} :
         \/ /\ y.err = "none"
            /\ Becomes(y.h)
            /\ hstmt' = [hstmt EXCEPT ![s] = Stmt(y.h.hdbc, y.h.made.stmts)]
            /\ dropped' = dropped \union IF invalidated \/ x.err # "none"
                                         THEN LeftDangling(Open) ELSE {}
         \/ /\ y.err # "none"
            /\ \E gone \in SUBSET Open : Forget(gone, y.h)

(* Any other call on a statement fails, of a live one or of one that went  *)
(* with its session: the session the entry has now is dropped.             *)
CallFails(s) ==
    /\ s \in Open
    /\ \E h \in TbFdwReportError(Use(State, {hstmt[s]})) :
       \E gone \in SUBSET Open :
         s \in gone /\ Forget(gone, h)

(* A call that goes through.  The wrappers do not know whether the session *)
(* of the statement is still there; on a freed handle the driver may do    *)
(* anything, and here it reports nothing.                                  *)
UseStatement(s) ==
    /\ s \in Open
    /\ Becomes(Use(State, {hstmt[s]}))
    /\ UNCHANGED <<hstmt, dropped>>

(* tiberoEndForeignScan: SQL_DROP frees the handle, live or not.           *)
\* Mutant: SQL_CLOSE only closes the cursor.
SQLFreeStmt_Close(h, handle) == Use(h, {handle})
SQLFreeStmt(h, handle) == Freed(Use(h, {handle}), {handle})

DropStatement(s) ==
    /\ s \in Open
    /\ Becomes(SQLFreeStmt(State, hstmt[s]))
    /\ hstmt' = Closed({s})
    /\ UNCHANGED dropped

-----------------------------------------------------------------------------
(* TbfdwXactCallback, for this entry: at a commit all scans are closed, an *)
(* abort leaves them.                                                      *)

(* SQLEndTran fails or not; then the session may have to be closed.        *)
EndTransaction(h) ==
    IF h.connected THEN {Ok(h)} \union FdwError(h) \union disconnect_tb_server(h)
    ELSE {Ok(h)}

XactEnds ==
    /\ \E x \in EndTransaction(State) :
         LET left == {hstmt[s] : s \in Open} \intersect x.h.live
         IN Becomes([x.h EXCEPT !.lost = @ \union left])
    /\ hstmt' = Closed(Open)
    /\ UNCHANGED dropped

(* An abort in error recursion trouble forgets the session.                *)
XactTrouble ==
    /\ conn.connected
    /\ Becomes([State EXCEPT !.connected = FALSE,
                  !.lost = @ \union OfSession(State)])
    /\ hstmt' = Closed(Open)
    /\ UNCHANGED dropped

HandleNext ==
    \/ \E s \in Cursors :
          TakeStatement(s) \/ UseStatement(s) \/ CallFails(s) \/ DropStatement(s)
    \/ XactEnds \/ XactTrouble

HandleSpec == HandleInit /\ [][HandleNext]_handleVars

-----------------------------------------------------------------------------
(* Properties.                                                             *)

(* No handle is freed twice or used once it was freed, whatever call       *)
(* failed and however the error path cleaned up, with two exceptions: a    *)
(* statement that went with its session goes on being used by its scan;    *)
(* and once disconnect_tb_server fails to free an environment, the error   *)
(* path meets the connection that was freed before it.                     *)
HandlesUsedLive ==
    \A x \in misused : IF x.kind = "stmt" THEN x \in dropped ELSE refused

(* Every live handle belongs to the entry's session or to an open scan, or *)
(* is one that a failure left behind: a failed attempt to connect, a query *)
(* that did not reach its End, a session that the error path could not     *)
(* close, or one that was forgotten in trouble.                            *)
NothingLeaks ==
    \A x \in live \ lost :
        /\ conn.connected
        /\ x \in {Env(conn.henv), Dbc(conn.hdbc)} \union {hstmt[s] : s \in Open}

(* A scan's statement is live as long as no failure and no invalidation    *)
(* freed it: the regular ends of transactions and of other scans do not    *)
(* pull it away.                                                           *)
StatementsLive == \A s \in Open : hstmt[s] \in live \union dropped
=============================================================================

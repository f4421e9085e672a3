--------------------------- MODULE RemoteSnapshot ---------------------------
(***************************************************************************)
(* Flashback queries: which state of the remote database the scans of a    *)
(* session read.                                                           *)
(*                                                                         *)
(* With use_fb_query a scan's statement ends in "as of tsn ?".  One TSN    *)
(* (the remote transaction number) is fetched for each client command, by  *)
(* the first get_tb_statement of the command, into a buffer of the cache   *)
(* entry.  Every scan of the session binds the address of that buffer, and *)
(* the driver reads it when the scan is executed.                          *)
(*                                                                         *)
(* One entry of the cache is modelled.  A TSN is a number that grows with  *)
(* the commits of the remote database; 0 stands for a buffer that nothing  *)
(* has been fetched into.                                                  *)
(***************************************************************************)
EXTENDS Naturals

CONSTANTS
    Scans,      \* the foreign scans, each with the plan kept for it
    MaxTsn,     \* bound on the remote commits
    MaxCommand, \* bound on the client's commands
    MaxSession  \* bound on the connections made

ASSUME SnapshotBounds ==
    MaxTsn \in Nat /\ MaxCommand \in Nat /\ MaxSession \in Nat

VARIABLES
    remote_tsn,  \* the remote database's current TSN
    command,     \* GetCurrentStatementStartTimestamp, as a number
    command_tsn, \* what remote_tsn was when the command started
    xact_level,  \* IsolationUsesXactSnapshot()
    entry,       \* the ConnCacheEntry, session counts its connections
    plan,        \* fdw_private and the statement text of each scan
    scan         \* TbStatement of each scan, and what it read

snapVars == <<remote_tsn, command, command_tsn, xact_level, entry, plan, scan>>

Plans == [use_fb_query : BOOLEAN, placeholder : BOOLEAN]
Entries == [connected : BOOLEAN, session : Nat, tsn : Nat, stmt_ts : Nat]
Statements ==
    [state : {"none", "begun", "executed"}, session : Nat, bound : BOOLEAN,
     placeholder : BOOLEAN,
     retried : BOOLEAN,  \* its session was made by the PG_CATCH retry
     begun : Nat,        \* the command it began in
     since : Nat,        \* command_tsn at that time
     ran : Nat,          \* the command it was last executed in
     at : Nat]           \* the TSN it was executed with

SnapTypeOK ==
    /\ remote_tsn \in Nat \ {0} /\ command \in Nat \ {0} /\ command_tsn \in Nat
    /\ xact_level \in BOOLEAN
    /\ entry \in Entries
    /\ plan \in [Scans -> Plans]
    /\ scan \in [Scans -> Statements]

NoStatement ==
    [state |-> "none", session |-> 0, bound |-> FALSE, placeholder |-> FALSE,
     retried |-> FALSE, begun |-> 0, since |-> 0, ran |-> 0, at |-> 0]

SnapInit ==
    /\ remote_tsn = 1 /\ command = 1 /\ command_tsn = 1
    /\ xact_level \in BOOLEAN
    /\ entry = [connected |-> FALSE, session |-> 0, tsn |-> 0, stmt_ts |-> 0]
    /\ plan = [s \in Scans |-> [use_fb_query |-> FALSE, placeholder |-> FALSE]]
    /\ scan = [s \in Scans |-> NoStatement]

-----------------------------------------------------------------------------
(* The client and the remote database.                                     *)

RemoteCommits ==
    /\ remote_tsn < MaxTsn
    /\ remote_tsn' = remote_tsn + 1
    /\ UNCHANGED <<command, command_tsn, xact_level, entry, plan, scan>>

NewCommand ==
    /\ command < MaxCommand
    /\ command' = command + 1
    /\ command_tsn' = remote_tsn
    /\ UNCHANGED <<remote_tsn, xact_level, entry, plan, scan>>

Disconnected(e) == [e EXCEPT !.connected = FALSE]

(* The end of a transaction closes its scans and may close the session;    *)
(* the next one chooses its isolation level.  Plans may be kept.           *)
NewXact ==
    /\ command < MaxCommand
    /\ command' = command + 1
    /\ command_tsn' = remote_tsn
    /\ xact_level' \in BOOLEAN
    /\ entry' \in {entry, Disconnected(entry)}
    /\ scan' = [s \in Scans |-> NoStatement]
    /\ UNCHANGED <<remote_tsn, plan>>

(* tiberoGetForeignPlan keeps the option, deparse_relation decides about   *)
(* the placeholder by the isolation level at planning time.                *)
PlanScan(s) ==
    /\ scan[s].state = "none"
    /\ \E fb \in BOOLEAN :
         plan' = [plan EXCEPT ![s] = [use_fb_query |-> fb,
                                      placeholder |-> fb /\ ~xact_level]]
    /\ UNCHANGED <<remote_tsn, command, command_tsn, xact_level, entry, scan>>

-----------------------------------------------------------------------------
(* tiberoBeginForeignScan: get_tb_statement, and the binding.              *)

(* make_tb_connection: stmt_ts is reset, the buffer is not.                *)
\* Mutant: the buffer is reset too.
NewSession_Cleared(e) ==
    [e EXCEPT !.connected = TRUE, !.session = @ + 1, !.stmt_ts = 0, !.tsn = 0]
NewSession(e) ==
    [e EXCEPT !.connected = TRUE, !.session = @ + 1, !.stmt_ts = 0]

\* Mutants: a TSN for every statement; one for the life of a session.
need_remote_snapshot_Always(e) == ~xact_level
need_remote_snapshot_Once(e) == ~xact_level /\ e.stmt_ts = 0
need_remote_snapshot(e) == ~xact_level /\ e.stmt_ts # command

(* The statement as Begin leaves it.  The copy of the TSN that             *)
(* get_tb_statement makes in the statement is left out: nothing reads it.  *)
Begun(s, e, retried) ==
    [state |-> "begun", session |-> e.session,
     bound |-> plan[s].use_fb_query /\ ~xact_level,
     placeholder |-> plan[s].placeholder, retried |-> retried,
     begun |-> command, since |-> command_tsn, ran |-> 0, at |-> 0]

(* The entry once it is known to be connected: an invalidation since the   *)
(* last call makes it reconnect.                                           *)
UsableEntry == {NewSession(entry)} \union (IF entry.connected THEN {entry} ELSE {})

(* The entry after the TSN of the command was fetched, where it is.        *)
Fetches(s, e) == plan[s].use_fb_query /\ need_remote_snapshot(e)
Served(s, e) ==
    IF Fetches(s, e) THEN [e EXCEPT !.tsn = remote_tsn, !.stmt_ts = command]
    ELSE e

BeginScan(s) ==
    /\ scan[s].state = "none"
    /\ \E e \in UsableEntry :
         /\ e.session <= MaxSession
         /\ entry' = Served(s, e)
         /\ scan' = [scan EXCEPT ![s] = Begun(s, e, FALSE)]
    /\ UNCHANGED <<remote_tsn, command, command_tsn, xact_level, plan>>

(* What a failed attempt may have left in the buffer.                      *)
LeftInBuffer(s) == {entry.tsn} \union {Served(s, e).tsn : e \in UsableEntry}

(* A driver error in the first attempt: the retry makes a new session and  *)
(* fetches no TSN.                                                         *)
BeginRetried(s) ==
    /\ scan[s].state = "none"
    /\ entry.session < MaxSession
    /\ \E left \in LeftInBuffer(s) :
         entry' = NewSession([entry EXCEPT !.tsn = left])
    /\ scan' = [scan EXCEPT ![s] = Begun(s, entry', TRUE)]
    /\ UNCHANGED <<remote_tsn, command, command_tsn, xact_level, plan>>

(* An error leaves the query's scans behind; a savepoint may keep the      *)
(* transaction and the scans of outer queries.                             *)
Abandon(s) ==
    \E gone \in SUBSET Scans :
        /\ s \in gone
        /\ scan' = [t \in Scans |-> IF t \in gone THEN NoStatement ELSE scan[t]]

BeginFails(s) ==
    /\ scan[s].state = "none"
    /\ \E left \in LeftInBuffer(s) :
         entry' = Disconnected([entry EXCEPT !.tsn = left])
    /\ Abandon(s)
    /\ UNCHANGED <<remote_tsn, command, command_tsn, xact_level, plan>>

-----------------------------------------------------------------------------
(* The executor's other calls.                                             *)

Alive(s) == entry.connected /\ scan[s].session = entry.session

(* The first Iterate, and the first after a rescan: the driver reads the   *)
(* buffer whose address was bound.  A placeholder that was not bound is     *)
(* refused; a value bound to no placeholder is ignored or refused, so it    *)
(* may go either way.                                                       *)
Execute(s) ==
    /\ scan[s].state = "begun"
    /\ Alive(s)
    /\ scan[s].placeholder => scan[s].bound
    /\ scan' = [scan EXCEPT ![s].state = "executed", ![s].ran = command,
                            ![s].at = entry.tsn]
    /\ UNCHANGED <<remote_tsn, command, command_tsn, xact_level, entry, plan>>

(* Any call on the statement fails: also since its session is gone.        *)
StatementFails(s) ==
    /\ scan[s].state # "none"
    /\ entry' = Disconnected(entry)
    /\ Abandon(s)
    /\ UNCHANGED <<remote_tsn, command, command_tsn, xact_level, plan>>

ReScan(s) ==
    /\ scan[s].state = "executed"
    /\ scan' = [scan EXCEPT ![s].state = "begun"]
    /\ UNCHANGED <<remote_tsn, command, command_tsn, xact_level, entry, plan>>

EndScan(s) ==
    /\ scan[s].state # "none"
    /\ Alive(s)
    /\ scan' = [scan EXCEPT ![s] = NoStatement]
    /\ UNCHANGED <<remote_tsn, command, command_tsn, xact_level, entry, plan>>

ScanStep(s) ==
    \/ PlanScan(s)
    \/ BeginScan(s) \/ BeginRetried(s) \/ BeginFails(s)
    \/ Execute(s) \/ StatementFails(s) \/ ReScan(s) \/ EndScan(s)

SnapNext ==
    \/ RemoteCommits \/ NewCommand \/ NewXact
    \/ \E s \in Scans : ScanStep(s)

SnapSpec == SnapInit /\ [][SnapNext]_snapVars

-----------------------------------------------------------------------------
(* Properties.                                                             *)

(* A scan whose rows are those of the TSN it was executed with.            *)
Flashback(x) == x.state = "executed" /\ x.placeholder /\ x.bound

(* One that read in the command it began in, on a session that was not     *)
(* made by the retry.                                                      *)
Prompt(x) == Flashback(x) /\ ~x.retried /\ x.ran = x.begun

(* All scans of one command read the same snapshot, as long as they are on *)
(* one session, although each reads a buffer that others write, while the  *)
(* remote database goes on and sessions come and go.                       *)
OneSnapshot ==
    \A s, t \in Scans :
        /\ Prompt(scan[s]) /\ Prompt(scan[t])
        /\ scan[s].session = scan[t].session
        /\ scan[s].ran = scan[t].ran
        => scan[s].at = scan[t].at

(* No scan reads a state older than the start of the command it began in:  *)
(* what was committed remotely before the command is seen.  This includes  *)
(* cursors and rescans, which execute after later commands wrote the       *)
(* buffer, and excludes the retry, which fetches no TSN.                   *)
NotBeforeCommand ==
    \A s \in Scans :
        Flashback(scan[s]) /\ ~scan[s].retried => scan[s].at >= scan[s].since

(* Later executions never read an earlier state than scans still open did, *)
(* not even after a retry or on another session.                           *)
SnapshotsForward ==
    [][\A s, t \in Scans :
         /\ Flashback(scan[t])
         /\ ~Flashback(scan[s]) /\ Flashback(scan'[s])
         => scan'[s].at >= scan[t].at]_snapVars
=============================================================================

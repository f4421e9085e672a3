----------------------------- MODULE SleepOnSig -----------------------------
(***************************************************************************)
(* The sleep-on-signal debugging aid (src/utils.c): while the flag is set, *)
(* a fatal signal makes the backend wait for a debugger.  Every callback   *)
(* sets the flag and clears it when it returns; one that is left by an     *)
(* error does not clear it, and callbacks nest.                            *)
(*                                                                         *)
(* The handlers of the four signals are alike; one is modelled.            *)
(***************************************************************************)
EXTENDS Naturals, Sequences

VARIABLES
    use_sleep_on_sig,  \* the flag
    handlers_registered, \* is_signal_handlers_registered
    handler,           \* the installed handler, "ours" or "default"
    prev_handler,      \* the one it replaced
    calls,             \* the module's callbacks being run, outermost first
    xact,              \* the local transaction
    got,               \* xact_got_connection
    hashed,            \* the connection cache and its callbacks exist
    left,              \* an error left the last callback, in a transaction
                       \* that had got no connection
    process            \* the backend

sigVars == <<use_sleep_on_sig, handlers_registered, handler, prev_handler,
             calls, xact, got, hashed, left, process>>

handlerVars == <<handlers_registered, handler, prev_handler>>

SigTypeOK ==
    /\ use_sleep_on_sig \in BOOLEAN
    /\ handlers_registered \in BOOLEAN
    /\ handler \in {"default", "ours"} /\ prev_handler \in {"none", "default", "ours"}
    /\ calls \in Seq({"callback", "inval", "xact"}) /\ Len(calls) <= 2
    /\ xact \in {"none", "active", "failed"}
    /\ got \in BOOLEAN /\ hashed \in BOOLEAN /\ left \in BOOLEAN
    /\ process \in {"running", "asleep", "dead"}

SigInit ==
    /\ use_sleep_on_sig = FALSE /\ handlers_registered = FALSE
    /\ handler = "default" /\ prev_handler = "none"
    /\ calls = <<>> /\ xact = "none" /\ got = FALSE /\ hashed = FALSE
    /\ left = FALSE /\ process = "running"

set_sleep_on_sig_on == use_sleep_on_sig' = TRUE
set_sleep_on_sig_off == use_sleep_on_sig' = FALSE

Running == process = "running"

-----------------------------------------------------------------------------
(* Callbacks of the planner, the executor and the catalog caches.          *)

StartXact ==
    /\ Running /\ xact = "none" /\ calls = <<>>
    /\ xact' = "active"
    /\ UNCHANGED <<use_sleep_on_sig, handlerVars, calls, got, hashed, left, process>>

Callback ==
    /\ Running /\ xact = "active" /\ calls = <<>>
    /\ calls' = <<"callback">>
    /\ set_sleep_on_sig_on
    /\ left' = FALSE
    /\ UNCHANGED <<handlerVars, xact, got, hashed, process>>

(* tiberoGetForeignRelSize, of a server with the option on.                *)
\* Mutant: installed by every query.
register_signal_handlers_Always ==
    /\ Running /\ calls = <<"callback">>
    /\ handlers_registered' = TRUE
    /\ prev_handler' = handler /\ handler' = "ours"
    /\ UNCHANGED <<use_sleep_on_sig, calls, xact, got, hashed, left, process>>
register_signal_handlers ==
    /\ Running /\ calls = <<"callback">> /\ ~handlers_registered
    /\ handlers_registered' = TRUE
    /\ prev_handler' = handler /\ handler' = "ours"
    /\ UNCHANGED <<use_sleep_on_sig, calls, xact, got, hashed, left, process>>

(* get_tb_statement, in a Begin callback.                                  *)
GotConnection ==
    /\ Running /\ calls = <<"callback">>
    /\ got' = TRUE /\ hashed' = TRUE
    /\ UNCHANGED <<use_sleep_on_sig, handlerVars, calls, xact, left, process>>

(* TbfdwInvalCallback runs wherever the backend looks at a catalog, also   *)
(* inside another callback.                                                *)
Inval ==
    /\ Running /\ hashed /\ calls \in {<<>>, <<"callback">>}
    /\ calls' = Append(calls, "inval")
    /\ set_sleep_on_sig_on
    /\ left' = FALSE
    /\ UNCHANGED <<handlerVars, xact, got, hashed, process>>

Innermost == calls[Len(calls)]

Return ==
    /\ Running /\ calls # <<>> /\ Innermost # "xact"
    /\ calls' = SubSeq(calls, 1, Len(calls) - 1)
    /\ set_sleep_on_sig_off
    /\ UNCHANGED <<handlerVars, xact, got, hashed, left, process>>

(* An error leaves a callback.  If a savepoint traps it, the               *)
(* subtransaction callback runs, which does no more than this.             *)
Error ==
    /\ Running /\ calls = <<"callback">>
    /\ calls' = <<>>
    /\ left' = ~got
    /\ \/ xact' = "active" /\ use_sleep_on_sig' = (use_sleep_on_sig /\ ~got)
       \/ xact' = "failed" /\ UNCHANGED use_sleep_on_sig
    /\ UNCHANGED <<handlerVars, got, hashed, process>>

-----------------------------------------------------------------------------
(* TbfdwXactCallback: before a commit and after an abort.                  *)

EndXact ==
    /\ Running /\ xact # "none" /\ calls = <<>>
    /\ IF got THEN /\ calls' = <<"xact">> /\ set_sleep_on_sig_on
                   /\ left' = FALSE /\ UNCHANGED xact
       ELSE xact' = "none" /\ UNCHANGED <<calls, use_sleep_on_sig, left>>
    /\ UNCHANGED <<handlerVars, got, hashed, process>>

XactReturn ==
    /\ Running /\ calls = <<"xact">>
    /\ calls' = <<>> /\ xact' = "none" /\ got' = FALSE
    /\ set_sleep_on_sig_off
    /\ UNCHANGED <<handlerVars, hashed, left, process>>

(* An error in it aborts the transaction, for which it runs again.         *)
\* Mutant: the callback forgets the connections before it visits them.
XactError_Forget ==
    /\ Running /\ calls = <<"xact">>
    /\ calls' = <<>> /\ xact' = "failed" /\ got' = FALSE
    /\ UNCHANGED <<use_sleep_on_sig, handlerVars, hashed, left, process>>
XactError ==
    /\ Running /\ calls = <<"xact">>
    /\ calls' = <<>> /\ xact' = "failed"
    /\ UNCHANGED <<use_sleep_on_sig, handlerVars, got, hashed, left, process>>

-----------------------------------------------------------------------------
(* A fatal signal.                                                         *)

(* The handler that replaced itself by prev_handler raises the signal once *)
(* more; the default action ends the process.                              *)
Raise(h) == IF h = "default" THEN "dead" ELSE "running"

Signal ==
    /\ Running
    /\ IF handler = "default" THEN process' = "dead" /\ UNCHANGED handler
       ELSE IF use_sleep_on_sig THEN process' = "asleep" /\ UNCHANGED handler
       ELSE handler' = prev_handler /\ process' = Raise(prev_handler)
    /\ UNCHANGED <<use_sleep_on_sig, handlers_registered, prev_handler, calls,
                   xact, got, hashed, left>>

(* Somebody attaches a debugger and clears the flag.                       *)
WakeUp ==
    /\ process = "asleep"
    /\ set_sleep_on_sig_off
    /\ handler' = prev_handler /\ process' = Raise(prev_handler)
    /\ UNCHANGED <<handlers_registered, prev_handler, calls, xact, got, hashed,
                   left>>

SigNext ==
    \/ StartXact \/ Callback \/ register_signal_handlers \/ GotConnection
    \/ Inval \/ Return \/ Error
    \/ EndXact \/ XactReturn \/ XactError
    \/ Signal \/ WakeUp

SigSpec == SigInit /\ [][SigNext]_sigVars

-----------------------------------------------------------------------------
(* Properties.                                                             *)

(* Between transactions the flag is off, unless the last callback was left *)
(* by an error in a transaction that never got a connection: for the       *)
(* others the transaction callback clears it, even if it fails itself.     *)
(* And a signal that is not slept on ends the process: the handler never   *)
(* hands it to itself, however many queries register it.                   *)
SignalsHandedOn ==
    /\ use_sleep_on_sig /\ xact = "none" /\ calls = <<>> => left
    /\ handlers_registered => prev_handler # "ours"
=============================================================================

---------------------------- MODULE RemoteCommit ----------------------------
(***************************************************************************)
(* What the connection cache promises to the local transaction manager:    *)
(* remote work of a transaction is published only after the transaction    *)
(* has decided to commit, and when it has ended none is left where a later *)
(* commit would publish it.  Unpublished work may be lost with a session   *)
(* while the transaction is open, also without its being told; once it has *)
(* decided to commit, a loss turns it to undoing.  Work may be abandoned   *)
(* in a session that nobody ends, and is then neither published nor taken  *)
(* back; published work is never taken back.                               *)
(* ConnCache implements this specification.                                *)
(***************************************************************************)
EXTENDS Naturals

CONSTANTS
    Mappings,   \* the user mappings, one remote session each
    MayAbandon  \* TRUE if a session may be left with its transaction open

VARIABLES
    xact,       \* the number of the current or last local transaction
    stage,      \* "idle", "open", "deciding" or "undoing"
    pending,    \* pending[k]: transactions with unpublished work at k
    published,  \* published[k]: transactions with permanent work at k
    abandoned   \* abandoned[k]: transactions with work in a forgotten session

rvars == <<xact, stage, pending, published, abandoned>>

Init ==
    /\ xact = 0
    /\ stage = "idle"
    /\ pending = [k \in Mappings |-> {}]
    /\ published = [k \in Mappings |-> {}]
    /\ abandoned = [k \in Mappings |-> {}]

Begin ==
    /\ stage = "idle"
    /\ xact' = xact + 1
    /\ stage' = "open"
    /\ UNCHANGED <<pending, published, abandoned>>

Write(k) ==
    /\ stage = "open"
    /\ pending' = [pending EXCEPT ![k] = @ \union {xact}]
    /\ UNCHANGED <<xact, stage, published, abandoned>>

(* A loss after the decision to commit takes the decision back.            *)
StageAfterLoss == IF stage = "deciding" THEN "undoing" ELSE stage

Lose(k) ==
    /\ stage # "idle"
    /\ pending' = [pending EXCEPT ![k] = {}]
    /\ stage' = StageAfterLoss
    /\ UNCHANGED <<xact, published, abandoned>>

Abandon(k) ==
    /\ MayAbandon
    /\ stage # "idle"
    /\ abandoned' = [abandoned EXCEPT ![k] = @ \union pending[k]]
    /\ pending' = [pending EXCEPT ![k] = {}]
    /\ stage' = StageAfterLoss
    /\ UNCHANGED <<xact, published>>

(* A statement of a forgotten session goes on writing there.               *)
WriteAside(k) ==
    /\ MayAbandon
    /\ stage = "open"
    /\ abandoned' = [abandoned EXCEPT ![k] = @ \union {xact}]
    /\ UNCHANGED <<xact, stage, pending, published>>

Decide ==
    /\ stage = "open"
    /\ stage' = "deciding"
    /\ UNCHANGED <<xact, pending, published, abandoned>>

(* The work goes through; closing the session may still fail, and then the *)
(* transaction turns to undoing what is left.                              *)
Publish(k) ==
    /\ stage = "deciding"
    /\ published' = [published EXCEPT ![k] = @ \union pending[k]]
    /\ pending' = [pending EXCEPT ![k] = {}]
    /\ stage' \in {"deciding", "undoing"}
    /\ UNCHANGED <<xact, abandoned>>

Undo ==
    /\ stage \in {"open", "deciding"}
    /\ stage' = "undoing"
    /\ UNCHANGED <<xact, pending, published, abandoned>>

End ==
    /\ stage # "idle"
    /\ \A k \in Mappings : pending[k] = {}
    /\ stage' = "idle"
    /\ UNCHANGED <<xact, pending, published, abandoned>>

Next ==
    \/ Begin \/ Decide \/ Undo \/ End
    \/ \E k \in Mappings :
          Write(k) \/ WriteAside(k) \/ Lose(k) \/ Abandon(k) \/ Publish(k)

Spec == Init /\ [][Next]_rvars
=============================================================================

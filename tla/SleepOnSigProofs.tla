-------------------------- MODULE SleepOnSigProofs --------------------------
(***************************************************************************)
(* Proofs about SleepOnSig.  The flag that stays on between two callbacks  *)
(* is either one that an error left in a transaction without connections,  *)
(* or one that the transaction callback is still to clear.                 *)
(***************************************************************************)
EXTENDS SleepOnSig, SequenceTheorems, TLAPS

Kinds == {"callback", "inval", "xact"}

(* How callbacks nest, and in which transactions.                          *)
CallsNest ==
    /\ calls \in Seq(Kinds) /\ Len(calls) <= 2
    /\ Len(calls) = 2 => calls[1] = "callback" /\ calls[2] = "inval"
    /\ calls # <<>> /\ calls[1] = "callback" => xact = "active"
    /\ calls # <<>> /\ calls[1] = "xact" => xact # "none" /\ got

(* Who will clear the flag.                                                *)
FlagPending ==
    use_sleep_on_sig /\ calls = <<>> => left \/ (xact # "none" /\ got)

(* The handler is the default one until it is registered, once.            *)
HandlerOnce ==
    /\ ~handlers_registered => handler = "default"
    /\ handlers_registered => prev_handler = "default"
    /\ process = "asleep" => handlers_registered

(* What has no Seq in it of SigTypeOK.                                     *)
Simple ==
    /\ use_sleep_on_sig \in BOOLEAN
    /\ handlers_registered \in BOOLEAN
    /\ handler \in {"default", "ours"} /\ prev_handler \in {"none", "default", "ours"}
    /\ xact \in {"none", "active", "failed"}
    /\ got \in BOOLEAN /\ hashed \in BOOLEAN /\ left \in BOOLEAN
    /\ process \in {"running", "asleep", "dead"}

IInv == Simple /\ CallsNest /\ FlagPending /\ HandlerOnce

-----------------------------------------------------------------------------
(* Nothing is set in the initial state.                                   *)
LEMMA InitValid == SigInit => IInv
<1> SUFFICES ASSUME SigInit PROVE IInv
    OBVIOUS
<1>1. calls = <<>> /\ Len(calls) = 0 /\ calls \in Seq(Kinds)
    BY DEF SigInit
<1>2. CallsNest
    BY <1>1 DEF CallsNest
<1> QED BY <1>2 DEF SigInit, IInv, Simple, FlagPending, HandlerOnce

(* A stack of one callback is not empty, and its callback the only one.    *)
LEMMA OneCall ==
    ASSUME NEW k \in Kinds
    PROVE  /\ <<k>> \in Seq(Kinds) /\ Len(<<k>>) = 1
           /\ <<k>> # <<>> /\ <<k>>[1] = k
<1>1. Len(<<k>>) = 1 /\ <<k>> \in Seq(Kinds) /\ <<k>>[1] = k
    OBVIOUS
<1>2. Len(<<>>) = 0
    OBVIOUS
<1> QED BY <1>1, <1>2

(* An invalidation is entered on top of a stack of at most one callback.   *)
LEMMA Entered ==
    ASSUME calls \in {<<>>, <<"callback">>}
    PROVE  LET entered == Append(calls, "inval")
           IN  /\ entered \in Seq(Kinds) /\ Len(entered) = Len(calls) + 1
               /\ Len(calls) \in {0, 1}
               /\ entered # <<>>
               /\ Len(calls) = 1 => entered[1] = "callback" /\ entered[2] = "inval"
               /\ Len(calls) = 0 => entered[1] = "inval"
               /\ Len(calls) = 1 => calls # <<>> /\ calls[1] = "callback"
<1> DEFINE entered == Append(calls, "inval")
<1>1. calls \in Seq(Kinds)
  <2>1. <<"callback">> \in Seq(Kinds)
      BY OneCall DEF Kinds
  <2>2. <<>> \in Seq(Kinds)
      BY EmptySeq
  <2> QED BY <2>1, <2>2, Zenon
<1>2. Len(calls) = 0 \/ (Len(calls) = 1 /\ calls[1] = "callback")
    OBVIOUS
<1>3. /\ entered \in Seq(Kinds) /\ Len(entered) = Len(calls) + 1
      /\ \A i \in 1 .. Len(calls) : entered[i] = calls[i]
      /\ entered[Len(calls) + 1] = "inval"
    BY <1>1 DEF Kinds
<1>4. entered # <<>>
    BY <1>3, <1>2, EmptySeq
<1>5. Len(calls) = 1 => calls # <<>>
    BY <1>1, EmptySeq
<1> QED BY <1>2, <1>3, <1>4, <1>5

(* The innermost callback returns.                                         *)
LEMMA Returned ==
    ASSUME calls \in Seq(Kinds), calls # <<>>, Len(calls) <= 2
    PROVE  LET rest == SubSeq(calls, 1, Len(calls) - 1)
           IN  /\ rest \in Seq(Kinds) /\ Len(rest) = Len(calls) - 1
               /\ Len(calls) \in {1, 2}
               /\ rest # <<>> => Len(calls) = 2 /\ rest[1] = calls[1]
<1> DEFINE rest == SubSeq(calls, 1, Len(calls) - 1)
<1>1. Len(calls) \in Nat /\ Len(calls) # 0
    BY EmptySeq
<1>2. /\ rest \in Seq(Kinds)
      /\ Len(rest) = IF 1 <= Len(calls) - 1 THEN Len(calls) - 1 - 1 + 1 ELSE 0
      /\ \A i \in 1 .. Len(calls) - 1 - 1 + 1 : rest[i] = calls[1 + i - 1]
    BY <1>1, SubSeqProperties
<1> HIDE DEF rest
<1>3. Len(calls) \in {1, 2}
  <2>1. \A n \in Nat : n # 0 /\ n <= 2 => n \in {1, 2}
      OBVIOUS
  <2> QED BY <1>1, <2>1, Zenon
<1>4. Len(rest) = Len(calls) - 1
  <2>1. CASE Len(calls) = 1
      BY <1>2, <2>1
  <2>2. CASE Len(calls) = 2
      BY <1>2, <2>2
  <2> QED BY <1>3, <2>1, <2>2
<1>5. rest # <<>> => Len(calls) = 2
  <2>1. rest # <<>> => Len(rest) # 0
      BY <1>2, EmptySeq
  <2> QED BY <2>1, <1>3, <1>4
<1>6. Len(calls) = 2 => rest[1] = calls[1]
    BY <1>2
<1> QED BY <1>2, <1>3, <1>4, <1>5, <1>6 DEF rest

(* Every step leaves the flag and the handlers in order.                   *)
LEMMA StepValid ==
    ASSUME IInv, [SigNext]_sigVars
    PROVE  IInv'
<1> USE DEF handlerVars, Running, set_sleep_on_sig_on, set_sleep_on_sig_off
<1>0. /\ "callback" \in Kinds /\ "inval" \in Kinds /\ "xact" \in Kinds
      /\ "xact" # "callback"
      /\ <<>> \in Seq(Kinds) /\ Len(<<>>) = 0
    BY DEF Kinds
<1>a. Simple /\ CallsNest /\ FlagPending /\ HandlerOnce
    BY DEF IInv
<1>b. ASSUME UNCHANGED calls, CallsNest, got => got',
             xact = "active" => xact' = "active", xact # "none" => xact' # "none"
      PROVE  CallsNest'
    BY <1>b, Zenon DEF CallsNest
<1>c. ASSUME calls' = <<>>
      PROVE  CallsNest'
    BY <1>c, <1>0 DEF CallsNest
<1>d. ASSUME calls' = <<"callback">>, xact' = "active"
      PROVE  CallsNest' /\ calls' # <<>>
    BY <1>d, <1>0, OneCall DEF CallsNest
<1>1. CASE StartXact
  <2>1. CallsNest'
      BY <1>1, <1>c DEF StartXact
  <2> QED BY <1>a, <1>1, <2>1 DEF StartXact, IInv, Simple, FlagPending, HandlerOnce
<1>2. CASE Callback
  <2>1. CallsNest' /\ calls' # <<>>
      BY <1>2, <1>d DEF Callback
  <2> QED BY <1>a, <1>2, <2>1 DEF Callback, IInv, Simple, FlagPending, HandlerOnce
<1>3. CASE register_signal_handlers
  <2>1. CallsNest'
      BY <1>3, <1>a, <1>b DEF register_signal_handlers
  <2> QED BY <1>a, <1>3, <2>1
          DEF register_signal_handlers, IInv, Simple, FlagPending, HandlerOnce
<1>4. CASE GotConnection
  <2>1. CallsNest' /\ calls' # <<>>
      BY <1>4, <1>a, <1>b, <1>0, OneCall DEF GotConnection
  <2> QED BY <1>a, <1>4, <2>1
          DEF GotConnection, IInv, Simple, FlagPending, HandlerOnce
<1>5. CASE Inval
  <2> DEFINE entered == Append(calls, "inval")
  <2>1. calls \in {<<>>, <<"callback">>} /\ calls' = entered
      BY <1>5 DEF Inval
  <2>2. /\ entered \in Seq(Kinds) /\ Len(entered) = Len(calls) + 1
        /\ Len(calls) \in {0, 1}
        /\ entered # <<>>
        /\ Len(calls) = 1 => entered[1] = "callback" /\ entered[2] = "inval"
        /\ Len(calls) = 0 => entered[1] = "inval"
        /\ Len(calls) = 1 => calls # <<>> /\ calls[1] = "callback"
      BY <2>1, Entered
  <2>3. xact' = xact
      BY <1>5 DEF Inval
  <2> HIDE DEF entered
  <2>4. CallsNest'
    <3>0. \A m, n : m \in {0, 1} /\ n = m + 1 => n <= 2 /\ (n = 2 => m = 1)
        OBVIOUS
    <3>1. /\ calls' \in Seq(Kinds) /\ Len(calls') <= 2
          /\ Len(calls') = 2 => calls'[1] = "callback" /\ calls'[2] = "inval"
        BY <2>1, <2>2, <3>0, Zenon
    <3>2. calls'[1] = "callback" => Len(calls) = 1
        BY <2>1, <2>2
    <3>3. calls'[1] = "callback" => xact = "active"
        BY <1>a, <2>2, <3>2 DEF CallsNest
    <3>4. calls'[1] # "xact"
        BY <2>1, <2>2
    <3> QED BY <2>3, <3>1, <3>3, <3>4 DEF CallsNest
  <2>5. calls' # <<>>
      BY <2>1, <2>2
  <2> QED BY <1>a, <1>5, <2>4, <2>5 DEF Inval, IInv, Simple, FlagPending, HandlerOnce
<1>6. CASE Return
  <2> DEFINE rest == SubSeq(calls, 1, Len(calls) - 1)
  <2>1. calls # <<>> /\ calls' = rest /\ xact' = xact /\ got' = got
      BY <1>6 DEF Return
  <2>2. /\ rest \in Seq(Kinds) /\ Len(rest) = Len(calls) - 1
        /\ Len(calls) \in {1, 2}
        /\ rest # <<>> => Len(calls) = 2 /\ rest[1] = calls[1]
      BY <1>a, <2>1, Returned DEF CallsNest
  <2> HIDE DEF rest
  <2>3. ASSUME rest = <<>> PROVE CallsNest'
      BY <1>c, <2>1, <2>3
  <2>4. ASSUME rest # <<>> PROVE CallsNest'
    <3>1. /\ Len(calls') = 1 /\ calls' \in Seq(Kinds)
          /\ calls[1] = "callback" /\ xact = "active"
        BY <1>a, <2>1, <2>2, <2>4 DEF CallsNest
    <3>2. calls'[1] = "callback"
        BY <2>1, <2>2, <2>4, <3>1
    <3> QED BY <1>0, <3>1, <3>2, <2>1 DEF CallsNest
  <2>5. CallsNest'
      BY <2>3, <2>4
  <2> QED BY <1>a, <1>6, <2>5 DEF Return, IInv, Simple, FlagPending, HandlerOnce
<1>7. CASE Error
  <2>1. CallsNest'
      BY <1>7, <1>c DEF Error
  <2> QED BY <1>a, <1>7, <2>1 DEF Error, IInv, Simple, FlagPending, HandlerOnce
<1>8. CASE EndXact
  <2>1. CASE got
    <3>1. calls' = <<"xact">> /\ xact' # "none" /\ got'
        BY <1>8, <2>1 DEF EndXact
    <3>2. CallsNest' /\ calls' # <<>>
        BY <3>1, <1>0, OneCall DEF CallsNest
    <3> QED BY <1>a, <1>8, <2>1, <3>2
            DEF EndXact, IInv, Simple, FlagPending, HandlerOnce
  <2>2. CASE ~got
    <3>1. CallsNest'
        BY <1>8, <2>2, <1>c DEF EndXact
    <3> QED BY <1>a, <1>8, <2>2, <3>1
            DEF EndXact, IInv, Simple, FlagPending, HandlerOnce
  <2> QED BY <2>1, <2>2
<1>9. CASE XactReturn
  <2>1. CallsNest'
      BY <1>9, <1>c DEF XactReturn
  <2> QED BY <1>a, <1>9, <2>1 DEF XactReturn, IInv, Simple, FlagPending, HandlerOnce
<1>10. CASE XactError
  <2>1. got
      BY <1>a, <1>10, <1>0, OneCall DEF XactError, CallsNest
  <2>2. CallsNest'
      BY <1>10, <1>c DEF XactError
  <2> QED BY <1>a, <1>10, <2>1, <2>2
          DEF XactError, IInv, Simple, FlagPending, HandlerOnce
<1>11. CASE Signal
  <2>1. CallsNest'
      BY <1>11, <1>a, <1>b DEF Signal
  <2> QED BY <1>a, <1>11, <2>1
          DEF Signal, Raise, IInv, Simple, FlagPending, HandlerOnce
<1>12. CASE WakeUp
  <2>1. CallsNest'
      BY <1>12, <1>a, <1>b DEF WakeUp
  <2> QED BY <1>a, <1>12, <2>1
          DEF WakeUp, Raise, IInv, Simple, FlagPending, HandlerOnce
<1>13. CASE UNCHANGED sigVars
  <2>1. CallsNest'
      BY <1>13, <1>a, <1>b DEF sigVars
  <2> QED BY <1>a, <1>13, <2>1 DEF sigVars, IInv, Simple, FlagPending, HandlerOnce
<1> QED
    BY <1>1, <1>2, <1>3, <1>4, <1>5, <1>6, <1>7, <1>8, <1>9, <1>10, <1>11,
       <1>12, <1>13 DEF SigNext

(* The flag and the handlers after any history of callbacks and signals.   *)
THEOREM FlagAndHandlers == SigSpec => []IInv
BY InitValid, StepValid, PTL DEF SigSpec

(* The state keeps its type; callbacks nest two deep at most.              *)
THEOREM SigTypes == SigSpec => []SigTypeOK
<1>1. IInv => SigTypeOK
  <2> SUFFICES ASSUME IInv PROVE SigTypeOK
      OBVIOUS
  <2>1. calls \in Seq({"callback", "inval", "xact"}) /\ Len(calls) <= 2
      BY DEF IInv, CallsNest, Kinds
  <2> QED BY <2>1 DEF IInv, Simple, SigTypeOK
<1> QED BY <1>1, FlagAndHandlers, PTL

(* Between transactions the flag is off, but for an error in a transaction *)
(* that got no connection; and no handler raises a signal for itself.      *)
THEOREM HandedOn == SigSpec => []SignalsHandedOn
<1>1. IInv => SignalsHandedOn
    BY DEF IInv, Simple, FlagPending, HandlerOnce, SignalsHandedOn
<1> QED BY <1>1, FlagAndHandlers, PTL
=============================================================================

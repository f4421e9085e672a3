-------------------------- MODULE CacheEntryProofs --------------------------
(***************************************************************************)
(* Proofs about what one entry of the connection cache holds besides the   *)
(* transaction's state: the buffer for the snapshot that all scans share   *)
(* (RemoteSnapshot), and the handles of the client library (TbcliHandles). *)
(* They hold for any number of scans, commands, sessions and statements.   *)
(***************************************************************************)
EXTENDS RemoteSnapshot, TbcliHandles, TLAPS

-----------------------------------------------------------------------------
(***************************************************************************)
(* RemoteSnapshot.                                                         *)
(*                                                                         *)
(* The buffer that all scans share only grows, so no scan reads less than  *)
(* what the buffer held when it began.  And it is written once in a        *)
(* command on one session: what the scans of the command that execute in   *)
(* it find there is what the first of them wrote.                          *)
(***************************************************************************)
(* The clocks.                                                             *)
ClocksOK ==
    /\ remote_tsn \in Nat \ {0} /\ command \in Nat \ {0} /\ command_tsn \in Nat
    /\ command_tsn <= remote_tsn
    /\ xact_level \in BOOLEAN
    /\ plan \in [Scans -> Plans]

(* An entry whose buffer is not from the future, and serves the command    *)
(* that it was written in.                                                 *)
EntryOK(e) ==
    /\ e \in Entries
    /\ e.tsn <= remote_tsn
    /\ e.stmt_ts <= command
    /\ e.stmt_ts = command => command_tsn <= e.tsn

(* A scan that reads the buffer of the session e is connected to.          *)
OnEntry(x, e) ==
    /\ e.connected /\ x.session = e.session
    /\ x.state # "none" /\ x.bound /\ ~x.retried

(* A statement whose session is e's, or an earlier one.  If it is e's, its *)
(* command has put its TSN in the buffer, and what it read in the current  *)
(* command is still there.                                                 *)
ScanOK(x, e) ==
    /\ x \in Statements
    /\ x.at <= e.tsn /\ x.session <= e.session
    /\ x.begun <= command /\ x.ran <= command
    /\ x.state # "none" /\ x.bound => ~xact_level
    /\ OnEntry(x, e) => /\ x.since <= e.tsn
                        /\ x.begun = command => e.stmt_ts = command
    /\ OnEntry(x, e) /\ Prompt(x) /\ x.ran = command => x.at = e.tsn
    /\ Flashback(x) /\ ~x.retried => x.since <= x.at

SnapInv ==
    /\ ClocksOK /\ EntryOK(entry)
    /\ \A s \in Scans : ScanOK(scan[s], entry)
    /\ scan \in [Scans -> Statements]
    /\ OneSnapshot

(* How an entry may change into another in one step of a command.          *)
Follows(e, f) ==
    /\ e.tsn <= f.tsn /\ e.session <= f.session
    /\ f.connected /\ f.session = e.session
       => /\ e.connected
          /\ e.stmt_ts = command => f.stmt_ts = command /\ f.tsn = e.tsn

-----------------------------------------------------------------------------
(* A scan stays in order when the entry changes under it.                  *)
LEMMA ScanKept ==
    ASSUME ClocksOK, NEW e, NEW f, EntryOK(e), EntryOK(f), Follows(e, f),
           NEW x, ScanOK(x, e)
    PROVE  ScanOK(x, f)
<1>1. /\ x \in Statements /\ x.at \in Nat /\ x.session \in Nat /\ x.since \in Nat
      /\ e.tsn \in Nat /\ f.tsn \in Nat /\ e.session \in Nat /\ f.session \in Nat
    BY DEF ScanOK, EntryOK, Entries, Statements
<1>2. x.at <= f.tsn /\ x.session <= f.session
    BY <1>1 DEF ScanOK, Follows
<1>3. ASSUME OnEntry(x, f)
      PROVE  OnEntry(x, e) /\ f.session = e.session
    BY <1>1, <1>3 DEF ScanOK, OnEntry, Follows
<1>4. ASSUME OnEntry(x, f)
      PROVE  x.since <= f.tsn /\ (x.begun = command => f.stmt_ts = command)
    BY <1>1, <1>3, <1>4 DEF ScanOK, OnEntry, Follows
<1>5. ASSUME OnEntry(x, f), Prompt(x), x.ran = command
      PROVE  x.at = f.tsn
  <2>1. x.begun = command
      BY <1>5 DEF Prompt
  <2>2. e.stmt_ts = command /\ x.at = e.tsn
      BY <1>3, <1>5, <2>1 DEF ScanOK
  <2> QED BY <1>3, <1>5, <2>2 DEF Follows, OnEntry
<1> QED BY <1>1, <1>2, <1>4, <1>5 DEF ScanOK

(* A scan that is gone is in order.                                        *)
LEMMA NoneOK ==
    ASSUME ClocksOK, NEW e, EntryOK(e)
    PROVE  ScanOK(NoStatement, e) /\ NoStatement \in Statements
<1>1. /\ NoStatement.state = "none" /\ NoStatement.session = 0
      /\ NoStatement.at = 0 /\ NoStatement.begun = 0 /\ NoStatement.ran = 0
    BY DEF NoStatement
<1>2. NoStatement \in Statements
    BY DEF NoStatement, Statements
<1>3. e.tsn \in Nat /\ e.session \in Nat /\ command \in Nat
    BY DEF EntryOK, Entries, ClocksOK
<1>4. ~OnEntry(NoStatement, e) /\ ~Flashback(NoStatement)
    BY <1>1 DEF OnEntry, Flashback
<1>5. /\ NoStatement.at <= e.tsn /\ NoStatement.session <= e.session
      /\ NoStatement.begun <= command /\ NoStatement.ran <= command
    BY <1>1, <1>3
<1> QED BY <1>1, <1>2, <1>4, <1>5, Zenon DEF ScanOK

(* Scans that leave, or stay as they are, or begin, read nothing new.      *)
LEMMA SnapshotKept ==
    ASSUME OneSnapshot,
           \A t \in Scans : scan'[t] = scan[t] \/ scan'[t].state # "executed"
    PROVE  OneSnapshot'
<1> SUFFICES ASSUME NEW s \in Scans, NEW t \in Scans,
                    Prompt(scan'[s]), Prompt(scan'[t]),
                    scan'[s].session = scan'[t].session,
                    scan'[s].ran = scan'[t].ran
             PROVE  scan'[s].at = scan'[t].at
    BY DEF OneSnapshot
<1>1. scan'[s] = scan[s] /\ scan'[t] = scan[t]
    BY DEF Prompt, Flashback
<1> QED BY <1>1 DEF OneSnapshot

(* A new session is a session after the one before.                        *)
LEMMA NewSessionOK ==
    ASSUME ClocksOK, NEW e, EntryOK(e)
    PROVE  LET f == NewSession(e)
           IN  /\ EntryOK(f) /\ Follows(e, f)
               /\ f.stmt_ts = 0 /\ f.session = e.session + 1 /\ f.connected
               /\ f.tsn = e.tsn
<1> DEFINE f == NewSession(e)
<1>1. e \in Entries /\ e.session \in Nat /\ e.tsn \in Nat
    BY DEF EntryOK, Entries
<1>2. e.session + 1 \in Nat /\ 0 \in Nat
    BY <1>1
<1>3. f.connected /\ f.session = e.session + 1 /\ f.stmt_ts = 0 /\ f.tsn = e.tsn
    BY <1>1 DEF NewSession, Entries
<1>4. f \in Entries
    BY <1>1, <1>2, Zenon DEF NewSession, Entries
<1> HIDE DEF f
<1>5. command # 0 /\ command \in Nat
    BY DEF ClocksOK
<1>6. EntryOK(f)
    BY <1>1, <1>3, <1>4, <1>5 DEF EntryOK
<1>7. Follows(e, f)
    BY <1>1, <1>3 DEF Follows
<1> QED BY <1>3, <1>6, <1>7 DEF f

(* A lost session keeps the buffer, whatever is written into it.           *)
LEMMA LostOK ==
    ASSUME ClocksOK, NEW e, EntryOK(e), NEW n \in Nat, e.tsn <= n, n <= remote_tsn
    PROVE  LET f == Disconnected([e EXCEPT !.tsn = n])
           IN  EntryOK(f) /\ Follows(e, f)
<1> DEFINE f == Disconnected([e EXCEPT !.tsn = n])
<1>1. e \in Entries /\ e.session \in Nat /\ e.tsn \in Nat /\ e.stmt_ts \in Nat
    BY DEF EntryOK, Entries
<1>2. /\ f.connected = FALSE /\ f.session = e.session /\ f.stmt_ts = e.stmt_ts
      /\ f.tsn = n /\ f \in Entries
    BY <1>1 DEF Disconnected, Entries
<1> HIDE DEF f
<1>3. EntryOK(f)
    BY <1>1, <1>2 DEF EntryOK, ClocksOK
<1>4. Follows(e, f)
    BY <1>1, <1>2 DEF Follows
<1> QED BY <1>3, <1>4 DEF f

(* Two changes in one step.                                                *)
LEMMA FollowsTwice ==
    ASSUME NEW e \in Entries, NEW f \in Entries, NEW g \in Entries,
           Follows(e, f), Follows(f, g)
    PROVE  Follows(e, g)
BY DEF Follows, Entries

(* The entry that a statement is made on.                                  *)
LEMMA UsableOK ==
    ASSUME ClocksOK, EntryOK(entry), NEW e \in UsableEntry
    PROVE  EntryOK(e) /\ Follows(entry, e) /\ e.connected /\ entry.tsn = e.tsn
<1>1. CASE e = NewSession(entry)
    BY <1>1, NewSessionOK
<1>2. CASE e = entry /\ entry.connected
    BY <1>2 DEF Follows, EntryOK, Entries
<1> QED BY <1>1, <1>2 DEF UsableEntry

(* The entry after get_tb_statement has served a scan: a scan that binds   *)
(* the buffer finds the TSN of its command there.                          *)
LEMMA ServedOK ==
    ASSUME ClocksOK, NEW s \in Scans, NEW e, EntryOK(e), e.connected
    PROVE  LET f == Served(s, e)
           IN  /\ EntryOK(f) /\ Follows(e, f) /\ f.session = e.session
               /\ f.tsn \in Nat /\ e.tsn <= f.tsn /\ f.tsn <= remote_tsn
               /\ plan[s].use_fb_query /\ ~xact_level
                  => f.stmt_ts = command /\ command_tsn <= f.tsn
<1> DEFINE f == Served(s, e)
<1>0. /\ remote_tsn \in Nat /\ command \in Nat /\ command_tsn <= remote_tsn
      /\ e \in Entries
    BY DEF ClocksOK, EntryOK
<1>1. CASE Fetches(s, e)
  <2>1. /\ f.tsn = remote_tsn /\ f.stmt_ts = command
        /\ f.session = e.session /\ f.connected = e.connected
      BY <1>0, <1>1 DEF Served, Entries
  <2>2. f \in Entries
      BY <1>0, <1>1, Zenon DEF Served, Entries
  <2>3. e.stmt_ts # command
      BY <1>1 DEF Fetches, need_remote_snapshot
  <2> HIDE DEF f
  <2>4. e.tsn <= f.tsn /\ f.tsn \in Nat /\ f.tsn <= remote_tsn
      BY <1>0, <2>1 DEF EntryOK
  <2>5. EntryOK(f) /\ Follows(e, f)
      BY <1>0, <2>1, <2>2, <2>3, <2>4 DEF EntryOK, Follows, Entries
  <2> QED BY <1>0, <2>1, <2>4, <2>5 DEF f
<1>2. CASE ~Fetches(s, e)
  <2>1. f = e
      BY <1>2 DEF Served
  <2>2. plan[s].use_fb_query /\ ~xact_level => e.stmt_ts = command
      BY <1>2 DEF Fetches, need_remote_snapshot
  <2> HIDE DEF f
  <2> QED BY <1>0, <2>1, <2>2 DEF EntryOK, Follows, Entries, f
<1> QED BY <1>1, <1>2

(* A statement begins in order on the entry that has served it.            *)
LEMMA BegunOK ==
    ASSUME ClocksOK, NEW s \in Scans, NEW e, EntryOK(e), NEW retried \in BOOLEAN,
           ~retried /\ plan[s].use_fb_query /\ ~xact_level
           => e.stmt_ts = command /\ command_tsn <= e.tsn
    PROVE  LET x == Begun(s, e, retried)
           IN  ScanOK(x, e) /\ x \in Statements /\ x.state # "executed"
<1> DEFINE x == Begun(s, e, retried)
<1>1. /\ x.state = "begun" /\ x.session = e.session /\ x.retried = retried
      /\ x.begun = command /\ x.since = command_tsn /\ x.ran = 0 /\ x.at = 0
    BY DEF Begun
<1>2. x.bound = (plan[s].use_fb_query /\ ~xact_level)
    BY DEF Begun
<1>3. /\ command \in Nat /\ command_tsn \in Nat /\ plan[s] \in Plans
      /\ e.session \in Nat /\ e.tsn \in Nat
    BY DEF ClocksOK, EntryOK, Entries
<1>4. plan[s].placeholder \in BOOLEAN /\ plan[s].use_fb_query \in BOOLEAN
    BY <1>3 DEF Plans
<1>5. x \in Statements
    BY <1>3, <1>4 DEF Begun, Statements
<1> HIDE DEF x
<1>6. x.state # "executed" /\ ~Flashback(x)
    BY <1>1 DEF Flashback
<1>7. OnEntry(x, e) => x.since <= e.tsn /\ e.stmt_ts = command
    BY <1>1, <1>2 DEF OnEntry
<1>8. /\ x.at <= e.tsn /\ x.session <= e.session
      /\ x.begun <= command /\ x.ran <= command
    BY <1>1, <1>3
<1>9. x.bound => ~xact_level
    BY <1>2
<1>10. ScanOK(x, e)
    BY <1>5, <1>6, <1>7, <1>8, <1>9, Zenon DEF ScanOK, Prompt
<1> QED BY <1>5, <1>6, <1>10 DEF x

(* What a failed attempt leaves in the buffer is not older.                *)
LEMMA LeftOK ==
    ASSUME ClocksOK, EntryOK(entry), NEW s \in Scans, NEW left \in LeftInBuffer(s)
    PROVE  left \in Nat /\ entry.tsn <= left /\ left <= remote_tsn
<1>1. CASE left = entry.tsn
    BY <1>1 DEF EntryOK, Entries
<1>2. CASE \E e \in UsableEntry : left = Served(s, e).tsn
  <2>1. PICK e \in UsableEntry : left = Served(s, e).tsn
      BY <1>2
  <2> QED BY <2>1, UsableOK, ServedOK
<1> QED BY <1>1, <1>2 DEF LeftInBuffer

(* A step of the session leaves everything in order, if the entry follows  *)
(* the one before and the scans stay, leave, or begin in order.            *)
LEMMA SessionStep ==
    ASSUME SnapInv, UNCHANGED <<remote_tsn, command, command_tsn, xact_level>>,
           plan' \in [Scans -> Plans],
           EntryOK(entry'), Follows(entry, entry'),
           scan' \in [Scans -> Statements],
           \A t \in Scans :
               \/ scan'[t] = scan[t]
               \/ scan'[t] = NoStatement
               \/ ScanOK(scan'[t], entry') /\ scan'[t].state # "executed"
    PROVE  SnapInv'
<1>1. ClocksOK'
    BY DEF SnapInv, ClocksOK
<1>2. EntryOK(entry)'
    BY DEF EntryOK
<1>3. NoStatement.state = "none"
    BY DEF NoStatement
<1>4. OneSnapshot'
    BY <1>3, SnapshotKept DEF SnapInv
<1>5. ASSUME NEW t \in Scans
      PROVE  ScanOK(scan'[t], entry')
    BY ScanKept, NoneOK DEF SnapInv
<1>6. \A t \in Scans : ScanOK(scan[t], entry)'
    BY <1>5 DEF ScanOK, OnEntry
<1> QED BY <1>1, <1>2, <1>4, <1>6 DEF SnapInv

-----------------------------------------------------------------------------
(* Nothing is read when nothing is begun.                                  *)
LEMMA InitValid == SnapInit => SnapInv
<1> SUFFICES ASSUME SnapInit PROVE SnapInv
    OBVIOUS
<1>1. ClocksOK
    BY DEF SnapInit, ClocksOK, Plans
<1>2. EntryOK(entry)
    BY DEF SnapInit, EntryOK, Entries
<1>3. \A s \in Scans : scan[s] = NoStatement
    BY DEF SnapInit
<1>4. scan \in [Scans -> Statements]
    BY <1>1, <1>2, NoneOK DEF SnapInit
<1>5. OneSnapshot
    BY <1>3 DEF OneSnapshot, Prompt, Flashback, NoStatement
<1> QED BY <1>1, <1>2, <1>3, <1>4, <1>5, NoneOK DEF SnapInv

(* The remote database and the client go on.                               *)
LEMMA ClocksGoOn ==
    ASSUME SnapInv, RemoteCommits \/ NewCommand
    PROVE  SnapInv'
<1>0. /\ remote_tsn \in Nat \ {0} /\ command \in Nat \ {0} /\ command_tsn \in Nat
      /\ command_tsn <= remote_tsn /\ entry \in Entries /\ entry.tsn \in Nat
      /\ entry.stmt_ts \in Nat
    BY DEF SnapInv, ClocksOK, EntryOK, Entries
<1>1. /\ remote_tsn <= remote_tsn' /\ command <= command'
      /\ UNCHANGED <<entry, scan, xact_level, plan>>
    BY <1>0 DEF RemoteCommits, NewCommand
<1>2. ClocksOK'
    BY <1>0 DEF SnapInv, ClocksOK, RemoteCommits, NewCommand
<1>3. (command' = command /\ command_tsn' = command_tsn) \/ command' > command
    BY <1>0 DEF RemoteCommits, NewCommand
<1>4. EntryOK(entry)'
    BY <1>0, <1>1, <1>2, <1>3 DEF SnapInv, EntryOK, ClocksOK
<1>5. ASSUME NEW s \in Scans
      PROVE  ScanOK(scan[s], entry)'
  <2>1. ScanOK(scan[s], entry) /\ scan[s] \in Statements
      BY DEF SnapInv
  <2>2. scan[s].begun \in Nat /\ scan[s].ran \in Nat
      BY <2>1 DEF Statements
  <2>3. /\ scan[s].begun <= command' /\ scan[s].ran <= command'
        /\ scan[s].begun = command' => command' = command
        /\ scan[s].ran = command' => command' = command
      BY <1>0, <1>1, <1>2, <1>3, <2>1, <2>2 DEF ScanOK, ClocksOK
  <2> QED BY <1>1, <2>1, <2>3 DEF ScanOK, OnEntry, Prompt, Flashback
<1>6. OneSnapshot'
    BY <1>1, SnapshotKept DEF SnapInv
<1> QED BY <1>1, <1>2, <1>4, <1>5, <1>6 DEF SnapInv

(* A transaction ends: its scans are gone.                                 *)
LEMMA EndOrdered ==
    ASSUME SnapInv, NewXact
    PROVE  SnapInv'
<1>0. /\ remote_tsn \in Nat \ {0} /\ command \in Nat \ {0} /\ command_tsn \in Nat
      /\ entry \in Entries
    BY DEF SnapInv, ClocksOK, EntryOK
<1>1. ClocksOK'
    BY <1>0 DEF SnapInv, ClocksOK, NewXact
<1>2. entry' \in Entries /\ entry'.tsn = entry.tsn /\ entry'.stmt_ts = entry.stmt_ts
  <2>1. CASE entry' = entry
      BY <1>0, <2>1
  <2>2. CASE entry' = Disconnected(entry)
    <3>1. entry'.tsn = entry.tsn /\ entry'.stmt_ts = entry.stmt_ts
        BY <1>0, <2>2 DEF Disconnected, Entries
    <3>2. entry' \in Entries
        BY <1>0, <2>2, Zenon DEF Disconnected, Entries
    <3> QED BY <3>1, <3>2
  <2> QED BY <2>1, <2>2 DEF NewXact
<1>3. command' > command /\ remote_tsn' = remote_tsn
    BY <1>0 DEF NewXact
<1>4. entry.stmt_ts \in Nat /\ entry.stmt_ts <= command
    BY <1>0 DEF SnapInv, EntryOK, Entries
<1>5. EntryOK(entry)'
    BY <1>0, <1>1, <1>2, <1>3, <1>4 DEF SnapInv, EntryOK, ClocksOK
<1>6. \A s \in Scans : scan'[s] = NoStatement
    BY DEF NewXact
<1>7. ASSUME NEW s \in Scans
      PROVE  ScanOK(scan[s], entry)' /\ scan'[s] \in Statements
  <2>1. /\ NoStatement.state = "none" /\ NoStatement.session = 0
        /\ NoStatement.at = 0 /\ NoStatement.begun = 0 /\ NoStatement.ran = 0
      BY DEF NoStatement
  <2>2. NoStatement \in Statements
      BY DEF NoStatement, Statements
  <2>3. entry'.tsn \in Nat /\ entry'.session \in Nat /\ command' \in Nat
      BY <1>1, <1>2 DEF Entries, ClocksOK
  <2>4. 0 <= entry'.tsn /\ 0 <= entry'.session /\ 0 <= command'
      BY <2>3
  <2> QED BY <1>6, <2>1, <2>2, <2>4, Zenon DEF ScanOK, OnEntry, Prompt, Flashback
<1>8. OneSnapshot'
    BY <1>6, SnapshotKept DEF SnapInv, NoStatement
<1>9. scan' \in [Scans -> Statements]
    BY <1>6, <1>7 DEF NewXact
<1> QED BY <1>1, <1>5, <1>7, <1>8, <1>9 DEF SnapInv

(* A scan that is executed reads the buffer.                               *)
LEMMA ExecuteReads ==
    ASSUME SnapInv, NEW s \in Scans, Execute(s)
    PROVE  SnapInv'
<1> DEFINE x == scan[s]
           y == scan'[s]
<1>0. /\ ClocksOK /\ EntryOK(entry) /\ ScanOK(x, entry) /\ x \in Statements
      /\ scan \in [Scans -> Statements]
    BY DEF SnapInv
<1>1. /\ UNCHANGED <<remote_tsn, command, command_tsn, xact_level, entry, plan>>
      /\ x.state = "begun" /\ entry.connected /\ x.session = entry.session
    BY DEF Execute, Alive
<1>2. y = [x EXCEPT !.state = "executed", !.ran = command, !.at = entry.tsn]
    BY <1>0 DEF Execute
<1>3. \A t \in Scans \ {s} : scan'[t] = scan[t]
    BY <1>0 DEF Execute
<1>4. /\ y.state = "executed" /\ y.ran = command /\ y.at = entry.tsn
      /\ y.session = x.session /\ y.bound = x.bound /\ y.retried = x.retried
      /\ y.begun = x.begun /\ y.since = x.since /\ y.placeholder = x.placeholder
    BY <1>0, <1>2 DEF Statements
<1>5. /\ command \in Nat /\ entry.tsn \in Nat /\ entry.session \in Nat
    BY <1>0 DEF ClocksOK, EntryOK, Entries
<1>6. y \in Statements
    BY <1>0, <1>2, <1>5, Zenon DEF Statements
<1>7. ScanOK(y, entry)
  <2>1. /\ y.at <= entry.tsn /\ y.session <= entry.session
        /\ y.begun <= command /\ y.ran <= command
      BY <1>0, <1>4, <1>5 DEF ScanOK
  <2>2. y.bound => ~xact_level
      BY <1>0, <1>1, <1>4 DEF ScanOK
  <2>3. OnEntry(y, entry) => /\ y.since <= entry.tsn
                             /\ y.begun = command => entry.stmt_ts = command
      BY <1>0, <1>1, <1>4 DEF ScanOK, OnEntry
  <2>4. Flashback(y) /\ ~y.retried => OnEntry(y, entry)
      BY <1>1, <1>4 DEF Flashback, OnEntry
  <2> QED BY <1>4, <1>6, <2>1, <2>2, <2>3, <2>4 DEF ScanOK
<1>8. \A t \in Scans : ScanOK(scan[t], entry)'
  <2>1. \A t \in Scans : ScanOK(scan'[t], entry)
      BY <1>3, <1>7 DEF SnapInv
  <2> QED BY <1>1, <2>1 DEF ScanOK, OnEntry
<1>9. scan' \in [Scans -> Statements]
    BY <1>0, <1>3, <1>6 DEF Execute
<1>10. ASSUME NEW t \in Scans, Prompt(scan[t]), scan[t].session = x.session,
              scan[t].ran = command
       PROVE  scan[t].at = entry.tsn
  <2>1. OnEntry(scan[t], entry)
      BY <1>1, <1>10 DEF OnEntry, Prompt, Flashback
  <2> QED BY <1>10, <2>1 DEF SnapInv, ScanOK
<1> HIDE DEF x, y
<1>11. OneSnapshot'
  <2> SUFFICES ASSUME NEW t \in Scans, NEW u \in Scans,
                      Prompt(scan'[t]), Prompt(scan'[u]),
                      scan'[t].session = scan'[u].session,
                      scan'[t].ran = scan'[u].ran
               PROVE  scan'[t].at = scan'[u].at
      BY DEF OneSnapshot
  <2>1. ASSUME NEW v \in Scans, v # s, Prompt(scan'[v]),
               scan'[v].session = y.session, scan'[v].ran = y.ran
        PROVE  scan'[v].at = entry.tsn
      BY <1>3, <1>4, <1>10, <2>1
  <2>2. CASE t = s /\ u = s
      BY <2>2
  <2>3. CASE t = s /\ u # s
      BY <2>1, <2>3, <1>4 DEF y
  <2>4. CASE t # s /\ u = s
      BY <2>1, <2>4, <1>4 DEF y
  <2>5. CASE t # s /\ u # s
      BY <1>3, <2>5 DEF SnapInv, OneSnapshot
  <2> QED BY <2>2, <2>3, <2>4, <2>5
<1>12. ClocksOK' /\ EntryOK(entry)'
    BY <1>0, <1>1 DEF ClocksOK, EntryOK
<1> QED BY <1>8, <1>9, <1>11, <1>12 DEF SnapInv

(* A scan begins.                                                          *)
LEMMA Begins ==
    ASSUME SnapInv, NEW s \in Scans, BeginScan(s)
    PROVE  SnapInv'
<1>0. ClocksOK /\ EntryOK(entry) /\ scan \in [Scans -> Statements]
    BY DEF SnapInv
<1>1. PICK e \in UsableEntry :
          entry' = Served(s, e) /\ scan' = [scan EXCEPT ![s] = Begun(s, e, FALSE)]
    BY DEF BeginScan
<1>2. EntryOK(e) /\ Follows(entry, e) /\ e.connected
    BY <1>0, UsableOK
<1>3. /\ EntryOK(entry') /\ Follows(e, entry') /\ entry'.session = e.session
      /\ plan[s].use_fb_query /\ ~xact_level
         => entry'.stmt_ts = command /\ command_tsn <= entry'.tsn
    BY <1>0, <1>1, <1>2, ServedOK
<1>4. Follows(entry, entry')
    BY <1>0, <1>2, <1>3, FollowsTwice DEF EntryOK
<1>5. Begun(s, e, FALSE) = Begun(s, entry', FALSE)
    BY <1>3 DEF Begun
<1>6. /\ ScanOK(Begun(s, entry', FALSE), entry')
      /\ Begun(s, entry', FALSE) \in Statements
      /\ Begun(s, entry', FALSE).state # "executed"
    BY <1>0, <1>3, BegunOK
<1>7. /\ scan' \in [Scans -> Statements]
      /\ scan'[s] = Begun(s, entry', FALSE)
      /\ \A t \in Scans \ {s} : scan'[t] = scan[t]
    BY <1>0, <1>1, <1>5, <1>6
<1>8. /\ UNCHANGED <<remote_tsn, command, command_tsn, xact_level>>
      /\ plan' \in [Scans -> Plans]
    BY <1>0 DEF BeginScan, ClocksOK
<1> QED BY <1>3, <1>4, <1>6, <1>7, <1>8, SessionStep

(* A scan begins on the session of the retry.                              *)
LEMMA BeginsAgain ==
    ASSUME SnapInv, NEW s \in Scans, BeginRetried(s)
    PROVE  SnapInv'
<1>0. ClocksOK /\ EntryOK(entry) /\ scan \in [Scans -> Statements]
    BY DEF SnapInv
<1>1. PICK left \in LeftInBuffer(s) :
          entry' = NewSession([entry EXCEPT !.tsn = left])
    BY DEF BeginRetried
<1>2. left \in Nat /\ entry.tsn <= left /\ left <= remote_tsn
    BY <1>0, LeftOK
<1> DEFINE e == [entry EXCEPT !.tsn = left]
<1>3. /\ e \in Entries /\ e.tsn = left /\ e.stmt_ts = entry.stmt_ts
      /\ e.session = entry.session /\ e.connected = entry.connected
    BY <1>0, <1>2 DEF EntryOK, Entries
<1> HIDE DEF e
<1>4. EntryOK(e)
    BY <1>0, <1>2, <1>3 DEF EntryOK, ClocksOK, Entries
<1>5. /\ EntryOK(entry') /\ entry'.stmt_ts = 0 /\ entry'.tsn = left
      /\ entry'.session = entry.session + 1
    BY <1>0, <1>1, <1>3, <1>4, NewSessionOK DEF e
<1>6. Follows(entry, entry')
    BY <1>0, <1>2, <1>5 DEF Follows, EntryOK, Entries
<1>7. /\ ScanOK(Begun(s, entry', TRUE), entry')
      /\ Begun(s, entry', TRUE) \in Statements
      /\ Begun(s, entry', TRUE).state # "executed"
    BY <1>0, <1>5, BegunOK
<1>8. /\ scan' \in [Scans -> Statements]
      /\ scan'[s] = Begun(s, entry', TRUE)
      /\ \A t \in Scans \ {s} : scan'[t] = scan[t]
    BY <1>0, <1>7 DEF BeginRetried
<1>9. /\ UNCHANGED <<remote_tsn, command, command_tsn, xact_level>>
      /\ plan' \in [Scans -> Plans]
    BY <1>0 DEF BeginRetried, ClocksOK
<1> QED BY <1>5, <1>6, <1>7, <1>8, <1>9, SessionStep

(* A call fails: some scans are gone, and the session is lost.             *)
LEMMA Fails ==
    ASSUME SnapInv, NEW s \in Scans, BeginFails(s) \/ StatementFails(s)
    PROVE  SnapInv'
<1>0. ClocksOK /\ EntryOK(entry) /\ scan \in [Scans -> Statements]
    BY DEF SnapInv
<1>1. entry \in Entries /\ entry.tsn \in Nat /\ entry.tsn <= remote_tsn
    BY <1>0 DEF EntryOK, Entries
<1>2. EntryOK(entry') /\ Follows(entry, entry')
  <2>1. CASE BeginFails(s)
    <3>1. PICK left \in LeftInBuffer(s) :
              entry' = Disconnected([entry EXCEPT !.tsn = left])
        BY <2>1 DEF BeginFails
    <3> QED BY <1>0, <3>1, LeftOK, LostOK
  <2>2. CASE StatementFails(s)
    <3>1. [entry EXCEPT !.tsn = entry.tsn] = entry
        BY <1>1 DEF Entries
    <3>2. entry' = Disconnected([entry EXCEPT !.tsn = entry.tsn])
        BY <2>2, <3>1 DEF StatementFails
    <3> QED BY <1>0, <1>1, <3>2, LostOK
  <2> QED BY <2>1, <2>2
<1>3. PICK gone \in SUBSET Scans :
          scan' = [t \in Scans |-> IF t \in gone THEN NoStatement ELSE scan[t]]
    BY DEF BeginFails, StatementFails, Abandon
<1>4. NoStatement \in Statements
    BY <1>0, NoneOK
<1>5. /\ scan' \in [Scans -> Statements]
      /\ \A t \in Scans : scan'[t] = scan[t] \/ scan'[t] = NoStatement
    BY <1>0, <1>3, <1>4
<1>6. /\ UNCHANGED <<remote_tsn, command, command_tsn, xact_level>>
      /\ plan' \in [Scans -> Plans]
    BY <1>0 DEF BeginFails, StatementFails, ClocksOK
<1> QED BY <1>2, <1>5, <1>6, SessionStep

(* The steps that leave the entry alone and read nothing.                  *)
LEMMA EntryUntouched ==
    ASSUME SnapInv, NEW s \in Scans, PlanScan(s) \/ ReScan(s) \/ EndScan(s)
    PROVE  SnapInv'
<1>0. ClocksOK /\ EntryOK(entry) /\ scan \in [Scans -> Statements]
    BY DEF SnapInv
<1>1. Follows(entry, entry)
    BY <1>0 DEF Follows, EntryOK, Entries
<1>2. UNCHANGED <<remote_tsn, command, command_tsn, xact_level, entry>>
    BY DEF PlanScan, ReScan, EndScan
<1>3. CASE PlanScan(s)
  <2>1. \A fb \in BOOLEAN :
            [use_fb_query |-> fb, placeholder |-> fb /\ ~xact_level] \in Plans
      BY Zenon DEF Plans
  <2>2. plan' \in [Scans -> Plans] /\ scan' = scan
      BY <1>0, <1>3, <2>1 DEF PlanScan, ClocksOK
  <2> QED BY <1>0, <1>1, <1>2, <2>2, SessionStep
<1>4. CASE EndScan(s)
  <2>1. NoStatement \in Statements
      BY <1>0, NoneOK
  <2>2. /\ scan' \in [Scans -> Statements] /\ plan' \in [Scans -> Plans]
        /\ \A t \in Scans : scan'[t] = scan[t] \/ scan'[t] = NoStatement
      BY <1>0, <1>4, <2>1 DEF EndScan, ClocksOK
  <2> QED BY <1>0, <1>1, <1>2, <2>2, SessionStep
<1>5. CASE ReScan(s)
  <2> DEFINE x == scan[s]
             y == [x EXCEPT !.state = "begun"]
  <2>1. x \in Statements /\ ScanOK(x, entry)
      BY DEF SnapInv
  <2>2. /\ y.state = "begun"
        /\ y.session = x.session /\ y.bound = x.bound /\ y.retried = x.retried
        /\ y.begun = x.begun /\ y.since = x.since /\ y.ran = x.ran /\ y.at = x.at
      BY <2>1 DEF Statements
  <2>3. y \in Statements
      BY <2>1, Zenon DEF Statements
  <2>4. x.state = "executed"
      BY <1>5 DEF ReScan
  <2>5. /\ scan' \in [Scans -> Statements] /\ plan' \in [Scans -> Plans]
        /\ scan'[s] = y /\ \A t \in Scans \ {s} : scan'[t] = scan[t]
      BY <1>0, <1>5, <2>3 DEF ReScan, ClocksOK
  <2> HIDE DEF x, y
  <2>6. ~Flashback(y)
      BY <2>2 DEF Flashback
  <2>7. OnEntry(y, entry) => OnEntry(x, entry)
      BY <2>2, <2>4 DEF OnEntry
  <2>8. ScanOK(y, entry)
      BY <2>1, <2>2, <2>3, <2>4, <2>6, <2>7 DEF ScanOK, Prompt
  <2>9. y.state # "executed"
      BY <2>2
  <2> QED BY <1>0, <1>1, <1>2, <2>5, <2>8, <2>9, SessionStep
<1> QED BY <1>3, <1>4, <1>5

(* Every step leaves the clocks, the entry and the scans in order.         *)
LEMMA StepValid ==
    ASSUME SnapInv, [SnapNext]_snapVars
    PROVE  SnapInv'
<1>1. CASE UNCHANGED snapVars
    BY <1>1 DEF snapVars, SnapInv, ClocksOK, EntryOK, ScanOK, OnEntry, OneSnapshot,
                Prompt, Flashback
<1>2. ASSUME NEW s \in Scans, ScanStep(s)
      PROVE  SnapInv'
    BY <1>2, Begins, BeginsAgain, Fails, ExecuteReads, EntryUntouched DEF ScanStep
<1> QED BY <1>1, <1>2, ClocksGoOn, EndOrdered DEF SnapNext

(* The buffer and the scans after any history of the session.              *)
THEOREM SnapshotInv == SnapSpec => []SnapInv
BY InitValid, StepValid, PTL DEF SnapSpec

-----------------------------------------------------------------------------
(* The state keeps its type.                                               *)
THEOREM SnapTypes == SnapSpec => []SnapTypeOK
<1>1. SnapInv => SnapTypeOK
    BY DEF SnapInv, ClocksOK, EntryOK, SnapTypeOK
<1> QED BY <1>1, SnapshotInv, PTL

(* The scans of a command that read on one session read one snapshot.      *)
THEOREM SameSnapshot == SnapSpec => []OneSnapshot
<1>1. SnapInv => OneSnapshot
    BY DEF SnapInv
<1> QED BY <1>1, SnapshotInv, PTL

(* No scan reads a state older than the command it began in.               *)
THEOREM NotBefore == SnapSpec => []NotBeforeCommand
<1>1. SnapInv => NotBeforeCommand
  <2> SUFFICES ASSUME SnapInv, NEW s \in Scans,
                      Flashback(scan[s]), ~scan[s].retried
               PROVE  scan[s].at >= scan[s].since
      BY DEF NotBeforeCommand
  <2>1. ScanOK(scan[s], entry)
      BY DEF SnapInv
  <2> QED BY <2>1 DEF ScanOK, Statements
<1> QED BY <1>1, SnapshotInv, PTL

(* A later execution reads no earlier state than an open scan did.         *)
THEOREM Forward == SnapSpec => SnapshotsForward
<1> DEFINE Later ==
        \A s, t \in Scans :
            /\ Flashback(scan[t])
            /\ ~Flashback(scan[s]) /\ Flashback(scan'[s])
            => scan'[s].at >= scan[t].at
<1>1. SnapInv /\ [SnapNext]_snapVars => [Later]_snapVars
  <2> SUFFICES ASSUME SnapInv, SnapNext, NEW s \in Scans, NEW t \in Scans,
                      Flashback(scan[t]),
                      ~Flashback(scan[s]), Flashback(scan'[s])
               PROVE  scan'[s].at >= scan[t].at
      BY DEF Later
  <2>1. scan'[s] # scan[s] /\ scan'[s].state = "executed"
      BY DEF Flashback
  <2>2. scan \in [Scans -> Statements] /\ ScanOK(scan[t], entry)
      BY DEF SnapInv
  <2>3. NoStatement.state = "none"
      BY DEF NoStatement
  <2>4. ~RemoteCommits /\ ~NewCommand /\ ~NewXact
      BY <2>1, <2>3 DEF RemoteCommits, NewCommand, NewXact
  <2>5. PICK u \in Scans : ScanStep(u)
      BY <2>4 DEF SnapNext
  <2>6. ~BeginFails(u) /\ ~StatementFails(u)
      BY <2>1, <2>3 DEF BeginFails, StatementFails, Abandon
  <2>7. ~PlanScan(u) /\ ~EndScan(u)
      BY <2>1, <2>2, <2>3 DEF PlanScan, EndScan
  <2>8. ~BeginScan(u) /\ ~BeginRetried(u)
    <3>1. \A e, r : Begun(u, e, r).state = "begun"
        BY DEF Begun
    <3> QED BY <2>1, <2>2, <3>1 DEF BeginScan, BeginRetried
  <2>9. ~ReScan(u)
    <3>1. ASSUME ReScan(u)
          PROVE  scan'[u].state = "begun" /\ \A v \in Scans \ {u} : scan'[v] = scan[v]
        BY <2>2, <3>1 DEF ReScan, Statements
    <3> QED BY <2>1, <3>1
  <2>10. Execute(u)
      BY <2>5, <2>6, <2>7, <2>8, <2>9 DEF ScanStep
  <2>11. s = u
      BY <2>1, <2>2, <2>10 DEF Execute
  <2>12. scan'[s].at = entry.tsn
      BY <2>2, <2>10, <2>11 DEF Execute, Statements
  <2>13. entry.tsn \in Nat /\ scan[t].at \in Nat /\ scan[t].at <= entry.tsn
      BY <2>2 DEF SnapInv, EntryOK, Entries, ScanOK, Statements
  <2> QED BY <2>12, <2>13
<1>2. SnapSpec => [][Later]_snapVars
    BY <1>1, SnapshotInv, PTL DEF SnapSpec
<1> QED BY <1>2 DEF SnapshotsForward

-----------------------------------------------------------------------------
(***************************************************************************)
(* TbcliHandles.                                                           *)
(*                                                                         *)
(* What is live and not left behind by a failure belongs to the entry's    *)
(* one session, and each statement that is live is held by one cursor.     *)
(* A call on a handle that is gone goes to a statement of which that is    *)
(* known, or comes after the driver refused to free an environment.        *)
(***************************************************************************)
(* The driver and the entry together.                                      *)
Drivers == [connected : BOOLEAN, henv : Nat, hdbc : Nat, live : SUBSET Handles,
            made : [sessions : Nat, stmts : Nat], misused : SUBSET Handles,
            refused : BOOLEAN, lost : SUBSET Handles]

(* Handles that no failure left behind are of the entry's session: its     *)
(* own two, or a statement that is held.                                   *)
Owned(h, held) ==
    \A x \in h.live \ h.lost :
        x.session = h.hdbc /\ x \in {Env(h.henv), Dbc(h.hdbc)} \union held

(* The misused statements are among bad.                                   *)
Excused(h, bad) ==
    \A x \in h.misused : IF x.kind = "stmt" THEN x \in bad ELSE h.refused

(* A session that is there has its two handles, which are of one number;   *)
(* without one, all that is live is lost.                                  *)
Sound(h, held, bad) ==
    /\ h \in Drivers
    /\ Excused(h, bad)
    /\ IF h.connected
       THEN /\ h.henv = h.hdbc /\ Env(h.henv) \in h.live /\ Dbc(h.hdbc) \in h.live
            /\ Owned(h, held)
       ELSE h.live \subseteq h.lost

(* The newest statement.                                                   *)
Newest(h) == Stmt(h.hdbc, h.made.stmts)

(* What a call that has to deliver a statement may end in.                 *)
Delivered(h, held, bad, x) ==
    IF x.err = "none"
    THEN /\ Sound(x.h, held \union {Newest(x.h)}, bad)
         /\ Newest(x.h) \in x.h.live
         /\ x.h.made.stmts > h.made.stmts
    ELSE Sound(x.h, held, bad) /\ x.h.made.stmts >= h.made.stmts

OnlyStmts(held) == \A x \in held : x.kind = "stmt"

-----------------------------------------------------------------------------
LEMMA HandleKinds ==
    ASSUME NEW n \in Nat, NEW i \in Nat
    PROVE  /\ Env(n) \in Handles /\ Env(n).kind = "env" /\ Env(n).session = n
           /\ Dbc(n) \in Handles /\ Dbc(n).kind = "dbc" /\ Dbc(n).session = n
           /\ Stmt(n, i) \in Handles /\ Stmt(n, i).kind = "stmt"
           /\ Stmt(n, i).session = n /\ Stmt(n, i).number = i
  BY DEF Env, Dbc, Stmt, Handles

LEMMA Fields ==
    ASSUME NEW h \in Drivers
    PROVE  /\ h.connected \in BOOLEAN /\ h.henv \in Nat /\ h.hdbc \in Nat
           /\ h.live \subseteq Handles /\ h.lost \subseteq Handles
           /\ h.made \in [sessions : Nat, stmts : Nat]
           /\ h.made.stmts \in Nat /\ h.made.sessions \in Nat
           /\ h.misused \subseteq Handles /\ h.refused \in BOOLEAN
  BY DEF Drivers

(* A call on some handles adds those that are gone to the misused ones.    *)
LEMMA Called ==
    ASSUME NEW h \in Drivers, NEW handles \in SUBSET Handles,
           NEW d, d = Use(h, handles)
    PROVE  /\ d \in Drivers /\ d.misused = h.misused \union (handles \ h.live)
           /\ d.live = h.live /\ d.lost = h.lost
           /\ d.connected = h.connected /\ d.henv = h.henv /\ d.hdbc = h.hdbc
           /\ d.made = h.made /\ d.refused = h.refused
<1> DEFINE bad == h.misused \union (handles \ h.live)
<1>1. d = [h EXCEPT !.misused = bad]
  BY DEF Use, Drivers
<1>2. bad \in SUBSET Handles
  BY Fields
<1> HIDE DEF bad
<1>3. /\ d \in Drivers /\ d.misused = bad /\ d.live = h.live /\ d.lost = h.lost
      /\ d.connected = h.connected /\ d.henv = h.henv /\ d.hdbc = h.hdbc
      /\ d.made = h.made /\ d.refused = h.refused
  BY <1>1, <1>2 DEF Drivers
<1> QED BY <1>3 DEF bad

LEMMA NowFreed ==
    ASSUME NEW h \in Drivers, NEW handles, NEW d, d = Freed(h, handles)
    PROVE  /\ d \in Drivers /\ d.live = h.live \ handles
           /\ d.misused = h.misused /\ d.lost = h.lost
           /\ d.connected = h.connected /\ d.henv = h.henv /\ d.hdbc = h.hdbc
           /\ d.made = h.made /\ d.refused = h.refused
<1> DEFINE left == h.live \ handles
<1>1. d = [h EXCEPT !.live = left]
  BY DEF Freed, Drivers
<1>2. left \in SUBSET Handles
  BY Fields
<1> HIDE DEF left
<1>3. /\ d \in Drivers /\ d.live = left /\ d.misused = h.misused
      /\ d.lost = h.lost
      /\ d.connected = h.connected /\ d.henv = h.henv /\ d.hdbc = h.hdbc
      /\ d.made = h.made /\ d.refused = h.refused
  BY <1>1, <1>2 DEF Drivers
<1> QED BY <1>3 DEF left

(* The session is given up, of which some handles are released; l notes    *)
(* what was left behind.                                                   *)
GiveUp(h, released, l) ==
    [Freed(Use(h, EntryHandles(h)), released) EXCEPT !.connected = FALSE, !.lost = l]

(* A session that is given up: some of its handles are freed, and of those *)
(* that are not, all that were not lost are noted in l.  Its two handles   *)
(* may be gone already, if the driver once refused.                        *)
LEMMA GivenUp ==
    ASSUME NEW held, OnlyStmts(held), NEW bad, NEW h \in Drivers,
           Excused(h, bad),
           (Env(h.henv) \in h.live /\ Dbc(h.hdbc) \in h.live) \/ h.refused,
           NEW released, NEW l \in SUBSET Handles,
           h.lost \subseteq l, h.live \ released \subseteq l,
           NEW d, d = GiveUp(h, released, l)
    PROVE  Sound(d, held, bad) /\ ~d.connected /\ d.made = h.made
<1> DEFINE u == Use(h, EntryHandles(h))
           f == Freed(u, released)
<1>1. /\ EntryHandles(h) \in SUBSET Handles
      /\ \A x \in EntryHandles(h) : x.kind # "stmt"
      /\ EntryHandles(h) \subseteq h.live \/ h.refused
  BY Fields, HandleKinds DEF EntryHandles
<1>2. /\ u \in Drivers /\ u.misused = h.misused \union (EntryHandles(h) \ h.live)
      /\ u.live = h.live /\ u.made = h.made /\ u.refused = h.refused
  BY <1>1, Called
<1> HIDE DEF u
<1>3. /\ f \in Drivers /\ f.live = h.live \ released /\ f.misused = u.misused
      /\ f.made = h.made /\ f.refused = h.refused
  BY <1>2, NowFreed
<1>4. d = [f EXCEPT !.connected = FALSE, !.lost = l]
  BY DEF GiveUp, u
<1> HIDE DEF f
<1>5. /\ d \in Drivers /\ ~d.connected /\ d.lost = l /\ d.live = f.live
      /\ d.misused = f.misused /\ d.made = f.made /\ d.refused = f.refused
  BY <1>3, <1>4 DEF Drivers
<1>6. Excused(d, bad)
  BY <1>1, <1>2, <1>3, <1>5 DEF Excused
<1> QED BY <1>3, <1>5, <1>6 DEF Sound

(* The error path, from a session that is sound, or of which the driver    *)
(* refused to free the environment, whatever of it is released.            *)
LEMMA ReportOwned ==
    ASSUME NEW held, OnlyStmts(held), NEW bad, NEW h \in Drivers,
           Excused(h, bad), Owned(h, held), h.connected,
           (Env(h.henv) \in h.live /\ Dbc(h.hdbc) \in h.live) \/ h.refused,
           NEW d \in TbFdwReportError(h)
    PROVE  Sound(d, held, bad) /\ ~d.connected /\ d.made = h.made
<1> DEFINE Outcome(released) ==
              [Freed(Use(h, EntryHandles(h)), released) EXCEPT
                 !.connected = FALSE, !.lost = @ \union (OfSession(h) \ released)]
<1>1. TbFdwReportError(h) = {Outcome(released) : released \in Releases(h)}
  BY DEF TbFdwReportError
<1>2. PICK released \in Releases(h) : d = Outcome(released)
  BY <1>1
<1> DEFINE u == Use(h, EntryHandles(h))
           f == Freed(u, released)
           l == h.lost \union (OfSession(h) \ released)
<1>3. EntryHandles(h) \in SUBSET Handles
  BY Fields, HandleKinds DEF EntryHandles
<1>4. u \in Drivers /\ u.lost = h.lost
  BY <1>3, Called
<1> HIDE DEF u
<1>5. f \in Drivers /\ f.lost = h.lost
  BY <1>4, NowFreed
<1>6. d = [f EXCEPT !.connected = FALSE, !.lost = f.lost \union (OfSession(h) \ released)]
  <2>1. d = [f EXCEPT !.connected = FALSE, !.lost = @ \union (OfSession(h) \ released)]
    BY <1>2 DEF u
  <2> HIDE DEF f
  <2> QED BY <2>1, <1>5 DEF Drivers
<1>7. d = GiveUp(h, released, l)
  BY <1>5, <1>6 DEF GiveUp, u
<1>8. /\ l \in SUBSET Handles /\ h.lost \subseteq l
      /\ h.live \ released \subseteq l
  BY Fields DEF OfSession, Owned
<1> HIDE DEF l
<1> QED BY <1>7, <1>8, GivenUp

LEMMA ReportSound ==
    ASSUME NEW held, OnlyStmts(held), NEW bad, NEW h, Sound(h, held, bad),
           NEW d \in TbFdwReportError(h)
    PROVE  Sound(d, held, bad) /\ ~d.connected /\ d.made = h.made
<1>1. CASE h.connected
  BY <1>1, ReportOwned DEF Sound
<1>2. CASE ~h.connected
  <2>1. d = h
    BY <1>2 DEF TbFdwReportError
  <2> QED BY <1>2, <2>1
<1> QED BY <1>1, <1>2

(* An outcome that is an error of the kind that is retried.                *)
LEMMA FdwOutcome ==
    ASSUME NEW h, NEW x \in FdwError(h)
    PROVE  x.h \in TbFdwReportError(h) /\ x.err = "fdw"
<1>1. PICK d \in TbFdwReportError(h) : x = [h |-> d, err |-> "fdw"]
  BY DEF FdwError
<1> QED BY <1>1

(* disconnect_tb_server closes the session, whatever fails.                *)
LEMMA DisconnectSound ==
    ASSUME NEW held, OnlyStmts(held), NEW bad, NEW h, Sound(h, held, bad),
           NEW x \in disconnect_tb_server(h)
    PROVE  Sound(x.h, held, bad) /\ ~x.h.connected /\ x.h.made = h.made
<1>0. h \in Drivers /\ Excused(h, bad)
  BY DEF Sound
<1>1. CASE ~h.connected
  <2>1. x.h = h
    BY <1>1 DEF disconnect_tb_server, Ok
  <2> QED BY <1>1, <2>1
<1>2. CASE h.connected
  <2> DEFINE all == Stmts(h) \union EntryHandles(h)
             closed == [Freed(Use(h, EntryHandles(h)), all) EXCEPT !.connected = FALSE]
             c == Freed(h, Stmts(h))
             e == Freed(h, Stmts(h) \union {Dbc(h.hdbc)})
             r == [e EXCEPT !.refused = TRUE]
  <2>1. /\ Owned(h, held) /\ h.henv = h.hdbc
        /\ Env(h.henv) \in h.live /\ Dbc(h.hdbc) \in h.live
    BY <1>2 DEF Sound
  <2>2. \A y \in Stmts(h) : y.kind = "stmt"
    BY DEF Stmts
  <2>3. Env(h.henv).kind = "env" /\ Dbc(h.hdbc).kind = "dbc"
    BY DEF Env, Dbc
  <2>4. \/ x.h = closed
        \/ x.h \in TbFdwReportError(h)
        \/ x.h \in TbFdwReportError(c)
        \/ x.h \in TbFdwReportError(r)
    <3>1. x = Ok(closed) \/ x \in FdwError(h) \/ x \in FdwError(c) \/ x \in FdwError(r)
      BY <1>2 DEF disconnect_tb_server, FailedDisconnects
    <3> HIDE DEF closed, c, r
    <3> QED BY <3>1, FdwOutcome DEF Ok
  <2>5. CASE x.h = closed
    <3>1. closed = GiveUp(h, all, h.lost)
      <4> DEFINE u == Use(h, EntryHandles(h))
                 f == Freed(u, all)
      <4>1. EntryHandles(h) \in SUBSET Handles
        BY <1>0, Fields, HandleKinds DEF EntryHandles
      <4>2. u \in Drivers /\ u.lost = h.lost
        BY <1>0, <4>1, Called
      <4> HIDE DEF u, all
      <4>3. f \in Drivers /\ f.lost = h.lost
        BY <4>2, NowFreed
      <4> HIDE DEF f
      <4>4. [f EXCEPT !.connected = FALSE] = [f EXCEPT !.connected = FALSE, !.lost = h.lost]
        BY <4>3 DEF Drivers
      <4> QED BY <4>4 DEF GiveUp, f, u
    <3>2. h.live \ all \subseteq h.lost
      BY <2>1 DEF Owned, OnlyStmts, Stmts, OfSession, EntryHandles
    <3>3. h.lost \in SUBSET Handles
      BY <1>0, Fields
    <3> DEFINE l == h.lost
    <3> HIDE DEF closed, all, l
    <3>4. l \in SUBSET Handles /\ h.lost \subseteq l /\ h.live \ all \subseteq l
      BY <3>2, <3>3 DEF l
    <3>5. x.h = GiveUp(h, all, l)
      BY <2>5, <3>1 DEF l
    <3>6. (Env(h.henv) \in h.live /\ Dbc(h.hdbc) \in h.live) \/ h.refused
      BY <2>1
    <3> DEFINE d == x.h
    <3>7. d = GiveUp(h, all, l)
      BY <3>5
    <3> HIDE DEF c, e, r, d
    <3>8. Sound(d, held, bad) /\ ~d.connected /\ d.made = h.made
      BY <1>0, <3>4, <3>6, <3>7, GivenUp
    <3> QED BY <3>8 DEF d
  <2>6. CASE x.h \in TbFdwReportError(h)
    BY <2>6, ReportSound
  <2>7. CASE x.h \in TbFdwReportError(c)
    <3>1. /\ c \in Drivers /\ c.live = h.live \ Stmts(h) /\ c.misused = h.misused
          /\ c.lost = h.lost /\ c.connected = h.connected /\ c.henv = h.henv
          /\ c.hdbc = h.hdbc /\ c.made = h.made /\ c.refused = h.refused
      BY <1>0, NowFreed
    <3> HIDE DEF c
    <3>2. Owned(c, held) /\ Excused(c, bad)
      BY <1>0, <2>1, <3>1 DEF Owned, Excused
    <3>3. Env(c.henv) \in c.live /\ Dbc(c.hdbc) \in c.live
      BY <2>1, <2>2, <2>3, <3>1
    <3> HIDE DEF all, closed, e, r
    <3>4. c.connected /\ ((Env(c.henv) \in c.live /\ Dbc(c.hdbc) \in c.live) \/ c.refused)
      BY <1>2, <3>1, <3>3
    <3>5. Sound(x.h, held, bad) /\ ~x.h.connected /\ x.h.made = c.made
      BY <2>7, <3>1, <3>2, <3>4, ReportOwned
    <3> QED BY <3>1, <3>5
  <2>8. CASE x.h \in TbFdwReportError(r)
    <3>1. /\ e \in Drivers /\ e.live = h.live \ (Stmts(h) \union {Dbc(h.hdbc)})
          /\ e.misused = h.misused
          /\ e.lost = h.lost /\ e.connected = h.connected /\ e.henv = h.henv
          /\ e.hdbc = h.hdbc /\ e.made = h.made
      BY <1>0, NowFreed
    <3> HIDE DEF e
    <3>2. /\ r \in Drivers /\ r.refused /\ r.live = e.live /\ r.lost = e.lost
          /\ r.connected = e.connected /\ r.henv = e.henv /\ r.hdbc = e.hdbc
          /\ r.made = e.made /\ r.misused = e.misused
      BY <3>1 DEF Drivers
    <3> HIDE DEF r
    <3>3. Owned(r, held) /\ Excused(r, bad)
      BY <1>0, <2>1, <3>1, <3>2 DEF Owned, Excused
    <3> HIDE DEF all, closed, c
    <3>4. r.connected
      BY <1>2, <3>1, <3>2
    <3>5. Sound(x.h, held, bad) /\ ~x.h.connected /\ x.h.made = r.made
      BY <2>8, <3>2, <3>3, <3>4, ReportOwned
    <3> QED BY <3>1, <3>2, <3>5
  <2> QED BY <2>4, <2>5, <2>6, <2>7, <2>8
<1> QED BY <1>1, <1>2

(* make_tb_connection makes a session, or leaves what it had begun lost.   *)
LEMMA MakeConnectionSound ==
    ASSUME NEW held, OnlyStmts(held), NEW bad, NEW h, Sound(h, held, bad), ~h.connected,
           NEW x \in make_tb_connection(h)
    PROVE  /\ Sound(x.h, held, bad) /\ h.live \subseteq x.h.live
           /\ x.h.made.stmts = h.made.stmts
           /\ x.err = "none" => x.h.connected
<1> DEFINE n == h.made.sessions + 1
           tried == [h EXCEPT !.made.sessions = n]
           env == [tried EXCEPT !.henv = n, !.live = @ \union {Env(n)}]
           dbc == [env EXCEPT !.hdbc = n, !.live = @ \union {Dbc(n)}]
           envLost == [env EXCEPT !.lost = @ \union {Env(n)}]
           bothLost == [dbc EXCEPT !.lost = @ \union {Env(n), Dbc(n)}]
           open == [dbc EXCEPT !.connected = TRUE]
<1>1. /\ h \in Drivers /\ Excused(h, bad) /\ h.live \subseteq h.lost
    BY DEF Sound
<1>2. n \in Nat
    BY <1>1, Fields
<1> HIDE DEF n
<1>3. /\ Env(n) \in Handles /\ Env(n).session = n
      /\ Dbc(n) \in Handles /\ Dbc(n).session = n
    BY <1>2, HandleKinds
<1>4. /\ tried \in Drivers /\ tried.live = h.live /\ tried.lost = h.lost
      /\ tried.made.stmts = h.made.stmts /\ tried.connected = h.connected
      /\ tried.misused = h.misused /\ tried.refused = h.refused
    BY <1>1, <1>2 DEF Drivers
<1> HIDE DEF tried
<1>5. /\ env \in Drivers /\ env.live = tried.live \union {Env(n)} /\ env.henv = n
      /\ env.lost = tried.lost /\ env.made = tried.made
      /\ env.connected = tried.connected
      /\ env.misused = tried.misused /\ env.refused = tried.refused
    BY <1>2, <1>3, <1>4 DEF Drivers
<1> HIDE DEF env
<1>6. /\ dbc \in Drivers /\ dbc.live = env.live \union {Dbc(n)} /\ dbc.hdbc = n
      /\ dbc.henv = env.henv /\ dbc.lost = env.lost /\ dbc.made = env.made
      /\ dbc.connected = env.connected
      /\ dbc.misused = env.misused /\ dbc.refused = env.refused
    BY <1>2, <1>3, <1>5 DEF Drivers
<1> HIDE DEF dbc
<1>7. /\ envLost \in Drivers /\ envLost.lost = env.lost \union {Env(n)}
      /\ envLost.live = env.live /\ envLost.made = env.made
      /\ envLost.connected = env.connected
      /\ envLost.misused = env.misused /\ envLost.refused = env.refused
    BY <1>3, <1>5 DEF Drivers
<1>8. /\ bothLost \in Drivers /\ bothLost.lost = dbc.lost \union {Env(n), Dbc(n)}
      /\ bothLost.live = dbc.live /\ bothLost.made = dbc.made
      /\ bothLost.connected = dbc.connected
      /\ bothLost.misused = dbc.misused /\ bothLost.refused = dbc.refused
    BY <1>3, <1>6 DEF Drivers
<1>9. /\ open \in Drivers /\ open.connected /\ open.live = dbc.live
      /\ open.lost = dbc.lost /\ open.made = dbc.made
      /\ open.henv = dbc.henv /\ open.hdbc = dbc.hdbc
      /\ open.misused = dbc.misused /\ open.refused = dbc.refused
    BY <1>6 DEF Drivers
<1>10. \/ x = Ok(open) \/ x \in FdwError(tried) \/ x \in FdwError(envLost)
       \/ x = [h |-> bothLost, err |-> "connect"]
    BY DEF make_tb_connection, n, tried, env, dbc
<1> HIDE DEF envLost, bothLost, open
<1>11. CASE x = Ok(open)
  <2>1. x.h = open
    BY <1>11 DEF Ok
  <2>2. Owned(open, held)
    BY <1>1, <1>3, <1>4, <1>5, <1>6, <1>9 DEF Owned
  <2> QED BY <2>1, <2>2, <1>1, <1>4, <1>5, <1>6, <1>9 DEF Sound, Excused
<1>12. CASE x \in FdwError(tried)
  <2>1. x.h = tried /\ x.err = "fdw"
    BY <1>12, <1>4, FdwOutcome DEF TbFdwReportError
  <2> QED BY <2>1, <1>1, <1>4 DEF Sound, Excused
<1>13. CASE x \in FdwError(envLost)
  <2>1. x.h = envLost /\ x.err = "fdw"
    BY <1>13, <1>4, <1>5, <1>7, FdwOutcome DEF TbFdwReportError
  <2> QED BY <2>1, <1>1, <1>4, <1>5, <1>7 DEF Sound, Excused
<1>14. CASE x = [h |-> bothLost, err |-> "connect"]
  <2>1. x.h = bothLost /\ x.err = "connect"
    BY <1>14
  <2> QED BY <2>1, <1>1, <1>4, <1>5, <1>6, <1>8 DEF Sound, Excused
<1> QED BY <1>10, <1>11, <1>12, <1>13, <1>14

(* A statement made on a session is live, and the session's newest.        *)
LEMMA MakeStmtSound ==
    ASSUME NEW held, OnlyStmts(held), NEW bad, NEW h, Sound(h, held, bad), h.connected,
           NEW x \in MakeStmt(h)
    PROVE  Delivered(h, held, bad, x) /\ (x.err = "none" => h.live \subseteq x.h.live)
<1> DEFINE i == h.made.stmts + 1
           new == Stmt(h.hdbc, i)
           with == [h EXCEPT !.made.stmts = i, !.live = @ \union {new}]
<1>1. /\ h \in Drivers /\ Excused(h, bad) /\ h.henv = h.hdbc
      /\ Env(h.henv) \in h.live /\ Dbc(h.hdbc) \in h.live /\ Owned(h, held)
  BY DEF Sound
<1>2. /\ h.made.stmts \in Nat /\ h.hdbc \in Nat /\ i \in Nat /\ i > h.made.stmts
  BY <1>1, Fields
<1> HIDE DEF i
<1>3. new \in Handles /\ new.kind = "stmt" /\ new.session = h.hdbc
  BY <1>2, HandleKinds
<1> HIDE DEF new
<1>4. /\ with \in Drivers /\ with.live = h.live \union {new} /\ with.made.stmts = i
      /\ with.connected = h.connected /\ with.henv = h.henv /\ with.hdbc = h.hdbc
      /\ with.lost = h.lost /\ with.misused = h.misused /\ with.refused = h.refused
  BY <1>1, <1>2, <1>3 DEF Drivers
<1>5. x = Ok(with) \/ x \in FdwError(h) \/ x \in FdwError(with)
  BY DEF MakeStmt, NewStmt, i, new
<1> HIDE DEF with
<1>6. Newest(with) = new
  BY <1>4 DEF Newest, new
<1>7. OnlyStmts(held \union {new})
  BY <1>3 DEF OnlyStmts
<1>8. Sound(with, held \union {new}, bad)
  <2>1. Owned(with, held \union {new})
    BY <1>1, <1>3, <1>4 DEF Owned
  <2> QED BY <2>1, <1>1, <1>4 DEF Sound, Excused
<1>9. CASE x = Ok(with)
  <2>1. x.h = with /\ x.err = "none"
    BY <1>9 DEF Ok
  <2> QED BY <2>1, <1>2, <1>4, <1>6, <1>8 DEF Delivered
<1>10. CASE x \in FdwError(h)
  <2>1. x.h \in TbFdwReportError(h) /\ x.err = "fdw"
    BY <1>10, FdwOutcome
  <2>2. Sound(x.h, held, bad) /\ x.h.made = h.made
    BY <2>1, ReportSound
  <2> QED BY <2>1, <2>2, <1>2 DEF Delivered
<1>11. CASE x \in FdwError(with)
  <2>1. x.h \in TbFdwReportError(with) /\ x.err = "fdw"
    BY <1>11, FdwOutcome
  <2>2. /\ Sound(x.h, held \union {new}, bad) /\ ~x.h.connected
        /\ x.h.made = with.made
    BY <2>1, <1>7, <1>8, ReportSound
  <2>3. Sound(x.h, held, bad)
    BY <2>2 DEF Sound
  <2> QED BY <2>1, <2>2, <2>3, <1>2, <1>4 DEF Delivered
<1> QED BY <1>5, <1>9, <1>10, <1>11

(* What a statement is delivered from: a session made or found after the   *)
(* state h.                                                                *)
LEMMA StatementFrom ==
    ASSUME NEW held, OnlyStmts(held), NEW bad, NEW h \in Drivers,
           NEW b, Sound(b.h, held, bad), b.h.made.stmts = h.made.stmts,
           b.err = "none" => b.h.connected,
           NEW x \in IF b.err = "none" THEN MakeStmt(b.h) ELSE {b}
    PROVE  /\ Delivered(h, held, bad, x)
           /\ x.err = "none" => b.h.live \subseteq x.h.live
<1>1. CASE b.err = "none"
  <2>1. /\ Delivered(b.h, held, bad, x)
        /\ x.err = "none" => b.h.live \subseteq x.h.live
    BY <1>1, MakeStmtSound
  <2> QED BY <2>1 DEF Delivered
<1>2. CASE b.err # "none"
  <2>1. h.made.stmts \in Nat
    BY Fields
  <2>2. x = b
    BY <1>2
  <2> QED BY <1>2, <2>1, <2>2 DEF Delivered
<1> QED BY <1>1, <1>2

(* The first attempt of get_tb_statement.  It takes nothing from other     *)
(* scans, unless it drops an invalidated session or fails.                 *)
LEMMA FirstAttemptSound ==
    ASSUME NEW held, OnlyStmts(held), NEW bad, NEW h, Sound(h, held, bad),
           NEW invalidated \in BOOLEAN, NEW x \in FirstAttempt(h, invalidated)
    PROVE  /\ Delivered(h, held, bad, x)
           /\ ~invalidated /\ x.err = "none" => h.live \subseteq x.h.live
<1>0. h \in Drivers
  BY DEF Sound
<1>1. PICK b \in Then(Usable(h, invalidated), Connect) :
             x \in IF b.err = "none" THEN MakeStmt(b.h) ELSE {b}
  BY DEF FirstAttempt, Then
<1>2. PICK a \in Usable(h, invalidated) :
             b \in IF a.err = "none" THEN Connect(a.h) ELSE {a}
  BY <1>1 DEF Then
<1>3. /\ Sound(a.h, held, bad) /\ a.h.made = h.made
      /\ ~invalidated => a.h = h
  <2>1. CASE invalidated
    <3>1. a \in disconnect_tb_server(h)
      BY <2>1 DEF Usable
    <3> QED BY <2>1, <3>1, DisconnectSound
  <2>2. CASE ~invalidated
    <3>1. a = Ok(h)
      BY <2>2 DEF Usable
    <3>2. a.h = h
      BY <3>1 DEF Ok
    <3> QED BY <3>2
  <2> QED BY <2>1, <2>2
<1>4. /\ Sound(b.h, held, bad) /\ b.h.made.stmts = h.made.stmts
      /\ b.err = "none" => b.h.connected
      /\ ~invalidated => h.live \subseteq b.h.live
  <2>1. CASE a.err # "none"
    <3>1. b = a
      BY <1>2, <2>1
    <3> QED BY <1>3, <2>1, <3>1
  <2>2. CASE a.err = "none" /\ a.h.connected
    <3>1. b = Ok(a.h)
      BY <1>2, <2>2 DEF Connect
    <3>2. b.h = a.h
      BY <3>1 DEF Ok
    <3> QED BY <1>3, <2>2, <3>2
  <2>3. CASE a.err = "none" /\ ~a.h.connected
    <3>1. b \in make_tb_connection(a.h)
      BY <1>2, <2>3 DEF Connect
    <3>2. /\ Sound(b.h, held, bad) /\ a.h.live \subseteq b.h.live
          /\ b.h.made.stmts = a.h.made.stmts
          /\ b.err = "none" => b.h.connected
      BY <1>3, <2>3, <3>1, MakeConnectionSound
    <3> QED BY <1>3, <3>2
  <2> QED BY <2>1, <2>2, <2>3
<1> QED BY <1>0, <1>1, <1>4, StatementFrom

(* The retry begins with a session of its own.                             *)
LEMMA RetrySound ==
    ASSUME NEW held, OnlyStmts(held), NEW bad, NEW h, Sound(h, held, bad), NEW x \in Retry(h)
    PROVE  Delivered(h, held, bad, x)
<1>0. h \in Drivers
  BY DEF Sound
<1>1. PICK b \in Then(disconnect_tb_server(h), make_tb_connection) :
             x \in IF b.err = "none" THEN MakeStmt(b.h) ELSE {b}
  BY DEF Retry, Then
<1>2. PICK a \in disconnect_tb_server(h) :
             b \in IF a.err = "none" THEN make_tb_connection(a.h) ELSE {a}
  BY <1>1 DEF Then
<1>3. Sound(a.h, held, bad) /\ ~a.h.connected /\ a.h.made = h.made
  BY DisconnectSound
<1>4. /\ Sound(b.h, held, bad) /\ b.h.made.stmts = h.made.stmts
      /\ b.err = "none" => b.h.connected
  <2>1. CASE a.err # "none"
    <3>1. b = a
      BY <1>2, <2>1
    <3> QED BY <1>3, <2>1, <3>1
  <2>2. CASE a.err = "none"
    <3>1. b \in make_tb_connection(a.h)
      BY <1>2, <2>2
    <3>2. /\ Sound(b.h, held, bad) /\ b.h.made.stmts = a.h.made.stmts
          /\ b.err = "none" => b.h.connected
      BY <1>3, <3>1, MakeConnectionSound
    <3> QED BY <1>3, <3>2
  <2> QED BY <2>1, <2>2
<1> QED BY <1>0, <1>1, <1>4, StatementFrom

(* get_tb_statement, with its retry.                                       *)
LEMMA BothAttempts ==
    ASSUME NEW held, OnlyStmts(held), NEW bad, NEW h, Sound(h, held, bad),
           NEW invalidated \in BOOLEAN, NEW x \in FirstAttempt(h, invalidated),
           NEW y \in IF x.err = "fdw" THEN Retry(x.h) ELSE {x}
    PROVE  /\ Delivered(h, held, bad, y)
           /\ ~invalidated /\ x.err = "none" => y = x /\ h.live \subseteq y.h.live
<1>1. /\ Delivered(h, held, bad, x)
      /\ ~invalidated /\ x.err = "none" => h.live \subseteq x.h.live
  BY FirstAttemptSound
<1>2. CASE x.err = "fdw"
  <2>1. Sound(x.h, held, bad) /\ x.h.made.stmts >= h.made.stmts
    BY <1>1, <1>2 DEF Delivered
  <2>2. Delivered(x.h, held, bad, y)
    BY <1>2, <2>1, RetrySound
  <2>3. Sound(y.h, held \union {Newest(y.h)}, bad) \/ Sound(y.h, held, bad)
    BY <2>2 DEF Delivered
  <2>4. h \in Drivers /\ x.h \in Drivers /\ y.h \in Drivers
    BY <2>1, <2>3 DEF Sound
  <2>5. h.made.stmts \in Nat /\ x.h.made.stmts \in Nat /\ y.h.made.stmts \in Nat
    BY <2>4, Fields
  <2> QED BY <1>2, <2>1, <2>2, <2>5 DEF Delivered
<1>3. CASE x.err # "fdw"
  <2>1. y = x
    BY <1>3
  <2> QED BY <1>1, <2>1
<1> QED BY <1>2, <1>3

-----------------------------------------------------------------------------
Held == {hstmt[s] : s \in Open}

(* Statements of open scans have numbers that were given out, each one to  *)
(* one scan only.                                                          *)
Numbered ==
    /\ \A s \in Open : hstmt[s].kind = "stmt" /\ hstmt[s].number <= made.stmts
    /\ \A s, t \in Open : s # t => hstmt[s] # hstmt[t]

HandleInv ==
    HandleTypeOK /\ Sound(State, Held, dropped) /\ Numbered /\ StatementsLive

(* The driver and the entry after a step that leaves them as h says.       *)
LEMMA BecomesState ==
    ASSUME NEW h \in Drivers, Becomes(h)
    PROVE  /\ State' = h /\ live' = h.live /\ made' = h.made /\ lost' = h.lost
           /\ conn' \in [connected : BOOLEAN, henv : Nat, hdbc : Nat]
           /\ live' \subseteq Handles /\ lost' \subseteq Handles
           /\ made' \in [sessions : Nat, stmts : Nat]
           /\ misused' \subseteq Handles /\ refused' \in BOOLEAN
<1>1. /\ live' = h.live /\ made' = h.made /\ lost' = h.lost
      /\ misused' = h.misused /\ refused' = h.refused
      /\ conn' = [connected |-> h.connected, henv |-> h.henv, hdbc |-> h.hdbc]
  BY DEF Becomes
<1>2. conn'.connected = h.connected /\ conn'.henv = h.henv /\ conn'.hdbc = h.hdbc
  BY <1>1
<1>3. State' = [connected |-> h.connected, henv |-> h.henv, hdbc |-> h.hdbc,
                live |-> h.live, made |-> h.made, misused |-> h.misused,
                refused |-> h.refused, lost |-> h.lost]
  BY <1>1, <1>2 DEF State
<1>4. State' = h
  BY <1>3 DEF Drivers
<1> QED BY <1>1, <1>4, Fields

LEMMA HeldAreStmts ==
    ASSUME HandleInv
    PROVE  /\ OnlyStmts(Held) /\ State \in Drivers
           /\ State.live = live /\ State.lost = lost /\ State.made = made
           /\ State.connected = conn.connected /\ State.hdbc = conn.hdbc
           /\ State.henv = conn.henv
           /\ State.misused = misused /\ State.refused = refused
<1>1. OnlyStmts(Held)
  BY DEF HandleInv, Numbered, OnlyStmts, Held
<1>2. State \in Drivers
  BY DEF HandleInv, Sound
<1> QED BY <1>1, <1>2 DEF State

(* Which scans are open once some are gone.                                *)
LEMMA ClosedOpen ==
    ASSUME NEW gone, HandleInv, hstmt' = Closed(gone)
    PROVE  /\ Open' = Open \ gone
           /\ \A s \in Open' : hstmt'[s] = hstmt[s]
           /\ hstmt' \in [Cursors -> Handles]
           /\ Held' \subseteq Held
<1>1. hstmt \in [Cursors -> Handles]
  BY DEF HandleInv, HandleTypeOK
<1>2. NoStmt \in Handles
  BY HandleKinds DEF NoStmt
<1>3. hstmt' \in [Cursors -> Handles]
  BY <1>1, <1>2 DEF Closed
<1>4. \A s \in Cursors : hstmt'[s] = IF s \in gone THEN NoStmt ELSE hstmt[s]
  BY DEF Closed
<1>5. Open' = Open \ gone /\ \A s \in Open' : hstmt'[s] = hstmt[s]
  BY <1>4 DEF Open
<1>6. Held' \subseteq Held
  BY <1>5 DEF Held
<1> QED BY <1>3, <1>5, <1>6

(* More statements may be known to be gone.                                *)
LEMMA SoundMore ==
    ASSUME NEW held, NEW h, NEW bad, NEW more, bad \subseteq more, Sound(h, held, bad)
    PROVE  Sound(h, held, more)
  BY DEF Sound, Excused

Noting(h, l) == [h EXCEPT !.lost = l]

(* Handles that are no longer held and still live have been noted as lost. *)
LEMMA SoundLess ==
    ASSUME NEW held, NEW kept, NEW bad, NEW h, Sound(h, held, bad),
           NEW l \in SUBSET Handles,
           NEW g, g = Noting(h, l),
           h.lost \subseteq l,
           \A x \in held \ kept : x \in h.live => x \in l
    PROVE  Sound(g, kept, bad) /\ g \in Drivers /\ g.made = h.made
<1>1. h \in Drivers /\ Excused(h, bad)
  BY DEF Sound
<1>2. /\ g \in Drivers /\ g.lost = l /\ g.live = h.live /\ g.made = h.made
      /\ g.connected = h.connected /\ g.henv = h.henv /\ g.hdbc = h.hdbc
      /\ g.misused = h.misused /\ g.refused = h.refused
  BY <1>1 DEF Noting, Drivers
<1>3. Excused(g, bad)
  BY <1>1, <1>2 DEF Excused
<1>4. CASE h.connected
  <2>1. Owned(g, kept)
    BY <1>2, <1>4 DEF Sound, Owned
  <2> QED BY <1>2, <1>3, <1>4, <2>1 DEF Sound
<1>5. CASE ~h.connected
  BY <1>2, <1>3, <1>5 DEF Sound
<1> QED BY <1>4, <1>5

(* Some scans leave their statements behind, in a session that has become  *)
(* what h says.                                                            *)
LEMMA ForgetKeeps ==
    ASSUME HandleInv, NEW gone \in SUBSET Open, NEW h, Sound(h, Held, dropped),
           h.made.stmts >= made.stmts, Forget(gone, h)
    PROVE  HandleInv'
<1> DEFINE l == h.lost \union ({hstmt[s] : s \in gone} \intersect h.live)
           g == [h EXCEPT !.lost = l]
<1>1. h \in Drivers /\ State \in Drivers /\ State.made = made
  BY HeldAreStmts DEF Sound
<1>2. l \in SUBSET Handles
  BY <1>1, Fields
<1>3. g = [h EXCEPT !.lost = @ \union ({hstmt[s] : s \in gone} \intersect h.live)]
  BY <1>1 DEF Drivers
<1>4. Becomes(g) /\ hstmt' = Closed(gone)
      /\ dropped' = dropped \union LeftDangling(Open \ gone)
  BY <1>3 DEF Forget
<1>5. /\ Open' = Open \ gone /\ \A s \in Open' : hstmt'[s] = hstmt[s]
      /\ hstmt' \in [Cursors -> Handles]
  BY <1>4, ClosedOpen
<1>6. Sound(g, Held', dropped) /\ g \in Drivers /\ g.made = h.made
  <2>1. \A x \in Held \ Held' : x \in h.live => x \in l
    BY <1>5 DEF Held
  <2>2. h.lost \subseteq l
    OBVIOUS
  <2> HIDE DEF l
  <2>3. g = Noting(h, l)
    BY DEF Noting
  <2> HIDE DEF g
  <2> QED BY <1>2, <2>1, <2>2, <2>3, SoundLess
<1> HIDE DEF g
<1>7. /\ State' = g /\ live' = g.live /\ made' = h.made
      /\ conn' \in [connected : BOOLEAN, henv : Nat, hdbc : Nat]
      /\ live' \subseteq Handles /\ lost' \subseteq Handles
      /\ made' \in [sessions : Nat, stmts : Nat]
      /\ misused' \subseteq Handles /\ refused' \in BOOLEAN
  BY <1>4, <1>6, BecomesState
<1>8. HandleTypeOK'
  <2>1. dropped' \subseteq Handles
    BY <1>4 DEF HandleInv, HandleTypeOK, LeftDangling
  <2> QED BY <1>5, <1>7, <2>1 DEF HandleTypeOK
<1>9. Numbered'
  <2>1. made.stmts \in Nat /\ made'.stmts \in Nat /\ made'.stmts >= made.stmts
    BY <1>7 DEF HandleInv, HandleTypeOK
  <2>2. \A s \in Open : hstmt[s].number \in Nat
    BY DEF HandleInv, HandleTypeOK, Open, Handles
  <2> QED BY <1>5, <2>1, <2>2 DEF HandleInv, Numbered
<1>10. StatementsLive'
  BY <1>4, <1>5 DEF HandleInv, StatementsLive, LeftDangling
<1>11. Sound(State', Held', dropped')
  BY <1>4, <1>6, <1>7, SoundMore
<1> QED BY <1>8, <1>9, <1>10, <1>11 DEF HandleInv

(* get_tb_statement has come to the outcome y, by the first attempt's x.   *)
Taken(s, invalidated, x, y) ==
    \/ /\ y.err = "none"
       /\ Becomes(y.h)
       /\ hstmt' = [hstmt EXCEPT ![s] = Stmt(y.h.hdbc, y.h.made.stmts)]
       /\ dropped' = dropped \union IF invalidated \/ x.err # "none"
                                    THEN LeftDangling(Open) ELSE {}
    \/ /\ y.err # "none"
       /\ \E gone \in SUBSET Open : Forget(gone, y.h)

LEMMA TakenKeeps ==
    ASSUME HandleInv, NEW s \in Cursors, TakeStatement(s)
    PROVE  HandleInv'
<1>1. PICK invalidated \in BOOLEAN :
        \E x \in FirstAttempt(State, invalidated) :
        \E y \in IF x.err = "fdw" THEN Retry(x.h) ELSE {x} :
          Taken(s, invalidated, x, y)
  BY DEF TakeStatement, Taken
<1>2. PICK x \in FirstAttempt(State, invalidated) :
        \E y \in IF x.err = "fdw" THEN Retry(x.h) ELSE {x} :
          Taken(s, invalidated, x, y)
  BY <1>1
<1>3. PICK y \in IF x.err = "fdw" THEN Retry(x.h) ELSE {x} :
          Taken(s, invalidated, x, y)
  BY <1>2
<1>4. /\ State \in Drivers /\ State.live = live /\ State.made = made
      /\ OnlyStmts(Held) /\ Sound(State, Held, dropped)
  BY HeldAreStmts DEF HandleInv
<1>5. /\ Delivered(State, Held, dropped, y)
      /\ ~invalidated /\ x.err = "none" => live \subseteq y.h.live
  BY <1>4, BothAttempts
<1>6. CASE y.err = "none"
  <2> DEFINE new == Newest(y.h)
  <2>1. /\ Becomes(y.h)
        /\ hstmt' = [hstmt EXCEPT ![s] = new]
        /\ dropped' = dropped \union IF invalidated \/ x.err # "none"
                                     THEN LeftDangling(Open) ELSE {}
    BY <1>3, <1>6 DEF Newest, Taken
  <2>2. /\ Sound(y.h, Held \union {new}, dropped) /\ new \in y.h.live
        /\ y.h.made.stmts > made.stmts
    BY <1>4, <1>5, <1>6 DEF Delivered
  <2>3. y.h \in Drivers
    BY <2>2 DEF Sound
  <2>4. /\ State' = y.h /\ live' = y.h.live /\ made' = y.h.made
        /\ conn' \in [connected : BOOLEAN, henv : Nat, hdbc : Nat]
        /\ live' \subseteq Handles /\ lost' \subseteq Handles
        /\ made' \in [sessions : Nat, stmts : Nat]
        /\ misused' \subseteq Handles /\ refused' \in BOOLEAN
    BY <2>1, <2>3, BecomesState
  <2>5. /\ y.h.hdbc \in Nat /\ y.h.made.stmts \in Nat /\ made.stmts \in Nat
    BY <1>4, <2>3, Fields
  <2>6. /\ new \in Handles /\ new.kind = "stmt" /\ new.number = made'.stmts
        /\ NoStmt.number = 0
    <3>1. made'.stmts = y.h.made.stmts
      BY <2>4
    <3>2. new = Stmt(y.h.hdbc, y.h.made.stmts)
      BY DEF Newest
    <3>3. /\ new \in Handles /\ new.kind = "stmt" /\ new.number = y.h.made.stmts
      BY <2>5, <3>2, HandleKinds
    <3>4. NoStmt.number = 0
      BY HandleKinds DEF NoStmt
    <3> QED BY <3>1, <3>3, <3>4
  <2> HIDE DEF new
  <2>7. /\ new # NoStmt /\ new.number > made.stmts
    BY <2>2, <2>4, <2>5, <2>6
  <2>8. hstmt \in [Cursors -> Handles] /\ hstmt[s] = NoStmt
    BY DEF HandleInv, HandleTypeOK, TakeStatement
  <2>9. /\ hstmt' \in [Cursors -> Handles] /\ hstmt'[s] = new
        /\ \A t \in Cursors \ {s} : hstmt'[t] = hstmt[t]
    BY <2>1, <2>6, <2>8
  <2>10. Open' = Open \union {s} /\ s \notin Open
    BY <2>7, <2>8, <2>9 DEF Open
  <2>11. Held' = Held \union {new}
    BY <2>9, <2>10 DEF Held, Open
  <2>12. HandleTypeOK'
    <3>1. dropped' \subseteq Handles
      BY <2>1 DEF HandleInv, HandleTypeOK, LeftDangling
    <3> QED BY <2>4, <2>9, <3>1 DEF HandleTypeOK
  <2>13. Numbered'
    <3>1. \A t \in Open : /\ hstmt[t].kind = "stmt" /\ hstmt[t].number \in Nat
                          /\ hstmt[t].number <= made.stmts
                          /\ hstmt'[t] = hstmt[t]
      BY <2>8, <2>9, <2>10 DEF HandleInv, Numbered, Open, Handles
    <3>2. \A t \in Open : hstmt[t] # new /\ hstmt[t].number <= made'.stmts
      BY <3>1, <2>2, <2>4, <2>5, <2>7
    <3>3. \A t \in Open' : hstmt'[t].kind = "stmt" /\ hstmt'[t].number <= made'.stmts
      BY <2>4, <2>5, <2>6, <2>9, <2>10, <3>1, <3>2
    <3>4. \A t, u \in Open' : t # u => hstmt'[t] # hstmt'[u]
      BY <2>9, <2>10, <3>1, <3>2 DEF HandleInv, Numbered
    <3> QED BY <3>3, <3>4 DEF Numbered
  <2>14. StatementsLive'
    <3> SUFFICES ASSUME NEW t \in Open', hstmt'[t] \notin dropped'
                 PROVE  hstmt'[t] \in live'
      BY DEF StatementsLive
    <3>1. CASE t = s
      BY <3>1, <2>2, <2>4, <2>9
    <3>2. CASE t # s
      <4>1. t \in Open /\ hstmt'[t] = hstmt[t] /\ hstmt[t] \in live
        BY <3>2, <2>1, <2>9, <2>10 DEF HandleInv, StatementsLive, Open
      <4>2. CASE invalidated \/ x.err # "none"
        BY <4>1, <4>2, <2>1 DEF LeftDangling
      <4>3. CASE ~invalidated /\ x.err = "none"
        BY <4>1, <4>3, <1>5, <2>4
      <4> QED BY <4>2, <4>3
    <3> QED BY <3>1, <3>2
  <2>15. Sound(State', Held', dropped')
    <3>1. dropped \subseteq dropped'
      BY <2>1
    <3> QED BY <3>1, <2>2, <2>4, <2>11, SoundMore
  <2> QED BY <2>12, <2>13, <2>14, <2>15 DEF HandleInv
<1>7. CASE y.err # "none"
  <2>1. Sound(y.h, Held, dropped) /\ y.h.made.stmts >= made.stmts
    BY <1>4, <1>5, <1>7 DEF Delivered
  <2>2. PICK gone \in SUBSET Open : Forget(gone, y.h)
    BY <1>3, <1>7 DEF Taken
  <2> QED BY <2>1, <2>2, ForgetKeeps
<1> QED BY <1>6, <1>7

(* A call on the statement of an open scan: if it is gone, that is known.  *)
LEMMA StatementCalled ==
    ASSUME HandleInv, NEW s \in Open
    PROVE  /\ Sound(Use(State, {hstmt[s]}), Held, dropped)
           /\ Use(State, {hstmt[s]}).made = made
           /\ Use(State, {hstmt[s]}).live = live
           /\ Use(State, {hstmt[s]}).lost = lost
           /\ Use(State, {hstmt[s]}).hdbc = conn.hdbc
<1> DEFINE u == Use(State, {hstmt[s]})
<1>1. /\ State \in Drivers /\ State.live = live /\ State.lost = lost
      /\ State.made = made /\ State.hdbc = conn.hdbc
      /\ Sound(State, Held, dropped)
  BY HeldAreStmts DEF HandleInv
<1>2. hstmt[s] \in Handles /\ hstmt[s].kind = "stmt" /\ hstmt[s] \in live \union dropped
  BY DEF HandleInv, HandleTypeOK, Numbered, StatementsLive, Open
<1>3. /\ u \in Drivers /\ u.misused = State.misused \union ({hstmt[s]} \ State.live)
      /\ u.live = State.live /\ u.lost = State.lost
      /\ u.connected = State.connected /\ u.henv = State.henv
      /\ u.hdbc = State.hdbc
      /\ u.made = State.made /\ u.refused = State.refused
  BY <1>1, <1>2, Called
<1> HIDE DEF u
<1>4. Excused(u, dropped)
  BY <1>1, <1>2, <1>3 DEF Sound, Excused
<1>5. Sound(u, Held, dropped)
  BY <1>1, <1>3, <1>4 DEF Sound, Owned
<1> QED BY <1>1, <1>3, <1>5 DEF u

LEMMA FailureKeeps ==
    ASSUME HandleInv, NEW s \in Cursors, CallFails(s)
    PROVE  HandleInv'
<1>1. PICK h \in TbFdwReportError(Use(State, {hstmt[s]})) :
         \E gone \in SUBSET Open : Forget(gone, h)
  BY DEF CallFails
<1>2. PICK gone \in SUBSET Open : Forget(gone, h)
  BY <1>1
<1>3. s \in Open /\ OnlyStmts(Held) /\ made.stmts \in Nat
  BY HeldAreStmts DEF CallFails, HandleInv, HandleTypeOK
<1>4. Sound(h, Held, dropped) /\ h.made = made
  BY <1>3, StatementCalled, ReportSound
<1> QED BY <1>2, <1>3, <1>4, ForgetKeeps

(* The scans stay as they are, and none of their statements goes.          *)
LEMMA UseKeeps ==
    ASSUME HandleInv, NEW s \in Cursors, UseStatement(s)
    PROVE  HandleInv'
<1> DEFINE u == Use(State, {hstmt[s]})
<1>1. s \in Open /\ Becomes(u) /\ hstmt' = hstmt /\ dropped' = dropped
  BY DEF UseStatement
<1>2. Sound(u, Held, dropped) /\ u.made = made /\ u.live = live
  BY <1>1, StatementCalled
<1> HIDE DEF u
<1>3. u \in Drivers
  BY <1>2 DEF Sound
<1>4. /\ State' = u /\ live' = live /\ made' = made
      /\ conn' \in [connected : BOOLEAN, henv : Nat, hdbc : Nat]
      /\ lost' \subseteq Handles
      /\ misused' \subseteq Handles /\ refused' \in BOOLEAN
  BY <1>1, <1>2, <1>3, BecomesState
<1>5. Open' = Open /\ Held' = Held
  BY <1>1 DEF Open, Held
<1>6. HandleTypeOK' /\ Numbered' /\ StatementsLive'
  BY <1>1, <1>4, <1>5 DEF HandleInv, HandleTypeOK, Numbered, StatementsLive
<1> QED BY <1>1, <1>2, <1>4, <1>5, <1>6 DEF HandleInv

(* Only the scan that ends loses its statement.                            *)
LEMMA DropKeeps ==
    ASSUME HandleInv, NEW s \in Cursors, DropStatement(s)
    PROVE  HandleInv'
<1> DEFINE u == Use(State, {hstmt[s]})
           d == Freed(u, {hstmt[s]})
<1>1. /\ s \in Open /\ Becomes(d) /\ hstmt' = Closed({s}) /\ dropped' = dropped
  BY DEF DropStatement, SQLFreeStmt
<1>2. /\ Open' = Open \ {s} /\ \A t \in Open' : hstmt'[t] = hstmt[t]
      /\ hstmt' \in [Cursors -> Handles]
  BY <1>1, ClosedOpen
<1>3. Sound(u, Held, dropped) /\ u.made = made /\ u.live = live
  BY <1>1, StatementCalled
<1> HIDE DEF u
<1>4. u \in Drivers
  BY <1>3 DEF Sound
<1>5. /\ d \in Drivers /\ d.live = u.live \ {hstmt[s]}
      /\ d.misused = u.misused /\ d.lost = u.lost
      /\ d.connected = u.connected /\ d.henv = u.henv /\ d.hdbc = u.hdbc
      /\ d.made = u.made /\ d.refused = u.refused
  BY <1>4, NowFreed
<1> HIDE DEF d
<1>6. /\ State' = d /\ live' = live \ {hstmt[s]} /\ made' = made
      /\ conn' \in [connected : BOOLEAN, henv : Nat, hdbc : Nat]
      /\ live' \subseteq Handles /\ lost' \subseteq Handles
      /\ misused' \subseteq Handles /\ refused' \in BOOLEAN
  BY <1>1, <1>3, <1>5, BecomesState
<1>7. hstmt[s].kind = "stmt"
  BY <1>1 DEF HandleInv, Numbered
<1>8. Held \ {hstmt[s]} \subseteq Held'
  BY <1>2 DEF Held
<1>9. Sound(d, Held', dropped)
  <2>1. Excused(d, dropped)
    BY <1>3, <1>5 DEF Sound, Excused
  <2>2. CASE u.connected
    <3>1. /\ u.henv = u.hdbc /\ Env(u.henv) \in u.live
          /\ Dbc(u.hdbc) \in u.live /\ Owned(u, Held)
      BY <1>3, <2>2 DEF Sound
    <3>2. Env(u.henv).kind = "env" /\ Dbc(u.hdbc).kind = "dbc"
      BY DEF Env, Dbc
    <3>3. Env(d.henv) \in d.live /\ Dbc(d.hdbc) \in d.live
      BY <1>5, <1>7, <3>1, <3>2
    <3>4. Owned(d, Held')
      BY <1>5, <1>8, <3>1 DEF Owned
    <3> QED BY <1>5, <2>1, <2>2, <3>1, <3>3, <3>4 DEF Sound
  <2>3. CASE ~u.connected
    BY <1>3, <1>5, <2>1, <2>3 DEF Sound
  <2> QED BY <2>2, <2>3
<1>10. HandleTypeOK'
  BY <1>1, <1>2, <1>6 DEF HandleInv, HandleTypeOK
<1>11. Numbered'
  <2>1. Numbered /\ made' = made /\ Open' \subseteq Open
    BY <1>2, <1>6 DEF HandleInv
  <2>2. /\ \A t \in Open' : hstmt'[t].kind = "stmt" /\ hstmt'[t].number <= made.stmts
        /\ \A t, u_ \in Open' : t # u_ => hstmt'[t] # hstmt'[u_]
    BY <1>2, <2>1 DEF Numbered
  <2> QED BY <2>1, <2>2 DEF Numbered
<1>12. StatementsLive'
  BY <1>1, <1>2, <1>6 DEF HandleInv, StatementsLive, Numbered
<1> QED BY <1>1, <1>6, <1>9, <1>10, <1>11, <1>12 DEF HandleInv

(* A step after which no scan is open.                                     *)
LEMMA AllClosed ==
    ASSUME HandleInv, hstmt' = Closed(Open), dropped' = dropped,
           NEW g, Sound(g, {}, dropped), Becomes(g)
    PROVE  HandleInv'
<1>1. g \in Drivers
  BY DEF Sound
<1>2. Open' = {} /\ hstmt' \in [Cursors -> Handles]
  BY ClosedOpen
<1>3. /\ State' = g
      /\ conn' \in [connected : BOOLEAN, henv : Nat, hdbc : Nat]
      /\ live' \subseteq Handles /\ lost' \subseteq Handles
      /\ made' \in [sessions : Nat, stmts : Nat]
      /\ misused' \subseteq Handles /\ refused' \in BOOLEAN
  BY <1>1, BecomesState
<1>4. Held' = {}
  BY <1>2 DEF Held
<1>5. HandleTypeOK' /\ Numbered' /\ StatementsLive'
  BY <1>2, <1>3 DEF HandleInv, HandleTypeOK, Numbered, StatementsLive
<1> QED BY <1>3, <1>4, <1>5 DEF HandleInv

LEMMA EndKeeps ==
    ASSUME HandleInv, XactEnds
    PROVE  HandleInv'
<1>1. PICK x \in EndTransaction(State) :
       Becomes([x.h EXCEPT !.lost =
                  @ \union ({hstmt[s] : s \in Open} \intersect x.h.live)])
  BY DEF XactEnds
<1>2. hstmt' = Closed(Open) /\ dropped' = dropped
  BY DEF XactEnds
<1>3. OnlyStmts(Held) /\ Sound(State, Held, dropped)
  BY HeldAreStmts DEF HandleInv
<1>4. Sound(x.h, Held, dropped)
  <2>1. CASE x = Ok(State)
    <3>1. x.h = State
      BY <2>1 DEF Ok
    <3> QED BY <1>3, <3>1
  <2>2. CASE x \in FdwError(State)
    <3>1. x.h \in TbFdwReportError(State)
      BY <2>2, FdwOutcome
    <3> QED BY <1>3, <3>1, ReportSound
  <2>3. CASE x \in disconnect_tb_server(State)
    BY <1>3, <2>3, DisconnectSound
  <2> QED BY <2>1, <2>2, <2>3 DEF EndTransaction
<1> DEFINE l == x.h.lost \union (Held \intersect x.h.live)
           g == [x.h EXCEPT !.lost = l]
<1>5. x.h \in Drivers
  BY <1>4 DEF Sound
<1>6. g = [x.h EXCEPT !.lost =
             @ \union ({hstmt[s] : s \in Open} \intersect x.h.live)]
  BY <1>5 DEF Drivers, Held
<1>7. /\ l \in SUBSET Handles /\ x.h.lost \subseteq l
      /\ \A y \in Held : y \in x.h.live => y \in l
  BY <1>5, Fields
<1>8. Sound(g, {}, dropped)
  <2> DEFINE none == {}
  <2>1. \A y \in Held \ none : y \in x.h.live => y \in l
    BY <1>7
  <2> HIDE DEF l, none
  <2> DEFINE h == x.h
  <2>2. Sound(h, Held, dropped) /\ g = Noting(h, l) /\ h.lost \subseteq l
    BY <1>4, <1>7 DEF Noting
  <2>3. \A y \in Held \ none : y \in h.live => y \in l
    BY <2>1
  <2> HIDE DEF g, h
  <2>4. Sound(g, none, dropped)
    BY <1>7, <2>2, <2>3, SoundLess
  <2> QED BY <2>4 DEF none
<1> QED BY <1>1, <1>2, <1>6, <1>8, AllClosed

LEMMA TroubleKeeps ==
    ASSUME HandleInv, XactTrouble
    PROVE  HandleInv'
<1> DEFINE l == lost \union OfSession(State)
           g == [State EXCEPT !.connected = FALSE, !.lost = l]
<1>1. /\ State \in Drivers /\ State.live = live /\ State.lost = lost
      /\ State.connected = conn.connected /\ State.hdbc = conn.hdbc
      /\ Sound(State, Held, dropped)
  BY HeldAreStmts DEF HandleInv
<1>2. conn.connected /\ hstmt' = Closed(Open) /\ dropped' = dropped
  BY DEF XactTrouble
<1>3. Becomes([State EXCEPT !.connected = FALSE,
                 !.lost = @ \union OfSession(State)])
  BY DEF XactTrouble
<1>4. Becomes(g)
  BY <1>1, <1>3
<1>5. l \subseteq Handles
  BY <1>1 DEF HandleInv, HandleTypeOK, OfSession
<1>6. Owned(State, Held) /\ Excused(State, dropped)
  BY <1>1, <1>2 DEF Sound
<1>7. live \subseteq l
  BY <1>1, <1>6 DEF Owned, OfSession
<1> HIDE DEF l
<1>8. /\ g \in Drivers /\ ~g.connected /\ g.live = live /\ g.lost = l
      /\ g.misused = State.misused /\ g.refused = State.refused
  BY <1>1, <1>5 DEF Drivers
<1> HIDE DEF g
<1>9. Sound(g, {}, dropped)
  BY <1>6, <1>7, <1>8 DEF Sound, Excused
<1> QED BY <1>2, <1>4, <1>9, AllClosed

(* HandleInv holds in every state.                                         *)
THEOREM HandleInvariant == HandleSpec => []HandleInv
<1>1. HandleInit => HandleInv
  <2> SUFFICES ASSUME HandleInit
               PROVE  HandleInv
    OBVIOUS
  <2>1. NoStmt \in Handles
    BY HandleKinds DEF NoStmt
  <2>2. HandleTypeOK /\ Open = {}
    BY <2>1 DEF HandleInit, HandleTypeOK, Open
  <2>3. Sound(State, Held, dropped)
    BY <2>2 DEF HandleInit, Sound, Excused, State, Drivers, HandleTypeOK
  <2> QED BY <2>2, <2>3 DEF HandleInv, Numbered, StatementsLive
<1>2. HandleInv /\ [HandleNext]_handleVars => HandleInv'
  <2> SUFFICES ASSUME HandleInv, [HandleNext]_handleVars
               PROVE  HandleInv'
    OBVIOUS
  <2>1. ASSUME NEW s \in Cursors, TakeStatement(s)
        PROVE  HandleInv'
    BY <2>1, TakenKeeps
  <2>2. ASSUME NEW s \in Cursors, CallFails(s)
        PROVE  HandleInv'
    BY <2>2, FailureKeeps
  <2>3. ASSUME NEW s \in Cursors, UseStatement(s)
        PROVE  HandleInv'
    BY <2>3, UseKeeps
  <2>4. ASSUME NEW s \in Cursors, DropStatement(s)
        PROVE  HandleInv'
    BY <2>4, DropKeeps
  <2>5. CASE XactEnds
    BY <2>5, EndKeeps
  <2>6. CASE XactTrouble
    BY <2>6, TroubleKeeps
  <2>7. CASE UNCHANGED handleVars
    BY <2>7 DEF handleVars, HandleInv, HandleTypeOK, Sound, Excused, Owned,
                Numbered, StatementsLive, State, Held, Open
  <2> QED BY <2>1, <2>2, <2>3, <2>4, <2>5, <2>6, <2>7 DEF HandleNext
<1> QED BY <1>1, <1>2, PTL DEF HandleSpec

(* The handles and the entry keep their types.                             *)
THEOREM HandleTypes == HandleSpec => []HandleTypeOK
<1>1. HandleInv => HandleTypeOK
  BY DEF HandleInv
<1> QED BY <1>1, HandleInvariant, PTL

(* Whatever calls fail, and whatever of a session the driver then refuses  *)
(* to release, a handle that was freed is given to the driver again only   *)
(* if it is the statement of a scan whose session was dropped, or once the *)
(* driver refused to free an environment.                                  *)
THEOREM UsedLive == HandleSpec => []HandlesUsedLive
<1>1. HandleInv => HandlesUsedLive
  BY HeldAreStmts DEF HandleInv, Sound, Excused, HandlesUsedLive
<1> QED BY <1>1, HandleInvariant, PTL

(* Every handle that is live is the entry's, an open scan's, or one that a *)
(* failure left behind: the driver's refusals on the error path included.  *)
THEOREM NoLeaks == HandleSpec => []NothingLeaks
<1>1. HandleInv => NothingLeaks
  <2> SUFFICES ASSUME HandleInv, NEW x \in live, x \notin lost
               PROVE  /\ conn.connected
                      /\ x \in {Env(conn.henv), Dbc(conn.hdbc)}
                               \union {hstmt[s] : s \in Open}
    BY DEF NothingLeaks
  <2>1. /\ State.live = live /\ State.lost = lost
        /\ State.connected = conn.connected /\ State.hdbc = conn.hdbc
        /\ State.henv = conn.henv
    BY HeldAreStmts
  <2>2. conn.connected
    BY <2>1 DEF HandleInv, Sound
  <2>3. Owned(State, Held)
    BY <2>1, <2>2 DEF HandleInv, Sound
  <2> QED BY <2>1, <2>2, <2>3 DEF Owned, Held
<1> QED BY <1>1, HandleInvariant, PTL

(* A scan keeps its statement until a failure or an invalidation ends the  *)
(* session it is of.                                                       *)
THEOREM LiveStatements == HandleSpec => []StatementsLive
<1>1. HandleInv => StatementsLive
  BY DEF HandleInv
<1> QED BY <1>1, HandleInvariant, PTL
=============================================================================

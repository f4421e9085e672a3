----------------------------- MODULE TextProofs -----------------------------
(***************************************************************************)
(* Proofs about the components that read and write texts: the words of the *)
(* options (FdwOptions), the conditions of a statement and how they are    *)
(* read (DeparseText, SqlReader), the zone of a constant (ZoneText), the   *)
(* cells of a batch (ColumnBuffers).                                       *)
(***************************************************************************)
EXTENDS FdwOptions, SqlReader, ZoneText, ColumnBuffers, SequenceTheorems,
        WellFoundedInduction, TLAPS

-----------------------------------------------------------------------------
(***************************************************************************)
(* FdwOptions, for any words, however they are parsed.                     *)
(***************************************************************************)
(* Every object's list is one that the validator lets through.             *)
AllValid == \A o \in DOMAIN options : validate_options(o, options[o])

OptionInv == OptionTypeOK /\ AllValid

-----------------------------------------------------------------------------
(* A list that is stored is valid and keeps the types, if its words are    *)
(* words of the model.                                                     *)
LEMMA StoredValid ==
    ASSUME OptionInv, NEW o \in Objects, NEW list, Store(o, list),
           \A k \in DOMAIN list : list[k] \in Values
    PROVE  OptionInv'
<1>1. DOMAIN options' = DOMAIN options \union {o}
    BY DEF Store
<1>2. /\ options'[o] = list
      /\ \A p \in DOMAIN options \ {o} : options'[p] = options[p]
    BY DEF Store
<1>3. validate_options(o, list)
    BY DEF Store
<1>4. DOMAIN list \subseteq Keywords
    BY <1>3 DEF validate_options, Keywords
<1>5. OptionTypeOK'
    BY <1>1, <1>2, <1>4 DEF OptionInv, OptionTypeOK
<1>6. AllValid'
  <2> SUFFICES ASSUME NEW p \in DOMAIN options'
               PROVE  validate_options(p, options'[p])
      BY DEF AllValid, validate_options
  <2>1. CASE p = o
      BY <2>1, <1>2, <1>3
  <2>2. CASE p # o
      BY <2>2, <1>1, <1>2 DEF OptionInv, AllValid
  <2> QED BY <2>1, <2>2
<1> QED BY <1>5, <1>6 DEF OptionInv

(* Every step leaves valid lists behind.                                   *)
LEMMA StepValid ==
    ASSUME OptionInv, [OptionNext]_options
    PROVE  OptionInv'
<1>1. ASSUME NEW o \in Objects, CreateObject(o)
      PROVE  OptionInv'
  <2>1. PICK given \in SUBSET required[o] :
          \E list \in [given -> Tried["host"]] : Store(o, list)
      BY <1>1 DEF CreateObject
  <2>2. PICK list \in [given -> Tried["host"]] : Store(o, list)
      BY <2>1
  <2>3. "host" \in Keywords
      BY DEF Keywords, registered, Objects
  <2>4. \A k \in DOMAIN list : list[k] \in Values
      BY <2>3, OptionConstants
  <2> QED BY <2>2, <2>4, StoredValid
<1>2. ASSUME NEW o \in Objects, NEW k \in Keywords, NEW v \in Tried[k],
             PutOption(o, k, v)
      PROVE  OptionInv'
  <2> DEFINE list == [x \in DOMAIN options[o] \union {k} |->
                        IF x = k THEN v ELSE options[o][x]]
  <2>1. o \in DOMAIN options /\ Store(o, list)
      BY <1>2 DEF PutOption
  <2>2. v \in Values
      BY OptionConstants
  <2>3. \A x \in DOMAIN list : list[x] \in Values
      BY <2>1, <2>2 DEF OptionInv, OptionTypeOK
  <2> QED BY <2>1, <2>3, StoredValid
<1>3. ASSUME NEW o \in Objects, NEW k \in Keywords, RemoveOption(o, k)
      PROVE  OptionInv'
  <2> DEFINE list == [x \in DOMAIN options[o] \ {k} |-> options[o][x]]
  <2>1. o \in DOMAIN options /\ Store(o, list)
      BY <1>3 DEF RemoveOption
  <2>2. \A x \in DOMAIN list : list[x] \in Values
      BY <2>1 DEF OptionInv, OptionTypeOK
  <2> QED BY <2>1, <2>2, StoredValid
<1>4. ASSUME NEW o \in Objects, DropObject(o)
      PROVE  OptionInv'
  <2>1. DOMAIN options' \subseteq DOMAIN options
      BY <1>4 DEF DropObject
  <2>2. \A p \in DOMAIN options' : options'[p] = options[p]
      BY <1>4 DEF DropObject
  <2>3. OptionTypeOK'
      BY <2>1, <2>2 DEF OptionInv, OptionTypeOK
  <2>4. AllValid'
    <3> SUFFICES ASSUME NEW p \in DOMAIN options'
                 PROVE  validate_options(p, options'[p])
        BY DEF AllValid, validate_options
    <3> QED BY <2>1, <2>2 DEF OptionInv, AllValid
  <2> QED BY <2>3, <2>4 DEF OptionInv
<1>5. CASE UNCHANGED options
    BY <1>5 DEF OptionInv, OptionTypeOK, AllValid, validate_options
<1> QED BY <1>1, <1>2, <1>3, <1>4, <1>5 DEF OptionNext

(* Whatever DDL statements are given: the catalog holds valid lists only.  *)
THEOREM ListsValid == OptionSpec => []OptionInv
<1>1. OptionInit => OptionInv
    BY DEF OptionInit, OptionInv, OptionTypeOK, AllValid
<1> QED BY <1>1, StepValid, PTL DEF OptionSpec

(* The options keep their types: words of the model under known keywords.  *)
THEOREM OptionTypes == OptionSpec => []OptionTypeOK
<1>1. OptionInv => OptionTypeOK
    BY DEF OptionInv
<1> QED BY <1>1, ListsValid, PTL

-----------------------------------------------------------------------------
(* No argument of a connection is missing or empty.                        *)
THEOREM ConnectArguments == OptionSpec => []ConnectArgumentsGiven
<1>1. OptionInv => ConnectArgumentsGiven
  <2> SUFFICES ASSUME OptionInv, {"server", "mapping"} \subseteq DOMAIN options
               PROVE  /\ MissingArguments = {}
                      /\ \A k \in required["server"] : options["server"][k] # ""
                      /\ \A k \in required["mapping"] : options["mapping"][k] # ""
      BY DEF ConnectArgumentsGiven
  <2>1. /\ required["server"] \subseteq DOMAIN options["server"]
        /\ required["mapping"] \subseteq DOMAIN options["mapping"]
      BY DEF OptionInv, AllValid, validate_options
  <2>2. /\ required["server"] = {"host", "port", "dbname"}
        /\ required["mapping"] = {"username", "password"}
      BY DEF required
  <2>3. MissingArguments = {}
      BY <2>1, <2>2 DEF MissingArguments
  <2>4. /\ \A k \in required["server"] : options["server"][k] # ""
        /\ \A k \in required["mapping"] : options["mapping"][k] # ""
      BY <2>1 DEF OptionInv, AllValid, validate_options, validate
  <2> QED BY <2>3, <2>4
<1> QED BY <1>1, ListsValid, PTL

(* The default number of rows is in the range that the validator allows.   *)
LEMMA DefaultInRange ==
    MaxFetchSize \in Int /\ DefaultFetchSize \in 1 .. MaxFetchSize - 1
<1>1. MaxFetchSize \in Int
    BY SMT DEF MaxFetchSize
<1>2. MaxFetchSize > 100
    BY SMT DEF MaxFetchSize
<1> QED BY <1>1, <1>2, SMT DEF DefaultFetchSize

(* A word for fetch_size that passed is parsed as a number of rows.        *)
LEMMA FetchSizeParsed ==
    ASSUME OptionInv, NEW o \in DOMAIN options, "fetch_size" \in DOMAIN options[o]
    PROVE  parse_int[options[o]["fetch_size"]] \in 1 .. MaxFetchSize - 1
<1>1. validate_fetch_size(options[o]["fetch_size"])
    BY DEF OptionInv, AllValid, validate_options, validate
<1> QED BY <1>1, OptionConstants, DefaultInRange DEF validate_fetch_size

(* A word for a Boolean option that passed is parsed as one.               *)
LEMMA BooleanParsed ==
    ASSUME OptionInv, NEW o \in DOMAIN options, NEW k \in Booleans,
           k \in DOMAIN options[o]
    PROVE  parse_bool[options[o][k]] \in BOOLEAN
<1>1. options[o][k] \in DOMAIN parse_bool
    BY DEF OptionInv, AllValid, validate_options, validate
<1> QED BY <1>1, OptionConstants

(* What the planner reads is usable, for any fetch_size that parses and    *)
(* whichever object it comes from.                                         *)
THEOREM OptionsUsable == OptionSpec => []AppliedUsable
<1>1. OptionInv => AppliedUsable
  <2> SUFFICES ASSUME OptionInv, {"server", "table"} \subseteq DOMAIN options
               PROVE  /\ applied.fetch_size \in 1 .. MaxFetchSize - 1
                      /\ applied.updatable \in BOOLEAN
                      /\ applied.use_fb_query \in BOOLEAN
                      /\ (IsForeignRelUpdatable = {"insert"}) = applied.updatable
      BY DEF AppliedUsable
  <2> DEFINE size == Override("fetch_size", parse_int, DefaultFetchSize)
             updatable == Override("updatable", parse_bool, FALSE)
  <2>1. size \in 1 .. MaxFetchSize - 1
      BY DefaultInRange, FetchSizeParsed DEF Override
  <2>2. updatable \in BOOLEAN
      BY BooleanParsed DEF Override, Booleans
  <2>3. "use_fb_query" \in DOMAIN options["server"]
        => parse_bool[options["server"]["use_fb_query"]] \in BOOLEAN
      BY BooleanParsed DEF Booleans
  <2>4. applied.fetch_size = size /\ applied.updatable = updatable
      BY DEF applied
  <2>5. applied.use_fb_query \in BOOLEAN
      BY <2>3 DEF applied
  <2>6. (IsForeignRelUpdatable = {"insert"}) = updatable
      BY <2>2, Zenon DEF IsForeignRelUpdatable
  <2> QED BY <2>1, <2>2, <2>4, <2>5, <2>6
<1> QED BY <1>1, ListsValid, PTL

-----------------------------------------------------------------------------
(***************************************************************************)
(* DeparseText and SqlReader, for any trees and lists of conditions.       *)
(*                                                                         *)
(* Every item that is left to write moves the reader on and changes        *)
(* pdepth, and a row that takes the place of an item moves both as far as  *)
(* the item does.  At each step the row that is left leads from where the  *)
(* reader is after the text to the end of the conditions, at depth zero.   *)
(***************************************************************************)
(* Every set of natural numbers has a least one.                           *)
LEMMA Least ==
    ASSUME NEW S, S \subseteq Nat, S # {}
    PROVE  \E n \in S : \A m \in S : n <= m
<1> DEFINE R == {pair \in Nat \X Nat : pair[1] < pair[2]}
<1>1. IsWellFoundedOn(R, Nat)
    BY NatLessThanWellFounded, Zenon DEF OpToRel
<1>2. \A m, n \in Nat : m < n => <<m, n>> \in R
    OBVIOUS
<1> HIDE DEF R
<1>3. PICK n \in S : \A m \in S : ~(<<m, n>> \in R)
    BY <1>1, WFMin
<1>4. \A m \in S : ~(m < n)
    BY <1>2, <1>3
<1>5. \A m \in S : m \in Nat /\ n \in Nat
    OBVIOUS
<1> QED BY <1>4, <1>5

(* A run of the reader over a text, and the state it ends in.              *)
Run(run, t) ==
    run = [i \in 0 .. Len(t) |-> IF i = 0 THEN Start ELSE Step(run[i - 1], t[i])]

Reads(t, r) == \E run : Run(run, t) /\ run[Len(t)] = r

(* A text has one run at most.                                             *)
LEMMA OneRun ==
    ASSUME NEW t, Len(t) \in Nat, NEW f, Run(f, t), NEW g, Run(g, t)
    PROVE  f[Len(t)] = g[Len(t)]
<1> DEFINE n == Len(t)
           Bad == {i \in 0 .. n : f[i] # g[i]}
<1>1. /\ f[0] = Start /\ g[0] = Start
      /\ \A i \in 1 .. n : f[i] = Step(f[i - 1], t[i]) /\ g[i] = Step(g[i - 1], t[i])
  <2>1. \A i \in 0 .. n : f[i] = IF i = 0 THEN Start ELSE Step(f[i - 1], t[i])
      BY DEF Run
  <2>2. \A i \in 0 .. n : g[i] = IF i = 0 THEN Start ELSE Step(g[i - 1], t[i])
      BY DEF Run
  <2> HIDE DEF n
  <2>3. n \in Nat
      BY DEF n
  <2> QED BY <2>1, <2>2, <2>3
<1> SUFFICES ASSUME f[n] # g[n] PROVE FALSE
    OBVIOUS
<1>2. n \in Nat /\ n \in Bad /\ Bad \subseteq Nat
    OBVIOUS
<1>3. PICK i \in Bad : \A j \in Bad : i <= j
    BY <1>2, Least
<1>4. i \in 0 .. n /\ f[i] # g[i]
    BY <1>3
<1> HIDE DEF n
<1>5. i \in 1 .. n
    BY <1>1, <1>2, <1>4
<1>6. i - 1 \in 0 .. n /\ ~(i <= i - 1)
    BY <1>2, <1>5
<1>7. f[i - 1] = g[i - 1]
    BY <1>3, <1>6
<1> QED BY <1>1, <1>4, <1>5, <1>7

LEMMA ReadsAll ==
    ASSUME NEW t, Len(t) \in Nat, NEW r, Reads(t, r)
    PROVE  After(t) = r
<1> DEFINE run == CHOOSE run : Run(run, t)
<1>1. PICK f : Run(f, t) /\ f[Len(t)] = r
    BY DEF Reads
<1>2. Run(run, t)
    BY <1>1
<1>3. After(t) = run[Len(t)]
    BY DEF After, Run
<1> HIDE DEF run
<1> QED BY <1>1, <1>2, <1>3, OneRun

LEMMA ReadsNothing == Reads(<<>>, Start)
<1> DEFINE f == [i \in 0 .. 0 |-> Start]
<1>1. Len(<<>>) = 0
    OBVIOUS
<1>2. f = [i \in 0 .. 0 |-> IF i = 0 THEN Start ELSE Step(f[i - 1], <<>>[i])]
    OBVIOUS
<1>3. f[0] = Start
    OBVIOUS
<1> HIDE DEF f
<1> QED BY <1>1, <1>2, <1>3 DEF Reads, Run

LEMMA ReadsOn ==
    ASSUME NEW S, NEW t \in Seq(S), NEW w, NEW r, Reads(t, r),
           NEW u, u = Append(t, w)
    PROVE  Reads(u, Step(r, w))
<1> DEFINE n == Len(t)
<1>1. PICK f : Run(f, t) /\ f[n] = r
    BY DEF Reads
<1>2. n \in Nat /\ Len(u) = n + 1 /\ u[n + 1] = w /\ \A i \in 1 .. n : u[i] = t[i]
    OBVIOUS
<1>3. \A i \in 0 .. n : f[i] = IF i = 0 THEN Start ELSE Step(f[i - 1], t[i])
    BY <1>1 DEF Run
<1> HIDE DEF n
<1> DEFINE g == [i \in 0 .. n + 1 |-> IF i <= n THEN f[i] ELSE Step(r, w)]
           h == [i \in 0 .. n + 1 |-> IF i = 0 THEN Start ELSE Step(g[i - 1], u[i])]
<1>4. ASSUME NEW i \in 0 .. n + 1
      PROVE  g[i] = h[i]
  <2>1. CASE i = 0
      BY <2>1, <1>2, <1>3
  <2>2. CASE i \in 1 .. n
    <3>1. i - 1 \in 0 .. n + 1 /\ i - 1 <= n /\ i <= n /\ i # 0 /\ i \in 0 .. n
        BY <2>2, <1>2
    <3>2. g[i] = f[i] /\ g[i - 1] = f[i - 1] /\ h[i] = Step(g[i - 1], u[i])
        BY <3>1
    <3> QED BY <2>2, <3>1, <3>2, <1>2, <1>3
  <2>3. CASE i = n + 1
    <3>1. i - 1 = n /\ ~(i <= n) /\ n <= n /\ n \in 0 .. n + 1 /\ i # 0
        BY <2>3, <1>2
    <3>2. g[i] = Step(r, w) /\ g[i - 1] = f[n] /\ h[i] = Step(g[i - 1], u[i])
        BY <3>1
    <3> QED BY <2>3, <3>2, <1>1, <1>2
  <2> QED BY <2>1, <2>2, <2>3, <1>2
<1>5. g = h
    BY <1>4
<1>6. Run(g, u)
  <2> HIDE DEF g
  <2> QED BY <1>2, <1>5 DEF Run
<1>7. g[n + 1] = Step(r, w)
    BY <1>2
<1> HIDE DEF g, h
<1> QED BY <1>2, <1>6, <1>7 DEF Reads

-----------------------------------------------------------------------------
Words == Reserved \union {"-"} \union Characters \union {e.op : e \in Trees}

Items ==
    [is : {"word"}, word : Words] \union [is : {"parenthesis"}, word : {"(", ")"}]
    \union [is : {"quoted"}, chars : Seq(Characters)]
    \union [is : {"tree"}, tree : Trees]
    \union [is : {"conditions"}, from : Nat \ {0}]

Adds(item) == IF item.is = "parenthesis" THEN Depth(item.word) ELSE 0

(* A tree that stands at p.                                                *)
Met(p, e) ==
    IF e.node = "string" /\ e.chars # <<>> THEN Reading("after quote", p, e.chars)
    ELSE Take(p, meaning[e])

ReadItem(ws, r, item, s) ==
    \/ item.is \in {"word", "parenthesis"} /\ s = Step(r, item.word)
    \/ /\ item.is = "tree"
       /\ \E p : r = At("before operand", p) /\ s = Met(p, item.tree)
    \/ /\ item.is = "quoted"
       /\ \E p, c : /\ r = Reading("in string", p, c) /\ c \in Seq(Characters)
                    /\ s = Reading("after quote", p, c \o item.chars)
    \/ /\ item.is = "conditions"
       /\ item.from - 1 \in 0 .. Len(ws) /\ r = HasRead(SubSeq(ws, 1, item.from - 1))
       /\ s = HasRead(ws)

(* The reader's state and the depth, before and after an item is written.  *)
Pair(r, d) == [reader |-> r, depth |-> d]

Moves(ws, a, item, b) ==
    /\ a = Pair(a.reader, a.depth) /\ b = Pair(b.reader, b.depth)
    /\ ReadItem(ws, a.reader, item, b.reader)
    /\ a.depth \in Nat /\ b.depth \in Nat /\ b.depth = a.depth + Adds(item)

Leads(ws, a, row, b) ==
    \E f : /\ f[0] = a /\ f[Len(row)] = b
           /\ \A i \in 1 .. Len(row) : Moves(ws, f[i - 1], row[i], f[i])

-----------------------------------------------------------------------------
LEMMA LeadsNothing ==
    ASSUME NEW ws, NEW a
    PROVE  Leads(ws, a, <<>>, a)
<1> DEFINE f == [i \in 0 .. 0 |-> a]
<1>1. f[0] = a /\ Len(<<>>) = 0
    OBVIOUS
<1> HIDE DEF f
<1> QED BY <1>1 DEF Leads

LEMMA LeadsOne ==
    ASSUME NEW ws, NEW a, NEW x, NEW b, Moves(ws, a, x, b)
    PROVE  Leads(ws, a, <<x>>, b)
<1> DEFINE f == [i \in 0 .. 1 |-> IF i = 0 THEN a ELSE b]
<1>1. f[0] = a /\ f[1] = b /\ Len(<<x>>) = 1 /\ <<x>>[1] = x
    OBVIOUS
<1> HIDE DEF f
<1>2. \A i \in 1 .. Len(<<x>>) : Moves(ws, f[i - 1], <<x>>[i], f[i])
    BY <1>1
<1> QED BY <1>1, <1>2 DEF Leads

LEMMA LeadsOn ==
    ASSUME NEW ws, NEW a, NEW b, NEW c, NEW p \in Seq(Items), NEW q \in Seq(Items),
           Leads(ws, a, p, b), Leads(ws, b, q, c)
    PROVE  p \o q \in Seq(Items) /\ Leads(ws, a, p \o q, c)
<1> DEFINE n == Len(p)
           m == Len(q)
           row == p \o q
<1>1. PICK f : /\ f[0] = a /\ f[n] = b
               /\ \A i \in 1 .. n : Moves(ws, f[i - 1], p[i], f[i])
    BY DEF Leads
<1>2. PICK g : /\ g[0] = b /\ g[m] = c
               /\ \A i \in 1 .. m : Moves(ws, g[i - 1], q[i], g[i])
    BY DEF Leads
<1>3. /\ row \in Seq(Items) /\ n \in Nat /\ m \in Nat /\ Len(row) = n + m
      /\ \A i \in 1 .. n : row[i] = p[i]
      /\ \A i \in n + 1 .. n + m : row[i] = q[i - n]
    OBVIOUS
<1> HIDE DEF n, m, row
<1> DEFINE h == [i \in 0 .. n + m |-> IF i <= n THEN f[i] ELSE g[i - n]]
<1>4. h[0] = a /\ h[n + m] = c
  <2>1. h[0] = f[0]
      BY <1>3
  <2>2. CASE m = 0
      BY <2>2, <1>1, <1>2, <1>3, <2>1
  <2>3. CASE m # 0
    <3>1. ~(n + m <= n) /\ (n + m) - n = m /\ n + m \in 0 .. n + m
        BY <2>3, <1>3
    <3> QED BY <3>1, <2>1, <1>1, <1>2
  <2> QED BY <2>2, <2>3
<1>5. ASSUME NEW i \in 1 .. n + m
      PROVE  Moves(ws, h[i - 1], row[i], h[i])
  <2>1. i \in 0 .. n + m /\ i - 1 \in 0 .. n + m
      BY <1>3
  <2>2. CASE i <= n
    <3>1. i \in 1 .. n /\ i - 1 <= n
        BY <2>2, <1>3
    <3>2. h[i] = f[i] /\ h[i - 1] = f[i - 1] /\ row[i] = p[i]
        BY <2>1, <2>2, <3>1, <1>3
    <3> QED BY <3>1, <3>2, <1>1
  <2>3. CASE ~(i <= n)
    <3> DEFINE k == i - n
    <3>1. k \in 1 .. m /\ i \in n + 1 .. n + m /\ (i - 1) - n = k - 1
        BY <2>3, <1>3
    <3>2. h[i] = g[k] /\ row[i] = q[k]
        BY <2>1, <2>3, <3>1, <1>3
    <3>3. h[i - 1] = g[k - 1]
      <4>1. CASE i - 1 <= n
        <5>1. i - 1 = n /\ k - 1 = 0
            BY <4>1, <2>3, <1>3
        <5>2. h[i - 1] = f[n]
            BY <2>1, <4>1, <5>1
        <5> HIDE DEF h, k
        <5> QED BY <5>1, <5>2, <1>1, <1>2
      <4>2. CASE ~(i - 1 <= n)
          BY <2>1, <4>2, <3>1
      <4> QED BY <4>1, <4>2
    <3> HIDE DEF h, k
    <3> QED BY <3>1, <3>2, <3>3, <1>2
  <2> QED BY <2>2, <2>3
<1> HIDE DEF h
<1>6. Leads(ws, a, row, c)
    BY <1>3, <1>4, <1>5 DEF Leads
<1> QED BY <1>3, <1>6 DEF row

(* The first item's own move, and the rest of the row.                     *)
LEMMA LeadsFirst ==
    ASSUME NEW ws, NEW a, NEW c, NEW p \in Seq(Items), p # <<>>, Leads(ws, a, p, c)
    PROVE  \E b : Moves(ws, a, Head(p), b) /\ Leads(ws, b, Tail(p), c)
<1> DEFINE n == Len(p)
           t == Tail(p)
<1>1. PICK f : /\ f[0] = a /\ f[n] = c
               /\ \A i \in 1 .. n : Moves(ws, f[i - 1], p[i], f[i])
    BY DEF Leads
<1>2. /\ n \in Nat /\ n > 0 /\ p[1] = Head(p) /\ Len(t) = n - 1
      /\ \A i \in 1 .. n - 1 : t[i] = p[i + 1]
    OBVIOUS
<1> HIDE DEF n, t
<1>3. Moves(ws, a, Head(p), f[1])
  <2>1. 1 \in 1 .. n /\ 1 - 1 = 0
      BY <1>2
  <2> QED BY <2>1, <1>1, <1>2
<1> DEFINE g == [i \in 0 .. n - 1 |-> f[i + 1]]
<1>4. g[0] = f[1] /\ g[n - 1] = c
    BY <1>1, <1>2
<1>5. ASSUME NEW i \in 1 .. n - 1
      PROVE  Moves(ws, g[i - 1], t[i], g[i])
  <2>1. i + 1 \in 1 .. n /\ (i + 1) - 1 = i /\ i \in 0 .. n - 1 /\ i - 1 \in 0 .. n - 1
        /\ (i - 1) + 1 = i
      BY <1>2
  <2>2. g[i] = f[i + 1] /\ g[i - 1] = f[i] /\ t[i] = p[i + 1]
      BY <2>1, <1>2
  <2> HIDE DEF g
  <2>3. Moves(ws, f[(i + 1) - 1], p[i + 1], f[i + 1])
      BY <2>1, <1>1
  <2> QED BY <2>1, <2>2, <2>3
<1> HIDE DEF g
<1>6. Leads(ws, f[1], t, c)
    BY <1>2, <1>4, <1>5 DEF Leads
<1> QED BY <1>3, <1>6 DEF t

LEMMA LeadsTwo ==
    ASSUME NEW ws, NEW a, NEW b, NEW c, NEW x \in Items, NEW y \in Items,
           Moves(ws, a, x, b), Moves(ws, b, y, c)
    PROVE  <<x, y>> \in Seq(Items) /\ Leads(ws, a, <<x, y>>, c)
<1> DEFINE f == [i \in 0 .. 2 |-> IF i = 0 THEN a ELSE IF i = 1 THEN b ELSE c]
           row == <<x, y>>
<1>1. row \in Seq(Items) /\ Len(row) = 2 /\ row[1] = x /\ row[2] = y
    OBVIOUS
<1>2. f[0] = a /\ f[1] = b /\ f[2] = c
    OBVIOUS
<1> HIDE DEF f, row
<1>3. \A i \in 1 .. 2 : Moves(ws, f[i - 1], row[i], f[i])
    BY <1>1, <1>2
<1>4. Leads(ws, a, row, c)
    BY <1>1, <1>2, <1>3 DEF Leads
<1> QED BY <1>1, <1>4 DEF row

LEMMA LeadsThree ==
    ASSUME NEW ws, NEW a, NEW b, NEW c, NEW d,
           NEW x \in Items, NEW y \in Items, NEW z \in Items,
           Moves(ws, a, x, b), Moves(ws, b, y, c), Moves(ws, c, z, d)
    PROVE  <<x, y, z>> \in Seq(Items) /\ Leads(ws, a, <<x, y, z>>, d)
<1>1. /\ <<x, y, z>> = <<x>> \o <<y, z>>
      /\ <<x>> \in Seq(Items) /\ <<x, y, z>> \in Seq(Items)
    OBVIOUS
<1>2. Leads(ws, a, <<x>>, b)
    BY LeadsOne
<1>3. <<y, z>> \in Seq(Items) /\ Leads(ws, b, <<y, z>>, d)
    BY LeadsTwo
<1>4. Leads(ws, a, <<x>> \o <<y, z>>, d)
    BY <1>1, <1>2, <1>3, LeadsOn
<1> QED BY <1>1, <1>4

LEMMA LeadsFour ==
    ASSUME NEW ws, NEW a, NEW b, NEW c, NEW d, NEW e, NEW w \in Items,
           NEW x \in Items, NEW y \in Items, NEW z \in Items,
           Moves(ws, a, w, b), Moves(ws, b, x, c), Moves(ws, c, y, d), Moves(ws, d, z, e)
    PROVE  <<w, x, y, z>> \in Seq(Items) /\ Leads(ws, a, <<w, x, y, z>>, e)
<1>1. /\ <<w, x, y, z>> = <<w>> \o <<x, y, z>>
      /\ <<w>> \in Seq(Items) /\ <<w, x, y, z>> \in Seq(Items)
    OBVIOUS
<1>2. Leads(ws, a, <<w>>, b)
    BY LeadsOne
<1>3. <<x, y, z>> \in Seq(Items) /\ Leads(ws, b, <<x, y, z>>, e)
    BY LeadsThree
<1>4. Leads(ws, a, <<w>> \o <<x, y, z>>, e)
    BY <1>1, <1>2, <1>3, LeadsOn
<1> QED BY <1>1, <1>4

-----------------------------------------------------------------------------
LEMMA ItemKinds ==
    /\ \A w \in Words : Word(w) \in Items
    /\ Parenthesis("(") \in Items /\ Parenthesis(")") \in Items
    /\ \A s \in Seq(Characters) : Quoted(s) \in Items
    /\ \A e \in Trees : Tree(e) \in Items
    /\ \A i \in Nat \ {0} : Conditions(i) \in Items
    BY DEF Items, Word, Parenthesis, Quoted, Tree, Conditions

LEMMA WordMoves ==
    ASSUME NEW ws, NEW r, NEW d \in Nat, NEW w
    PROVE  Moves(ws, Pair(r, d), Word(w), Pair(Step(r, w), d))
<1> DEFINE item == Word(w)
           s == Step(r, w)
<1>1. item.is = "word" /\ item.word = w
    BY DEF Word
<1>2. Adds(item) = 0
    BY <1>1 DEF Adds
<1>3. Pair(r, d).reader = r /\ Pair(r, d).depth = d
    BY DEF Pair
<1>4. Pair(s, d).reader = s /\ Pair(s, d).depth = d
    BY DEF Pair
<1>5. ReadItem(ws, r, item, s)
    BY <1>1, Zenon DEF ReadItem
<1> HIDE DEF item, s
<1>6. d = d + Adds(item)
    BY <1>2
<1> QED BY <1>3, <1>4, <1>5, <1>6, Zenon DEF Moves, item, s

LEMMA ParenthesisMoves ==
    ASSUME NEW ws, NEW r, NEW d \in Nat
    PROVE  /\ Moves(ws, Pair(r, d), Parenthesis("("), Pair(Step(r, "("), d + 1))
           /\ Moves(ws, Pair(r, d + 1), Parenthesis(")"), Pair(Step(r, ")"), d))
<1> DEFINE open == Parenthesis("(")
           close == Parenthesis(")")
           s == Step(r, "(")
           t == Step(r, ")")
<1>1. /\ open.is = "parenthesis" /\ open.word = "("
      /\ close.is = "parenthesis" /\ close.word = ")"
    BY DEF Parenthesis
<1>2. Adds(open) = 1 /\ Adds(close) = -1
    BY <1>1 DEF Adds, Depth
<1>3. \A q, n : Pair(q, n).reader = q /\ Pair(q, n).depth = n
    BY DEF Pair
<1>4. ReadItem(ws, r, open, s) /\ ReadItem(ws, r, close, t)
    BY <1>1, Zenon DEF ReadItem
<1> HIDE DEF open, close, s, t
<1>5. /\ d + 1 \in Nat /\ d + 1 = d + Adds(open) /\ d = (d + 1) + Adds(close)
    BY <1>2
<1> QED BY <1>3, <1>4, <1>5, Zenon DEF Moves, open, close, s, t

LEMMA TreeMoves ==
    ASSUME NEW ws, NEW p, NEW d \in Nat, NEW e
    PROVE  Moves(ws, Pair(At("before operand", p), d), Tree(e), Pair(Met(p, e), d))
<1> DEFINE item == Tree(e)
           r == At("before operand", p)
           s == Met(p, e)
<1>1. item.is = "tree" /\ item.tree = e
    BY DEF Tree
<1>2. Adds(item) = 0
    BY <1>1 DEF Adds
<1>3. \A q, n : Pair(q, n).reader = q /\ Pair(q, n).depth = n
    BY DEF Pair
<1>4. ReadItem(ws, r, item, s)
    BY <1>1, Zenon DEF ReadItem
<1> HIDE DEF item, r, s
<1>5. d = d + Adds(item)
    BY <1>2
<1> QED BY <1>3, <1>4, <1>5, Zenon DEF Moves, item, r, s

LEMMA QuotedMoves ==
    ASSUME NEW ws, NEW p, NEW d \in Nat, NEW c \in Seq(Characters), NEW s
    PROVE  Moves(ws, Pair(Reading("in string", p, c), d), Quoted(s),
                 Pair(Reading("after quote", p, c \o s), d))
<1> DEFINE item == Quoted(s)
           r == Reading("in string", p, c)
           t == Reading("after quote", p, c \o s)
<1>1. item.is = "quoted" /\ item.chars = s
    BY DEF Quoted
<1>2. Adds(item) = 0
    BY <1>1 DEF Adds
<1>3. \A q, n : Pair(q, n).reader = q /\ Pair(q, n).depth = n
    BY DEF Pair
<1>4. ReadItem(ws, r, item, t)
    BY <1>1, Zenon DEF ReadItem
<1> HIDE DEF item, r, t
<1>5. d = d + Adds(item)
    BY <1>2
<1> QED BY <1>3, <1>4, <1>5, Zenon DEF Moves, item, r, t

LEMMA ConditionsMove ==
    ASSUME NEW ws, NEW i \in Nat \ {0}, i - 1 \in 0 .. Len(ws), NEW d \in Nat
    PROVE  Moves(ws, Pair(HasRead(SubSeq(ws, 1, i - 1)), d), Conditions(i),
                 Pair(HasRead(ws), d))
<1> DEFINE item == Conditions(i)
           r == HasRead(SubSeq(ws, 1, i - 1))
           s == HasRead(ws)
<1>1. item.is = "conditions" /\ item.from = i
    BY DEF Conditions
<1>2. Adds(item) = 0
    BY <1>1 DEF Adds
<1>3. \A q, n : Pair(q, n).reader = q /\ Pair(q, n).depth = n
    BY DEF Pair
<1>4. ReadItem(ws, r, item, s)
    BY <1>1, Zenon DEF ReadItem
<1> HIDE DEF item, r, s
<1>5. d = d + Adds(item)
    BY <1>2
<1> QED BY <1>3, <1>4, <1>5, Zenon DEF Moves, item, r, s

-----------------------------------------------------------------------------
(* How the reader steps from the places at which the deparser writes.      *)
LEMMA StepBeforeOperand ==
    ASSUME NEW p, NEW r, r = At("before operand", p)
    PROVE  /\ Step(r, "(") = At("before operand", Opened(p))
           /\ Step(r, "c") = Take(p, Column)
           /\ Step(r, "NULL") = Take(p, Null)
           /\ Step(r, "1") = Take(p, Number(1))
           /\ Step(r, "-") = At("after sign", p)
           /\ Step(r, "q") = Reading("in string", p, <<>>)
<1>1. r.mode = "before operand" /\ r.place = p
    BY DEF At, Reading
<1>2. \A w : Step(r, w) = BeforeOperand(p, w)
    BY <1>1 DEF Step
<1>3. /\ BeforeOperand(p, "(") = At("before operand", Opened(p))
      /\ BeforeOperand(p, "c") = Take(p, Column)
      /\ BeforeOperand(p, "NULL") = Take(p, Null)
      /\ BeforeOperand(p, "1") = Take(p, Number(1))
      /\ BeforeOperand(p, "-") = At("after sign", p)
      /\ BeforeOperand(p, "q") = At("in string", p)
    BY DEF BeforeOperand
<1>4. At("in string", p) = Reading("in string", p, <<>>)
    BY DEF At
<1> QED BY <1>2, <1>3, <1>4

LEMMA StepAfterSign ==
    ASSUME NEW p, NEW r, r = At("after sign", p)
    PROVE  /\ Step(r, "1") = Take(p, Unary(Number(1)))
           /\ \A o : p = Opened(o) => Step(r, " ") = At("before operand", Sign(o))
<1>1. r.mode = "after sign" /\ r.place = p
    BY DEF At, Reading
<1>2. \A w : Step(r, w) = AfterSign(p, w)
    BY <1>1 DEF Step
<1>3. AfterSign(p, "1") = Take(p, Unary(Number(1)))
    BY DEF AfterSign
<1>4. ASSUME NEW o, p = Opened(o)
      PROVE  AfterSign(p, " ") = At("before operand", Sign(o))
  <2>1. p.frame = "opened" /\ p.outer = o
      BY <1>4 DEF Opened
  <2> QED BY <2>1 DEF AfterSign
<1> QED BY <1>2, <1>3, <1>4

LEMMA StepAfterOperand ==
    /\ \A e, p : AfterOperand(Operand(e, p), " ") = At("before operator", Operand(e, p))
    /\ \A es : AfterOperand(Listed(es), " ") = At("before operator", Listed(es))
    /\ \A e, p : AfterOperand(Operand(e, p), ")") = Take(p, e)
    /\ \A e, p : AfterOperand(Operation(e, p), ")") = Take(p, e)
    /\ \A p, w : Step(At("after operand", p), w) = AfterOperand(p, w)
<1>1. \A e, p : /\ Operand(e, p).frame = "operand" /\ Operand(e, p).tree = e
                /\ Operand(e, p).outer = p
    BY DEF Operand
<1>2. \A e, p : /\ Operation(e, p).frame = "operation" /\ Operation(e, p).tree = e
                /\ Operation(e, p).outer = p
    BY DEF Operation
<1>3. \A es : Listed(es).frame = "listed"
    BY DEF Listed
<1>4. \A e, p : AfterOperand(Operand(e, p), " ") = At("before operator", Operand(e, p))
    BY <1>1 DEF AfterOperand
<1>5. \A es : AfterOperand(Listed(es), " ") = At("before operator", Listed(es))
    BY <1>3 DEF AfterOperand
<1>6. \A e, p : AfterOperand(Operand(e, p), ")") = Take(p, e)
    BY <1>1 DEF AfterOperand
<1>7. \A e, p : AfterOperand(Operation(e, p), ")") = Take(p, e)
    BY <1>2 DEF AfterOperand
<1>8. ASSUME NEW p, NEW w
      PROVE  Step(At("after operand", p), w) = AfterOperand(p, w)
  <2> DEFINE r == At("after operand", p)
  <2>1. r.mode = "after operand" /\ r.place = p
      BY DEF At, Reading
  <2> HIDE DEF r
  <2>2. Step(r, w) = AfterOperand(p, w)
      BY <2>1 DEF Step
  <2> QED BY <2>2 DEF r
<1> QED BY <1>4, <1>5, <1>6, <1>7, <1>8

LEMMA StepAtOperator ==
    /\ \A e, p, op : op \notin Reserved =>
         Step(At("before operator", Operand(e, p)), op) =
           At("after operator", Infix(op, e, p))
    /\ \A es : Step(At("before operator", Listed(es)), "AND") =
                At("after operator", Listed(es))
    /\ \A p : Step(At("after operator", p), " ") = At("before operand", p)
<1>1. ASSUME NEW q, NEW w
      PROVE  Step(At("before operator", q), w) = BeforeOperator(q, w)
  <2> DEFINE r == At("before operator", q)
  <2>1. r.mode = "before operator" /\ r.place = q
      BY DEF At, Reading
  <2> HIDE DEF r
  <2>2. Step(r, w) = BeforeOperator(q, w)
      BY <2>1 DEF Step
  <2> QED BY <2>2 DEF r
<1>2. ASSUME NEW e, NEW p, NEW op, op \notin Reserved
      PROVE  BeforeOperator(Operand(e, p), op) = At("after operator", Infix(op, e, p))
  <2>1. /\ Operand(e, p).frame = "operand" /\ Operand(e, p).tree = e
        /\ Operand(e, p).outer = p
      BY DEF Operand
  <2> QED BY <1>2, <2>1 DEF BeforeOperator
<1>3. ASSUME NEW es
      PROVE  BeforeOperator(Listed(es), "AND") = At("after operator", Listed(es))
  <2>1. Listed(es).frame = "listed"
      BY DEF Listed
  <2> QED BY <2>1 DEF BeforeOperator
<1>4. ASSUME NEW p
      PROVE  Step(At("after operator", p), " ") = At("before operand", p)
  <2> DEFINE r == At("after operator", p)
  <2>1. r.mode = "after operator" /\ r.place = p
      BY DEF At, Reading
  <2> HIDE DEF r
  <2>2. Step(r, " ") = At("before operand", p)
      BY <2>1 DEF Step
  <2> QED BY <2>2 DEF r
<1>5. ASSUME NEW e, NEW p, NEW op, op \notin Reserved
      PROVE  Step(At("before operator", Operand(e, p)), op) =
               At("after operator", Infix(op, e, p))
    BY <1>1, <1>2, <1>5
<1>6. ASSUME NEW es
      PROVE  Step(At("before operator", Listed(es)), "AND") =
               At("after operator", Listed(es))
    BY <1>1, <1>3
<1> QED BY <1>4, <1>5, <1>6

LEMMA StepInString ==
    ASSUME NEW p, NEW c, NEW w
    PROVE  Step(Reading("in string", p, c), w) =
             IF w = "q" THEN Reading("after quote", p, c)
             ELSE Reading("in string", p, Append(c, w))
<1> DEFINE r == Reading("in string", p, c)
           s == Append(c, w)
<1>1. r = [mode |-> "in string", place |-> p, chars |-> c]
    BY DEF Reading
<1> HIDE DEF r
<1>2. Step(r, w) = InString(r, w)
    BY <1>1 DEF Step
<1>3. CASE w = "q"
  <2>1. InString(r, w) = Reading("after quote", p, c)
      BY <1>1, <1>3 DEF InString, Reading
  <2> QED BY <1>2, <1>3, <2>1 DEF r
<1>4. CASE w # "q"
  <2>1. r.chars = c
      BY <1>1
  <2>2. InString(r, w) = [r EXCEPT !.chars = s]
      BY <1>4, <2>1 DEF InString
  <2> HIDE DEF s
  <2>3. InString(r, w) = Reading("in string", p, s)
      BY <1>1, <2>2 DEF Reading
  <2> QED BY <1>2, <1>4, <2>3 DEF r, s
<1> QED BY <1>3, <1>4

LEMMA StepAfterQuote ==
    ASSUME NEW p, NEW c
    PROVE  Step(Reading("after quote", p, c), "q") =
             Reading("in string", p, Append(c, "q"))
<1> DEFINE r == Reading("after quote", p, c)
<1>1. r.mode = "after quote" /\ r.place = p /\ r.chars = c
    BY DEF Reading
<1> HIDE DEF r
<1>2. Step(r, "q") = AfterQuote(r, "q")
    BY <1>1 DEF Step
<1>3. AfterQuote(r, "q") = Reading("in string", p, Append(c, "q"))
    BY <1>1 DEF AfterQuote
<1> QED BY <1>2, <1>3 DEF r

(* Behind a tree the reader has taken what the tree means, a string, too,  *)
(* as no other quote follows.                                              *)
LEMMA MeaningOf ==
    ASSUME NEW e \in Trees
    PROVE  /\ e.node = "unary" => meaning[e] = Unary(meaning[e.arg])
           /\ e.node = "binary" =>
                meaning[e] = Binary(e.op, meaning[e.left], meaning[e.right])
           /\ e.node = "string" /\ e.chars # <<>> => meaning[e] = e
           /\ e = Column => meaning[e] = Column
           /\ e = Null => meaning[e] = Null
           /\ e = Number(1) => meaning[e] = Number(1)
           /\ e = Number(-1) => meaning[e] = Unary(Number(1))
           /\ e = String(<<>>) => meaning[e] = Null
<1>1. /\ String(<<>>).node = "string" /\ String(<<>>).chars = <<>>
      /\ Number(-1).node = "number" /\ Number(-1).int = -1
      /\ Number(1).node = "number" /\ Number(1).int = 1
      /\ Column.node = "column" /\ Null.node = "null"
    BY DEF String, Number, Column, Null
<1> QED BY <1>1, Meanings

LEMMA StepBehindTree ==
    ASSUME NEW p, NEW e \in Trees, NEW w, w # "q"
    PROVE  Step(Met(p, e), w) = AfterOperand(Taken(p, meaning[e]), w)
<1>1. CASE e.node = "string" /\ e.chars # <<>>
  <2> DEFINE r == Reading("after quote", p, e.chars)
  <2>1. Met(p, e) = r
      BY <1>1 DEF Met
  <2>2. e = String(e.chars)
    <3>1. Column.node # "string" /\ Null.node # "string"
        BY DEF Column, Null
    <3>2. Number(1).node # "string" /\ Number(-1).node # "string"
        BY DEF Number
    <3> QED BY <1>1, <3>1, <3>2, TextConstants
  <2>3. meaning[e] = e
      BY <1>1, MeaningOf
  <2>4. r.mode = "after quote" /\ r.place = p /\ r.chars = e.chars
      BY DEF Reading
  <2> HIDE DEF r
  <2>5. Step(r, w) = AfterQuote(r, w)
      BY <2>4 DEF Step
  <2>6. AfterQuote(r, w) = AfterOperand(Taken(p, String(e.chars)), w)
      BY <2>4 DEF AfterQuote
  <2> QED BY <2>1, <2>2, <2>3, <2>5, <2>6
<1>2. CASE ~(e.node = "string" /\ e.chars # <<>>)
  <2> DEFINE r == At("after operand", Taken(p, meaning[e]))
  <2>1. Met(p, e) = r
      BY <1>2, Zenon DEF Met, Take
  <2>2. r.mode = "after operand" /\ r.place = Taken(p, meaning[e])
      BY DEF At, Reading
  <2> HIDE DEF r
  <2>3. Step(r, w) = AfterOperand(Taken(p, meaning[e]), w)
      BY <2>2 DEF Step
  <2> QED BY <2>1, <2>3
<1> QED BY <1>1, <1>2

LEMMA TakenAt ==
    /\ \A e, p : Taken(Opened(p), e) = Operand(e, p)
    /\ \A e, p : Taken(Sign(p), e) = Operation(Unary(e), p)
    /\ \A op, d, e, p : Taken(Infix(op, d, p), e) = Operation(Binary(op, d, e), p)
    /\ \A e, es : Taken(Listed(es), e) = Listed(Append(es, e))
<1>1. ASSUME NEW e, NEW p
      PROVE  Taken(Opened(p), e) = Operand(e, p)
  <2>1. Opened(p).frame = "opened" /\ Opened(p).outer = p
      BY DEF Opened
  <2> QED BY <2>1 DEF Taken
<1>2. ASSUME NEW e, NEW p
      PROVE  Taken(Sign(p), e) = Operation(Unary(e), p)
  <2>1. Sign(p).frame = "sign" /\ Sign(p).outer = p
      BY DEF Sign
  <2> QED BY <2>1 DEF Taken
<1>3. ASSUME NEW op, NEW d, NEW e, NEW p
      PROVE  Taken(Infix(op, d, p), e) = Operation(Binary(op, d, e), p)
  <2>1. /\ Infix(op, d, p).frame = "infix" /\ Infix(op, d, p).op = op
        /\ Infix(op, d, p).tree = d /\ Infix(op, d, p).outer = p
      BY DEF Infix
  <2> QED BY <2>1 DEF Taken
<1>4. ASSUME NEW e, NEW es
      PROVE  Taken(Listed(es), e) = Listed(Append(es, e))
  <2>1. Listed(es).frame = "listed" /\ Listed(es).read = es
      BY DEF Listed
  <2> QED BY <2>1 DEF Taken
<1> QED BY <1>1, <1>2, <1>3, <1>4

-----------------------------------------------------------------------------
(* The moves of the items that are replaced.                               *)
AtTree(a, e, b) ==
    \E p, d : /\ d \in Nat /\ a = Pair(At("before operand", p), d)
              /\ b = Pair(Met(p, e), d)

AtQuoted(a, s, b) ==
    \E p, c, d : /\ d \in Nat /\ c \in Seq(Characters)
                 /\ a = Pair(Reading("in string", p, c), d)
                 /\ b = Pair(Reading("after quote", p, c \o s), d)

AtConditions(ws, a, i, b) ==
    \E d : /\ d \in Nat /\ i - 1 \in 0 .. Len(ws)
           /\ a = Pair(HasRead(SubSeq(ws, 1, i - 1)), d) /\ b = Pair(HasRead(ws), d)

LEMMA MovesTree ==
    ASSUME NEW ws, NEW a, NEW e, NEW b, Moves(ws, a, Tree(e), b)
    PROVE  AtTree(a, e, b)
<1> DEFINE item == Tree(e)
<1>1. item.is = "tree" /\ item.tree = e
    BY DEF Tree
<1>2. /\ a = Pair(a.reader, a.depth) /\ b = Pair(b.reader, b.depth)
      /\ a.depth \in Nat /\ b.depth \in Nat /\ b.depth = a.depth + Adds(item)
      /\ ReadItem(ws, a.reader, item, b.reader)
    BY Zenon DEF Moves
<1> HIDE DEF item
<1>3. b.depth = a.depth
    BY <1>1, <1>2 DEF Adds
<1>4. PICK p : a.reader = At("before operand", p) /\ b.reader = Met(p, e)
  <2>1. item.is \notin {"word", "parenthesis"} /\ item.is # "quoted"
        /\ item.is # "conditions"
      BY <1>1
  <2> QED BY <1>1, <1>2, <2>1, Zenon DEF ReadItem
<1> QED BY <1>2, <1>3, <1>4, Zenon DEF AtTree

LEMMA MovesQuoted ==
    ASSUME NEW ws, NEW a, NEW s, NEW b, Moves(ws, a, Quoted(s), b)
    PROVE  AtQuoted(a, s, b)
<1> DEFINE item == Quoted(s)
<1>1. item.is = "quoted" /\ item.chars = s
    BY DEF Quoted
<1>2. /\ a = Pair(a.reader, a.depth) /\ b = Pair(b.reader, b.depth)
      /\ a.depth \in Nat /\ b.depth \in Nat /\ b.depth = a.depth + Adds(item)
      /\ ReadItem(ws, a.reader, item, b.reader)
    BY Zenon DEF Moves
<1> HIDE DEF item
<1>3. b.depth = a.depth
    BY <1>1, <1>2 DEF Adds
<1>4. PICK p, c : /\ c \in Seq(Characters) /\ a.reader = Reading("in string", p, c)
                  /\ b.reader = Reading("after quote", p, c \o s)
  <2>1. item.is \notin {"word", "parenthesis"} /\ item.is # "tree"
        /\ item.is # "conditions"
      BY <1>1
  <2> QED BY <1>1, <1>2, <2>1, Zenon DEF ReadItem
<1> QED BY <1>2, <1>3, <1>4, Zenon DEF AtQuoted

LEMMA MovesConditions ==
    ASSUME NEW ws, NEW a, NEW i, NEW b, Moves(ws, a, Conditions(i), b)
    PROVE  AtConditions(ws, a, i, b)
<1> DEFINE item == Conditions(i)
<1>1. item.is = "conditions" /\ item.from = i
    BY DEF Conditions
<1>2. /\ a = Pair(a.reader, a.depth) /\ b = Pair(b.reader, b.depth)
      /\ a.depth \in Nat /\ b.depth \in Nat /\ b.depth = a.depth + Adds(item)
      /\ ReadItem(ws, a.reader, item, b.reader)
    BY Zenon DEF Moves
<1> HIDE DEF item
<1>3. b.depth = a.depth
    BY <1>1, <1>2 DEF Adds
<1>4. /\ i - 1 \in 0 .. Len(ws) /\ a.reader = HasRead(SubSeq(ws, 1, i - 1))
      /\ b.reader = HasRead(ws)
  <2>1. item.is \notin {"word", "parenthesis"} /\ item.is # "tree"
        /\ item.is # "quoted"
      BY <1>1
  <2> QED BY <1>1, <1>2, <2>1, Zenon DEF ReadItem
<1> QED BY <1>2, <1>3, <1>4, Zenon DEF AtConditions

(* The words and parentheses that are written.                             *)
LEMMA WordsAreItems ==
    /\ \A w \in Reserved \union {"-"} : Word(w) \in Items
    /\ \A e \in Trees : Word(e.op) \in Items
    /\ \A c \in Characters : Word(c) \in Items
<1>1. /\ \A w \in Reserved \union {"-"} : w \in Words
      /\ \A e \in Trees : e.op \in Words
      /\ \A c \in Characters : c \in Words
    BY Zenon DEF Words
<1> QED BY <1>1, ItemKinds, Zenon

(* What a row must do that takes the place of an item.                     *)
Replaces(ws, row, item) ==
    /\ row \in Seq(Items)
    /\ \A a, b : Moves(ws, a, item, b) => Leads(ws, a, row, b)

(* The forms of a tree.                                                    *)
LEMMA Forms ==
    ASSUME NEW e \in Trees
    PROVE  \/ e = Column \/ e = Null \/ e = Number(1) \/ e = Number(-1)
           \/ e.node = "string" /\ e = String(e.chars) /\ e.chars \in Seq(Characters)
           \/ e.node = "unary" /\ e.arg \in Trees /\ e = Unary(e.arg)
           \/ /\ e.node = "binary" /\ e.left \in Trees /\ e.right \in Trees
              /\ e.op \notin Reserved /\ e = Binary(e.op, e.left, e.right)
    BY TextConstants, Zenon

LEMMA TreeReplaced ==
    ASSUME NEW ws, NEW e, NEW row \in Seq(Items),
           \A p : \A d \in Nat :
             Leads(ws, Pair(At("before operand", p), d), row, Pair(Met(p, e), d))
    PROVE  Replaces(ws, row, Tree(e))
<1>1. ASSUME NEW a, NEW b, Moves(ws, a, Tree(e), b)
      PROVE  Leads(ws, a, row, b)
  <2>0. AtTree(a, e, b)
      BY <1>1, MovesTree
  <2>1. PICK p, d : /\ d \in Nat /\ a = Pair(At("before operand", p), d)
                    /\ b = Pair(Met(p, e), d)
      BY <2>0, Zenon DEF AtTree
  <2> QED BY <2>1
<1> QED BY <1>1, Zenon DEF Replaces

LEMMA BinaryReplaces ==
    ASSUME NEW ws, NEW e \in Trees, e.node = "binary"
    PROVE  Replaces(ws, Operator(e), Tree(e))
<1> DEFINE l == meaning[e.left]
           r == meaning[e.right]
           m == Binary(e.op, l, r)
           open == Parenthesis("(")
           blank == Word(" ")
           close == Parenthesis(")")
           first == Tree(e.left)
           op == Word(e.op)
           second == Tree(e.right)
<1>1. /\ e.left \in Trees /\ e.right \in Trees /\ e.op \notin Reserved
  <2>1. Column.node # "binary" /\ Null.node # "binary"
      BY DEF Column, Null
  <2>2. Number(1).node # "binary" /\ Number(-1).node # "binary"
      BY DEF Number
  <2> QED BY <2>1, <2>2, Forms
<1>2. meaning[e] = m
    BY MeaningOf
<1>3. Operator(e) = <<open>> \o <<first, blank, op>> \o <<blank, second, close>>
    BY Zenon DEF Operator
<1>4. /\ open \in Items /\ first \in Items /\ blank \in Items /\ op \in Items
      /\ second \in Items /\ close \in Items
  <2>1. " " \in Reserved
      BY Zenon DEF Reserved
  <2> QED BY <1>1, <2>1, ItemKinds, WordsAreItems, Zenon
<1>5. ASSUME NEW p, NEW d \in Nat
      PROVE  /\ Operator(e) \in Seq(Items)
             /\ Leads(ws, Pair(At("before operand", p), d), Operator(e), Pair(Met(p, e), d))
  <2> DEFINE s0 == At("before operand", p)
             s1 == At("before operand", Opened(p))
             s2 == Met(Opened(p), e.left)
             s3 == At("before operator", Operand(l, p))
             s4 == At("after operator", Infix(e.op, l, p))
             s5 == At("before operand", Infix(e.op, l, p))
             s6 == Met(Infix(e.op, l, p), e.right)
             s7 == Met(p, e)
  <2>1. Step(s0, "(") = s1
      BY StepBeforeOperand
  <2>2. Step(s2, " ") = s3
    <3>1. Step(s2, " ") = AfterOperand(Taken(Opened(p), l), " ")
        BY <1>1, StepBehindTree
    <3>2. AfterOperand(Operand(l, p), " ") = s3
        BY StepAfterOperand
    <3> QED BY <3>1, <3>2, TakenAt
  <2>3. Step(s3, e.op) = s4 /\ Step(s4, " ") = s5
      BY <1>1, StepAtOperator
  <2>4. Step(s6, ")") = s7
    <3>1. Step(s6, ")") = AfterOperand(Taken(Infix(e.op, l, p), r), ")")
        BY <1>1, StepBehindTree
    <3>2. AfterOperand(Operation(m, p), ")") = Take(p, m)
        BY StepAfterOperand
    <3>3. Met(p, e) = Take(p, m)
        BY <1>2 DEF Met
    <3> QED BY <3>1, <3>2, <3>3, TakenAt
  <2>5. /\ Moves(ws, Pair(s0, d), open, Pair(s1, d + 1))
        /\ Moves(ws, Pair(s6, d + 1), close, Pair(s7, d))
      BY <2>1, <2>4, ParenthesisMoves
  <2>6. d + 1 \in Nat
      OBVIOUS
  <2>7. /\ Moves(ws, Pair(s1, d + 1), first, Pair(s2, d + 1))
        /\ Moves(ws, Pair(s5, d + 1), second, Pair(s6, d + 1))
      BY <2>6, TreeMoves
  <2>8. /\ Moves(ws, Pair(s2, d + 1), blank, Pair(s3, d + 1))
        /\ Moves(ws, Pair(s3, d + 1), op, Pair(s4, d + 1))
        /\ Moves(ws, Pair(s4, d + 1), blank, Pair(s5, d + 1))
      BY <2>2, <2>3, <2>6, WordMoves
  <2> HIDE DEF s0, s1, s2, s3, s4, s5, s6, s7, open, first, blank, op, second, close
  <2>9. /\ <<open>> \in Seq(Items)
        /\ Leads(ws, Pair(s0, d), <<open>>, Pair(s1, d + 1))
      BY <1>4, <2>5, LeadsOne
  <2>10. /\ <<first, blank, op>> \in Seq(Items)
         /\ Leads(ws, Pair(s1, d + 1), <<first, blank, op>>, Pair(s4, d + 1))
      BY <1>4, <2>7, <2>8, LeadsThree
  <2> DEFINE left == <<open>> \o <<first, blank, op>>
             right == <<blank, second, close>>
  <2>11. right \in Seq(Items) /\ Leads(ws, Pair(s4, d + 1), right, Pair(s7, d))
      BY <1>4, <2>5, <2>7, <2>8, LeadsThree
  <2>12. left \in Seq(Items) /\ Leads(ws, Pair(s0, d), left, Pair(s4, d + 1))
      BY <2>9, <2>10, LeadsOn
  <2>13. Operator(e) = left \o right
      BY <1>3
  <2> HIDE DEF left, right
  <2>14. Operator(e) \in Seq(Items) /\ Leads(ws, Pair(s0, d), Operator(e), Pair(s7, d))
      BY <2>11, <2>12, <2>13, LeadsOn
  <2> QED BY <2>14 DEF s0, s7
<1> HIDE DEF l, r, m, open, blank, close, first, op, second
<1>6. Operator(e) \in Seq(Items)
  <2>1. 0 \in Nat
      OBVIOUS
  <2> QED BY <1>5, <2>1
<1> QED BY <1>5, <1>6, TreeReplaced

LEMMA UnaryReplaces ==
    ASSUME NEW ws, NEW e \in Trees, e.node = "unary"
    PROVE  Replaces(ws, Operator(e), Tree(e))
<1> DEFINE r == meaning[e.arg]
           m == Unary(r)
           open == Parenthesis("(")
           minus == Word("-")
           blank == Word(" ")
           close == Parenthesis(")")
           arg == Tree(e.arg)
<1>1. e.arg \in Trees
  <2>1. Column.node # "unary" /\ Null.node # "unary"
      BY DEF Column, Null
  <2>2. Number(1).node # "unary" /\ Number(-1).node # "unary"
      BY DEF Number
  <2> QED BY <2>1, <2>2, Forms
<1>2. meaning[e] = m
    BY MeaningOf
<1>3. Operator(e) = <<open>> \o <<minus>> \o <<blank, arg, close>>
    BY Zenon DEF Operator
<1>4. /\ open \in Items /\ minus \in Items /\ blank \in Items /\ arg \in Items
      /\ close \in Items
  <2>1. " " \in Reserved
      BY Zenon DEF Reserved
  <2> QED BY <1>1, <2>1, ItemKinds, WordsAreItems, Zenon
<1>5. ASSUME NEW p, NEW d \in Nat
      PROVE  /\ Operator(e) \in Seq(Items)
             /\ Leads(ws, Pair(At("before operand", p), d), Operator(e), Pair(Met(p, e), d))
  <2> DEFINE s0 == At("before operand", p)
             s1 == At("before operand", Opened(p))
             s2 == At("after sign", Opened(p))
             s3 == At("before operand", Sign(p))
             s4 == Met(Sign(p), e.arg)
             s5 == Met(p, e)
  <2>1. Step(s0, "(") = s1 /\ Step(s1, "-") = s2
      BY StepBeforeOperand
  <2>2. Step(s2, " ") = s3
      BY StepAfterSign
  <2>3. Step(s4, ")") = s5
    <3>1. Step(s4, ")") = AfterOperand(Taken(Sign(p), r), ")")
        BY <1>1, StepBehindTree
    <3>2. AfterOperand(Operation(m, p), ")") = Take(p, m)
        BY StepAfterOperand
    <3>3. Met(p, e) = Take(p, m)
        BY <1>2 DEF Met
    <3> QED BY <3>1, <3>2, <3>3, TakenAt
  <2>4. d + 1 \in Nat
      OBVIOUS
  <2>5. /\ Moves(ws, Pair(s0, d), open, Pair(s1, d + 1))
        /\ Moves(ws, Pair(s4, d + 1), close, Pair(s5, d))
      BY <2>1, <2>3, ParenthesisMoves
  <2>6. /\ Moves(ws, Pair(s1, d + 1), minus, Pair(s2, d + 1))
        /\ Moves(ws, Pair(s2, d + 1), blank, Pair(s3, d + 1))
        /\ Moves(ws, Pair(s3, d + 1), arg, Pair(s4, d + 1))
      BY <2>1, <2>2, <2>4, WordMoves, TreeMoves
  <2> HIDE DEF s0, s1, s2, s3, s4, s5, open, minus, blank, arg, close
  <2>7. /\ <<open>> \in Seq(Items) /\ <<minus>> \in Seq(Items)
        /\ Leads(ws, Pair(s0, d), <<open>>, Pair(s1, d + 1))
        /\ Leads(ws, Pair(s1, d + 1), <<minus>>, Pair(s2, d + 1))
      BY <1>4, <2>5, <2>6, LeadsOne
  <2> DEFINE left == <<open>> \o <<minus>>
             right == <<blank, arg, close>>
  <2>8. right \in Seq(Items) /\ Leads(ws, Pair(s2, d + 1), right, Pair(s5, d))
      BY <1>4, <2>5, <2>6, LeadsThree
  <2>9. left \in Seq(Items) /\ Leads(ws, Pair(s0, d), left, Pair(s2, d + 1))
      BY <2>7, LeadsOn
  <2>10. Operator(e) = left \o right
      BY <1>3
  <2> HIDE DEF left, right
  <2>11. Operator(e) \in Seq(Items) /\ Leads(ws, Pair(s0, d), Operator(e), Pair(s5, d))
      BY <2>8, <2>9, <2>10, LeadsOn
  <2> QED BY <2>11 DEF s0, s5
<1> HIDE DEF r, m, open, blank, close, minus, arg
<1>6. Operator(e) \in Seq(Items)
  <2>1. 0 \in Nat
      OBVIOUS
  <2> QED BY <1>5, <2>1
<1> QED BY <1>5, <1>6, TreeReplaced

(* A word that is an operand by itself.                                    *)
LEMMA OperandReplaces ==
    ASSUME NEW ws, NEW e \in Trees,
           \/ e = Column /\ Leaf(e) = <<Word("c")>>
           \/ e = Null /\ Leaf(e) = <<Word("NULL")>>
           \/ e = Number(1) /\ Leaf(e) = <<Word("1")>>
           \/ e = String(<<>>) /\ Leaf(e) = <<Word("NULL")>>
    PROVE  Replaces(ws, Leaf(e), Tree(e))
<1>1. ASSUME NEW w \in Reserved, Leaf(e) = <<Word(w)>>,
             \A p : Step(At("before operand", p), w) = Met(p, e)
      PROVE  Replaces(ws, Leaf(e), Tree(e))
  <2> DEFINE x == Word(w)
  <2>1. x \in Items
      BY WordsAreItems
  <2>2. ASSUME NEW p, NEW d \in Nat
        PROVE  Leads(ws, Pair(At("before operand", p), d), <<x>>, Pair(Met(p, e), d))
    <3>1. Moves(ws, Pair(At("before operand", p), d), x, Pair(Met(p, e), d))
        BY <1>1, WordMoves
    <3> QED BY <3>1, LeadsOne
  <2> HIDE DEF x
  <2>3. <<x>> \in Seq(Items)
      BY <2>1
  <2>4. Leaf(e) = <<x>>
      BY <1>1 DEF x
  <2> QED BY <2>2, <2>3, <2>4, TreeReplaced
<1>2. "c" \in Reserved /\ "NULL" \in Reserved /\ "1" \in Reserved
    BY Zenon DEF Reserved
<1>3. ASSUME NEW p
      PROVE  /\ Step(At("before operand", p), "c") = Take(p, Column)
             /\ Step(At("before operand", p), "NULL") = Take(p, Null)
             /\ Step(At("before operand", p), "1") = Take(p, Number(1))
    BY StepBeforeOperand
<1>4. ASSUME ~(e.node = "string" /\ e.chars # <<>>), NEW p
      PROVE  Met(p, e) = Take(p, meaning[e])
    BY <1>4, Zenon DEF Met
<1>5. CASE e = Column /\ Leaf(e) = <<Word("c")>>
  <2>1. e.node # "string"
      BY <1>5 DEF Column
  <2>2. \A p : Step(At("before operand", p), "c") = Met(p, e)
      BY <1>3, <1>4, <1>5, <2>1, MeaningOf
  <2> QED BY <1>1, <1>2, <1>5, <2>2
<1>6. CASE e = Null /\ Leaf(e) = <<Word("NULL")>>
  <2>1. e.node # "string"
      BY <1>6 DEF Null
  <2>2. \A p : Step(At("before operand", p), "NULL") = Met(p, e)
      BY <1>3, <1>4, <1>6, <2>1, MeaningOf
  <2> QED BY <1>1, <1>2, <1>6, <2>2
<1>7. CASE e = Number(1) /\ Leaf(e) = <<Word("1")>>
  <2>1. e.node # "string"
      BY <1>7 DEF Number
  <2>2. \A p : Step(At("before operand", p), "1") = Met(p, e)
      BY <1>3, <1>4, <1>7, <2>1, MeaningOf
  <2> QED BY <1>1, <1>2, <1>7, <2>2
<1>8. CASE e = String(<<>>) /\ Leaf(e) = <<Word("NULL")>>
  <2>1. e.chars = <<>>
      BY <1>8 DEF String
  <2>2. \A p : Step(At("before operand", p), "NULL") = Met(p, e)
      BY <1>3, <1>4, <1>8, <2>1, MeaningOf
  <2> QED BY <1>1, <1>2, <1>8, <2>2
<1> QED BY <1>5, <1>6, <1>7, <1>8

LEMMA NegativeReplaces ==
    ASSUME NEW ws, NEW e \in Trees, e = Number(-1)
    PROVE  Replaces(ws, Leaf(e), Tree(e))
<1> DEFINE minus == Word("-")
           one == Word("1")
           m == Unary(Number(1))
<1>1. /\ Number(-1).node = "number" /\ Number(-1).int = -1
    BY DEF Number
<1>2. Leaf(e) = <<minus, one>>
    BY <1>1 DEF Leaf
<1>3. minus \in Items /\ one \in Items
  <2>1. "1" \in Reserved
      BY Zenon DEF Reserved
  <2> QED BY <2>1, WordsAreItems
<1>4. ASSUME NEW p, NEW d \in Nat
      PROVE  /\ Moves(ws, Pair(At("before operand", p), d), minus,
                      Pair(At("after sign", p), d))
             /\ Moves(ws, Pair(At("after sign", p), d), one, Pair(Met(p, e), d))
  <2>1. /\ Step(At("before operand", p), "-") = At("after sign", p)
        /\ Step(At("after sign", p), "1") = Take(p, m)
      BY StepBeforeOperand, StepAfterSign
  <2>2. e.node # "string"
      BY <1>1
  <2>3. Met(p, e) = Take(p, m)
      BY <2>2, MeaningOf DEF Met
  <2> QED BY <2>1, <2>3, WordMoves
<1> HIDE DEF minus, one, m
<1>5. ASSUME NEW p, NEW d \in Nat
      PROVE  /\ Leaf(e) \in Seq(Items)
             /\ Leads(ws, Pair(At("before operand", p), d), Leaf(e), Pair(Met(p, e), d))
    BY <1>2, <1>3, <1>4, LeadsTwo
<1>6. Leaf(e) \in Seq(Items)
  <2>1. 0 \in Nat
      OBVIOUS
  <2> QED BY <1>5, <2>1
<1> QED BY <1>5, <1>6, TreeReplaced

LEMMA StringReplaces ==
    ASSUME NEW ws, NEW e \in Trees, e.node = "string", e.chars # <<>>,
           e.chars \in Seq(Characters)
    PROVE  Replaces(ws, Leaf(e), Tree(e))
<1> DEFINE s == e.chars
           quote == Word("q")
           rest == Quoted(s)
<1>1. Leaf(e) = <<quote, rest>>
    BY DEF Leaf, deparse_string_literal
<1>2. quote \in Items /\ rest \in Items
  <2>1. "q" \in Reserved
      BY Zenon DEF Reserved
  <2> QED BY <2>1, WordsAreItems, ItemKinds
<1>3. ASSUME NEW p, NEW d \in Nat
      PROVE  /\ Moves(ws, Pair(At("before operand", p), d), quote,
                      Pair(Reading("in string", p, <<>>), d))
             /\ Moves(ws, Pair(Reading("in string", p, <<>>), d), rest,
                      Pair(Met(p, e), d))
  <2>1. Step(At("before operand", p), "q") = Reading("in string", p, <<>>)
      BY StepBeforeOperand
  <2>2. <<>> \in Seq(Characters) /\ <<>> \o s = s
      OBVIOUS
  <2>3. Met(p, e) = Reading("after quote", p, s)
      BY DEF Met
  <2>4. Moves(ws, Pair(Reading("in string", p, <<>>), d), rest,
              Pair(Reading("after quote", p, <<>> \o s), d))
      BY <2>2, QuotedMoves
  <2>5. Moves(ws, Pair(At("before operand", p), d), quote,
              Pair(Reading("in string", p, <<>>), d))
      BY <2>1, WordMoves
  <2> QED BY <2>2, <2>3, <2>4, <2>5
<1> HIDE DEF quote, rest
<1>4. ASSUME NEW p, NEW d \in Nat
      PROVE  /\ Leaf(e) \in Seq(Items)
             /\ Leads(ws, Pair(At("before operand", p), d), Leaf(e), Pair(Met(p, e), d))
    BY <1>1, <1>2, <1>3, LeadsTwo
<1>5. Leaf(e) \in Seq(Items)
  <2>1. 0 \in Nat
      OBVIOUS
  <2> QED BY <1>4, <2>1
<1> QED BY <1>4, <1>5, TreeReplaced

(* deparse_expr, on any tree.                                              *)
LEMMA DeparsedReplaces ==
    ASSUME NEW ws, NEW e \in Trees
    PROVE  Replaces(ws, IF e.node \in {"unary", "binary"} THEN Operator(e) ELSE Leaf(e),
                    Tree(e))
<1>1. /\ String(<<>>).node = "string" /\ String(<<>>).chars = <<>>
      /\ Number(-1).node = "number" /\ Number(1).node = "number"
      /\ Number(1).int = 1
      /\ Column.node = "column" /\ Null.node = "null"
    BY DEF String, Number, Column, Null
<1>2. CASE e.node = "binary"
    BY <1>2, BinaryReplaces
<1>3. CASE e.node = "unary"
    BY <1>3, UnaryReplaces
<1>4. CASE e.node \notin {"unary", "binary"}
  <2> SUFFICES Replaces(ws, Leaf(e), Tree(e))
      BY <1>4
  <2>1. CASE e = Column
    <3>1. Leaf(e) = <<Word("c")>>
        BY <2>1, <1>1 DEF Leaf
    <3> QED BY <2>1, <3>1, OperandReplaces
  <2>2. CASE e = Null
    <3>1. Leaf(e) = <<Word("NULL")>>
        BY <2>2, <1>1 DEF Leaf
    <3> QED BY <2>2, <3>1, OperandReplaces
  <2>3. CASE e = Number(1)
    <3>1. Leaf(e) = <<Word("1")>>
        BY <2>3, <1>1 DEF Leaf
    <3> QED BY <2>3, <3>1, OperandReplaces
  <2>4. CASE e = Number(-1)
      BY <2>4, NegativeReplaces
  <2>5. CASE e.node = "string" /\ e = String(e.chars) /\ e.chars \in Seq(Characters)
    <3>1. CASE e.chars = <<>>
      <4>1. e = String(<<>>)
          BY <2>5, <3>1, Zenon
      <4>2. Leaf(e) = <<Word("NULL")>>
          BY <4>1, <1>1 DEF Leaf, deparse_string_literal
      <4> QED BY <4>1, <4>2, OperandReplaces
    <3>2. CASE e.chars # <<>>
        BY <2>5, <3>2, StringReplaces
    <3> QED BY <3>1, <3>2
  <2> QED BY <1>4, <2>1, <2>2, <2>3, <2>4, <2>5, Forms
<1> QED BY <1>2, <1>3, <1>4

LEMMA OneOn ==
    ASSUME NEW c \in Seq(Characters), NEW s \in Seq(Characters), s # <<>>
    PROVE  Append(c, Head(s)) \o Tail(s) = c \o s
<1> DEFINE t == Tail(s)
           u == Append(c, Head(s))
           v == u \o t
           w == c \o s
           n == Len(c)
           m == Len(s)
<1>1. /\ n \in Nat /\ m \in Nat /\ m > 0
      /\ t \in Seq(Characters) /\ Len(t) = m - 1 /\ \A i \in 1 .. m - 1 : t[i] = s[i + 1]
      /\ Head(s) = s[1] /\ Head(s) \in Characters
    OBVIOUS
<1>2. /\ u \in Seq(Characters) /\ Len(u) = n + 1 /\ u[n + 1] = s[1]
      /\ \A i \in 1 .. n : u[i] = c[i]
    BY <1>1
<1>3. /\ w \in Seq(Characters) /\ Len(w) = n + m
      /\ \A i \in 1 .. n : w[i] = c[i]
      /\ \A i \in n + 1 .. n + m : w[i] = s[i - n]
    BY <1>1
<1> HIDE DEF t, u, n, m, w
<1>4. /\ v \in Seq(Characters) /\ Len(v) = (n + 1) + (m - 1)
      /\ \A i \in 1 .. n + 1 : v[i] = u[i]
      /\ \A i \in (n + 1) + 1 .. (n + 1) + (m - 1) : v[i] = t[i - (n + 1)]
    BY <1>1, <1>2
<1> HIDE DEF v
<1>5. Len(v) = Len(w)
    BY <1>1, <1>3, <1>4
<1>6. ASSUME NEW i \in 1 .. n + m
      PROVE  v[i] = w[i]
  <2>1. CASE i <= n
    <3>1. i \in 1 .. n /\ i \in 1 .. n + 1
        BY <2>1, <1>1
    <3> QED BY <3>1, <1>2, <1>3, <1>4
  <2>2. CASE i = n + 1
    <3>1. i \in 1 .. n + 1 /\ i \in n + 1 .. n + m /\ i - n = 1
        BY <2>2, <1>1
    <3> QED BY <2>2, <3>1, <1>2, <1>3, <1>4
  <2>3. CASE i > n + 1
    <3> DEFINE k == i - (n + 1)
    <3>1. /\ i \in (n + 1) + 1 .. (n + 1) + (m - 1) /\ i \in n + 1 .. n + m
          /\ k \in 1 .. m - 1 /\ k + 1 = i - n
        BY <2>3, <1>1
    <3>2. v[i] = t[k] /\ w[i] = s[i - n]
        BY <3>1, <1>3, <1>4
    <3> HIDE DEF k
    <3> QED BY <3>1, <3>2, <1>1
  <2> QED BY <2>1, <2>2, <2>3, <1>1
<1>7. Len(v) = n + m
    BY <1>3, <1>5
<1>8. v = w
    BY <1>3, <1>4, <1>5, <1>6, <1>7, SeqEqual
<1> QED BY <1>8 DEF v, w, u, t

LEMMA NothingBefore ==
    ASSUME NEW p \in Seq(Items)
    PROVE  <<>> \o p = p
    OBVIOUS

(* One turn of the loop of deparse_string_literal.                         *)
LEMMA CharacterReplaces ==
    ASSUME NEW ws, NEW s \in Seq(Characters)
    PROVE  Replaces(ws, Character(s), Quoted(s))
<1> DEFINE quote == Word("q")
           row == Character(s)
<1>0. quote \in Items
  <2>1. "q" \in Reserved
      BY Zenon DEF Reserved
  <2> QED BY <2>1, WordsAreItems
<1>1. ASSUME NEW p, NEW c \in Seq(Characters), NEW d \in Nat
      PROVE  /\ row \in Seq(Items)
             /\ Leads(ws, Pair(Reading("in string", p, c), d), row,
                      Pair(Reading("after quote", p, c \o s), d))
  <2> DEFINE a == Pair(Reading("in string", p, c), d)
             b == Pair(Reading("after quote", p, c \o s), d)
  <2>1. CASE s = <<>>
    <3>1. row = <<quote>>
        BY <2>1 DEF Character
    <3>2. c \o s = c
        BY <2>1
    <3>3. Step(Reading("in string", p, c), "q") = Reading("after quote", p, c)
        BY StepInString
    <3>4. Moves(ws, a, quote, b)
        BY <3>2, <3>3, WordMoves
    <3> HIDE DEF quote, row, a, b
    <3>5. Leads(ws, a, <<quote>>, b) /\ <<quote>> \in Seq(Items)
        BY <1>0, <3>4, LeadsOne
    <3> QED BY <3>1, <3>5 DEF a, b
  <2>2. CASE s # <<>>
    <3> DEFINE h == Head(s)
               t == Tail(s)
               e == Append(c, h)
               m == Pair(Reading("in string", p, e), d)
               x == Word(h)
               y == Quoted(t)
    <3>1. h \in Characters /\ t \in Seq(Characters) /\ e \in Seq(Characters)
        BY <2>2
    <3>2. e \o t = c \o s
        BY <2>2, OneOn
    <3>3. x \in Items /\ y \in Items
        BY <3>1, WordsAreItems, ItemKinds
    <3> HIDE DEF e, t
    <3>4. Moves(ws, m, y, b)
        BY <3>1, <3>2, QuotedMoves
    <3>5. CASE h # "q"
      <4>1. row = <<>> \o <<x, y>>
          BY <2>2, <3>5 DEF Character, t
      <4>2. Step(Reading("in string", p, c), h) = Reading("in string", p, e)
          BY <3>5, StepInString DEF e
      <4>3. Moves(ws, a, x, m)
          BY <4>2, WordMoves
      <4> HIDE DEF row, a, b, m, x, y
      <4>4. Leads(ws, a, <<x, y>>, b) /\ <<x, y>> \in Seq(Items)
          BY <3>3, <3>4, <4>3, LeadsTwo
      <4>5. row = <<x, y>>
          BY <4>1, <4>4, NothingBefore
      <4> QED BY <4>4, <4>5 DEF a, b
    <3>6. CASE h = "q"
      <4> DEFINE between == Pair(Reading("after quote", p, c), d)
      <4>1. row = <<quote>> \o <<x, y>>
          BY <2>2, <3>6 DEF Character, t
      <4>2. /\ Step(Reading("in string", p, c), "q") = Reading("after quote", p, c)
            /\ Step(Reading("after quote", p, c), h) = Reading("in string", p, e)
          BY <3>6, StepInString, StepAfterQuote DEF e
      <4>3. Moves(ws, a, quote, between) /\ Moves(ws, between, x, m)
          BY <4>2, WordMoves
      <4> HIDE DEF row, a, b, m, x, y, quote, between
      <4> DEFINE left == <<quote>>
                 right == <<x, y>>
      <4>4. /\ Leads(ws, a, left, between) /\ left \in Seq(Items)
            /\ Leads(ws, between, right, b) /\ right \in Seq(Items)
          BY <1>0, <3>3, <3>4, <4>3, LeadsOne, LeadsTwo
      <4>5. row = left \o right
          BY <4>1
      <4> HIDE DEF left, right
      <4>6. Leads(ws, a, row, b) /\ row \in Seq(Items)
          BY <4>4, <4>5, LeadsOn
      <4> QED BY <4>6 DEF a, b
    <3> QED BY <3>5, <3>6
  <2> QED BY <2>1, <2>2
<1> HIDE DEF row
<1>2. row \in Seq(Items)
  <2>1. 0 \in Nat /\ <<>> \in Seq(Characters)
      OBVIOUS
  <2> QED BY <1>1, <2>1
<1>3. ASSUME NEW a, NEW b, Moves(ws, a, Quoted(s), b)
      PROVE  Leads(ws, a, row, b)
  <2>1. AtQuoted(a, s, b)
      BY <1>3, MovesQuoted
  <2>2. PICK p, c, d : /\ d \in Nat /\ c \in Seq(Characters)
                       /\ a = Pair(Reading("in string", p, c), d)
                       /\ b = Pair(Reading("after quote", p, c \o s), d)
      BY <2>1, Zenon DEF AtQuoted
  <2> QED BY <1>1, <2>2
<1> QED BY <1>2, <1>3, Zenon DEF Replaces, row

(* What the reader has read of the first conditions.                       *)
Meant(ws, n) == [i \in 1 .. n |-> meaning[ws[i]]]

LEMMA PrefixRead ==
    ASSUME NEW ws \in Seq(Trees)
    PROVE  /\ HasRead(SubSeq(ws, 1, 0)) = At("before operand", Listed(<<>>))
           /\ HasRead(SubSeq(ws, 1, Len(ws))) = HasRead(ws)
           /\ \A n \in 1 .. Len(ws) :
                HasRead(SubSeq(ws, 1, n)) = At("after operand", Listed(Meant(ws, n)))
           /\ Len(ws) > 0 => Append(<<>>, meaning[ws[1]]) = Meant(ws, 1)
           /\ \A n \in 1 .. Len(ws) - 1 :
                Append(Meant(ws, n), meaning[ws[n + 1]]) = Meant(ws, n + 1)
<1>1. SubSeq(ws, 1, 0) = <<>> /\ SubSeq(ws, 1, Len(ws)) = ws
    OBVIOUS
<1>2. HasRead(SubSeq(ws, 1, 0)) = At("before operand", Listed(<<>>))
    BY <1>1 DEF HasRead, Start
<1>3. ASSUME NEW n \in 1 .. Len(ws)
      PROVE  HasRead(SubSeq(ws, 1, n)) = At("after operand", Listed(Meant(ws, n)))
  <2> DEFINE p == SubSeq(ws, 1, n)
             read == [i \in DOMAIN p |-> meaning[p[i]]]
  <2>1. /\ Len(ws) \in Nat /\ DOMAIN p = 1 .. n /\ p # <<>>
        /\ \A i \in 1 .. n : p[i] = ws[i]
      OBVIOUS
  <2> HIDE DEF p
  <2>2. read = Meant(ws, n)
      BY <2>1 DEF Meant
  <2>3. HasRead(p) = At("after operand", Listed(read))
      BY <2>1, Zenon DEF HasRead
  <2> QED BY <2>2, <2>3 DEF p
<1>4. Len(ws) > 0 => Append(<<>>, meaning[ws[1]]) = Meant(ws, 1)
    BY DEF Meant
<1>5. ASSUME NEW n \in 1 .. Len(ws) - 1
      PROVE  Append(Meant(ws, n), meaning[ws[n + 1]]) = Meant(ws, n + 1)
  <2> DEFINE X == {meaning[e] : e \in Trees}
             p == Meant(ws, n)
             q == Meant(ws, n + 1)
             x == meaning[ws[n + 1]]
             r == Append(p, x)
  <2>1. Len(ws) \in Nat /\ n \in Nat /\ n > 0 /\ \A i \in 1 .. n + 1 : ws[i] \in Trees
      OBVIOUS
  <2>2. \A i \in 1 .. n + 1 : meaning[ws[i]] \in X
      BY <2>1
  <2>3. x \in X
      BY <2>1, <2>2
  <2> HIDE DEF X
  <2>4. p \in Seq(X) /\ Len(p) = n /\ \A i \in 1 .. n : p[i] = meaning[ws[i]]
      BY <2>1, <2>2 DEF Meant
  <2>5. /\ q \in Seq(X) /\ Len(q) = n + 1
        /\ \A i \in 1 .. n + 1 : q[i] = meaning[ws[i]]
      BY <2>1, <2>2 DEF Meant
  <2> HIDE DEF p, q
  <2>6. /\ r \in Seq(X) /\ Len(r) = n + 1 /\ r[n + 1] = x
        /\ \A i \in 1 .. n : r[i] = p[i]
      BY <2>3, <2>4
  <2> HIDE DEF r
  <2>7. ASSUME NEW i \in 1 .. Len(r)
        PROVE  r[i] = q[i]
    <3>1. i \in 1 .. n \/ i = n + 1
        BY <2>1, <2>6
    <3>2. i \in 1 .. n + 1 /\ n + 1 \in 1 .. n + 1
        BY <2>1, <2>6
    <3>3. q[i] = meaning[ws[i]]
        BY <3>2, <2>5
    <3>4. CASE i \in 1 .. n
        BY <3>3, <3>4, <2>4, <2>6
    <3>5. CASE i = n + 1
        BY <3>3, <3>5, <2>6
    <3> QED BY <3>1, <3>4, <3>5
  <2>8. r = q
      BY <2>5, <2>6, <2>7, SeqEqual
  <2> QED BY <2>8 DEF r, p, q
<1> QED BY <1>1, <1>2, <1>3, <1>4, <1>5

(* The first condition, and one behind AND.                                *)
LEMMA ConditionMoves ==
    ASSUME NEW ws, NEW e \in Trees, NEW es, NEW d \in Nat
    PROVE  /\ Moves(ws, Pair(At("before operand", Listed(es)), d), Parenthesis("("),
                    Pair(At("before operand", Opened(Listed(es))), d + 1))
           /\ Moves(ws, Pair(At("before operand", Opened(Listed(es))), d + 1), Tree(e),
                    Pair(Met(Opened(Listed(es)), e), d + 1))
           /\ Moves(ws, Pair(Met(Opened(Listed(es)), e), d + 1), Parenthesis(")"),
                    Pair(At("after operand", Listed(Append(es, meaning[e]))), d))
           /\ Moves(ws, Pair(At("after operand", Listed(es)), d), Word(" "),
                    Pair(At("before operator", Listed(es)), d))
           /\ Moves(ws, Pair(At("before operator", Listed(es)), d), Word("AND"),
                    Pair(At("after operator", Listed(es)), d))
           /\ Moves(ws, Pair(At("after operator", Listed(es)), d), Word(" "),
                    Pair(At("before operand", Listed(es)), d))
<1> DEFINE p == Listed(es)
           m == meaning[e]
           s0 == At("before operand", p)
           s1 == At("before operand", Opened(p))
           s2 == Met(Opened(p), e)
           s3 == At("after operand", Listed(Append(es, m)))
           s4 == At("after operand", p)
           s5 == At("before operator", p)
           s6 == At("after operator", p)
<1>1. Step(s0, "(") = s1
    BY StepBeforeOperand
<1>2. Step(s2, ")") = s3
  <2>1. Step(s2, ")") = AfterOperand(Taken(Opened(p), m), ")")
      BY StepBehindTree
  <2>2. AfterOperand(Operand(m, p), ")") = Take(p, m)
      BY StepAfterOperand
  <2>3. Take(p, m) = s3
      BY TakenAt DEF Take
  <2> QED BY <2>1, <2>2, <2>3, TakenAt
<1>3. Step(s4, " ") = s5
    BY StepAfterOperand
<1>4. Step(s5, "AND") = s6 /\ Step(s6, " ") = s0
    BY StepAtOperator
<1>5. d + 1 \in Nat
    OBVIOUS
<1>6. Moves(ws, Pair(s1, d + 1), Tree(e), Pair(s2, d + 1))
    BY <1>5, TreeMoves
<1>7. /\ Moves(ws, Pair(s0, d), Parenthesis("("), Pair(s1, d + 1))
      /\ Moves(ws, Pair(s2, d + 1), Parenthesis(")"), Pair(s3, d))
    BY <1>1, <1>2, ParenthesisMoves
<1>8. /\ Moves(ws, Pair(s4, d), Word(" "), Pair(s5, d))
      /\ Moves(ws, Pair(s5, d), Word("AND"), Pair(s6, d))
      /\ Moves(ws, Pair(s6, d), Word(" "), Pair(s0, d))
    BY <1>3, <1>4, WordMoves
<1> QED BY <1>6, <1>7, <1>8

(* One turn of the loop of append_conditions.                              *)
LEMMA ConditionReplaces ==
    ASSUME NEW ws \in Seq(Trees), NEW i \in Nat \ {0}, where = ws
    PROVE  Replaces(ws, IF i \in DOMAIN ws THEN Condition(i) ELSE <<>>, Conditions(i))
<1> DEFINE row == IF i \in DOMAIN ws THEN Condition(i) ELSE <<>>
           n == Len(ws)
           e == ws[i]
           open == Parenthesis("(")
           tree == Tree(e)
           close == Parenthesis(")")
           more == Conditions(i + 1)
           blank == Word(" ")
           conj == Word("AND")
           one == <<open, tree, close, more>>
           before == <<blank, conj, blank>>
<1>1. n \in Nat /\ DOMAIN ws = 1 .. n
    OBVIOUS
<1>2. /\ open \in Items /\ close \in Items /\ more \in Items
      /\ blank \in Items /\ conj \in Items
  <2>1. " " \in Reserved /\ "AND" \in Reserved
      BY Zenon DEF Reserved
  <2>2. i + 1 \in Nat \ {0}
      OBVIOUS
  <2> QED BY <2>1, <2>2, ItemKinds, WordsAreItems
<1>3. CASE i \notin DOMAIN ws
  <2>1. row = <<>> /\ row \in Seq(Items)
      BY <1>3
  <2>2. ASSUME NEW a, NEW b, Moves(ws, a, Conditions(i), b)
        PROVE  Leads(ws, a, row, b)
    <3>1. AtConditions(ws, a, i, b)
        BY <2>2, MovesConditions
    <3>2. PICK d : /\ d \in Nat /\ i - 1 \in 0 .. n
                   /\ a = Pair(HasRead(SubSeq(ws, 1, i - 1)), d)
                   /\ b = Pair(HasRead(ws), d)
        BY <3>1, Zenon DEF AtConditions
    <3>3. i - 1 = n
        BY <3>2, <1>1, <1>3
    <3>4. a = b
        BY <3>2, <3>3, PrefixRead
    <3> HIDE DEF row
    <3> QED BY <2>1, <3>4, LeadsNothing
  <2> QED BY <2>1, <2>2, Zenon DEF Replaces
<1>4. CASE i \in DOMAIN ws
  <2>1. e \in Trees /\ tree \in Items
      BY <1>4, ItemKinds
  <2>2. row = (IF i = 1 THEN <<>> ELSE before) \o one
      BY <1>4, Zenon DEF Condition
  <2>3. i \in 1 .. n /\ i - 1 \in 0 .. n /\ (i + 1) - 1 = i /\ i + 1 \in Nat \ {0}
        /\ i \in 0 .. n
      BY <1>1, <1>4
  (* From where the reader expects the condition on. *)
  <2>4. ASSUME NEW es, NEW d \in Nat, Append(es, meaning[e]) = Meant(ws, i)
        PROVE  /\ one \in Seq(Items)
               /\ Leads(ws, Pair(At("before operand", Listed(es)), d), one,
                        Pair(HasRead(ws), d))
    <3> DEFINE s0 == Pair(At("before operand", Listed(es)), d)
               s1 == Pair(At("before operand", Opened(Listed(es))), d + 1)
               s2 == Pair(Met(Opened(Listed(es)), e), d + 1)
               s3 == Pair(At("after operand", Listed(Append(es, meaning[e]))), d)
               s4 == Pair(HasRead(ws), d)
    <3>1. Moves(ws, s0, open, s1) /\ Moves(ws, s1, tree, s2) /\ Moves(ws, s2, close, s3)
        BY <2>1, ConditionMoves
    <3>2. s3 = Pair(HasRead(SubSeq(ws, 1, i)), d)
        BY <2>3, <2>4, PrefixRead
    <3>3. Moves(ws, Pair(HasRead(SubSeq(ws, 1, (i + 1) - 1)), d), more, s4)
      <4>1. (i + 1) - 1 \in 0 .. Len(ws)
          BY <2>3
      <4> QED BY <2>3, <4>1, ConditionsMove
    <3>4. Moves(ws, s3, more, s4)
        BY <2>3, <3>2, <3>3
    <3> HIDE DEF s0, s1, s2, s3, s4, open, tree, close, more
    <3>5. one \in Seq(Items) /\ Leads(ws, s0, one, s4)
        BY <1>2, <2>1, <3>1, <3>4, LeadsFour
    <3> QED BY <3>5 DEF s0, s4
  <2> DEFINE es == Meant(ws, i - 1)
  <2>5. ASSUME NEW d \in Nat
        PROVE  /\ before \in Seq(Items)
               /\ Leads(ws, Pair(At("after operand", Listed(es)), d), before,
                        Pair(At("before operand", Listed(es)), d))
    <3> DEFINE s0 == Pair(At("after operand", Listed(es)), d)
               s1 == Pair(At("before operator", Listed(es)), d)
               s2 == Pair(At("after operator", Listed(es)), d)
               s3 == Pair(At("before operand", Listed(es)), d)
    <3>1. Moves(ws, s0, blank, s1) /\ Moves(ws, s1, conj, s2) /\ Moves(ws, s2, blank, s3)
        BY <2>1, ConditionMoves
    <3> HIDE DEF s0, s1, s2, s3, blank, conj
    <3>2. before \in Seq(Items) /\ Leads(ws, s0, before, s3)
        BY <1>2, <3>1, LeadsThree
    <3> QED BY <3>2 DEF s0, s3
  <2>6. i = 1 => Append(<<>>, meaning[e]) = Meant(ws, i)
    <3>1. n > 0
        BY <1>1, <2>3
    <3>2. Append(<<>>, meaning[ws[1]]) = Meant(ws, 1)
        BY <3>1, PrefixRead
    <3> QED BY <3>2
  <2>7. i # 1 => Append(es, meaning[e]) = Meant(ws, i)
    <3>1. ASSUME i # 1
          PROVE  Append(es, meaning[e]) = Meant(ws, i)
      <4> DEFINE k == i - 1
      <4>1. k \in 1 .. Len(ws) - 1 /\ k + 1 = i
          BY <1>1, <2>3, <3>1
      <4>2. Append(Meant(ws, k), meaning[ws[k + 1]]) = Meant(ws, k + 1)
          BY <4>1, PrefixRead
      <4>3. es = Meant(ws, k)
          OBVIOUS
      <4> HIDE DEF k, es
      <4> QED BY <4>1, <4>2, <4>3
    <3> QED BY <3>1
  <2> HIDE DEF one, before, row
  <2>8. ASSUME NEW d \in Nat
        PROVE  /\ row \in Seq(Items)
               /\ Leads(ws, Pair(HasRead(SubSeq(ws, 1, i - 1)), d), row,
                        Pair(HasRead(ws), d))
    <3>1. CASE i = 1
      <4>1. HasRead(SubSeq(ws, 1, i - 1)) = At("before operand", Listed(<<>>))
        <5>1. i - 1 = 0
            BY <3>1
        <5> QED BY <5>1, PrefixRead, Zenon
      <4>2. row = <<>> \o one
          BY <2>2, <3>1
      <4>3. /\ one \in Seq(Items)
            /\ Leads(ws, Pair(At("before operand", Listed(<<>>)), d), one,
                     Pair(HasRead(ws), d))
          BY <2>4, <2>6, <3>1
      <4>4. row = one
          BY <4>2, <4>3, NothingBefore
      <4> QED BY <4>1, <4>3, <4>4
    <3>2. CASE i # 1
      <4>1. HasRead(SubSeq(ws, 1, i - 1)) = At("after operand", Listed(es))
        <5>1. i - 1 \in 1 .. Len(ws)
            BY <1>1, <2>3, <3>2
        <5> QED BY <5>1, PrefixRead
      <4>2. row = before \o one
          BY <2>2, <3>2
      <4>3. /\ one \in Seq(Items)
            /\ Leads(ws, Pair(At("before operand", Listed(es)), d), one,
                     Pair(HasRead(ws), d))
          BY <2>4, <2>7, <3>2
      <4> HIDE DEF es
      <4> QED BY <2>5, <4>1, <4>2, <4>3, LeadsOn
    <3> QED BY <3>1, <3>2
  <2>9. row \in Seq(Items)
    <3>1. 0 \in Nat
        OBVIOUS
    <3> QED BY <2>8, <3>1
  <2>10. ASSUME NEW a, NEW b, Moves(ws, a, Conditions(i), b)
         PROVE  Leads(ws, a, row, b)
    <3>1. AtConditions(ws, a, i, b)
        BY <2>10, MovesConditions
    <3>2. PICK d : /\ d \in Nat /\ i - 1 \in 0 .. n
                   /\ a = Pair(HasRead(SubSeq(ws, 1, i - 1)), d)
                   /\ b = Pair(HasRead(ws), d)
        BY <3>1, Zenon DEF AtConditions
    <3> QED BY <2>8, <3>2
  <2> QED BY <2>9, <2>10, Zenon DEF Replaces, row
<1> QED BY <1>3, <1>4

-----------------------------------------------------------------------------
(* From where the reader is after the text, what is left to write leads it *)
(* to the end of the conditions, with every parenthesis closed.            *)
Ahead ==
    \E r : /\ Reads(text, r)
           /\ Leads(where, Pair(r, pdepth), todo, Pair(HasRead(where), 0))

TextInv ==
    /\ where \in WhereLists \union {<<>>}
    /\ where = <<>> => todo = <<>>
    /\ todo \in Seq(Items) /\ text \in Seq(Words) /\ pdepth \in Nat
    /\ Ahead

LEMMA LeadsNowhere ==
    ASSUME NEW ws, NEW r, NEW d, NEW s, NEW e, Leads(ws, Pair(r, d), <<>>, Pair(s, e))
    PROVE  r = s /\ d = e
<1>1. Len(<<>>) = 0
    OBVIOUS
<1>2. Pair(r, d) = Pair(s, e)
    BY <1>1, Zenon DEF Leads
<1> QED BY <1>2 DEF Pair

LEMMA ConditionsAreTrees ==
    /\ \A ws \in WhereLists \union {<<>>} : ws \in Seq(Trees)
    /\ \A ws \in WhereLists : ws # <<>>
<1>1. WhereLists \subseteq Seq(Trees) \ {<<>>}
    BY TextConstants, Zenon
<1>2. <<>> \in Seq(Trees)
    OBVIOUS
<1> QED BY <1>1, <1>2, Zenon

LEMMA InitRead == TextInit => TextInv
<1> SUFFICES ASSUME TextInit PROVE TextInv
    OBVIOUS
<1>1. where = <<>> /\ todo = <<>> /\ text = <<>> /\ pdepth = 0
    BY DEF TextInit
<1>2. HasRead(<<>>) = Start
    BY DEF HasRead
<1>3. Ahead
    BY <1>1, <1>2, ReadsNothing, LeadsNothing DEF Ahead
<1>4. <<>> \in Seq(Items) /\ <<>> \in Seq(Words) /\ 0 \in Nat
    OBVIOUS
<1> QED BY <1>1, <1>3, <1>4 DEF TextInv

LEMMA DeparseWhereRead == TextInv /\ DeparseWhere => TextInv'
<1> SUFFICES ASSUME TextInv, DeparseWhere PROVE TextInv'
    OBVIOUS
<1>1. /\ where = <<>> /\ todo = <<>> /\ text \in Seq(Words) /\ pdepth \in Nat
      /\ where' \in WhereLists /\ todo' = <<Conditions(1)>>
      /\ text' = text /\ pdepth' = pdepth
    BY DEF TextInv, DeparseWhere
<1>2. PICK r : /\ Reads(text, r)
               /\ Leads(where, Pair(r, pdepth), todo, Pair(HasRead(where), 0))
    BY Zenon DEF TextInv, Ahead
<1>3. r = Start /\ pdepth = 0
  <2>1. HasRead(<<>>) = Start
      BY DEF HasRead
  <2> QED BY <1>1, <1>2, <2>1, LeadsNowhere
<1> DEFINE ws == where'
<1>4. ws \in Seq(Trees) /\ ws # <<>>
    BY <1>1, ConditionsAreTrees
<1>5. Leads(ws, Pair(Start, 0), <<Conditions(1)>>, Pair(HasRead(ws), 0))
  <2>1. 1 - 1 = 0 /\ 1 - 1 \in 0 .. Len(ws) /\ 0 \in Nat /\ 1 \in Nat \ {0}
      BY <1>4
  <2>2. HasRead(SubSeq(ws, 1, 1 - 1)) = Start
      BY <2>1, <1>4, PrefixRead DEF Start
  <2>3. Moves(ws, Pair(Start, 0), Conditions(1), Pair(HasRead(ws), 0))
    <3>1. Moves(ws, Pair(HasRead(SubSeq(ws, 1, 1 - 1)), 0), Conditions(1),
                Pair(HasRead(ws), 0))
        BY <2>1, ConditionsMove
    <3> QED BY <2>2, <3>1
  <2> QED BY <2>3, LeadsOne
<1>6. Conditions(1) \in Items
    BY ItemKinds
<1>7. todo' \in Seq(Items)
    BY <1>1, <1>6
<1>8. Ahead'
    BY <1>1, <1>2, <1>3, <1>5 DEF Ahead
<1> QED BY <1>1, <1>4, <1>7, <1>8 DEF TextInv

(* The first item is replaced by a row that leads the reader as far.       *)
LEMMA ReplacedRead ==
    ASSUME TextInv, todo # <<>>, NEW row, Replaces(where, row, Head(todo)),
           Instead(row), UNCHANGED <<where, text, pdepth>>
    PROVE  TextInv'
<1>1. /\ where \in WhereLists \union {<<>>} /\ todo \in Seq(Items)
      /\ text \in Seq(Words) /\ pdepth \in Nat /\ where # <<>>
    BY DEF TextInv
<1>2. where' = where /\ text' = text /\ pdepth' = pdepth /\ todo' = row \o Tail(todo)
    BY DEF Instead
<1>3. PICK r : /\ Reads(text, r)
               /\ Leads(where, Pair(r, pdepth), todo, Pair(HasRead(where), 0))
    BY Zenon DEF TextInv, Ahead
<1> DEFINE a == Pair(r, pdepth)
           c == Pair(HasRead(where), 0)
           rest == Tail(todo)
<1>4. PICK b : Moves(where, a, Head(todo), b) /\ Leads(where, b, rest, c)
    BY <1>1, <1>3, LeadsFirst
<1>5. row \in Seq(Items) /\ Leads(where, a, row, b)
    BY <1>4, Zenon DEF Replaces
<1>6. rest \in Seq(Items)
    BY <1>1
<1> HIDE DEF a, c, rest
<1>7. row \o rest \in Seq(Items) /\ Leads(where, a, row \o rest, c)
    BY <1>4, <1>5, <1>6, LeadsOn
<1>8. Leads(where, Pair(r, pdepth), todo', Pair(HasRead(where), 0))
    BY <1>2, <1>7 DEF a, c, rest
<1>9. Ahead'
    BY <1>2, <1>3, <1>8 DEF Ahead
<1>10. todo' \in Seq(Items)
    BY <1>2, <1>7 DEF rest
<1> QED BY <1>1, <1>2, <1>9, <1>10 DEF TextInv

LEMMA FirstItem ==
    ASSUME TextInv, NEW kind, First(kind)
    PROVE  todo # <<>> /\ Head(todo) \in Items /\ Head(todo).is = kind
    BY DEF First, TextInv

LEMMA ItemForms ==
    ASSUME NEW x \in Items
    PROVE  /\ x.is = "word" => x.word \in Words
           /\ x.is = "parenthesis" => x.word \in {"(", ")"}
           /\ x.is = "quoted" => x.chars \in Seq(Characters) /\ x = Quoted(x.chars)
           /\ x.is = "tree" => x.tree \in Trees /\ x = Tree(x.tree)
           /\ x.is = "conditions" => x.from \in Nat \ {0} /\ x = Conditions(x.from)
           /\ x.is \in {"word", "parenthesis", "quoted", "tree", "conditions"}
    BY DEF Items, Quoted, Tree, Conditions

LEMMA AppendConditionRead == TextInv /\ AppendCondition => TextInv'
<1> SUFFICES ASSUME TextInv, AppendCondition PROVE TextInv'
    OBVIOUS
<1> DEFINE i == Head(todo).from
           row == IF i \in DOMAIN where THEN Condition(i) ELSE <<>>
<1>1. First("conditions") /\ Instead(row) /\ UNCHANGED <<where, text, pdepth>>
    BY DEF AppendCondition
<1>2. todo # <<>> /\ i \in Nat \ {0} /\ Head(todo) = Conditions(i)
    BY <1>1, FirstItem, ItemForms
<1>3. where \in Seq(Trees)
    BY ConditionsAreTrees DEF TextInv
<1>4. Replaces(where, row, Head(todo))
    BY <1>2, <1>3, ConditionReplaces
<1> QED BY <1>1, <1>2, <1>4, ReplacedRead

LEMMA DeparseExprRead == TextInv /\ DeparseExpr => TextInv'
<1> SUFFICES ASSUME TextInv, DeparseExpr PROVE TextInv'
    OBVIOUS
<1> DEFINE e == Head(todo).tree
           row == IF e.node \in {"unary", "binary"} THEN Operator(e) ELSE Leaf(e)
<1>1. First("tree") /\ Instead(row) /\ UNCHANGED <<where, text, pdepth>>
    BY DEF DeparseExpr
<1>2. todo # <<>> /\ e \in Trees /\ Head(todo) = Tree(e)
    BY <1>1, FirstItem, ItemForms
<1>3. Replaces(where, row, Head(todo))
    BY <1>2, DeparsedReplaces
<1> QED BY <1>1, <1>2, <1>3, ReplacedRead

LEMMA AppendCharacterRead == TextInv /\ AppendCharacter => TextInv'
<1> SUFFICES ASSUME TextInv, AppendCharacter PROVE TextInv'
    OBVIOUS
<1> DEFINE s == Head(todo).chars
           row == Character(s)
<1>1. First("quoted") /\ Instead(row) /\ UNCHANGED <<where, text, pdepth>>
    BY DEF AppendCharacter
<1>2. todo # <<>> /\ s \in Seq(Characters) /\ Head(todo) = Quoted(s)
    BY <1>1, FirstItem, ItemForms
<1>3. Replaces(where, row, Head(todo))
    BY <1>2, CharacterReplaces
<1> QED BY <1>1, <1>2, <1>3, ReplacedRead

(* A word is written: the reader reads it.                                 *)
MovedBy(ws, a, x, b) ==
    b = Pair(Step(a.reader, x.word), a.depth + Adds(x)) /\ b.depth \in Nat

LEMMA MovesWord ==
    ASSUME NEW ws, NEW a, NEW x, NEW b, Moves(ws, a, x, b), x.is \in {"word", "parenthesis"}
    PROVE  MovedBy(ws, a, x, b)
<1>1. /\ b = Pair(b.reader, b.depth) /\ b.depth \in Nat /\ b.depth = a.depth + Adds(x)
      /\ ReadItem(ws, a.reader, x, b.reader)
    BY Zenon DEF Moves
<1>2. b.reader = Step(a.reader, x.word)
  <2>1. x.is # "tree" /\ x.is # "quoted" /\ x.is # "conditions"
      OBVIOUS
  <2> QED BY <1>1, <2>1, Zenon DEF ReadItem
<1> QED BY <1>1, <1>2, Zenon DEF MovedBy

LEMMA WrittenRead ==
    ASSUME TextInv, todo # <<>>, Head(todo).is \in {"word", "parenthesis"},
           text' = Append(text, Head(todo).word), todo' = Tail(todo),
           pdepth' = pdepth + Adds(Head(todo)), UNCHANGED where
    PROVE  TextInv'
<1> DEFINE x == Head(todo)
           rest == Tail(todo)
<1>1. /\ where \in WhereLists \union {<<>>} /\ todo \in Seq(Items)
      /\ text \in Seq(Words) /\ pdepth \in Nat /\ where # <<>>
    BY DEF TextInv
<1>2. PICK r : /\ Reads(text, r)
               /\ Leads(where, Pair(r, pdepth), todo, Pair(HasRead(where), 0))
    BY Zenon DEF TextInv, Ahead
<1>3. PICK b : /\ Moves(where, Pair(r, pdepth), x, b)
               /\ Leads(where, b, rest, Pair(HasRead(where), 0))
    BY <1>1, <1>2, LeadsFirst
<1>4. b = Pair(Step(r, x.word), pdepth') /\ pdepth' \in Nat
  <2>1. MovedBy(where, Pair(r, pdepth), x, b)
      BY <1>3, MovesWord
  <2>2. Pair(r, pdepth).reader = r /\ Pair(r, pdepth).depth = pdepth
      BY DEF Pair
  <2>3. b = Pair(Step(r, x.word), pdepth')
      BY <2>1, <2>2, Zenon DEF MovedBy
  <2>4. b.depth = pdepth'
      BY <2>3 DEF Pair
  <2> QED BY <2>1, <2>3, <2>4, Zenon DEF MovedBy
<1>5. x \in Items /\ rest \in Seq(Items)
    BY <1>1
<1>6. x.word \in Words
  <2>1. {"(", ")"} \subseteq Words
      BY DEF Words, Reserved
  <2> QED BY <1>5, <2>1, ItemForms
<1>7. text' \in Seq(Words)
    BY <1>1, <1>6
<1>8. Reads(text', Step(r, x.word))
    BY <1>1, <1>2, ReadsOn
<1>9. Leads(where, Pair(Step(r, x.word), pdepth'), todo', Pair(HasRead(where), 0))
    BY <1>3, <1>4
<1>10. where' = where
    OBVIOUS
<1>11. Ahead'
  <2> HIDE DEF x
  <2> QED BY <1>8, <1>9, <1>10, Zenon DEF Ahead
<1> QED BY <1>1, <1>4, <1>5, <1>7, <1>10, <1>11 DEF TextInv

LEMMA AppendWordRead == TextInv /\ AppendWord => TextInv'
<1> SUFFICES ASSUME TextInv, AppendWord PROVE TextInv'
    OBVIOUS
<1>1. /\ todo # <<>> /\ Head(todo).is = "word"
      /\ text' = Append(text, Head(todo).word) /\ todo' = Tail(todo)
      /\ where' = where /\ pdepth' = pdepth /\ pdepth \in Nat
    BY DEF AppendWord, First, TextInv
<1>2. pdepth' = pdepth + Adds(Head(todo))
    BY <1>1 DEF Adds
<1> QED BY <1>1, <1>2, WrittenRead

LEMMA AppendParenthesisRead == TextInv /\ AppendParenthesis => TextInv'
<1> SUFFICES ASSUME TextInv, AppendParenthesis PROVE TextInv'
    OBVIOUS
<1>1. /\ todo # <<>> /\ Head(todo).is = "parenthesis"
      /\ text' = Append(text, Head(todo).word) /\ todo' = Tail(todo)
      /\ where' = where /\ pdepth' = pdepth + Depth(Head(todo).word)
    BY DEF AppendParenthesis, First
<1>2. pdepth' = pdepth + Adds(Head(todo))
    BY <1>1 DEF Adds
<1> QED BY <1>1, <1>2, WrittenRead

-----------------------------------------------------------------------------
(* What deparse.c has still to write always leads the reader of its text   *)
(* to the conditions it was given, and closes every parenthesis.           *)
THEOREM TextInvariant == TextSpec => []TextInv
<1>1. TextInit => TextInv
    BY InitRead
<1>2. TextInv /\ [TextNext]_textVars => TextInv'
  <2> SUFFICES ASSUME TextInv, [TextNext]_textVars PROVE TextInv'
      OBVIOUS
  <2>1. CASE DeparseWhere
      BY <2>1, DeparseWhereRead
  <2>2. CASE AppendCondition
      BY <2>2, AppendConditionRead
  <2>3. CASE DeparseExpr
      BY <2>3, DeparseExprRead
  <2>4. CASE AppendCharacter
      BY <2>4, AppendCharacterRead
  <2>5. CASE AppendWord
      BY <2>5, AppendWordRead
  <2>6. CASE AppendParenthesis
      BY <2>6, AppendParenthesisRead
  <2>7. CASE UNCHANGED textVars
      BY <2>7 DEF TextInv, Ahead, textVars
  <2> QED BY <2>1, <2>2, <2>3, <2>4, <2>5, <2>6, <2>7 DEF TextNext
<1> QED BY <1>1, <1>2, PTL DEF TextSpec

(* The deparser's state has the form its module declares.                  *)
THEOREM TextTypes == TextSpec => []TextTypeOK
<1>1. TextInv => TextTypeOK
  <2> SUFFICES ASSUME TextInv PROVE TextTypeOK
      OBVIOUS
  <2>1. \A i \in DOMAIN todo : todo[i] \in Items
      BY DEF TextInv
  <2> QED BY <2>1, ItemForms DEF TextInv, TextTypeOK
<1> QED BY <1>1, TextInvariant, PTL

(* remote_sql_check_sanity never finds a parenthesis open, whatever the    *)
(* conditions are.                                                         *)
LEMMA ClosedAtEnd == TextInv => ParenthesesClose
<1> SUFFICES ASSUME TextInv, todo = <<>> PROVE pdepth = 0
    BY DEF ParenthesesClose
<1>1. PICK r : Leads(where, Pair(r, pdepth), todo, Pair(HasRead(where), 0))
    BY Zenon DEF TextInv, Ahead
<1> QED BY <1>1, LeadsNowhere

THEOREM Closes == TextSpec => []ParenthesesClose
    BY ClosedAtEnd, TextInvariant, PTL

(* Whatever conditions and constants deparse.c is given, the finished text *)
(* has one reading, and it is those conditions.                            *)
THEOREM ReadsBack == TextSpec => []TextReadsBack
<1>1. TextInv => TextReadsBack
  <2> SUFFICES ASSUME TextInv, todo = <<>> PROVE After(text) = HasRead(where)
      BY ClosedAtEnd DEF TextReadsBack
  <2>1. PICK r : /\ Reads(text, r)
                 /\ Leads(where, Pair(r, pdepth), todo, Pair(HasRead(where), 0))
      BY Zenon DEF TextInv, Ahead
  <2>2. r = HasRead(where)
      BY <2>1, LeadsNowhere
  <2>3. Len(text) \in Nat
      BY DEF TextInv
  <2> QED BY <2>1, <2>2, <2>3, ReadsAll
<1> QED BY <1>1, TextInvariant, PTL

-----------------------------------------------------------------------------
(***************************************************************************)
(* ZoneText, for any offset.                                               *)
(***************************************************************************)
(* An offset of a seconds is a \div 3600 hours and the rest in minutes.    *)
LEMMA HoursAndMinutes ==
    ASSUME NEW a \in Nat
    PROVE  /\ a \div 3600 \in Nat /\ (a % 3600) \div 60 \in 0 .. 59
           /\ a \div 60 = (a \div 3600) * 60 + (a % 3600) \div 60
           /\ a \div 60 = 0 <=> a < 60
           /\ a \div 3600 = 0 <=> a < 3600
<1>1. /\ a \div 3600 \in Nat /\ a % 3600 \in 0 .. 3599
      /\ a = 3600 * (a \div 3600) + (a % 3600)
    OBVIOUS
<1> QED BY <1>1

(* What is written, by the side of UTC the offset is on.                   *)
Size(tz) == IF tz > 0 THEN tz ELSE -tz
Offset(tz, sign, hours, minutes) ==
    [offset |-> tz, sign |-> sign, hours |-> hours, minutes |-> minutes]

LEMMA Written ==
    ASSUME NEW tz \in Int
    PROVE  /\ Size(tz) \in Nat /\ (tz > 0 => Size(tz) = tz)
           /\ Truncated(-tz, 3600) =
                (IF tz > 0 THEN -(Size(tz) \div 3600) ELSE Size(tz) \div 3600)
           /\ Truncated(-tz, 60) =
                (IF tz > 0 THEN -(Size(tz) \div 60) ELSE Size(tz) \div 60)
           /\ WriteZone(tz) =
                Offset(tz, IF tz > 0 /\ Size(tz) >= 3600 THEN -1 ELSE 1,
                       Size(tz) \div 3600, (Size(tz) % 3600) \div 60)
<1>1. Size(tz) \in Nat /\ (tz > 0 => Size(tz) = tz)
    BY DEF Size
<1>2. /\ Truncated(-tz, 3600) =
            (IF tz > 0 THEN -(Size(tz) \div 3600) ELSE Size(tz) \div 3600)
      /\ Truncated(-tz, 60) =
            (IF tz > 0 THEN -(Size(tz) \div 60) ELSE Size(tz) \div 60)
    BY DEF Truncated, Size
<1> DEFINE hours == Truncated(-tz, 3600)
<1>3. WriteZone(tz) =
        Offset(tz, IF hours < 0 THEN -1 ELSE 1, IF hours < 0 THEN -hours ELSE hours,
               (Size(tz) % 3600) \div 60)
    BY DEF WriteZone, Size, Offset
<1>4. /\ hours < 0 <=> tz > 0 /\ Size(tz) >= 3600
      /\ (IF hours < 0 THEN -hours ELSE hours) = Size(tz) \div 3600
    BY <1>1, <1>2, HoursAndMinutes
<1> HIDE DEF hours
<1> QED BY <1>1, <1>2, <1>3, <1>4

(* A constant's zone, once it is written.                                  *)
ZoneInv == zone = NoZone \/ \E tz \in Offsets : zone = WriteZone(tz)

(* Nothing is ever written of a zone but by deparse_ts_tz_datum.           *)
THEOREM ZoneInvariant == ZoneSpec => []ZoneInv
<1>1. ZoneInit => ZoneInv
    BY DEF ZoneInit, ZoneInv
<1>2. ZoneInv /\ [deparse_ts_tz_datum]_zone => ZoneInv'
    BY DEF ZoneInv, deparse_ts_tz_datum
<1> QED BY <1>1, <1>2, PTL DEF ZoneSpec

(* Hours and minutes are ones Tibero takes, their sign apart from them.    *)
THEOREM ZoneTypes == ZoneSpec => []ZoneTypeOK
<1>1. ZoneInv => ZoneTypeOK
  <2> SUFFICES ASSUME ZoneInv PROVE ZoneTypeOK
      OBVIOUS
  <2>1. CASE zone = NoZone
      BY <2>1 DEF NoZone, ZoneTypeOK
  <2>2. CASE \E tz \in Offsets : zone = WriteZone(tz)
    <3>1. PICK tz \in Int : zone = WriteZone(tz)
        BY <2>2, OffsetsAssumption
    <3> DEFINE a == Size(tz)
    <3>2. /\ a \in Nat
          /\ zone = Offset(tz, IF tz > 0 /\ a >= 3600 THEN -1 ELSE 1, a \div 3600,
                           (a % 3600) \div 60)
        BY <3>1, Written
    <3> HIDE DEF a
    <3> QED BY <3>2, HoursAndMinutes DEF ZoneTypeOK, Offset
  <2> QED BY <2>1, <2>2 DEF ZoneInv
<1> QED BY <1>1, ZoneInvariant, PTL

(* Tibero reads the constant's offset, to the minute, from every offset    *)
(* but those of less than an hour west, and from none of those.            *)
THEOREM OffsetReads == ZoneSpec => []OffsetReadsBack
<1>1. ZoneInv => OffsetReadsBack
  <2> SUFFICES ASSUME ZoneInv PROVE OffsetReadsBack
      OBVIOUS
  <2>1. CASE zone = NoZone
      BY <2>1 DEF NoZone, OffsetReadsBack, Truncated
  <2>2. CASE \E tz \in Offsets : zone = WriteZone(tz)
    <3>1. PICK tz \in Int : zone = WriteZone(tz)
        BY <2>2, OffsetsAssumption
    <3> DEFINE a == Size(tz)
               h == a \div 3600
               m == (a % 3600) \div 60
               q == a \div 60
               east == IF tz > 0 THEN -q ELSE q
               read == zone.sign * (zone.hours * 60 + zone.minutes)
    <3>2. /\ a \in Nat /\ (tz > 0 => a = tz)
          /\ Truncated(-tz, 60) = east
          /\ zone = Offset(tz, IF tz > 0 /\ a >= 3600 THEN -1 ELSE 1, h, m)
        BY <3>1, Written
    <3>3. /\ h \in Nat /\ m \in Nat /\ q = h * 60 + m /\ q \in Nat
          /\ (q = 0 <=> a < 60)
        BY <3>2, HoursAndMinutes
    <3> HIDE DEF a, h, m, q
    <3>4. /\ read = (IF tz > 0 /\ a >= 3600 THEN -q ELSE q)
          /\ zone.offset = tz
        BY <3>2, <3>3 DEF Offset
    <3> HIDE DEF read
    <3>5. read = east <=> ~(60 <= tz /\ tz <= 3599)
      <4>1. CASE tz > 0
        <5>1. a = tz /\ a \in Nat /\ east = -q
            BY <4>1, <3>2
        <5>2. /\ a >= 3600 => read = -q
              /\ a < 3600 => read = q
            BY <4>1, <5>1, <3>4
        <5>3. q \in Nat /\ (q = 0 <=> a < 60)
            BY <3>3
        <5> HIDE DEF east
        <5>4. CASE a >= 3600
            BY <5>1, <5>2, <5>4
        <5>5. CASE a < 3600
          <6>1. read = east <=> q = 0
              BY <5>1, <5>2, <5>3, <5>5
          <6> QED BY <5>1, <5>3, <5>5, <6>1
        <5> QED BY <5>1, <5>4, <5>5
      <4>2. CASE ~(tz > 0)
        <5>1. east = q /\ read = q /\ ~(60 <= tz)
            BY <4>2, <3>4
        <5> HIDE DEF east
        <5> QED BY <5>1
      <4> QED BY <4>1, <4>2
    <3> HIDE DEF east
    <3>6. tz \in 60 .. 3599 <=> 60 <= tz /\ tz <= 3599
        OBVIOUS
    <3>7. zone.offset = tz /\ Truncated(-tz, 60) = east
        BY <3>2, <3>4
    <3>8. Truncated(-zone.offset, 60) = east
        BY <3>7, Zenon
    <3>9. read = Truncated(-zone.offset, 60) <=> zone.offset \notin 60 .. 3599
        BY <3>5, <3>6, <3>7, <3>8
    <3> QED BY <3>9, Zenon DEF OffsetReadsBack, read
  <2> QED BY <2>1, <2>2 DEF ZoneInv
<1> QED BY <1>1, ZoneInvariant, PTL

-----------------------------------------------------------------------------
(***************************************************************************)
(* ColumnBuffers, for any sizes and any number of rows.                    *)
(***************************************************************************)
(* A cell of a described column has room for the longest text of its type, *)
(* for the shorter ones that are tried, and for the terminator.            *)
LEMMA Room ==
    ASSUME NEW kind \in Kinds \ {"other"}, NEW size \in ColumnSizes
    PROVE  /\ get_tb_type_max_str_size(kind, size) \in Nat
           /\ Longest(kind, size) \in Nat
           /\ Longest(kind, size) < get_tb_type_max_str_size(kind, size)
           /\ 1 < get_tb_type_max_str_size(kind, size)
<1> DEFINE max == CASE kind \in {"number", "cursor"} -> 256
                    [] kind = "char" -> Sized(size, 2000)
                    [] kind = "varchar" -> Sized(size, 65535 - 3)
                    [] kind = "raw" -> Sized(size, 2000) * 2
                    [] kind \in {"date", "timestamp"} -> 80
                    [] kind = "time" -> 32
                    [] kind = "year_to_month" -> 15
                    [] kind = "day_to_second" -> 31
                    [] kind = "rowid" -> EROWID_SIZE
<1>1. size \in Nat
    BY BufferConstants
<1>2. /\ Sized(size, 2000) \in Nat \ {0} /\ Sized(size, 65532) \in Nat \ {0}
    BY <1>1 DEF Sized
<1>3. get_tb_type_max_str_size(kind, size) = max + 1
    BY DEF get_tb_type_max_str_size, Terminated
<1>4. max \in Nat \ {0} /\ Longest(kind, size) \in Nat /\ Longest(kind, size) <= max
  <2>1. CASE kind \in {"number", "cursor", "char", "varchar"}
      BY <2>1, <1>2 DEF Longest
  <2>2. CASE kind \in {"raw", "date", "timestamp", "time"}
      BY <2>2, <1>2 DEF Longest
  <2>3. CASE kind \in {"year_to_month", "day_to_second", "rowid"}
      BY <2>3, <1>2 DEF Longest, EROWID_SIZE
  <2> HIDE DEF max
  <2> QED BY <2>1, <2>2, <2>3 DEF Kinds
<1> HIDE DEF max
<1> QED BY <1>3, <1>4

(* The column is as it was described, and no cell lost anything of its     *)
(* row's text.                                                             *)
Described(c) ==
    \E kind \in Kinds \ {"other"}, size \in ColumnSizes :
      c = [kind |-> kind, reported |-> size,
           col_size |-> get_tb_type_max_str_size(kind, size)]

BufferInv ==
    /\ column = Nothing \/ Described(column)
    /\ sent \in [1 .. FetchSize -> Nat] /\ cells = sent

LEMMA FetchKeeps == BufferInv /\ FetchBatch => BufferInv'
<1> SUFFICES ASSUME BufferInv, FetchBatch PROVE BufferInv'
    OBVIOUS
<1>1. /\ column' = column /\ Described(column)
      /\ sent' \in [1 .. FetchSize -> Lengths]
      /\ cells' = [i \in 1 .. FetchSize |->
                     IF sent'[i] < column.col_size THEN sent'[i]
                     ELSE column.col_size - 1]
    BY DEF BufferInv, FetchBatch
<1>2. PICK kind \in Kinds \ {"other"}, size \in ColumnSizes :
        column = [kind |-> kind, reported |-> size,
                  col_size |-> get_tb_type_max_str_size(kind, size)]
    BY <1>1 DEF Described
<1>3. \A n \in Lengths : n \in Nat /\ n < column.col_size
    BY <1>2, Room DEF Lengths
<1>4. sent' \in [1 .. FetchSize -> Nat]
    BY <1>1, <1>3
<1>5. cells' = sent'
    BY <1>1, <1>3
<1> QED BY <1>1, <1>4, <1>5 DEF BufferInv

(* Describing and fetching keep the column's description and the texts.    *)
THEOREM BufferInvariant == BufferSpec => []BufferInv
<1>1. BufferInit => BufferInv
    BY DEF BufferInit, BufferInv, Empty
<1>2. BufferInv /\ [BufferNext]_bufferVars => BufferInv'
  <2> SUFFICES ASSUME BufferInv, [BufferNext]_bufferVars PROVE BufferInv'
      OBVIOUS
  <2>1. CASE DescribeCol
      BY <2>1 DEF DescribeCol, BufferInv, Described
  <2>2. CASE FetchBatch
      BY <2>2, FetchKeeps
  <2>3. CASE UNCHANGED bufferVars
      BY <2>3 DEF BufferInv, Described, bufferVars
  <2> QED BY <2>1, <2>2, <2>3 DEF BufferNext
<1> QED BY <1>1, <1>2, PTL DEF BufferSpec

(* The column and its cells have the form the module declares.             *)
THEOREM BufferTypes == BufferSpec => []BufferTypeOK
<1>1. BufferInv => BufferTypeOK
  <2> SUFFICES ASSUME BufferInv PROVE BufferTypeOK
      OBVIOUS
  <2>1. column.kind \in Kinds /\ column.col_size \in Nat
    <3>1. CASE column = Nothing
        BY <3>1 DEF Nothing, Kinds
    <3>2. CASE Described(column)
        BY <3>2, Room DEF Described
    <3> QED BY <3>1, <3>2 DEF BufferInv
  <2> QED BY <2>1 DEF BufferInv, BufferTypeOK
<1> QED BY <1>1, BufferInvariant, PTL

(* No text is cut off, at any size the driver reports and with any number  *)
(* of rows in a batch.                                                     *)
THEOREM Whole == BufferSpec => []TextsWhole
<1>1. BufferInv => TextsWhole
    BY DEF BufferInv, TextsWhole
<1> QED BY <1>1, BufferInvariant, PTL
=============================================================================

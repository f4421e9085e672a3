----------------------------- MODULE FdwOptions -----------------------------
(***************************************************************************)
(* The options of a server, of a user mapping and of a foreign table: what *)
(* the validator lets into the catalog and what its readers find there.    *)
(*                                                                         *)
(* The readers do not check: connect_tb_server asserts that five options   *)
(* of two objects are there, and the executor sizes its buffers by a       *)
(* number that was parsed without a look at the result.  Everything rests  *)
(* on the validator having seen every list that any sequence of DDL        *)
(* statements leaves behind.                                               *)
(***************************************************************************)
EXTENDS Integers

CONSTANTS
    Values,      \* the words used as values
    Tried,       \* bound: the values tried for each keyword
    parse_int,   \* what parse_int reads: a function of the words it accepts
    parse_bool   \* the same for defGetBoolean

MaxFetchSize == 2147483647   \* TB_FDW_MAX_FETCH_SIZE
DefaultFetchSize == 100      \* DEFAULT_FDW_FETCH_SIZE

Objects == {"server", "mapping", "table", "column"}

(* The keywords of each object, and those that are required.               *)
registered ==
    [server |-> {"host", "port", "dbname", "fetch_size", "use_sleep_on_sig",
                 "use_fb_query", "keep_connections", "updatable"},
     mapping |-> {"username", "password", "password_required"},
     table |-> {"owner_name", "table_name", "fetch_size", "use_fb_query",
                "updatable"},
     column |-> {"column_name"}]

required ==
    [server |-> {"host", "port", "dbname"},
     mapping |-> {"username", "password"},
     table |-> {"table_name"},
     column |-> {}]

Booleans == {"use_sleep_on_sig", "use_fb_query", "keep_connections",
             "updatable", "password_required"}

Keywords == UNION {registered[o] : o \in Objects}

ASSUME OptionConstants ==
    /\ Keywords \subseteq DOMAIN Tried
    /\ \A k \in DOMAIN Tried : Tried[k] \subseteq Values
    /\ DOMAIN parse_int \subseteq Values
    /\ \A v \in DOMAIN parse_int : parse_int[v] \in Int
    /\ DOMAIN parse_bool \subseteq Values
    /\ \A v \in DOMAIN parse_bool : parse_bool[v] \in BOOLEAN

VARIABLE options  \* of each object that exists: a function of its keywords

-----------------------------------------------------------------------------
(* The validate functions.                                                 *)

\* Mutant: zero is let through.
validate_fetch_size_Zero(v) ==
    v \in DOMAIN parse_int /\ parse_int[v] >= 0 /\ parse_int[v] < MaxFetchSize
validate_fetch_size(v) ==
    v \in DOMAIN parse_int /\ parse_int[v] > 0 /\ parse_int[v] < MaxFetchSize

validate(keyword, v) ==
    /\ v # ""
    /\ keyword = "fetch_size" => validate_fetch_size(v)
    /\ keyword \in Booleans => v \in DOMAIN parse_bool

(* validate_options; the list of an object is given in any order, and      *)
(* without duplicates, which the server refuses by itself.                 *)
\* Mutant: required options are asked for only when something is given.
validate_options_Given(o, list) ==
    /\ DOMAIN list \subseteq registered[o]
    /\ \A k \in DOMAIN list : validate(k, list[k])
    /\ DOMAIN list # {} => required[o] \subseteq DOMAIN list
validate_options(o, list) ==
    /\ DOMAIN list \subseteq registered[o]
    /\ \A k \in DOMAIN list : validate(k, list[k])
    /\ required[o] \subseteq DOMAIN list

-----------------------------------------------------------------------------
(* DDL.  The validator is given the list a statement results in.           *)

OptionInit == options = [o \in {} |-> {}]

Store(o, list) ==
    /\ validate_options(o, list)
    /\ options' = [p \in DOMAIN options \union {o} |->
                     IF p = o THEN list ELSE options[p]]

(* A mapping and a table belong to a server, a column to a table.          *)
owner == [mapping |-> "server", table |-> "server", column |-> "table"]

(* Other options are added by ALTER, so CREATE is given required ones      *)
(* only, or some of them.                                                  *)
CreateObject(o) ==
    /\ o \notin DOMAIN options
    /\ o # "server" => owner[o] \in DOMAIN options
    /\ \E given \in SUBSET required[o] :
         \E list \in [given -> Tried["host"]] : Store(o, list)

(* ALTER ... OPTIONS (ADD k v) or (SET k v).                               *)
PutOption(o, k, v) ==
    /\ o \in DOMAIN options
    /\ Store(o, [x \in DOMAIN options[o] \union {k} |->
                   IF x = k THEN v ELSE options[o][x]])

(* ALTER ... OPTIONS (DROP k).                                             *)
RemoveOption(o, k) ==
    /\ o \in DOMAIN options
    /\ k \in DOMAIN options[o]
    /\ Store(o, [x \in DOMAIN options[o] \ {k} |-> options[o][x]])

(* DROP, with all that belongs to the object.                              *)
Dropped(o) ==
    CASE o = "server" -> Objects [] o = "table" -> {"table", "column"}
      [] OTHER -> {o}

DropObject(o) ==
    /\ o \in DOMAIN options
    /\ options' = [p \in DOMAIN options \ Dropped(o) |-> options[p]]

OptionNext ==
    \E o \in Objects :
        \/ CreateObject(o) \/ DropObject(o)
        \/ \E k \in Keywords : RemoveOption(o, k) \/ \E v \in Tried[k] : PutOption(o, k, v)

OptionSpec == OptionInit /\ [][OptionNext]_options

-----------------------------------------------------------------------------
(* The readers.                                                            *)

(* The last of a server's and a table's value, or the default.             *)
Override(keyword, parse, default) ==
    IF keyword \in DOMAIN options["table"]
    THEN parse[options["table"][keyword]]
    ELSE IF keyword \in DOMAIN options["server"]
    THEN parse[options["server"][keyword]]
    ELSE default

(* apply_server_options and apply_table_options; use_fb_query is read from *)
(* the server only, although a table may have it.                          *)
applied ==
    [fetch_size |-> Override("fetch_size", parse_int, DefaultFetchSize),
     updatable |-> Override("updatable", parse_bool, FALSE),
     use_fb_query |-> IF "use_fb_query" \in DOMAIN options["server"]
                      THEN parse_bool[options["server"]["use_fb_query"]]
                      ELSE FALSE]

(* tiberoIsForeignRelUpdatable: the operations, CMD_INSERT or none.        *)
IsForeignRelUpdatable ==
    IF Override("updatable", parse_bool, FALSE) THEN {"insert"} ELSE {}

(* The arguments of connect_tb_server that make_tb_connection does not     *)
(* find, each in the object it looks at.                                   *)
MissingArguments ==
    ({"host", "port", "dbname"} \ DOMAIN options["server"])
    \union ({"username", "password"} \ DOMAIN options["mapping"])

-----------------------------------------------------------------------------
(* Properties.                                                             *)

OptionTypeOK ==
    /\ DOMAIN options \subseteq Objects
    /\ \A o \in DOMAIN options :
         /\ DOMAIN options[o] \subseteq Keywords
         /\ \A k \in DOMAIN options[o] : options[o][k] \in Values

(* Whatever was created, altered and dropped in whatever order: when a     *)
(* server and a mapping are there, no argument of a connection is missing  *)
(* and none is empty, as connect_tb_server asserts.                        *)
ConnectArgumentsGiven ==
    {"server", "mapping"} \subseteq DOMAIN options =>
        /\ MissingArguments = {}
        /\ \A k \in required["server"] : options["server"][k] # ""
        /\ \A k \in required["mapping"] : options["mapping"][k] # ""

(* What the planner reads is usable without another look: a number of rows *)
(* above 0 for the arrays of a batch, and words that defGetBoolean takes,  *)
(* with the table's word before the server's wherever each came from.      *)
AppliedUsable ==
    {"server", "table"} \subseteq DOMAIN options =>
        /\ applied.fetch_size \in 1 .. MaxFetchSize - 1
        /\ applied.updatable \in BOOLEAN
        /\ applied.use_fb_query \in BOOLEAN
        /\ (IsForeignRelUpdatable = {"insert"}) = applied.updatable
=============================================================================

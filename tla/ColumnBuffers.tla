---------------------------- MODULE ColumnBuffers ----------------------------
(***************************************************************************)
(* The buffers a scan gives to the driver: one for each result column, cut *)
(* in as many cells as rows are fetched at once, every cell as large as    *)
(* the longest text of the column's type (src/connection.c).  The driver   *)
(* cuts off a text that does not fit and reports success.                  *)
(***************************************************************************)
EXTENDS Naturals

CONSTANTS
    ColumnSizes,  \* the column sizes the driver may report
    FetchSize     \* rows of a batch

ASSUME BufferConstants == ColumnSizes \subseteq Nat /\ FetchSize \in Nat \ {0}

(* The type codes, by the case of the switch they share.                   *)
Kinds == {"number", "char", "varchar", "raw", "date", "time", "timestamp",
          "year_to_month", "day_to_second", "rowid", "cursor", "other"}

EROWID_SIZE == 6 + 3 + 6 + 3

VARIABLES
    column,  \* the TbColumn: what was described, and the size of its cells
    cells,   \* bytes of the text in each cell, its terminator not counted
    sent     \* bytes of the text of each row of the batch

bufferVars == <<column, cells, sent>>

-----------------------------------------------------------------------------
\* Mutant: no room for the terminator.
Terminated_Not(size) == size
Terminated(size) == size + 1

Sized(col_size, default) == IF col_size > 0 THEN col_size ELSE default

(* get_tb_type_max_str_size, which has no size for large objects.          *)
get_tb_type_max_str_size(kind, col_size) ==
    Terminated(CASE kind \in {"number", "cursor"} -> 256
                 [] kind = "char" -> Sized(col_size, 2000)
                 [] kind = "varchar" -> Sized(col_size, 65535 - 3)
                 [] kind = "raw" -> Sized(col_size, 2000) * 2
                 [] kind \in {"date", "timestamp"} -> 80
                 [] kind = "time" -> 32
                 [] kind = "year_to_month" -> 15
                 [] kind = "day_to_second" -> 31
                 [] kind = "rowid" -> EROWID_SIZE)

(* The longest text of a value, which is an assumption about the driver:   *)
(* of a character type the size it reports, in bytes; two digits for each  *)
(* byte of a RAW; an interval as in the comments on the constants; a date  *)
(* as long as the NLS formats may be; a number of 130 places and a sign    *)
(* with an exponent or the zeros it stands for.                            *)
Longest(kind, col_size) ==
    CASE kind = "number" -> 172
      [] kind = "cursor" -> 20
      [] kind = "char" -> Sized(col_size, 2000)
      [] kind = "varchar" -> Sized(col_size, 65532)
      [] kind = "raw" -> 2 * Sized(col_size, 2000)
      [] kind \in {"date", "timestamp"} -> 80
      [] kind = "time" -> 18
      [] kind = "year_to_month" -> 13
      [] kind = "day_to_second" -> 29
      [] kind = "rowid" -> 18

(* The sizes of texts that are tried: none, one byte, and the longest.     *)
Lengths == {0, 1, Longest(column.kind, column.reported)}

Nothing == [kind |-> "other", reported |-> 0, col_size |-> 0]
Empty == [i \in 1 .. FetchSize |-> 0]

BufferTypeOK ==
    /\ column.kind \in Kinds /\ column.col_size \in Nat
    /\ cells \in [1 .. FetchSize -> Nat] /\ sent \in [1 .. FetchSize -> Nat]

BufferInit == column = Nothing /\ cells = Empty /\ sent = Empty

(* TbSQLDescribeCol; for another kind it drops the session and fails.      *)
DescribeCol ==
    /\ column = Nothing
    /\ \E kind \in Kinds \ {"other"}, size \in ColumnSizes :
         column' = [kind |-> kind, reported |-> size,
                    col_size |-> get_tb_type_max_str_size(kind, size)]
    /\ UNCHANGED <<cells, sent>>

(* The driver writes the text of row i at i times the length it was bound  *)
(* with, and reads and writes no other cell.                               *)
FetchBatch ==
    /\ column # Nothing
    /\ sent' \in [1 .. FetchSize -> Lengths]
    /\ cells' = [i \in 1 .. FetchSize |->
                   IF sent'[i] < column.col_size THEN sent'[i]
                   ELSE column.col_size - 1]
    /\ UNCHANGED column

BufferNext == DescribeCol \/ FetchBatch

BufferSpec == BufferInit /\ [][BufferNext]_bufferVars

-----------------------------------------------------------------------------
(* No text is cut off without a word: each cell has room for the longest   *)
(* one of its type and the terminator, at every size the driver reports.   *)
TextsWhole == cells = sent
=============================================================================

------------------------------ MODULE ZoneText ------------------------------
(***************************************************************************)
(* The time zone offset that deparse_ts_tz_datum writes with a timestamp   *)
(* constant, hours with their sign and minutes without one, and what       *)
(* Tibero makes of it.                                                     *)
(***************************************************************************)
EXTENDS Integers

CONSTANT Offsets  \* the time zone offsets tried, in seconds west of UTC

ASSUME OffsetsAssumption == Offsets \subseteq Int

VARIABLE zone  \* the offset of a constant, and what is written of it

NoZone == [offset |-> 0, sign |-> 1, hours |-> 0, minutes |-> 0]

ZoneTypeOK ==
    zone \in [offset : Int, sign : {-1, 1}, hours : Nat, minutes : 0 .. 59]

ZoneInit == zone = NoZone

-----------------------------------------------------------------------------
(* C division rounds towards zero, and the sign is that of the hours.      *)
Truncated(a, b) == IF a < 0 THEN -((-a) \div b) ELSE a \div b

\* Mutant: the hours are rounded down.
WriteZone_Floor(tz) ==
    LET hours == (-tz) \div 3600
    IN [offset |-> tz, sign |-> IF hours < 0 THEN -1 ELSE 1,
        hours |-> IF hours < 0 THEN -hours ELSE hours,
        minutes |-> ((IF tz > 0 THEN tz ELSE -tz) % 3600) \div 60]
WriteZone(tz) ==
    LET hours == Truncated(-tz, 3600)
    IN [offset |-> tz, sign |-> IF hours < 0 THEN -1 ELSE 1,
        hours |-> IF hours < 0 THEN -hours ELSE hours,
        minutes |-> ((IF tz > 0 THEN tz ELSE -tz) % 3600) \div 60]

deparse_ts_tz_datum ==
    /\ zone = NoZone
    /\ \E tz \in Offsets : zone' = WriteZone(tz)

ZoneSpec == ZoneInit /\ [][deparse_ts_tz_datum]_zone

-----------------------------------------------------------------------------
(* The offset Tibero reads, in minutes east, is the constant's own, except *)
(* for offsets of less than an hour west, whose sign is lost.              *)
OffsetReadsBack ==
    (zone.sign * (zone.hours * 60 + zone.minutes) = Truncated(-zone.offset, 60))
    <=> (zone.offset \notin 60 .. 3599)
=============================================================================

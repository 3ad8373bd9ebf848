------------------------------ MODULE CivilTime ------------------------------
(***************************************************************************)
(* ISO 8601 instants (hlm_parse_iso8601 in core/hlm_json.c).  A text is    *)
(* the record of its fields as read_digits finds them; an instant is the   *)
(* pair of days since 1970 and seconds in (or out of) that day, whose sum  *)
(* the code returns in 64 bits.                                            *)
(***************************************************************************)
EXTENDS Integers

\* Days from 1 March of year 0 to 1 January 1970.
EpochDays == 719468

NoInstant == <<>>

\* Counted from 1 March of year 0 in eras of 400 years.
DaysFromCivil(year, m, d) ==
    LET y   == IF m <= 2 THEN year - 1 ELSE year
        era == y \div 400
        yoe == y - era * 400
        doy == (153 * (m + (IF m > 2 THEN -3 ELSE 9)) + 2) \div 5 + d - 1
        doe == yoe * 365 + yoe \div 4 - yoe \div 100 + doy
    IN era * 146097 + doe - EpochDays

FieldsInRange(t) == /\ t.mon \in 1..12 /\ t.day \in 1..31
                    /\ t.hour <= 23 /\ t.min <= 59 /\ t.sec <= 60

\* t.zone is the signed offset; a fraction of a second is skipped, and anything left over refused.
ParseIso(t) ==
    IF t.rest \/ ~ FieldsInRange(t) THEN NoInstant
    ELSE <<DaysFromCivil(t.year, t.mon, t.day),
           t.hour * 3600 + t.min * 60 + t.sec - (t.zone.hours * 3600 + t.zone.minutes * 60)>>
=============================================================================

------------------------------ MODULE TaskDates ------------------------------
(***************************************************************************)
(* Due dates (packages/types/src/utils/datetime.ts).  Instants are whole   *)
(* hours since an epoch at midnight UTC, days their quotients by 24.  A    *)
(* zone keeps the offset `before' until the instant `change' and the       *)
(* offset `after' from then on.                                            *)
(***************************************************************************)
EXTENDS Integers

CONSTANT NoZone     \* a variable that is not set

HoursInDay == 24

OffsetAt(zone, instant) == IF instant < zone.change THEN zone.before ELSE zone.after

LocalDay(instant, zone) == (instant + OffsetAt(zone, instant)) \div HoursInDay

UtcDay(instant) == instant \div HoursInDay

UTC == [before |-> 0, after |-> 0, change |-> 0]

BrowserTimezone(intl) == intl

(* The variable TASKS_TIMEZONE, else the zone of the process, else UTC.    *)
DefaultTimezone(env, intl) ==
    IF env # NoZone THEN env ELSE IF intl # NoZone THEN intl ELSE UTC

ResolveTaskTimezone(preferred, env, intl) ==
    IF preferred # NoZone THEN preferred
    ELSE IF BrowserTimezone(intl) # NoZone THEN BrowserTimezone(intl)
         ELSE DefaultTimezone(env, intl)

(* The offset of a day is looked up at its midnight in UTC.                *)
DayOffset(day, zone) == OffsetAt(zone, HoursInDay * day)

(* A mutant: the offset has the wrong sign.                                *)
ParseDateEastward(day, zone) == HoursInDay * day + DayOffset(day, zone)

ParseDate(day, zone) == HoursInDay * day - DayOffset(day, zone)

(* A mutant: the range is the rest of the day after its first hour.        *)
DayRangeExclusive(day, zone) ==
    LET start == ParseDate(day, zone) IN [start |-> start + 1, end |-> start + HoursInDay]

DayRange(day, zone) ==
    LET start == ParseDate(day, zone) IN [start |-> start, end |-> start + HoursInDay]

=============================================================================

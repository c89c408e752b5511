------------------------------ MODULE TaskForm ------------------------------
(***************************************************************************)
(* The due date of one task between the form of TaskModal, which shows and *)
(* sends days, the row, which keeps an instant, and the filter of the list *)
(* of tasks, which tasks-service turns into a range of instants.           *)
(***************************************************************************)
EXTENDS TaskDates

CONSTANTS
    Day,         \* the days a user can pick
    Zone,        \* the time zones in use
    NoDate,      \* no due date
    Closed,      \* the form is not open
    MaxRepeats   \* bound on the saves that leave the day as it is

(* A zone moves its clocks by two hours at most.                           *)
ASSUME ZoneAssumption ==
    /\ Zone \subseteq [before : -12..14, after : -12..14, change : Int]
    /\ \A z \in Zone : z.before - z.after \in -2..2

ASSUME FormAssumption == Day \subseteq Int /\ NoDate \notin Int /\ MaxRepeats \in Nat

VARIABLES
    browserZone,   \* resolveTaskTimezone() in the browser
    taskTimezone,  \* TasksService.taskTimezone
    due,           \* the dueDate of the row
    form,          \* the dueDate field of the open form
    chosen,        \* ghost: the day the user last picked
    repeats        \* ghost: the saves since then that did not touch it

formVars == <<browserZone, taskTimezone, due, form, chosen, repeats>>

FormTypeOK ==
    /\ browserZone \in Zone \cup {UTC}
    /\ taskTimezone \in Zone \cup {UTC}
    /\ due \in Int \cup {NoDate}
    /\ form \in [day : Int \cup {NoDate}, touched : BOOLEAN] \cup {Closed}
    /\ chosen \in Day \cup {NoDate}
    /\ repeats \in 0..MaxRepeats

FormInit ==
    /\ \E intl \in Zone \cup {NoZone} :
           browserZone = ResolveTaskTimezone(NoZone, NoZone, intl)
    /\ \E env, intl \in Zone \cup {NoZone} : taskTimezone = DefaultTimezone(env, intl)
    /\ due = NoDate /\ form = Closed /\ chosen = NoDate /\ repeats = 0

-----------------------------------------------------------------------------
(* formatTaskToFormValues: the first ten characters of the ISO string.     *)
FormValues(instant) ==
    [day |-> IF instant = NoDate THEN NoDate ELSE UtcDay(instant), touched |-> FALSE]

(* normalizeFormValues                                                     *)
Normalized(day) == IF day = NoDate THEN NoDate ELSE ParseDate(day, browserZone)

OpenForm ==
    /\ form = Closed /\ form' = FormValues(due)
    /\ UNCHANGED <<browserZone, taskTimezone, due, chosen, repeats>>

(* The task changed while the form was open: what was typed is gone.       *)
ResetForm ==
    /\ form # Closed /\ form' = FormValues(due)
    /\ UNCHANGED <<browserZone, taskTimezone, due, chosen, repeats>>

PickDay(day) ==
    /\ form # Closed /\ form' = [day |-> day, touched |-> TRUE]
    /\ UNCHANGED <<browserZone, taskTimezone, due, chosen, repeats>>

(* The mutation succeeds: the row keeps the instant, the form closes.      *)
SubmitForm ==
    /\ form # Closed
    /\ due' = Normalized(form.day)
    /\ \/ form.touched /\ chosen' = form.day /\ repeats' = 0
       \/ /\ ~form.touched /\ UNCHANGED chosen
          /\ repeats < MaxRepeats /\ repeats' = repeats + 1
    /\ form' = Closed
    /\ UNCHANGED <<browserZone, taskTimezone>>

CloseForm ==
    /\ form # Closed /\ form' = Closed
    /\ UNCHANGED <<browserZone, taskTimezone, due, chosen, repeats>>

FormNext ==
    \/ OpenForm \/ ResetForm \/ SubmitForm \/ CloseForm
    \/ \E day \in Day \cup {NoDate} : PickDay(day)
-----------------------------------------------------------------------------
(* The offset that was looked up holds at the start of the day too.        *)
Steady(day, zone) == OffsetAt(zone, ParseDate(day, zone)) = DayOffset(day, zone)

(* The day n saves leave of the one that was picked.  The form cuts it     *)
(* from the string in UTC, so a save moves it a day back while the clocks  *)
(* of the day are ahead of UTC, and never again from a day when they are   *)
(* not.                                                                    *)
LeftAfter(n, picked, zone) ==
    CHOOSE day \in picked - n .. picked :
        /\ day = picked - n \/ DayOffset(day, zone) <= 0
        /\ \A later \in day + 1 .. picked : DayOffset(later, zone) > 0

DayLeft == LeftAfter(repeats, chosen, browserZone)

(* The day the pages show for a task is the day its user picked, less one  *)
(* for every later save while its clocks are ahead of UTC, unless the zone *)
(* changes its offset between that day's start and midnight in UTC         *)
(* (TaskModal.tsx:66).                                                     *)
DueDateDrift ==
    due # NoDate /\ Steady(DayLeft, browserZone) => LocalDay(due, browserZone) = DayLeft

(* No clock is moved on the day, nor in the two hours on either side.      *)
Whole(day, zone) ==
    \A h \in -2..HoursInDay + 2 :
        OffsetAt(zone, ParseDate(day, zone) + h) = DayOffset(day, zone)

(* How far the clocks of tasks-service are ahead of the browser's.         *)
Ahead(day) == DayOffset(day, taskTimezone) - DayOffset(day, browserZone)

(* The row matches the filter by a day.                                    *)
Found(day) ==
    LET range == DayRange(day, taskTimezone) IN range.start <= due /\ due < range.end

(* The hours the clocks are moved by, before and after an instant.         *)
Around(instant, zone) ==
    LET moved == IF zone.before < zone.after THEN zone.after - zone.before
                 ELSE zone.before - zone.after
    IN  instant - moved .. instant + moved - 1

(* The filter by a day finds the tasks due on that day where tasks-service *)
(* runs, if the day has 24 hours there; where a clock is moved, it is      *)
(* wrong about the hours the clock is moved by at the start and the end of *)
(* its range, and about no other.  So the day the user picked finds the    *)
(* task only where the clocks of tasks-service are ahead of the browser's, *)
(* by less than a day (datetime.ts:159).                                   *)
DayFilterExact ==
    due # NoDate =>
        /\ \A day \in Day :
               LET range == DayRange(day, taskTimezone)
               IN  \/ Found(day) <=> LocalDay(due, taskTimezone) = day
                  \/ /\ ~Whole(day, taskTimezone)
                     /\ \E edge \in {range.start, range.end} : due \in Around(edge, taskTimezone)
        /\ Found(DayLeft) <=> Ahead(DayLeft) \in 0..HoursInDay - 1
=============================================================================

--------------------------- MODULE WebClientProofs ---------------------------
(***************************************************************************)
(* TLAPS proofs about WebClient, one part of the browser after the other:  *)
(* whatever the tasks, pages, zones, rows, losses and failures, the due    *)
(* date, the tasks in the cache, the paged lists and the bell show what    *)
(* their properties promise.                                               *)
(***************************************************************************)
EXTENDS WebClient, FiniteSetTheorems, TLAPS

-----------------------------------------------------------------------------
(* The due date.                                                           *)

(* A day that n saves may leave of the one that was picked.                *)
MayBeLeft(day, n, picked, zone) ==
    /\ day \in picked - n .. picked
    /\ day = picked - n \/ DayOffset(day, zone) <= 0
    /\ \A later \in day + 1 .. picked : DayOffset(later, zone) > 0

(* The row has the start of the day that DayLeft tells in the browser's    *)
(* zone, and a form nobody touched shows what FormValues made of the row.  *)
FormInv ==
    /\ FormTypeOK
    /\ due = NoDate <=> chosen = NoDate
    /\ due # NoDate => /\ due = ParseDate(DayLeft, browserZone)
                       /\ MayBeLeft(DayLeft, repeats, chosen, browserZone)
    /\ form # Closed => IF form.touched THEN form.day \in Day \cup {NoDate}
                        ELSE form.day = FormValues(due).day

LEMMA ZoneFacts ==
    ASSUME NEW zone \in Zone \cup {UTC}
    PROVE  /\ zone.before \in -12..14 /\ zone.after \in -12..14 /\ zone.change \in Int
           /\ zone.before - zone.after \in -2..2
    BY ZoneAssumption DEF UTC

LEMMA OffsetFacts ==
    ASSUME NEW zone \in Zone \cup {UTC}, NEW instant \in Int
    PROVE  OffsetAt(zone, instant) \in -12..14
    BY ZoneFacts DEF OffsetAt

LEMMA ParseFacts ==
    ASSUME NEW zone \in Zone \cup {UTC}, NEW day \in Int
    PROVE  /\ DayOffset(day, zone) \in -12..14 /\ DayOffset(day, zone) \in Int
           /\ ParseDate(day, zone) = 24 * day - DayOffset(day, zone)
           /\ ParseDate(day, zone) \in Int
    BY OffsetFacts DEF DayOffset, ParseDate, HoursInDay

(* With clocks ahead of UTC the form shows the day before the saved one.   *)
LEMMA ShownDay ==
    ASSUME NEW zone \in Zone \cup {UTC}, NEW day \in Int
    PROVE  UtcDay(ParseDate(day, zone)) = IF DayOffset(day, zone) > 0 THEN day - 1 ELSE day
<1> DEFINE offset == DayOffset(day, zone)
<1>1. offset \in -12..14
    BY ParseFacts
<1>2. UtcDay(ParseDate(day, zone)) = (24 * day - offset) \div 24
    BY ParseFacts DEF UtcDay, HoursInDay
<1> HIDE DEF offset
<1>3. (24 * day - offset) \div 24 = IF offset > 0 THEN day - 1 ELSE day
    BY <1>1
<1>4. QED BY <1>2, <1>3 DEF offset

(* There is one day that n saves may leave, and LeftAfter tells it.        *)
LEMMA OneIsLeft ==
    ASSUME NEW zone \in Zone \cup {UTC}, NEW picked \in Int, NEW n \in Nat, NEW day,
           MayBeLeft(day, n, picked, zone)
    PROVE  LeftAfter(n, picked, zone) = day
<1>1. \A d \in Int : DayOffset(d, zone) \in Int
    BY ParseFacts
<1>2. \A d, e \in picked - n .. picked :
          MayBeLeft(d, n, picked, zone) /\ MayBeLeft(e, n, picked, zone) => ~(d < e)
    BY <1>1 DEF MayBeLeft
<1>3. LeftAfter(n, picked, zone)
          = CHOOSE d \in picked - n .. picked : MayBeLeft(d, n, picked, zone)
    BY DEF LeftAfter, MayBeLeft
<1>4. day \in picked - n .. picked
    BY DEF MayBeLeft
<1> DEFINE left == CHOOSE d \in picked - n .. picked : MayBeLeft(d, n, picked, zone)
<1>5. left \in picked - n .. picked /\ MayBeLeft(left, n, picked, zone)
    BY <1>4
<1> HIDE DEF left
<1>6. ~(day < left) /\ ~(left < day)
    BY <1>2, <1>4, <1>5
<1>7. left = day
    BY <1>4, <1>5, <1>6
<1>8. QED BY <1>3, <1>7 DEF left

LEMMA PickedIsLeft ==
    ASSUME NEW zone \in Zone \cup {UTC}, NEW picked \in Int
    PROVE  MayBeLeft(picked, 0, picked, zone) /\ LeftAfter(0, picked, zone) = picked
<1>1. MayBeLeft(picked, 0, picked, zone)
    BY DEF MayBeLeft
<1>2. QED BY <1>1, OneIsLeft

(* One more save moves the day back while its clocks are ahead of UTC.     *)
LEMMA NextIsLeft ==
    ASSUME NEW zone \in Zone \cup {UTC}, NEW picked \in Int, NEW n \in Nat, NEW day \in Int,
           MayBeLeft(day, n, picked, zone)
    PROVE  LET next == IF DayOffset(day, zone) > 0 THEN day - 1 ELSE day
           IN  MayBeLeft(next, n + 1, picked, zone) /\ LeftAfter(n + 1, picked, zone) = next
<1> DEFINE next == IF DayOffset(day, zone) > 0 THEN day - 1 ELSE day
<1>1. \A d \in Int : DayOffset(d, zone) \in Int
    BY ParseFacts
<1>2. MayBeLeft(next, n + 1, picked, zone)
  <2>1. CASE DayOffset(day, zone) > 0
    <3>1. next = day - 1 /\ day = picked - n
        BY <1>1, <2>1 DEF MayBeLeft
    <3>2. \A later \in next + 1 .. picked : DayOffset(later, zone) > 0
        BY <2>1, <3>1 DEF MayBeLeft
    <3>3. QED BY <3>1, <3>2 DEF MayBeLeft
  <2>2. CASE ~(DayOffset(day, zone) > 0)
    <3>1. next = day /\ DayOffset(next, zone) <= 0
        BY <1>1, <2>2
    <3>2. QED BY <3>1 DEF MayBeLeft
  <2>3. QED BY <2>1, <2>2
<1>3. LeftAfter(n + 1, picked, zone) = next
  <2> HIDE DEF next
  <2> QED BY <1>2, OneIsLeft
<1>4. QED BY <1>2, <1>3 DEF next

LEMMA DayLeftFacts ==
    ASSUME FormInv, due # NoDate
    PROVE  /\ due \in Int /\ chosen \in Int /\ repeats \in Nat /\ DayLeft \in Int
           /\ browserZone \in Zone \cup {UTC}
<1>1. due \in Int /\ chosen \in Int /\ repeats \in Nat /\ browserZone \in Zone \cup {UTC}
    BY FormAssumption DEF FormInv, FormTypeOK
<1>2. QED BY <1>1 DEF FormInv, MayBeLeft

LEMMA FormStarts ==
    ASSUME FormInit
    PROVE  FormInv
<1>1. browserZone \in Zone \cup {UTC} /\ taskTimezone \in Zone \cup {UTC}
    BY DEF FormInit, ResolveTaskTimezone, BrowserTimezone, DefaultTimezone
<1>2. QED BY <1>1, FormAssumption DEF FormInit, FormInv, FormTypeOK

LEMMA FormKept ==
    ASSUME FormInv, FormNext
    PROVE  FormInv'
<1> USE FormAssumption DEF FormInv, FormTypeOK
<1>0. UNCHANGED <<browserZone, taskTimezone>>
    BY DEF FormNext, OpenForm, ResetForm, PickDay, SubmitForm, CloseForm
<1>1. due # NoDate => UtcDay(due) \in Int /\ UtcDay(due) = UtcDay(ParseDate(DayLeft, browserZone))
    BY DayLeftFacts, ParseFacts DEF UtcDay, HoursInDay
<1>2. FormValues(due) \in [day : Int \cup {NoDate}, touched : BOOLEAN]
      /\ ~FormValues(due).touched
    BY <1>1 DEF FormValues
<1>3. ASSUME form' = FormValues(due), UNCHANGED <<due, chosen, repeats>>
      PROVE  FormInv'
    BY <1>0, <1>2, <1>3 DEF DayLeft, FormValues
<1>4. CASE OpenForm \/ ResetForm
    BY <1>3, <1>4 DEF OpenForm, ResetForm
<1>5. CASE CloseForm
    BY <1>0, <1>5 DEF CloseForm, DayLeft
<1>6. ASSUME NEW day \in Day \cup {NoDate}, PickDay(day)
      PROVE  FormInv'
    BY <1>0, <1>6 DEF PickDay, DayLeft
<1>7. ASSUME SubmitForm, form.touched, chosen' = form.day, repeats' = 0
      PROVE  FormInv'
  <2>1. form # Closed /\ form.day \in Day \cup {NoDate} /\ form' = Closed
        /\ due' = Normalized(form.day)
      BY <1>7 DEF SubmitForm
  <2>2. CASE form.day = NoDate
      BY <1>0, <1>7, <2>1, <2>2 DEF Normalized
  <2>3. CASE form.day \in Day
    <3>1. due' = ParseDate(form.day, browserZone) /\ due' \in Int
        BY <2>1, <2>3, ParseFacts DEF Normalized
    <3>2. DayLeft' = form.day /\ MayBeLeft(DayLeft, repeats, chosen, browserZone)'
        BY <1>0, <1>7, <2>3, PickedIsLeft DEF DayLeft
    <3>3. QED BY <1>0, <1>7, <2>1, <2>3, <3>1, <3>2
  <2>4. QED BY <2>1, <2>2, <2>3
<1>8. ASSUME SubmitForm, ~form.touched, UNCHANGED chosen, repeats' = repeats + 1
      PROVE  FormInv'
  <2>1. form # Closed /\ form.day = FormValues(due).day /\ form' = Closed
        /\ due' = Normalized(form.day) /\ repeats' \in 0..MaxRepeats
      BY <1>8 DEF SubmitForm
  <2>2. CASE due = NoDate
      BY <1>0, <1>8, <2>1, <2>2 DEF Normalized, FormValues
  <2>3. CASE due # NoDate
    <3>1. chosen \in Int /\ DayLeft \in Int /\ repeats \in Nat
        BY <2>3, DayLeftFacts
    <3>2. form.day = IF DayOffset(DayLeft, browserZone) > 0 THEN DayLeft - 1 ELSE DayLeft
        BY <1>1, <2>1, <2>3, <3>1, ShownDay DEF FormValues
    <3>3. form.day \in Int /\ browserZone \in Zone \cup {UTC}
        BY <3>1, <3>2, DayLeftFacts, <2>3
    <3>4. MayBeLeft(DayLeft, repeats, chosen, browserZone)
        BY <2>3
    <3>5. /\ MayBeLeft(form.day, repeats + 1, chosen, browserZone)
          /\ LeftAfter(repeats + 1, chosen, browserZone) = form.day
        BY <3>1, <3>2, <3>3, <3>4, NextIsLeft
    <3>6. DayLeft' = form.day
        BY <1>0, <1>8, <3>5 DEF DayLeft
    <3>7. MayBeLeft(DayLeft, repeats, chosen, browserZone)'
        BY <1>0, <1>8, <3>5, <3>6
    <3>8. due' = ParseDate(DayLeft, browserZone)' /\ due' \in Int
        BY <1>0, <2>1, <3>3, <3>6, ParseFacts DEF Normalized
    <3>9. QED BY <1>0, <1>8, <2>1, <2>3, <3>7, <3>8
  <2>4. QED BY <2>2, <2>3
<1>9. QED BY <1>4, <1>5, <1>6, <1>7, <1>8 DEF FormNext, SubmitForm

LEMMA DriftKnown ==
    ASSUME FormInv
    PROVE  DueDateDrift
<1> SUFFICES ASSUME due # NoDate, Steady(DayLeft, browserZone)
             PROVE  LocalDay(due, browserZone) = DayLeft
    BY DEF DueDateDrift
<1>1. DayLeft \in Int /\ due = ParseDate(DayLeft, browserZone) /\ browserZone \in Zone \cup {UTC}
    BY DayLeftFacts DEF FormInv, FormTypeOK
<1>2. due + OffsetAt(browserZone, due) = 24 * DayLeft
    BY <1>1, ParseFacts DEF Steady
<1>3. QED BY <1>1, <1>2 DEF LocalDay, HoursInDay

(* A clock that stays still from two hours before a day to two hours after *)
(* tells that day from the others, whatever it does then.                  *)
LEMMA WholeDay ==
    ASSUME NEW zone \in Zone \cup {UTC}, NEW day \in Int, NEW instant \in Int,
           Whole(day, zone)
    PROVE  LocalDay(instant, zone) = day
               <=> ParseDate(day, zone) <= instant /\ instant < ParseDate(day, zone) + 24
<1> DEFINE offset == DayOffset(day, zone)
           start == ParseDate(day, zone)
           now == OffsetAt(zone, instant)
<1>1. start \in Int /\ start = 24 * day - offset /\ offset \in Int /\ now \in Int
  <2>1. start \in Int /\ start = 24 * day - offset /\ offset \in -12..14
      BY ParseFacts
  <2>2. now \in -12..14
      BY OffsetFacts
  <2> HIDE DEF offset, start, now
  <2>3. QED BY <2>1, <2>2
<1>2. now - offset \in -2..2
    BY ZoneFacts DEF OffsetAt, DayOffset, HoursInDay
<1>3. ASSUME start - 2 <= instant, instant <= start + 26
      PROVE  now = offset
  <2> DEFINE hours == instant - start
  <2>1. hours \in -2..26 /\ start + hours = instant
    <3> HIDE DEF start
    <3> QED BY <1>1, <1>3
  <2>2. \A h \in -2..26 : OffsetAt(zone, start + h) = offset
      BY DEF Whole, HoursInDay
  <2> HIDE DEF hours
  <2>3. QED BY <2>1, <2>2
<1>4. LocalDay(instant, zone) = (instant + now) \div 24
    BY DEF LocalDay, HoursInDay
<1> HIDE DEF offset, start, now
<1>5. (instant + now) \div 24 = day <=> 24 * day <= instant + now /\ instant + now < 24 * day + 24
    BY <1>1
<1>6. 24 * day <= instant + now /\ instant + now < 24 * day + 24
          <=> start <= instant /\ instant < start + 24
    BY <1>1, <1>2, <1>3
<1>7. QED BY <1>4, <1>5, <1>6 DEF start

(* Where an instant and a day have different offsets, they differ by what  *)
(* the clocks of the zone are moved by.                                    *)
LEMMA AroundFacts ==
    ASSUME NEW zone \in Zone \cup {UTC}, NEW day \in Int, NEW instant \in Int,
           ~(LocalDay(instant, zone) = day
               <=> ParseDate(day, zone) <= instant /\ instant < ParseDate(day, zone) + 24)
    PROVE  \E edge \in {ParseDate(day, zone), ParseDate(day, zone) + 24} :
               instant \in Around(edge, zone)
<1> DEFINE offset == DayOffset(day, zone)
           start == ParseDate(day, zone)
           now == OffsetAt(zone, instant)
           shift == IF zone.before < zone.after THEN zone.after - zone.before
                    ELSE zone.before - zone.after
<1>1. start \in Int /\ start = 24 * day - offset /\ offset \in Int /\ now \in Int
  <2>1. start \in Int /\ start = 24 * day - offset /\ offset \in -12..14
      BY ParseFacts
  <2>2. now \in -12..14
      BY OffsetFacts
  <2> HIDE DEF offset, start, now
  <2>3. QED BY <2>1, <2>2
<1>2. shift \in Int /\ (now = offset \/ now - offset = shift \/ offset - now = shift) /\ shift >= 0
    BY ZoneFacts DEF OffsetAt, DayOffset, HoursInDay
<1>3. LocalDay(instant, zone) = (instant + now) \div 24
    BY DEF LocalDay, HoursInDay
<1> HIDE DEF offset, start, now, shift
<1>4. (instant + now) \div 24 = day <=> 24 * day <= instant + now /\ instant + now < 24 * day + 24
    BY <1>1
<1>5. ~(24 * day <= instant + now /\ instant + now < 24 * day + 24
            <=> start <= instant /\ instant < start + 24)
    BY <1>3, <1>4 DEF start
<1>6. instant \in start - shift .. start + shift - 1
          \/ instant \in start + 24 - shift .. start + 24 + shift - 1
    BY <1>1, <1>2, <1>5
<1>7. instant \in Around(start, zone) \/ instant \in Around(start + 24, zone)
  <2>1. zone.before \in Int /\ zone.after \in Int /\ start + 24 \in Int
      BY <1>1, ZoneFacts
  <2>2. ASSUME NEW edge \in Int, instant \in edge - shift .. edge + shift - 1
        PROVE  instant \in Around(edge, zone)
      BY <2>1, <2>2 DEF Around, shift
  <2>3. CASE instant \in start - shift .. start + shift - 1
      BY <1>1, <2>2, <2>3
  <2>4. CASE instant \in start + 24 - shift .. start + 24 + shift - 1
    <3>1. PICK edge \in Int : edge = start + 24
        BY <2>1
    <3>2. instant \in Around(edge, zone)
      <4>1. instant \in edge - shift .. edge + shift - 1
          BY <1>1, <1>2, <2>4, <3>1
      <4>2. QED BY <2>2, <4>1
    <3>3. QED BY <3>1, <3>2
  <2>5. QED BY <1>6, <2>3, <2>4
<1>8. QED BY <1>7 DEF start

LEMMA FilterExact ==
    ASSUME FormInv
    PROVE  DayFilterExact
<1> SUFFICES ASSUME due # NoDate
             PROVE  /\ \A day \in Day :
                           LET range == DayRange(day, taskTimezone)
                           IN  \/ Found(day) <=> LocalDay(due, taskTimezone) = day
                              \/ /\ ~Whole(day, taskTimezone)
                                 /\ \E edge \in {range.start, range.end} :
                                        due \in Around(edge, taskTimezone)
                    /\ Found(DayLeft) <=> Ahead(DayLeft) \in 0..HoursInDay - 1
    BY DEF DayFilterExact
<1>1. DayLeft \in Int /\ due = ParseDate(DayLeft, browserZone) /\ due \in Int
      /\ browserZone \in Zone \cup {UTC} /\ taskTimezone \in Zone \cup {UTC}
    BY DayLeftFacts DEF FormInv, FormTypeOK
<1>2. ASSUME NEW day \in Int
      PROVE  Found(day) <=> ParseDate(day, taskTimezone) <= due
                            /\ due < ParseDate(day, taskTimezone) + 24
    BY DEF Found, DayRange, HoursInDay
<1>3. ASSUME NEW day \in Day, ~(Found(day) <=> LocalDay(due, taskTimezone) = day)
      PROVE  /\ ~Whole(day, taskTimezone)
             /\ \E edge \in {DayRange(day, taskTimezone).start, DayRange(day, taskTimezone).end} :
                    due \in Around(edge, taskTimezone)
  <2>1. day \in Int
      BY FormAssumption
  <2>2. ~(LocalDay(due, taskTimezone) = day
            <=> ParseDate(day, taskTimezone) <= due /\ due < ParseDate(day, taskTimezone) + 24)
      BY <1>2, <1>3, <2>1
  <2>3. ~Whole(day, taskTimezone)
      BY <1>1, <2>1, <2>2, WholeDay
  <2>4. \E edge \in {ParseDate(day, taskTimezone), ParseDate(day, taskTimezone) + 24} :
            due \in Around(edge, taskTimezone)
      BY <1>1, <2>1, <2>2, AroundFacts
  <2>5. QED BY <2>3, <2>4 DEF DayRange, HoursInDay
<1>4. Found(DayLeft) <=> Ahead(DayLeft) \in 0..HoursInDay - 1
  <2> DEFINE ours == DayOffset(DayLeft, browserZone)
             theirs == DayOffset(DayLeft, taskTimezone)
  <2>0. ASSUME NEW zone \in Zone \cup {UTC}
        PROVE  /\ DayOffset(DayLeft, zone) \in Int
               /\ ParseDate(DayLeft, zone) = 24 * DayLeft - DayOffset(DayLeft, zone)
    <3>1. PICK day \in Int : day = DayLeft
        BY <1>1
    <3>2. DayOffset(day, zone) \in Int /\ ParseDate(day, zone) = 24 * day - DayOffset(day, zone)
        BY ParseFacts
    <3>3. QED BY <3>1, <3>2
  <2>1. due = 24 * DayLeft - ours /\ ours \in Int
      BY <1>1, <2>0
  <2>2. ParseDate(DayLeft, taskTimezone) = 24 * DayLeft - theirs /\ theirs \in Int
      BY <1>1, <2>0
  <2>3. Ahead(DayLeft) = theirs - ours
      BY DEF Ahead
  <2> HIDE DEF ours, theirs
  <2>4. QED BY <1>1, <1>2, <2>1, <2>2, <2>3 DEF HoursInDay
<1>5. QED BY <1>3, <1>4

-----------------------------------------------------------------------------
(* An entry of the cache, field by field.                                  *)

LEMMA UnloadedFacts ==
    ASSUME NEW Data
    PROVE  /\ Unloaded \in Entry(Data) /\ Unloaded.data = NoData /\ ~Unloaded.failed
           /\ Unloaded.fetch = "idle" /\ Unloaded.got = NoData
    BY DEF Unloaded, Entry

LEMMA EntryFields ==
    ASSUME NEW Data, NEW e \in Entry(Data)
    PROVE  /\ e.data \in Data \cup {NoData} /\ e.failed \in BOOLEAN
           /\ e.fetch \in {"idle", "asked", "read"} /\ e.got \in Data \cup {NoData}
    BY DEF Entry

LEMMA RequestedFacts ==
    ASSUME NEW Data, NEW e \in Entry(Data)
    PROVE  /\ Requested(e) \in Entry(Data) /\ Requested(e).data = e.data
           /\ Requested(e).failed = (e.failed /\ e.data # NoData)
           /\ Requested(e).fetch = "asked" /\ Requested(e).got = NoData
    BY DEF Requested, Entry

LEMMA FetchFacts ==
    ASSUME NEW Data, NEW e \in Entry(Data)
    PROVE  /\ Fetch(e) \in Entry(Data) /\ Fetch(e).data = e.data
           /\ Fetching(Fetch(e)) /\ Loaded(Fetch(e)) = Loaded(e)
           /\ Fetch(e).fetch = "read" => e.fetch = "read" /\ Fetch(e).got = e.got
    BY RequestedFacts, EntryFields DEF Fetch, Fetching, Loaded

LEMMA RefetchFacts ==
    ASSUME NEW Data, NEW e \in Entry(Data)
    PROVE  /\ Refetch(e) \in Entry(Data) /\ Refetch(e).data = e.data
           /\ Fetching(Refetch(e)) /\ Loaded(Refetch(e)) = Loaded(e)
           /\ Refetch(e).fetch = "read" =>
                  e.fetch = "read" /\ Refetch(e).got = e.got /\ e.data = NoData
    BY RequestedFacts, EntryFields DEF Refetch, Fetching, Loaded

LEMMA ServedFacts ==
    ASSUME NEW Data, NEW e \in Entry(Data), NEW answer \in Data
    PROVE  /\ Served(e, answer) \in Entry(Data) /\ Served(e, answer).data = e.data
           /\ Served(e, answer).failed = e.failed
           /\ Served(e, answer).fetch = "read" /\ Served(e, answer).got = answer
    BY DEF Served, Entry

LEMMA SettledFacts ==
    ASSUME NEW Data, NEW e \in Entry(Data)
    PROVE  /\ Settled(e) \in Entry(Data) /\ Settled(e).data = e.got /\ ~Settled(e).failed
           /\ Settled(e).fetch = "idle" /\ Settled(e).got = NoData
    BY DEF Settled, Unloaded, Entry

LEMMA FailedFacts ==
    ASSUME NEW Data, NEW e \in Entry(Data)
    PROVE  /\ Failed(e) \in Entry(Data) /\ Failed(e).data = e.data /\ Failed(e).failed
           /\ Failed(e).fetch = "idle" /\ Failed(e).got = NoData
    BY DEF Failed, Entry

LEMMA WrittenFacts ==
    ASSUME NEW Data, NEW e \in Entry(Data), NEW value \in Data
    PROVE  /\ Written(e, value) \in Entry(Data) /\ Written(e, value).data = value
           /\ ~Written(e, value).failed
           /\ Written(e, value).fetch = e.fetch /\ Written(e, value).got = e.got
    BY DEF Written, Entry

(* The greatest and the least of two numbers.                              *)
LEMMA MaxOfTwo ==
    ASSUME NEW a \in Int, NEW b \in Int
    PROVE  Max({a, b}) = IF a >= b THEN a ELSE b
<1> DEFINE m == IF a >= b THEN a ELSE b
<1>1. m \in {a, b} /\ \A y \in {a, b} : m >= y
    OBVIOUS
<1>2. \A x \in {a, b} : (\A y \in {a, b} : x >= y) => x = m
    OBVIOUS
<1> HIDE DEF m
<1>3. QED BY <1>1, <1>2 DEF Max, m

LEMMA MinOfTwo ==
    ASSUME NEW a \in Int, NEW b \in Int
    PROVE  Min({a, b}) = IF a <= b THEN a ELSE b
<1> DEFINE m == IF a <= b THEN a ELSE b
<1>1. m \in {a, b} /\ \A y \in {a, b} : m <= y
    OBVIOUS
<1>2. \A x \in {a, b} : (\A y \in {a, b} : x <= y) => x = m
    OBVIOUS
<1> HIDE DEF m
<1>3. QED BY <1>1, <1>2 DEF Min, m

-----------------------------------------------------------------------------
(* The bell.                                                               *)

(* What the cache and the answer under way count is no less than n.        *)
Covers(e, n) ==
    /\ e.data # NoData => n <= e.data
    /\ e.fetch = "read" => n <= e.got

(* Answers count more and more notifications.                              *)
Growing(e) ==
    /\ e.data # NoData => e.data <= total
    /\ e.fetch = "read" => e.got \in 0..total /\ (e.data # NoData => e.data <= e.got)

(* Notifications that were toasted, or were there at a mount.              *)
Heard == {n \in Notification : n \in quiet \/ toasts[n] # 0}

(* A mounted component that has started knows the newest ones of the cache.*)
Started(p, e) ==
    /\ p.initialized => e.data # NoData /\ Newest(e.data) \subseteq p.known
    /\ ~p.initialized => p.known = {}
    /\ p.known \subseteq Heard

BellInv ==
    /\ PopoverTypeOK
    /\ opened <= total /\ Growing(bell) /\ Covers(bell, opened)
    /\ \A n \in Heard : n <= total /\ Covers(bell, n)
    /\ \A n \in Notification : toasts[n] = 0 \/ (toasts[n] = 1 /\ n \notin quiet)
    /\ stored = opened
    /\ IF popover.mounted
       THEN /\ popover.seen = opened /\ Started(popover, bell)
            /\ Loaded(bell) => popover.initialized
       ELSE popover = Gone

LEMMA NewestFacts ==
    ASSUME NEW answer \in Int, NEW n
    PROVE  n \in Newest(answer)
               <=> n \in Int /\ 1 <= n /\ answer - DefaultLimit + 1 <= n /\ n <= answer
<1>1. answer - DefaultLimit + 1 \in Int
    BY PopoverAssumption
<1>2. Max({1, answer - DefaultLimit + 1})
          = IF 1 >= answer - DefaultLimit + 1 THEN 1 ELSE answer - DefaultLimit + 1
    BY <1>1, MaxOfTwo
<1>3. QED BY <1>1, <1>2 DEF Newest

LEMMA BellFacts ==
    ASSUME BellInv
    PROVE  /\ bell \in Entry(0..MaxTotal) /\ total \in 0..MaxTotal /\ opened \in 0..MaxTotal
           /\ stored \in 0..MaxTotal /\ popover \in Mounted /\ faults \in 0..MaxFaults
           /\ toasts \in [Notification -> 0..2] /\ quiet \subseteq Notification
    BY DEF BellInv, PopoverTypeOK

(* What Render keeps, for a component p and an entry e as its callers give *)
(* them.                                                                   *)
LEMMA RenderKeeps ==
    ASSUME BellInv, UNCHANGED total, faults' \in 0..MaxFaults,
           NEW p \in Mounted, p.mounted, p.seen = opened,
           p.initialized => bell.data # NoData /\ Newest(bell.data) \subseteq p.known,
           ~p.initialized => p.known = {},
           p.known \subseteq Heard,
           NEW e \in Entry(0..MaxTotal), Growing(e), Covers(e, opened),
           \A n \in Heard : Covers(e, n),
           bell.data # NoData => e.data # NoData /\ bell.data <= e.data,
           ~Loaded(e) => e.data = bell.data,
           Render(p, e)
    PROVE  BellInv'
<1> DEFINE seen == Seen(p, e)
           known == Known(p, e)
<1>1. /\ bell' = e /\ stored' = seen
      /\ popover' = [p EXCEPT !.seen = seen, !.known = known,
                              !.initialized = p.initialized \/ Loaded(e)]
    BY DEF Render
<1>2. /\ p.open \in BOOLEAN /\ p.initialized \in BOOLEAN /\ p.known \subseteq Notification
      /\ p.seen \in 0..MaxTotal
    BY DEF Mounted
<1>3. /\ opened \in 0..MaxTotal /\ total \in 0..MaxTotal /\ toasts \in [Notification -> 0..2]
      /\ quiet \subseteq Notification
    BY BellFacts
<1>4. Loaded(e) => e.data \in 0..MaxTotal /\ e.data <= total /\ opened <= e.data
    BY EntryFields DEF Loaded, Growing, Covers
<1>5. opened' = (IF Loaded(e) /\ p.open THEN e.data ELSE opened) /\ seen = opened'
    BY <1>2, <1>3, <1>4, MaxOfTwo, MinOfTwo DEF Render, Seen
<1>6. opened' \in 0..MaxTotal /\ opened' <= total /\ Covers(e, opened')
    BY <1>3, <1>4, <1>5 DEF BellInv, Covers, Growing, Loaded
<1>7. ASSUME Loaded(e), NEW n, n \in Newest(e.data)
      PROVE  n \in Notification /\ n <= e.data /\ n <= total /\ Covers(e, n)
  <2>1. e.data \in Int /\ e.data <= total /\ total <= MaxTotal
      BY <1>3, <1>4, <1>7
  <2>2. n \in Int /\ 1 <= n /\ n <= e.data
      BY <1>7, <2>1, NewestFacts
  <2>3. Covers(e, n)
      BY <1>7, <2>1, <2>2 DEF Covers, Growing, Loaded
  <2>4. QED BY <2>1, <2>2, <2>3, PopoverAssumption, <1>3 DEF Notification
<1>8. ASSUME NEW n \in New(p, e)
      PROVE  n \in Notification /\ n \notin Heard /\ Loaded(e)
  <2>1. n \in Newest(e.data) /\ n \notin p.known /\ Loaded(e) /\ p.initialized
      BY <1>8 DEF New
  <2>2. bell.data \in 0..MaxTotal /\ e.data \in 0..MaxTotal /\ bell.data <= e.data
      BY <2>1, <1>4, BellFacts, EntryFields
  <2>3. n \notin Newest(bell.data)
      BY <2>1
  <2>4. ~(n <= bell.data)
      BY <2>1, <2>2, <2>3, NewestFacts, PopoverAssumption
  <2>5. n \notin Heard
      BY <2>1, <2>2, <2>4 DEF BellInv, Covers
  <2>6. QED BY <1>7, <2>1, <2>5
<1>9. ASSUME NEW n \in Notification
      PROVE  /\ toasts'[n] = IF n \in New(p, e) THEN toasts[n] + 1 ELSE toasts[n]
             /\ n \in quiet' <=> \/ n \in quiet
                                \/ /\ Loaded(e) /\ ~p.initialized
                                   /\ n \in Newest(e.data) /\ toasts[n] = 0
  <2>1. toasts' = [m \in Notification |-> IF m \in New(p, e) THEN toasts[m] + 1 ELSE toasts[m]]
      BY DEF Render
  <2>2. quiet' = IF Loaded(e) /\ ~p.initialized
                 THEN quiet \cup {m \in Newest(e.data) : toasts[m] = 0} ELSE quiet
      BY DEF Render
  <2>3. QED BY <2>1, <2>2
<1>10. ASSUME NEW n \in Notification
       PROVE  toasts[n] \in 0..1 /\ (n \notin Heard <=> toasts[n] = 0 /\ n \notin quiet)
              /\ (toasts[n] = 0 \/ n \notin quiet)
    BY DEF BellInv, Heard
<1>11. toasts' \in [Notification -> 0..2]
  <2>1. \A n \in Notification :
            (IF n \in New(p, e) THEN toasts[n] + 1 ELSE toasts[n]) \in 0..2
      BY <1>10
  <2>2. toasts' = [m \in Notification |-> IF m \in New(p, e) THEN toasts[m] + 1 ELSE toasts[m]]
      BY DEF Render
  <2>3. QED BY <2>1, <2>2
<1>12. quiet' \subseteq Notification
    BY <1>3, <1>7 DEF Render
<1>13. \A n \in Notification : toasts'[n] = 0 \/ (toasts'[n] = 1 /\ n \notin quiet')
    BY <1>8, <1>9, <1>10 DEF New
<1>14. ASSUME NEW n \in Notification
       PROVE  n \in Heard' <=> n \in Heard \/ n \in New(p, e)
                               \/ (Loaded(e) /\ ~p.initialized /\ n \in Newest(e.data))
  <2>1. n \in Heard' <=> n \in quiet' \/ toasts'[n] # 0
      BY DEF Heard
  <2>2. n \in Heard <=> n \in quiet \/ toasts[n] # 0
      BY DEF Heard
  <2>3. toasts[n] \in 0..1
      BY <1>10
  <2>4. QED BY <1>9, <2>1, <2>2, <2>3
<1>15. \A n \in Heard' : n <= total /\ Covers(e, n)
  <2> TAKE n \in Heard'
  <2>1. n \in Notification
      BY DEF Heard
  <2>2. CASE n \in Heard
      BY <2>2 DEF BellInv
  <2>3. CASE Loaded(e) /\ n \in Newest(e.data)
      BY <2>3, <1>7
  <2>4. QED BY <1>14, <2>1, <2>2, <2>3 DEF New
<1>16. known = IF Loaded(e) THEN p.known \cup Newest(e.data) ELSE p.known
    BY DEF Known
<1>17. known \subseteq Heard'
  <2> SUFFICES ASSUME NEW n \in known
               PROVE  n \in Heard'
      OBVIOUS
  <2>1. CASE n \in p.known
      BY <2>1, <1>14 DEF Heard
  <2>2. CASE Loaded(e) /\ n \in Newest(e.data) /\ n \notin p.known
      BY <2>2, <1>7, <1>14 DEF New
  <2>3. QED BY <1>16, <2>1, <2>2
<1>18. /\ popover' \in Mounted /\ popover'.mounted /\ popover'.seen = opened'
       /\ popover'.initialized = (p.initialized \/ Loaded(e)) /\ popover'.known = known
  <2>1. known \subseteq Notification
      BY <1>17 DEF Heard
  <2>2. seen \in 0..MaxTotal
      BY <1>5, <1>6
  <2> HIDE DEF known, seen
  <2>3. Loaded(e) \in BOOLEAN
      BY DEF Loaded, Entry
  <2>4. QED BY <1>1, <1>5, <2>1, <2>2, <2>3 DEF Mounted
<1> HIDE DEF known, seen
<1>19. Started(popover, bell)'
  <2>1. popover'.initialized => e.data # NoData /\ Newest(e.data) \subseteq known
      BY <1>16, <1>18 DEF Loaded
  <2>2. ~popover'.initialized => known = {}
      BY <1>16, <1>18
  <2>3. QED BY <1>1, <1>17, <1>18, <2>1, <2>2 DEF Started
<1>20. QED
  <2>1. PopoverTypeOK'
      BY <1>1, <1>3, <1>5, <1>6, <1>11, <1>12, <1>18 DEF PopoverTypeOK
  <2>2. Growing(bell)' /\ Covers(bell, opened)' /\ (\A n \in Heard : Covers(bell, n))'
      BY <1>1, <1>6, <1>15 DEF Growing, Covers
  <2>3. (\A n \in Heard : n <= total)'
      BY <1>15
  <2>4. stored' = opened' /\ opened' <= total'
      BY <1>1, <1>5, <1>6
  <2>5. Loaded(bell)' => popover'.initialized
      BY <1>1, <1>18 DEF Loaded
  <2>6. QED
      BY <1>13, <1>18, <1>19, <2>1, <2>2, <2>3, <2>4, <2>5 DEF BellInv

(* What the entry e keeps of the bell's, whatever component there is.      *)
Follows(e) ==
    /\ e \in Entry(0..MaxTotal) /\ Growing(e) /\ Covers(e, opened)
    /\ \A n \in Heard : Covers(e, n)
    /\ bell.data # NoData => e.data # NoData /\ bell.data <= e.data
    /\ ~Loaded(e) => e.data = bell.data

LEMMA ShowKeeps ==
    ASSUME BellInv, UNCHANGED total, faults' \in 0..MaxFaults,
           NEW e, Follows(e), Show(e)
    PROVE  BellInv'
<1>1. CASE popover.mounted
  <2>1. popover \in Mounted /\ popover.seen = opened /\ Started(popover, bell)
      BY <1>1, BellFacts DEF BellInv
  <2>2. Render(popover, e)
      BY <1>1 DEF Show
  <2>3. QED BY <1>1, <2>1, <2>2, RenderKeeps DEF Follows, Started
<1>2. CASE ~popover.mounted
  <2>1. bell' = e /\ UNCHANGED <<popover, stored, toasts, quiet, opened>> /\ popover = Gone
      BY <1>2 DEF Show, BellInv
  <2>2. Heard' = Heard
      BY <2>1 DEF Heard
  <2>3. PopoverTypeOK'
      BY <2>1, BellFacts DEF PopoverTypeOK, Follows
  <2>4. Growing(bell)' /\ Covers(bell, opened)' /\ (\A n \in Heard : Covers(bell, n))'
      BY <2>1, <2>2 DEF Follows, Growing, Covers
  <2>5. QED BY <1>2, <2>1, <2>2, <2>3, <2>4 DEF BellInv
<1>3. QED BY <1>1, <1>2

(* A new request for what is there, a failure, and the entry as it is.     *)
LEMMA SameData ==
    ASSUME BellInv, NEW e \in Entry(0..MaxTotal), e.data = bell.data,
           e.fetch = "read" => bell.fetch = "read" /\ e.got = bell.got
    PROVE  Follows(e)
<1>1. bell.data # NoData => bell.data \in 0..MaxTotal
    BY BellFacts, EntryFields
<1>2. QED BY <1>1 DEF Follows, BellInv, Growing, Covers

LEMMA BellStarts ==
    ASSUME PopoverInit
    PROVE  BellInv
<1>1. Heard = {}
    BY DEF PopoverInit, Heard
<1>2. Gone \in Mounted /\ ~Gone.mounted
    BY PopoverAssumption DEF Gone, Mounted
<1>3. PopoverTypeOK
    BY <1>2, UnloadedFacts, PopoverAssumption DEF PopoverInit, PopoverTypeOK
<1>4. QED
    BY <1>1, <1>2, <1>3, UnloadedFacts DEF PopoverInit, BellInv, Growing, Covers, PopoverTypeOK

LEMMA BellKept ==
    ASSUME BellInv, PopoverNext
    PROVE  BellInv'
<1>1. /\ bell \in Entry(0..MaxTotal) /\ total \in 0..MaxTotal /\ opened \in 0..MaxTotal
      /\ stored \in 0..MaxTotal /\ popover \in Mounted /\ faults \in 0..MaxFaults
      /\ toasts \in [Notification -> 0..2] /\ quiet \subseteq Notification
    BY BellFacts
<1>2. NoData \notin Nat /\ (bell.fetch = "read" => bell.got \in 0..total)
    BY PagesAssumption DEF BellInv, Growing
<1>3. CASE NotificationStored
  <2>1. total' = total + 1 /\ total' \in 0..MaxTotal
        /\ UNCHANGED <<bell, stored, popover, faults, toasts, quiet, opened>>
      BY <1>1, <1>3, PopoverAssumption DEF NotificationStored
  <2>2. Growing(bell)' /\ Covers(bell, opened)' /\ Heard' = Heard
    <3>1. bell.data # NoData => bell.data \in 0..MaxTotal
        BY <1>1, EntryFields
    <3>2. Growing(bell)'
        BY <1>1, <2>1, <3>1 DEF BellInv, Growing
    <3>3. QED BY <2>1, <3>2 DEF BellInv, Covers, Heard
  <2>3. \A n \in Heard : n \in Int
      BY DEF Heard, Notification
  <2>4. (\A n \in Heard : n <= total /\ Covers(bell, n))'
      BY <1>1, <2>1, <2>2, <2>3 DEF BellInv, Covers
  <2>5. PopoverTypeOK'
      BY <1>1, <2>1 DEF PopoverTypeOK
  <2>6. Started(popover, bell)' <=> Started(popover, bell)
      BY <2>1, <2>2 DEF Started
  <2>7. QED
      BY <1>1, <2>1, <2>2, <2>4, <2>5, <2>6 DEF BellInv, Loaded
<1>4. CASE BellRead
  <2> DEFINE e == Served(bell, total)
  <2>1. /\ e \in Entry(0..MaxTotal) /\ e.data = bell.data /\ e.failed = bell.failed
        /\ e.fetch = "read" /\ e.got = total
    <3> DEFINE Counts == 0..MaxTotal
    <3>1. bell \in Entry(Counts) /\ total \in Counts
        BY <1>1
    <3> HIDE DEF Counts
    <3>2. /\ e \in Entry(Counts) /\ e.data = bell.data /\ e.failed = bell.failed
          /\ e.fetch = "read" /\ e.got = total
        BY <3>1, ServedFacts
    <3>3. QED BY <3>2 DEF Counts
  <2>2. Show(e) /\ UNCHANGED <<total, faults>>
      BY <1>4 DEF BellRead
  <2> HIDE DEF e
  <2>3. bell.data # NoData => bell.data \in 0..MaxTotal
      BY <1>1, EntryFields
  <2>4. Follows(e)
      BY <1>1, <2>1, <2>3 DEF Follows, BellInv, Growing, Covers
  <2>5. QED BY <1>1, <2>2, <2>4, ShowKeeps
<1>5. CASE BellArrives
  <2> DEFINE e == Settled(bell)
  <2>1. e \in Entry(0..MaxTotal) /\ e.data = bell.got /\ ~e.failed /\ e.fetch = "idle"
      BY <1>1, SettledFacts
  <2>2. Show(e) /\ UNCHANGED <<total, faults>> /\ bell.fetch = "read"
      BY <1>5 DEF BellArrives
  <2> HIDE DEF e
  <2>3. e.data # NoData /\ e.data \in 0..total
      BY <1>1, <1>2, <2>1, <2>2
  <2>4. Follows(e)
      BY <1>1, <2>1, <2>2, <2>3 DEF Follows, BellInv, Growing, Covers, Loaded
  <2>5. QED BY <1>1, <2>2, <2>4, ShowKeeps
<1>6. CASE BellFails
  <2>1. Follows(Failed(bell))
      BY <1>1, FailedFacts, SameData
  <2>2. Show(Failed(bell)) /\ UNCHANGED total /\ faults' \in 0..MaxFaults
      BY <1>1, <1>6, PopoverAssumption DEF BellFails
  <2>3. QED BY <2>1, <2>2, ShowKeeps
<1>7. Follows(Refetch(bell)) /\ Follows(Fetch(bell)) /\ Follows(bell)
  <2>1. Follows(Refetch(bell))
      BY <1>1, RefetchFacts, SameData
  <2>2. Follows(Fetch(bell))
      BY <1>1, FetchFacts, SameData
  <2>3. QED BY <1>1, <2>1, <2>2, SameData
<1>8. CASE BellInvalidated
    BY <1>1, <1>7, <1>8, ShowKeeps DEF BellInvalidated
<1>9. CASE MountBell
  <2> DEFINE p == [Gone EXCEPT !.mounted = TRUE, !.seen = stored]
  <2>1. p \in Mounted /\ p.mounted /\ p.seen = stored /\ ~p.initialized /\ p.known = {}
      BY <1>1 DEF Mounted, Gone
  <2>2. Render(p, Fetch(bell)) /\ UNCHANGED <<total, faults>>
      BY <1>9 DEF MountBell
  <2> HIDE DEF p
  <2>3. stored = opened
      BY DEF BellInv
  <2>4. QED BY <1>1, <1>7, <2>1, <2>2, <2>3, RenderKeeps DEF Follows
<1>10. ASSUME popover.mounted, NEW open \in BOOLEAN, NEW e, Follows(e),
              Render([popover EXCEPT !.open = open], e), UNCHANGED <<total, faults>>
       PROVE  BellInv'
  <2> DEFINE p == [popover EXCEPT !.open = open]
  <2>1. /\ p \in Mounted /\ p.mounted /\ p.seen = popover.seen
        /\ p.initialized = popover.initialized /\ p.known = popover.known
      BY <1>1, <1>10 DEF Mounted
  <2> HIDE DEF p
  <2>2. popover.seen = opened /\ Started(popover, bell)
      BY <1>10 DEF BellInv
  <2>3. Render(p, e)
      BY <1>10 DEF p
  <2>4. QED BY <1>1, <1>10, <2>1, <2>2, <2>3, RenderKeeps DEF Follows, Started
<1>11. CASE OpenBell
    BY <1>7, <1>10, <1>11 DEF OpenBell
<1>12. CASE CloseBell
  <2>1. popover.mounted
      BY <1>12 DEF CloseBell, BellInv, Gone
  <2>2. QED BY <1>7, <1>10, <1>12, <2>1 DEF CloseBell
<1>13. CASE UnmountBell
  <2>1. popover' = Gone /\ Gone \in Mounted /\ ~Gone.mounted
        /\ UNCHANGED <<total, bell, stored, faults, toasts, quiet, opened>>
      BY <1>13, PopoverAssumption DEF UnmountBell, Gone, Mounted
  <2>2. QED
      BY <1>1, <2>1 DEF BellInv, PopoverTypeOK, Heard, Growing, Covers
<1>14. CASE BellCollected
  <2>1. bell' = Unloaded /\ popover = Gone /\ ~popover.mounted
        /\ UNCHANGED <<total, stored, popover, faults, toasts, quiet, opened>>
      BY <1>14 DEF BellCollected, BellInv
  <2>2. QED
      BY <1>1, <2>1, UnloadedFacts DEF BellInv, PopoverTypeOK, Heard, Growing, Covers
<1>15. CASE PageReloaded
  <2>1. popover' = Gone /\ Gone \in Mounted /\ ~Gone.mounted /\ bell' = Unloaded
        /\ toasts' = [n \in Notification |-> 0] /\ quiet' = {}
        /\ UNCHANGED <<total, stored, faults, opened>>
      BY <1>15, PopoverAssumption DEF PageReloaded, Gone, Mounted
  <2>2. Heard' = {} /\ toasts' \in [Notification -> 0..2]
      BY <2>1 DEF Heard
  <2>3. QED
      BY <1>1, <2>1, <2>2, UnloadedFacts DEF BellInv, PopoverTypeOK, Growing, Covers
<1>16. QED
    BY <1>3, <1>4, <1>5, <1>6, <1>8, <1>9, <1>11, <1>12, <1>13, <1>14, <1>15 DEF PopoverNext

LEMMA Announced ==
    ASSUME BellInv
    PROVE  NotificationsAnnounced
<1> SUFFICES ASSUME popover.mounted, Loaded(bell)
             PROVE  /\ Badge = bell.data - Min({opened, bell.data})
                    /\ \A n \in Newest(bell.data) :
                           toasts[n] = IF n \in quiet THEN 0 ELSE 1
    BY DEF NotificationsAnnounced
<1>1. bell.data \in 0..MaxTotal /\ opened \in 0..MaxTotal /\ opened <= bell.data
      /\ popover.seen = opened
    BY BellFacts, EntryFields DEF BellInv, Covers, Loaded
<1>2. Badge = bell.data - Min({opened, bell.data})
    BY <1>1, MaxOfTwo, MinOfTwo DEF Badge
<1>3. Newest(bell.data) \subseteq Heard
    BY DEF BellInv, Started
<1>4. QED BY <1>2, <1>3 DEF BellInv, Heard

-----------------------------------------------------------------------------
(* The tasks and their events.                                             *)

(* Rows the server had at some time.                                       *)
Dated(data) == \A t \in Task : data[t] <= version[t]

(* The rows are those of the page, or it has changed since.                *)
Accounted(side, data) ==
    side \in moved \/ late[side] # {} \/ RowsOf(data) = PageTasks

(* Every edit of a task has come to its end, or one of its events is on    *)
(* the wire; the edits before the start have none.                         *)
ServerInv ==
    /\ version[Opened] > 0 /\ \A t \in matching : version[t] > 0
    /\ \A e \in wire : e.version > 0 /\ e.version <= version[e.task]
    /\ \A t \in Task : spent[t] <= version[t]
    /\ \A t \in Task : \A v \in 1..version[t] :
          \/ v <= spent[t] \/ (t = Opened /\ v = 1)
          \/ \E e \in wire : e.task = t /\ e.version = v

(* What the list shows wrongly for good is known while the page listens.   *)
ListInv ==
    /\ list.data # NoData => Dated(list.data) /\ Accounted("data", list.data)
    /\ list.fetch = "read" => /\ list.got # NoData
                             /\ Dated(list.got) /\ Accounted("got", list.got)
    /\ \A side \in Side : \A t \in late[side] : version[t] > 0 /\ t # Opened
    /\ aware => ~up
    /\ page = "list" /\ ~aware /\ list.data # NoData /\ ~Fetching(list) =>
           Behind(list.data, late["data"], spent) \subseteq excused

(* An answer to the details page is no older than a save it was told of.   *)
CardInv ==
    /\ mine <= version[Opened]
    /\ card.fetch = "read" => card.got # NoData /\ card.got >= mine
    /\ page = "details" /\ Loaded(card) /\ ~Fetching(card) => card.data >= mine
    /\ request # NoRequest /\ request.kind # "create" => card.data # NoData
    /\ request # NoRequest /\ request.answered => request.version <= version[Opened]

CacheInv == CacheTypeOK /\ ServerInv /\ ListInv /\ CardInv

LEMMA CacheFacts ==
    ASSUME CacheTypeOK
    PROVE  /\ version \in [Task -> 0..MaxVersion] /\ removed \subseteq Task /\ wire \subseteq Event
           /\ matching \subseteq Task /\ older \in [Task -> SUBSET Task] /\ filters \in Slice
           /\ late \in [Side -> SUBSET Task] /\ moved \subseteq Side
           /\ page \in {"list", "details", "none"} /\ aware \in BOOLEAN /\ up \in BOOLEAN
           /\ list \in Entry(Rows) /\ card \in Entry(Version)
           /\ losses \in 0..MaxLosses /\ spent \in [Task -> 0..MaxVersion]
           /\ excused \subseteq Task /\ mine \in 0..MaxVersion
           /\ Opened \in Task /\ MaxVersion \in Nat \ {0} /\ MaxLosses \in Nat
           /\ NoData \notin Rows /\ NoData \notin Version
    BY TaskAssumption DEF CacheTypeOK, Rows, Version

LEMMA EventsOfFacts ==
    ASSUME NEW kind \in {"created", "updated"}, NEW t \in Task, NEW v \in Version
    PROVE  /\ EventsOf(kind, t, v) \subseteq Event
           /\ \A x \in EventsOf(kind, t, v) : x.task = t /\ x.version = v
           /\ \E x \in EventsOf(kind, t, v) : x.task = t /\ x.version = v
<1> DEFINE direct == [kind |-> kind, task |-> t, version |-> v, copy |-> "direct"]
<1>1. direct \in EventsOf(kind, t, v)
    BY DEF EventsOf
<1>2. \A x \in EventsOf(kind, t, v) : x \in Event /\ x.task = t /\ x.version = v
    BY DEF EventsOf, Event
<1>3. QED BY <1>1, <1>2

LEMMA OwnEvents ==
    ASSUME NEW e \in Event
    PROVE  /\ e \in EventsOf(e.kind, e.task, e.version)
           /\ e.kind \in {"created", "updated"} /\ e.task \in Task /\ e.version \in 0..MaxVersion
    BY DEF EventsOf, Event, Version

LEMMA PageRowsFacts ==
    ASSUME CacheTypeOK, ServerInv
    PROVE  PageRows \in Rows /\ Dated(PageRows) /\ RowsOf(PageRows) = PageTasks
<1>1. PageTasks \subseteq matching /\ matching \subseteq Task
    BY CacheFacts DEF PageTasks, Listed
<1>2. \A t \in Task : PageRows[t] = IF t \in PageTasks THEN version[t] ELSE 0
    BY DEF PageRows
<1>3. PageRows \in Rows
    BY CacheFacts DEF PageRows, Rows, Version
<1>4. \A t \in Task : version[t] \in Nat
    BY CacheFacts
<1>5. \A t \in PageTasks : version[t] > 0
    BY <1>1 DEF ServerInv
<1>6. RowsOf(PageRows) = PageTasks
    BY <1>1, <1>2, <1>5 DEF RowsOf
<1>7. Dated(PageRows)
    BY <1>2, <1>4 DEF Dated
<1>8. QED BY <1>3, <1>6, <1>7

(* A change at the server: what changed the page is remembered ...         *)
ServerMoves ==
    /\ version' \in Rows /\ removed' \subseteq Task /\ wire' \subseteq Event
    /\ matching' \subseteq Task /\ older' \in [Task -> SUBSET Task]
    /\ UNCHANGED <<spent, excused, filters>> /\ version[Opened] <= version'[Opened]
    /\ ServerInv'

SinceMoves ==
    /\ late' \in [Side -> SUBSET Task] /\ moved' \subseteq Side /\ moved \subseteq moved'
    /\ \A side \in Side : late[side] \subseteq late'[side]
    /\ \A side \in Answers : PageTasks' # PageTasks => side \in moved' \/ late'[side] # {}

LateMoves ==
    \A side \in Side : \A t \in late'[side] :
        \/ t \in late[side] /\ version[t] <= version'[t]
        \/ version'[t] > 0 /\ t # Opened /\ spent[t] = 0

(* ... and rows a page may have stay rows the server had: a list shows     *)
(* nothing more wrongly that no event is left to correct.                  *)
RowsMove ==
    \A data \in Rows : Dated(data) =>
        \A t \in Task :
            /\ data[t] <= version'[t]
            /\ data[t] > 0 /\ data[t] < spent[t] => data[t] # version[t]

Widens == ServerMoves /\ SinceMoves /\ LateMoves /\ RowsMove

LEMMA CreatesWidens ==
    ASSUME CacheTypeOK, ServerInv, NEW t \in Task, Creates(t)
    PROVE  Widens
<1>0. /\ version \in [Task -> 0..MaxVersion] /\ removed \subseteq Task /\ wire \subseteq Event
      /\ matching \subseteq Task /\ older \in [Task -> SUBSET Task]
      /\ late \in [Side -> SUBSET Task] /\ moved \subseteq Side
      /\ spent \in [Task -> 0..MaxVersion] /\ Opened \in Task /\ MaxVersion \in Nat \ {0}
    BY CacheFacts
<1>1. /\ version[t] = 0 /\ version' = [version EXCEPT ![t] = 1]
      /\ wire' = wire \cup EventsOf("created", t, 1)
      /\ matching' \in {matching, matching \cup {t}}
      /\ older' = [older EXCEPT ![t] = {u \in Task : version[u] > 0}]
      /\ late' = [side \in Side |-> IF PageTasks' = PageTasks \/ side \notin Answers
                                   THEN late[side] ELSE late[side] \cup {t}]
      /\ UNCHANGED <<removed, filters, spent, moved, excused>>
    BY DEF Creates
<1>2. spent[t] = 0 /\ t # Opened
    BY <1>0, <1>1 DEF ServerInv
<1>3. 1 \in Version
    BY <1>0 DEF Version
<1>4. version' \in Rows /\ version'[t] = 1 /\ \A u \in Task \ {t} : version'[u] = version[u]
    BY <1>0, <1>1, <1>3 DEF Rows, Version
<1>5. /\ wire' \subseteq Event /\ wire \subseteq wire'
      /\ \A x \in wire' : x \in wire \/ (x.task = t /\ x.version = 1)
      /\ \E x \in wire' : x.task = t /\ x.version = 1
    BY <1>0, <1>1, <1>3, EventsOfFacts
<1>6. ServerInv'
  <2>1. version'[Opened] > 0 /\ \A u \in matching' : version'[u] > 0
      BY <1>0, <1>1, <1>2, <1>4 DEF ServerInv
  <2>2. \A e \in wire' : e.version > 0 /\ e.version <= version'[e.task]
      BY <1>0, <1>1, <1>4, <1>5, OwnEvents DEF ServerInv
  <2>3. \A u \in Task : spent'[u] <= version'[u]
      BY <1>0, <1>1, <1>2, <1>4 DEF ServerInv
  <2>4. ASSUME NEW u \in Task, NEW v \in 1..version'[u]
        PROVE  \/ v <= spent'[u] \/ (u = Opened /\ v = 1)
               \/ \E e \in wire' : e.task = u /\ e.version = v
    <3>1. CASE u = t
        BY <1>4, <1>5, <3>1
    <3>2. CASE u # t
        BY <1>1, <1>4, <1>5, <3>2 DEF ServerInv
    <3>3. QED BY <3>1, <3>2
  <2>5. QED BY <2>1, <2>2, <2>3, <2>4 DEF ServerInv
<1>7. \A u \in Task : version[u] <= version'[u] /\ version[u] \in Nat /\ version'[u] \in Nat
    BY <1>0, <1>1, <1>4
<1>8. /\ late' \in [Side -> SUBSET Task]
      /\ \A side \in Side : late[side] \subseteq late'[side]
                            /\ late'[side] \subseteq late[side] \cup {t}
      /\ \A side \in Answers : PageTasks' # PageTasks => t \in late'[side]
    BY <1>0, <1>1 DEF Answers
<1>9. \A side \in Side : \A u \in late'[side] :
          \/ u \in late[side] /\ version[u] <= version'[u]
          \/ version'[u] > 0 /\ u # Opened /\ spent[u] = 0
    BY <1>0, <1>2, <1>4, <1>7, <1>8
<1>10. \A data \in Rows : Dated(data) =>
          \A u \in Task : /\ data[u] <= version'[u]
                          /\ data[u] > 0 /\ data[u] < spent[u] => data[u] # version[u]
    BY <1>0, <1>7 DEF Dated, Rows, Version, ServerInv
<1>11. matching' \subseteq Task /\ older' \in [Task -> SUBSET Task]
    BY <1>0, <1>1
<1>12. version[Opened] <= version'[Opened]
    BY <1>0, <1>7
<1>13. /\ UNCHANGED <<spent, excused, filters>> /\ removed' \subseteq Task
       /\ moved' \subseteq Side /\ moved \subseteq moved'
    BY <1>0, <1>1
<1>14. /\ \A side \in Side : late[side] \subseteq late'[side]
       /\ \A side \in Answers : PageTasks' # PageTasks => side \in moved' \/ late'[side] # {}
    BY <1>8
<1>15. ServerMoves
    BY <1>4, <1>5, <1>6, <1>11, <1>12, <1>13 DEF ServerMoves
<1>16. SinceMoves
    BY <1>8, <1>13, <1>14 DEF SinceMoves
<1>17. LateMoves
    BY <1>9 DEF LateMoves
<1>18. RowsMove
    BY <1>10 DEF RowsMove
<1>19. QED BY <1>15, <1>16, <1>17, <1>18 DEF Widens

LEMMA UpdatesWidens ==
    ASSUME CacheTypeOK, ServerInv, Updates
    PROVE  Widens
<1>0. /\ version \in [Task -> 0..MaxVersion] /\ removed \subseteq Task /\ wire \subseteq Event
      /\ matching \subseteq Task /\ older \in [Task -> SUBSET Task]
      /\ late \in [Side -> SUBSET Task] /\ moved \subseteq Side
      /\ spent \in [Task -> 0..MaxVersion] /\ Opened \in Task /\ MaxVersion \in Nat \ {0}
    BY CacheFacts
<1> DEFINE next == version[Opened] + 1
<1>1. /\ version[Opened] < MaxVersion /\ version' = [version EXCEPT ![Opened] = next]
      /\ wire' = wire \cup EventsOf("updated", Opened, version'[Opened])
      /\ matching' \in {matching \cup {Opened}, matching \ {Opened}}
      /\ moved' = IF PageTasks' = PageTasks THEN moved ELSE moved \cup Answers
      /\ UNCHANGED <<removed, older, filters, spent, late, excused>>
    BY DEF Updates
<1>2. next \in Version /\ version[Opened] \in 0..MaxVersion
    BY <1>0, <1>1 DEF Version
<1>3. version' \in Rows /\ version'[Opened] = next
      /\ \A u \in Task \ {Opened} : version'[u] = version[u]
  <2> HIDE DEF next
  <2> QED BY <1>0, <1>1, <1>2 DEF Rows, Version
<1>4. \A u \in Task : version[u] <= version'[u] /\ version[u] \in Nat /\ version'[u] \in Nat
    BY <1>0, <1>2, <1>3
<1>5. /\ wire' \subseteq Event /\ wire \subseteq wire'
      /\ \A x \in wire' : x \in wire \/ (x.task = Opened /\ x.version = next)
      /\ \E x \in wire' : x.task = Opened /\ x.version = next
  <2> HIDE DEF next
  <2> QED BY <1>0, <1>1, <1>2, <1>3, EventsOfFacts
<1>6. \A u \in Task : spent[u] <= version'[u]
    BY <1>0, <1>4 DEF ServerInv
<1>7. ServerInv'
  <2>1. version'[Opened] > 0 /\ \A u \in matching' : version'[u] > 0
      BY <1>0, <1>1, <1>2, <1>3 DEF ServerInv
  <2>2. \A e \in wire' : e.version > 0 /\ e.version <= version'[e.task]
    <3> TAKE e \in wire'
    <3>1. CASE e \in wire
      <4>1. e.task \in Task /\ e.version \in Nat
          BY <1>0, <3>1, OwnEvents
      <4>2. e.version > 0 /\ e.version <= version[e.task]
          BY <3>1 DEF ServerInv
      <4>3. QED BY <1>4, <4>1, <4>2
    <3>2. CASE e.task = Opened /\ e.version = next
        BY <1>2, <1>3, <3>2
    <3>3. QED BY <1>5, <3>1, <3>2
  <2>3. \A u \in Task : spent'[u] <= version'[u]
      BY <1>1, <1>6
  <2>4. ASSUME NEW u \in Task, NEW v \in 1..version'[u]
        PROVE  \/ v <= spent'[u] \/ (u = Opened /\ v = 1)
               \/ \E e \in wire' : e.task = u /\ e.version = v
    <3>1. CASE u = Opened /\ v = next
        BY <1>5, <3>1
    <3>2. CASE v \in 1..version[u]
        BY <1>1, <1>5, <3>2 DEF ServerInv
    <3>3. QED BY <1>0, <1>2, <1>3, <3>1, <3>2
  <2>5. QED BY <2>1, <2>2, <2>3, <2>4 DEF ServerInv
<1>8. \A data \in Rows : Dated(data) =>
          \A u \in Task : /\ data[u] <= version'[u]
                          /\ data[u] > 0 /\ data[u] < spent[u] => data[u] # version[u]
    BY <1>0, <1>4 DEF Dated, Rows, Version, ServerInv
<1>9. /\ matching' \subseteq Task /\ moved' \subseteq Side /\ moved \subseteq moved'
      /\ \A side \in Answers : PageTasks' # PageTasks => side \in moved'
    BY <1>0, <1>1 DEF Answers
<1>10. version[Opened] <= version'[Opened]
    BY <1>0, <1>4
<1>11. \A side \in Side : \A u \in late'[side] : u \in late[side] /\ version[u] <= version'[u]
    BY <1>0, <1>1, <1>4
<1>12. /\ UNCHANGED <<spent, excused, filters>> /\ removed' \subseteq Task
       /\ late' \in [Side -> SUBSET Task] /\ older' \in [Task -> SUBSET Task]
       /\ \A side \in Side : late[side] \subseteq late'[side]
    BY <1>0, <1>1
<1>13. \A side \in Side : \A u \in late'[side] :
          \/ u \in late[side] /\ version[u] <= version'[u]
          \/ version'[u] > 0 /\ u # Opened /\ spent[u] = 0
    BY <1>11
<1>14. \A side \in Answers : PageTasks' # PageTasks => side \in moved' \/ late'[side] # {}
    BY <1>9
<1>15. ServerMoves
    BY <1>3, <1>5, <1>7, <1>9, <1>10, <1>12 DEF ServerMoves
<1>16. SinceMoves
    BY <1>9, <1>12, <1>14 DEF SinceMoves
<1>17. LateMoves
    BY <1>13 DEF LateMoves
<1>18. RowsMove
    BY <1>8 DEF RowsMove
<1>19. QED BY <1>15, <1>16, <1>17, <1>18 DEF Widens

LEMMA RemovesWidens ==
    ASSUME CacheTypeOK, ServerInv, NEW t \in Task, Removes(t)
    PROVE  Widens
<1>0. /\ version \in [Task -> 0..MaxVersion] /\ removed \subseteq Task /\ wire \subseteq Event
      /\ matching \subseteq Task /\ older \in [Task -> SUBSET Task]
      /\ late \in [Side -> SUBSET Task] /\ moved \subseteq Side
      /\ spent \in [Task -> 0..MaxVersion] /\ Opened \in Task /\ MaxVersion \in Nat \ {0}
    BY CacheFacts
<1>1. /\ removed' = removed \cup {t}
      /\ moved' = IF PageTasks' = PageTasks THEN moved ELSE moved \cup Answers
      /\ UNCHANGED <<version, matching, older, filters, wire, spent, late, excused>>
    BY DEF Removes
<1>2. ServerInv'
    BY <1>1 DEF ServerInv
<1>3. \A data \in Rows : Dated(data) =>
          \A u \in Task : /\ data[u] <= version'[u]
                          /\ data[u] > 0 /\ data[u] < spent[u] => data[u] # version[u]
    BY <1>0, <1>1 DEF Dated, Rows, Version, ServerInv
<1>4. /\ moved' \subseteq Side /\ moved \subseteq moved'
      /\ \A side \in Answers : PageTasks' # PageTasks => side \in moved'
    BY <1>0, <1>1 DEF Answers
<1>5. version' \in Rows /\ version[Opened] <= version'[Opened]
    BY <1>0, <1>1 DEF Rows, Version
<1>6. \A side \in Side : \A u \in late'[side] : u \in late[side] /\ version[u] <= version'[u]
    BY <1>0, <1>1
<1>7. /\ UNCHANGED <<spent, excused, filters>> /\ removed' \subseteq Task
      /\ matching' \subseteq Task /\ wire' \subseteq Event
      /\ late' \in [Side -> SUBSET Task] /\ older' \in [Task -> SUBSET Task]
      /\ \A side \in Side : late[side] \subseteq late'[side]
    BY <1>0, <1>1
<1>8. \A side \in Side : \A u \in late'[side] :
          \/ u \in late[side] /\ version[u] <= version'[u]
          \/ version'[u] > 0 /\ u # Opened /\ spent[u] = 0
    BY <1>6
<1>9. \A side \in Answers : PageTasks' # PageTasks => side \in moved' \/ late'[side] # {}
    BY <1>4
<1>10. ServerMoves
    BY <1>2, <1>5, <1>7 DEF ServerMoves
<1>11. SinceMoves
    BY <1>4, <1>7, <1>9 DEF SinceMoves
<1>12. LateMoves
    BY <1>8 DEF LateMoves
<1>13. RowsMove
    BY <1>3 DEF RowsMove
<1>14. QED BY <1>10, <1>11, <1>12, <1>13 DEF Widens

(* An event comes to its end.                                              *)
LEMMA EventEnds ==
    ASSUME CacheTypeOK, ServerInv, NEW e \in wire, wire' = wire \ {e}, spent' = Ended(e),
           UNCHANGED serverVars
    PROVE  ServerInv' /\ wire' \subseteq Event /\ spent' \in [Task -> 0..MaxVersion]
<1>0. /\ version \in [Task -> 0..MaxVersion] /\ removed \subseteq Task /\ wire \subseteq Event
      /\ spent \in [Task -> 0..MaxVersion] /\ Opened \in Task /\ MaxVersion \in Nat \ {0}
    BY CacheFacts
<1>1. e \in Event /\ e.task \in Task /\ e.version \in 0..MaxVersion
      /\ e.version > 0 /\ e.version <= version[e.task] /\ UNCHANGED <<version, matching>>
    BY <1>0, OwnEvents DEF ServerInv, serverVars
<1> DEFINE last == wire \cap EventsOf(e.kind, e.task, e.version) = {e}
<1>2. spent' = IF last /\ spent[e.task] < e.version
               THEN [spent EXCEPT ![e.task] = e.version] ELSE spent
    BY DEF Ended
<1>3. /\ spent' \in [Task -> 0..MaxVersion]
      /\ \A t \in Task : spent'[t] \in Nat /\ spent[t] \in Nat /\ spent[t] <= spent'[t]
      /\ \A t \in Task : spent'[t] = spent[t] \/ (t = e.task /\ spent'[t] = e.version
                                              /\ spent[t] < e.version)
      /\ last => e.version <= spent'[e.task]
  <2> HIDE DEF last
  <2>1. CASE last /\ spent[e.task] < e.version
      BY <1>0, <1>1, <1>2, <2>1
  <2>2. CASE ~(last /\ spent[e.task] < e.version)
      BY <1>0, <1>1, <1>2, <2>2
  <2>3. QED BY <2>1, <2>2
<1>4. ~last => \E x \in wire' : x.task = e.task /\ x.version = e.version
  <2> SUFFICES ASSUME ~last
               PROVE  \E x \in wire' : x.task = e.task /\ x.version = e.version
      OBVIOUS
  <2>1. e \in EventsOf(e.kind, e.task, e.version)
      BY <1>1, OwnEvents
  <2>2. PICK x \in wire \cap EventsOf(e.kind, e.task, e.version) : x # e
      BY <2>1
  <2>3. x.task = e.task /\ x.version = e.version
      BY <2>2 DEF EventsOf
  <2>4. QED BY <2>2, <2>3
<1> HIDE DEF last
<1>5. \A t \in Task : spent'[t] <= version'[t]
    BY <1>0, <1>1, <1>3 DEF ServerInv
<1>6. ASSUME NEW t \in Task, NEW v \in 1..version'[t]
      PROVE  \/ v <= spent'[t] \/ (t = Opened /\ v = 1)
             \/ \E x \in wire' : x.task = t /\ x.version = v
  <2>1. v \in 1..version[t]
      BY <1>1
  <2>2. CASE t = e.task /\ v = e.version
      BY <1>3, <1>4, <2>2
  <2>3. CASE ~(t = e.task /\ v = e.version)
    <3>1. v <= spent[t] \/ (t = Opened /\ v = 1) \/ \E x \in wire : x.task = t /\ x.version = v
        BY <2>1 DEF ServerInv
    <3>2. QED BY <1>3, <2>3, <3>1
  <2>4. QED BY <2>2, <2>3
<1>7. QED BY <1>0, <1>1, <1>3, <1>5, <1>6 DEF ServerInv

-----------------------------------------------------------------------------
(* The steps of the cache, by what they change.                            *)

LEMMA ListFacts ==
    ASSUME CacheTypeOK, ListInv
    PROVE  /\ list.data # NoData => list.data \in Rows /\ Dated(list.data)
           /\ list.fetch = "read" => list.got \in Rows /\ Dated(list.got)
           /\ list.failed \in BOOLEAN
           /\ list.data # NoData => "data" \in Answers
           /\ list.fetch = "read" => "got" \in Answers
    BY CacheFacts, EntryFields DEF ListInv, Answers, Side

LEMMA CardFacts ==
    ASSUME CacheTypeOK, CardInv
    PROVE  /\ card.data # NoData => card.data \in Version
           /\ card.fetch = "read" => card.got \in Version
           /\ card.failed \in BOOLEAN
    BY CacheFacts, EntryFields DEF CardInv

(* The changes of the server, whoever asked for them.                      *)
Asked ==
    /\ request # NoRequest
    /\ request' = [request EXCEPT !.answered = TRUE, !.version = version'[Opened]]

LEMMA ServerChanges ==
    ASSUME CacheInv, SomeoneElse \/ CreateTask \/ UpdateTask \/ DeleteTask
    PROVE  Widens /\ UNCHANGED <<page, aware, up, list, card, losses, mine>>
           /\ (UNCHANGED request \/ Asked)
<1>1. CASE SomeoneElse
    BY <1>1, CreatesWidens, UpdatesWidens, RemovesWidens DEF SomeoneElse, CacheInv
<1>2. CASE CreateTask
    BY <1>2, CreatesWidens DEF CreateTask, Answered, Asked, CacheInv
<1>3. CASE UpdateTask
    BY <1>3, UpdatesWidens DEF UpdateTask, Answered, Asked, CacheInv
<1>4. CASE DeleteTask
    BY <1>4, RemovesWidens, CacheFacts DEF DeleteTask, Answered, Asked, CacheInv
<1>5. QED BY <1>1, <1>2, <1>3, <1>4

RequestSet == [kind : {"create", "update", "delete"}, answered : BOOLEAN, version : Version]

LEMMA RequestFacts ==
    ASSUME CacheTypeOK, request # NoRequest
    PROVE  /\ request \in RequestSet /\ request.kind \in {"create", "update", "delete"}
           /\ request.answered \in BOOLEAN /\ request.version \in Version
    BY DEF CacheTypeOK, RequestSet

LEMMA AskedFacts ==
    ASSUME CacheTypeOK, version' \in Rows, Asked
    PROVE  /\ request' \in RequestSet /\ request'.kind = request.kind
           /\ request'.version = version'[Opened]
<1>1. version'[Opened] \in Version
    BY CacheFacts DEF Rows
<1>2. QED BY <1>1, RequestFacts DEF Asked, RequestSet

LEMMA ServerChangeKeeps ==
    ASSUME CacheInv, Widens, UNCHANGED <<page, aware, up, list, card, losses, mine>>,
           UNCHANGED request \/ Asked
    PROVE  CacheInv'
<1>1. CacheTypeOK /\ ServerInv /\ ListInv /\ CardInv
    BY DEF CacheInv
<1>2. /\ version' \in Rows /\ removed' \subseteq Task /\ wire' \subseteq Event
      /\ matching' \subseteq Task /\ older' \in [Task -> SUBSET Task]
      /\ late' \in [Side -> SUBSET Task] /\ moved' \subseteq Side
      /\ UNCHANGED <<spent, excused, filters>>
      /\ version[Opened] <= version'[Opened] /\ ServerInv'
    BY DEF Widens, ServerMoves, SinceMoves, LateMoves, RowsMove
<1>3. CacheTypeOK'
  <2>1. request' \in RequestSet \cup {NoRequest}
      BY <1>1, <1>2, AskedFacts, RequestFacts
  <2>2. QED BY <1>1, <1>2, <2>1 DEF CacheTypeOK, RequestSet
<1>4. ListInv'
  <2>1. /\ version \in [Task -> 0..MaxVersion] /\ spent \in [Task -> 0..MaxVersion]
        /\ late \in [Side -> SUBSET Task] /\ version' \in [Task -> 0..MaxVersion]
        /\ MaxVersion \in Nat
      BY <1>1, <1>2, CacheFacts DEF Rows, Version
  <2>2. ASSUME NEW side \in Answers, NEW data, Accounted(side, data)
        PROVE  Accounted(side, data)'
    <3>1. side \in Side
        BY DEF Answers
    <3>2. moved \subseteq moved' /\ late[side] \subseteq late'[side]
          /\ (PageTasks' # PageTasks => side \in moved' \/ late'[side] # {})
        BY <3>1 DEF Widens, ServerMoves, SinceMoves, LateMoves, RowsMove
    <3>3. RowsOf(data)' = RowsOf(data)
        BY DEF RowsOf
    <3>4. QED BY <2>2, <3>2, <3>3 DEF Accounted
  <2>3. (list.data # NoData => Dated(list.data) /\ Accounted("data", list.data))'
      BY <1>1, <2>2, ListFacts DEF Widens, ServerMoves, SinceMoves, LateMoves, RowsMove, Dated, ListInv
  <2>4. (list.fetch = "read" => /\ list.got # NoData
                                /\ Dated(list.got) /\ Accounted("got", list.got))'
      BY <1>1, <2>2, ListFacts DEF Widens, ServerMoves, SinceMoves, LateMoves, RowsMove, Dated, ListInv
  <2>5. (\A side \in Side : \A t \in late[side] : version[t] > 0 /\ t # Opened)'
    <3> SUFFICES ASSUME NEW side \in Side, NEW t \in late'[side]
                 PROVE  version'[t] > 0 /\ t # Opened
        OBVIOUS
    <3>1. t \in Task
        BY <1>2
    <3>2. t \in late[side] => version[t] > 0 /\ t # Opened
        BY <1>1 DEF ListInv
    <3>3. \/ t \in late[side] /\ version[t] <= version'[t]
          \/ version'[t] > 0 /\ t # Opened
        BY DEF Widens, ServerMoves, SinceMoves, LateMoves, RowsMove
    <3>4. QED BY <2>1, <3>1, <3>2, <3>3
  <2>6. (page = "list" /\ ~aware /\ list.data # NoData /\ ~Fetching(list) =>
             Behind(list.data, late["data"], spent) \subseteq excused)'
    <3> SUFFICES ASSUME page = "list", ~aware, list.data # NoData, ~Fetching(list),
                        NEW t \in Task,
                        \/ /\ list.data[t] > 0 /\ list.data[t] < spent[t]
                        \/ t \in late'["data"] /\ spent[t] > 0
                 PROVE  t \in excused
      <4>1. \A u \in late'["data"] : u \in Task
          BY <1>2 DEF Side
      <4>2. QED BY <1>2, <4>1 DEF Behind, RowsOf, Fetching
    <3>1. Behind(list.data, late["data"], spent) \subseteq excused
        BY <1>1 DEF ListInv
    <3>2. list.data \in Rows /\ Dated(list.data)
        BY <1>1, ListFacts
    <3>3. CASE list.data[t] > 0 /\ list.data[t] < spent[t]
      <4>1. list.data[t] # version[t]
          BY <3>2, <3>3 DEF Widens, ServerMoves, SinceMoves, LateMoves, RowsMove
      <4>2. QED BY <3>1, <3>3, <4>1 DEF Behind, RowsOf
    <3>4. CASE t \in late'["data"] /\ spent[t] > 0
      <4>1. t \in late["data"] \/ spent[t] = 0
          BY <3>4 DEF Widens, ServerMoves, SinceMoves, LateMoves, RowsMove, Side
      <4>2. QED BY <2>1, <3>1, <3>4, <4>1 DEF Behind
    <3>5. QED BY <3>3, <3>4
  <2>7. (aware => ~up)'
      BY <1>1 DEF ListInv
  <2>8. QED BY <2>3, <2>4, <2>5, <2>6, <2>7 DEF ListInv
<1>5. CardInv'
  <2>1. card' = card /\ page' = page /\ mine' = mine
      OBVIOUS
  <2>2. version[Opened] \in Nat /\ version'[Opened] \in Nat /\ mine \in Nat
      BY <1>1, <1>2, CacheFacts DEF Rows, Version
  <2>3. (request # NoRequest /\ request.kind # "create" => card.data # NoData)'
      BY <1>1, <1>2, <2>1, AskedFacts DEF CardInv, Asked
  <2>4. (request # NoRequest /\ request.answered => request.version <= version[Opened])'
    <3>1. CASE UNCHANGED request
      <4>1. request # NoRequest => request.version \in Nat
          BY <1>1, RequestFacts DEF Version
      <4>2. QED BY <1>1, <1>2, <2>2, <3>1, <4>1 DEF CardInv
    <3>2. CASE Asked
        BY <1>1, <1>2, <2>2, <3>2, AskedFacts
    <3>3. QED BY <3>1, <3>2
  <2>5. (mine <= version[Opened])'
      BY <1>1, <1>2, <2>1, <2>2 DEF CardInv
  <2>6. QED BY <1>1, <2>1, <2>3, <2>4, <2>5 DEF CardInv, Loaded, Fetching
<1>6. QED BY <1>2, <1>3, <1>4, <1>5 DEF CacheInv

(* What an answer is compared with stays as it is.                         *)
PageStays == UNCHANGED <<version, removed, matching, older, filters>>

LEMMA PageKept ==
    ASSUME PageStays
    PROVE  PageTasks' = PageTasks
    BY DEF PageStays, PageTasks, Newer, Listed

(* The list is left alone, and the page listens no more than before.       *)
LEMMA ListStays ==
    ASSUME ListInv, PageStays, UNCHANGED <<list, sinceVars>>, aware' => ~up',
           page' = "list" /\ ~aware' =>
               page = "list" /\ ~aware /\ UNCHANGED spent /\ excused \subseteq excused'
    PROVE  ListInv'
    BY PageKept DEF ListInv, PageStays, sinceVars, Dated, Accounted, Behind, RowsOf, Fetching

(* A fetch is under way: what the list shows is about to be replaced.      *)
LEMMA ListAsked ==
    ASSUME CacheTypeOK, ListInv, PageStays, UNCHANGED sinceVars, aware' => ~up',
           list' = Fetch(list) \/ list' = Refetch(list)
    PROVE  ListInv'
<1>1. /\ list'.data = list.data /\ Fetching(list)'
      /\ list'.fetch = "read" => list.fetch = "read" /\ list'.got = list.got
  <2>1. CASE list' = Fetch(list)
      BY <2>1, CacheFacts, FetchFacts DEF Fetching
  <2>2. CASE list' = Refetch(list)
      BY <2>2, CacheFacts, RefetchFacts DEF Fetching
  <2>3. QED BY <2>1, <2>2
<1>2. QED
    BY <1>1, PageKept DEF ListInv, PageStays, sinceVars, Dated, Accounted, RowsOf

LEMMA ListKept ==
    ASSUME CacheInv, CacheNext, ~(SomeoneElse \/ CreateTask \/ UpdateTask \/ DeleteTask)
    PROVE  ListInv'
<1> USE DEF serverVars, pageVars, ghostVars
<1>0. CacheTypeOK /\ ServerInv /\ ListInv
    BY DEF CacheInv
<1>s. /\ late \in [Side -> SUBSET Task] /\ "got" \in Side /\ "data" \in Side
      /\ \A side \in Side : side = "got" \/ side = "data"
    BY <1>0, CacheFacts DEF Side
<1>1. CASE ReadList
  <2>1. /\ list'.data = list.data /\ list'.fetch = "read" /\ list'.got = PageRows
        /\ PageStays /\ UNCHANGED <<aware, up>>
        /\ late' = [late EXCEPT !["got"] = {}] /\ moved' = moved \ {"got"}
      BY <1>0, <1>1, CacheFacts, PageRowsFacts, ServedFacts DEF ReadList, PageStays
  <2>2. /\ Dated(PageRows) /\ PageRows # NoData /\ RowsOf(PageRows) = PageTasks
      BY <1>0, PageRowsFacts, CacheFacts
  <2>3. PageTasks' = PageTasks
      BY <2>1, PageKept
  <2>4. (list.fetch = "read" => /\ list.got # NoData
                                /\ Dated(list.got) /\ Accounted("got", list.got))'
      BY <2>1, <2>2, <2>3 DEF PageStays, Dated, Accounted, RowsOf
  <2>5. late'["data"] = late["data"] /\ late'["got"] = {}
      BY <1>s, <2>1
  <2>6. (list.data # NoData => Dated(list.data) /\ Accounted("data", list.data))'
      BY <1>0, <2>1, <2>3, <2>5 DEF ListInv, PageStays, Dated, Accounted, RowsOf
  <2>7. (\A side \in Side : \A t \in late[side] : version[t] > 0 /\ t # Opened)'
      BY <1>0, <1>s, <2>1, <2>5 DEF ListInv, PageStays
  <2>8. QED BY <1>0, <2>1, <2>4, <2>6, <2>7 DEF ListInv, Fetching
<1>2. CASE ListArrives
  <2>1. /\ list'.data = list.got /\ list'.fetch = "idle" /\ list.fetch = "read"
        /\ excused' = Behind(list.got, late["got"], spent)
        /\ PageStays /\ UNCHANGED <<spent, aware, up>>
        /\ late' = [late EXCEPT !["got"] = {}, !["data"] = late["got"]]
        /\ moved' = IF "got" \in moved THEN {"data"} ELSE {}
      BY <1>0, <1>2, CacheFacts, SettledFacts DEF ListArrives, PageStays
  <2>2. late'["data"] = late["got"] /\ late'["got"] = {}
      BY <1>s, <2>1
  <2>3. (list.data # NoData => Dated(list.data) /\ Accounted("data", list.data))'
      BY <1>0, <2>1, <2>2, PageKept DEF ListInv, PageStays, Dated, Accounted, RowsOf
  <2>4. (\A side \in Side : \A t \in late[side] : version[t] > 0 /\ t # Opened)'
      BY <1>0, <1>s, <2>1, <2>2 DEF ListInv, PageStays
  <2>5. (Behind(list.data, late["data"], spent) \subseteq excused)'
      BY <2>1, <2>2 DEF PageStays, Behind, RowsOf
  <2>6. QED BY <1>0, <2>1, <2>3, <2>4, <2>5 DEF ListInv
<1>3. CASE ListFails
  <2>1. /\ list'.data = list.data /\ list'.fetch = "idle"
        /\ excused' = excused \cup (IF list.data = NoData THEN {}
                                    ELSE Behind(list.data, late["data"], spent))
        /\ PageStays /\ UNCHANGED <<spent, sinceVars, aware, up>>
      BY <1>0, <1>3, CacheFacts, FailedFacts DEF ListFails, PageStays
  <2>2. QED
      BY <1>0, <2>1, PageKept
      DEF ListInv, PageStays, sinceVars, Dated, Accounted, Behind, RowsOf
<1>4. CASE ReadCard \/ CardArrives \/ CardFails \/ OpenDetails \/ Disconnect \/ SendFails
    BY <1>0, <1>4, ListStays
    DEF ReadCard, CardArrives, CardFails, OpenDetails, Disconnect, SendFails, ListInv, PageStays
<1>5. CASE \E kind \in {"create", "update", "delete"} : Send(kind)
    BY <1>0, <1>5, ListStays DEF Send, ListInv, PageStays
<1>6. CASE Focus \/ Retry
    BY <1>0, <1>6, ListStays, ListAsked DEF Focus, Retry, ListInv, PageStays
<1>7. CASE OpenList
    BY <1>0, <1>7, ListAsked DEF OpenList, PageStays
<1>8. CASE Connect
    BY <1>0, <1>8, ListStays, ListAsked DEF Connect, ListInv, PageStays
<1>9. CASE Created \/ Saved
    BY <1>0, <1>9, ListStays, ListAsked DEF Created, Saved, Invalidated, ListInv, PageStays
<1>10. CASE Deleted
    BY <1>0, <1>10, ListAsked DEF Deleted, ListInv, PageStays
<1>11. ASSUME NEW e \in wire, HandleTaskCreated(e)
       PROVE  ListInv'
    BY <1>0, <1>11, ListAsked DEF HandleTaskCreated, ListInv, PageStays
<1>12. ASSUME NEW e \in wire, Unheard(e)
       PROVE  ListInv'
  <2>1. PageStays /\ UNCHANGED <<list, page, aware, up, sinceVars>>
      BY <1>12 DEF Unheard, PageStays
  <2>2. CASE page = "list" /\ ~aware /\ list.data # NoData
    <3>1. excused' = excused \cup Behind(list.data, late["data"], spent')
        BY <1>12, <2>2 DEF Unheard
    <3>2. QED
        BY <1>0, <2>1, <3>1, PageKept
        DEF ListInv, PageStays, sinceVars, Dated, Accounted, Behind, RowsOf, Fetching
  <2>3. CASE ~(page = "list" /\ ~aware /\ list.data # NoData)
      BY <1>0, <2>1, <2>3, PageKept
      DEF ListInv, PageStays, sinceVars, Dated, Accounted, RowsOf, Fetching
  <2>4. QED BY <2>2, <2>3
<1>13. ASSUME NEW e \in wire, Lose(e)
       PROVE  ListInv'
  <2>1. /\ PageStays /\ UNCHANGED <<list, page, aware, up, sinceVars>>
        /\ excused' = IF list.data = NoData THEN excused
                      ELSE excused \cup Behind(list.data, late["data"], spent')
      BY <1>13 DEF Lose, PageStays
  <2>2. QED
      BY <1>0, <2>1, PageKept
      DEF ListInv, PageStays, sinceVars, Dated, Accounted, Behind, RowsOf, Fetching
<1>14. ASSUME NEW e \in wire, HandleTaskUpdated(e)
       PROVE  ListInv'
  <2>1. PageStays /\ UNCHANGED <<page, aware, up, sinceVars>>
      BY <1>14 DEF HandleTaskUpdated, PageStays
  <2>2. CASE list.data = NoData
      BY <1>0, <1>14, <2>1, <2>2, PageKept
      DEF HandleTaskUpdated, ListInv, PageStays, sinceVars, Dated, Accounted, RowsOf, Fetching
  <2>3. CASE list.data # NoData
    <3> DEFINE now == IF list.data[e.task] = 0 THEN list.data
                       ELSE [list.data EXCEPT ![e.task] = e.version]
    <3>1. list' = Written(list, now)
          /\ excused' = excused \cup Behind(now, late["data"], spent')
        BY <1>14, <2>3 DEF HandleTaskUpdated
    <3>2. list.data \in Rows /\ Dated(list.data)
        BY <1>0, <2>3, ListFacts
    <3>3. e.task \in Task /\ e.version \in Version /\ e.version > 0 /\ e.version <= version[e.task]
        BY <1>0, CacheFacts, OwnEvents DEF ServerInv, Version
    <3>4. now \in Rows /\ Dated(now)
        BY <3>2, <3>3, CacheFacts DEF Rows, Dated
    <3>5. RowsOf(now) = RowsOf(list.data)
      <4>1. \A t \in Task : list.data[t] \in 0..MaxVersion
          BY <3>2 DEF Rows, Version
      <4>2. MaxVersion \in Nat
          BY <1>0, CacheFacts
      <4>3. \A t \in Task : now[t] > 0 <=> list.data[t] > 0
          BY <3>2, <3>3, <4>1, <4>2 DEF Rows, Version
      <4>4. QED BY <4>3 DEF RowsOf
    <3> HIDE DEF now
    <3>6. list'.data = now /\ list'.fetch = list.fetch /\ list'.got = list.got
        BY <1>0, <3>1, <3>4, CacheFacts, WrittenFacts
    <3>7. Accounted("data", list.data)
        BY <1>0, <2>3 DEF ListInv
    <3>8. (list.data # NoData => Dated(list.data) /\ Accounted("data", list.data))'
        BY <2>1, <3>4, <3>5, <3>6, <3>7, PageKept
        DEF PageStays, sinceVars, Dated, Accounted, RowsOf
    <3>9. (list.fetch = "read" => /\ list.got # NoData
                                  /\ Dated(list.got) /\ Accounted("got", list.got))'
        BY <1>0, <2>1, <3>6, PageKept
        DEF ListInv, PageStays, sinceVars, Dated, Accounted, RowsOf
    <3>10. (Behind(list.data, late["data"], spent) \subseteq excused)'
        BY <2>1, <3>1, <3>6 DEF PageStays, sinceVars, Behind, RowsOf
    <3>11. (\A side \in Side : \A t \in late[side] : version[t] > 0 /\ t # Opened)'
        BY <1>0, <2>1 DEF ListInv, PageStays, sinceVars
    <3>12. QED BY <1>0, <2>1, <3>8, <3>9, <3>10, <3>11 DEF ListInv
  <2>4. QED BY <2>2, <2>3
<1>15. QED
    BY <1>1, <1>2, <1>3, <1>4, <1>5, <1>6, <1>7, <1>8, <1>9, <1>10, <1>11, <1>12, <1>13, <1>14
    DEF CacheNext

LEMMA ServerKept ==
    ASSUME CacheInv, CacheNext, ~(SomeoneElse \/ CreateTask \/ UpdateTask \/ DeleteTask)
    PROVE  /\ ServerInv' /\ UNCHANGED serverVars
           /\ wire' \subseteq Event /\ spent' \in [Task -> 0..MaxVersion]
<1>0. CacheTypeOK /\ ServerInv
    BY DEF CacheInv
<1>1. ASSUME NEW e \in wire,
             HandleTaskCreated(e) \/ HandleTaskUpdated(e) \/ Unheard(e) \/ Lose(e)
      PROVE  /\ ServerInv' /\ UNCHANGED serverVars
             /\ wire' \subseteq Event /\ spent' \in [Task -> 0..MaxVersion]
  <2>1. wire' = wire \ {e} /\ spent' = Ended(e) /\ UNCHANGED serverVars
      BY <1>1 DEF HandleTaskCreated, HandleTaskUpdated, Unheard, Lose
  <2>2. QED BY <1>0, <2>1, EventEnds
<1>2. CASE UNCHANGED <<serverVars, wire, spent>>
    BY <1>0, <1>2, CacheFacts DEF ServerInv, serverVars
<1>3. QED
    BY <1>1, <1>2
    DEF CacheNext, ReadList, ListArrives, ListFails, ReadCard, CardArrives, CardFails, Focus,
        Retry, OpenList, OpenDetails, Disconnect, Connect, Send, SendFails, Created, Saved,
        Deleted, serverVars, ghostVars

LEMMA BehindTyped ==
    ASSUME NEW data, NEW created \in SUBSET Task, NEW ends
    PROVE  Behind(data, created, ends) \subseteq Task
    BY DEF Behind, RowsOf

(* What the steps that leave the server alone do to the types.             *)
BrowserTyped ==
    /\ page' \in {"list", "details", "none"} /\ aware' \in BOOLEAN /\ up' \in BOOLEAN
    /\ filters' = filters
    /\ list' \in Entry(Rows) /\ card' \in Entry(Version)
    /\ request' \in RequestSet \cup {NoRequest}
    /\ losses' \in 0..MaxLosses /\ mine' \in Version
    /\ late' \in [Side -> SUBSET Task] /\ moved' \subseteq Side /\ excused' \subseteq Task

LEMMA CacheTypeKept ==
    ASSUME CacheInv, CacheNext, ~(SomeoneElse \/ CreateTask \/ UpdateTask \/ DeleteTask)
    PROVE  CacheTypeOK'
<1> USE DEF pageVars, sinceVars, ghostVars
<1>0. CacheTypeOK /\ ServerInv /\ ListInv
    BY DEF CacheInv
<1>1. /\ UNCHANGED serverVars /\ wire' \subseteq Event /\ spent' \in Rows
    BY <1>0, ServerKept DEF Rows, Version
<1>2. /\ list \in Entry(Rows) /\ card \in Entry(Version) /\ excused \subseteq Task
      /\ page \in {"list", "details", "none"} /\ aware \in BOOLEAN /\ up \in BOOLEAN
      /\ request \in RequestSet \cup {NoRequest} /\ mine \in Version
      /\ losses \in 0..MaxLosses /\ MaxLosses \in Nat /\ 0 \in Version
      /\ late \in [Side -> SUBSET Task] /\ moved \subseteq Side
    BY <1>0, CacheFacts DEF Version, CacheTypeOK, RequestSet
<1>3. /\ PageRows \in Rows /\ version[Opened] \in Version /\ {"got", "data"} \subseteq Side
    BY <1>0, CacheFacts, PageRowsFacts DEF Version, Side
<1>4. losses < MaxLosses => losses + 1 \in 0..MaxLosses
    BY <1>2
<1>5. /\ Fetch(list) \in Entry(Rows) /\ Refetch(list) \in Entry(Rows)
      /\ Settled(list) \in Entry(Rows) /\ Failed(list) \in Entry(Rows)
      /\ Served(list, PageRows) \in Entry(Rows)
    BY <1>2, <1>3, FetchFacts, RefetchFacts, SettledFacts, FailedFacts, ServedFacts
<1>6. /\ Fetch(card) \in Entry(Version) /\ Refetch(card) \in Entry(Version)
      /\ Settled(card) \in Entry(Version) /\ Failed(card) \in Entry(Version)
      /\ Served(card, version[Opened]) \in Entry(Version) /\ Unloaded \in Entry(Version)
    BY <1>2, <1>3, FetchFacts, RefetchFacts, SettledFacts, FailedFacts, ServedFacts,
       UnloadedFacts
<1>7. \A side \in Side : late[side] \in SUBSET Task
    BY <1>2
<1>8. ASSUME BrowserTyped
      PROVE  CacheTypeOK'
    BY <1>0, <1>1, <1>8 DEF BrowserTyped, CacheTypeOK, RequestSet, serverVars
<1>9. CASE ReadList
    BY <1>2, <1>3, <1>5, <1>8, <1>9 DEF ReadList, BrowserTyped
<1>10. CASE ListArrives
    BY <1>2, <1>3, <1>5, <1>7, <1>8, <1>10, BehindTyped DEF ListArrives, BrowserTyped
<1>11. CASE ListFails
    BY <1>2, <1>3, <1>4, <1>5, <1>7, <1>8, <1>11, BehindTyped DEF ListFails, BrowserTyped
<1>12. CASE ReadCard \/ CardArrives \/ CardFails
    BY <1>2, <1>4, <1>6, <1>8, <1>12 DEF ReadCard, CardArrives, CardFails, BrowserTyped
<1>13. CASE Focus \/ Retry
    BY <1>2, <1>5, <1>6, <1>8, <1>13 DEF Focus, Retry, BrowserTyped
<1>14. CASE OpenList \/ OpenDetails
    BY <1>2, <1>5, <1>6, <1>8, <1>14 DEF OpenList, OpenDetails, BrowserTyped
<1>15. CASE Disconnect \/ Connect
    BY <1>2, <1>5, <1>8, <1>15 DEF Disconnect, Connect, BrowserTyped
<1>16. CASE SendFails
    BY <1>2, <1>4, <1>8, <1>16 DEF SendFails, BrowserTyped
<1>17. CASE Created
    BY <1>2, <1>5, <1>8, <1>17 DEF Created, Invalidated, BrowserTyped
<1>18. ASSUME NEW kind \in {"create", "update", "delete"}, Send(kind)
       PROVE  CacheTypeOK'
  <2>1. request' \in RequestSet
      BY <1>2, <1>18 DEF Send, RequestSet
  <2>2. QED BY <1>2, <1>8, <1>18, <2>1 DEF Send, BrowserTyped
<1>19. CASE Saved
  <2>1. request.version \in Version
      BY <1>0, <1>19, RequestFacts DEF Saved
  <2>2. Invalidated(card, page = "details") \in Entry(Version)
      BY <1>2, <1>6 DEF Invalidated
  <2>3. card' \in Entry(Version) /\ mine' \in Version /\ list' \in Entry(Rows)
      BY <1>2, <1>5, <1>19, <2>1, <2>2, WrittenFacts DEF Saved, Invalidated
  <2>4. QED BY <1>2, <1>8, <1>19, <2>3 DEF Saved, BrowserTyped
<1>20. CASE Deleted
    BY <1>2, <1>5, <1>6, <1>8, <1>20 DEF Deleted, BrowserTyped
<1>21. ASSUME NEW e \in wire, HandleTaskCreated(e)
       PROVE  CacheTypeOK'
    BY <1>2, <1>5, <1>8, <1>21 DEF HandleTaskCreated, BrowserTyped
<1>22. ASSUME NEW e \in wire, Unheard(e)
       PROVE  CacheTypeOK'
    BY <1>2, <1>3, <1>7, <1>8, <1>22, BehindTyped DEF Unheard, BrowserTyped
<1>23. ASSUME NEW e \in wire, Lose(e)
       PROVE  CacheTypeOK'
    BY <1>2, <1>3, <1>4, <1>7, <1>8, <1>23, BehindTyped DEF Lose, BrowserTyped
<1>24. ASSUME NEW e \in wire, HandleTaskUpdated(e)
       PROVE  CacheTypeOK'
  <2>1. e.task \in Task /\ e.version \in Version
      BY <1>0, CacheFacts, OwnEvents DEF Version
  <2>2. card' \in Entry(Version)
      BY <1>2, <1>24, <2>1, WrittenFacts DEF HandleTaskUpdated
  <2>3. list' \in Entry(Rows) /\ excused' \subseteq Task
    <3>1. CASE list.data = NoData
        BY <1>2, <1>24, <3>1 DEF HandleTaskUpdated
    <3>2. CASE list.data # NoData
      <4> DEFINE now == IF list.data[e.task] = 0 THEN list.data
                         ELSE [list.data EXCEPT ![e.task] = e.version]
      <4>1. /\ list' = Written(list, now)
            /\ excused' = excused \cup Behind(now, late["data"], spent')
          BY <1>24, <3>2 DEF HandleTaskUpdated
      <4>2. list.data \in Rows
          BY <1>0, <3>2, ListFacts
      <4>3. now \in Rows
          BY <2>1, <4>2 DEF Rows
      <4> HIDE DEF now
      <4>4. QED BY <1>2, <1>3, <1>7, <4>1, <4>3, WrittenFacts, BehindTyped
    <3>3. QED BY <3>1, <3>2
  <2>4. QED BY <1>2, <1>8, <1>24, <2>2, <2>3 DEF HandleTaskUpdated, BrowserTyped
<1>25. QED
    BY <1>9, <1>10, <1>11, <1>12, <1>13, <1>14, <1>15, <1>16, <1>17, <1>18, <1>19, <1>20,
       <1>21, <1>22, <1>23, <1>24 DEF CacheNext

LEMMA CardStays ==
    ASSUME CardInv, UNCHANGED <<version, mine>>, card' = card,
           page' = "details" => page = "details",
           request' = request \/ request' = NoRequest
    PROVE  CardInv'
    BY DEF CardInv, Loaded, Fetching

LEMMA CardAsked ==
    ASSUME CacheTypeOK, CardInv, UNCHANGED <<version, mine, request>>,
           card' = Fetch(card) \/ card' = Refetch(card)
    PROVE  CardInv'
<1>1. /\ card'.data = card.data /\ Fetching(card)'
      /\ card'.fetch = "read" => card.fetch = "read" /\ card'.got = card.got
  <2>1. CASE card' = Fetch(card)
      BY <2>1, CacheFacts, FetchFacts DEF Fetching
  <2>2. CASE card' = Refetch(card)
      BY <2>2, CacheFacts, RefetchFacts DEF Fetching
  <2>3. QED BY <2>1, <2>2
<1>2. QED BY <1>1 DEF CardInv

LEMMA CardKept ==
    ASSUME CacheInv, CacheNext, ~(SomeoneElse \/ CreateTask \/ UpdateTask \/ DeleteTask)
    PROVE  CardInv'
<1> USE DEF serverVars, pageVars, ghostVars
<1>0. CacheTypeOK /\ ServerInv /\ CardInv
    BY DEF CacheInv
<1>1. version[Opened] \in 0..MaxVersion /\ mine \in 0..MaxVersion
    BY <1>0, CacheFacts
<1>2. CASE ReadList \/ ListArrives \/ ListFails \/ OpenList \/ Disconnect \/ Connect
           \/ SendFails \/ Created
    BY <1>0, <1>2, CardStays
    DEF ReadList, ListArrives, ListFails, OpenList, Disconnect, Connect, SendFails, Created
<1>3. CASE ReadCard
  <2>1. /\ card'.data = card.data /\ card'.fetch = "read" /\ card'.got = version[Opened]
        /\ UNCHANGED <<version, mine, request>>
      BY <1>0, <1>1, <1>3, CacheFacts, ServedFacts DEF ReadCard, Version
  <2>2. version[Opened] # NoData
      BY <1>1, CacheFacts, <1>0 DEF Version
  <2>3. QED BY <1>0, <2>1, <2>2 DEF CardInv, Fetching
<1>4. CASE CardArrives
  <2>1. /\ card'.data = card.got /\ card'.fetch = "idle" /\ card.fetch = "read"
        /\ UNCHANGED <<version, mine, request>>
      BY <1>0, <1>4, CacheFacts, SettledFacts DEF CardArrives
  <2>2. QED BY <1>0, <2>1 DEF CardInv
<1>5. CASE CardFails
  <2>1. /\ card'.data = card.data /\ card'.failed /\ card'.fetch = "idle"
        /\ UNCHANGED <<version, mine, request>>
      BY <1>0, <1>5, CacheFacts, FailedFacts DEF CardFails
  <2>2. QED BY <1>0, <2>1 DEF CardInv, Loaded
<1>6. CASE Focus \/ Retry
    BY <1>0, <1>6, CardStays, CardAsked DEF Focus, Retry
<1>7. CASE OpenDetails
    BY <1>0, <1>7, CardAsked DEF OpenDetails
<1>8. ASSUME NEW e \in wire, HandleTaskCreated(e) \/ Unheard(e) \/ Lose(e)
      PROVE  CardInv'
    BY <1>0, <1>8, CardStays DEF HandleTaskCreated, Unheard, Lose
<1>9. ASSUME NEW e \in wire, HandleTaskUpdated(e)
      PROVE  CardInv'
  <2>1. e.version \in Version /\ e.version # NoData
      BY <1>0, CacheFacts, OwnEvents DEF Version
  <2>2. /\ card'.data = e.version /\ card'.fetch = card.fetch /\ card'.got = card.got
        /\ page' = "list" /\ UNCHANGED <<version, mine, request>>
      BY <1>0, <1>9, <2>1, CacheFacts, WrittenFacts DEF HandleTaskUpdated, Listening
  <2>3. QED BY <1>0, <2>1, <2>2 DEF CardInv
<1>10. ASSUME NEW kind \in {"create", "update", "delete"}, Send(kind)
       PROVE  CardInv'
    BY <1>0, <1>10 DEF Send, CardInv, Loaded, Fetching
<1>11. CASE Saved
  <2>1. /\ request # NoRequest /\ request.answered /\ request.kind = "update"
        /\ request' = NoRequest /\ page' = page /\ version' = version
        /\ card' = Written(Invalidated(card, page = "details"), request.version)
        /\ mine' = IF page = "details" THEN request.version ELSE 0
      BY <1>11 DEF Saved
  <2>2. /\ request.version \in Version /\ request.version <= version[Opened]
        /\ card.data # NoData
      BY <1>0, <2>1, RequestFacts DEF CardInv
  <2>3. CASE page = "details"
    <3>1. /\ Refetch(card) \in Entry(Version) /\ Refetch(card).fetch # "idle"
          /\ Refetch(card).fetch # "read"
        BY <1>0, <2>2, CacheFacts, RefetchFacts DEF Fetching
    <3>2. card'.data = request.version /\ card'.fetch # "idle" /\ card'.fetch # "read"
        BY <2>1, <2>2, <2>3, <3>1, WrittenFacts DEF Invalidated
    <3>3. QED BY <2>1, <2>2, <2>3, <3>2 DEF CardInv, Fetching
  <2>4. CASE page # "details"
    <3>1. card'.fetch = card.fetch /\ card'.got = card.got /\ mine' = 0
        BY <1>0, <2>1, <2>2, <2>4, CacheFacts, WrittenFacts DEF Invalidated
    <3>2. card.fetch = "read" => card.got \in 0..MaxVersion /\ card.got # NoData
        BY <1>0, CardFacts DEF CardInv, Version
    <3>3. QED BY <1>1, <2>1, <2>4, <3>1, <3>2 DEF CardInv
  <2>5. QED BY <2>3, <2>4
<1>12. CASE Deleted
  <2>1. card' = Unloaded /\ mine' = 0 /\ request' = NoRequest /\ version' = version
      BY <1>12 DEF Deleted
  <2>2. QED BY <1>1, <2>1, UnloadedFacts DEF CardInv, Loaded
<1>13. QED
    BY <1>2, <1>3, <1>4, <1>5, <1>6, <1>7, <1>8, <1>9, <1>10, <1>11, <1>12 DEF CacheNext

LEMMA CacheKept ==
    ASSUME CacheInv, CacheNext
    PROVE  CacheInv'
<1>1. CASE SomeoneElse \/ CreateTask \/ UpdateTask \/ DeleteTask
    BY <1>1, ServerChanges, ServerChangeKeeps
<1>2. CASE ~(SomeoneElse \/ CreateTask \/ UpdateTask \/ DeleteTask)
    BY <1>2, ServerKept, ListKept, CacheTypeKept, CardKept DEF CacheInv
<1>3. QED BY <1>1, <1>2

LEMMA CacheStarts ==
    ASSUME CacheInit
    PROVE  CacheInv
<1>1. /\ version = [t \in Task |-> IF t = Opened THEN 1 ELSE 0] /\ removed = {}
      /\ wire = {} /\ up = TRUE /\ page = "none" /\ aware = FALSE
      /\ list = Unloaded /\ card = Unloaded /\ request = NoRequest /\ losses = 0
      /\ spent = [t \in Task |-> 0] /\ excused = {} /\ mine = 0
      /\ matching \in SUBSET {Opened} /\ older = [t \in Task |-> {}] /\ filters \in Slice
      /\ late = [side \in Side |-> {}] /\ moved = {}
    BY DEF CacheInit
<1>2. /\ Opened \in Task /\ MaxVersion \in Nat \ {0} /\ MaxLosses \in Nat
    BY TaskAssumption
<1>3. version \in Rows /\ spent \in Rows /\ version[Opened] = 1
      /\ \A t \in Task : version[t] \in 0..1 /\ spent[t] = 0 /\ (version[t] = 1 => t = Opened)
    BY <1>1, <1>2 DEF Rows, Version
<1>4. CacheTypeOK
  <2>1. Unloaded \in Entry(Rows) /\ Unloaded \in Entry(Version) /\ 0 \in Version
      BY <1>2, UnloadedFacts DEF Version
  <2>2. /\ removed \subseteq Task /\ wire \subseteq Event /\ page \in {"list", "details", "none"}
        /\ up \in BOOLEAN /\ aware \in BOOLEAN /\ excused \subseteq Task
      BY <1>1
  <2>3. losses \in 0..MaxLosses /\ mine \in Version /\ request = NoRequest
      BY <1>1, <1>2, <2>1
  <2>4. list \in Entry(Rows) /\ card \in Entry(Version)
      BY <1>1, <2>1
  <2>5. /\ matching \subseteq Task /\ older \in [Task -> SUBSET Task] /\ filters \in Slice
        /\ late \in [Side -> SUBSET Task] /\ moved \subseteq Side
      BY <1>1, <1>2
  <2>6. QED BY <1>3, <2>2, <2>3, <2>4, <2>5 DEF CacheTypeOK
<1>5. ServerInv
    BY <1>1, <1>2, <1>3 DEF ServerInv
<1>6. QED
    BY <1>1, <1>3, <1>4, <1>5, UnloadedFacts DEF CacheInv, ListInv, CardInv, Loaded

LEMMA RowsKnown ==
    ASSUME CacheInv
    PROVE  RowsExplained
<1> SUFFICES ASSUME wire = {}, Listening, Loaded(list), ~Fetching(list)
             PROVE  /\ \A t \in RowsOf(list.data) : list.data[t] = version[t] \/ t \in excused
                    /\ \/ RowsOf(list.data) = PageTasks
                       \/ "data" \in moved
                       \/ late["data"] # {} /\ late["data"] \subseteq excused
    BY DEF RowsExplained
<1>0. CacheTypeOK /\ ServerInv /\ ListInv
    BY DEF CacheInv
<1>1. /\ list.data \in Rows /\ Dated(list.data) /\ Accounted("data", list.data)
      /\ Behind(list.data, late["data"], spent) \subseteq excused
    BY <1>0, ListFacts DEF ListInv, Listening, Loaded
<1>2. /\ version \in [Task -> 0..MaxVersion] /\ spent \in [Task -> 0..MaxVersion]
      /\ list.data \in [Task -> 0..MaxVersion] /\ MaxVersion \in Nat
      /\ late["data"] \subseteq Task
    BY <1>0, <1>1, CacheFacts DEF Rows, Version, Side
<1>3. \A t \in Task : version[t] = 0 \/ version[t] <= spent[t] \/ (t = Opened /\ version[t] = 1)
    BY <1>0, <1>2 DEF ServerInv
<1>4. ASSUME NEW t \in RowsOf(list.data), list.data[t] # version[t]
      PROVE  t \in excused
  <2>1. t \in Task /\ list.data[t] > 0 /\ list.data[t] <= version[t]
      BY <1>1 DEF RowsOf, Dated
  <2>2. list.data[t] < spent[t]
      BY <1>2, <1>3, <1>4, <2>1
  <2>3. QED BY <1>1, <1>4, <2>2 DEF Behind
<1>5. late["data"] \subseteq excused
  <2> SUFFICES ASSUME NEW t \in late["data"]
               PROVE  t \in excused
      OBVIOUS
  <2>1. t \in Task /\ version[t] > 0 /\ t # Opened
      BY <1>0, <1>2 DEF ListInv, Side
  <2>2. spent[t] > 0
      BY <1>2, <1>3, <2>1
  <2>3. QED BY <1>1, <2>2 DEF Behind
<1>6. QED BY <1>1, <1>4, <1>5 DEF Accounted

LEMMA WritesRead ==
    ASSUME CacheInv
    PROVE  ReadYourWrites
    BY DEF CacheInv, CardInv, ReadYourWrites

-----------------------------------------------------------------------------
(* The paged lists.                                                        *)

(* How many entries lie before a page of comments or of the audit log.     *)
BeforePage(p) == (p - 1) * EntrySize

EntriesView == {CommentsView, HistoryView}

(* Of n entries on the server, m are known of for page p.                  *)
Filled(p, n, m) == m <= n /\ (p > 1 => BeforePage(p) < m)

(* Entries are only added, so as many were counted as were read, or more.  *)
AnswerKept(a, p, n) ==
    /\ Filled(p, n, a.at)
    /\ a.total # NoData => a.at <= a.total /\ a.total <= n

EntryKept(e, p, n, here) ==
    /\ e.data # NoData => AnswerKept(e.data, p, n)
    /\ e.fetch = "read" => e.got # NoData /\ AnswerKept(e.got, p, n)
    /\ Fetching(e) => here /\ Filled(p, n, n)

(* An answer is counted before it arrives.                                 *)
Counted(e) ==
    /\ e.data # NoData => e.data.total # NoData
    /\ e.fetch = "read" => e.got # NoData

(* Entries are only added, so a page that was fetched once has a row.      *)
EntriesInv ==
    /\ \A k \in Key : k[1] \in EntriesView =>
          EntryKept(entries[k], k[2], rows[k[1].filter], view = k[1])
    /\ view \in EntriesView /\ current > 1 => BeforePage(current) < rows[view.filter]
    /\ \A k \in Key : k[1] \in TaskView /\ Fetching(entries[k]) => view \in TaskView
    /\ \A k \in Key : Counted(entries[k])

(* The entry of the newest comments.                                       *)
Newcomers == entries[<<CommentsView, 1>>]

CommentsInv ==
    /\ publish.stage # "none" => view = CommentsView
    /\ publish.stage = "stored" => publish.count <= rows["comments"]
    /\ published <= rows["comments"]
    /\ Newcomers.fetch = "read" /\ ~overtaken => Newcomers.got.at >= published
    /\ view = CommentsView /\ current # 1 => ~Fetching(Newcomers)
    /\ view = CommentsView /\ current = 1 /\ Loaded(Newcomers) /\ ~Fetching(Newcomers) =>
           Newcomers.data.at >= published \/ overtaken

(* The page of the tasks that is shown is one there is, as far as known.   *)
ViewInv ==
    /\ PagesTypeOK
    /\ \A f \in Filter : rows[f] <= Bound(f)
    /\ ~Overrun(view, current, entries)
    /\ EntriesInv

PagesInv == ViewInv /\ CommentsInv

(* Natural numbers.                                                        *)

LEMMA LeastOf ==
    ASSUME NEW S, S \subseteq Nat, S # {}
    PROVE  Min(S) \in S /\ \A m \in S : Min(S) <= m
<1>1. IsWellFoundedOn(OpToRel(<, Nat), Nat)
    BY NatLessThanWellFounded
<1>2. PICK n \in S : \A m \in S : ~ (<<m, n>> \in OpToRel(<, Nat))
    BY <1>1, WFMin
<1>3. \A m \in S : m \in Nat /\ n \in Nat
    OBVIOUS
<1>4. \A m \in S : ~(m < n)
    BY <1>2, <1>3, Zenon DEF OpToRel
<1>5. \A m \in S : n <= m
    BY <1>3, <1>4
<1>6. QED BY <1>5 DEF Min

LEMMA Products ==
    ASSUME NEW p \in Nat, NEW q \in Nat, NEW s \in Nat \ {0}
    PROVE  /\ p * s \in Nat
           /\ p <= q => p * s <= q * s
           /\ p > q => p * s >= q * s + s
    OBVIOUS

LEMMA PageOffset ==
    ASSUME NEW p \in Nat \ {0}, NEW s \in Nat \ {0}
    PROVE  (p - 1) * s \in Nat /\ p * s = (p - 1) * s + s
    OBVIOUS

(* A page is one of the pages if there are rows behind those before it.    *)
LEMMA PagesOfFacts ==
    ASSUME NEW n \in Nat, NEW s \in Nat \ {0}
    PROVE  /\ PagesOf(n, s) \in Nat /\ PagesOf(n, s) <= n
           /\ \A p \in Nat \ {0} : p <= PagesOf(n, s) <=> (p - 1) * s < n
<1> DEFINE q == PagesOf(n, s)
<1>1. q \in Nat /\ q * s <= n + s - 1 /\ n + s - 1 < q * s + s
  <2>1. n + s - 1 \in Nat
      OBVIOUS
  <2>2. \A k \in Nat : k \div s \in Nat /\ (k \div s) * s <= k /\ k < (k \div s) * s + s
      OBVIOUS
  <2>3. QED BY <2>1, <2>2 DEF PagesOf
<1> HIDE DEF q
<1>2. ASSUME NEW p \in Nat \ {0}
      PROVE  p <= q <=> (p - 1) * s < n
  <2>1. /\ p * s = (p - 1) * s + s /\ p * s \in Nat /\ q * s \in Nat
        /\ p <= q => p * s <= q * s
        /\ p > q => p * s >= q * s + s
      BY <1>1, Products, PageOffset
  <2>2. QED BY <1>1, <2>1
<1>3. ~(n + 1 <= q)
  <2>1. (n + 1 - 1) * s = n * s
      OBVIOUS
  <2>2. n * s >= n
      OBVIOUS
  <2>3. ~((n + 1 - 1) * s < n)
      BY <2>1, <2>2
  <2>4. QED BY <1>2, <2>3
<1>4. QED BY <1>1, <1>2, <1>3 DEF q

LEMMA RowsOnFacts ==
    ASSUME NEW p \in Nat \ {0}, NEW s \in Nat \ {0}, NEW n \in Nat
    PROVE  /\ (p - 1) * s < n =>
                  RowsOn(p, s, n) = IF p * s <= n THEN s ELSE n - (p - 1) * s
           /\ (p - 1) * s >= n => RowsOn(p, s, n) = 0
<1> DEFINE before == (p - 1) * s
<1>1. before \in Nat /\ p * s = before + s
    BY PageOffset
<1> HIDE DEF before
<1> DEFINE least == Min({s, n - before})
<1>2. least = IF s <= n - before THEN s ELSE n - before
    BY <1>1, MinOfTwo
<1>3. RowsOn(p, s, n) = Max({0, least})
    BY DEF RowsOn, before
<1> HIDE DEF least
<1>4. Max({0, least}) = IF 0 >= least THEN 0 ELSE least
    BY <1>1, <1>2, MaxOfTwo
<1>5. /\ before < n => RowsOn(p, s, n) = IF p * s <= n THEN s ELSE n - before
      /\ before >= n => RowsOn(p, s, n) = 0
    BY <1>1, <1>2, <1>3, <1>4
<1>6. QED BY <1>5 DEF before

-----------------------------------------------------------------------------
(* The constants.                                                          *)

LEMMA BoundFacts ==
    /\ MaxAny \in Nat \ {0} /\ MaxRows \in 0..MaxAny /\ MaxEntries \in 0..MaxAny
    /\ \A f \in Filter : Bound(f) \in 0..MaxAny
    /\ 1 \in Page /\ Page \subseteq Nat \ {0}
<1>1. MaxRows \in Nat /\ MaxEntries \in Nat /\ MaxRows + MaxEntries > 0
    BY PagesAssumption
<1>2. MaxAny = IF MaxRows >= MaxEntries THEN MaxRows ELSE MaxEntries
    BY <1>1, MaxOfTwo DEF MaxAny
<1>3. QED BY <1>1, <1>2 DEF Bound, Page

LEMMA ViewFacts ==
    /\ CommentsView \in View /\ HistoryView \in View /\ CommentsView # HistoryView
    /\ CommentsView \notin TaskView /\ HistoryView \notin TaskView
    /\ CommentsView.filter = "comments" /\ HistoryView.filter = "audit-log"
    /\ CommentsView.size = EntrySize /\ HistoryView.size = EntrySize
    /\ "comments" \in Filter /\ "audit-log" \in Filter
<1>1. CommentsView.filter = "comments" /\ HistoryView.filter = "audit-log"
      /\ CommentsView.size = EntrySize /\ HistoryView.size = EntrySize
    BY DEF CommentsView, HistoryView
<1>2. CommentsView \in View /\ HistoryView \in View
    BY DEF View
<1>3. CommentsView \notin TaskView /\ HistoryView \notin TaskView
    BY <1>1, PagesAssumption DEF EntriesFilter
<1>4. "comments" \in Filter /\ "audit-log" \in Filter
    BY <1>1, <1>2 DEF Filter
<1>5. QED BY <1>1, <1>2, <1>3, <1>4

LEMMA EachView ==
    ASSUME NEW v \in View
    PROVE  /\ v \in TaskView \/ v = CommentsView \/ v = HistoryView
           /\ v.size \in Nat \ {0} /\ v.filter \in Filter
           /\ v \in TaskView => v.filter \notin EntriesFilter
    BY PagesAssumption DEF View, Filter

LEMMA KeyFacts ==
    /\ \A v \in View, p \in Page : <<v, p>> \in Key
    /\ \A k \in Key : k[1] \in View /\ k[2] \in Page /\ k = <<k[1], k[2]>>
    BY DEF Key

Counts == 0..MaxAny
Cache == [Key -> Entry(Answer)]

LEMMA AnswerFields ==
    ASSUME NEW a \in Answer
    PROVE  /\ a.at \in Counts /\ a.at \in Nat /\ a.at <= MaxAny
           /\ a.total # NoData => a.total \in Counts /\ a.total \in Nat /\ a.total <= MaxAny
           /\ a # NoData
<1>1. NoData \notin Answer /\ MaxAny \in Nat
    BY PagesAssumption, BoundFacts
<1>2. a.at \in Counts /\ a.total \in Counts \cup {NoData}
    BY DEF Answer, Counts
<1>3. QED BY <1>1, <1>2 DEF Counts

LEMMA PagesFacts ==
    ASSUME PagesTypeOK
    PROVE  /\ rows \in [Filter -> Counts] /\ view \in View /\ current \in Page
           /\ entries \in Cache /\ \A k \in Key : entries[k] \in Entry(Answer)
           /\ <<view, current>> \in Key /\ Shown \in Entry(Answer)
           /\ publish \in [stage : {"none", "sent", "stored"}, count : 0..MaxEntries]
           /\ moves \in 0..MaxMoves /\ fails \in 0..MaxFails
           /\ published \in 0..MaxEntries /\ overtaken \in BOOLEAN
    BY KeyFacts DEF PagesTypeOK, Counts, Cache, Shown

-----------------------------------------------------------------------------
(* The page that comes up.                                                 *)

LEMMA LastPageFacts ==
    ASSUME NEW v \in View, NEW p \in Page, NEW cache \in Cache, Overrun(v, p, cache),
           \A k \in Key : Counted(cache[k])
    PROVE  LastPage(v, p, cache) \in 1..p - 1
<1> DEFINE n == cache[<<v, p>>].data.total
           last == PagesOf(n, v.size)
<1>1. n \in Nat
  <2>1. /\ <<v, p>> \in Key /\ cache[<<v, p>>] \in Entry(Answer)
        /\ cache[<<v, p>>].data # NoData
      BY KeyFacts DEF Overrun, Cache
  <2>2. cache[<<v, p>>].data \in Answer /\ n # NoData
      BY <2>1, EntryFields DEF Counted
  <2>3. QED BY <2>2, AnswerFields
<1>2. last \in Int
    BY <1>1, PagesOfFacts, EachView
<1>3. LastPage(v, p, cache) = Max({1, last})
    BY DEF LastPage
<1> HIDE DEF last
<1>4. Max({1, last}) = IF 1 >= last THEN 1 ELSE last
    BY <1>2, MaxOfTwo
<1>5. p \in Nat /\ p > LastPage(v, p, cache)
    BY BoundFacts DEF Overrun
<1>6. QED BY <1>2, <1>3, <1>4, <1>5

LEMMA CorrectedFacts ==
    ASSUME NEW v \in View, NEW p \in Page, NEW cache \in Cache,
           \A k \in Key : Counted(cache[k])
    PROVE  /\ p \in Corrected(v, p, cache) /\ Corrected(v, p, cache) \subseteq 1..p
           /\ \A q \in Corrected(v, p, cache) : Overrun(v, q, cache) =>
                  LastPage(v, q, cache) \in Corrected(v, p, cache)
           /\ v \notin TaskView => Corrected(v, p, cache) = {p}
<1> DEFINE Reaches(S) == /\ p \in S
                        /\ \A q \in S : Overrun(v, q, cache) => LastPage(v, q, cache) \in S
           C == Corrected(v, p, cache)
<1>1. p \in Nat \ {0} /\ 1..p \subseteq Page
    BY BoundFacts DEF Page
<1>2. \A q : q \in C <=> q \in 1..p /\ \A S \in SUBSET (1..p) : Reaches(S) => q \in S
    BY DEF Corrected
<1> HIDE DEF C
<1>3. p \in C /\ C \subseteq 1..p
    BY <1>1, <1>2
<1>4. ASSUME NEW q \in C, Overrun(v, q, cache)
      PROVE  LastPage(v, q, cache) \in C
  <2>1. q \in Page /\ q \in 1..p
      BY <1>1, <1>3
  <2>2. LastPage(v, q, cache) \in 1..q - 1
      BY <1>4, <2>1, LastPageFacts
  <2>3. LastPage(v, q, cache) \in 1..p
      BY <1>1, <2>1, <2>2
  <2>4. QED BY <1>2, <1>4, <2>3
<1>5. ASSUME v \notin TaskView
      PROVE  C = {p}
  <2>1. Reaches({p}) /\ {p} \in SUBSET (1..p)
      BY <1>1, <1>5 DEF Overrun
  <2>2. QED BY <1>2, <1>3, <2>1
<1>6. QED BY <1>3, <1>4, <1>5 DEF C

LEMMA DisplayFacts ==
    ASSUME NEW v \in View, NEW p \in Page, NEW cache \in Cache, view \in View, current \in Page,
           Display(v, p, cache), \A k \in Key : Counted(cache[k])
    PROVE  /\ view' = v /\ current' \in Page /\ entries' \in Cache
           /\ ~Overrun(view, current, entries)'
           /\ \A k \in Key : entries'[k] = cache[k] \/ (k[1] = v /\ entries'[k] = Fetch(cache[k]))
           /\ v \notin TaskView =>
                  /\ current' = p
                  /\ \A k \in Key : k # <<v, p>> => entries'[k] = cache[k]
                  /\ entries'[<<v, p>>] = IF <<v, p>> = <<view, current>> THEN cache[<<v, p>>]
                                          ELSE Fetch(cache[<<v, p>>])
<1> DEFINE visited == Corrected(v, p, cache)
           mounted == {<<v, q>> : q \in visited} \ {<<view, current>>}
<1>1. /\ view' = v /\ current' = Min(visited)
      /\ entries' = [k \in Key |-> IF k \in mounted THEN Fetch(cache[k]) ELSE cache[k]]
    BY DEF Display
<1>2. /\ p \in visited /\ visited \subseteq 1..p /\ p \in Nat
      /\ \A q \in visited : Overrun(v, q, cache) => LastPage(v, q, cache) \in visited
      /\ v \notin TaskView => visited = {p}
    BY CorrectedFacts, BoundFacts
<1> HIDE DEF visited
<1>3. current' \in visited /\ \A q \in visited : current' <= q
  <2>1. visited \subseteq Nat /\ visited # {}
      BY <1>2
  <2>2. QED BY <1>1, <2>1, LeastOf
<1>4. current' \in Page /\ current' \in 1..p
    BY <1>2, <1>3, BoundFacts DEF Page
<1>5. ~Overrun(v, current', cache)
  <2> SUFFICES ASSUME Overrun(v, current', cache)
               PROVE  FALSE
      OBVIOUS
  <2>1. PICK q \in Page : q = current'
      BY <1>4
  <2>2. LastPage(v, q, cache) \in 1..q - 1 /\ LastPage(v, q, cache) \in visited
      BY <1>2, <1>3, <2>1, LastPageFacts
  <2>3. QED BY <1>3, <1>4, <2>1, <2>2
<1>6. \A k \in Key : cache[k] \in Entry(Answer)
    BY DEF Cache
<1>7. \A k \in Key : /\ entries'[k] = IF k \in mounted THEN Fetch(cache[k]) ELSE cache[k]
                     /\ entries'[k] \in Entry(Answer) /\ entries'[k].data = cache[k].data
    BY <1>1, <1>6, FetchFacts
<1>8. entries' \in Cache
    BY <1>1, <1>7 DEF Cache
<1>9. ~Overrun(view, current, entries)'
  <2>1. entries'[<<view', current'>>].data = cache[<<v, current'>>].data
      BY <1>1, <1>4, <1>7, KeyFacts
  <2>2. QED BY <1>1, <1>5, <2>1 DEF Overrun, LastPage
<1>10. ASSUME v \notin TaskView
       PROVE  /\ current' = p
              /\ \A k \in Key : k # <<v, p>> => entries'[k] = cache[k]
              /\ entries'[<<v, p>>] = IF <<v, p>> = <<view, current>> THEN cache[<<v, p>>]
                                      ELSE Fetch(cache[<<v, p>>])
  <2>1. visited = {p} /\ mounted = {<<v, p>>} \ {<<view, current>>}
      BY <1>2, <1>10
  <2>2. current' = p
      BY <1>3, <2>1
  <2> HIDE DEF mounted
  <2>3. QED BY <1>7, <2>1, <2>2, KeyFacts
<1>11. \A k \in mounted : k[1] = v
    OBVIOUS
<1> HIDE DEF mounted
<1>12. QED BY <1>1, <1>4, <1>7, <1>8, <1>9, <1>10, <1>11

(* An update of one entry.                                                 *)
LEMMA UpdateFacts ==
    ASSUME entries \in Cache, NEW k \in Key, NEW e \in Entry(Answer)
    PROVE  /\ Update(k, e) \in Cache /\ Update(k, e)[k] = e
           /\ \A l \in Key : l # k => Update(k, e)[l] = entries[l]
    BY DEF Update, Cache

-----------------------------------------------------------------------------
(* What a step does to one entry of the comments or of the audit log.      *)

LEMMA BeforeFacts ==
    ASSUME NEW p \in Page
    PROVE  BeforePage(p) \in Nat
    BY BoundFacts, PageOffset, PagesAssumption DEF BeforePage

LEMMA KeptGrows ==
    ASSUME NEW e \in Entry(Answer), NEW p \in Page, NEW n \in Nat, NEW m \in Nat,
           NEW here \in BOOLEAN, EntryKept(e, p, n, here), n <= m
    PROVE  EntryKept(e, p, m, here)
<1>1. BeforePage(p) \in Nat
    BY BeforeFacts
<1>2. /\ e.data # NoData => e.data \in Answer
      /\ e.got # NoData => e.got \in Answer
    BY EntryFields
<1>3. ASSUME NEW a \in Answer, AnswerKept(a, p, n)
      PROVE  AnswerKept(a, p, m)
  <2>1. a.at \in Nat /\ (a.total # NoData => a.total \in Nat)
      BY AnswerFields
  <2>2. QED BY <1>1, <1>3, <2>1 DEF AnswerKept, Filled
<1>4. /\ e.data # NoData => AnswerKept(e.data, p, m)
      /\ e.fetch = "read" => e.got # NoData /\ AnswerKept(e.got, p, m)
    BY <1>2, <1>3 DEF EntryKept
<1>5. Fetching(e) => here /\ Filled(p, m, m)
    BY <1>1 DEF EntryKept, Filled
<1>6. QED BY <1>4, <1>5 DEF EntryKept

LEMMA KeptAsked ==
    ASSUME NEW e \in Entry(Answer), NEW p \in Page, NEW n \in Nat,
           EntryKept(e, p, n, TRUE), Filled(p, n, n)
    PROVE  EntryKept(Fetch(e), p, n, TRUE) /\ EntryKept(Refetch(e), p, n, TRUE)
<1>1. EntryKept(Fetch(e), p, n, TRUE)
  <2>1. /\ Fetch(e).data = e.data
        /\ Fetch(e).fetch = "read" => e.fetch = "read" /\ Fetch(e).got = e.got
      BY FetchFacts
  <2>2. QED BY <2>1 DEF EntryKept
<1>2. EntryKept(Refetch(e), p, n, TRUE)
  <2>1. /\ Refetch(e).data = e.data
        /\ Refetch(e).fetch = "read" => e.fetch = "read" /\ Refetch(e).got = e.got
      BY RefetchFacts
  <2>2. QED BY <2>1 DEF EntryKept
<1>3. QED BY <1>1, <1>2

LEMMA KeptServed ==
    ASSUME NEW e \in Entry(Answer), NEW p \in Page, NEW n \in Counts, NEW here \in BOOLEAN,
           EntryKept(e, p, n, here), Fetching(e), NEW a \in Answer,
           \/ a.at = n /\ a.total = NoData
           \/ e.fetch = "read" /\ a.at = e.got.at /\ a.total = n
    PROVE  EntryKept(Served(e, a), p, n, here)
<1>1. Served(e, a).data = e.data /\ Served(e, a).got = a /\ a # NoData
    BY ServedFacts, AnswerFields
<1>2. Filled(p, n, n) /\ n \in Nat
    BY BoundFacts DEF EntryKept, Counts
<1>3. AnswerKept(a, p, n)
  <2>1. CASE a.at = n /\ a.total = NoData
      BY <1>2, <2>1 DEF AnswerKept
  <2>2. CASE e.fetch = "read" /\ a.at = e.got.at /\ a.total = n
      BY <1>2, <2>2 DEF EntryKept, AnswerKept, Filled
  <2>3. QED BY <2>1, <2>2
<1>4. QED BY <1>1, <1>2, <1>3 DEF EntryKept, Fetching

LEMMA KeptIdle ==
    ASSUME NEW e \in Entry(Answer), NEW p \in Page, NEW n \in Nat, NEW here \in BOOLEAN,
           EntryKept(e, p, n, here)
    PROVE  /\ EntryKept(Failed(e), p, n, here)
           /\ e.fetch = "read" => EntryKept(Settled(e), p, n, here)
<1>1. Failed(e).data = e.data /\ Failed(e).fetch = "idle"
    BY FailedFacts
<1>2. Settled(e).data = e.got /\ Settled(e).fetch = "idle"
    BY SettledFacts
<1>3. QED BY <1>1, <1>2 DEF EntryKept, Fetching

(* What a key says of the view it belongs to.                              *)
LEMMA KeyOfView ==
    ASSUME NEW k \in Key
    PROVE  k[1] \in TaskView \/ k[1] \in EntriesView
    BY KeyFacts, EachView DEF EntriesView

LEMMA RowsFacts ==
    ASSUME PagesTypeOK, NEW v \in View
    PROVE  rows[v.filter] \in Counts /\ rows[v.filter] \in Nat
    BY PagesFacts, EachView, BoundFacts DEF Counts

LEMMA UpdateKeeps ==
    ASSUME PagesTypeOK, ~Overrun(view, current, entries), EntriesInv,
           UNCHANGED <<rows, view, current>>,
           NEW k \in Key, NEW e \in Entry(Answer), entries' = Update(k, e),
           e.data = entries[k].data,
           k[1] \in EntriesView => EntryKept(e, k[2], rows[k[1].filter], view = k[1]),
           k[1] \in TaskView /\ Fetching(e) => view \in TaskView, Counted(e)
    PROVE  entries' \in Cache /\ ~Overrun(view, current, entries)' /\ EntriesInv'
<1>1. /\ entries' \in Cache /\ entries'[k] = e
      /\ \A l \in Key : l # k => entries'[l] = entries[l]
    BY PagesFacts, UpdateFacts
<1>2. \A l \in Key : entries'[l].data = entries[l].data
    BY <1>1
<1>3. ~Overrun(view, current, entries)'
    BY <1>2, PagesFacts DEF Overrun, LastPage
<1>4. EntriesInv'
    BY <1>1 DEF EntriesInv
<1>5. QED BY <1>1, <1>3, <1>4

LEMMA DisplayKeeps ==
    ASSUME PagesTypeOK, NEW v \in View, NEW p \in Page, NEW cache \in Cache,
           Display(v, p, cache), UNCHANGED rows,
           \A k \in Key : k[1] \in EntriesView =>
               EntryKept(cache[k], k[2], rows[k[1].filter], view = k[1]),
           \A k \in Key : k[1] \in TaskView /\ Fetching(cache[k]) => view \in TaskView,
           v = view \/ (v \in TaskView /\ view \in TaskView),
           v \in EntriesView => Filled(p, rows[v.filter], rows[v.filter]),
           \A k \in Key : Counted(cache[k])
    PROVE  /\ view' \in View /\ current' \in Page /\ entries' \in Cache
           /\ ~Overrun(view, current, entries)' /\ EntriesInv'
<1>1. /\ view' = v /\ current' \in Page /\ entries' \in Cache
      /\ ~Overrun(view, current, entries)'
      /\ \A k \in Key : entries'[k] = cache[k] \/ (k[1] = v /\ entries'[k] = Fetch(cache[k]))
      /\ v \notin TaskView =>
             /\ current' = p
             /\ \A k \in Key : k # <<v, p>> => entries'[k] = cache[k]
             /\ entries'[<<v, p>>] = IF <<v, p>> = <<view, current>> THEN cache[<<v, p>>]
                                     ELSE Fetch(cache[<<v, p>>])
    BY PagesFacts, DisplayFacts
<1>2. EntriesView \cap TaskView = {} /\ EntriesView \subseteq View
    BY ViewFacts DEF EntriesView
<1>3. ASSUME NEW k \in Key, k[1] \in EntriesView
      PROVE  EntryKept(entries'[k], k[2], rows[k[1].filter], view' = k[1])
  <2>1. (view' = k[1]) = (view = k[1])
      BY <1>1, <1>2, <1>3
  <2>2. CASE entries'[k] = cache[k]
      BY <1>3, <2>1, <2>2
  <2>3. CASE entries'[k] # cache[k]
    <3>1. k[1] = v /\ k = <<v, p>> /\ entries'[k] = Fetch(cache[k]) /\ view' = k[1] /\ k[2] = p
        BY <1>1, <1>2, <1>3, <2>3
    <3>2. EntryKept(cache[k], p, rows[v.filter], TRUE)
        BY <1>3, <2>1, <3>1
    <3>3. cache[k] \in Entry(Answer) /\ rows[v.filter] \in Nat
        BY RowsFacts DEF Cache
    <3>4. EntryKept(Fetch(cache[k]), p, rows[v.filter], TRUE)
        BY <1>3, <3>1, <3>2, <3>3, KeptAsked
    <3>5. (view' = k[1]) = TRUE
        BY <3>1
    <3>6. QED BY <3>1, <3>4, <3>5
  <2>4. QED BY <2>2, <2>3
<1>4. view' \in EntriesView /\ current' > 1 => BeforePage(current') < rows[view'.filter]
    BY <1>1, <1>2 DEF Filled
<1>5. \A k \in Key : k[1] \in TaskView /\ Fetching(entries'[k]) => view' \in TaskView
    BY <1>1
<1>6. ASSUME NEW k \in Key
      PROVE  Counted(entries'[k])
  <2>1. /\ cache[k] \in Entry(Answer) /\ Counted(cache[k])
        /\ entries'[k] = cache[k] \/ entries'[k] = Fetch(cache[k])
      BY <1>1 DEF Cache
  <2>2. Counted(Fetch(cache[k]))
      BY <2>1, FetchFacts DEF Counted
  <2>3. QED BY <2>1, <2>2
<1>7. EntriesInv'
    BY <1>3, <1>4, <1>5, <1>6 DEF EntriesInv
<1>8. QED BY <1>1, <1>7

LEMMA RowsKeeps ==
    ASSUME PagesTypeOK, ~Overrun(view, current, entries), EntriesInv,
           UNCHANGED <<view, current, entries>>, rows' \in [Filter -> Counts],
           \A v \in EntriesView : rows[v.filter] <= rows'[v.filter]
    PROVE  ~Overrun(view, current, entries)' /\ EntriesInv'
<1>1. ~Overrun(view, current, entries)'
    BY DEF Overrun, LastPage
<1>2. \A v \in EntriesView : v \in View /\ rows[v.filter] \in Nat /\ rows'[v.filter] \in Nat
    BY ViewFacts, EachView, RowsFacts, BoundFacts DEF EntriesView, Counts
<1>3. ASSUME NEW k \in Key, k[1] \in EntriesView
      PROVE  EntryKept(entries[k], k[2], rows'[k[1].filter], view = k[1])
  <2>1. EntryKept(entries[k], k[2], rows[k[1].filter], view = k[1])
      BY <1>3 DEF EntriesInv
  <2>2. entries[k] \in Entry(Answer) /\ k[2] \in Page /\ (view = k[1]) \in BOOLEAN
      BY PagesFacts, KeyFacts
  <2>3. QED BY <1>2, <1>3, <2>1, <2>2, KeptGrows
<1>4. view \in EntriesView /\ current > 1 => BeforePage(current) < rows'[view.filter]
  <2>1. BeforePage(current) \in Nat
      BY PagesFacts, BeforeFacts
  <2>2. QED BY <1>2, <2>1 DEF EntriesInv
<1>5. EntriesInv'
    BY <1>3, <1>4 DEF EntriesInv
<1>6. QED BY <1>1, <1>5

LEMMA FoundFacts ==
    ASSUME NEW v \in View
    PROVE  FoundFor(v) = rows[v.filter]
    BY EachView, ViewFacts DEF FoundFor, TasksFound, CommentsFound, LogsFound

(* The two statements of the server put an answer into an entry.           *)
LEMMA ServesFacts ==
    ASSUME PagesTypeOK, EntriesInv, NEW k \in Key, ReadPage(k) \/ CountPage(k)
    PROVE  \E a \in Answer :
               /\ entries' = Update(k, Served(entries[k], a))
               /\ UNCHANGED <<moves, rows, view, current, publish, fails, published, overtaken>>
               /\ Fetching(entries[k])
               /\ \/ a.at = rows[k[1].filter] /\ a.total = NoData
                  \/ /\ entries[k].fetch = "read" /\ a.at = entries[k].got.at
                     /\ a.total = rows[k[1].filter]
<1> DEFINE n == rows[k[1].filter]
<1>1. n \in Counts /\ FoundFor(k[1]) = n
    BY KeyFacts, RowsFacts, FoundFacts
<1> HIDE DEF n
<1>2. CASE ReadPage(k)
  <2> DEFINE a == [at |-> n, total |-> NoData]
  <2>1. a \in Answer /\ a.at = n /\ a.total = NoData
      BY <1>1 DEF Answer, Counts
  <2>2. /\ entries' = Update(k, Served(entries[k], a)) /\ Fetching(entries[k])
        /\ UNCHANGED <<moves, rows, view, current, publish, fails, published, overtaken>>
      BY <1>1, <1>2 DEF ReadPage, Fetching
  <2> HIDE DEF a
  <2>3. QED BY <2>1, <2>2 DEF n
<1>3. CASE CountPage(k)
  <2> DEFINE a == [at |-> entries[k].got.at, total |-> n]
  <2>1. entries[k].got \in Answer /\ entries[k].fetch = "read"
      BY <1>3, PagesFacts, EntryFields DEF CountPage, EntriesInv, Counted
  <2>2. a \in Answer /\ a.at = entries[k].got.at /\ a.total = n
      BY <1>1, <2>1 DEF Answer, Counts
  <2>3. /\ entries' = Update(k, Served(entries[k], a)) /\ Fetching(entries[k])
        /\ UNCHANGED <<moves, rows, view, current, publish, fails, published, overtaken>>
      BY <1>1, <1>3 DEF CountPage, Fetching
  <2> HIDE DEF a
  <2>4. QED BY <2>1, <2>2, <2>3 DEF n
<1>4. QED BY <1>2, <1>3

(* What is shown of a page, and where its buttons lead.                    *)
LEMMA ShownFacts ==
    ASSUME PagesTypeOK, EntriesInv, view \in EntriesView
    PROVE  /\ EntryKept(Shown, current, rows[view.filter], TRUE)
           /\ Filled(current, rows[view.filter], rows[view.filter])
<1>1. <<view, current>> \in Key /\ rows[view.filter] \in Nat
    BY PagesFacts, RowsFacts
<1>2. EntryKept(entries[<<view, current>>], current, rows[view.filter], TRUE)
    BY <1>1 DEF EntriesInv
<1>3. Filled(current, rows[view.filter], rows[view.filter])
    BY <1>1 DEF EntriesInv, Filled
<1>4. QED BY <1>2, <1>3 DEF Shown

LEMMA NextPage ==
    ASSUME PagesTypeOK, EntriesInv, NEW s \in Nat \ {0}, s = view.size,
           Shown.data # NoData, current < PagesOf(Shown.data.total, s)
    PROVE  /\ current + 1 \in Page /\ Max({1, current + 1}) = current + 1
           /\ view \in EntriesView => BeforePage(current + 1) < rows[view.filter]
<1> DEFINE m == Shown.data.total
<1>1. current \in Nat \ {0} /\ m \in Nat /\ m <= MaxAny /\ MaxAny \in Nat
  <2>1. Shown \in Entry(Answer) /\ current \in Nat \ {0} /\ Counted(Shown)
      BY PagesFacts, BoundFacts DEF EntriesInv, Shown
  <2>2. Shown.data \in Answer /\ m # NoData
      BY <2>1, EntryFields DEF Counted
  <2>3. QED BY <2>1, <2>2, AnswerFields, BoundFacts
<1>2. PagesOf(m, s) \in Nat /\ PagesOf(m, s) <= m /\ current * s < m
  <2>1. PICK n \in Nat : n = m
      BY <1>1
  <2>2. PICK p \in Nat \ {0} : p = current + 1
      BY <1>1
  <2>3. PagesOf(n, s) \in Nat /\ PagesOf(n, s) <= n
      BY PagesOfFacts
  <2>4. p <= PagesOf(n, s)
      BY <1>1, <2>1, <2>2, <2>3
  <2>5. (p - 1) * s < n
      BY <2>4, PagesOfFacts
  <2>6. p - 1 = current
      BY <1>1, <2>2
  <2>7. QED BY <2>1, <2>3, <2>5, <2>6
<1>3. current + 1 \in Page
    BY <1>1, <1>2 DEF Page
<1>4. Max({1, current + 1}) = current + 1
    BY <1>1, MaxOfTwo
<1>5. ASSUME view \in EntriesView
      PROVE  BeforePage(current + 1) < rows[view.filter]
  <2>1. s = EntrySize
      BY <1>5, ViewFacts DEF EntriesView
  <2>2. m <= rows[view.filter] /\ rows[view.filter] \in Nat
    <3>1. m # NoData
        BY <1>1, PagesAssumption
    <3>2. QED BY <1>5, <3>1, ShownFacts, RowsFacts, PagesFacts DEF EntryKept, AnswerKept
  <2>3. BeforePage(current + 1) < m /\ BeforePage(current + 1) \in Nat
    <3>1. BeforePage(current + 1) \in Nat
        BY <1>3, BeforeFacts
    <3>2. \A c \in Nat : BeforePage(c + 1) = c * EntrySize
        BY PagesAssumption DEF BeforePage
    <3>3. BeforePage(current + 1) = current * EntrySize
        BY <1>1, <3>2
    <3>4. QED BY <1>2, <2>1, <3>1, <3>3
  <2>4. QED BY <1>1, <2>2, <2>3
<1>6. QED BY <1>3, <1>4, <1>5

LEMMA PreviousPage ==
    ASSUME PagesTypeOK, EntriesInv, current > 1
    PROVE  /\ current - 1 \in Page /\ Max({1, current - 1}) = current - 1
           /\ view \in EntriesView => BeforePage(current - 1) < rows[view.filter]
<1>1. current \in Page /\ current \in Nat /\ MaxAny \in Nat
    BY PagesFacts, BoundFacts
<1>2. current - 1 \in Page
    BY <1>1 DEF Page
<1>3. Max({1, current - 1}) = current - 1
    BY <1>1, MaxOfTwo
<1>4. ASSUME view \in EntriesView
      PROVE  BeforePage(current - 1) < rows[view.filter]
  <2>1. BeforePage(current) < rows[view.filter] /\ rows[view.filter] \in Nat
      BY <1>4, RowsFacts, PagesFacts DEF EntriesInv
  <2>2. BeforePage(current) = BeforePage(current - 1) + EntrySize
    <3>1. current - 1 \in Nat \ {0} /\ EntrySize \in Nat \ {0}
        BY <1>1, PagesAssumption
    <3>2. (current - 1) * EntrySize = (current - 1 - 1) * EntrySize + EntrySize
        BY <3>1, PageOffset
    <3>3. QED BY <3>2 DEF BeforePage
  <2>3. BeforePage(current) \in Nat /\ BeforePage(current - 1) \in Nat /\ EntrySize \in Nat
      BY <1>1, <1>2, BeforeFacts, PagesAssumption
  <2>4. QED BY <2>1, <2>2, <2>3
<1>5. QED BY <1>2, <1>3, <1>4

(* A page that comes up with what is loaded as it is.                      *)
LEMMA TurnKeeps ==
    ASSUME PagesTypeOK, EntriesInv, NEW v \in View, NEW p \in Page,
           Display(v, p, entries), UNCHANGED rows,
           v = view \/ (v \in TaskView /\ view \in TaskView),
           v \in EntriesView /\ p > 1 => BeforePage(p) < rows[v.filter]
    PROVE  /\ view' \in View /\ current' \in Page /\ entries' \in Cache
           /\ ~Overrun(view, current, entries)' /\ EntriesInv'
<1>1. entries \in Cache /\ rows[v.filter] \in Nat
    BY PagesFacts, RowsFacts
<1>2. v \in EntriesView => Filled(p, rows[v.filter], rows[v.filter])
    BY <1>1 DEF Filled
<1>3. QED BY <1>1, <1>2, DisplayKeeps DEF EntriesInv

LEMMA RowsChange ==
    ASSUME ViewInv, PageStep, NEW f \in Filter, NEW n \in Nat, rows' = [rows EXCEPT ![f] = n],
           n <= Bound(f), f \in EntriesFilter => rows[f] <= n,
           UNCHANGED <<view, current, entries>>
    PROVE  /\ rows' \in [Filter -> Counts] /\ \A g \in Filter : rows'[g] <= Bound(g)
           /\ ~Overrun(view, current, entries)' /\ EntriesInv'
<1>1. rows \in [Filter -> Counts] /\ Bound(f) \in Counts /\ MaxAny \in Nat
    BY PagesFacts, BoundFacts DEF ViewInv, Counts
<1>2. n \in Counts
    BY <1>1 DEF Counts
<1>3. rows' \in [Filter -> Counts] /\ rows'[f] = n /\ \A g \in Filter \ {f} : rows'[g] = rows[g]
    BY <1>1, <1>2
<1>4. \A g \in Filter : rows'[g] <= Bound(g)
    BY <1>3 DEF ViewInv
<1>5. \A v \in EntriesView : rows[v.filter] <= rows'[v.filter]
  <2> TAKE v \in EntriesView
  <2>1. v.filter \in EntriesFilter /\ v \in View
      BY ViewFacts DEF EntriesView, EntriesFilter
  <2>2. rows[v.filter] \in Nat /\ v.filter \in Filter
      BY <2>1, RowsFacts, EachView DEF ViewInv
  <2>3. QED BY <1>3, <2>1, <2>2
<1>6. QED BY <1>3, <1>4, <1>5, RowsKeeps DEF ViewInv

LEMMA ViewKept ==
    ASSUME PagesInv, PageStep
    PROVE  ViewInv'
<1>0. ViewInv /\ PagesTypeOK /\ ~Overrun(view, current, entries) /\ EntriesInv
    BY DEF PagesInv, ViewInv
<1>1. /\ rows \in [Filter -> Counts] /\ view \in View /\ current \in Page /\ entries \in Cache
      /\ \A k \in Key : entries[k] \in Entry(Answer)
      /\ publish \in [stage : {"none", "sent", "stored"}, count : 0..MaxEntries]
      /\ moves \in 0..MaxMoves /\ fails \in 0..MaxFails
      /\ published \in 0..MaxEntries /\ overtaken \in BOOLEAN
      /\ <<view, current>> \in Key /\ Shown \in Entry(Answer)
    BY <1>0, PagesFacts
<1>2. MaxMoves \in Nat /\ MaxFails \in Nat /\ MaxEntries \in Nat
    BY PagesAssumption
<1>3. ASSUME rows' \in [Filter -> Counts], \A f \in Filter : rows'[f] <= Bound(f),
             view' \in View, current' \in Page, entries' \in Cache,
             ~Overrun(view, current, entries)', EntriesInv',
             publish' \in [stage : {"none", "sent", "stored"}, count : 0..MaxEntries],
             moves' \in 0..MaxMoves, fails' \in 0..MaxFails,
             published' \in 0..MaxEntries, overtaken' \in BOOLEAN
      PROVE  ViewInv'
    BY <1>3 DEF ViewInv, PagesTypeOK, Cache, Counts
<1>4. ASSUME NEW f \in Filter, RowAdded(f) \/ RowGone(f)
      PROVE  ViewInv'
  <2> DEFINE n == IF RowAdded(f) THEN rows[f] + 1 ELSE rows[f] - 1
  <2>1. rows[f] \in Nat /\ Bound(f) \in Nat /\ rows[f] <= Bound(f)
      BY <1>1, <1>0, BoundFacts DEF ViewInv, Counts
  <2>2. /\ n \in Nat /\ rows' = [rows EXCEPT ![f] = n] /\ n <= Bound(f)
        /\ f \in EntriesFilter => rows[f] <= n
        /\ UNCHANGED <<view, current, entries, publish, fails, published, overtaken>>
        /\ moves' \in 0..MaxMoves
      BY <1>1, <1>2, <1>4, <2>1 DEF RowAdded, RowGone
  <2> HIDE DEF n
  <2>3. QED BY <1>0, <1>1, <1>3, <2>2, RowsChange
<1>5. CASE StoreComment
  <2> DEFINE n == rows["comments"] + 1
  <2>1. rows["comments"] \in Nat /\ "comments" \in Filter /\ Bound("comments") = MaxEntries
      BY <1>1, ViewFacts, BoundFacts DEF Counts, Bound, EntriesFilter
  <2>2. /\ rows' = [rows EXCEPT !["comments"] = n] /\ n \in Nat /\ n <= MaxEntries
        /\ rows["comments"] <= n /\ rows'["comments"] = n
        /\ publish' = [stage |-> "stored", count |-> rows'["comments"]]
        /\ UNCHANGED <<moves, view, current, entries, fails, published, overtaken>>
      BY <1>1, <1>2, <1>5, <2>1 DEF StoreComment
  <2> HIDE DEF n
  <2>3. publish' \in [stage : {"none", "sent", "stored"}, count : 0..MaxEntries]
      BY <1>2, <2>2
  <2>4. QED BY <1>0, <1>1, <1>3, <2>1, <2>2, <2>3, RowsChange
<1>6. ASSUME NEW k \in Key, ReadPage(k) \/ CountPage(k)
      PROVE  ViewInv'
  <2>1. k[1] \in View /\ k[2] \in Page /\ rows[k[1].filter] \in Counts
      BY <1>0, KeyFacts, RowsFacts
  <2>2. PICK a \in Answer :
            /\ entries' = Update(k, Served(entries[k], a))
            /\ UNCHANGED <<moves, rows, view, current, publish, fails, published, overtaken>>
            /\ Fetching(entries[k])
            /\ \/ a.at = rows[k[1].filter] /\ a.total = NoData
               \/ /\ entries[k].fetch = "read" /\ a.at = entries[k].got.at
                  /\ a.total = rows[k[1].filter]
      BY <1>0, <1>6, ServesFacts
  <2> DEFINE e == Served(entries[k], a)
  <2>3. e \in Entry(Answer) /\ e.data = entries[k].data /\ e.got = a
      BY <1>1, ServedFacts
  <2>4. k[1] \in EntriesView => EntryKept(e, k[2], rows[k[1].filter], view = k[1])
    <3>1. (view = k[1]) \in BOOLEAN
        OBVIOUS
    <3>2. QED BY <1>0, <1>1, <2>1, <2>2, <3>1, KeptServed DEF EntriesInv
  <2>5. k[1] \in TaskView => view \in TaskView
      BY <1>0, <2>2 DEF EntriesInv
  <2>6. Counted(e)
      BY <1>0, <2>3, AnswerFields DEF Counted, EntriesInv
  <2> HIDE DEF e
  <2>7. entries' \in Cache /\ ~Overrun(view, current, entries)' /\ EntriesInv'
      BY <1>0, <2>2, <2>3, <2>4, <2>5, <2>6, UpdateKeeps DEF e
  <2>8. QED BY <1>1, <1>3, <2>2, <2>7, <1>0 DEF ViewInv
<1>7. ASSUME NEW k \in Key, PageFails(k)
      PROVE  ViewInv'
  <2> DEFINE e == Failed(entries[k])
  <2>1. k[1] \in View /\ k[2] \in Page
      BY KeyFacts
  <2>2. /\ entries' = Update(k, e) /\ fails' \in 0..MaxFails
        /\ UNCHANGED <<moves, rows, view, current, publish, published, overtaken>>
      BY <1>1, <1>2, <1>7 DEF PageFails
  <2>3. e \in Entry(Answer) /\ e.data = entries[k].data /\ ~Fetching(e)
      BY <1>1, FailedFacts DEF Fetching
  <2>4. k[1] \in EntriesView => EntryKept(e, k[2], rows[k[1].filter], view = k[1])
    <3>1. (view = k[1]) \in BOOLEAN /\ rows[k[1].filter] \in Nat
        BY <1>0, <2>1, RowsFacts
    <3>2. QED BY <1>0, <1>1, <2>1, <3>1, KeptIdle DEF EntriesInv
  <2>5. Counted(e)
      BY <1>0, <1>1, FailedFacts DEF Counted, EntriesInv
  <2> HIDE DEF e
  <2>6. entries' \in Cache /\ ~Overrun(view, current, entries)' /\ EntriesInv'
      BY <1>0, <2>2, <2>3, <2>4, <2>5, UpdateKeeps
  <2>7. QED BY <1>1, <1>3, <2>2, <2>6, <1>0 DEF ViewInv
<1>8. CASE Refocus \/ Reload
  <2> DEFINE k == <<view, current>>
  <2>1. PICK e : /\ e = Fetch(Shown) \/ e = Refetch(Shown)
                 /\ entries' = Update(k, e)
                 /\ UNCHANGED <<moves, rows, view, current, publish, fails, published, overtaken>>
      BY <1>8 DEF Refocus, Reload
  <2>2. k \in Key /\ k[1] = view /\ k[2] = current /\ entries[k] = Shown
      BY <1>1 DEF Shown
  <2>3. e \in Entry(Answer) /\ e.data = Shown.data
      BY <1>1, <2>1, FetchFacts, RefetchFacts
  <2>4. view \in EntriesView => EntryKept(e, current, rows[view.filter], TRUE)
      BY <1>0, <1>1, <2>1, ShownFacts, RowsFacts, KeptAsked
  <2> HIDE DEF k
  <2>5. (view = k[1]) = TRUE /\ Counted(e)
      BY <1>0, <1>1, <2>1, <2>2, FetchFacts, RefetchFacts DEF Counted, EntriesInv
  <2>6. entries' \in Cache /\ ~Overrun(view, current, entries)' /\ EntriesInv'
      BY <1>0, <2>1, <2>2, <2>3, <2>4, <2>5, UpdateKeeps
  <2>7. QED BY <1>1, <1>3, <2>1, <2>6, <1>0 DEF ViewInv
<1>9. ASSUME NEW k \in Key, PageArrives(k)
      PROVE  ViewInv'
  <2> DEFINE e == Settled(entries[k])
             cache == Update(k, e)
  <2>1. /\ entries[k].fetch = "read" /\ entries[k].got.total # NoData
        /\ Display(view, current, cache)
        /\ UNCHANGED <<moves, rows, publish, fails, published>> /\ overtaken' \in BOOLEAN
      BY <1>9 DEF PageArrives
  <2>2. e \in Entry(Answer) /\ ~Fetching(e)
      BY <1>1, SettledFacts DEF Fetching
  <2>3. k[1] \in EntriesView => EntryKept(e, k[2], rows[k[1].filter], view = k[1])
    <3>1. k[2] \in Page /\ (view = k[1]) \in BOOLEAN /\ rows[k[1].filter] \in Nat
        BY <1>0, KeyFacts, RowsFacts
    <3>2. QED BY <1>0, <1>1, <2>1, <3>1, KeptIdle DEF EntriesInv
  <2>10. Counted(e)
      BY <1>1, <2>1, SettledFacts DEF Counted
  <2> HIDE DEF e
  <2>4. cache \in Cache /\ cache[k] = e /\ \A l \in Key : l # k => cache[l] = entries[l]
      BY <1>1, <2>2, UpdateFacts
  <2> HIDE DEF cache
  <2>5. \A l \in Key : l[1] \in EntriesView =>
            EntryKept(cache[l], l[2], rows[l[1].filter], view = l[1])
      BY <1>0, <2>3, <2>4 DEF EntriesInv
  <2>6. \A l \in Key : l[1] \in TaskView /\ Fetching(cache[l]) => view \in TaskView
      BY <1>0, <2>2, <2>4 DEF EntriesInv
  <2>7. view \in EntriesView => Filled(current, rows[view.filter], rows[view.filter])
      BY <1>0, ShownFacts
  <2>11. \A l \in Key : Counted(cache[l])
      BY <1>0, <2>4, <2>10 DEF EntriesInv
  <2>8. /\ view' \in View /\ current' \in Page /\ entries' \in Cache
        /\ ~Overrun(view, current, entries)' /\ EntriesInv'
      BY <1>0, <1>1, <2>1, <2>4, <2>5, <2>6, <2>7, <2>11, DisplayKeeps
  <2>9. QED BY <1>0, <1>1, <1>3, <2>1, <2>8 DEF ViewInv
<1>10. ASSUME NEW v \in View, NEW p \in Page, Display(v, p, entries),
              UNCHANGED <<moves, rows, publish, fails, published, overtaken>>,
              v = view \/ (v \in TaskView /\ view \in TaskView),
              v \in EntriesView /\ p > 1 => BeforePage(p) < rows[v.filter]
       PROVE  ViewInv'
    BY <1>0, <1>1, <1>3, <1>10, TurnKeeps DEF ViewInv
<1>11. CASE PreviousTasks \/ PreviousComments \/ PreviousLogs
  <2>1. /\ current > 1 /\ Display(view, Max({1, current - 1}), entries)
        /\ UNCHANGED <<moves, rows, publish, fails, published, overtaken>>
      BY <1>11 DEF PreviousTasks, PreviousComments, PreviousLogs, Turn
  <2>2. QED BY <1>0, <1>1, <1>10, <2>1, PreviousPage
<1>12. CASE NextTasks \/ NextComments \/ NextLogs
  <2>1. /\ Shown.data # NoData /\ current < PagesOf(Shown.data.total, view.size)
        /\ Display(view, Max({1, current + 1}), entries)
        /\ UNCHANGED <<moves, rows, publish, fails, published, overtaken>>
      BY <1>12, ViewFacts DEF NextTasks, NextComments, NextLogs, Turn
  <2>2. PICK s \in Nat \ {0} : s = view.size
      BY <1>1, EachView
  <2>3. /\ current + 1 \in Page /\ Max({1, current + 1}) = current + 1
        /\ view \in EntriesView => BeforePage(current + 1) < rows[view.filter]
      BY <1>0, <2>1, <2>2, NextPage
  <2>4. QED BY <1>1, <1>10, <2>1, <2>3
<1>13. ASSUME NEW v \in TaskView, FilterTasks(v) \/ SearchTasks(v) \/ ResizePages(v)
       PROVE  ViewInv'
  <2>1. /\ view \in TaskView /\ Display(v, 1, entries)
        /\ UNCHANGED <<moves, rows, publish, fails, published, overtaken>>
      BY <1>13 DEF FilterTasks, SearchTasks, ResizePages
  <2>2. v \in View /\ 1 \in Page /\ ~(1 > 1)
      BY BoundFacts DEF View
  <2>3. QED BY <1>10, <2>1, <2>2
<1>14. CASE SubmitComment \/ CommentFails
  <2>1. /\ publish' \in [stage : {"none", "sent", "stored"}, count : 0..MaxEntries]
        /\ UNCHANGED <<moves, rows, view, current, entries, published, overtaken>>
        /\ fails' \in 0..MaxFails
      BY <1>1, <1>2, <1>14 DEF SubmitComment, CommentFails
  <2>2. ~Overrun(view, current, entries)' /\ EntriesInv'
      BY <1>0, <2>1 DEF Overrun, LastPage, EntriesInv
  <2>3. QED BY <1>1, <1>3, <2>1, <2>2, <1>0 DEF ViewInv
<1>15. CASE CommentPublished
  <2> DEFINE k == <<view, current>>
             e == Refetch(Shown)
             cache == Update(k, e)
  <2>1. /\ view = CommentsView /\ view \in EntriesView /\ k[1] = view /\ k[2] = current
        /\ k \in Key /\ entries[k] = Shown /\ (view = k[1]) = TRUE /\ k[1] \notin TaskView
      BY <1>1, <1>15, ViewFacts DEF CommentPublished, PagesInv, CommentsInv, EntriesView, Shown
  <2>2. /\ Display(view, 1, cache) /\ publish' = [stage |-> "none", count |-> 0]
        /\ published' = publish.count /\ overtaken' \in BOOLEAN
        /\ UNCHANGED <<moves, rows, fails>>
      BY <1>15, <2>1 DEF CommentPublished
  <2>3. e \in Entry(Answer)
      BY <1>1, RefetchFacts
  <2>4. EntryKept(e, current, rows[view.filter], TRUE)
      BY <1>0, <1>1, <2>1, ShownFacts, RowsFacts, KeptAsked
  <2>12. Counted(e)
      BY <1>0, <1>1, <2>1, RefetchFacts DEF Counted, EntriesInv
  <2> HIDE DEF e, k
  <2>5. cache \in Cache /\ cache[k] = e /\ \A l \in Key : l # k => cache[l] = entries[l]
      BY <1>1, <2>1, <2>3, UpdateFacts
  <2> HIDE DEF cache
  <2>6. \A l \in Key : l[1] \in EntriesView =>
            EntryKept(cache[l], l[2], rows[l[1].filter], view = l[1])
      BY <1>0, <2>1, <2>4, <2>5 DEF EntriesInv
  <2>7. \A l \in Key : l[1] \in TaskView /\ Fetching(cache[l]) => view \in TaskView
      BY <1>0, <2>1, <2>5 DEF EntriesInv
  <2>13. \A l \in Key : Counted(cache[l])
      BY <1>0, <2>5, <2>12 DEF EntriesInv
  <2>8. 1 \in Page /\ Filled(1, rows[view.filter], rows[view.filter])
      BY <1>0, <1>1, RowsFacts, BoundFacts DEF Filled
  <2>9. /\ view' \in View /\ current' \in Page /\ entries' \in Cache
        /\ ~Overrun(view, current, entries)' /\ EntriesInv'
      BY <1>0, <1>1, <2>2, <2>5, <2>6, <2>7, <2>8, <2>13, DisplayKeeps
  <2>10. publish' \in [stage : {"none", "sent", "stored"}, count : 0..MaxEntries]
         /\ published' \in 0..MaxEntries
      BY <1>1, <1>2, <2>2
  <2>11. QED BY <1>0, <1>1, <1>3, <2>2, <2>9, <2>10 DEF ViewInv
<1>16. QED
    BY <1>4, <1>5, <1>6, <1>7, <1>8, <1>9, <1>11, <1>12, <1>13, <1>14, <1>15 DEF PageStep

LEMMA NewcomersFacts ==
    ASSUME PagesInv
    PROVE  /\ <<CommentsView, 1>> \in Key /\ Newcomers \in Entry(Answer)
           /\ Newcomers.fetch = "read" => Newcomers.got.at \in Nat
           /\ Newcomers.data # NoData => Newcomers.data.at \in Nat
           /\ Fetching(Newcomers) => view = CommentsView
           /\ rows["comments"] \in Nat /\ published \in Nat /\ publish.count \in Nat
           /\ publish.count \in 0..MaxEntries /\ overtaken \in BOOLEAN
<1>0. PagesTypeOK /\ EntriesInv
    BY DEF PagesInv, ViewInv
<1>1. <<CommentsView, 1>> \in Key /\ CommentsView \in EntriesView
    BY ViewFacts, BoundFacts, KeyFacts DEF EntriesView
<1>2. Newcomers \in Entry(Answer)
    BY <1>0, <1>1, PagesFacts DEF Newcomers
<1>3. EntryKept(Newcomers, 1, rows["comments"], view = CommentsView)
    BY <1>0, <1>1, ViewFacts DEF EntriesInv, Newcomers
<1>4. /\ Newcomers.got \in Answer \cup {NoData} /\ Newcomers.data \in Answer \cup {NoData}
      /\ Counts \subseteq Nat
    BY <1>2, EntryFields, BoundFacts DEF Counts
<1>5. rows["comments"] \in Nat
    BY <1>0, <1>4, PagesFacts, ViewFacts
<1>6. publish.count \in 0..MaxEntries /\ published \in Nat /\ MaxEntries \in Nat
      /\ overtaken \in BOOLEAN
    BY <1>0, PagesFacts, PagesAssumption
<1>7. /\ Newcomers.fetch = "read" => Newcomers.got # NoData
      /\ Fetching(Newcomers) => view = CommentsView
    BY <1>3 DEF EntryKept
<1>8. /\ Newcomers.fetch = "read" => Newcomers.got.at \in Nat
      /\ Newcomers.data # NoData => Newcomers.data.at \in Nat
    BY <1>4, <1>7, AnswerFields
<1>9. publish.count \in Nat
    BY <1>6
<1>10. QED BY <1>1, <1>2, <1>5, <1>6, <1>7, <1>8, <1>9

(* Nothing happens to the newest comments.                                 *)
LEMMA CommentsStay ==
    ASSUME PagesInv, Newcomers' = Newcomers, rows'["comments"] \in Nat,
           rows["comments"] <= rows'["comments"], UNCHANGED <<publish, published>>,
           (view' = CommentsView) = (view = CommentsView),
           view = CommentsView => UNCHANGED <<current, overtaken>>
    PROVE  CommentsInv'
<1>1. CommentsInv
    BY DEF PagesInv
<1>2. publish'.count <= rows'["comments"] \/ publish'.stage # "stored"
    BY <1>1, NewcomersFacts DEF CommentsInv
<1>3. published' <= rows'["comments"]
    BY <1>1, NewcomersFacts DEF CommentsInv
<1>4. QED BY <1>1, <1>2, <1>3, NewcomersFacts DEF CommentsInv, Loaded, Fetching

LEMMA CommentsKept ==
    ASSUME PagesInv, PageStep
    PROVE  CommentsInv'
<1> DEFINE nk == <<CommentsView, 1>>
<1>0. /\ PagesTypeOK /\ EntriesInv /\ CommentsInv /\ ViewInv
    BY DEF PagesInv, ViewInv
<1>1. /\ nk \in Key /\ Newcomers = entries[nk] /\ nk[1] = CommentsView /\ nk[2] = 1
      /\ Newcomers' = entries'[nk]
    BY NewcomersFacts DEF Newcomers
<1>2. /\ entries \in Cache /\ view \in View /\ current \in Page /\ Shown \in Entry(Answer)
      /\ <<view, current>> \in Key /\ Shown = entries[<<view, current>>]
      /\ \A k \in Key : entries[k] \in Entry(Answer)
      /\ rows \in [Filter -> Counts] /\ "comments" \in Filter /\ rows["comments"] \in Nat
      /\ \A k \in Key : Counted(entries[k])
    BY <1>0, PagesFacts, ViewFacts, NewcomersFacts DEF Shown, EntriesInv
<1> HIDE DEF nk
<1>3. ASSUME UNCHANGED <<rows, view, current, publish, published, overtaken>>,
             NEW k \in Key, NEW e, entries' = Update(k, e), e \in Entry(Answer),
             k = nk => /\ e.fetch = "read" /\ ~overtaken => e.got.at >= published
                       /\ Fetching(e) => view = CommentsView /\ current = 1
                       /\ Loaded(e) => Fetching(e)
      PROVE  CommentsInv'
  <2>1. entries'[k] = e /\ \A l \in Key : l # k => entries'[l] = entries[l]
      BY <1>2, <1>3, UpdateFacts
  <2>2. CASE k = nk
      BY <1>0, <1>1, <1>3, <2>1, <2>2 DEF CommentsInv
  <2>3. CASE k # nk
      BY <1>1, <1>2, <1>3, <2>1, <2>3, CommentsStay
  <2>4. QED BY <2>2, <2>3
<1>4. ASSUME NEW f \in Filter, RowAdded(f) \/ RowGone(f)
      PROVE  CommentsInv'
  <2>1. UNCHANGED <<view, current, entries, publish, published, overtaken>>
      BY <1>4 DEF RowAdded, RowGone
  <2>2. rows["comments"] <= rows'["comments"] /\ rows'["comments"] \in Nat
    <3>1. CASE f = "comments"
        BY <1>2, <1>4, <3>1 DEF RowAdded, RowGone, EntriesFilter
    <3>2. CASE f # "comments"
        BY <1>2, <1>4, <3>2 DEF RowAdded, RowGone
    <3>3. QED BY <3>1, <3>2
  <2>3. QED BY <1>1, <2>1, <2>2, CommentsStay
<1>5. CASE StoreComment
  <2>1. /\ rows'["comments"] = rows["comments"] + 1 /\ publish'.stage = "stored"
        /\ publish'.count = rows'["comments"] /\ publish.stage = "sent"
        /\ UNCHANGED <<view, current, entries, published, overtaken>>
      BY <1>2, <1>5 DEF StoreComment
  <2>2. published <= rows["comments"] /\ published \in Nat
      BY <1>0, NewcomersFacts DEF CommentsInv
  <2>3. QED BY <1>0, <1>1, <1>2, <2>1, <2>2 DEF CommentsInv, Loaded, Fetching
<1>6. CASE SubmitComment \/ CommentFails
  <2>1. /\ UNCHANGED <<rows, view, current, entries, published, overtaken>>
        /\ publish'.stage \in {"none", "sent"} /\ (publish'.stage = "sent" => view = CommentsView)
      BY <1>0, <1>6, PagesFacts DEF SubmitComment, CommentFails
  <2>2. QED BY <1>0, <1>1, <2>1 DEF CommentsInv, Loaded, Fetching
<1>7. ASSUME NEW k \in Key, ReadPage(k) \/ CountPage(k)
      PROVE  CommentsInv'
  <2>1. PICK a \in Answer :
            /\ entries' = Update(k, Served(entries[k], a))
            /\ UNCHANGED <<moves, rows, view, current, publish, fails, published, overtaken>>
            /\ Fetching(entries[k])
            /\ \/ a.at = rows[k[1].filter] /\ a.total = NoData
               \/ /\ entries[k].fetch = "read" /\ a.at = entries[k].got.at
                  /\ a.total = rows[k[1].filter]
      BY <1>0, <1>7, ServesFacts
  <2> DEFINE e == Served(entries[k], a)
  <2>2. e \in Entry(Answer) /\ e.fetch = "read" /\ e.got = a /\ Fetching(e)
      BY <1>2, ServedFacts DEF Fetching
  <2>3. entries' = Update(k, e)
      BY <2>1
  <2> HIDE DEF e
  <2>4. ASSUME k = nk
        PROVE  /\ ~overtaken => e.got.at >= published
               /\ view = CommentsView /\ current = 1
    <3>1. /\ Fetching(Newcomers)
          /\ \/ a.at = rows["comments"]
             \/ Newcomers.fetch = "read" /\ a.at = Newcomers.got.at
        BY <1>1, <2>1, <2>4, ViewFacts
    <3>2. QED BY <1>0, <2>2, <3>1, NewcomersFacts DEF CommentsInv
  <2>5. QED BY <1>3, <2>1, <2>2, <2>3, <2>4
<1>8. ASSUME NEW k \in Key, PageFails(k)
      PROVE  CommentsInv'
  <2> DEFINE e == Failed(entries[k])
  <2>1. /\ entries' = Update(k, e)
        /\ UNCHANGED <<rows, view, current, publish, published, overtaken>>
      BY <1>8 DEF PageFails
  <2>2. e \in Entry(Answer) /\ e.fetch = "idle" /\ ~Fetching(e) /\ ~Loaded(e)
      BY <1>2, FailedFacts DEF Fetching, Loaded
  <2> HIDE DEF e
  <2>3. QED BY <1>3, <2>1, <2>2
<1>9. CASE Refocus \/ Reload
  <2>1. PICK e : /\ e = Fetch(Shown) \/ e = Refetch(Shown)
                 /\ entries' = Update(<<view, current>>, e)
                 /\ UNCHANGED <<rows, view, current, publish, published, overtaken>>
      BY <1>9 DEF Refocus, Reload
  <2>2. /\ e \in Entry(Answer) /\ Fetching(e)
        /\ e.fetch = "read" => Shown.fetch = "read" /\ e.got = Shown.got
      BY <1>2, <2>1, FetchFacts, RefetchFacts
  <2>3. ASSUME <<view, current>> = nk
        PROVE  view = CommentsView /\ current = 1 /\ Shown = Newcomers
      BY <1>1, <1>2, <2>3 DEF nk
  <2>4. QED BY <1>0, <1>2, <1>3, <2>1, <2>2, <2>3 DEF CommentsInv
<1>10. ASSUME NEW v \in View, NEW p \in Page, view # CommentsView, Display(v, p, entries),
              v # CommentsView, UNCHANGED <<rows, publish, published>>
       PROVE  CommentsInv'
  <2>1. view' = v /\ entries'[nk] = entries[nk]
      BY <1>1, <1>2, <1>10, DisplayFacts
  <2>2. QED BY <1>1, <1>2, <1>10, <2>1, CommentsStay
<1>11. ASSUME view = CommentsView, ~Fetching(Newcomers), NEW p \in Page, p # current,
              Display(view, p, entries), UNCHANGED <<rows, publish, published, overtaken>>
       PROVE  CommentsInv'
  <2>1. /\ view' = view /\ current' = p
        /\ \A k \in Key : k # <<view, p>> => entries'[k] = entries[k]
        /\ <<view, p>> # <<view, current>> => entries'[<<view, p>>] = Fetch(entries[<<view, p>>])
      BY <1>2, <1>11, DisplayFacts, ViewFacts
  <2>2. CASE p = 1
    <3>1. Newcomers' = Fetch(Newcomers)
        BY <1>1, <1>11, <2>1, <2>2 DEF nk
    <3>2. Fetching(Newcomers') /\ Newcomers'.fetch # "read"
        BY <1>11, <3>1, NewcomersFacts, FetchFacts DEF Fetching
    <3>3. QED BY <1>0, <1>11, <2>1, <2>2, <3>2 DEF CommentsInv, Fetching
  <2>3. CASE p # 1
    <3>1. Newcomers' = Newcomers
        BY <1>1, <1>11, <2>1, <2>3 DEF nk
    <3>2. QED BY <1>0, <1>11, <2>1, <2>3, <3>1 DEF CommentsInv, Fetching
  <2>4. QED BY <2>2, <2>3
<1>12. CASE PreviousTasks \/ NextTasks \/ PreviousLogs \/ NextLogs
  <2>1. PICK p : /\ view # CommentsView /\ p \in Page /\ Display(view, p, entries)
                 /\ UNCHANGED <<rows, publish, published>>
    <3>1. view # CommentsView
        BY <1>12, ViewFacts DEF PreviousTasks, NextTasks, PreviousLogs, NextLogs
    <3>2. CASE PreviousTasks \/ PreviousLogs
        BY <1>0, <3>1, <3>2, PreviousPage DEF PreviousTasks, PreviousLogs, Turn
    <3>3. CASE NextTasks \/ NextLogs
      <4>1. /\ Shown.data # NoData /\ current < PagesOf(Shown.data.total, view.size)
            /\ Display(view, Max({1, current + 1}), entries)
            /\ UNCHANGED <<rows, publish, published>>
          BY <3>3, ViewFacts DEF NextTasks, NextLogs, Turn
      <4>2. PICK s \in Nat \ {0} : s = view.size
          BY <1>2, EachView
      <4>3. current + 1 \in Page /\ Max({1, current + 1}) = current + 1
          BY <1>0, <4>1, <4>2, NextPage
      <4>4. QED BY <3>1, <4>1, <4>3
    <3>4. QED BY <1>12, <3>2, <3>3
  <2>2. QED BY <1>2, <1>10, <2>1
<1>13. ASSUME NEW v \in TaskView, FilterTasks(v) \/ SearchTasks(v) \/ ResizePages(v)
       PROVE  CommentsInv'
  <2>1. /\ view \in TaskView /\ Display(v, 1, entries) /\ UNCHANGED <<rows, publish, published>>
      BY <1>13 DEF FilterTasks, SearchTasks, ResizePages
  <2>2. v \in View /\ 1 \in Page /\ v # CommentsView /\ view # CommentsView
      BY <2>1, BoundFacts, ViewFacts DEF View
  <2>3. QED BY <1>10, <2>1, <2>2
<1>14. CASE PreviousComments
  <2>1. /\ view = CommentsView /\ current > 1 /\ Display(view, Max({1, current - 1}), entries)
        /\ UNCHANGED <<rows, publish, published, overtaken>>
      BY <1>14 DEF PreviousComments, Turn
  <2>2. current - 1 \in Page /\ Max({1, current - 1}) = current - 1 /\ current - 1 # current
      BY <1>0, <1>2, <2>1, PreviousPage, BoundFacts
  <2>3. ~Fetching(Newcomers)
      BY <1>0, <1>2, <2>1 DEF CommentsInv
  <2>4. QED BY <1>11, <2>1, <2>2, <2>3
<1>15. CASE NextComments
  <2>1. /\ view = CommentsView /\ ~Fetching(Shown) /\ Shown.data # NoData
        /\ current < PagesOf(Shown.data.total, EntrySize)
        /\ Display(view, Max({1, current + 1}), entries)
        /\ UNCHANGED <<rows, publish, published, overtaken>>
      BY <1>15 DEF NextComments, Turn
  <2>2. EntrySize \in Nat \ {0} /\ EntrySize = view.size
      BY <2>1, ViewFacts, PagesAssumption
  <2>3. current + 1 \in Page /\ Max({1, current + 1}) = current + 1 /\ current + 1 # current
    <3>1. PICK s \in Nat \ {0} : s = EntrySize /\ s = view.size
        BY <2>2
    <3>2. current + 1 \in Page /\ Max({1, current + 1}) = current + 1
        BY <1>0, <2>1, <3>1, NextPage
    <3>3. QED BY <1>2, <3>2, BoundFacts
  <2>4. ~Fetching(Newcomers)
      BY <1>0, <1>1, <1>2, <2>1 DEF CommentsInv, nk
  <2>5. QED BY <1>11, <2>1, <2>3, <2>4
<1>16. ASSUME NEW k \in Key, PageArrives(k)
       PROVE  CommentsInv'
  <2> DEFINE e == Settled(entries[k])
             cache == Update(k, e)
  <2>1. /\ entries[k].fetch = "read" /\ entries[k].got.total # NoData
        /\ Display(view, current, cache)
        /\ overtaken' = (overtaken /\ ~(k[2] = 1 /\ entries[k].got.at >= published))
        /\ UNCHANGED <<rows, publish, published>>
      BY <1>16 DEF PageArrives
  <2>2. e \in Entry(Answer) /\ ~Fetching(e) /\ e.fetch = "idle" /\ e.data = entries[k].got
      BY <1>2, SettledFacts DEF Fetching
  <2> HIDE DEF e
  <2>3. /\ cache \in Cache /\ cache[k] = e /\ \A l \in Key : l # k => cache[l] = entries[l]
        /\ \A l \in Key : Counted(cache[l])
    <3>1. cache \in Cache /\ cache[k] = e /\ \A l \in Key : l # k => cache[l] = entries[l]
        BY <1>2, <2>2, UpdateFacts
    <3>2. Counted(e)
        BY <2>1, <2>2 DEF Counted
    <3>3. QED BY <1>2, <3>1, <3>2
  <2> HIDE DEF cache
  <2>4. view' = view /\ Newcomers' = cache[nk] /\ (view = CommentsView => current' = current)
    <3>1. CASE view = CommentsView
        BY <1>1, <1>2, <2>1, <2>3, <3>1, DisplayFacts, ViewFacts
    <3>2. CASE view # CommentsView
        BY <1>1, <1>2, <2>1, <2>3, <3>2, DisplayFacts
    <3>3. QED BY <3>1, <3>2
  <2>5. CASE k = nk
    <3>1. /\ view = CommentsView /\ current = 1 /\ Newcomers.fetch = "read"
          /\ Newcomers.got.at \in Nat
        BY <1>0, <1>1, <2>1, <2>5, NewcomersFacts DEF Fetching, CommentsInv
    <3>2. Newcomers'.data = Newcomers.got /\ Newcomers'.fetch = "idle" /\ ~Fetching(Newcomers')
        BY <1>1, <2>2, <2>3, <2>4, <2>5 DEF Fetching
    <3>3. Newcomers.got.at >= published \/ overtaken'
        BY <1>0, <1>1, <2>1, <2>5, <3>1 DEF CommentsInv
    <3>4. QED BY <1>0, <2>1, <2>4, <3>1, <3>2, <3>3 DEF CommentsInv, Loaded, Fetching
  <2>6. CASE k # nk
    <3>1. Newcomers' = Newcomers
        BY <1>1, <2>3, <2>4, <2>6
    <3>2. ASSUME view = CommentsView
          PROVE  overtaken' = overtaken
      <4>1. k[1] = CommentsView
        <5>1. Fetching(entries[k])
            BY <2>1 DEF Fetching
        <5>2. k[1] \notin TaskView
            BY <1>0, <3>2, <5>1, ViewFacts DEF EntriesInv
        <5>3. k[1] \in EntriesView
            BY <5>2, KeyOfView
        <5>4. EntryKept(entries[k], k[2], rows[k[1].filter], view = k[1])
            BY <1>0, <5>3 DEF EntriesInv
        <5>5. QED BY <3>2, <5>1, <5>4 DEF EntryKept
      <4>2. k[2] # 1
          BY <2>6, <4>1, KeyFacts DEF nk
      <4>3. overtaken \in BOOLEAN
          BY NewcomersFacts
      <4>4. QED BY <2>1, <4>2, <4>3
    <3>3. QED BY <1>2, <2>1, <2>4, <3>1, <3>2, CommentsStay
  <2>7. QED BY <2>5, <2>6
<1>17. CASE CommentPublished
  <2> DEFINE k == <<view, current>>
             e == Refetch(Shown)
             cache == Update(k, e)
  <2>1. /\ view = CommentsView /\ k \in Key /\ publish.stage = "stored"
      BY <1>0, <1>2, <1>17 DEF CommentPublished, CommentsInv
  <2>2. /\ Display(view, 1, cache) /\ publish' = [stage |-> "none", count |-> 0]
        /\ published' = publish.count
        /\ overtaken' = (current = 1 /\ Fetching(Shown) /\ Shown.data = NoData)
        /\ UNCHANGED rows
      BY <1>17, <2>1 DEF CommentPublished
  <2>3. /\ e \in Entry(Answer) /\ Fetching(e)
        /\ e.fetch = "read" => Shown.fetch = "read" /\ Shown.data = NoData
      BY <1>2, RefetchFacts
  <2> HIDE DEF e
  <2>4. /\ cache \in Cache /\ cache[k] = e /\ \A l \in Key : l # k => cache[l] = entries[l]
        /\ \A l \in Key : Counted(cache[l])
    <3>1. cache \in Cache /\ cache[k] = e /\ \A l \in Key : l # k => cache[l] = entries[l]
        BY <1>2, <2>1, <2>3, UpdateFacts
    <3>2. Counted(e)
        BY <1>2, <2>1, RefetchFacts DEF Counted, e
    <3>3. QED BY <1>2, <3>1, <3>2
  <2> HIDE DEF cache
  <2>5. /\ view' = view /\ current' = 1
        /\ entries'[nk] = IF nk = k THEN cache[nk] ELSE Fetch(cache[nk])
      BY <1>2, <2>1, <2>2, <2>4, BoundFacts, DisplayFacts, ViewFacts DEF nk
  <2>6. Fetching(Newcomers') /\ (Newcomers'.fetch = "read" => overtaken')
    <3>1. CASE current = 1
      <4>1. nk = k
          BY <2>1, <3>1 DEF nk
      <4>2. Newcomers' = e
          BY <1>1, <2>4, <2>5, <4>1
      <4>3. QED BY <2>2, <2>3, <3>1, <4>2 DEF Fetching
    <3>2. CASE current # 1
      <4>1. nk # k /\ ~Fetching(Newcomers)
          BY <1>0, <2>1, <3>2 DEF nk, CommentsInv
      <4>2. Newcomers' = Fetch(Newcomers)
          BY <1>1, <2>4, <2>5, <4>1
      <4>3. QED BY <4>1, <4>2, NewcomersFacts, FetchFacts DEF Fetching
    <3>3. QED BY <3>1, <3>2
  <2>7. publish'.stage = "none" /\ publish.count <= rows["comments"]
      BY <1>0, <2>1, <2>2 DEF CommentsInv
  <2>8. QED BY <2>2, <2>5, <2>6, <2>7 DEF CommentsInv, Fetching
<1>18. QED
    BY <1>4, <1>5, <1>6, <1>7, <1>8, <1>9, <1>12, <1>13, <1>14, <1>15, <1>16, <1>17 DEF PageStep

LEMMA PagesStart ==
    ASSUME PagesInit
    PROVE  PagesInv
<1>1. /\ view \in View /\ current = 1 /\ 1 \in Page
      /\ entries = [k \in Key |-> IF k = <<view, 1>> THEN Fetch(Unloaded) ELSE Unloaded]
      /\ publish = [stage |-> "none", count |-> 0] /\ moves = 0 /\ fails = 0
      /\ published = 0 /\ overtaken = FALSE
    BY BoundFacts DEF PagesInit
<1>2. rows \in [Filter -> Counts] /\ \A f \in Filter : rows[f] <= Bound(f)
  <2>1. PICK n \in Nat :
            rows = [f \in Filter |-> IF f \in EntriesFilter /\ f # view.filter THEN 0
                                    ELSE Min({n, Bound(f)})]
    <3>1. Bound(view.filter) \in 0..MaxAny
        BY <1>1, EachView, BoundFacts
    <3>2. 0..Bound(view.filter) \subseteq Nat
        BY <3>1, BoundFacts
    <3>3. QED BY <3>2 DEF PagesInit
  <2>2. ASSUME NEW f \in Filter
        PROVE  /\ Min({n, Bound(f)}) \in 0..Bound(f) /\ 0 \in 0..Bound(f)
               /\ Bound(f) \in Counts
    <3>1. Bound(f) \in Nat /\ Bound(f) \in Counts
        BY BoundFacts DEF Counts
    <3>2. Min({n, Bound(f)}) = IF n <= Bound(f) THEN n ELSE Bound(f)
        BY <3>1, MinOfTwo
    <3>3. QED BY <3>1, <3>2
  <2>3. \A f \in Filter : rows[f] \in 0..Bound(f) /\ Bound(f) \in Counts
      BY <2>1, <2>2
  <2>4. \A f \in Filter : rows[f] \in Counts /\ rows[f] <= Bound(f)
      BY <2>3, BoundFacts DEF Counts
  <2>5. QED BY <2>1, <2>4
<1>3. \A k \in Key : /\ entries[k] \in Entry(Answer) /\ entries[k].data = NoData
                     /\ entries[k].fetch # "read"
                     /\ Fetching(entries[k]) => k = <<view, 1>>
  <2>1. /\ Unloaded \in Entry(Answer) /\ Unloaded.data = NoData /\ ~Fetching(Unloaded)
        /\ Unloaded.fetch # "read"
      BY UnloadedFacts DEF Fetching
  <2>2. /\ Fetch(Unloaded) \in Entry(Answer) /\ Fetch(Unloaded).data = NoData
        /\ Fetch(Unloaded).fetch # "read"
      BY <2>1, FetchFacts
  <2>3. QED BY <1>1, <2>1, <2>2
<1>4. PagesTypeOK
  <2>1. entries \in [Key -> Entry(Answer)]
      BY <1>1, <1>3
  <2>2. 0 \in 0..MaxEntries /\ 0 \in 0..MaxMoves /\ 0 \in 0..MaxFails
      BY PagesAssumption
  <2>3. /\ publish \in [stage : {"none", "sent", "stored"}, count : 0..MaxEntries]
        /\ moves \in 0..MaxMoves /\ fails \in 0..MaxFails
        /\ published \in 0..MaxEntries /\ overtaken \in BOOLEAN
      BY <1>1, <2>2
  <2>4. QED BY <1>1, <1>2, <2>1, <2>3 DEF PagesTypeOK, Counts
<1>5. <<view, current>> \in Key /\ ~Overrun(view, current, entries)
    BY <1>1, <1>3, KeyFacts DEF Overrun
<1>6. EntriesInv
  <2>1. ASSUME NEW k \in Key
        PROVE  /\ EntryKept(entries[k], k[2], rows[k[1].filter], view = k[1])
               /\ Fetching(entries[k]) => view = k[1]
               /\ Counted(entries[k])
    <3>1. rows[k[1].filter] \in Nat
        BY <1>2, KeyFacts, EachView, BoundFacts DEF Counts
    <3>2. Fetching(entries[k]) => view = k[1] /\ k[2] = 1
        BY <1>3
    <3>3. Fetching(entries[k]) => Filled(k[2], rows[k[1].filter], rows[k[1].filter])
        BY <3>1, <3>2 DEF Filled
    <3>4. QED BY <1>3, <3>2, <3>3 DEF EntryKept, Counted
  <2>2. QED BY <1>1, <2>1 DEF EntriesInv
<1>7. CommentsInv
  <2>1. <<CommentsView, 1>> \in Key /\ "comments" \in Filter
      BY <1>1, KeyFacts, ViewFacts
  <2>2. rows["comments"] \in Nat
      BY <1>2, <2>1, BoundFacts DEF Counts
  <2>3. Newcomers.fetch # "read" /\ ~Loaded(Newcomers)
      BY <1>3, <2>1 DEF Newcomers, Loaded
  <2>4. QED BY <1>1, <2>2, <2>3 DEF CommentsInv
<1>8. QED BY <1>2, <1>4, <1>5, <1>6, <1>7 DEF PagesInv, ViewInv

LEMMA PagesKept ==
    ASSUME PagesInv, PagesNext
    PROVE  PagesInv'
<1>1. PageStep
    BY DEF PagesNext
<1>2. QED BY <1>1, ViewKept, CommentsKept DEF PagesInv

(* A range lies in n rows; it is the range of so many rows.                *)
Inside(range, n) == range.start <= range.end /\ range.end <= n

Spans(range, count) == count = IF range.start = 0 THEN 0 ELSE range.end - range.start + 1

(* The three ways to write the range under a page that has rows, or is the *)
(* first one.                                                              *)
LEMMA RangeFacts ==
    ASSUME NEW p \in Nat \ {0}, NEW s \in Nat \ {0}, NEW n \in Nat, NEW m \in Nat,
           p > 1 => (p - 1) * s < n
    PROVE  LET count == RowsOn(p, s, m)
           IN  /\ Inside(TasksRange(p, s, n), n)
               /\ Inside(CommentsRange(p, s, n, count), n)
               /\ Inside(HistoryRange(p, s, n, count), n)
               /\ m <= n => /\ Spans(CommentsRange(p, s, n, count), count)
                            /\ Spans(HistoryRange(p, s, n, count), count)
               /\ m = n => Spans(TasksRange(p, s, n), count)
               /\ m = n /\ count = 0 => n = 0
<1> DEFINE before == (p - 1) * s
           count == RowsOn(p, s, m)
           last == Min({p * s, n})
           end == Min({n, before + 1 + count - 1})
           none == [start |-> 0, end |-> 0]
           task == TasksRange(p, s, n)
           entry == CommentsRange(p, s, n, count)
<1>1. before \in Nat /\ p * s = before + s
    BY PageOffset
<1>2. before < n \/ (before = 0 /\ n = 0)
  <2>1. CASE p = 1
      BY <1>1, <2>1
  <2>2. CASE p # 1
      BY <2>2
  <2>3. QED BY <2>1, <2>2
<1>3. count = IF m <= before THEN 0 ELSE IF before + s <= m THEN s ELSE m - before
    BY <1>1, RowsOnFacts
<1>4. /\ task = IF n = 0 THEN none ELSE [start |-> before + 1, end |-> last]
      /\ entry = IF n = 0 \/ count = 0 THEN none ELSE [start |-> before + 1, end |-> end]
      /\ HistoryRange(p, s, n, count) = entry
    BY DEF TasksRange, CommentsRange, HistoryRange
<1> HIDE DEF before, count, task, entry
<1>5. last = IF before + s <= n THEN before + s ELSE n
    BY <1>1, MinOfTwo
<1>6. count \in Nat /\ end = IF n <= before + count THEN n ELSE before + count
  <2>1. count \in Nat
      BY <1>1, <1>3
  <2>2. QED BY <1>1, <2>1, MinOfTwo
<1> HIDE DEF last, end
<1>7. /\ task.start = IF n = 0 THEN 0 ELSE before + 1
      /\ task.end = IF n = 0 THEN 0 ELSE last
      /\ entry.start = IF n = 0 \/ count = 0 THEN 0 ELSE before + 1
      /\ entry.end = IF n = 0 \/ count = 0 THEN 0 ELSE end
    BY <1>4
<1>8. /\ task.start <= task.end /\ task.end <= n
      /\ entry.start <= entry.end /\ entry.end <= n
    BY <1>1, <1>2, <1>5, <1>6, <1>7
<1>9. m <= n => count = IF entry.start = 0 THEN 0 ELSE entry.end - entry.start + 1
    BY <1>1, <1>2, <1>3, <1>6, <1>7
<1>10. m = n => count = IF task.start = 0 THEN 0 ELSE task.end - task.start + 1
    BY <1>1, <1>2, <1>3, <1>5, <1>7
<1>11. m = n /\ count = 0 => n = 0
    BY <1>1, <1>2, <1>3
<1>12. /\ Inside(task, n) /\ Inside(entry, n)
       /\ m <= n => Spans(entry, count)
       /\ m = n => Spans(task, count)
    BY <1>8, <1>9, <1>10 DEF Inside, Spans
<1>13. QED BY <1>4, <1>11, <1>12 DEF count, task, entry

LEMMA RangesKnown ==
    ASSUME PagesInv
    PROVE  RangesSound
<1> SUFFICES ASSUME Shown.data # NoData
             PROVE  LET n == Shown.data.total
                    IN  /\ current <= Max({1, PagesOf(n, view.size)})
                        /\ RangeShown.start <= RangeShown.end /\ RangeShown.end <= n
                        /\ view \notin TaskView \/ Shown.data.at = n =>
                               RowsShown = IF RangeShown.start = 0 THEN 0
                                           ELSE RangeShown.end - RangeShown.start + 1
                        /\ RowsShown = 0 /\ Shown.data.at = n => n = 0
    BY DEF RangesSound, Loaded
<1>1. /\ PagesTypeOK /\ EntriesInv /\ ~Overrun(view, current, entries)
      /\ view \in View /\ current \in Page /\ Shown \in Entry(Answer)
      /\ <<view, current>> \in Key /\ Shown = entries[<<view, current>>]
    BY PagesFacts DEF PagesInv, ViewInv, Shown
<1>2. PICK p \in Nat \ {0} : p = current
    BY <1>1, BoundFacts
<1>3. PICK s \in Nat \ {0} : s = view.size
    BY <1>1, EachView
<1>4. Shown.data \in Answer /\ Shown.data.total # NoData
    BY <1>1, EntryFields DEF EntriesInv, Counted
<1>5. PICK n \in Nat : n = Shown.data.total
    BY <1>4, AnswerFields
<1>6. PICK m \in Nat : m = Shown.data.at
    BY <1>4, AnswerFields
<1>7. view \notin TaskView =>
          /\ view \in EntriesView /\ s = EntrySize
          /\ m <= n /\ (p > 1 => (p - 1) * s < m)
  <2> SUFFICES ASSUME view \notin TaskView
               PROVE  /\ view \in EntriesView /\ s = EntrySize
                      /\ m <= n /\ (p > 1 => (p - 1) * s < m)
      OBVIOUS
  <2>1. view \in EntriesView /\ s = EntrySize
      BY <1>1, <1>3, EachView, ViewFacts DEF EntriesView
  <2>2. EntryKept(Shown, current, rows[view.filter], TRUE)
      BY <1>1, <2>1, ShownFacts
  <2>3. QED BY <1>2, <1>4, <1>5, <1>6, <2>1, <2>2 DEF EntryKept, AnswerKept, Filled, BeforePage
<1>8. /\ PagesOf(n, s) \in Nat
      /\ p <= PagesOf(n, s) <=> (p - 1) * s < n
      /\ Max({1, PagesOf(n, s)}) = IF 1 >= PagesOf(n, s) THEN 1 ELSE PagesOf(n, s)
  <2>1. PagesOf(n, s) \in Nat /\ (p <= PagesOf(n, s) <=> (p - 1) * s < n)
      BY PagesOfFacts
  <2>2. QED BY <2>1, MaxOfTwo
<1>9. p <= Max({1, PagesOf(n, s)})
  <2>1. CASE view \in TaskView
    <3>1. ~(p > Max({1, PagesOf(n, s)}))
        BY <1>1, <1>2, <1>3, <1>5, <2>1 DEF Overrun, LastPage
    <3>2. QED BY <1>8, <3>1
  <2>2. CASE view \notin TaskView
    <3>1. (p - 1) * s \in Nat
        BY PageOffset
    <3>2. p > 1 => (p - 1) * s < n
        BY <1>7, <2>2, <3>1
    <3>3. QED BY <1>8, <3>2
  <2>3. QED BY <2>1, <2>2
<1>10. p > 1 => (p - 1) * s < n
    BY <1>8, <1>9
<1> DEFINE count == RowsOn(p, s, m)
           range == RangeShown
<1>11. RowsShown = count
    BY <1>2, <1>3, <1>6 DEF RowsShown
<1>12. range = IF view \in TaskView THEN TasksRange(p, s, n)
               ELSE IF view = CommentsView THEN CommentsRange(p, s, n, count)
               ELSE HistoryRange(p, s, n, count)
    BY <1>1, <1>2, <1>3, <1>5, <1>7, <1>11, EachView, ViewFacts DEF RangeShown
<1>13. /\ Inside(TasksRange(p, s, n), n)
       /\ Inside(CommentsRange(p, s, n, count), n) /\ Inside(HistoryRange(p, s, n, count), n)
       /\ m <= n => /\ Spans(CommentsRange(p, s, n, count), count)
                    /\ Spans(HistoryRange(p, s, n, count), count)
       /\ m = n => Spans(TasksRange(p, s, n), count)
       /\ m = n /\ count = 0 => n = 0
    BY <1>10, RangeFacts
<1> HIDE DEF count, range
<1>14. Inside(range, n) /\ (view \notin TaskView \/ m = n => Spans(range, count))
  <2>1. CASE view \in TaskView
      BY <1>12, <1>13, <2>1
  <2>2. CASE view \notin TaskView
      BY <1>7, <1>12, <1>13, <2>2
  <2>3. QED BY <2>1, <2>2
<1>15. QED
    BY <1>2, <1>3, <1>5, <1>6, <1>9, <1>11, <1>13, <1>14 DEF range, Inside, Spans

LEMMA OwnKnown ==
    ASSUME PagesInv
    PROVE  OwnCommentShown
<1>1. view = CommentsView /\ current = 1 => Shown = Newcomers
    BY DEF Shown, Newcomers
<1>2. QED BY <1>1 DEF OwnCommentShown, PagesInv, CommentsInv

-----------------------------------------------------------------------------
(* Every behaviour keeps the four invariants.                              *)

LEMMA FormInvariant == Spec => []FormInv
<1>1. Init => FormInv
    BY FormStarts DEF Init
<1>2. FormInv /\ [Next]_vars => FormInv'
  <2> SUFFICES ASSUME FormInv, [Next]_vars
               PROVE  FormInv'
      OBVIOUS
  <2>1. CASE FormNext
      BY <2>1, FormKept
  <2>2. CASE UNCHANGED formVars
      BY <2>2 DEF formVars, FormInv, FormTypeOK, DayLeft
  <2>3. QED BY <2>1, <2>2 DEF Next, vars
<1>3. QED BY <1>1, <1>2, PTL DEF Spec

LEMMA BellInvariant == Spec => []BellInv
<1>1. Init => BellInv
    BY BellStarts DEF Init
<1>2. BellInv /\ [Next]_vars => BellInv'
  <2> SUFFICES ASSUME BellInv, [Next]_vars
               PROVE  BellInv'
      OBVIOUS
  <2>1. CASE PopoverNext
      BY <2>1, BellKept
  <2>2. CASE UNCHANGED popoverVars
      BY <2>2 DEF popoverVars, BellInv, PopoverTypeOK, Growing, Covers, Heard, Started
  <2>3. QED BY <2>1, <2>2 DEF Next, vars
<1>3. QED BY <1>1, <1>2, PTL DEF Spec

LEMMA CacheInvariant == Spec => []CacheInv
<1>1. Init => CacheInv
    BY CacheStarts DEF Init
<1>2. CacheInv /\ [Next]_vars => CacheInv'
  <2> SUFFICES ASSUME CacheInv, [Next]_vars
               PROVE  CacheInv'
      OBVIOUS
  <2>1. CASE CacheNext
      BY <2>1, CacheKept
  <2>2. CASE UNCHANGED cacheVars
      BY <2>2 DEF cacheVars, serverVars, pageVars, ghostVars, CacheInv, CacheTypeOK, ServerInv,
                  sinceVars, ListInv, CardInv, Dated, Accounted, Behind, RowsOf, PageTasks,
                  Newer, Listed
  <2>3. QED BY <2>1, <2>2 DEF Next, vars
<1>3. QED BY <1>1, <1>2, PTL DEF Spec

LEMMA PagesInvariant == Spec => []PagesInv
<1>1. Init => PagesInv
    BY PagesStart DEF Init
<1>2. PagesInv /\ [Next]_vars => PagesInv'
  <2> SUFFICES ASSUME PagesInv, [Next]_vars
               PROVE  PagesInv'
      OBVIOUS
  <2>1. CASE PagesNext
      BY <2>1, PagesKept
  <2>2. CASE UNCHANGED pageCacheVars
      BY <2>2 DEF pageCacheVars, PagesInv, ViewInv, CommentsInv, PagesTypeOK, Overrun, LastPage,
                  EntriesInv, Newcomers
  <2>3. QED BY <2>1, <2>2 DEF Next, vars
<1>3. QED BY <1>1, <1>2, PTL DEF Spec

-----------------------------------------------------------------------------
(* Every variable of the web client has its type: no event, answer, click  *)
(* or save brings an entry, a page, a row or an instant out of its range.  *)
THEOREM WebClientTypes == Spec => []TypeOK
<1> DEFINE SceneOK == scene \in Scene
<1>1. Init => SceneOK
    BY DEF Init
<1>2. SceneOK /\ [Next]_vars => SceneOK'
    BY DEF Next, vars
<1>3. FormInv /\ CacheInv /\ PagesInv /\ BellInv /\ SceneOK => TypeOK
    BY DEF FormInv, CacheInv, PagesInv, ViewInv, BellInv, TypeOK
<1>4. Spec => []SceneOK
    BY <1>1, <1>2, PTL DEF Spec
<1> HIDE DEF SceneOK
<1>5. QED BY <1>3, <1>4, FormInvariant, CacheInvariant, PagesInvariant, BellInvariant, PTL

(* Whatever the zone, one that crosses the offset of UTC included, after   *)
(* any order of openings, picks and saves, the pages show the day the user *)
(* picked, less a day for every later save while the clocks of the day are *)
(* ahead of UTC, where the offset holds from that day's start to midnight  *)
(* in UTC: the form cuts its day from the UTC string (TaskModal.tsx).      *)
THEOREM DriftIsKnown == Spec => []DueDateDrift
BY FormInvariant, DriftKnown, PTL

(* Whatever the zones of the browser and of tasks-service, if they move    *)
(* their clocks once, by two hours at most, the filter by a day finds      *)
(* exactly the tasks due on it there, but for as many hours at either end  *)
(* of its range as clocks are moved by near it, and finds the picked day   *)
(* if and only if those clocks are ahead of the browser's by less than a   *)
(* day (the ranges of datetime.ts, as tasks-service calls them).           *)
THEOREM FilterIsExact == Spec => []DayFilterExact
BY FormInvariant, FilterExact, PTL

(* However events, answers and reconnects are ordered, lost or doubled, a  *)
(* quiet list is the server's, but for the rows a known gap explains: the  *)
(* listeners of TasksPage.                                                 *)
THEOREM RowsAreExplained == Spec => []RowsExplained
BY CacheInvariant, RowsKnown, PTL

(* No answer that overtook a save undoes it on the details page: Saved     *)
(* gives up the fetch under way before it writes (TaskDetailsPage.tsx).    *)
THEOREM OwnSavesRead == Spec => []ReadYourWrites
BY CacheInvariant, WritesRead, PTL

(* For all sizes of pages and numbers of rows, a page that has loaded is   *)
(* one the server counted rows for, and its range lies in what was         *)
(* counted; it is the range of the rows shown, but on TasksPage only if    *)
(* the two statements of findAll agree: the effect of TasksPage and the    *)
(* waiting buttons of the other lists.                                     *)
THEOREM RangesAreSound == Spec => []RangesSound
BY PagesInvariant, RangesKnown, PTL

(* An own comment is among those of page 1 when it comes up, but for the   *)
(* first load that was under way: TaskDetailsPage and its mutation.        *)
THEOREM OwnCommentsShown == Spec => []OwnCommentShown
BY PagesInvariant, OwnKnown, PTL

(* The bell counts what came since the list was last shown, over reloads,  *)
(* and toasts each notification of its answers once or, at a mount's first *)
(* answer, not at all: the effects of NotificationsPopover.                *)
THEOREM AllAnnounced == Spec => []NotificationsAnnounced
BY BellInvariant, Announced, PTL
=============================================================================

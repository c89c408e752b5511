------------------------ MODULE NotificationsPopover ------------------------
(***************************************************************************)
(* The bell of TasksPage: the query of the newest notifications, the count *)
(* on the bell, which local storage carries over reloads, and the toasts   *)
(* for notifications that were not there before.  Notifications are        *)
(* numbered as they are stored and never go away.                          *)
(***************************************************************************)
EXTENDS Integers, FiniteSetsExt, QueryCache

CONSTANTS
    DefaultLimit,   \* how many notifications an answer holds
    MaxTotal,       \* bound on the notifications of the user
    MaxFaults       \* bound on the fetches that fail

ASSUME PopoverAssumption == DefaultLimit \in Nat \ {0} /\ MaxTotal \in Nat /\ MaxFaults \in Nat

VARIABLES
    total,      \* the server: notifications stored for the user
    bell,       \* the entry ['notifications', {limit}]; an answer is its meta.total
    stored,     \* the key of local storage
    popover,    \* the component, if it is mounted
    faults,     \* fetches that failed so far
    toasts,     \* ghost: how often each notification was toasted since the page load
    quiet,      \* ghost: those that were there at a mount's first answer
    opened      \* ghost: how many there were when the list was last shown

popoverVars == <<total, bell, stored, popover, faults, toasts, quiet, opened>>

Notification == 1..MaxTotal

(* isOpen, lastSeenTotal, hasInitializedRef and knownNotificationIdsRef.   *)
Mounted ==
    [mounted : BOOLEAN, open : BOOLEAN, seen : 0..MaxTotal, initialized : BOOLEAN,
     known : SUBSET Notification]

Gone == [mounted |-> FALSE, open |-> FALSE, seen |-> 0, initialized |-> FALSE, known |-> {}]

PopoverTypeOK ==
    /\ total \in 0..MaxTotal
    /\ bell \in Entry(0..MaxTotal)
    /\ stored \in 0..MaxTotal
    /\ popover \in Mounted
    /\ faults \in 0..MaxFaults
    /\ toasts \in [Notification -> 0..2]
    /\ quiet \subseteq Notification
    /\ opened \in 0..MaxTotal

PopoverInit ==
    /\ total \in 0..MaxTotal /\ bell = Unloaded /\ stored = 0 /\ popover = Gone
    /\ faults = 0 /\ toasts = [n \in Notification |-> 0] /\ quiet = {} /\ opened = 0
-----------------------------------------------------------------------------
(* The notifications of an answer: the newest ones.                        *)
Newest(answer) == Max({1, answer - DefaultLimit + 1})..answer

(* lastSeenTotal after the effects: never more than there are, and all of  *)
(* them while the list is open.                                            *)
Seen(p, e) ==
    IF ~Loaded(e) THEN p.seen
    ELSE IF p.open THEN e.data ELSE Min({p.seen, e.data})

(* A mutant: the first answer of a mount is told apart from no other one.  *)
NewFromTheStart(p, e) == IF Loaded(e) THEN Newest(e.data) \ p.known ELSE {}

New(p, e) == IF p.initialized /\ Loaded(e) THEN Newest(e.data) \ p.known ELSE {}

Known(p, e) == IF Loaded(e) THEN p.known \cup Newest(e.data) ELSE p.known

(* The component renders with p and e, and its effects run.                *)
Render(p, e) ==
    /\ bell' = e
    /\ popover' = [p EXCEPT !.seen = Seen(p, e), !.known = Known(p, e),
                            !.initialized = @ \/ Loaded(e)]
    /\ stored' = IF p.mounted THEN Seen(p, e) ELSE stored
    /\ toasts' = [n \in Notification |->
                     IF n \in New(p, e) THEN toasts[n] + 1 ELSE toasts[n]]
    /\ quiet' = IF Loaded(e) /\ ~p.initialized
                THEN quiet \cup {n \in Newest(e.data) : toasts[n] = 0} ELSE quiet
    /\ opened' = IF Loaded(e) /\ p.open THEN Max({opened, e.data}) ELSE opened

(* A render that has no component only writes the cache.                   *)
Show(e) ==
    IF popover.mounted THEN Render(popover, e)
    ELSE bell' = e /\ UNCHANGED <<popover, stored, toasts, quiet, opened>>
-----------------------------------------------------------------------------
NotificationStored ==
    /\ total < MaxTotal /\ total' = total + 1
    /\ UNCHANGED <<bell, stored, popover, faults, toasts, quiet, opened>>

BellRead ==
    /\ bell.fetch = "asked" /\ Show(Served(bell, total))
    /\ UNCHANGED <<total, faults>>

BellArrives ==
    /\ bell.fetch = "read" /\ Show(Settled(bell))
    /\ UNCHANGED <<total, faults>>

BellFails ==
    /\ Fetching(bell) /\ faults < MaxFaults /\ faults' = faults + 1
    /\ Show(Failed(bell))
    /\ UNCHANGED total

(* A task:created, task:updated or comment:new event reaches TasksPage.    *)
BellInvalidated ==
    /\ popover.mounted /\ Show(Refetch(bell))
    /\ UNCHANGED <<total, faults>>

(* TasksPage mounts: what local storage holds is read once.                *)
MountBell ==
    /\ ~popover.mounted
    /\ Render([Gone EXCEPT !.mounted = TRUE, !.seen = stored], Fetch(bell))
    /\ UNCHANGED <<total, faults>>

UnmountBell ==
    /\ popover.mounted /\ popover' = Gone
    /\ UNCHANGED <<total, bell, stored, faults, toasts, quiet, opened>>

(* Opening the list fetches again, as its buttons do.                      *)
OpenBell ==
    /\ popover.mounted /\ Render([popover EXCEPT !.open = TRUE], Refetch(bell))
    /\ UNCHANGED <<total, faults>>

CloseBell ==
    /\ popover.open /\ Render([popover EXCEPT !.open = FALSE], bell)
    /\ UNCHANGED <<total, faults>>

(* An entry no component uses is dropped after five minutes.               *)
BellCollected ==
    /\ ~popover.mounted /\ ~Fetching(bell) /\ bell' = Unloaded
    /\ UNCHANGED <<total, stored, popover, faults, toasts, quiet, opened>>

PageReloaded ==
    /\ popover' = Gone /\ bell' = Unloaded
    /\ toasts' = [n \in Notification |-> 0] /\ quiet' = {}
    /\ UNCHANGED <<total, stored, faults, opened>>

PopoverNext ==
    \/ NotificationStored
    \/ BellRead \/ BellArrives \/ BellFails \/ BellInvalidated
    \/ MountBell \/ UnmountBell \/ OpenBell \/ CloseBell
    \/ BellCollected \/ PageReloaded
-----------------------------------------------------------------------------
(* newNotificationsCount                                                   *)
Badge == IF Loaded(bell) THEN Max({0, bell.data - popover.seen}) ELSE 0

(* The bell counts exactly the notifications that came since the list was  *)
(* last shown, over reloads too; and of those it has, each was toasted     *)
(* once, or was there when a mount loaded them first: no second toast, no  *)
(* silent one (NotificationsPopover.tsx:57).                               *)
NotificationsAnnounced ==
    popover.mounted /\ Loaded(bell) =>
        /\ Badge = bell.data - Min({opened, bell.data})
        /\ \A n \in Newest(bell.data) :
               toasts[n] = IF n \in quiet THEN 0 ELSE 1
=============================================================================

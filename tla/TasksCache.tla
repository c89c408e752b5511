----------------------------- MODULE TasksCache -----------------------------
(***************************************************************************)
(* What one browser shows of the tasks: the list of TasksPage, one page of *)
(* the tasks that match a filter, which also listens to the socket while   *)
(* it is mounted, and the task of TaskDetailsPage, beside a server other   *)
(* people work on and events that come in any order, twice (directly and   *)
(* relayed), or not at all.                                                *)
(***************************************************************************)
EXTENDS Integers, FiniteSets, QueryCache

CONSTANTS
    Task,         \* the tasks that exist at some time
    Opened,       \* the task the browser opens and edits
    Slice,        \* pages and page sizes the list may be opened with
    MaxVersion,   \* bound on the edits of that task
    MaxChanges,   \* bound on the creations, edits, removals and losses together
    MaxLosses,    \* bound on lost events and lost answers
    NoRequest     \* no mutation of the browser is under way

ASSUME TaskAssumption ==
    /\ Opened \in Task /\ MaxVersion \in Nat \ {0} /\ MaxLosses \in Nat
    /\ Slice \subseteq [page : Nat \ {0}, size : Nat \ {0}]
    /\ NoData \notin Nat /\ NoData \notin [Task -> 0..MaxVersion]
    /\ NoRequest \notin [kind : {"create", "update", "delete"}, answered : BOOLEAN,
                         version : 0..MaxVersion]

VARIABLES
    version,    \* the server: edits of a task so far, 0 before it is created
    removed,    \* the server: the tasks that were removed
    matching,   \* the server: the tasks whose newest version passes the filter
    older,      \* the server: the tasks that were created before a task
    wire,       \* events under way to the browser
    up,         \* the socket is connected
    page,       \* the page that is mounted
    aware,      \* wasDisconnectedRef of the mounted TasksPage
    filters,    \* the page and its size in the key of the list
    list,       \* the entry ['tasks', filters]
    card,       \* the entry ['task', Opened]
    request,    \* the mutation of the browser that is under way
    losses,     \* events and answers lost so far
    spent,      \* ghost: the newest version whose last event has come to an end
    late,       \* ghost: tasks whose creation changed the page since an answer was read
    moved,      \* ghost: the answers since which an edit or a removal changed the page
    excused,    \* ghost: the tasks a known gap keeps from being current
    mine        \* ghost: the newest version the page was told it saved

serverVars == <<version, removed, matching, older>>
pageVars == <<page, aware, up, filters>>
sinceVars == <<late, moved>>
ghostVars == <<spent, sinceVars, excused, mine>>
cacheVars == <<serverVars, wire, pageVars, list, card, request, losses, ghostVars>>

Version == 0..MaxVersion
Rows == [Task -> Version]
Side == {"got", "data"}
Event == [kind : {"created", "updated"}, task : Task, version : Version,
          copy : {"direct", "relayed"}]

CacheTypeOK ==
    /\ version \in Rows /\ removed \subseteq Task /\ matching \subseteq Task
    /\ older \in [Task -> SUBSET Task] /\ filters \in Slice
    /\ wire \subseteq Event
    /\ page \in {"list", "details", "none"} /\ aware \in BOOLEAN /\ up \in BOOLEAN
    /\ list \in Entry(Rows)
    /\ card \in Entry(Version)
    /\ request \in [kind : {"create", "update", "delete"}, answered : BOOLEAN,
                    version : Version] \cup {NoRequest}
    /\ losses \in 0..MaxLosses
    /\ spent \in Rows
    /\ late \in [Side -> SUBSET Task] /\ moved \subseteq Side
    /\ excused \subseteq Task
    /\ mine \in Version

CacheInit ==
    /\ version = [t \in Task |-> IF t = Opened THEN 1 ELSE 0] /\ removed = {}
    /\ matching \in SUBSET {Opened} /\ older = [t \in Task |-> {}] /\ filters \in Slice
    /\ wire = {} /\ up = TRUE /\ page = "none" /\ aware = FALSE
    /\ list = Unloaded /\ card = Unloaded /\ request = NoRequest /\ losses = 0
    /\ spent = [t \in Task |-> 0] /\ late = [side \in Side |-> {}] /\ moved = {}
    /\ excused = {} /\ mine = 0
-----------------------------------------------------------------------------
(* The tasks on the page, the newest first: no two are as old.             *)
Listed == matching \ removed
Newer(t) == {u \in Listed : t \in older[u]}
PageTasks == {t \in Listed : Cardinality(Newer(t)) \div filters.size = filters.page - 1}

(* The rows an answer of GET /tasks has; 0 stands for a task it has not.   *)
PageRows == [t \in Task |-> IF t \in PageTasks THEN version[t] ELSE 0]

(* The answers there are: one on its way, and the one that is shown.       *)
Answers == {side \in Side : list[side] # NoData}

RowsOf(rows) == {t \in Task : rows[t] > 0}

(* Tasks that rows show wrongly, or leave out as they were created late,   *)
(* and no event is left to correct.                                        *)
Behind(rows, created, ends) ==
    {t \in RowsOf(rows) : rows[t] # version[t] /\ rows[t] < ends[t]}
        \cup {t \in created : ends[t] > 0}

EventsOf(kind, t, v) ==
    {[kind |-> kind, task |-> t, version |-> v, copy |-> c] : c \in {"direct", "relayed"}}

Changes ==
    Cardinality({c \in Task \X Version : 0 < c[2] /\ c[2] <= version[c[1]]})
        + Cardinality(removed) - 1

(* Losses take their share of MaxChanges: a bound of the model.            *)
Room == Changes + losses < MaxChanges

(* The last copy of an event is gone, used or not.                         *)
Ended(e) ==
    IF wire \cap EventsOf(e.kind, e.task, e.version) = {e} /\ spent[e.task] < e.version
    THEN [spent EXCEPT ![e.task] = e.version] ELSE spent

Creates(t) ==
    /\ Room /\ version[t] = 0 /\ version' = [version EXCEPT ![t] = 1]
    /\ matching' \in {matching, matching \cup {t}}
    /\ older' = [older EXCEPT ![t] = {u \in Task : version[u] > 0}]
    /\ wire' = wire \cup EventsOf("created", t, 1)
    /\ UNCHANGED <<removed, filters, spent, moved, excused>>
    /\ late' = [side \in Side |-> IF PageTasks' = PageTasks \/ side \notin Answers
                                  THEN late[side] ELSE late[side] \cup {t}]

(* What was edited may enter the filter, or leave it.                      *)
Updates ==
    /\ Room /\ Opened \notin removed /\ version[Opened] < MaxVersion
    /\ version' = [version EXCEPT ![Opened] = @ + 1]
    /\ matching' \in {matching \cup {Opened}, matching \ {Opened}}
    /\ wire' = wire \cup EventsOf("updated", Opened, version'[Opened])
    /\ UNCHANGED <<removed, older, filters, spent, late, excused>>
    /\ moved' = IF PageTasks' = PageTasks THEN moved ELSE moved \cup Answers

(* No page listens for task:deleted.                                       *)
Removes(t) ==
    /\ Room /\ version[t] > 0 /\ t \notin removed
    /\ removed' = removed \cup {t}
    /\ UNCHANGED <<version, matching, older, filters, wire, spent, late, excused>>
    /\ moved' = IF PageTasks' = PageTasks THEN moved ELSE moved \cup Answers

SomeoneElse ==
    /\ Updates \/ \E t \in Task : Creates(t) \/ Removes(t)
    /\ UNCHANGED <<page, aware, up, list, card, request, losses, mine>>
-----------------------------------------------------------------------------
(* Fetches: the server answers, the answer arrives, or all attempts fail.  *)
ReadList ==
    /\ list.fetch = "asked" /\ list' = Served(list, PageRows)
    /\ late' = [late EXCEPT !["got"] = {}] /\ moved' = moved \ {"got"}
    /\ UNCHANGED <<serverVars, wire, pageVars, card, request, losses, spent, excused, mine>>

ListArrives ==
    /\ list.fetch = "read" /\ list' = Settled(list)
    /\ late' = [late EXCEPT !["got"] = {}, !["data"] = late["got"]]
    /\ moved' = IF "got" \in moved THEN {"data"} ELSE {}
    /\ excused' = Behind(list.got, late["got"], spent)
    /\ UNCHANGED <<serverVars, wire, pageVars, card, request, losses, spent, mine>>

ListFails ==
    /\ Fetching(list) /\ Room /\ losses < MaxLosses /\ losses' = losses + 1
    /\ list' = Failed(list)
    /\ excused' = excused \cup (IF list.data = NoData THEN {}
                              ELSE Behind(list.data, late["data"], spent))
    /\ UNCHANGED <<serverVars, wire, pageVars, card, request, spent, sinceVars, mine>>

ReadCard ==
    /\ card.fetch = "asked" /\ Opened \notin removed
    /\ card' = Served(card, version[Opened])
    /\ UNCHANGED <<serverVars, wire, pageVars, list, request, losses, ghostVars>>

CardArrives ==
    /\ card.fetch = "read" /\ card' = Settled(card)
    /\ UNCHANGED <<serverVars, wire, pageVars, list, request, losses, ghostVars>>

CardFails ==
    /\ Fetching(card) /\ card' = Failed(card)
    /\ \/ Opened \in removed /\ UNCHANGED losses
       \/ Room /\ losses < MaxLosses /\ losses' = losses + 1
    /\ UNCHANGED <<serverVars, wire, pageVars, list, request, ghostVars>>

(* The window gets the focus: the query of the page is fetched.            *)
Focus ==
    /\ \/ page = "list" /\ list' = Fetch(list) /\ UNCHANGED card
       \/ page = "details" /\ card' = Fetch(card) /\ UNCHANGED list
    /\ UNCHANGED <<serverVars, wire, pageVars, request, losses, ghostVars>>

(* The buttons `Tentar novamente'.                                         *)
Retry ==
    /\ \/ page = "list" /\ list.failed /\ list' = Refetch(list) /\ UNCHANGED card
       \/ page = "details" /\ card.failed /\ card' = Refetch(card) /\ UNCHANGED list
    /\ UNCHANGED <<serverVars, wire, pageVars, request, losses, ghostVars>>

OpenList ==
    /\ page # "list" /\ page' = "list" /\ aware' = FALSE
    /\ list' = Fetch(list)
    /\ UNCHANGED <<serverVars, wire, up, filters, card, request, losses, ghostVars>>

OpenDetails ==
    /\ page # "details" /\ page' = "details" /\ aware' = FALSE
    /\ card' = Fetch(card)
    /\ UNCHANGED <<serverVars, wire, up, filters, list, request, losses, ghostVars>>
-----------------------------------------------------------------------------
(* The socket and the listeners of TasksPage.                              *)
Listening == up /\ page = "list"

HandleTaskCreated(e) ==
    /\ Listening /\ e \in wire /\ e.kind = "created"
    /\ wire' = wire \ {e} /\ spent' = Ended(e)
    /\ list' = Refetch(list)
    /\ UNCHANGED <<serverVars, pageVars, card, request, losses, sinceVars, excused, mine>>

(* setQueriesData touches the lists that are loaded: a row that is shown   *)
(* is replaced where it stands, whether it still passes the filter or not, *)
(* and none is added.  setQueryData writes the task in any case.           *)
HandleTaskUpdated(e) ==
    /\ Listening /\ e \in wire /\ e.kind = "updated"
    /\ wire' = wire \ {e} /\ spent' = Ended(e)
    /\ card' = Written(card, e.version)
    /\ IF list.data = NoData THEN UNCHANGED <<list, excused>>
       ELSE LET rows == IF list.data[e.task] = 0 THEN list.data
                        ELSE [list.data EXCEPT ![e.task] = e.version]
            IN  /\ list' = Written(list, rows)
                /\ excused' = excused \cup Behind(rows, late["data"], spent')
    /\ UNCHANGED <<serverVars, pageVars, request, losses, sinceVars, mine>>

(* Nothing listens, or the browser is not connected when it is sent.       *)
Unheard(e) ==
    /\ ~Listening /\ e \in wire
    /\ wire' = wire \ {e} /\ spent' = Ended(e)
    /\ excused' = IF page = "list" /\ ~aware /\ list.data # NoData
                  THEN excused \cup Behind(list.data, late["data"], spent') ELSE excused
    /\ UNCHANGED <<serverVars, pageVars, list, card, request, losses, sinceVars, mine>>

Lose(e) ==
    /\ e \in wire /\ Room /\ losses < MaxLosses /\ losses' = losses + 1
    /\ wire' = wire \ {e} /\ spent' = Ended(e)
    /\ excused' = IF list.data = NoData THEN excused
                  ELSE excused \cup Behind(list.data, late["data"], spent')
    /\ UNCHANGED <<serverVars, pageVars, list, card, request, sinceVars, mine>>

Disconnect ==
    /\ up /\ up' = FALSE
    /\ aware' = (page = "list")
    /\ UNCHANGED <<serverVars, wire, page, filters, list, card, request, losses, ghostVars>>

(* A mutant: the listener of connect invalidates nothing.                  *)
ConnectQuietly ==
    /\ ~up /\ up' = TRUE /\ aware' = FALSE
    /\ UNCHANGED <<serverVars, wire, page, filters, list, card, request, losses, ghostVars>>

Connect ==
    /\ ~up /\ up' = TRUE /\ aware' = FALSE
    /\ list' = IF aware THEN Refetch(list) ELSE list
    /\ UNCHANGED <<serverVars, wire, page, filters, card, request, losses, ghostVars>>
-----------------------------------------------------------------------------
(* The mutations: TaskModal on either page, and the button that deletes.   *)
Send(kind) ==
    /\ request = NoRequest
    /\ IF kind = "create" THEN page = "list" ELSE page = "details" /\ Loaded(card)
    /\ request' = [kind |-> kind, answered |-> FALSE, version |-> 0]
    /\ UNCHANGED <<serverVars, wire, pageVars, list, card, losses, ghostVars>>

Answered(kind) ==
    /\ request # NoRequest /\ request.kind = kind /\ ~request.answered
    /\ request' = [request EXCEPT !.answered = TRUE, !.version = version'[Opened]]
    /\ UNCHANGED <<page, aware, up, list, card, losses, mine>>

CreateTask == (\E t \in Task : Creates(t)) /\ Answered("create")

UpdateTask == Updates /\ Answered("update")

DeleteTask == Removes(Opened) /\ Answered("delete")

(* onError: the request or its answer was lost, or its task is removed.    *)
SendFails ==
    /\ request # NoRequest /\ request' = NoRequest
    /\ \/ ~request.answered /\ request.kind # "create" /\ Opened \in removed
          /\ UNCHANGED losses
       \/ Room /\ losses < MaxLosses /\ losses' = losses + 1
    /\ UNCHANGED <<serverVars, wire, pageVars, list, card, ghostVars>>

(* Invalidating a query no page shows only marks it.                       *)
Invalidated(query, shown) == IF shown THEN Refetch(query) ELSE query

Created ==
    /\ request # NoRequest /\ request.answered /\ request.kind = "create"
    /\ request' = NoRequest
    /\ list' = Invalidated(list, page = "list")
    /\ UNCHANGED <<serverVars, wire, pageVars, card, losses, ghostVars>>

(* A mutant: the answer is written, and a fetch under way is left alone.   *)
SavedBesideFetch ==
    /\ request # NoRequest /\ request.answered /\ request.kind = "update"
    /\ request' = NoRequest
    /\ list' = Invalidated(list, page = "list")
    /\ card' = Written(card, request.version)
    /\ mine' = IF page = "details" THEN request.version ELSE 0
    /\ UNCHANGED <<serverVars, wire, pageVars, losses, spent, sinceVars, excused>>

Saved ==
    /\ request # NoRequest /\ request.answered /\ request.kind = "update"
    /\ request' = NoRequest
    /\ list' = Invalidated(list, page = "list")
    /\ card' = Written(Invalidated(card, page = "details"), request.version)
    /\ mine' = IF page = "details" THEN request.version ELSE 0
    /\ UNCHANGED <<serverVars, wire, pageVars, losses, spent, sinceVars, excused>>

(* onSuccess of the button: the entry is dropped, the list is opened.      *)
Deleted ==
    /\ request # NoRequest /\ request.answered /\ request.kind = "delete"
    /\ request' = NoRequest
    /\ card' = Unloaded /\ mine' = 0
    /\ list' = IF page = "list" THEN Refetch(list) ELSE Fetch(list)
    /\ page' = "list"
    /\ aware' = (page = "list" /\ aware)
    /\ UNCHANGED <<serverVars, wire, up, filters, losses, spent, sinceVars, excused>>

CacheNext ==
    \/ SomeoneElse
    \/ ReadList \/ ListArrives \/ ListFails
    \/ ReadCard \/ CardArrives \/ CardFails
    \/ Focus \/ Retry \/ OpenList \/ OpenDetails
    \/ \E e \in wire :
           HandleTaskCreated(e) \/ HandleTaskUpdated(e) \/ Unheard(e) \/ Lose(e)
    \/ Disconnect \/ Connect
    \/ \E kind \in {"create", "update", "delete"} : Send(kind)
    \/ CreateTask \/ UpdateTask \/ DeleteTask \/ SendFails \/ Created \/ Saved \/ Deleted
-----------------------------------------------------------------------------
(* With no event and no fetch under way, each row a connected list shows   *)
(* is the newest version of its task, unless a known gap explains it: its  *)
(* last event was lost, or came while the socket was down and the page did *)
(* not know; an older event came last; or the answer of a fetch was older  *)
(* than the events that had come before it, or no answer came.  And the    *)
(* rows are those of the server's page, unless, since they were read, an   *)
(* edit moved a task into the page or out of it, which no event corrects,  *)
(* a removal did, which no page hears of, or a task was created and one of *)
(* those gaps swallowed the news (TasksPage.tsx:121, 137, 173, 197).       *)
RowsExplained ==
    wire = {} /\ Listening /\ Loaded(list) /\ ~Fetching(list) =>
        /\ \A t \in RowsOf(list.data) : list.data[t] = version[t] \/ t \in excused
        /\ \/ RowsOf(list.data) = PageTasks
           \/ "data" \in moved
           \/ late["data"] # {} /\ late["data"] \subseteq excused

(* The details page never shows, once it is done fetching, a version from  *)
(* before a save it was told about: the answer of a fetch that overtook    *)
(* the save does not undo it on the screen (TaskDetailsPage.tsx:579).      *)
ReadYourWrites ==
    page = "details" /\ Loaded(card) /\ ~Fetching(card) => card.data >= mine
=============================================================================

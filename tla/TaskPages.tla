------------------------------ MODULE TaskPages ------------------------------
(***************************************************************************)
(* The paged lists of the browser: the tasks, whose page is corrected when *)
(* it lies behind the last one, and the comments and the audit log of one  *)
(* task, whose buttons wait for a fetch.  Rows come and go on the server,  *)
(* also between the two statements that read a page and count the rows.    *)
(* The initial view says which of the three pages is open.                 *)
(***************************************************************************)
EXTENDS Integers, FiniteSetsExt, QueryCache

CONSTANTS
    TaskView,   \* views of the tasks: a filter and a page size
    EntrySize,  \* rows on a page of comments or of the audit log
    MaxRows,    \* bound on the tasks a filter matches
    MaxEntries, \* bound on the comments, and on the rows of the audit log
    MaxMoves,   \* bound on the rows that others add or take away and the
                \* requests that fail, together
    MaxFetches, \* bound on the fetches under way at once
    MaxFails    \* bound on the requests that fail

CommentsView == [filter |-> "comments", size |-> EntrySize]
HistoryView == [filter |-> "audit-log", size |-> EntrySize]
View == TaskView \cup {CommentsView, HistoryView}
Filter == {v.filter : v \in View}
EntriesFilter == {"comments", "audit-log"}

(* An answer of the server: how many rows there were when its page was     *)
(* read, from which the rows on that page follow, and when they were       *)
(* counted, its meta.total.                                                *)
MaxAny == Max({MaxRows, MaxEntries})
Answer == [at : 0..MaxAny, total : (0..MaxAny) \cup {NoData}]

ASSUME PagesAssumption ==
    /\ \A v \in View : v.size \in Nat \ {0}
    /\ \A v \in TaskView : v.filter \notin EntriesFilter
    /\ EntrySize \in Nat \ {0}
    /\ MaxRows \in Nat /\ MaxEntries \in Nat /\ MaxRows + MaxEntries > 0
    /\ MaxMoves \in Nat /\ MaxFails \in Nat /\ NoData \notin Nat \cup Answer

VARIABLES
    rows,       \* the server: how many rows each filter matches
    view,       \* the filter and the page size of the page
    current,    \* the page that is shown
    entries,    \* the cache, by view and page
    publish,    \* the mutation that publishes a comment
    moves,      \* rows that others added or took away so far
    fails,      \* requests that failed so far
    published,  \* ghost: how many comments the answer to the last own one counts
    overtaken   \* ghost: the first load of page 1 was under way at that answer

pageCacheVars == <<rows, view, current, entries, publish, moves, fails, published, overtaken>>

Bound(f) == IF f \in EntriesFilter THEN MaxEntries ELSE MaxRows
Page == 1..MaxAny
Key == View \X Page
Shown == entries[<<view, current>>]

PagesTypeOK ==
    /\ rows \in [Filter -> 0..MaxAny]
    /\ view \in View /\ current \in Page
    /\ entries \in [Key -> Entry(Answer)]
    /\ publish \in [stage : {"none", "sent", "stored"}, count : 0..MaxEntries]
    /\ moves \in 0..MaxMoves /\ fails \in 0..MaxFails
    /\ published \in 0..MaxEntries /\ overtaken \in BOOLEAN

PagesInit ==
    /\ view \in View
    /\ \E n \in 0..Bound(view.filter) :
           rows = [f \in Filter |-> IF f \in EntriesFilter /\ f # view.filter THEN 0
                                   ELSE Min({n, Bound(f)})]
    /\ current = 1
    /\ entries = [k \in Key |-> IF k = <<view, 1>> THEN Fetch(Unloaded) ELSE Unloaded]
    /\ publish = [stage |-> "none", count |-> 0] /\ moves = 0 /\ fails = 0
    /\ published = 0 /\ overtaken = FALSE
-----------------------------------------------------------------------------
(* toPaginatedResponse rounds up.                                          *)
PagesOf(total, size) == (total + size - 1) \div size

RowsOn(page, size, total) == Max({0, Min({size, total - (page - 1) * size})})

(* A mutant: the effect is gone.                                           *)
Uncorrected(v, page, cache) == {page}

(* What is loaded for a page of the tasks says there are fewer pages.      *)
LastPage(v, page, cache) == Max({1, PagesOf(cache[<<v, page>>].data.total, v.size)})

Overrun(v, page, cache) ==
    /\ v \in TaskView /\ cache[<<v, page>>].data # NoData
    /\ page > LastPage(v, page, cache)

(* The pages the effect of TasksPage goes through from a page, each on to  *)
(* the last of those there are: the least set that is closed under that.   *)
Corrected(v, page, cache) ==
    {p \in 1..page : \A visited \in SUBSET (1..page) :
        /\ page \in visited
        /\ \A q \in visited : Overrun(v, q, cache) => LastPage(v, q, cache) \in visited
        => p \in visited}

(* Each page that comes up mounts its query.                               *)
Display(v, page, cache) ==
    LET visited == Corrected(v, page, cache)
        mounted == {<<v, p>> : p \in visited} \ {<<view, current>>}
    IN  /\ view' = v /\ current' = Min(visited)
        /\ entries' = [k \in Key |-> IF k \in mounted THEN Fetch(cache[k]) ELSE cache[k]]

Update(k, entry) == [entries EXCEPT ![k] = entry]
-----------------------------------------------------------------------------
(* The server: anyone adds rows; tasks can leave a filter.                 *)
RowAdded(f) ==
    /\ f \in EntriesFilter => f = view.filter
    /\ rows[f] < Bound(f) /\ rows' = [rows EXCEPT ![f] = @ + 1]
    /\ moves + fails < MaxMoves /\ moves' = moves + 1
    /\ UNCHANGED <<view, current, entries, publish, fails, published, overtaken>>

RowGone(f) ==
    /\ f \notin EntriesFilter /\ rows[f] > 0 /\ rows' = [rows EXCEPT ![f] = @ - 1]
    /\ moves + fails < MaxMoves /\ moves' = moves + 1
    /\ UNCHANGED <<view, current, entries, publish, fails, published, overtaken>>

(* How many rows a statement of findAll finds.                             *)
TasksFound(v) == rows[v.filter]
CommentsFound == rows["comments"]
LogsFound == rows["audit-log"]

FoundFor(v) ==
    CASE v \in TaskView -> TasksFound(v)
      [] v = CommentsView -> CommentsFound
      [] v = HistoryView -> LogsFound

(* getManyAndCount: the page is read, then the rows are counted.           *)
ReadPage(k) ==
    /\ entries[k].fetch = "asked"
    /\ entries' = Update(k, Served(entries[k], [at |-> FoundFor(k[1]), total |-> NoData]))
    /\ UNCHANGED <<moves, rows, view, current, publish, fails, published, overtaken>>

CountPage(k) ==
    /\ entries[k].fetch = "read" /\ entries[k].got.total = NoData
    /\ entries' = Update(k, Served(entries[k],
                                   [at |-> entries[k].got.at, total |-> FoundFor(k[1])]))
    /\ UNCHANGED <<moves, rows, view, current, publish, fails, published, overtaken>>

PageArrives(k) ==
    /\ entries[k].fetch = "read" /\ entries[k].got.total # NoData
    /\ Display(view, current, Update(k, Settled(entries[k])))
    /\ overtaken' = (overtaken /\ ~(k[2] = 1 /\ entries[k].got.at >= published))
    /\ UNCHANGED <<moves, rows, publish, fails, published>>

PageFails(k) ==
    /\ Fetching(entries[k])
    /\ moves + fails < MaxMoves /\ fails < MaxFails /\ fails' = fails + 1
    /\ entries' = Update(k, Failed(entries[k]))
    /\ UNCHANGED <<moves, rows, view, current, publish, published, overtaken>>

Refocus ==
    /\ entries' = Update(<<view, current>>, Fetch(Shown))
    /\ UNCHANGED <<moves, rows, view, current, publish, fails, published, overtaken>>

(* The query of the tasks is invalidated by an event, or retried.          *)
Reload ==
    /\ view \in TaskView
    /\ entries' = Update(<<view, current>>, Refetch(Shown))
    /\ UNCHANGED <<moves, rows, view, current, publish, fails, published, overtaken>>
-----------------------------------------------------------------------------
(* TasksPage: the buttons of TasksPagination, which work during a fetch.   *)
Turn(page) ==
    /\ Display(view, Max({1, page}), entries)
    /\ UNCHANGED <<moves, rows, publish, fails, published, overtaken>>

PreviousTasks ==
    /\ view \in TaskView /\ Shown.data # NoData /\ current > 1
    /\ Turn(current - 1)

NextTasks ==
    /\ view \in TaskView /\ Shown.data # NoData
    /\ current < PagesOf(Shown.data.total, view.size)
    /\ Turn(current + 1)

(* Whatever the new value of a filter is, page 1 comes up.                 *)
FilterTasks(v) ==
    /\ v \in TaskView /\ view \in TaskView /\ v.size = view.size
    /\ Display(v, 1, entries)
    /\ UNCHANGED <<moves, rows, publish, fails, published, overtaken>>

(* The search has settled on a term; the term that is searched already is  *)
(* left alone, with its page.                                              *)
SearchTasks(v) ==
    /\ v \in TaskView /\ view \in TaskView
    /\ v.filter # view.filter /\ v.size = view.size
    /\ Display(v, 1, entries)
    /\ UNCHANGED <<moves, rows, publish, fails, published, overtaken>>

ResizePages(v) ==
    /\ v \in TaskView /\ view \in TaskView /\ Shown.data # NoData
    /\ v.filter = view.filter /\ v.size # view.size
    /\ Display(v, 1, entries)
    /\ UNCHANGED <<moves, rows, publish, fails, published, overtaken>>
-----------------------------------------------------------------------------
(* TaskDetailsPage and TaskHistoryPage: the buttons wait for the fetch.    *)
PreviousComments ==
    /\ view = CommentsView /\ current > 1 /\ ~Fetching(Shown)
    /\ Turn(current - 1)

(* A mutant: the button does not wait.                                     *)
NextCommentsAtOnce ==
    /\ view = CommentsView /\ Shown.data # NoData
    /\ current < PagesOf(Shown.data.total, EntrySize)
    /\ Turn(current + 1)

NextComments ==
    /\ view = CommentsView /\ ~Fetching(Shown) /\ Shown.data # NoData
    /\ current < PagesOf(Shown.data.total, EntrySize)
    /\ RowsOn(current, EntrySize, Shown.data.at) > 0
    /\ Turn(current + 1)

PreviousLogs ==
    /\ view = HistoryView /\ current > 1 /\ ~Fetching(Shown)
    /\ Turn(current - 1)

NextLogs ==
    /\ view = HistoryView /\ ~Fetching(Shown) /\ Shown.data # NoData
    /\ current < PagesOf(Shown.data.total, EntrySize)
    /\ RowsOn(current, EntrySize, Shown.data.at) > 0
    /\ Turn(current + 1)

SubmitComment ==
    /\ view = CommentsView /\ publish.stage = "none"
    /\ publish' = [publish EXCEPT !.stage = "sent"]
    /\ UNCHANGED <<moves, rows, view, current, entries, fails, published, overtaken>>

StoreComment ==
    /\ publish.stage = "sent" /\ rows["comments"] < MaxEntries
    /\ rows' = [rows EXCEPT !["comments"] = @ + 1]
    /\ publish' = [stage |-> "stored", count |-> rows'["comments"]]
    /\ UNCHANGED <<moves, view, current, entries, fails, published, overtaken>>

CommentFails ==
    /\ publish.stage # "none"
    /\ moves + fails < MaxMoves /\ fails < MaxFails /\ fails' = fails + 1
    /\ publish' = [stage |-> "none", count |-> 0]
    /\ UNCHANGED <<moves, rows, view, current, entries, published, overtaken>>

(* onSuccess: of the comments, the page that is still shown is fetched     *)
(* again; then page 1 comes up.                                            *)
CommentPublished ==
    /\ publish.stage = "stored"
    /\ publish' = [stage |-> "none", count |-> 0] /\ published' = publish.count
    /\ Display(CommentsView, 1, Update(<<view, current>>, Refetch(Shown)))
    /\ overtaken' = (current = 1 /\ Fetching(Shown) /\ Shown.data = NoData)
    /\ UNCHANGED <<moves, rows, fails>>

PageStep ==
    \/ \E f \in Filter : RowAdded(f) \/ RowGone(f)
    \/ \E k \in Key : ReadPage(k) \/ CountPage(k) \/ PageArrives(k) \/ PageFails(k)
    \/ Refocus \/ Reload
    \/ PreviousTasks \/ NextTasks
    \/ \E v \in TaskView : FilterTasks(v) \/ SearchTasks(v) \/ ResizePages(v)
    \/ PreviousComments \/ NextComments \/ PreviousLogs \/ NextLogs
    \/ SubmitComment \/ StoreComment \/ CommentFails \/ CommentPublished

PagesNext ==
    PageStep /\ Cardinality({k \in Key : Fetching(entries[k])'}) <= MaxFetches
-----------------------------------------------------------------------------
(* formatRange of TasksPagination                                          *)
TasksRange(page, size, total) ==
    IF total = 0 THEN [start |-> 0, end |-> 0]
    ELSE [start |-> (page - 1) * size + 1, end |-> Min({page * size, total})]

(* getCommentsDisplayRange                                                 *)
CommentsRange(page, size, total, count) ==
    LET start == (page - 1) * size + 1
    IN  IF total = 0 \/ count = 0 THEN [start |-> 0, end |-> 0]
        ELSE [start |-> start, end |-> Min({total, start + count - 1})]

(* getPaginatedRange of TaskHistoryPage                                    *)
HistoryRange(page, size, total, count) ==
    LET start == (page - 1) * size + 1
    IN  IF total = 0 \/ count = 0 THEN [start |-> 0, end |-> 0]
        ELSE [start |-> start, end |-> Min({total, start + count - 1})]

(* The rows on the page that is shown.                                     *)
RowsShown == RowsOn(current, view.size, Shown.data.at)

RangeShown ==
    LET total == Shown.data.total
    IN  CASE view \in TaskView -> TasksRange(current, view.size, total)
          [] view = CommentsView -> CommentsRange(current, EntrySize, total, RowsShown)
          [] view = HistoryView -> HistoryRange(current, EntrySize, total, RowsShown)

(* Once a page has loaded, it is one the server counted rows for, or the   *)
(* first; the range under it lies in what was counted; and it is the range *)
(* of the rows on the page, and an empty page means that there are none,   *)
(* unless tasks came or went between the statement that read the page and  *)
(* the one that counted: then the range of TasksPage, which looks at the   *)
(* total alone, may differ from the rows above it, while that of comments  *)
(* and of the audit log, which looks at the rows, does not                 *)
(* (TasksPage.tsx:213, tasks.service.ts:140).                              *)
RangesSound ==
    Loaded(Shown) /\ ~Fetching(Shown) =>
        LET total == Shown.data.total
        IN  /\ current <= Max({1, PagesOf(total, view.size)})
            /\ RangeShown.start <= RangeShown.end /\ RangeShown.end <= total
            /\ view \notin TaskView \/ Shown.data.at = total =>
                   RowsShown = IF RangeShown.start = 0 THEN 0
                               ELSE RangeShown.end - RangeShown.start + 1
            /\ RowsShown = 0 /\ Shown.data.at = total => total = 0

(* After an own comment page 1 comes up with it, unless the first load of  *)
(* the comments was under way when it was published: that load is shared   *)
(* and may have been answered before (TaskDetailsPage.tsx:152).            *)
OwnCommentShown ==
    view = CommentsView /\ current = 1 /\ Loaded(Shown) /\ ~Fetching(Shown) =>
        Shown.data.at >= published \/ overtaken
=============================================================================

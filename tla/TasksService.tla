---------------------------- MODULE TasksService ----------------------------
(***************************************************************************)
(* apps/tasks: the RPC handlers that mutate tasks and comments.  A handler *)
(* loads the task, saves it (TypeORM's save first reads the row again and  *)
(* then writes the columns that differ from what it read), stores an audit *)
(* entry and emits two events, each in a call of its own: there is no      *)
(* transaction around them, no lock and no version column, and the         *)
(* handlers of different requests interleave at every await.               *)
(***************************************************************************)
EXTENDS Naturals, Sequences

CONSTANTS
    Task,        \* task ids
    Field,       \* the audited columns of a task
    Value,       \* their normalized values
    NoRow,       \* the row of a task that does not exist
    NoTask,      \* the task of a request that has not arrived
    Request,     \* the RPC requests of a behaviour
    NewRows,     \* the rows that create requests ask for
    Dtos,        \* the bodies of update requests: some columns and their values
    OneWriterPerTask,   \* no two mutations of one task are in flight at once
    MaxFaults    \* bound on failed calls and crashes

Row == [Field -> Value]

ASSUME NoRowAssumption == NoRow \notin Row
ASSUME NoTaskAssumption == NoTask \notin Task
ASSUME NewRowsAssumption == NewRows \subseteq Row
ASSUME DtosAssumption == Dtos \subseteq UNION {[F -> Value] : F \in SUBSET Field}
ASSUME OneWriterAssumption == OneWriterPerTask \in BOOLEAN
ASSUME FaultsAssumption == MaxFaults \in Nat

VARIABLES
    db,         \* db[t]: the row of t in table tasks, or NoRow
    comments,   \* comments[t]: rows of t in table task_comments
    log,        \* log[t]: rows of t in table task_audit_logs, in insertion order
    out,        \* out[t]: events about t the broker took, in order
    req,        \* req[r]: the progress of the handler of request r
    faults      \* failures so far

vars == <<db, comments, log, out, req, faults>>

Op == {"none", "created", "updated", "deleted", "comment"}

(* Where a handler stands: the call it is about to make, or how it ended.  *)
Running == {"select", "write", "delete", "comment", "audit", "emitDirect", "emitForward"}
Ended == {"done", "notFound", "failed"}

Change == [from : Value, to : Value]

Changes == UNION {[F -> Change] : F \in SUBSET Field}

NoChanges == [f \in {} |-> f]

Entry == [action : {"created", "updated", "deleted"}, by : Request, changes : Changes]

Event == [path : {"direct", "forward"}, action : Op, by : Request, row : Row]

(* before: the row as the handler loaded it.  work: the entity it saves    *)
(* and reports.  seen: the row that save read.  wrote: the table was       *)
(* changed and the audit entry is due.                                     *)
Handler ==
    [pc : {"new"} \cup Running \cup Ended, op : Op, task : Task \cup {NoTask},
     before : Row \cup {NoRow}, work : Row \cup {NoRow}, seen : Row \cup {NoRow},
     wrote : {"no", "yes", "audited"}]

NewRequest ==
    [pc |-> "new", op |-> "none", task |-> NoTask, before |-> NoRow, work |-> NoRow,
     seen |-> NoRow, wrote |-> "no"]

(* Every variable has its type: a stored row always has all its columns.   *)
TypeOK ==
    /\ db \in [Task -> Row \cup {NoRow}]
    /\ comments \in [Task -> Nat]
    /\ log \in [Task -> Seq(Entry)]
    /\ out \in [Task -> Seq(Event)]
    /\ req \in [Request -> Handler]
    /\ faults \in 0..MaxFaults

Init ==
    /\ db = [t \in Task |-> NoRow]
    /\ comments = [t \in Task |-> 0]
    /\ log = [t \in Task |-> <<>>]
    /\ out = [t \in Task |-> <<>>]
    /\ req = [r \in Request |-> NewRequest]
    /\ faults = 0

Fault == faults < MaxFaults /\ faults' = faults + 1

InFlight(r, t) == req[r].pc \in Running /\ req[r].task = t

Mutating(r, t) == InFlight(r, t) /\ req[r].op # "comment"

(* Request r may start to mutate t.                                        *)
MayMutate(r, t) ==
    /\ req[r].pc = "new"
    /\ OneWriterPerTask => \A q \in Request : ~Mutating(q, t)

(* Mutant: the body of the request takes the place of the entity.          *)
MergeReplaces(row, dto) == dto

(* Repository.merge: the columns the body names replace the loaded ones.   *)
Merge(row, dto) == [f \in Field |-> IF f \in DOMAIN dto THEN dto[f] ELSE row[f]]

(* Mutant: the snapshots are passed in the wrong order.                    *)
DiffReversed(previous, current) ==
    [f \in {g \in Field : previous[g] # current[g]} |->
        [from |-> current[f], to |-> previous[f]]]

(* Mutant: a column is missing in the list of audited fields.              *)
DiffSkipsAssignees(previous, current) ==
    [f \in {g \in Field \ {"assignees"} : previous[g] # current[g]} |->
        [from |-> previous[f], to |-> current[f]]]

(* diffTaskChanges: the columns that differ between two snapshots.         *)
DiffTaskChanges(previous, current) ==
    [f \in {g \in Field : previous[g] # current[g]} |->
        [from |-> previous[f], to |-> current[f]]]

Goto(r, pc) == req' = [req EXCEPT ![r].pc = pc]
-----------------------------------------------------------------------------
(* create: the row is inserted under a fresh UUID.                         *)
Create(r, t, row) ==
    /\ MayMutate(r, t)
    /\ \A q \in Request : req[q].task # t
    /\ db' = [db EXCEPT ![t] = row]
    /\ req' = [req EXCEPT ![r] =
          [NewRequest EXCEPT !.pc = "audit", !.op = "created", !.task = t, !.work = row,
                             !.wrote = "yes"]]
    /\ UNCHANGED <<comments, log, out, faults>>

(* findById or findTaskOrFail at the start of a handler, which goes on to  *)
(* pc with the entity `work`, or answers "Task not found".                 *)
Load(r, t, op, pc, work) ==
    /\ req' = [req EXCEPT ![r] =
          IF db[t] = NoRow
          THEN [NewRequest EXCEPT !.pc = "notFound", !.op = op, !.task = t]
          ELSE [NewRequest EXCEPT !.pc = pc, !.op = op, !.task = t, !.before = db[t],
                                  !.work = work]]
    /\ UNCHANGED <<db, comments, log, out, faults>>

(* update, up to the call of save.                                         *)
BeginUpdate(r, t, dto) ==
    /\ MayMutate(r, t)
    /\ Load(r, t, "updated", "select",
            IF db[t] = NoRow THEN NoRow ELSE Merge(db[t], dto))

(* remove, up to the call of Repository.remove.                            *)
BeginRemove(r, t) ==
    /\ MayMutate(r, t)
    /\ Load(r, t, "deleted", "delete", db[t])

(* CommentsService.create, up to the call of save.                         *)
BeginComment(r, t) ==
    /\ req[r].pc = "new"
    /\ Load(r, t, "comment", "comment", db[t])

(* save reads the row once more, to find out what to write.                *)
SaveSelect(r) ==
    /\ req[r].pc = "select"
    /\ req' = [req EXCEPT ![r].pc = "write", ![r].seen = db[req[r].task]]
    /\ UNCHANGED <<db, comments, log, out, faults>>

(* The row once the entity `work` is saved over it: an UPDATE of the       *)
(* columns that differ from the row that was read, which does nothing to a *)
(* row deleted since; an INSERT if there was no row to read.               *)
Saved(row, seen, work) ==
    IF seen = NoRow THEN work
    ELSE IF row = NoRow THEN NoRow
    ELSE [f \in Field |-> IF work[f] # seen[f] THEN work[f] ELSE row[f]]

(* save writes; its INSERT fails on the primary key if the row is back.    *)
SaveWrite(r) ==
    LET t == req[r].task IN
    /\ req[r].pc = "write"
    /\ IF req[r].seen = NoRow /\ db[t] # NoRow
       THEN Goto(r, "failed") /\ UNCHANGED db
       ELSE /\ db' = [db EXCEPT ![t] = Saved(@, req[r].seen, req[r].work)]
            /\ req' = [req EXCEPT ![r].pc = "audit", ![r].wrote = "yes"]
    /\ UNCHANGED <<comments, log, out, faults>>

(* Mutant: the comments are deleted and the task stays.                    *)
DeleteComments(r) ==
    /\ req[r].pc = "delete"
    /\ comments' = [comments EXCEPT ![req[r].task] = 0]
    /\ req' = [req EXCEPT ![r].pc = "audit", ![r].wrote = "yes"]
    /\ UNCHANGED <<db, log, out, faults>>

(* remove deletes whatever row there is, none included, and the comments   *)
(* go with it (ON DELETE CASCADE).                                         *)
Delete(r) ==
    LET t == req[r].task IN
    /\ req[r].pc = "delete"
    /\ db' = [db EXCEPT ![t] = NoRow]
    /\ comments' = [comments EXCEPT ![t] = 0]
    /\ req' = [req EXCEPT ![r].pc = "audit", ![r].wrote = "yes"]
    /\ UNCHANGED <<log, out, faults>>

(* Mutant: no foreign key on taskId.                                       *)
InsertOrphan(r) ==
    /\ req[r].pc = "comment"
    /\ comments' = [comments EXCEPT ![req[r].task] = @ + 1]
    /\ Goto(r, "emitDirect")
    /\ UNCHANGED <<db, log, out, faults>>

(* The comment is inserted; its foreign key fails if the task is gone.     *)
InsertComment(r) ==
    LET t == req[r].task IN
    /\ req[r].pc = "comment"
    /\ IF db[t] = NoRow
       THEN Goto(r, "failed") /\ UNCHANGED comments
       ELSE Goto(r, "emitDirect") /\ comments' = [comments EXCEPT ![t] = @ + 1]
    /\ UNCHANGED <<db, log, out, faults>>

(* TaskAuditLogsService.createLog, with the changes of an update.          *)
Audit(r) ==
    LET h == req[r] IN
    /\ h.pc = "audit"
    /\ log' = [log EXCEPT ![h.task] = Append(@,
          [action |-> h.op, by |-> r,
           changes |-> IF h.op = "updated" THEN DiffTaskChanges(h.before, h.work)
                       ELSE NoChanges])]
    /\ req' = [req EXCEPT ![r].pc = "emitDirect", ![r].wrote = "audited"]
    /\ UNCHANGED <<db, comments, out, faults>>

(* Mutant: the payload is built from the task as it was loaded.            *)
EmitLoaded(r, path, next) ==
    LET h == req[r] IN
    /\ out' = [out EXCEPT ![h.task] = Append(@,
          [path |-> path, action |-> h.op, by |-> r, row |-> h.before])]
    /\ Goto(r, next)
    /\ UNCHANGED <<db, comments, log, faults>>

(* emitEvent, twice: a failure is swallowed and the handler goes on.       *)
Emit(r, path, next) ==
    LET h == req[r] IN
    /\ \/ /\ out' = [out EXCEPT ![h.task] = Append(@,
                [path |-> path, action |-> h.op, by |-> r, row |-> h.work])]
          /\ UNCHANGED faults
       \/ Fault /\ UNCHANGED out
    /\ Goto(r, next)
    /\ UNCHANGED <<db, comments, log>>

EmitDirect(r) == req[r].pc = "emitDirect" /\ Emit(r, "direct", "emitForward")

EmitForward(r) == req[r].pc = "emitForward" /\ Emit(r, "forward", "done")

(* Mutant: the failure of createLog is swallowed like that of an emit.     *)
DatabaseFailureSwallowed(r) ==
    /\ req[r].pc \in {"select", "write", "delete", "comment", "audit"}
    /\ Fault
    /\ Goto(r, IF req[r].pc = "audit" THEN "emitDirect" ELSE "failed")
    /\ UNCHANGED <<db, comments, log, out>>

(* A call to the database fails: the handler ends with an RPC error and    *)
(* what it did before stays.                                               *)
DatabaseFails(r) ==
    /\ req[r].pc \in {"select", "write", "delete", "comment", "audit"}
    /\ Fault
    /\ Goto(r, "failed")
    /\ UNCHANGED <<db, comments, log, out>>

(* The process dies, and the handlers with it.                             *)
Crash ==
    /\ Fault
    /\ req' = [r \in Request |->
          IF req[r].pc \in Running THEN [req[r] EXCEPT !.pc = "failed"] ELSE req[r]]
    /\ UNCHANGED <<db, comments, log, out>>

Next ==
    \/ \E r \in Request, t \in Task :
          \/ \E row \in NewRows : Create(r, t, row)
          \/ \E dto \in Dtos : BeginUpdate(r, t, dto)
          \/ BeginRemove(r, t)
          \/ BeginComment(r, t)
    \/ \E r \in Request :
          \/ SaveSelect(r)
          \/ SaveWrite(r)
          \/ Delete(r)
          \/ InsertComment(r)
          \/ Audit(r)
          \/ EmitDirect(r)
          \/ EmitForward(r)
          \/ DatabaseFails(r)
    \/ Crash

Spec == Init /\ [][Next]_vars
-----------------------------------------------------------------------------
(* Properties.                                                             *)

(* A change of t is in the table and its audit entry is not stored yet, or *)
(* never will be.                                                          *)
EntryDue(r, t) == req[r].task = t /\ req[r].wrote = "yes"

(* While no entry about t is due, the end of its history tells whether it  *)
(* exists: it is gone exactly if the last entry is a deletion.             *)
FateExplained ==
    \A t \in Task :
        (log[t] # <<>> /\ \A r \in Request : ~EntryDue(r, t)) =>
            (db[t] = NoRow <=> log[t][Len(log[t])].action = "deleted")

(* While no entry about t is due, every column holds the value its last    *)
(* recorded change gave it: the history tells who changed what (createLog  *)
(* after save in every mutation, with diffTaskChanges in update).          *)
ColumnsExplained ==
    \A t \in Task :
        (db[t] # NoRow /\ \A r \in Request : ~EntryDue(r, t)) =>
            \A f \in Field, i \in DOMAIN log[t] :
                /\ f \in DOMAIN log[t][i].changes
                /\ \A j \in (i + 1)..Len(log[t]) : f \notin DOMAIN log[t][j].changes
                => db[t][f] = log[t][i].changes[f].to

(* Nobody hears of a mutation, by its answer or by an event, that the      *)
(* history does not hold, once (createLog is awaited before the emits and  *)
(* its failure is the handler's).                                          *)
RecordedBeforeHeard ==
    \A r \in Request :
        LET t == req[r].task
            entries == {i \in DOMAIN log[t] : log[t][i].by = r}
            heard == req[r].pc = "done" \/ \E i \in DOMAIN out[t] : out[t][i].by = r
        IN  req[r].op \in {"created", "updated", "deleted"} /\ heard =>
                \E i \in entries : entries = {i} /\ log[t][i].action = req[r].op

(* No comment outlives its task, whatever mutations race with it.          *)
CommentsHaveTask == \A t \in Task : comments[t] > 0 => db[t] # NoRow

(* Without failures, and while nobody mutates t, the last event about t    *)
(* tells what the table holds: clients that applied it are up to date.     *)
LastEventIsCurrent ==
    \A t \in Task :
        LET told == {i \in DOMAIN out[t] : out[t][i].action # "comment"} IN
        (faults = 0 /\ \A r \in Request : ~Mutating(r, t)) =>
            \A i \in told : (\A j \in told : j <= i) =>
                IF out[t][i].action = "deleted" THEN db[t] = NoRow
                ELSE db[t] = out[t][i].row

-----------------------------------------------------------------------------
(* The service implements TaskHistory as long as no two mutations of one   *)
(* task overlap: a mutation takes effect when its audit entry is stored.   *)
Due(t) == {r \in Request : InFlight(r, t) /\ req[r].wrote = "yes"}

Promise == INSTANCE TaskHistory WITH
    row <- [t \in Task |->
        IF Due(t) = {} THEN db[t] ELSE req[CHOOSE r \in Due(t) : TRUE].before],
    history <- [t \in Task |->
        [i \in DOMAIN log[t] |-> [action |-> log[t][i].action,
                                  changes |-> log[t][i].changes]]],
    complete <- [t \in Task |->
        \A r \in Request : ~(req[r].task = t /\ req[r].pc = "failed" /\ req[r].wrote = "yes")]

KeepsHistory == Promise!Spec
=============================================================================

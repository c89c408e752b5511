-------------------------- MODULE TasksServiceProofs --------------------------
(***************************************************************************)
(* TLAPS proofs about TasksService: whatever the number of tasks, requests *)
(* and failures, and however the handlers interleave, nobody hears of a    *)
(* mutation the history does not hold, and no comment outlives its task.   *)
(***************************************************************************)
EXTENDS TasksService, TLAPS

-----------------------------------------------------------------------------
(* The inductive invariant.                                                *)

Mutation == {"created", "updated", "deleted"}

(* What a handler h relies on where it stands.                             *)
Ordered(h) ==
    /\ h.pc = "new" => h.op = "none" /\ h.wrote = "no" /\ h.task = NoTask
    /\ h.pc \in Running => h.task \in Task /\ h.work \in Row
    /\ h.pc \in Running /\ h.op = "updated" => h.before \in Row
    /\ h.pc \in {"select", "write"} => h.op = "updated" /\ h.wrote = "no"
    /\ h.pc = "delete" => h.op = "deleted" /\ h.wrote = "no"
    /\ h.pc = "comment" => h.op = "comment" /\ h.wrote = "no"
    /\ h.pc = "audit" => h.op \in Mutation /\ h.wrote = "yes"
    /\ h.pc \in {"emitDirect", "emitForward", "done"} =>
          h.op = "comment" \/ (h.op \in Mutation /\ h.wrote = "audited")
    /\ h.wrote = "audited" => h.op \in Mutation
    /\ h.op # "none" => h.task \in Task
    /\ h.op = "comment" => h.wrote = "no"

(* The one entry of r in the history of t.                                 *)
HoldsEntry(r, t, action) ==
    \E i \in DOMAIN log[t] :
        /\ log[t][i].by = r /\ log[t][i].action = action
        /\ \A j \in DOMAIN log[t] : log[t][j].by = r => j = i

(* A handler that has stored its audit entry has stored one.               *)
Recorded ==
    \A r \in Request :
        req[r].wrote = "audited" => HoldsEntry(r, req[r].task, req[r].op)

(* A handler that has not stored it has none in any history.               *)
NotRecorded ==
    \A r \in Request, t \in Task :
        req[r].wrote # "audited" => \A i \in DOMAIN log[t] : log[t][i].by # r

(* An event tells of a comment or of a recorded mutation.                  *)
Told ==
    \A t \in Task : \A i \in DOMAIN out[t] :
        /\ out[t][i].by \in Request
        /\ req[out[t][i].by].op = "comment" \/ req[out[t][i].by].wrote = "audited"

TasksInv ==
    /\ TypeOK
    /\ \A r \in Request : Ordered(req[r])
    /\ Recorded
    /\ NotRecorded
    /\ Told
    /\ CommentsHaveTask

-----------------------------------------------------------------------------
(* The operators.                                                          *)
LEMMA MergeRow ==
    ASSUME NEW row \in Row, NEW dto \in Dtos
    PROVE  Merge(row, dto) \in Row
<1>1. PICK F \in SUBSET Field : dto \in [F -> Value]
    BY DtosAssumption
<1>2. QED BY <1>1 DEF Merge, Row

LEMMA SavedRow ==
    ASSUME NEW row \in Row \cup {NoRow}, NEW seen \in Row \cup {NoRow}, NEW work \in Row
    PROVE  /\ Saved(row, seen, work) \in Row \cup {NoRow}
           /\ row # NoRow => Saved(row, seen, work) # NoRow
    BY NoRowAssumption DEF Saved, Row

LEMMA DiffChanges ==
    ASSUME NEW previous \in Row, NEW current \in Row
    PROVE  DiffTaskChanges(previous, current) \in Changes
<1> DEFINE F == {g \in Field : previous[g] # current[g]}
<1>1. DiffTaskChanges(previous, current) \in [F -> Change]
    BY DEF DiffTaskChanges, Change, Row
<1>2. QED BY <1>1 DEF Changes

LEMMA NoChangesTyped == NoChanges \in Changes
<1>1. NoChanges \in [{} -> Change]
    BY DEF NoChanges
<1>2. QED BY <1>1 DEF Changes

LEMMA NewRequestFacts ==
    /\ NewRequest \in Handler /\ NewRequest.pc = "new" /\ NewRequest.op = "none"
    /\ NewRequest.wrote = "no" /\ Ordered(NewRequest)
    BY DEF NewRequest, Handler, Op, Ordered, Running

-----------------------------------------------------------------------------
(* The initial states.                                                     *)
LEMMA TasksInitInv == Init => TasksInv
<1> SUFFICES ASSUME Init PROVE TasksInv
    OBVIOUS
<1>1. TypeOK
    BY NewRequestFacts, FaultsAssumption DEF Init, TypeOK
<1>2. \A r \in Request : Ordered(req[r])
    BY NewRequestFacts DEF Init
<1>3. Recorded /\ NotRecorded /\ Told /\ CommentsHaveTask
    BY NewRequestFacts DEF Init, Recorded, NotRecorded, Told, CommentsHaveTask
<1>4. QED BY <1>1, <1>2, <1>3 DEF TasksInv

-----------------------------------------------------------------------------
(* The steps.                                                              *)

(* A handler goes on to h; neither histories nor events change.            *)
LEMMA QuietStep ==
    ASSUME TasksInv, NEW r \in Request, NEW h \in Handler, Ordered(h),
           req' = [req EXCEPT ![r] = h], UNCHANGED <<log, out>>,
           h.wrote = "audited" <=> req[r].wrote = "audited",
           h.wrote = "audited" => h.op = req[r].op /\ h.task = req[r].task,
           req[r].op = "comment" => h.op = "comment",
           db' \in [Task -> Row \cup {NoRow}], comments' \in [Task -> Nat],
           CommentsHaveTask', Fault \/ UNCHANGED faults
    PROVE  TasksInv'
<1> USE DEF TasksInv
<1>1. /\ req' \in [Request -> Handler] /\ req'[r] = h
      /\ \A q \in Request : q # r => req'[q] = req[q]
    BY DEF TypeOK
<1>2. TypeOK'
    BY <1>1, FaultsAssumption DEF TypeOK, Fault
<1>3. \A q \in Request : Ordered(req[q])'
    BY <1>1 DEF Ordered
<1>4. Recorded'
  <2>1. ASSUME NEW q \in Request, req'[q].wrote = "audited"
        PROVE  /\ req[q].wrote = "audited"
               /\ req'[q].task = req[q].task /\ req'[q].op = req[q].op
    BY <1>1, <2>1
  <2>2. ASSUME NEW q \in Request, req[q].wrote = "audited"
        PROVE  \E i \in DOMAIN log[req[q].task] :
                  /\ log[req[q].task][i].by = q /\ log[req[q].task][i].action = req[q].op
                  /\ \A j \in DOMAIN log[req[q].task] : log[req[q].task][j].by = q => j = i
    BY <2>2 DEF Recorded, HoldsEntry
  <2>3. ASSUME NEW q \in Request, req'[q].wrote = "audited"
        PROVE  \E i \in DOMAIN log'[req'[q].task] :
                  /\ log'[req'[q].task][i].by = q /\ log'[req'[q].task][i].action = req'[q].op
                  /\ \A j \in DOMAIN log'[req'[q].task] : log'[req'[q].task][j].by = q => j = i
    <3>1. PICK t, a : t = req[q].task /\ a = req[q].op
      OBVIOUS
    <3>2. \E i \in DOMAIN log[t] :
              /\ log[t][i].by = q /\ log[t][i].action = a
              /\ \A j \in DOMAIN log[t] : log[t][j].by = q => j = i
      BY <2>1, <2>2, <2>3, <3>1
    <3>3. req'[q].task = t /\ req'[q].op = a /\ log' = log
      BY <2>1, <2>3, <3>1
    <3>4. QED BY <3>2, <3>3
  <2>4. QED BY <2>3 DEF Recorded, HoldsEntry
<1>5. NotRecorded'
    BY <1>1 DEF NotRecorded
<1>6. Told'
    BY <1>1 DEF Told
<1>7. QED BY <1>2, <1>3, <1>4, <1>5, <1>6

(* The same when tables and failures are left alone.                       *)
LEMMA HandlerStep ==
    ASSUME TasksInv, NEW r \in Request, NEW h \in Handler, Ordered(h),
           req' = [req EXCEPT ![r] = h], UNCHANGED <<db, comments, log, out>>,
           h.wrote = "audited" <=> req[r].wrote = "audited",
           h.wrote = "audited" => h.op = req[r].op /\ h.task = req[r].task,
           req[r].op = "comment" => h.op = "comment",
           Fault \/ UNCHANGED faults
    PROVE  TasksInv'
<1>1. db' \in [Task -> Row \cup {NoRow}] /\ comments' \in [Task -> Nat]
    BY DEF TasksInv, TypeOK
<1>2. CommentsHaveTask'
    BY DEF TasksInv, CommentsHaveTask
<1>3. QED BY <1>1, <1>2, QuietStep

(* A handler goes to pc and keeps all else.                                *)
LEMMA GotoHandler ==
    ASSUME TasksInv, NEW r \in Request, NEW pc \in Running \cup Ended
    PROVE  LET h == [req[r] EXCEPT !.pc = pc]
           IN  /\ h \in Handler /\ h.pc = pc /\ h.op = req[r].op /\ h.task = req[r].task
               /\ h.work = req[r].work /\ h.wrote = req[r].wrote /\ h.before = req[r].before
    BY DEF TasksInv, TypeOK, Handler

LEMMA CreateStep ==
    ASSUME TasksInv, NEW r \in Request, NEW t \in Task, NEW row \in NewRows, Create(r, t, row)
    PROVE  TasksInv'
<1> DEFINE h == [NewRequest EXCEPT !.pc = "audit", !.op = "created", !.task = t, !.work = row,
                                   !.wrote = "yes"]
<1>1. row \in Row /\ row # NoRow
    BY NewRowsAssumption, NoRowAssumption
<1>2. h \in Handler /\ h.wrote = "yes" /\ Ordered(h)
    BY <1>1 DEF Handler, NewRequest, Op, Ordered, Running, Mutation
<1>3. Ordered(req[r]) /\ req[r].pc = "new"
    BY DEF TasksInv, Create, MayMutate
<1>4. req' = [req EXCEPT ![r] = h] /\ UNCHANGED <<comments, log, out, faults>>
    BY DEF Create
<1>5. db' \in [Task -> Row \cup {NoRow}] /\ comments' \in [Task -> Nat] /\ CommentsHaveTask'
    BY <1>1 DEF TasksInv, TypeOK, CommentsHaveTask, Create
<1> HIDE DEF h
<1>6. QED BY <1>2, <1>3, <1>4, <1>5, QuietStep DEF Ordered

(* The start of the other handlers.                                        *)
LEMMA LoadStep ==
    ASSUME TasksInv, NEW r \in Request, req[r].pc = "new", NEW t \in Task,
           NEW op, NEW pc, NEW work, Load(r, t, op, pc, work),
           db[t] # NoRow => work \in Row,
           \/ op = "updated" /\ pc = "select"
           \/ op = "deleted" /\ pc = "delete"
           \/ op = "comment" /\ pc = "comment"
    PROVE  TasksInv'
<1> DEFINE g == [NewRequest EXCEPT !.pc = "notFound", !.op = op, !.task = t]
           h == [NewRequest EXCEPT !.pc = pc, !.op = op, !.task = t, !.before = db[t],
                                   !.work = work]
<1>1. Ordered(req[r])
    BY DEF TasksInv
<1>2. UNCHANGED <<db, comments, log, out, faults>>
    BY DEF Load
<1>3. CASE db[t] = NoRow
  <2>1. g \in Handler /\ g.wrote = "no" /\ Ordered(g)
    BY DEF Handler, NewRequest, Op, Ordered, Running, Ended
  <2>2. req' = [req EXCEPT ![r] = g]
    BY <1>3 DEF Load
  <2> HIDE DEF g
  <2>3. QED BY <1>1, <1>2, <2>1, <2>2, HandlerStep DEF Ordered
<1>4. CASE db[t] # NoRow
  <2>1. db[t] \in Row
    BY <1>4 DEF TasksInv, TypeOK
  <2>2. h \in Handler /\ h.wrote = "no" /\ Ordered(h)
    BY <1>4, <2>1 DEF Handler, NewRequest, Op, Ordered, Running, Ended
  <2>3. req' = [req EXCEPT ![r] = h]
    BY <1>4 DEF Load
  <2> HIDE DEF h
  <2>4. QED BY <1>1, <1>2, <2>2, <2>3, HandlerStep DEF Ordered
<1>5. QED BY <1>3, <1>4

LEMMA BeginStep ==
    ASSUME TasksInv, NEW r \in Request, NEW t \in Task,
           \/ \E dto \in Dtos : BeginUpdate(r, t, dto)
           \/ BeginRemove(r, t)
           \/ BeginComment(r, t)
    PROVE  TasksInv'
<1>1. db[t] \in Row \cup {NoRow}
    BY DEF TasksInv, TypeOK
<1>2. ASSUME NEW dto \in Dtos, BeginUpdate(r, t, dto) PROVE TasksInv'
  <2> DEFINE work == IF db[t] = NoRow THEN NoRow ELSE Merge(db[t], dto)
  <2>1. db[t] # NoRow => work \in Row
    BY <1>1, MergeRow
  <2>2. req[r].pc = "new" /\ Load(r, t, "updated", "select", work)
    BY <1>2 DEF BeginUpdate, MayMutate
  <2> HIDE DEF work
  <2>3. QED BY <2>1, <2>2, LoadStep
<1>3. CASE BeginRemove(r, t)
    BY <1>1, <1>3, LoadStep DEF BeginRemove, MayMutate
<1>4. CASE BeginComment(r, t)
    BY <1>1, <1>4, LoadStep DEF BeginComment
<1>5. QED BY <1>2, <1>3, <1>4

LEMMA SaveSelectStep ==
    ASSUME TasksInv, NEW r \in Request, SaveSelect(r)
    PROVE  TasksInv'
<1> DEFINE h == [req[r] EXCEPT !.pc = "write", !.seen = db[req[r].task]]
<1>1. /\ Ordered(req[r]) /\ req[r].pc = "select" /\ req[r] \in Handler /\ req \in [Request -> Handler]
      /\ UNCHANGED <<db, comments, log, out, faults>>
    BY DEF TasksInv, TypeOK, SaveSelect
<1>2. db[req[r].task] \in Row \cup {NoRow}
    BY <1>1 DEF TasksInv, TypeOK, Ordered, Running
<1>3. /\ h \in Handler /\ h.op = req[r].op /\ h.wrote = req[r].wrote /\ h.task = req[r].task
      /\ h.pc = "write" /\ h.work = req[r].work /\ h.before = req[r].before
    BY <1>1, <1>2 DEF Handler, Running
<1>4. req' = [req EXCEPT ![r] = h]
    BY <1>1 DEF SaveSelect
<1> HIDE DEF h
<1>5. Ordered(h)
    BY <1>1, <1>3 DEF Ordered, Running
<1>6. QED BY <1>1, <1>3, <1>4, <1>5, HandlerStep

LEMMA FailedStep ==
    ASSUME TasksInv, NEW r \in Request, req[r].pc \in Running, Goto(r, "failed"),
           UNCHANGED <<db, comments, log, out>>, Fault \/ UNCHANGED faults
    PROVE  TasksInv'
<1> DEFINE h == [req[r] EXCEPT !.pc = "failed"]
<1>1. /\ h \in Handler /\ h.pc = "failed" /\ h.op = req[r].op /\ h.task = req[r].task
      /\ h.wrote = req[r].wrote /\ Ordered(req[r])
    BY GotoHandler DEF TasksInv, Ended
<1>2. req' = [req EXCEPT ![r] = h]
    BY DEF Goto
<1> HIDE DEF h
<1>3. Ordered(h)
    BY <1>1 DEF Ordered, Running
<1>4. QED BY <1>1, <1>2, <1>3, HandlerStep

(* The table was changed and the audit entry is due.                       *)
LEMMA WroteStep ==
    ASSUME TasksInv, NEW r \in Request, req[r].pc \in {"write", "delete"},
           req' = [req EXCEPT ![r].pc = "audit", ![r].wrote = "yes"],
           db' \in [Task -> Row \cup {NoRow}], comments' \in [Task -> Nat],
           CommentsHaveTask', UNCHANGED <<log, out, faults>>
    PROVE  TasksInv'
<1> DEFINE h == [req[r] EXCEPT !.pc = "audit", !.wrote = "yes"]
<1>1. Ordered(req[r]) /\ req[r] \in Handler /\ req \in [Request -> Handler]
    BY DEF TasksInv, TypeOK
<1>2. /\ h \in Handler /\ h.op = req[r].op /\ h.wrote = "yes" /\ h.task = req[r].task
      /\ h.pc = "audit" /\ h.work = req[r].work /\ h.before = req[r].before
    BY <1>1 DEF Handler, Running
<1>3. req' = [req EXCEPT ![r] = h]
    BY <1>1
<1> HIDE DEF h
<1>4. Ordered(h)
    BY <1>1, <1>2 DEF Ordered, Running, Mutation
<1>5. req[r].wrote # "audited" /\ req[r].op # "comment"
    BY <1>1 DEF Ordered
<1>6. QED BY <1>2, <1>3, <1>4, <1>5, QuietStep

LEMMA SaveWriteStep ==
    ASSUME TasksInv, NEW r \in Request, SaveWrite(r)
    PROVE  TasksInv'
<1> DEFINE t == req[r].task
<1>1. /\ Ordered(req[r]) /\ req[r].pc = "write" /\ req[r] \in Handler
      /\ t \in Task /\ req[r].work \in Row /\ UNCHANGED <<comments, log, out, faults>>
    BY DEF TasksInv, TypeOK, SaveWrite, Ordered, Running
<1>2. CASE req[r].seen = NoRow /\ db[t] # NoRow
    BY <1>1, <1>2, FailedStep DEF SaveWrite, Running
<1>3. CASE ~(req[r].seen = NoRow /\ db[t] # NoRow)
  <2>1. /\ db' = [db EXCEPT ![t] = Saved(db[t], req[r].seen, req[r].work)]
        /\ req' = [req EXCEPT ![r].pc = "audit", ![r].wrote = "yes"]
    BY <1>3 DEF SaveWrite
  <2>2. /\ Saved(db[t], req[r].seen, req[r].work) \in Row \cup {NoRow}
        /\ db[t] # NoRow => Saved(db[t], req[r].seen, req[r].work) # NoRow
    BY <1>1, SavedRow DEF TasksInv, TypeOK, Handler
  <2>3. /\ db' \in [Task -> Row \cup {NoRow}] /\ comments' \in [Task -> Nat]
        /\ CommentsHaveTask'
    BY <1>1, <2>1, <2>2 DEF TasksInv, TypeOK, CommentsHaveTask
  <2>4. QED BY <1>1, <2>1, <2>3, WroteStep
<1>4. QED BY <1>2, <1>3

LEMMA DeleteStep ==
    ASSUME TasksInv, NEW r \in Request, Delete(r)
    PROVE  TasksInv'
<1>1. /\ req[r].pc = "delete" /\ req[r].task \in Task
      /\ req' = [req EXCEPT ![r].pc = "audit", ![r].wrote = "yes"]
      /\ UNCHANGED <<log, out, faults>>
    BY DEF TasksInv, Delete, Ordered, Running
<1>2. /\ db' \in [Task -> Row \cup {NoRow}] /\ comments' \in [Task -> Nat]
      /\ CommentsHaveTask'
    BY <1>1 DEF TasksInv, TypeOK, CommentsHaveTask, Delete
<1>3. QED BY <1>1, <1>2, WroteStep

(* The foreign key: a comment is stored only while its task is.            *)
LEMMA InsertCommentStep ==
    ASSUME TasksInv, NEW r \in Request, InsertComment(r)
    PROVE  TasksInv'
<1> DEFINE t == req[r].task
           h == [req[r] EXCEPT !.pc = "emitDirect"]
<1>1. /\ req[r].pc = "comment" /\ t \in Task /\ req[r].work \in Row
      /\ req[r].op = "comment" /\ req[r].wrote = "no" /\ UNCHANGED <<db, log, out, faults>>
    BY DEF TasksInv, InsertComment, Ordered, Running
<1>2. CASE db[t] = NoRow
    BY <1>1, <1>2, FailedStep DEF InsertComment, Running
<1>3. CASE db[t] # NoRow
  <2>1. /\ h \in Handler /\ h.pc = "emitDirect" /\ h.op = req[r].op /\ h.task = req[r].task
        /\ h.work = req[r].work /\ h.wrote = req[r].wrote
    BY GotoHandler DEF Running
  <2>2. req' = [req EXCEPT ![r] = h] /\ comments' = [comments EXCEPT ![t] = @ + 1]
    BY <1>3 DEF InsertComment, Goto
  <2> HIDE DEF h
  <2>3. Ordered(h)
    BY <1>1, <2>1 DEF Ordered, Running
  <2>4. /\ db' \in [Task -> Row \cup {NoRow}] /\ comments' \in [Task -> Nat]
        /\ CommentsHaveTask'
    BY <1>1, <1>3, <2>2 DEF TasksInv, TypeOK, CommentsHaveTask
  <2>5. QED BY <1>1, <2>1, <2>2, <2>3, <2>4, QuietStep
<1>4. QED BY <1>2, <1>3

(* What Append does to a sequence.                                         *)
LEMMA Appended ==
    ASSUME NEW S, NEW l \in Seq(S), NEW e \in S
    PROVE  /\ Append(l, e) \in Seq(S)
           /\ Len(l) \in Nat /\ DOMAIN l = 1..Len(l)
           /\ DOMAIN Append(l, e) = 1..(Len(l) + 1)
           /\ Append(l, e)[Len(l) + 1] = e
           /\ \A i \in DOMAIN l : Append(l, e)[i] = l[i]
    OBVIOUS

(* The history of the task gets the one entry of the handler.              *)
LEMMA AuditStep ==
    ASSUME TasksInv, NEW r \in Request, Audit(r)
    PROVE  TasksInv'
<1> USE DEF TasksInv
<1> DEFINE t == req[r].task
           changes == IF req[r].op = "updated" THEN DiffTaskChanges(req[r].before, req[r].work)
                      ELSE NoChanges
           e == [action |-> req[r].op, by |-> r, changes |-> changes]
           h == [req[r] EXCEPT !.pc = "emitDirect", !.wrote = "audited"]
           k == Len(log[t]) + 1
<1>1. /\ req[r].pc = "audit" /\ req[r].op \in Mutation /\ req[r].wrote = "yes" /\ t \in Task
      /\ req[r].work \in Row /\ (req[r].op = "updated" => req[r].before \in Row)
      /\ req[r] \in Handler /\ req \in [Request -> Handler]
      /\ UNCHANGED <<db, comments, out, faults>>
    BY DEF Audit, TypeOK, Ordered, Running
<1>2. changes \in Changes
    BY <1>1, DiffChanges, NoChangesTyped
<1>3. /\ log' = [log EXCEPT ![t] = Append(log[t], e)]
      /\ req' = [req EXCEPT ![r] = h]
    BY <1>1 DEF Audit
<1> HIDE DEF changes
<1>4. e \in Entry /\ e.by = r /\ e.action = req[r].op
    BY <1>1, <1>2 DEF Entry, Mutation
<1>5. /\ h \in Handler /\ h.op = req[r].op /\ h.wrote = "audited" /\ h.task = t
      /\ h.pc = "emitDirect" /\ h.work = req[r].work /\ h.before = req[r].before
    BY <1>1 DEF Handler, Running
<1> HIDE DEF e, h
<1>6. /\ req' \in [Request -> Handler] /\ req'[r] = h
      /\ \A q \in Request : q # r => req'[q] = req[q]
    BY <1>3, <1>5 DEF TypeOK
<1>7. log[t] \in Seq(Entry)
    BY <1>1 DEF TypeOK
<1>8. /\ Append(log[t], e) \in Seq(Entry)
      /\ DOMAIN log[t] = 1..Len(log[t]) /\ Len(log[t]) \in Nat
      /\ DOMAIN Append(log[t], e) = 1..k
      /\ Append(log[t], e)[k] = e
      /\ \A i \in DOMAIN log[t] : Append(log[t], e)[i] = log[t][i]
    BY <1>4, <1>7, Appended
<1>9. /\ log' \in [Task -> Seq(Entry)]
      /\ log'[t] = Append(log[t], e)
      /\ \A u \in Task : u # t => log'[u] = log[u]
    BY <1>1, <1>3, <1>8 DEF TypeOK
<1>10. /\ k \in DOMAIN log'[t] /\ log'[t][k] = e
       /\ \A i \in DOMAIN log'[t] : i # k => i \in DOMAIN log[t] /\ log'[t][i] = log[t][i]
       /\ \A i \in DOMAIN log[t] : i # k /\ i \in DOMAIN log'[t] /\ log'[t][i] = log[t][i]
    BY <1>8, <1>9
<1> HIDE DEF k, t
<1>11. TypeOK'
    BY <1>1, <1>6, <1>9 DEF TypeOK
<1>12. \A q \in Request : Ordered(req[q])'
  <2>1. Ordered(h)
    BY <1>1, <1>5 DEF Ordered, Running
  <2>2. QED BY <1>6, <2>1 DEF Ordered
<1>13. Recorded'
  <2>1. \A i \in DOMAIN log[t] : log[t][i].by # r
    BY <1>1 DEF NotRecorded
  <2>2. \E i \in DOMAIN log'[t] :
            /\ log'[t][i].by = r /\ log'[t][i].action = h.op
            /\ \A j \in DOMAIN log'[t] : log'[t][j].by = r => j = i
    BY <1>4, <1>5, <1>10, <2>1
  <2>3. ASSUME NEW q \in Request, q # r, req[q].wrote = "audited"
        PROVE  \E i \in DOMAIN log'[req[q].task] :
                   /\ log'[req[q].task][i].by = q /\ log'[req[q].task][i].action = req[q].op
                   /\ \A j \in DOMAIN log'[req[q].task] : log'[req[q].task][j].by = q => j = i
    <3>1. PICK i \in DOMAIN log[req[q].task] :
              /\ log[req[q].task][i].by = q /\ log[req[q].task][i].action = req[q].op
              /\ \A j \in DOMAIN log[req[q].task] : log[req[q].task][j].by = q => j = i
      BY <2>3 DEF Recorded, HoldsEntry
    <3>2. req[q].task \in Task
      BY <2>3 DEF Ordered, Mutation
    <3>3. CASE req[q].task # t
      BY <1>9, <3>1, <3>2, <3>3
    <3>4. CASE req[q].task = t
      BY <1>4, <1>10, <2>3, <3>1, <3>4
    <3>5. QED BY <3>3, <3>4
  <2>4. ASSUME NEW q \in Request, req'[q].wrote = "audited"
        PROVE  HoldsEntry(q, req[q].task, req[q].op)'
    <3>1. CASE q = r
      BY <1>5, <1>6, <2>2, <3>1 DEF HoldsEntry
    <3>2. CASE q # r
      BY <1>6, <2>3, <2>4, <3>2 DEF HoldsEntry
    <3>3. QED BY <3>1, <3>2
  <2>5. QED BY <2>4 DEF Recorded
<1>14. NotRecorded'
  <2> SUFFICES ASSUME NEW q \in Request, NEW u \in Task, req'[q].wrote # "audited",
                      NEW i \in DOMAIN log'[u]
               PROVE  log'[u][i].by # q
    BY DEF NotRecorded
  <2>1. q # r /\ req[q].wrote # "audited"
    BY <1>5, <1>6
  <2>2. CASE u # t
    BY <1>9, <2>1, <2>2 DEF NotRecorded
  <2>3. CASE u = t
    <3>1. i = k \/ (i \in DOMAIN log[t] /\ log'[t][i] = log[t][i])
      BY <1>10, <2>3
    <3>2. QED BY <1>4, <1>10, <2>1, <2>3, <3>1 DEF NotRecorded
  <2>4. QED BY <2>2, <2>3
<1>15. Told'
    BY <1>1, <1>5, <1>6 DEF Told
<1>16. CommentsHaveTask'
    BY <1>1 DEF CommentsHaveTask
<1>17. QED BY <1>11, <1>12, <1>13, <1>14, <1>15, <1>16

(* A handler emits after its audit entry, or for a comment.                *)
LEMMA EmitStep ==
    ASSUME TasksInv, NEW r \in Request, NEW path \in {"direct", "forward"},
           NEW next \in {"emitForward", "done"},
           req[r].pc \in {"emitDirect", "emitForward"}, Emit(r, path, next)
    PROVE  TasksInv'
<1> USE DEF TasksInv
<1> DEFINE t == req[r].task
           e == [path |-> path, action |-> req[r].op, by |-> r, row |-> req[r].work]
           h == [req[r] EXCEPT !.pc = next]
           k == Len(out[t]) + 1
<1>1. /\ Ordered(req[r]) /\ t \in Task /\ req[r].work \in Row /\ req[r] \in Handler
      /\ UNCHANGED <<db, comments, log>>
    BY DEF Emit, TypeOK, Ordered, Running
<1>2. req[r].op = "comment" \/ (req[r].op \in Mutation /\ req[r].wrote = "audited")
    BY <1>1 DEF Ordered
<1>3. /\ h \in Handler /\ h.pc = next /\ h.op = req[r].op /\ h.task = t
      /\ h.work = req[r].work /\ h.wrote = req[r].wrote /\ h.before = req[r].before
    BY GotoHandler DEF Running, Ended
<1>4. req' = [req EXCEPT ![r] = h]
    BY DEF Emit, Goto
<1> HIDE DEF h
<1>5. Ordered(h)
    BY <1>1, <1>2, <1>3 DEF Ordered, Running
<1>6. CASE Fault /\ UNCHANGED out
    BY <1>1, <1>3, <1>4, <1>5, <1>6, HandlerStep
<1>7. CASE out' = [out EXCEPT ![t] = Append(@, e)] /\ UNCHANGED faults
  <2>1. /\ req' \in [Request -> Handler] /\ req'[r] = h
        /\ \A q \in Request : q # r => req'[q] = req[q]
    BY <1>3, <1>4 DEF TypeOK
  <2>2. e \in Event /\ e.by = r
    BY <1>1 DEF Event, Handler
  <2> HIDE DEF e
  <2>3. /\ out[t] \in Seq(Event) /\ Append(out[t], e) \in Seq(Event)
        /\ out' = [out EXCEPT ![t] = Append(out[t], e)]
    BY <1>1, <1>7, <2>2, Appended DEF TypeOK
  <2>4. /\ out' \in [Task -> Seq(Event)] /\ out'[t] = Append(out[t], e)
        /\ \A u \in Task : u # t => out'[u] = out[u]
    BY <1>1, <2>3 DEF TypeOK
  <2>5. \A i \in DOMAIN out'[t] : out'[t][i] = e \/ (i \in DOMAIN out[t] /\ out'[t][i] = out[t][i])
    <3>1. /\ DOMAIN out[t] = 1..Len(out[t]) /\ Len(out[t]) \in Nat
          /\ DOMAIN out'[t] = 1..(Len(out[t]) + 1)
          /\ out'[t][Len(out[t]) + 1] = e
          /\ \A i \in DOMAIN out[t] : out'[t][i] = out[t][i]
      BY <2>2, <2>3, <2>4, Appended
    <3>2. QED BY <3>1
  <2> HIDE DEF t
  <2>6. TypeOK'
    BY <1>1, <1>7, <2>1, <2>4 DEF TypeOK
  <2>7. \A q \in Request : Ordered(req[q])'
    BY <1>5, <2>1 DEF Ordered
  <2>8. (Recorded /\ NotRecorded)'
    <3>1. \A q \in Request : /\ req'[q].op = req[q].op /\ req'[q].wrote = req[q].wrote
                              /\ req'[q].task = req[q].task
      BY <1>3, <2>1 DEF t
    <3>2. log' = log
      BY <1>1
    <3>3. QED BY <3>1, <3>2 DEF Recorded, NotRecorded, HoldsEntry
  <2>9. Told'
    <3>1. \A q \in Request : req'[q].op = req[q].op /\ req'[q].wrote = req[q].wrote
      BY <1>3, <2>1
    <3>2. SUFFICES ASSUME NEW u \in Task, NEW i \in DOMAIN out'[u]
                   PROVE  LET q == out'[u][i].by
                          IN  q \in Request /\ (req[q].op = "comment" \/ req[q].wrote = "audited")
      BY <3>1 DEF Told
    <3>3. CASE i \in DOMAIN out[u] /\ out'[u][i] = out[u][i]
      BY <3>3 DEF Told
    <3>4. CASE out'[u][i] = e
      BY <1>2, <2>2, <3>4
    <3>5. QED BY <2>4, <2>5, <3>2, <3>3, <3>4
  <2>10. CommentsHaveTask'
    BY <1>1 DEF CommentsHaveTask
  <2>11. QED BY <2>6, <2>7, <2>8, <2>9, <2>10
<1>8. QED BY <1>6, <1>7 DEF Emit

LEMMA CrashStep ==
    ASSUME TasksInv, Crash
    PROVE  TasksInv'
<1> USE DEF TasksInv
<1>1. UNCHANGED <<db, comments, log, out>> /\ faults' \in 0..MaxFaults
    BY FaultsAssumption DEF Crash, Fault, TypeOK
<1>2. \A r \in Request :
          /\ req'[r] \in Handler /\ req'[r].op = req[r].op /\ req'[r].task = req[r].task
          /\ req'[r].wrote = req[r].wrote
          /\ req'[r] = req[r] \/ (req'[r].pc = "failed" /\ req[r].pc \in Running)
  <2> SUFFICES ASSUME NEW r \in Request
               PROVE  /\ req'[r] \in Handler /\ req'[r].op = req[r].op
                      /\ req'[r].task = req[r].task /\ req'[r].wrote = req[r].wrote
                      /\ req'[r] = req[r] \/ (req'[r].pc = "failed" /\ req[r].pc \in Running)
    OBVIOUS
  <2>1. CASE req[r].pc \in Running
    <3>1. req'[r] = [req[r] EXCEPT !.pc = "failed"]
      BY <2>1 DEF Crash
    <3>2. QED BY <2>1, <3>1, GotoHandler DEF Ended
  <2>2. CASE req[r].pc \notin Running
    BY <2>2 DEF Crash, TypeOK
  <2>3. QED BY <2>1, <2>2
<1>3. TypeOK'
    BY <1>1, <1>2 DEF TypeOK, Crash
<1>4. \A r \in Request : Ordered(req[r])'
    BY <1>2 DEF Ordered, Running
<1>5. (Recorded /\ NotRecorded)'
    BY <1>1, <1>2 DEF Recorded, NotRecorded, HoldsEntry
<1>6. Told'
    BY <1>1, <1>2 DEF Told
<1>7. CommentsHaveTask'
    BY <1>1 DEF CommentsHaveTask
<1>8. QED BY <1>3, <1>4, <1>5, <1>6, <1>7

-----------------------------------------------------------------------------
LEMMA TasksStep ==
    ASSUME TasksInv, [Next]_vars
    PROVE  TasksInv'
<1>1. ASSUME NEW r \in Request, NEW t \in Task,
             \/ \E row \in NewRows : Create(r, t, row)
             \/ \E dto \in Dtos : BeginUpdate(r, t, dto)
             \/ BeginRemove(r, t)
             \/ BeginComment(r, t)
      PROVE  TasksInv'
    BY <1>1, CreateStep, BeginStep
<1>2. ASSUME NEW r \in Request, DatabaseFails(r) PROVE TasksInv'
    BY <1>2, FailedStep DEF DatabaseFails, Running
<1>3. ASSUME NEW r \in Request, EmitDirect(r) \/ EmitForward(r) PROVE TasksInv'
    BY <1>3, EmitStep DEF EmitDirect, EmitForward
<1>4. ASSUME NEW r \in Request,
             SaveSelect(r) \/ SaveWrite(r) \/ Delete(r) \/ InsertComment(r) \/ Audit(r)
      PROVE  TasksInv'
    BY <1>4, SaveSelectStep, SaveWriteStep, DeleteStep, InsertCommentStep, AuditStep
<1>5. CASE Crash
    BY <1>5, CrashStep
<1>6. CASE UNCHANGED vars
    BY <1>6 DEF vars, TasksInv, TypeOK, Recorded, NotRecorded, HoldsEntry, Told, CommentsHaveTask
<1>7. QED BY <1>1, <1>2, <1>3, <1>4, <1>5, <1>6 DEF Next

LEMMA TasksInvariant == Spec => []TasksInv
<1>1. Init => TasksInv
    BY TasksInitInv
<1>2. TasksInv /\ [Next]_vars => TasksInv'
    BY TasksStep
<1>3. QED BY <1>1, <1>2, PTL DEF Spec

(* Every table, event and handler keeps its type: a row that overlapping   *)
(* saves wrote still has all its columns.                                  *)
THEOREM TasksTypeCorrect == Spec => []TypeOK
<1>1. TasksInv => TypeOK
    BY DEF TasksInv
<1>2. QED BY <1>1, TasksInvariant, PTL

(* However handlers interleave, fail and crash, who was answered with      *)
(* success or heard an event finds the mutation in the history, once       *)
(* (tasks.service.ts: createLog is awaited before the emits).              *)
THEOREM HeardIsRecorded == Spec => []RecordedBeforeHeard
<1>1. ASSUME TasksInv, NEW r \in Request, req[r].op \in Mutation,
             req[r].pc = "done" \/ \E i \in DOMAIN out[req[r].task] : out[req[r].task][i].by = r
      PROVE  HoldsEntry(r, req[r].task, req[r].op)
  <2>1. Ordered(req[r]) /\ Told /\ Recorded
    BY <1>1 DEF TasksInv
  <2>2. req[r].op # "comment"
    BY <1>1 DEF Mutation
  <2>3. CASE req[r].pc = "done"
    BY <2>1, <2>2, <2>3 DEF Ordered, Recorded
  <2>4. CASE req[r].pc # "done"
    <3>1. PICK i \in DOMAIN out[req[r].task] : out[req[r].task][i].by = r
      BY <1>1, <2>4
    <3>2. req[r].task \in Task
      BY <1>1, <2>1 DEF Ordered, Mutation
    <3>3. QED BY <2>1, <2>2, <3>1, <3>2 DEF Told, Recorded
  <2>5. QED BY <2>3, <2>4
<1>2. TasksInv => RecordedBeforeHeard
  <2> SUFFICES ASSUME TasksInv, NEW r \in Request, req[r].op \in Mutation,
               req[r].pc = "done" \/ \E i \in DOMAIN out[req[r].task] : out[req[r].task][i].by = r
      PROVE  LET entries == {i \in DOMAIN log[req[r].task] : log[req[r].task][i].by = r}
             IN  \E i \in entries : entries = {i} /\ log[req[r].task][i].action = req[r].op
    BY DEF RecordedBeforeHeard, Mutation
  <2>1. PICK i \in DOMAIN log[req[r].task] :
            /\ log[req[r].task][i].by = r /\ log[req[r].task][i].action = req[r].op
            /\ \A j \in DOMAIN log[req[r].task] : log[req[r].task][j].by = r => j = i
    BY <1>1 DEF HoldsEntry
  <2>2. QED BY <2>1
<1>3. QED BY <1>2, TasksInvariant, PTL

(* No comment outlives its task, whatever updates, removals and failures   *)
(* race with it (the foreign key of task_comments and its cascade).        *)
THEOREM CommentsBelong == Spec => []CommentsHaveTask
<1>1. TasksInv => CommentsHaveTask
    BY DEF TasksInv
<1>2. QED BY <1>1, TasksInvariant, PTL
=============================================================================

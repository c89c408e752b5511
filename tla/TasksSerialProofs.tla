--------------------------- MODULE TasksSerialProofs ---------------------------
(***************************************************************************)
(* TLAPS proofs about TasksService when no two mutations of one task are   *)
(* in flight at once: the service implements TaskHistory, and the history  *)
(* explains every task, whatever fails in between; without failures, the   *)
(* events tell clients what the table holds.                               *)
(***************************************************************************)
EXTENDS TasksServiceProofs, SequenceTheorems

-----------------------------------------------------------------------------
(* The state of TaskHistory.                                               *)

Current(t) == IF Due(t) = {} THEN db[t] ELSE req[CHOOSE r \in Due(t) : TRUE].before

Complete(t) ==
    \A r \in Request : ~(req[r].task = t /\ req[r].pc = "failed" /\ req[r].wrote = "yes")

(* What a step does to it: nothing,                                        *)
Stays(t) ==
    /\ Current(t)' = Current(t) /\ log'[t] = log[t]
    /\ Complete(t)' <=> Complete(t)

(* an unrecorded change,                                                   *)
Loses(t) == log'[t] = log[t] /\ ~Complete(t)'

(* or a change with its entry.                                             *)
Records(t) ==
    \E e \in Entry :
        /\ log'[t] = Append(log[t], e)
        /\ Complete(t)' <=> Complete(t)
        /\ \/ /\ e.action = "created" /\ e.changes = NoChanges
              /\ Current(t) = NoRow /\ log[t] = <<>> /\ Current(t)' \in Row
           \/ /\ e.action = "updated" /\ Current(t) \in Row /\ Current(t)' \in Row
              /\ e.changes = DiffTaskChanges(Current(t), Current(t)')
           \/ /\ e.action = "deleted" /\ e.changes = NoChanges
              /\ Current(t) \in Row /\ Current(t)' = NoRow

HistoryStep ==
    \/ \E t \in Task : Records(t) /\ \A u \in Task \ {t} : Stays(u)
    \/ \A t \in Task : Stays(t) \/ Loses(t)

-----------------------------------------------------------------------------
(* The inductive invariant of serial mutations.                            *)

OneWriter ==
    \A q, r \in Request, t \in Task : Mutating(q, t) /\ Mutating(r, t) => q = r

(* A task that exists or has a history was asked for.                      *)
Known ==
    \A t \in Task : db[t] # NoRow \/ log[t] # <<>> => \E q \in Request : req[q].task = t

(* What a mutation knows about its task while no other is in flight.       *)
Alone(r) ==
    LET h == req[r] IN
    /\ h.pc \in {"select", "write", "delete"} => h.before = db[h.task] /\ h.before \in Row
    /\ h.pc = "write" => h.seen = db[h.task]
    /\ h.pc = "audit" => IF h.op = "created" THEN h.before = NoRow /\ log[h.task] = <<>>
                         ELSE h.before \in Row
    /\ h.pc \in {"audit", "emitDirect", "emitForward"} /\ h.op \in Mutation =>
          db[h.task] = IF h.op = "deleted" THEN NoRow ELSE h.work

(* The history explains the task: whether it exists,                       *)
Fate(t) ==
    Complete(t) /\ log[t] # <<>> =>
        (Current(t) = NoRow <=> log[t][Len(log[t])].action = "deleted")

(* and the value of each column that was ever changed.                     *)
Columns(t) ==
    Complete(t) /\ Current(t) # NoRow =>
        \A f \in Field, i \in DOMAIN log[t] :
            /\ f \in DOMAIN log[t][i].changes
            /\ \A j \in (i + 1)..Len(log[t]) : f \notin DOMAIN log[t][j].changes
            => Current(t)[f] = log[t][i].changes[f].to

SerialInv ==
    /\ TasksInv
    /\ OneWriter
    /\ Known
    /\ \A r \in Request : Alone(r)

Explained == \A t \in Task : Fate(t) /\ Columns(t)

-----------------------------------------------------------------------------
(* Who is due, and who is alone.                                           *)
LEMMA DueIsAudit ==
    ASSUME TasksInv, NEW t \in Task
    PROVE  Due(t) = {r \in Request : req[r].pc = "audit" /\ req[r].task = t}
<1>1. \A r \in Request : Ordered(req[r])
    BY DEF TasksInv
<1>2. \A r \in Request : InFlight(r, t) /\ req[r].wrote = "yes" <=>
                         req[r].pc = "audit" /\ req[r].task = t
    BY <1>1 DEF InFlight, Ordered, Running, Mutation
<1>3. QED BY <1>2 DEF Due

LEMMA AuditMutates ==
    ASSUME TasksInv, NEW r \in Request, req[r].pc = "audit"
    PROVE  req[r].task \in Task /\ Mutating(r, req[r].task)
    BY DEF TasksInv, Ordered, Mutating, InFlight, Running, Mutation

LEMMA CurrentOfDue ==
    ASSUME TasksInv, OneWriter, NEW r \in Request, NEW t \in Task,
           req[r].pc = "audit", req[r].task = t
    PROVE  Current(t) = req[r].before
<1>1. \A q \in Due(t) : q = r
    BY DueIsAudit, AuditMutates DEF OneWriter
<1>2. r \in Due(t)
    BY DueIsAudit
<1>3. (CHOOSE q \in Due(t) : TRUE) = r
    BY <1>1, <1>2
<1>4. QED BY <1>2, <1>3 DEF Current

LEMMA CurrentOfNone ==
    ASSUME TasksInv, NEW t \in Task, \A r \in Request : ~(req[r].pc = "audit" /\ req[r].task = t)
    PROVE  Current(t) = db[t]
<1>1. Due(t) = {}
    BY DueIsAudit
<1>2. QED BY <1>1 DEF Current

(* The task as its history has it.                                         *)
CurrentKnown ==
    SerialInv =>
        \A t \in Task :
            /\ \A r \in Request :
                  req[r].pc = "audit" /\ req[r].task = t => Current(t) = req[r].before
            /\ (\A r \in Request : ~(req[r].pc = "audit" /\ req[r].task = t)) =>
                  Current(t) = db[t]
            /\ Current(t) \in Row \cup {NoRow}

LEMMA CurrentFacts == CurrentKnown
<1> SUFFICES ASSUME SerialInv, NEW t \in Task
    PROVE  /\ \A r \in Request :
                  req[r].pc = "audit" /\ req[r].task = t => Current(t) = req[r].before
           /\ (\A r \in Request : ~(req[r].pc = "audit" /\ req[r].task = t)) =>
                  Current(t) = db[t]
           /\ Current(t) \in Row \cup {NoRow}
    BY DEF CurrentKnown
<1>1. \A r \in Request : req[r].pc = "audit" /\ req[r].task = t => Current(t) = req[r].before
    BY CurrentOfDue DEF SerialInv
<1>2. (\A r \in Request : ~(req[r].pc = "audit" /\ req[r].task = t)) => Current(t) = db[t]
    BY CurrentOfNone DEF SerialInv
<1>3. Current(t) \in Row \cup {NoRow}
    BY <1>1, <1>2 DEF SerialInv, TasksInv, TypeOK, Handler
<1>4. QED BY <1>1, <1>2, <1>3

(* Only a handler that mutates a task relies on it.                        *)
AloneKnown ==
    TasksInv =>
        \A r \in Request : (req[r].task \in Task => ~Mutating(r, req[r].task)) => Alone(r)

LEMMA AloneMutates == AloneKnown
    BY DEF AloneKnown, TasksInv, Ordered, Alone, Mutating, InFlight, Running, Mutation

(* The same of the state a step leads to.                                  *)
LEMMA CurrentFactsNext == CurrentKnown'
    BY CurrentFacts, PTL

LEMMA AloneMutatesNext == AloneKnown'
    BY AloneMutates, PTL

-----------------------------------------------------------------------------
(* The initial states.                                                     *)
LEMMA SerialInitInv == Init => SerialInv /\ Explained
<1> SUFFICES ASSUME Init PROVE SerialInv /\ Explained
    OBVIOUS
<1>1. TasksInv
    BY TasksInitInv
<1>2. \A r \in Request : req[r].pc = "new" /\ req[r].task = NoTask
    BY NewRequestFacts DEF Init, NewRequest
<1>3. OneWriter
    BY <1>2 DEF OneWriter, Mutating, InFlight, Running
<1>4. Known
    BY DEF Init, Known
<1>5. \A r \in Request : Alone(r)
    BY <1>2 DEF Alone
<1>6. Explained
  <2> SUFFICES ASSUME NEW t \in Task PROVE Fate(t) /\ Columns(t)
    BY DEF Explained
  <2>1. log[t] = <<>> /\ Current(t) = NoRow
    BY <1>1, <1>2, CurrentOfNone DEF Init
  <2>2. QED BY <2>1 DEF Fate, Columns
<1>7. QED BY <1>1, <1>3, <1>4, <1>5, <1>6 DEF SerialInv

-----------------------------------------------------------------------------
(* A handler r goes on to h: what holds of the tasks and the handlers that *)
(* it has nothing to do with.                                              *)
LEMMA OthersStay ==
    ASSUME SerialInv, TasksInv', NEW r \in Request, NEW h \in Handler, NEW t \in Task,
           req' = [req EXCEPT ![r] = h], h.task = t, h.pc # "new",
           req[r].pc = "new" \/ req[r].task = t,
           h.pc \in Running /\ h.op # "comment" =>
               Mutating(r, t) \/ \A q \in Request : ~Mutating(q, t),
           \A u \in Task \ {t} : db'[u] = db[u] /\ log'[u] = log[u],
           \/ db'[t] = db[t] /\ log'[t] = log[t]
           \/ Mutating(r, t) \/ \A q \in Request : ~Mutating(q, t),
           Alone(r)'
    PROVE  SerialInv' /\ \A u \in Task \ {t} : Stays(u)
<1>1. /\ req' \in [Request -> Handler] /\ req'[r] = h
      /\ \A q \in Request : q # r => req'[q] = req[q]
    BY DEF SerialInv, TasksInv, TypeOK
<1>2. \A q \in Request : Ordered(req[q]) /\ Ordered(req'[q])
    BY DEF SerialInv, TasksInv
<1>3. req[r].task = NoTask \/ req[r].task = t
    BY <1>2 DEF Ordered
<1>4. OneWriter'
  <2> SUFFICES ASSUME NEW p \in Request, NEW q \in Request, NEW u \in Task,
                      Mutating(p, u)', Mutating(q, u)'
               PROVE  p = q
    BY DEF OneWriter
  <2>1. \A k \in Request : k # r => (Mutating(k, u)' <=> Mutating(k, u))
    BY <1>1 DEF Mutating, InFlight
  <2>2. Mutating(r, u)' => u = t /\ (Mutating(r, t) \/ \A k \in Request : ~Mutating(k, t))
    BY <1>1 DEF Mutating, InFlight
  <2>3. QED BY <2>1, <2>2 DEF SerialInv, OneWriter
<1>5. Known'
  <2> SUFFICES ASSUME NEW u \in Task, db'[u] # NoRow \/ log'[u] # <<>>
               PROVE  \E q \in Request : req'[q].task = u
    BY DEF Known
  <2>1. CASE u = t
    BY <1>1, <2>1
  <2>2. CASE u # t
    <3>1. PICK q \in Request : req[q].task = u
      BY <2>2 DEF SerialInv, Known
    <3>2. q # r
      BY <1>3, <2>2, <3>1, NoTaskAssumption
    <3>3. QED BY <1>1, <3>1, <3>2
  <2>3. QED BY <2>1, <2>2
<1>6. \A q \in Request : Alone(q)'
  <2> SUFFICES ASSUME NEW q \in Request, q # r, req[q].task \in Task, Mutating(q, req[q].task)
               PROVE  Alone(q)'
    <3>1. \A q \in Request : (req[q].task \in Task => ~Mutating(q, req[q].task))' => Alone(q)'
      BY AloneMutatesNext DEF AloneKnown
    <3>2. \A q \in Request : q # r =>
              ((req[q].task \in Task /\ Mutating(q, req[q].task))' <=>
               (req[q].task \in Task /\ Mutating(q, req[q].task)))
      BY <1>1 DEF Mutating, InFlight
    <3>3. QED BY <3>1, <3>2
  <2>1. req'[q] = req[q] /\ Alone(q)
    BY <1>1 DEF SerialInv
  <2>2. db'[req[q].task] = db[req[q].task] /\ log'[req[q].task] = log[req[q].task]
    BY DEF SerialInv, OneWriter
  <2>3. QED BY <2>1, <2>2 DEF Alone
<1>7. SerialInv'
    BY <1>4, <1>5, <1>6 DEF SerialInv
<1>8. ASSUME NEW u \in Task \ {t} PROVE Stays(u)
  <2>1. \A q \in Request : req[q].task = u \/ req'[q].task = u => req'[q] = req[q]
    BY <1>1, <1>3, NoTaskAssumption
  <2>2. Current(u)' = Current(u)
    <3>1. ASSUME NEW q \in Request, req[q].pc = "audit" /\ req[q].task = u
          PROVE  Current(u)' = Current(u)
      BY <1>7, <2>1, <3>1, CurrentFacts, CurrentFactsNext DEF CurrentKnown
    <3>2. CASE \A q \in Request : ~(req[q].pc = "audit" /\ req[q].task = u)
      <4>1. \A q \in Request : ~(req'[q].pc = "audit" /\ req'[q].task = u)
        BY <2>1, <3>2
      <4>2. QED BY <1>7, <3>2, <4>1, CurrentFacts, CurrentFactsNext DEF CurrentKnown
    <3>3. QED BY <3>1, <3>2
  <2>3. Complete(u)' <=> Complete(u)
    BY <2>1 DEF Complete
  <2>4. QED BY <2>2, <2>3 DEF Stays
<1>9. QED BY <1>7, <1>8

(* A handler goes on, and no entry becomes due or is stored.               *)
LEMMA QuietSerial ==
    ASSUME SerialInv, TasksInv', NEW r \in Request, NEW h \in Handler, NEW t \in Task,
           req' = [req EXCEPT ![r] = h], h.task = t, h.pc # "new",
           req[r].pc = "new" \/ req[r].task = t,
           h.pc \in Running /\ h.op # "comment" =>
               Mutating(r, t) \/ \A q \in Request : ~Mutating(q, t),
           UNCHANGED <<db, log>>, req[r].wrote # "yes", h.wrote # "yes", Alone(r)'
    PROVE  SerialInv' /\ HistoryStep
<1>1. SerialInv' /\ \A u \in Task \ {t} : Stays(u)
    BY OthersStay
<1>2. /\ req'[r] = h /\ \A q \in Request : q # r => req'[q] = req[q]
    BY DEF SerialInv, TasksInv, TypeOK
<1>3. req[r].pc # "audit" /\ req'[r].pc # "audit"
    BY <1>2 DEF SerialInv, TasksInv, Ordered
<1>4. Current(t)' = Current(t)
  <2>1. ASSUME NEW q \in Request, req[q].pc = "audit" /\ req[q].task = t
        PROVE  Current(t)' = Current(t)
    BY <1>1, <1>2, <1>3, <2>1, CurrentFacts, CurrentFactsNext DEF CurrentKnown
  <2>2. CASE \A q \in Request : ~(req[q].pc = "audit" /\ req[q].task = t)
    <3>1. \A q \in Request : ~(req'[q].pc = "audit" /\ req'[q].task = t)
      BY <1>2, <1>3, <2>2
    <3>2. QED BY <1>1, <2>2, <3>1, CurrentFacts, CurrentFactsNext DEF CurrentKnown
  <2>3. QED BY <2>1, <2>2
<1>5. Complete(t)' <=> Complete(t)
    BY <1>2 DEF Complete
<1>6. Stays(t)
    BY <1>4, <1>5 DEF Stays
<1>7. QED BY <1>1, <1>6 DEF HistoryStep

(* The only handler that mutates t has changed the table; until its entry  *)
(* is stored, the history has the task as the handler found it.            *)
LEMMA WroteSerial ==
    ASSUME SerialInv, TasksInv', NEW r \in Request, NEW h \in Handler, NEW t \in Task,
           req' = [req EXCEPT ![r] = h], h.task = t, h.pc = "audit", h.before = db[t],
           req[r].pc = "new" \/ req[r].task = t, req[r].wrote = "no",
           Mutating(r, t) \/ \A q \in Request : ~Mutating(q, t),
           \A u \in Task \ {t} : db'[u] = db[u], UNCHANGED log, Alone(r)'
    PROVE  SerialInv' /\ HistoryStep
<1>1. SerialInv' /\ \A u \in Task \ {t} : Stays(u)
    BY OthersStay
<1>2. /\ req'[r] = h /\ \A q \in Request : q # r => req'[q] = req[q]
    BY DEF SerialInv, TasksInv, TypeOK
<1>3. \A q \in Request : ~(req[q].pc = "audit" /\ req[q].task = t)
  <2>1. req[r].pc # "audit"
    BY DEF SerialInv, TasksInv, Ordered
  <2>2. ASSUME NEW q \in Request, req[q].pc = "audit", req[q].task = t PROVE FALSE
    BY <2>1, <2>2, AuditMutates DEF SerialInv, OneWriter
  <2>3. QED BY <2>2
<1>4. Current(t) = db[t]
    BY <1>3, CurrentFacts DEF CurrentKnown
<1>5. Current(t)' = h.before
    BY <1>1, <1>2, CurrentFactsNext DEF CurrentKnown
<1>6. Complete(t)' <=> Complete(t)
    BY <1>2 DEF Complete
<1>7. Stays(t)
    BY <1>4, <1>5, <1>6 DEF Stays
<1>8. QED BY <1>1, <1>7 DEF HistoryStep

-----------------------------------------------------------------------------
(* The steps.                                                              *)
LEMMA CreateSerial ==
    ASSUME OneWriterPerTask, SerialInv, TasksInv', NEW r \in Request, NEW t \in Task,
           NEW row \in NewRows, Create(r, t, row)
    PROVE  SerialInv' /\ HistoryStep
<1> DEFINE h == [NewRequest EXCEPT !.pc = "audit", !.op = "created", !.task = t, !.work = row,
                                   !.wrote = "yes"]
<1>1. /\ req[r].pc = "new" /\ req[r].wrote = "no" /\ \A q \in Request : ~Mutating(q, t)
      /\ db[t] = NoRow /\ log[t] = <<>>
    BY DEF Create, MayMutate, SerialInv, TasksInv, Ordered, Known
<1>2. /\ h \in Handler /\ h.task = t /\ h.pc = "audit" /\ h.op = "created"
      /\ h.before = NoRow /\ h.work = row
    BY NewRowsAssumption DEF Handler, NewRequest, Op, Running
<1>3. req' = [req EXCEPT ![r] = h] /\ UNCHANGED log
    BY DEF Create
<1>4. db'[t] = row /\ \A u \in Task \ {t} : db'[u] = db[u]
    BY DEF Create, SerialInv, TasksInv, TypeOK
<1> HIDE DEF h
<1>5. req'[r] = h
    BY <1>3 DEF SerialInv, TasksInv, TypeOK
<1>6. Alone(r)'
    BY <1>1, <1>2, <1>3, <1>4, <1>5 DEF Alone
<1>7. QED BY <1>1, <1>2, <1>3, <1>4, <1>6, WroteSerial

LEMMA LoadSerial ==
    ASSUME SerialInv, TasksInv', NEW r \in Request, req[r].pc = "new", NEW t \in Task,
           NEW op, NEW pc, NEW work, Load(r, t, op, pc, work),
           db[t] # NoRow => work \in Row,
           \/ op = "updated" /\ pc = "select"
           \/ op = "deleted" /\ pc = "delete"
           \/ op = "comment" /\ pc = "comment",
           op # "comment" => \A q \in Request : ~Mutating(q, t)
    PROVE  SerialInv' /\ HistoryStep
<1> DEFINE g == [NewRequest EXCEPT !.pc = "notFound", !.op = op, !.task = t]
           h == [NewRequest EXCEPT !.pc = pc, !.op = op, !.task = t, !.before = db[t],
                                   !.work = work]
<1>1. req[r].wrote = "no"
    BY DEF SerialInv, TasksInv, Ordered
<1>2. UNCHANGED <<db, log>>
    BY DEF Load
<1>3. CASE db[t] = NoRow
  <2>1. g \in Handler /\ g.wrote = "no" /\ g.pc = "notFound" /\ g.task = t
    BY DEF Handler, NewRequest, Op, Ended
  <2>2. req' = [req EXCEPT ![r] = g]
    BY <1>3 DEF Load
  <2> HIDE DEF g
  <2>3. req'[r] = g
    BY <2>2 DEF SerialInv, TasksInv, TypeOK
  <2>4. Alone(r)' /\ g.pc \notin Running
    BY <2>1, <2>3 DEF Alone, Running
  <2>5. QED BY <1>1, <1>2, <2>1, <2>2, <2>4, QuietSerial
<1>4. CASE db[t] # NoRow
  <2>1. db[t] \in Row
    BY <1>4 DEF SerialInv, TasksInv, TypeOK
  <2>2. /\ h \in Handler /\ h.wrote = "no" /\ h.pc = pc /\ h.op = op /\ h.task = t
        /\ h.before = db[t]
    BY <1>4, <2>1 DEF Handler, NewRequest, Op, Running
  <2>3. req' = [req EXCEPT ![r] = h]
    BY <1>4 DEF Load
  <2> HIDE DEF h
  <2>4. req'[r] = h
    BY <2>3 DEF SerialInv, TasksInv, TypeOK
  <2>5. Alone(r)'
    BY <1>2, <2>1, <2>2, <2>4 DEF Alone
  <2>6. QED BY <1>1, <1>2, <2>2, <2>3, <2>5, QuietSerial
<1>5. QED BY <1>3, <1>4

LEMMA BeginSerial ==
    ASSUME OneWriterPerTask, SerialInv, TasksInv', NEW r \in Request, NEW t \in Task,
           \/ \E dto \in Dtos : BeginUpdate(r, t, dto)
           \/ BeginRemove(r, t)
           \/ BeginComment(r, t)
    PROVE  SerialInv' /\ HistoryStep
<1>1. db[t] \in Row \cup {NoRow}
    BY DEF SerialInv, TasksInv, TypeOK
<1>2. ASSUME NEW dto \in Dtos, BeginUpdate(r, t, dto) PROVE SerialInv' /\ HistoryStep
  <2> DEFINE work == IF db[t] = NoRow THEN NoRow ELSE Merge(db[t], dto)
  <2>1. db[t] # NoRow => work \in Row
    BY <1>1, MergeRow
  <2>2. /\ req[r].pc = "new" /\ Load(r, t, "updated", "select", work)
        /\ \A q \in Request : ~Mutating(q, t)
    BY <1>2 DEF BeginUpdate, MayMutate
  <2> HIDE DEF work
  <2>3. QED BY <2>1, <2>2, LoadSerial
<1>3. CASE BeginRemove(r, t)
    BY <1>1, <1>3, LoadSerial DEF BeginRemove, MayMutate
<1>4. CASE BeginComment(r, t)
    BY <1>1, <1>4, LoadSerial DEF BeginComment
<1>5. QED BY <1>2, <1>3, <1>4

(* What Ordered says of a handler under way.                               *)
LEMMA UnderWay ==
    ASSUME SerialInv, NEW r \in Request, req[r].pc \in Running
    PROVE  /\ req[r] \in Handler /\ req[r].task \in Task /\ req[r].work \in Row
           /\ req[r].pc # "audit" => req[r].wrote # "yes"
           /\ req[r].op # "comment" => Mutating(r, req[r].task)
           /\ Alone(r)
    BY DEF SerialInv, TasksInv, TypeOK, Ordered, Running, Mutation, Mutating, InFlight

LEMMA SaveSelectSerial ==
    ASSUME SerialInv, TasksInv', NEW r \in Request, SaveSelect(r)
    PROVE  SerialInv' /\ HistoryStep
<1> DEFINE h == [req[r] EXCEPT !.pc = "write", !.seen = db[req[r].task]]
<1>1. req[r].pc = "select" /\ UNCHANGED <<db, log>> /\ req \in [Request -> Handler]
    BY DEF SaveSelect, SerialInv, TasksInv, TypeOK
<1>2. PICK t \in Task : t = req[r].task
    BY <1>1, UnderWay DEF Running
<1>3. /\ req[r] \in Handler /\ Alone(r) /\ req[r].wrote # "yes" /\ db[t] \in Row \cup {NoRow}
      /\ req[r].op = "updated" /\ Mutating(r, t)
    BY <1>1, <1>2, UnderWay DEF Running, SerialInv, TasksInv, TypeOK, Ordered
<1>4. /\ h \in Handler /\ h.op = "updated" /\ h.wrote # "yes" /\ h.task = t
      /\ h.pc = "write" /\ h.before = req[r].before /\ h.seen = db[t]
    BY <1>2, <1>3 DEF Handler, Running
<1>5. req' = [req EXCEPT ![r] = h]
    BY <1>1 DEF SaveSelect
<1> HIDE DEF h
<1>6. req'[r] = h
    BY <1>1, <1>5
<1>7. Alone(r)'
    BY <1>1, <1>2, <1>3, <1>4, <1>6 DEF Alone
<1>8. QED BY <1>1, <1>2, <1>3, <1>4, <1>5, <1>7, QuietSerial

(* A handler with no entry due fails, or goes on to emit.                  *)
LEMMA GotoSerial ==
    ASSUME SerialInv, TasksInv', NEW r \in Request, NEW pc \in {"failed", "emitDirect", "emitForward", "done"},
           req[r].pc \in Running, req[r].pc # "audit",
           pc \in {"emitDirect", "emitForward"} =>
               req[r].op = "comment" \/ req[r].pc = "emitDirect",
           Goto(r, pc), UNCHANGED <<db, log>>
    PROVE  SerialInv' /\ HistoryStep
<1> DEFINE h == [req[r] EXCEPT !.pc = pc]
<1>1. PICK t \in Task : t = req[r].task
    BY UnderWay
<1>2. /\ h \in Handler /\ h.op = req[r].op /\ h.wrote = req[r].wrote /\ h.task = t
      /\ h.pc = pc /\ h.before = req[r].before /\ h.work = req[r].work
  <2>1. pc \in Running \cup Ended /\ TasksInv
    BY DEF Ended, Running, SerialInv
  <2> HIDE DEF h
  <2>2. QED BY <1>1, <2>1, GotoHandler DEF h
<1>3. req' = [req EXCEPT ![r] = h]
    BY DEF Goto
<1> HIDE DEF h
<1>4. req'[r] = h
    BY <1>3 DEF SerialInv, TasksInv, TypeOK
<1>5. Alone(r)'
    BY <1>1, <1>2, <1>4, UnderWay DEF Alone, Mutation
<1>6. req[r].wrote # "yes" /\ (req[r].op # "comment" => Mutating(r, t))
    BY <1>1, UnderWay
<1>7. QED BY <1>1, <1>2, <1>3, <1>5, <1>6, QuietSerial

LEMMA SavedSame ==
    ASSUME NEW row \in Row, NEW work \in Row
    PROVE  Saved(row, row, work) = work
<1>1. Saved(row, row, work) = [f \in Field |-> work[f]]
    BY NoRowAssumption DEF Saved
<1>2. QED BY <1>1 DEF Row

(* What save read is still there, so the row becomes the entity.           *)
LEMMA SaveWriteSerial ==
    ASSUME SerialInv, TasksInv', NEW r \in Request, SaveWrite(r)
    PROVE  SerialInv' /\ HistoryStep
<1> DEFINE h == [req[r] EXCEPT !.pc = "audit", !.wrote = "yes"]
<1>1. req[r].pc = "write" /\ req \in [Request -> Handler] /\ db \in [Task -> Row \cup {NoRow}]
    BY DEF SaveWrite, SerialInv, TasksInv, TypeOK
<1>2. PICK t \in Task : t = req[r].task
    BY <1>1, UnderWay DEF Running
<1>3. /\ req[r] \in Handler /\ Alone(r) /\ req[r].wrote = "no" /\ req[r].op = "updated"
      /\ Mutating(r, t) /\ req[r].work \in Row
    BY <1>1, <1>2, UnderWay DEF Running, SerialInv, TasksInv, Ordered
<1>4. /\ req[r].before = db[t] /\ req[r].seen = db[t] /\ db[t] \in Row /\ db[t] # NoRow
    BY <1>1, <1>2, <1>3, NoRowAssumption DEF Alone
<1>5. /\ db' = [db EXCEPT ![t] = req[r].work] /\ UNCHANGED log
      /\ req' = [req EXCEPT ![r].pc = "audit", ![r].wrote = "yes"]
    BY <1>2, <1>3, <1>4, SavedSame DEF SaveWrite
<1>6. /\ h \in Handler /\ h.op = "updated" /\ h.task = t /\ h.pc = "audit"
      /\ h.before = db[t] /\ h.work = req[r].work
    BY <1>2, <1>3, <1>4 DEF Handler, Running
<1>7. req' = [req EXCEPT ![r] = h]
    BY <1>1, <1>5
<1> HIDE DEF h
<1>8. req'[r] = h /\ db'[t] = req[r].work /\ \A u \in Task \ {t} : db'[u] = db[u]
    BY <1>1, <1>5, <1>7
<1>9. Alone(r)'
    BY <1>4, <1>6, <1>8 DEF Alone
<1>10. QED BY <1>2, <1>3, <1>5, <1>6, <1>7, <1>8, <1>9, WroteSerial

LEMMA DeleteSerial ==
    ASSUME SerialInv, TasksInv', NEW r \in Request, Delete(r)
    PROVE  SerialInv' /\ HistoryStep
<1> DEFINE h == [req[r] EXCEPT !.pc = "audit", !.wrote = "yes"]
<1>1. req[r].pc = "delete" /\ req \in [Request -> Handler] /\ db \in [Task -> Row \cup {NoRow}]
    BY DEF Delete, SerialInv, TasksInv, TypeOK
<1>2. PICK t \in Task : t = req[r].task
    BY <1>1, UnderWay DEF Running
<1>3. /\ req[r] \in Handler /\ Alone(r) /\ req[r].wrote = "no" /\ req[r].op = "deleted"
      /\ Mutating(r, t)
    BY <1>1, <1>2, UnderWay DEF Running, SerialInv, TasksInv, Ordered
<1>4. req[r].before = db[t] /\ db[t] \in Row
    BY <1>1, <1>2, <1>3 DEF Alone
<1>5. /\ db' = [db EXCEPT ![t] = NoRow] /\ UNCHANGED log
      /\ req' = [req EXCEPT ![r].pc = "audit", ![r].wrote = "yes"]
    BY <1>2 DEF Delete
<1>6. /\ h \in Handler /\ h.op = "deleted" /\ h.task = t /\ h.pc = "audit" /\ h.before = db[t]
    BY <1>2, <1>3, <1>4 DEF Handler, Running
<1>7. req' = [req EXCEPT ![r] = h]
    BY <1>1, <1>5
<1> HIDE DEF h
<1>8. req'[r] = h /\ db'[t] = NoRow /\ \A u \in Task \ {t} : db'[u] = db[u]
    BY <1>1, <1>5, <1>7
<1>9. Alone(r)'
    BY <1>4, <1>6, <1>8 DEF Alone
<1>10. QED BY <1>2, <1>3, <1>5, <1>6, <1>7, <1>8, <1>9, WroteSerial

LEMMA InsertCommentSerial ==
    ASSUME SerialInv, TasksInv', NEW r \in Request, InsertComment(r)
    PROVE  SerialInv' /\ HistoryStep
<1>1. req[r].pc = "comment" /\ req[r].op = "comment" /\ UNCHANGED <<db, log>>
    BY DEF InsertComment, SerialInv, TasksInv, Ordered
<1>2. Goto(r, "failed") \/ Goto(r, "emitDirect")
    BY DEF InsertComment
<1>3. QED BY <1>1, <1>2, GotoSerial DEF Running

LEMMA EmitSerial ==
    ASSUME SerialInv, TasksInv', NEW r \in Request, EmitDirect(r) \/ EmitForward(r)
    PROVE  SerialInv' /\ HistoryStep
<1>1. UNCHANGED <<db, log>>
    BY DEF EmitDirect, EmitForward, Emit
<1>2. CASE EmitDirect(r)
    BY <1>1, <1>2, GotoSerial DEF EmitDirect, Emit, Running
<1>3. CASE EmitForward(r)
    BY <1>1, <1>3, GotoSerial DEF EmitForward, Emit, Running
<1>4. QED BY <1>2, <1>3

(* The entry that was due is stored: the change takes effect.              *)
LEMMA AuditSerial ==
    ASSUME SerialInv, TasksInv', NEW r \in Request, Audit(r)
    PROVE  SerialInv' /\ HistoryStep
<1> DEFINE changes == IF req[r].op = "updated" THEN DiffTaskChanges(req[r].before, req[r].work)
                      ELSE NoChanges
           e == [action |-> req[r].op, by |-> r, changes |-> changes]
           h == [req[r] EXCEPT !.pc = "emitDirect", !.wrote = "audited"]
<1>1. /\ req[r].pc = "audit" /\ req \in [Request -> Handler] /\ log \in [Task -> Seq(Entry)]
      /\ UNCHANGED db
    BY DEF Audit, SerialInv, TasksInv, TypeOK
<1>2. PICK t \in Task : t = req[r].task
    BY <1>1, UnderWay DEF Running
<1>3. /\ req[r] \in Handler /\ Alone(r) /\ req[r].op \in Mutation /\ Mutating(r, t)
      /\ req[r].work \in Row
    BY <1>1, <1>2, UnderWay, AuditMutates DEF Running, SerialInv, TasksInv, Ordered
<1>4. /\ req[r].op = "created" => req[r].before = NoRow /\ log[t] = <<>>
      /\ req[r].op # "created" => req[r].before \in Row
      /\ db[t] = IF req[r].op = "deleted" THEN NoRow ELSE req[r].work
    BY <1>1, <1>2, <1>3 DEF Alone
<1>5. /\ log' = [log EXCEPT ![t] = Append(log[t], e)] /\ req' = [req EXCEPT ![r] = h]
    BY <1>1, <1>2 DEF Audit
<1>6. changes \in Changes
    BY <1>3, <1>4, DiffChanges, NoChangesTyped
<1>7. /\ req[r].op = "updated" => changes = DiffTaskChanges(req[r].before, req[r].work)
      /\ req[r].op # "updated" => changes = NoChanges
    OBVIOUS
<1> HIDE DEF changes
<1>8. e \in Entry /\ e.action = req[r].op /\ e.changes = changes
    BY <1>3, <1>6 DEF Entry, Mutation
<1>9. /\ h \in Handler /\ h.op = req[r].op /\ h.wrote = "audited" /\ h.task = t
      /\ h.pc = "emitDirect" /\ h.work = req[r].work
    BY <1>2, <1>3 DEF Handler, Running
<1> HIDE DEF e, h
<1>10. /\ req'[r] = h /\ \A q \in Request : q # r => req'[q] = req[q]
       /\ log'[t] = Append(log[t], e) /\ \A u \in Task \ {t} : log'[u] = log[u]
    BY <1>1, <1>5
<1>11. Alone(r)'
    BY <1>1, <1>4, <1>9, <1>10 DEF Alone
<1>12. SerialInv' /\ \A u \in Task \ {t} : Stays(u)
    BY <1>1, <1>2, <1>3, <1>5, <1>9, <1>10, <1>11, OthersStay
<1>13. Current(t) = req[r].before
    BY <1>1, <1>2, CurrentFacts DEF CurrentKnown
<1>14. Current(t)' = db[t]
  <2>1. ASSUME NEW q \in Request, req'[q].pc = "audit", req'[q].task = t PROVE FALSE
    <3>1. q # r
      BY <1>9, <1>10, <2>1
    <3>2. Mutating(q, t)
      BY <1>10, <2>1, <3>1, AuditMutates DEF SerialInv
    <3>3. QED BY <1>3, <3>1, <3>2 DEF SerialInv, OneWriter
  <2>2. QED BY <1>1, <1>12, <2>1, CurrentFactsNext DEF CurrentKnown
<1>15. Complete(t)' <=> Complete(t)
    BY <1>1, <1>9, <1>10 DEF Complete
<1>16. Records(t)
  <2>1. CASE req[r].op = "created"
    BY <1>3, <1>4, <1>7, <1>8, <1>10, <1>13, <1>14, <1>15, <2>1 DEF Records
  <2>2. CASE req[r].op = "updated"
    <3>1. Current(t)' = req[r].work /\ changes = DiffTaskChanges(Current(t), req[r].work)
      BY <1>4, <1>7, <1>13, <1>14, <2>2
    <3>2. changes = DiffTaskChanges(Current(t), Current(t)')
      BY <3>1
    <3>3. QED BY <1>3, <1>4, <1>8, <1>10, <1>13, <1>15, <2>2, <3>1, <3>2 DEF Records
  <2>3. CASE req[r].op = "deleted"
    BY <1>4, <1>7, <1>8, <1>10, <1>13, <1>14, <1>15, <2>3 DEF Records
  <2>4. QED BY <1>3, <2>1, <2>2, <2>3 DEF Mutation
<1>17. QED BY <1>12, <1>16 DEF HistoryStep

(* A change whose entry is never stored leaves the history incomplete.     *)
LEMMA DatabaseFailsSerial ==
    ASSUME SerialInv, TasksInv', NEW r \in Request, DatabaseFails(r)
    PROVE  SerialInv' /\ HistoryStep
<1> DEFINE h == [req[r] EXCEPT !.pc = "failed"]
<1>1. Goto(r, "failed") /\ UNCHANGED <<db, log>> /\ req[r].pc \in Running
    BY DEF DatabaseFails, Running
<1>2. CASE req[r].pc # "audit"
    BY <1>1, <1>2, GotoSerial
<1>3. CASE req[r].pc = "audit"
  <2>1. PICK t \in Task : t = req[r].task
    BY <1>1, UnderWay
  <2>2. Mutating(r, t) /\ req[r].wrote = "yes"
    BY <1>3, <2>1, AuditMutates DEF SerialInv, TasksInv, Ordered
  <2>3. /\ h \in Handler /\ h.pc = "failed" /\ h.task = t /\ h.wrote = "yes"
    BY <2>1, <2>2, GotoHandler DEF Ended, SerialInv
  <2>4. req' = [req EXCEPT ![r] = h]
    BY <1>1 DEF Goto
  <2> HIDE DEF h
  <2>5. req'[r] = h
    BY <2>4 DEF SerialInv, TasksInv, TypeOK
  <2>6. Alone(r)'
    BY <2>3, <2>5 DEF Alone
  <2>7. SerialInv' /\ \A u \in Task \ {t} : Stays(u)
    BY <1>1, <2>1, <2>2, <2>3, <2>4, <2>6, OthersStay
  <2>8. Loses(t)
    BY <1>1, <2>3, <2>5 DEF Loses, Complete
  <2>9. QED BY <2>7, <2>8 DEF HistoryStep
<1>4. QED BY <1>2, <1>3

LEMMA CrashSerial ==
    ASSUME SerialInv, TasksInv', Crash
    PROVE  SerialInv' /\ HistoryStep
<1>1. /\ UNCHANGED <<db, log>>
      /\ \A r \in Request :
            /\ req'[r].pc \notin Running /\ req'[r].task = req[r].task
            /\ req'[r].wrote = req[r].wrote
            /\ req[r].pc \in Running => req'[r].pc = "failed"
            /\ req[r].pc \notin Running => req'[r] = req[r]
  <2>1. ASSUME NEW r \in Request, req[r].pc \in Running
        PROVE  /\ req'[r].pc = "failed" /\ req'[r].task = req[r].task
               /\ req'[r].wrote = req[r].wrote
    <3>1. req'[r] = [req[r] EXCEPT !.pc = "failed"]
      BY <2>1 DEF Crash
    <3>2. QED BY <3>1, GotoHandler DEF SerialInv, Ended
  <2>2. ASSUME NEW r \in Request, req[r].pc \notin Running PROVE req'[r] = req[r]
    BY <2>2 DEF Crash
  <2>3. QED BY <2>1, <2>2 DEF Crash, Running
<1>2. OneWriter'
    BY <1>1 DEF OneWriter, Mutating, InFlight
<1>3. Known'
    BY <1>1 DEF SerialInv, Known
<1>4. \A r \in Request : Alone(r)'
    BY <1>1 DEF Alone, Running
<1>5. SerialInv'
    BY <1>2, <1>3, <1>4 DEF SerialInv
<1>6. ASSUME NEW t \in Task PROVE Stays(t) \/ Loses(t)
  <2>1. CASE \E r \in Request : req[r].pc = "audit" /\ req[r].task = t
    <3>1. PICK r \in Request : req[r].pc = "audit" /\ req[r].task = t
      BY <2>1
    <3>2. req[r].wrote = "yes"
      BY <3>1 DEF SerialInv, TasksInv, Ordered
    <3>3. QED BY <1>1, <3>1, <3>2 DEF Loses, Complete, Running
  <2>2. CASE ~ \E r \in Request : req[r].pc = "audit" /\ req[r].task = t
    <3>1. Current(t) = db[t]
      BY <2>2, CurrentFacts DEF CurrentKnown
    <3>2. Current(t)' = db'[t]
      BY <1>1, <1>5, CurrentFactsNext DEF CurrentKnown, Running
    <3>3. Complete(t)' <=> Complete(t)
      BY <1>1, <2>2, UnderWay DEF Complete
    <3>4. QED BY <1>1, <3>1, <3>2, <3>3 DEF Stays
  <2>3. QED BY <2>1, <2>2
<1>7. QED BY <1>5, <1>6 DEF HistoryStep

-----------------------------------------------------------------------------
(* Every step of the service is a step of the history, or none.            *)
LEMMA SerialStep ==
    ASSUME OneWriterPerTask, SerialInv, [Next]_vars
    PROVE  SerialInv' /\ HistoryStep
<1>1. TasksInv'
    BY TasksStep DEF SerialInv
<1>2. ASSUME NEW r \in Request, NEW t \in Task,
             \/ \E row \in NewRows : Create(r, t, row)
             \/ \E dto \in Dtos : BeginUpdate(r, t, dto)
             \/ BeginRemove(r, t)
             \/ BeginComment(r, t)
      PROVE  SerialInv' /\ HistoryStep
    BY <1>1, <1>2, CreateSerial, BeginSerial
<1>3. ASSUME NEW r \in Request,
             SaveSelect(r) \/ SaveWrite(r) \/ Delete(r) \/ InsertComment(r) \/ Audit(r)
      PROVE  SerialInv' /\ HistoryStep
    BY <1>1, <1>3, SaveSelectSerial, SaveWriteSerial, DeleteSerial, InsertCommentSerial, AuditSerial
<1>4. ASSUME NEW r \in Request, EmitDirect(r) \/ EmitForward(r) \/ DatabaseFails(r)
      PROVE  SerialInv' /\ HistoryStep
    BY <1>1, <1>4, EmitSerial, DatabaseFailsSerial
<1>5. CASE Crash
    BY <1>1, <1>5, CrashSerial
<1>6. CASE UNCHANGED vars
  <2>1. UNCHANGED <<db, log, req>>
    BY <1>6 DEF vars
  <2>2. SerialInv'
    BY <1>1, <2>1 DEF SerialInv, OneWriter, Known, Alone, Mutating, InFlight
  <2>3. \A t \in Task : Stays(t)
    BY <2>1 DEF Stays, Current, Complete, Due, InFlight
  <2>4. QED BY <2>2, <2>3 DEF HistoryStep
<1>7. QED BY <1>2, <1>3, <1>4, <1>5, <1>6 DEF Next

-----------------------------------------------------------------------------
(* The history goes on explaining the tasks.                               *)
LEMMA StaysExplained ==
    ASSUME Explained, NEW t \in Task, Stays(t)
    PROVE  Fate(t)' /\ Columns(t)'
    BY DEF Explained, Stays, Fate, Columns

LEMMA LosesExplained ==
    ASSUME NEW t \in Task, Loses(t)
    PROVE  Fate(t)' /\ Columns(t)'
    BY DEF Loses, Fate, Columns

LEMMA RecordsExplained ==
    ASSUME SerialInv, Explained, NEW t \in Task, Records(t)
    PROVE  Fate(t)' /\ Columns(t)'
<1> DEFINE c == Current(t)
           d == Current(t)'
<1>1. PICK e \in Entry :
        /\ log'[t] = Append(log[t], e)
        /\ Complete(t)' <=> Complete(t)
        /\ \/ /\ e.action = "created" /\ e.changes = NoChanges
              /\ c = NoRow /\ log[t] = <<>> /\ d \in Row
           \/ /\ e.action = "updated" /\ c \in Row /\ d \in Row
              /\ e.changes = DiffTaskChanges(c, d)
           \/ /\ e.action = "deleted" /\ e.changes = NoChanges
              /\ c \in Row /\ d = NoRow
    BY DEF Records
<1>2. log[t] \in Seq(Entry)
    BY DEF SerialInv, TasksInv, TypeOK
<1>3. /\ Len(log[t]) \in Nat /\ DOMAIN log[t] = 1..Len(log[t])
      /\ DOMAIN log'[t] = 1..(Len(log[t]) + 1) /\ Len(log'[t]) = Len(log[t]) + 1
      /\ log'[t][Len(log[t]) + 1] = e
      /\ \A i \in DOMAIN log[t] : log'[t][i] = log[t][i]
    BY <1>1, <1>2, Appended, AppendProperties
<1>4. Fate(t)'
  <2>1. log'[t][Len(log'[t])] = e
    BY <1>3
  <2>2. d = NoRow <=> e.action = "deleted"
    BY <1>1, NoRowAssumption
  <2>3. QED BY <2>1, <2>2 DEF Fate
<1>5. Columns(t)'
  <2> SUFFICES ASSUME Complete(t), d # NoRow, NEW f \in Field, NEW i \in DOMAIN log'[t],
                      f \in DOMAIN log'[t][i].changes,
                      \A j \in (i + 1)..Len(log'[t]) : f \notin DOMAIN log'[t][j].changes
               PROVE  d[f] = log'[t][i].changes[f].to
    BY <1>1 DEF Columns
  <2>1. DOMAIN NoChanges = {}
    BY DEF NoChanges
  <2>2. CASE e.action = "created"
    <3>1. i = Len(log[t]) + 1
      BY <1>1, <1>3, <2>2
    <3>2. QED BY <1>1, <1>3, <2>1, <2>2, <3>1
  <2>3. CASE e.action = "updated"
    <3> HIDE DEF c, d
    <3>1. c \in Row /\ c # NoRow /\ e.changes = DiffTaskChanges(c, d)
      BY <1>1, <2>3, NoRowAssumption
    <3>2. CASE i = Len(log[t]) + 1
      BY <1>3, <3>1, <3>2 DEF DiffTaskChanges
    <3>3. CASE i # Len(log[t]) + 1
      <4>1. i \in DOMAIN log[t] /\ Len(log[t]) + 1 \in (i + 1)..Len(log'[t])
        BY <1>3, <3>3
      <4>2. f \notin DOMAIN e.changes
        BY <1>3, <4>1
      <4>3. c[f] = d[f]
        BY <3>1, <4>2 DEF DiffTaskChanges
      <4>4. \A j \in (i + 1)..Len(log[t]) : f \notin DOMAIN log[t][j].changes
        BY <1>3, <4>1
      <4>5. c[f] = log[t][i].changes[f].to
        BY <1>3, <3>1, <4>1, <4>4 DEF Explained, Columns, c
      <4>6. QED BY <1>3, <4>1, <4>3, <4>5
    <3>4. QED BY <3>2, <3>3
  <2>4. CASE e.action = "deleted"
    BY <1>1, <2>4
  <2>5. QED BY <1>1, <2>2, <2>3, <2>4
<1>6. QED BY <1>4, <1>5

LEMMA ExplainedStep ==
    ASSUME SerialInv, Explained, HistoryStep
    PROVE  Explained'
<1>1. \A t \in Task : Stays(t) \/ Loses(t) \/ Records(t)
    BY DEF HistoryStep
<1>2. \A t \in Task : Fate(t)' /\ Columns(t)'
    BY <1>1, StaysExplained, LosesExplained, RecordsExplained
<1>3. QED BY <1>2 DEF Explained

LEMMA SerialInvariant ==
    ASSUME OneWriterPerTask
    PROVE  Spec => [](SerialInv /\ Explained)
<1>1. Init => SerialInv /\ Explained
    BY SerialInitInv
<1>2. SerialInv /\ Explained /\ [Next]_vars => (SerialInv /\ Explained)'
    BY SerialStep, ExplainedStep
<1>3. QED BY <1>1, <1>2, PTL DEF Spec

-----------------------------------------------------------------------------
(* While no entry about a task is due, its history has what the table has. *)
LEMMA NoneDue ==
    ASSUME SerialInv, NEW t \in Task, \A r \in Request : ~EntryDue(r, t)
    PROVE  Complete(t) /\ Current(t) = db[t]
<1>1. Complete(t)
    BY DEF Complete, EntryDue
<1>2. \A r \in Request : ~(req[r].pc = "audit" /\ req[r].task = t)
    BY DEF SerialInv, TasksInv, Ordered, EntryDue
<1>3. QED BY <1>1, <1>2, CurrentFacts DEF CurrentKnown

(* The end of the history of a task tells whether it exists, whatever      *)
(* calls fail and wherever the process dies, as long as no two mutations   *)
(* of one task overlap (createLog after save and remove).                  *)
THEOREM HistoryTellsFate == OneWriterPerTask => (Spec => []FateExplained)
<1> SUFFICES ASSUME OneWriterPerTask PROVE Spec => []FateExplained
    OBVIOUS
<1>1. SerialInv /\ Explained => FateExplained
    BY NoneDue DEF Explained, Fate, FateExplained
<1>2. QED BY <1>1, SerialInvariant, PTL

(* Every column holds what its last recorded change gave it, under the     *)
(* same assumption (update: diffTaskChanges of the row as it was loaded    *)
(* and the entity that was saved).                                         *)
THEOREM HistoryTellsColumns == OneWriterPerTask => (Spec => []ColumnsExplained)
<1> SUFFICES ASSUME OneWriterPerTask PROVE Spec => []ColumnsExplained
    OBVIOUS
<1>1. SerialInv /\ Explained => ColumnsExplained
    BY NoneDue DEF Explained, Columns, ColumnsExplained
<1>2. QED BY <1>1, SerialInvariant, PTL

-----------------------------------------------------------------------------
(* While nothing failed, the last event about a task tells what the table  *)
(* holds, or a change of the task is still to be told.                     *)
Tells(t) ==
    LET told == {i \in DOMAIN out[t] : out[t][i].action # "comment"} IN
    \A i \in told : (\A j \in told : j <= i) =>
        IF out[t][i].action = "deleted" THEN db[t] = NoRow ELSE db[t] = out[t][i].row

Owed(t) ==
    \E r \in Request :
        req[r].task = t /\ req[r].op \in Mutation /\ req[r].pc \in {"audit", "emitDirect"}

EventsInv == faults = 0 => \A t \in Task : Owed(t) \/ Tells(t)

(* No event is emitted, and what a handler owed it still owes.             *)
LEMMA QuietTells ==
    ASSUME EventsInv, UNCHANGED out, faults' = 0 => faults = 0,
           \A t \in Task : Owed(t) => Owed(t)',
           \A t \in Task : db'[t] = db[t] \/ Owed(t)'
    PROVE  EventsInv'
<1> SUFFICES ASSUME faults' = 0, NEW t \in Task PROVE Owed(t)' \/ Tells(t)'
    BY DEF EventsInv
<1>1. Owed(t)' \/ (Tells(t) /\ db'[t] = db[t])
    BY DEF EventsInv
<1>2. Tells(t) /\ db'[t] = db[t] => Tells(t)'
    BY DEF Tells
<1>3. QED BY <1>1, <1>2

(* The handler r emits: an event about a comment, or what the table holds. *)
LEMMA EmitTells ==
    ASSUME SerialInv, SerialInv', EventsInv, NEW r \in Request,
           EmitDirect(r) \/ EmitForward(r)
    PROVE  EventsInv'
<1> SUFFICES ASSUME faults' = 0, NEW u \in Task PROVE Owed(u)' \/ Tells(u)'
    BY DEF EventsInv
<1>1. PICK t \in Task : t = req[r].task
    BY UnderWay DEF EmitDirect, EmitForward, Running
<1>2. PICK path \in {"direct", "forward"}, next \in {"emitForward", "done"} : Emit(r, path, next)
    BY DEF EmitDirect, EmitForward
<1>3. PICK ev \in Event :
        ev = [path |-> path, action |-> req[r].op, by |-> r, row |-> req[r].work]
  <2>1. req[r] \in Handler /\ req[r].work \in Row
    BY UnderWay DEF EmitDirect, EmitForward, Running
  <2>2. QED BY <2>1 DEF Event, Handler
<1>4. ev.action = req[r].op /\ ev.row = req[r].work
    BY <1>3
<1>5. faults = 0 /\ UNCHANGED db /\ out' = [out EXCEPT ![t] = Append(out[t], ev)]
    BY <1>1, <1>2, <1>3 DEF Emit, Fault, SerialInv, TasksInv, TypeOK
<1>6. out \in [Task -> Seq(Event)]
    BY DEF SerialInv, TasksInv, TypeOK
<1>7. \A q \in Request : q # r => req'[q] = req[q]
    BY <1>2 DEF Emit, Goto, SerialInv, TasksInv, TypeOK
<1>8. req[r].op = "comment" \/ req[r].op \in Mutation
    BY DEF EmitDirect, EmitForward, SerialInv, TasksInv, Ordered
<1>9. Owed(u) /\ ~(u = t /\ req[r].op \in Mutation) => Owed(u)'
    BY <1>1, <1>7 DEF Owed, Mutation
<1>10. CASE u # t
  <2>1. out'[u] = out[u] /\ db'[u] = db[u]
    BY <1>5, <1>6, <1>10
  <2>2. Tells(u) => Tells(u)'
    BY <2>1 DEF Tells
  <2>3. QED BY <1>5, <1>9, <1>10, <2>2 DEF EventsInv
<1>11. CASE u = t
  <2> DEFINE n == Len(out[t])
             told == {i \in DOMAIN out[t] : out[t][i].action # "comment"}
  <2>1. /\ n \in Nat /\ DOMAIN out[t] = 1..n /\ DOMAIN out'[t] = 1..(n + 1)
        /\ out'[t][n + 1] = ev /\ \A i \in 1..n : out'[t][i] = out[t][i]
    BY <1>5, <1>6, Appended
  <2>2. CASE req[r].op = "comment"
    <3>1. {i \in DOMAIN out'[t] : out'[t][i].action # "comment"} = told
      BY <1>4, <2>1, <2>2
    <3>2. Tells(t) => Tells(t)'
      BY <1>5, <2>1, <3>1 DEF Tells
    <3>3. QED BY <1>5, <1>9, <1>11, <2>2, <3>2 DEF EventsInv, Mutation
  <2>3. CASE req[r].op \in Mutation
    <3>1. db[t] = IF req[r].op = "deleted" THEN NoRow ELSE req[r].work
      BY <1>1, <2>3, UnderWay DEF EmitDirect, EmitForward, Running, Alone
    <3>2. ASSUME NEW i \in DOMAIN out'[t], out'[t][i].action # "comment",
                 \A j \in DOMAIN out'[t] : out'[t][j].action # "comment" => j <= i
          PROVE  out'[t][i] = ev
      <4>1. n + 1 <= i
        BY <1>4, <2>1, <2>3, <3>2 DEF Mutation
      <4>2. QED BY <2>1, <4>1
    <3>3. Tells(t)'
      BY <1>4, <1>5, <3>1, <3>2 DEF Tells
    <3>4. QED BY <1>11, <3>3
  <2>4. QED BY <1>8, <2>2, <2>3
<1>12. QED BY <1>10, <1>11

LEMMA EventsStep ==
    ASSUME SerialInv, SerialInv', EventsInv, [Next]_vars
    PROVE  EventsInv'
<1>1. faults \in Nat /\ req \in [Request -> Handler] /\ db \in [Task -> Row \cup {NoRow}]
    BY FaultsAssumption DEF SerialInv, TasksInv, TypeOK
<1>2. ASSUME NEW r \in Request, req[r].pc \notin {"audit", "emitDirect"} \/ req[r].op = "comment",
             UNCHANGED <<db, out, faults>>, \A q \in Request : q # r => req'[q] = req[q]
      PROVE  EventsInv'
  <2>1. \A t \in Task : Owed(t) => Owed(t)'
    BY <1>2 DEF Owed, Mutation
  <2>2. QED BY <1>2, <2>1, QuietTells
<1>3. ASSUME NEW r \in Request, NEW t \in Task,
             \/ \E dto \in Dtos : BeginUpdate(r, t, dto)
             \/ BeginRemove(r, t)
             \/ BeginComment(r, t)
      PROVE  EventsInv'
  <2>1. req[r].pc = "new" /\ \E op, pc, work : Load(r, t, op, pc, work)
    BY <1>3 DEF BeginUpdate, BeginRemove, BeginComment, MayMutate
  <2>2. UNCHANGED <<db, out, faults>> /\ \A q \in Request : q # r => req'[q] = req[q]
    BY <1>1, <2>1 DEF Load
  <2>3. QED BY <1>2, <2>1, <2>2
<1>4. ASSUME NEW r \in Request, SaveSelect(r) \/ InsertComment(r)
      PROVE  EventsInv'
  <2>1. /\ req[r].pc \notin {"audit", "emitDirect"} /\ UNCHANGED <<db, out, faults>>
        /\ \A q \in Request : q # r => req'[q] = req[q]
    BY <1>1, <1>4 DEF SaveSelect, InsertComment, Goto
  <2>2. QED BY <1>2, <2>1
<1>5. ASSUME NEW r \in Request, NEW t \in Task, \E row \in NewRows : Create(r, t, row)
      PROVE  EventsInv'
  <2>1. /\ req[r].pc = "new" /\ UNCHANGED <<out, faults>>
        /\ \A u \in Task \ {t} : db'[u] = db[u]
        /\ \A q \in Request : q # r => req'[q] = req[q]
    BY <1>1, <1>5 DEF Create, MayMutate
  <2>2. req'[r].task = t /\ req'[r].op = "created" /\ req'[r].pc = "audit"
    <3>1. PICK row \in NewRows : Create(r, t, row)
      BY <1>5
    <3>2. req'[r] = [NewRequest EXCEPT !.pc = "audit", !.op = "created", !.task = t,
                                       !.work = row, !.wrote = "yes"]
      BY <1>1, <3>1 DEF Create
    <3>3. QED BY <3>2 DEF NewRequest
  <2>3. Owed(t)' /\ \A u \in Task : Owed(u) => Owed(u)'
    BY <2>1, <2>2 DEF Owed, Mutation
  <2>4. QED BY <2>1, <2>3, QuietTells
<1>6. ASSUME NEW r \in Request, SaveWrite(r) \/ Delete(r) \/ Audit(r)
      PROVE  EventsInv'
  <2>1. PICK t \in Task : t = req[r].task
    BY <1>6, UnderWay DEF SaveWrite, Delete, Audit, Running
  <2>2. req[r] \in Handler /\ req[r].op \in Mutation
    BY <1>6, UnderWay DEF SaveWrite, Delete, Audit, Running, SerialInv, TasksInv, Ordered, Mutation
  <2>3. /\ UNCHANGED <<out, faults>> /\ \A u \in Task \ {t} : db'[u] = db[u]
        /\ \A q \in Request : q # r => req'[q] = req[q]
    BY <1>1, <1>6, <2>1 DEF SaveWrite, Delete, Audit, Goto
  <2>4. CASE req'[r].pc = "failed"
    <3>1. SaveWrite(r) /\ req[r].pc = "write" /\ req[r].seen = NoRow /\ UNCHANGED db
      BY <1>1, <1>6, <2>2, <2>4 DEF SaveWrite, Delete, Audit, Handler
    <3>2. QED BY <1>2, <2>3, <3>1
  <2>5. CASE req'[r].pc # "failed"
    <3>1. /\ req'[r].pc \in {"audit", "emitDirect"} /\ req'[r].task = t
          /\ req'[r].op = req[r].op
      <4>1. CASE SaveWrite(r)
        BY <1>1, <2>1, <2>2, <2>5, <4>1 DEF SaveWrite, Goto, Handler
      <4>2. CASE Delete(r)
        BY <1>1, <2>1, <2>2, <4>2 DEF Delete, Handler
      <4>3. CASE Audit(r)
        BY <1>1, <2>1, <2>2, <4>3 DEF Audit, Handler
      <4>4. QED BY <1>6, <4>1, <4>2, <4>3
    <3>2. Owed(t)' /\ \A u \in Task : Owed(u) => Owed(u)'
      BY <2>2, <2>3, <3>1, <2>1 DEF Owed
    <3>3. QED BY <2>3, <3>2, QuietTells
  <2>6. QED BY <2>4, <2>5
<1>7. ASSUME NEW r \in Request, EmitDirect(r) \/ EmitForward(r)
      PROVE  EventsInv'
    BY <1>7, EmitTells
<1>8. ASSUME Crash \/ \E r \in Request : DatabaseFails(r)
      PROVE  EventsInv'
    BY <1>1, <1>8 DEF Crash, DatabaseFails, Fault, EventsInv
<1>9. CASE UNCHANGED vars
    BY <1>9, QuietTells DEF vars, Owed
<1>10. QED BY <1>3, <1>4, <1>5, <1>6, <1>7, <1>8, <1>9 DEF Next

(* Without failures, clients that applied the last event about a task that *)
(* nobody mutates are up to date, as long as no two mutations of one task  *)
(* overlap (both emits are awaited, after save and createLog).             *)
THEOREM EventsTellTheTable == OneWriterPerTask => (Spec => []LastEventIsCurrent)
<1> SUFFICES ASSUME OneWriterPerTask PROVE Spec => []LastEventIsCurrent
    OBVIOUS
<1>1. Init => EventsInv
  <2>1. Init => \A t \in Task : out[t] = <<>>
    BY DEF Init
  <2>2. \A t \in Task : out[t] = <<>> => Tells(t)
    BY DEF Tells
  <2>3. QED BY <2>1, <2>2 DEF EventsInv
<1>2. SerialInv /\ SerialInv' /\ EventsInv /\ [Next]_vars => EventsInv'
    BY EventsStep
<1>3. SerialInv /\ EventsInv => LastEventIsCurrent
  <2> SUFFICES ASSUME SerialInv, EventsInv, faults = 0, NEW t \in Task,
                      \A r \in Request : ~Mutating(r, t)
               PROVE  Tells(t)
    BY DEF LastEventIsCurrent, Tells
  <2>1. ~Owed(t)
    BY DEF Owed, Mutating, InFlight, Running, Mutation
  <2>2. QED BY <2>1 DEF EventsInv
<1>4. QED BY <1>1, <1>2, <1>3, SerialInvariant, PTL DEF Spec

-----------------------------------------------------------------------------
(* The refinement: the history as TaskHistory has it.                      *)
TaskRows == [t \in Task |-> Current(t)]

ToldOf(l) == [i \in DOMAIN l |-> [action |-> l[i].action, changes |-> l[i].changes]]

Histories == [t \in Task |-> ToldOf(log[t])]

Completes == [t \in Task |-> Complete(t)]

LEMMA PromiseInit ==
    ASSUME TaskRows = [t \in Task |-> NoRow], Histories = [t \in Task |-> <<>>],
           Completes = [t \in Task |-> TRUE]
    PROVE  Promise!Init
    BY DEF Promise!Init, TaskRows, Histories, Completes, ToldOf, Current, Complete

LEMMA PromiseRecord ==
    ASSUME NEW t \in Task, NEW d \in Row \cup {NoRow}, NEW a, NEW c,
           TaskRows' = [TaskRows EXCEPT ![t] = d],
           Histories' = [Histories EXCEPT ![t] = Append(@, [action |-> a, changes |-> c])],
           Completes' = Completes,
           \/ /\ a = "created" /\ c = NoChanges /\ d \in Row
              /\ TaskRows[t] = NoRow /\ Histories[t] = <<>>
           \/ /\ a = "updated" /\ c = DiffTaskChanges(TaskRows[t], d) /\ d \in Row
              /\ TaskRows[t] # NoRow
           \/ /\ a = "deleted" /\ c = NoChanges /\ d = NoRow
              /\ TaskRows[t] # NoRow
    PROVE  Promise!Next
<1>1. CASE a = "created"
  <2>1. Promise!Create(t, d)
    BY <1>1 DEF Promise!Create, Promise!Record, Promise!NoChanges, NoChanges,
           TaskRows, Histories, Completes, ToldOf, Current, Complete
  <2>2. QED BY <1>1, <2>1 DEF Promise!Next, Promise!Row, Row
<1>2. CASE a = "updated"
  <2>1. Promise!Update(t, d)
    BY <1>2 DEF Promise!Update, Promise!Record, Promise!Diff, DiffTaskChanges,
           TaskRows, Histories, Completes, ToldOf, Current, Complete
  <2>2. QED BY <1>2, <2>1 DEF Promise!Next, Promise!Row, Row
<1>3. CASE a = "deleted"
  <2>1. Promise!Delete(t)
    BY <1>3 DEF Promise!Delete, Promise!Record, Promise!NoChanges, NoChanges,
           TaskRows, Histories, Completes, ToldOf, Current, Complete
  <2>2. QED BY <2>1 DEF Promise!Next
<1>4. QED BY <1>1, <1>2, <1>3

LEMMA PromiseUnrecorded ==
    ASSUME NEW lost \in SUBSET Task, NEW new \in [lost -> Row \cup {NoRow}],
           TaskRows' = [t \in Task |-> IF t \in lost THEN new[t] ELSE TaskRows[t]],
           Completes' = [t \in Task |-> Completes[t] /\ t \notin lost],
           Histories' = Histories
    PROVE  Promise!Next
<1>1. Promise!Unrecorded(lost, new)
    BY DEF Promise!Unrecorded, TaskRows, Histories, Completes, ToldOf, Current, Complete
<1>2. QED BY <1>1 DEF Promise!Next, Promise!Row, Row

LEMMA ToldEmpty == ToldOf(<<>>) = <<>>
    BY DEF ToldOf

LEMMA ToldAppend ==
    ASSUME NEW l \in Seq(Entry), NEW e \in Entry
    PROVE  ToldOf(Append(l, e)) = Append(ToldOf(l), [action |-> e.action, changes |-> e.changes])
<1> DEFINE S == [action : {"created", "updated", "deleted"}, changes : Changes]
           x == [action |-> e.action, changes |-> e.changes]
<1>1. \A k \in Seq(Entry) : ToldOf(k) \in Seq(S) /\ Len(ToldOf(k)) = Len(k)
  <2> SUFFICES ASSUME NEW k \in Seq(Entry)
               PROVE  ToldOf(k) \in Seq(S) /\ Len(ToldOf(k)) = Len(k)
    OBVIOUS
  <2>1. Len(k) \in Nat /\ DOMAIN k = 1..Len(k) /\ \A i \in 1..Len(k) : k[i] \in Entry
    OBVIOUS
  <2>2. \A i \in 1..Len(k) : [action |-> k[i].action, changes |-> k[i].changes] \in S
    BY <2>1 DEF Entry
  <2> HIDE DEF S
  <2>3. ToldOf(k) \in [1..Len(k) -> S]
    BY <2>1, <2>2 DEF ToldOf
  <2>4. QED BY <2>1, <2>3
<1>2. x \in S
    BY DEF Entry
<1>3. /\ Append(l, e) \in Seq(Entry) /\ Len(Append(l, e)) = Len(l) + 1
      /\ Append(l, e)[Len(l) + 1] = e /\ Len(l) \in Nat
      /\ \A i \in 1..Len(l) : Append(l, e)[i] = l[i]
    BY AppendProperties
<1>4. /\ Append(ToldOf(l), x) \in Seq(S) /\ Len(Append(ToldOf(l), x)) = Len(l) + 1
      /\ Append(ToldOf(l), x)[Len(l) + 1] = x
      /\ \A i \in 1..Len(l) : Append(ToldOf(l), x)[i] = ToldOf(l)[i]
  <2> HIDE DEF S, x
  <2>1. ToldOf(l) \in Seq(S) /\ Len(ToldOf(l)) = Len(l)
    BY <1>1
  <2>2. QED BY <1>2, <2>1, AppendProperties
<1>5. \A i \in 1..(Len(l) + 1) : ToldOf(Append(l, e))[i] = Append(ToldOf(l), x)[i]
  <2> SUFFICES ASSUME NEW i \in 1..(Len(l) + 1)
               PROVE  ToldOf(Append(l, e))[i] = Append(ToldOf(l), x)[i]
    OBVIOUS
  <2>1. ToldOf(Append(l, e))[i] =
            [action |-> Append(l, e)[i].action, changes |-> Append(l, e)[i].changes]
    BY <1>3 DEF ToldOf
  <2>2. CASE i = Len(l) + 1
    BY <1>3, <1>4, <2>1, <2>2
  <2>3. CASE i # Len(l) + 1
    <3>1. i \in 1..Len(l)
      BY <1>3, <2>3
    <3>2. ToldOf(l)[i] = [action |-> l[i].action, changes |-> l[i].changes]
      BY <3>1 DEF ToldOf
    <3>3. QED BY <1>3, <1>4, <2>1, <3>1, <3>2
  <2>4. QED BY <2>2, <2>3
<1>6. ToldOf(Append(l, e)) \in Seq(S) /\ Len(ToldOf(Append(l, e))) = Len(l) + 1
    BY <1>1, <1>3
<1> HIDE DEF S, x
<1>7. QED BY <1>4, <1>5, <1>6, SeqEqual DEF x

LEMMA PromiseStep ==
    ASSUME SerialInv, SerialInv', HistoryStep
    PROVE  Promise!Next
<1>1. \A t \in Task : Current(t) \in Row \cup {NoRow} /\ Current(t)' \in Row \cup {NoRow}
    BY CurrentFacts, CurrentFactsNext DEF CurrentKnown
<1>2. \A t \in Task : Complete(t) \in BOOLEAN /\ Complete(t)' \in BOOLEAN
    BY DEF Complete
<1>3. /\ TaskRows' = [t \in Task |-> Current(t)'] /\ Histories' = [t \in Task |-> ToldOf(log'[t])]
      /\ Completes' = [t \in Task |-> Complete(t)']
    BY DEF TaskRows, Histories, Completes, ToldOf
<1>4. ASSUME NEW t \in Task, Records(t), \A u \in Task \ {t} : Stays(u)
      PROVE  Promise!Next
  <2>1. PICK d \in Row \cup {NoRow} : d = Current(t)'
    BY <1>1
  <2>2. PICK e \in Entry :
          /\ log'[t] = Append(log[t], e)
          /\ Complete(t)' <=> Complete(t)
          /\ \/ /\ e.action = "created" /\ e.changes = NoChanges
                /\ Current(t) = NoRow /\ log[t] = <<>> /\ d \in Row
             \/ /\ e.action = "updated" /\ Current(t) \in Row /\ d \in Row
                /\ e.changes = DiffTaskChanges(Current(t), d)
             \/ /\ e.action = "deleted" /\ e.changes = NoChanges
                /\ Current(t) \in Row /\ d = NoRow
    BY <1>4, <2>1 DEF Records
  <2>3. TaskRows' = [TaskRows EXCEPT ![t] = d]
    BY <1>3, <1>4, <2>1 DEF TaskRows, Stays
  <2>4. Completes' = Completes
    BY <1>2, <1>3, <1>4, <2>2 DEF Completes, Stays
  <2>5. Histories' = [Histories EXCEPT ![t] =
            Append(@, [action |-> e.action, changes |-> e.changes])]
    <3>1. log[t] \in Seq(Entry)
      BY DEF SerialInv, TasksInv, TypeOK
    <3>2. ToldOf(log'[t]) =
              Append(ToldOf(log[t]), [action |-> e.action, changes |-> e.changes])
      BY <2>2, <3>1, ToldAppend
    <3>3. \A u \in Task \ {t} : ToldOf(log'[u]) = ToldOf(log[u])
      BY <1>4 DEF Stays
    <3>4. QED BY <1>3, <3>2, <3>3 DEF Histories
  <2>6. TaskRows[t] = Current(t) /\ (log[t] = <<>> => Histories[t] = <<>>)
    BY DEF TaskRows, Histories, ToldOf
  <2>7. QED BY <2>2, <2>3, <2>4, <2>5, <2>6, NoRowAssumption, PromiseRecord
<1>5. ASSUME \A t \in Task : Stays(t) \/ Loses(t)
      PROVE  Promise!Next
  <2>1. PICK lost \in SUBSET Task : lost = {t \in Task : ~Stays(t)}
    OBVIOUS
  <2>2. PICK new \in [lost -> Row \cup {NoRow}] : new = [t \in lost |-> Current(t)']
    BY <1>1
  <2>3. TaskRows' = [t \in Task |-> IF t \in lost THEN new[t] ELSE TaskRows[t]]
    BY <1>3, <2>1, <2>2 DEF TaskRows, Stays
  <2>4. \A t \in Task : Complete(t)' = (Complete(t) /\ t \notin lost)
    BY <1>2, <1>5, <2>1 DEF Stays, Loses
  <2>5. Completes' = [t \in Task |-> Completes[t] /\ t \notin lost]
    BY <1>3, <2>4 DEF Completes
  <2>6. \A t \in Task : ToldOf(log'[t]) = ToldOf(log[t])
    BY <1>5 DEF Stays, Loses
  <2>7. Histories' = Histories
    BY <1>3, <2>6 DEF Histories
  <2>8. QED BY <2>3, <2>5, <2>7, PromiseUnrecorded
<1>6. QED BY <1>4, <1>5 DEF HistoryStep

(* As long as no two mutations of one task overlap, the service implements *)
(* TaskHistory: each mutation takes effect with its entry, or leaves the   *)
(* history marked as incomplete (createLog after save and remove).         *)
THEOREM ServiceKeepsHistory == OneWriterPerTask => (Spec => KeepsHistory)
<1> SUFFICES ASSUME OneWriterPerTask PROVE Spec => KeepsHistory
    OBVIOUS
<1>1. Init => Promise!Init
  <2> SUFFICES ASSUME Init PROVE Promise!Init
    OBVIOUS
  <2>1. SerialInv /\ \A r \in Request : req[r].pc = "new"
    BY SerialInitInv, NewRequestFacts DEF Init, NewRequest
  <2>2. \A t \in Task : Current(t) = NoRow /\ Complete(t) = TRUE
    BY <2>1, CurrentFacts DEF Init, CurrentKnown, Complete
  <2>3. \A t \in Task : ToldOf(log[t]) = <<>>
    BY ToldEmpty DEF Init
  <2>4. QED BY <2>2, <2>3, PromiseInit DEF TaskRows, Histories, Completes
<1>2. SerialInv /\ Explained /\ [Next]_vars => Promise!Next
    BY SerialStep, PromiseStep
<1>3. QED BY <1>1, <1>2, SerialInvariant, PTL DEF Spec, KeepsHistory, Promise!Spec
=============================================================================

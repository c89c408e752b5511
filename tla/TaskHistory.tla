----------------------------- MODULE TaskHistory -----------------------------
(***************************************************************************)
(* What the audit log of tasks-service promises: a task and its history    *)
(* change together, each change of the task being one entry that tells     *)
(* exactly which columns went from which value to which.  A mutation that  *)
(* failed half way may go unrecorded; the history of its task is then      *)
(* marked as incomplete.                                                   *)
(***************************************************************************)
EXTENDS Naturals, Sequences

CONSTANTS
    Task,     \* task ids
    Field,    \* the audited columns of a task
    Value,    \* their values
    NoRow     \* the row of a task that does not exist, none of Row

Row == [Field -> Value]

VARIABLES
    row,        \* row[t]: the task, or NoRow
    history,    \* history[t]: the entries about t, oldest first
    complete    \* complete[t]: no change of t went unrecorded

historyVars == <<row, history, complete>>

Change == [from : Value, to : Value]

Changes == UNION {[F -> Change] : F \in SUBSET Field}

Entry == [action : {"created", "updated", "deleted"}, changes : Changes]

NoChanges == [f \in {} |-> f]

(* The columns whose value differs, with both values.                      *)
Diff(before, after) ==
    [f \in {g \in Field : before[g] # after[g]} |-> [from |-> before[f], to |-> after[f]]]

Init ==
    /\ row = [t \in Task |-> NoRow]
    /\ history = [t \in Task |-> <<>>]
    /\ complete = [t \in Task |-> TRUE]

Record(t, action, changes) ==
    /\ history' = [history EXCEPT ![t] = Append(@, [action |-> action, changes |-> changes])]
    /\ UNCHANGED complete

Create(t, new) ==
    /\ row[t] = NoRow
    /\ complete[t] => history[t] = <<>>
    /\ row' = [row EXCEPT ![t] = new]
    /\ Record(t, "created", NoChanges)

Update(t, new) ==
    /\ row[t] # NoRow
    /\ row' = [row EXCEPT ![t] = new]
    /\ Record(t, "updated", Diff(row[t], new))

Delete(t) ==
    /\ row[t] # NoRow
    /\ row' = [row EXCEPT ![t] = NoRow]
    /\ Record(t, "deleted", NoChanges)

(* Mutations fail between their writes and their entries: one, or all that *)
(* are in progress when the process dies.                                  *)
Unrecorded(lost, new) ==
    /\ row' = [t \in Task |-> IF t \in lost THEN new[t] ELSE row[t]]
    /\ complete' = [t \in Task |-> complete[t] /\ t \notin lost]
    /\ UNCHANGED history

Next ==
    \/ \E t \in Task :
          \/ \E new \in Row : Create(t, new) \/ Update(t, new)
          \/ Delete(t)
    \/ \E lost \in SUBSET Task : \E new \in [lost -> Row \cup {NoRow}] :
          Unrecorded(lost, new)

Spec == Init /\ [][Next]_historyVars
=============================================================================

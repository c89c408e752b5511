--------------------------- MODULE MCTasksService ---------------------------
(***************************************************************************)
(* Instances of TasksService for TLC.                                      *)
(***************************************************************************)
EXTENDS TasksService, TLC

CONSTANTS t1, t2, r1, r2, r3, r4

MCOneTask == {t1}
MCTwoTasks == {t1, t2}
MCThreeRequests == {r1, r2, r3}
MCFourRequests == {r1, r2, r3, r4}

(* One scalar column and the list of assignees, two values each.           *)
MCField == {"title", "assignees"}
MCValue == {"x", "y"}

MCNewRows == {[f \in MCField |-> "x"]}

(* Changing one column, the other, both, or nothing.                       *)
MCDtos ==
    {[title |-> "y"], [assignees |-> "y"], [title |-> "y", assignees |-> "y"],
     [title |-> "x"]}

SymmetryOne == Permutations(MCThreeRequests)
Symmetry == Permutations(MCFourRequests) \cup Permutations(MCTwoTasks)
=============================================================================

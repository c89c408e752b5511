--------------------------- MODULE MCEventPipeline ---------------------------
(***************************************************************************)
(* Instances of EventPipeline for TLC.                                     *)
(***************************************************************************)
EXTENDS EventPipeline, TLC

CONSTANTS e1, e2, u1, u2, s1, s2

MCEvent == {e1, e2}
MCOneEvent == {e1}
MCUser == {u1, u2}
MCSlot == {s1, s2}

(* A task with two assignees changed by one of them and by nobody, one     *)
(* without assignees (nobody to notify), a comment by an outsider.         *)
MCPayloads ==
    {TaskPayload("updated", {u1, u2}, u1),
     TaskPayload("created", {u1, u2}, NoUser),
     TaskPayload("deleted", {}, u1),
     CommentPayload(u1, {u2})}

Symmetry == Permutations(MCSlot) \cup Permutations(MCEvent)
=============================================================================

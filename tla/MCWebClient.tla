----------------------------- MODULE MCWebClient -----------------------------
(***************************************************************************)
(* An instance of WebClient for TLC.  Days 3 to 5 begin at the hours 72 to *)
(* 120 in UTC; six of the zones change their offset on day 4: two cross    *)
(* that of UTC, two change at a midnight of their own.                     *)
(***************************************************************************)
EXTENDS WebClient

CONSTANTS t1, t2

MCTask == {t1, t2}

MCFirstPage == {[page |-> 1, size |-> 1]}

MCDay == 3..5

Offset(before, after, change) == [before |-> before, after |-> after, change |-> change]

MCZone ==
    {Offset(0, 0, 0), Offset(-3, -3, 0), Offset(-2, -3, 98), Offset(-3, -2, 99),
     Offset(0, 1, 97), Offset(1, 0, 98), Offset(1, 2, 97),
     Offset(2, 1, 119), Offset(9, 9, 0), Offset(14, 14, 0), Offset(-10, -10, 0)}

MCTaskView ==
    {[filter |-> "ALL", size |-> 1], [filter |-> "ALL", size |-> 2],
     [filter |-> "DONE", size |-> 1]}

(* The opened task starts on the list: an edit may take it away and back.  *)
MCInit == Init /\ (scene = "tasks" => matching = {Opened})
=============================================================================

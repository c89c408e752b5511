----------------------------- MODULE QueryCache -----------------------------
(***************************************************************************)
(* One entry of the cache of @tanstack/react-query, which every page of    *)
(* apps/web reads through.  The client is built without options            *)
(* (root-provider.tsx), so an answer is stale at once: every mount fetches *)
(* and only a fetch under way is shared.                                   *)
(***************************************************************************)
CONSTANT NoData     \* nothing was loaded

(* fetch: a request was sent, or the server has answered it with got.      *)
Entry(Data) ==
    [data : Data \cup {NoData}, failed : BOOLEAN,
     fetch : {"idle", "asked", "read"}, got : Data \cup {NoData}]

Unloaded == [data |-> NoData, failed |-> FALSE, fetch |-> "idle", got |-> NoData]

Fetching(e) == e.fetch # "idle"

Loaded(e) == e.data # NoData /\ ~e.failed

(* A new request.  The error of an entry that never loaded is forgotten.   *)
Requested(e) ==
    [e EXCEPT !.fetch = "asked", !.got = NoData, !.failed = @ /\ e.data # NoData]

(* A mount, a new key or the focus of the window joins the fetch under way. *)
Fetch(e) == IF Fetching(e) THEN e ELSE Requested(e)

(* invalidateQueries on a mounted query, and refetch: the fetch under way  *)
(* is given up for a new one, unless there is nothing loaded yet.          *)
Refetch(e) == IF Fetching(e) /\ e.data = NoData THEN e ELSE Requested(e)

Served(e, answer) == [e EXCEPT !.fetch = "read", !.got = answer]

Settled(e) == [Unloaded EXCEPT !.data = e.got]

(* After its retries a fetch fails; what was loaded stays.                 *)
Failed(e) == [e EXCEPT !.failed = TRUE, !.fetch = "idle", !.got = NoData]

(* setQueryData leaves a fetch under way alone.                            *)
Written(e, value) == [e EXCEPT !.data = value, !.failed = FALSE]
=============================================================================

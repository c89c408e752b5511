---------------------------- MODULE MCRequestPath ----------------------------
(***************************************************************************)
(* An instance of RequestPath for TLC: every route with its well-formed    *)
(* input, and every input that differs from it in one field, in the id of  *)
(* the path, in the caller's name or in the request id of its header.      *)
(***************************************************************************)
EXTENDS RequestPath, TLC

MCSlot == {"r1", "r2"}
MCSize == {1, 2}
MCColumn == {"TODO", "DONE"}
MCFilter == {"TODO"}

Usual(route) ==
    CASE route = "create" ->
             [title |-> "ok", status |-> "ok", priority |-> "ok", assignees |-> "ok"]
      [] route = "createComment" -> [message |-> "ok"]
      [] OTHER -> Nothing

Someone == [name |-> "ok", email |-> "ok"]

Ask_(route, fields) ==
    [route |-> route, id |-> "ok", fields |-> fields, user |-> Someone, header |-> NoId]

MCPlain ==
    {[Ask_(route, Usual(route)) EXCEPT !.header = "client"] : route \in Routes \ {"update"}}
        \cup {Ask_("update", [title |-> "ok"])}

MCProbe ==
    {i \in MCPlain : i.route \in {"createComment", "findNotifications", "findUser"}}

Classes == {"ok", "null", "blank", "long", "partial", "bad"}

\* The query string has no null.
Changes(route) ==
    LET classes == IF route \in {"create", "update", "createComment"} THEN Classes
                   ELSE Classes \ {"null"}
    IN  UNION {{(name :> class) @@ Usual(route) : class \in classes} :
                   name \in DOMAIN InputDto[route] \cup {"other"}}

MCOdd ==
    UNION {{Ask_(route, fields) : fields \in Changes(route)} : route \in Routes}
    \cup {[Ask_("update", (name :> "null") @@ [title |-> "ok"]) EXCEPT !.header = "blank"] :
              name \in DOMAIN UpdateTaskDto}
    \cup {[Ask_(route, Usual(route)) EXCEPT !.id = id] :
              route \in OnOne, id \in {"unknown", "bad"}}
    \cup {[Ask_(route, Usual(route)) EXCEPT !.user.name = name] :
              route \in {"create", "remove", "createComment"}, name \in {"blank", "long"}}
    \cup {[Ask_("update", [status |-> "ok"]) EXCEPT !.user.name = "long"]}

MCTogether ==
    {{"auth", "gateway"}, {"tasks", "gateway"}, {"notifications", "gateway"}}

\* In the defaults, and with useless, small and contradictory settings.
NoEnvironment == [setting \in Setting |-> Unset]
Small ==
    [initialDelay |-> 3, maxDelay |-> 2, maxAttempts |-> 2, retryDelay |-> 2,
     retryMaxDelay |-> NotANumber]
MCEnvironments ==
    {[prefix \in Prefix |-> IF prefix = "" THEN Small ELSE NoEnvironment],
     [prefix \in Prefix |-> IF prefix = "" THEN [Small EXCEPT !.maxAttempts = 1,
                                                              !.retryMaxDelay = 3]
                            ELSE [NoEnvironment EXCEPT !.maxAttempts = 4,
                                                       !.initialDelay = 0]]}
=============================================================================

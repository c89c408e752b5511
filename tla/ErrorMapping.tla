---------------------------- MODULE ErrorMapping ----------------------------
(***************************************************************************)
(* How an error raised in a service becomes the HTTP answer of the         *)
(* gateway: the conversion at the service (rpc.utils), what the transport  *)
(* delivers, the conversion in each of the gateway's three proxies, and    *)
(* the exception filter.  Pure operators; RequestPath applies them.        *)
(*                                                                         *)
(* A status is its number; a numeric string counts as the number it        *)
(* spells.  A message is its own text, a list of texts, a list of objects  *)
(* (class-validator errors), or the text every fallback uses.              *)
(***************************************************************************)
EXTENDS Integers

Missing == -1
Word == -2          \* a string that spells no number, such as 'error'

Messages == {"own", "list", "objects", "blank", "none", "fallback"}

Body == [statusCode : Int, status : Int, message : Messages, error : Messages,
         code : BOOLEAN]

EmptyBody == [statusCode |-> Missing, status |-> Missing, message |-> "none",
              error |-> "none", code |-> FALSE]

(***************************************************************************)
(* What code throws: a Nest HttpException, an RpcException around an       *)
(* object, or any other Error.                                             *)
(***************************************************************************)
Thrown(type, status, body) == [type |-> type, status |-> status, body |-> body]

HttpException(status, message) ==
    Thrown("http", status,
           [EmptyBody EXCEPT !.statusCode = status, !.message = message, !.error = "own"])

JsError == Thrown("error", Missing, [EmptyBody EXCEPT !.message = "own"])

\* validationExceptionFactory: one text, the fields in a list beside it.
ValidationException ==
    Thrown("http", 400, [EmptyBody EXCEPT !.statusCode = 400, !.message = "own"])

\* transformPayload throws BadRequestException(errors): the errors ARE the message.
PayloadException == HttpException(400, "objects")

-----------------------------------------------------------------------------
(* The service's side.                                                     *)

\* The payload is spread after the computed statusCode: its own one wins.
WithStatus(b, status) ==
    IF b.statusCode = Missing THEN [b EXCEPT !.statusCode = status] ELSE b

\* Mutant: the status is not put into the payload.
TasksToRpcBare(e) ==
    CASE e.type = "rpc" -> e
      [] e.type = "http" -> Thrown("rpc", Missing, [e.body EXCEPT !.statusCode = Missing])
      [] e.type = "error" -> Thrown("rpc", Missing, [EmptyBody EXCEPT !.message = "own"])

TasksToRpc(e) ==
    CASE e.type = "rpc" -> e
      [] e.type = "http" -> Thrown("rpc", Missing, WithStatus(e.body, e.status))
      [] e.type = "error" -> Thrown("rpc", Missing, [EmptyBody EXCEPT !.message = "own"])

NotificationsToRpc(e) ==
    CASE e.type = "rpc" -> e
      [] e.type = "http" -> Thrown("rpc", Missing, WithStatus(e.body, e.status))
      [] e.type = "error" -> Thrown("rpc", Missing, [EmptyBody EXCEPT !.message = "own"])

\* auth-service converts nothing outside AuthService.
AuthToRpc(e) == e

\* What the transport sends for a rejected handler: an RpcException's object,
\* and one fixed object for everything else.
OnTheWire(e) ==
    IF e.type = "rpc" THEN e.body
    ELSE [EmptyBody EXCEPT !.status = Word, !.message = "fallback"]

-----------------------------------------------------------------------------
(* The gateway's proxies.                                                  *)

FirstOf(a, b, none) == IF a # none THEN a ELSE b

HttpStatuses == (200 .. 206) \cup (400 .. 418) \cup {421, 422, 424, 428, 429}
                    \cup (500 .. 505)

\* Mutant: whatever is there is the status.
ExtractStatusCodeRaw(raw) == raw

ExtractStatusCode(raw) == IF raw >= 0 THEN raw ELSE 500

ExtractMessage(raw) ==
    CASE raw \in {"own", "fallback"} -> raw
      [] raw = "list" -> "own"
      [] OTHER -> "fallback"       \* an object in a list yields the fallback too

NormalizeBody(b) ==
    [b EXCEPT !.statusCode = ExtractStatusCode(FirstOf(b.statusCode, b.status, Missing)),
              !.message = ExtractMessage(FirstOf(b.message, b.error, "none"))]

LooksLikeError(b) == b # EmptyBody

\* An HttpException of the gateway: its status, its body, the code of its cause.
Exception(status, body, causeCode) ==
    [status |-> status, body |-> body, causeCode |-> causeCode]

Unexpected(message) ==
    Exception(500, [EmptyBody EXCEPT !.statusCode = 500, !.message = message], FALSE)

\* Around an RpcException: of an object, of an HttpException, of an Error or text.
\* (The transport delivers bare objects, "wire"; the proxies accept both.)
AuthRpcError(e) ==
    CASE e.type = "rpc" -> LET b == NormalizeBody(e.body)
                           IN  Exception(b.statusCode, b, e.body.code)
      [] e.type = "rpcHttp" ->
             Exception(e.status, NormalizeBody(WithStatus(e.body, e.status)), FALSE)
      [] e.type = "rpcError" -> Unexpected(ExtractMessage(e.body.message))

TasksRpcError(e) ==
    CASE e.type = "rpc" -> LET b == NormalizeBody(e.body)
                           IN  Exception(b.statusCode, b, e.body.code)
      [] e.type = "rpcHttp" ->
             Exception(e.status, NormalizeBody(WithStatus(e.body, e.status)), FALSE)
      [] e.type = "rpcError" -> Unexpected(ExtractMessage(e.body.message))

\* This proxy passes bodies on as they came and accepts only known statuses.
KnownStatus(raw) == IF raw \in HttpStatuses THEN raw ELSE 500

NotificationsRpcError(e) ==
    CASE e.type = "rpc" -> Exception(KnownStatus(e.body.statusCode), e.body, FALSE)
      [] e.type = "rpcHttp" -> Exception(e.status, e.body, FALSE)
      [] e.type = "rpcError" -> Unexpected(e.body.message)

IsRpc(e) == e.type \in {"rpc", "rpcHttp", "rpcError"}
IsErrorObject(e) == e.type = "wire" /\ LooksLikeError(e.body)

AuthToHttp(e) ==
    CASE IsRpc(e) -> AuthRpcError(e)
      [] IsErrorObject(e) -> LET b == NormalizeBody(e.body)
                             IN  Exception(ExtractStatusCode(b.statusCode), b, e.body.code)
      [] e.type = "http" -> Exception(e.status, e.body, FALSE)
      [] e.type = "error" -> Unexpected("own")
      [] OTHER -> Unexpected("fallback")

TasksToHttp(e) ==
    CASE IsRpc(e) -> TasksRpcError(e)
      [] IsErrorObject(e) -> LET b == NormalizeBody(e.body)
                             IN  Exception(ExtractStatusCode(b.statusCode), b, e.body.code)
      [] e.type = "http" -> Exception(e.status, e.body, FALSE)
      [] e.type = "error" -> Unexpected("own")
      [] OTHER -> Unexpected("fallback")

NotificationsToHttp(e) ==
    CASE IsRpc(e) -> NotificationsRpcError(e)
      [] IsErrorObject(e) ->
             Exception(KnownStatus(FirstOf(e.body.statusCode, e.body.status, Missing)),
                       e.body, e.body.code)
      [] e.type = "http" -> Exception(e.status, e.body, FALSE)
      [] e.type = "error" -> Unexpected("own")
      [] OTHER -> Unexpected("fallback")

-----------------------------------------------------------------------------
\* HttpExceptionCodeFilter: the HTTP status, and the body the client reads.
Filtered(x) ==
    [status |-> x.status,
     statusCode |-> IF x.body.statusCode >= 0 THEN x.body.statusCode ELSE x.status,
     message |-> x.body.message,
     code |-> x.body.code \/ x.causeCode]

\* An exception of the gateway's own code goes to the filter as it is.
OwnException(e) == Exception(e.status, e.body, FALSE)
=============================================================================

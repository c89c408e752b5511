---------------------------- MODULE GatewayEvents ----------------------------
(***************************************************************************)
(* apps/api as a consumer of events: TasksEventsController receives from   *)
(* tasks.events and from gateway.events (two connections of one process,   *)
(* the same handlers on both) and TasksGateway broadcasts to every         *)
(* connected WebSocket client.                                             *)
(***************************************************************************)
EXTENDS Broker

VARIABLES
    ws,          \* the WebSocket server, "starting" or "listening"
    broadcast    \* broadcast[m]: times m was sent to the clients

gatewayVars == <<ws, broadcast>>

GatewayConsumer == {"gatewayTasks", "gatewayRelay"}

GatewayTypeOK ==
    /\ ws \in {"starting", "listening"}
    /\ broadcast \in [Message -> Nat]

(* main.ts starts the microservices before it listens.                     *)
GatewayInit ==
    /\ ws = "starting"
    /\ broadcast = [m \in Message |-> 0]

WsListen ==
    /\ ws = "starting"
    /\ ws' = "listening"
    /\ UNCHANGED <<broadcast, brokerVars>>

(* TasksGateway.emitToClients: dropped before the server exists.           *)
EmitToClients(m) ==
    IF ws = "listening"
    THEN broadcast' = Plus(broadcast, m) /\ UNCHANGED dropped
    ELSE dropped' = Plus(dropped, m) /\ UNCHANGED broadcast

(* Mutant: no acknowledgement when the payload was dropped or the emit     *)
(* failed, the message goes back.                                          *)
ForwardEventTwice(c, m) ==
    /\ Deliverable(c, m)
    /\ PatternOf(m.path, payload[m.event].kind) \in GatewayPatterns
    /\ EmitToClients(m)
    /\ UNCHANGED <<ready, chan, payload, held, faults, ws>>

(* forwardEvent: broadcast, then acknowledge in the finally block, all in  *)
(* one turn of the event loop.  In noAck mode the acknowledgement closes   *)
(* the channel.                                                            *)
ForwardEvent(c, m) ==
    /\ Deliverable(c, m)
    /\ PatternOf(m.path, payload[m.event].kind) \in GatewayPatterns
    /\ EmitToClients(m)
    /\ IF NoAck
       THEN /\ ready' \in AfterLoss(c, Minus(ready, m), held)
            /\ chan' = [chan EXCEPT ![c] = "closed"]
       ELSE /\ ready' = Minus(ready, m)
            /\ chan' = chan
    /\ UNCHANGED <<payload, held, faults, ws>>

(* The same, the acknowledgement lost with the connection.                 *)
ForwardEventAckLost(c, m) ==
    /\ ~NoAck
    /\ Deliverable(c, m)
    /\ PatternOf(m.path, payload[m.event].kind) \in GatewayPatterns
    /\ Fault
    /\ EmitToClients(m)
    /\ chan' = [chan EXCEPT ![c] = "closed"]
    /\ UNCHANGED <<ready, payload, held, ws>>

(* A message whose pattern only notifications-service handles, or nobody.  *)
GatewayUnhandled(c, m) ==
    /\ Deliverable(c, m)
    /\ PatternOf(m.path, payload[m.event].kind) \notin GatewayPatterns
    /\ NoHandler(c, m)
    /\ UNCHANGED gatewayVars

GatewayChannelLost(c) ==
    /\ chan[c] = "open"
    /\ Fault
    /\ ready' \in AfterLoss(c, ready, held)
    /\ chan' = [chan EXCEPT ![c] = "closed"]
    /\ UNCHANGED <<payload, held, dropped, gatewayVars>>

(* The process dies and starts again: both consumers and the WebSocket     *)
(* server have to come up anew.                                            *)
GatewayCrash ==
    /\ Fault
    /\ \E r \in AfterLoss("gatewayTasks", ready, held) :
          ready' \in AfterLoss("gatewayRelay", r, held)
    /\ chan' = [c \in Consumer |-> IF c \in GatewayConsumer THEN "closed" ELSE chan[c]]
    /\ ws' = "starting"
    /\ UNCHANGED <<payload, held, dropped, broadcast>>

GatewayReconnect(c) == Reconnect(c) /\ UNCHANGED gatewayVars

GatewayNext ==
    \/ WsListen
    \/ \E c \in GatewayConsumer, m \in Message : ForwardEvent(c, m)
    \/ \E c \in GatewayConsumer, m \in Message : ForwardEventAckLost(c, m)
    \/ \E c \in GatewayConsumer, m \in Message : GatewayUnhandled(c, m)
    \/ \E c \in GatewayConsumer : GatewayChannelLost(c)
    \/ GatewayCrash
    \/ \E c \in GatewayConsumer : GatewayReconnect(c)
=============================================================================

------------------------------- MODULE Broker -------------------------------
(***************************************************************************)
(* RabbitMQ as the services use it: the two durable queues of the event    *)
(* pipeline, the consumers connected to them, and what becomes of a        *)
(* message when its consumer acknowledges it, rejects it or loses its      *)
(* channel.                                                                *)
(*                                                                         *)
(* tasks.events has two competing consumers: notifications-service and the *)
(* API gateway each open one on the same queue, so every message goes to   *)
(* exactly one of them, whichever has a handler for it.                    *)
(*                                                                         *)
(* NoAck is the acknowledgement mode of the consumers.  Neither bootstrap  *)
(* sets the option, and the transport's default is TRUE: the broker        *)
(* forgets a message as soon as it has pushed it, and an ack or a nack of  *)
(* a message it has forgotten is a protocol error that closes the channel. *)
(* FALSE is the mode the handlers' ack and nack calls are written for.     *)
(*                                                                         *)
(* A queue is a bag: the handlers of notifications-service run             *)
(* concurrently and two services compete for the queue, so no property of  *)
(* the pipeline rests on the order of its messages.                        *)
(***************************************************************************)
EXTENDS EventContracts

CONSTANTS
    NoAck,       \* the consumers' noAck option
    MaxFaults    \* bound on failures of calls and connections

ASSUME NoAckAssumption == NoAck \in BOOLEAN
ASSUME MaxFaultsAssumption == MaxFaults \in Nat

VARIABLES
    payload,     \* payload[e]: what the messages of event e carry
    ready,       \* ready[m]: copies of m not yet dispatched to a consumer
    held,        \* held[m]: copies dispatched and not yet acknowledged
    chan,        \* chan[c]: consumer c's channel, "open" or "closed"
    dropped,     \* dropped[m]: copies discarded without being handled
    faults       \* failures so far

brokerVars == <<payload, ready, held, chan, dropped, faults>>

NoPayload == [kind |-> "none"]

Consumer == {"notifications", "gatewayTasks", "gatewayRelay"}

SourceQueue(c) ==
    IF c = "gatewayRelay" THEN "gateway.events" ELSE "tasks.events"

BrokerTypeOK ==
    /\ payload \in [Event -> Payload \cup {NoPayload}]
    /\ ready \in [Message -> Nat]
    /\ held \in [Message -> Nat]
    /\ chan \in [Consumer -> {"open", "closed"}]
    /\ dropped \in [Message -> Nat]
    /\ faults \in 0..MaxFaults

BrokerInit ==
    /\ payload = [e \in Event |-> NoPayload]
    /\ ready = [m \in Message |-> 0]
    /\ held = [m \in Message |-> 0]
    /\ chan = [c \in Consumer |-> "open"]
    /\ dropped = [m \in Message |-> 0]
    /\ faults = 0

Plus(bag, m) == [bag EXCEPT ![m] = @ + 1]
Minus(bag, m) == [bag EXCEPT ![m] = @ - 1]

Fault == faults < MaxFaults /\ faults' = faults + 1

(* Mutant: a message is delivered that the queue no longer has.            *)
DeliverableAnytime(c, m) ==
    /\ chan[c] = "open"
    /\ payload[m.event] # NoPayload
    /\ QueueOf(m) = SourceQueue(c)

(* The message a consumer may be given next.                               *)
Deliverable(c, m) ==
    /\ chan[c] = "open"
    /\ ready[m] > 0
    /\ QueueOf(m) = SourceQueue(c)

(* The queues once consumer c has lost its channel, from the bags r and h  *)
(* of ready and held messages.  With acknowledgements the broker requeues  *)
(* what c holds (only notifications-service holds messages across steps).  *)
(* Without them the broker has already forgotten what it pushed over the   *)
(* open channel, so whatever part of c's queue was on the wire is lost.    *)
AfterLoss(c, r, h) ==
    IF NoAck
    THEN {[m \in Message |-> IF m \in lost THEN 0 ELSE r[m]] :
             lost \in SUBSET {m \in Message :
                        chan[c] = "open" /\ r[m] > 0 /\ QueueOf(m) = SourceQueue(c)}}
    ELSE {[m \in Message |-> IF c = "notifications" THEN r[m] + h[m] ELSE r[m]]}

HeldAfterLoss(c, h) ==
    IF c = "notifications" THEN [m \in Message |-> 0] ELSE h

(* The transport has no handler for the pattern of m: the message, just    *)
(* taken by c, is rejected without requeue.  In noAck mode that reject is  *)
(* the protocol error that closes the channel.                             *)
NoHandler(c, m) ==
    /\ dropped' = Plus(dropped, m)
    /\ IF NoAck
       THEN /\ ready' \in AfterLoss(c, Minus(ready, m), held)
            /\ chan' = [chan EXCEPT ![c] = "closed"]
       ELSE /\ ready' = Minus(ready, m)
            /\ chan' = chan
    /\ UNCHANGED <<payload, held, faults>>

(* The connection manager restores the connection and the consumer.        *)
Reconnect(c) ==
    /\ chan[c] = "closed"
    /\ chan' = [chan EXCEPT ![c] = "open"]
    /\ UNCHANGED <<payload, ready, held, dropped, faults>>
=============================================================================

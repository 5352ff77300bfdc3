----------------------------- MODULE RabbitMqAuth -----------------------------
(***************************************************************************)
(* RabbitMQ asks AM about a device that connects: the HTTP backend of the  *)
(* broker sends user name and password to Identity Gateway, whose filter   *)
(* userinfo.groovy takes the password as an access token to AM's userinfo  *)
(* endpoint and says "allow" when AM knows the token; everything else that *)
(* the backend asks is allowed by a route of its own.  The device is       *)
(* rabbitmq_mqtt_sub.c: main, and the callback that libmosquitto calls     *)
(* within mosquitto_loop_forever, which also connects again when the       *)
(* connection is lost, with the token that it has.                         *)
(*                                                                         *)
(* rabbitmq.conf asks the broker's own users first (auth_backends.1); the  *)
(* device is none of them, so that part of the chain is left out.          *)
(*                                                                         *)
(* The broker, AM, the IEC and libmosquitto are external.                  *)
(***************************************************************************)
EXTENDS RabbitMqAdmission, Naturals

VARIABLES
    pc,      \* device: where main is
    request, \* IG: the request about the connection that is being made
    live     \* AM: the access token of the device is known to AM

vars == <<pc, link, request, live, vouched, subbed>>

TypeOK ==
    /\ pc \in [Devices -> {"initialise", "register", "tokens", "connect",
                           "loop", "cleanup", "exited"}]
    /\ link \in [Devices -> {"down", "connecting", "accepted", "refused", "up",
                             "subscribing", "leaving"}]
    /\ request \in [Devices -> {"none", "filter", "userinfo", "ok", "rejected",
                                "failed", "allow"}]
    /\ {live, vouched, subbed} \subseteq [Devices -> BOOLEAN]

Init ==
    /\ pc = [d \in Devices |-> "initialise"]
    /\ link = [d \in Devices |-> "down"]
    /\ request = [d \in Devices |-> "none"]
    /\ live = [d \in Devices |-> FALSE]
    /\ vouched = [d \in Devices |-> FALSE]
    /\ subbed = [d \in Devices |-> FALSE]

----------------------------------------------------------------------------
(* main.  A failed call to the SDK ends it. *)

Goto(d, from, to) ==
    /\ pc[d] = from
    /\ pc' = [pc EXCEPT ![d] = to]

Initialise(d, ok) ==
    /\ Goto(d, "initialise", IF ok THEN "register" ELSE "exited")
    /\ UNCHANGED <<link, request, live, vouched, subbed>>

Register(d, ok) ==
    /\ Goto(d, "register", IF ok THEN "tokens" ELSE "exited")
    /\ UNCHANGED <<link, request, live, vouched, subbed>>

(* iec_device_tokens, and the access token taken out of the answer. *)
Tokens(d, ok) ==
    /\ Goto(d, "tokens", IF ok THEN "connect" ELSE "exited")
    /\ live' = [live EXCEPT ![d] = ok]
    /\ UNCHANGED <<link, request, vouched, subbed>>

(* A connection is made, with CONNECT, and the broker asks IG about it. *)
Connecting(d) ==
    /\ link' = [link EXCEPT ![d] = "connecting"]
    /\ request' = [request EXCEPT ![d] = "filter"]

Connect(d, ok) ==
    /\ Goto(d, "connect", IF ok THEN "loop" ELSE "exited")
    /\ IF ok THEN Connecting(d) ELSE UNCHANGED <<link, request>>
    /\ UNCHANGED <<live, vouched, subbed>>

(* The connection is gone, and what the broker knows about it. *)
Closed(d) ==
    /\ link' = [link EXCEPT ![d] = "down"]
    /\ request' = [request EXCEPT ![d] = "none"]
    /\ vouched' = [vouched EXCEPT ![d] = FALSE]
    /\ subbed' = [subbed EXCEPT ![d] = FALSE]

(* mosquitto_loop_forever returns after mosquitto_disconnect. *)
LoopReturns(d) ==
    /\ link[d] = "leaving"
    /\ Goto(d, "loop", "cleanup")
    /\ Closed(d)
    /\ UNCHANGED live

Cleanup(d) ==
    /\ Goto(d, "cleanup", "exited")
    /\ UNCHANGED <<link, request, live, vouched, subbed>>

(* Mutant: a refused connection is only printed. *)
mosq_connect_cb_prints(d) ==
    /\ pc[d] = "loop"
    /\ \/ /\ link[d] = "refused"
          /\ Closed(d)
       \/ /\ link[d] = "accepted"
          /\ link' = [link EXCEPT ![d] = "subscribing"]
          /\ UNCHANGED <<request, vouched, subbed>>
    /\ UNCHANGED <<pc, live>>

(* Mutant: the callback leaves the subscription to main. *)
mosq_connect_cb_without_subscribe(d) ==
    /\ pc[d] = "loop" /\ link[d] \in {"refused", "accepted"}
    /\ link' = [link EXCEPT ![d] = IF @ = "refused" THEN "leaving" ELSE "up"]
    /\ UNCHANGED <<pc, request, live, vouched, subbed>>

(* A refused device disconnects, an accepted one subscribes, on every      *)
(* connection.                                                             *)
mosq_connect_cb(d) ==
    /\ pc[d] = "loop" /\ link[d] \in {"refused", "accepted"}
    /\ link' = [link EXCEPT ![d] = IF @ = "refused" THEN "leaving"
                                                    ELSE "subscribing"]
    /\ UNCHANGED <<pc, request, live, vouched, subbed>>

Main(d) == \/ \E ok \in BOOLEAN : \/ Initialise(d, ok) \/ Register(d, ok)
                                  \/ Tokens(d, ok) \/ Connect(d, ok)
           \/ LoopReturns(d) \/ Cleanup(d) \/ mosq_connect_cb(d)

----------------------------------------------------------------------------
(* Identity Gateway. *)

Answer(d, from, to) ==
    /\ request[d] = from
    /\ request' = [request EXCEPT ![d] = to]

(* The filter sends the password on, as a bearer token. *)
Forward(d) ==
    /\ Answer(d, "filter", "userinfo")
    /\ UNCHANGED <<pc, link, live, vouched, subbed>>

(* Mutant: any answer of AM is an "allow". *)
ThenAlways(d) ==
    /\ \E status \in {"ok", "rejected", "failed"} : Answer(d, status, "allow")
    /\ UNCHANGED <<pc, link, live, vouched, subbed>>

(* A successful answer of AM becomes "allow"; another is passed on. *)
Then(d) ==
    /\ Answer(d, "ok", "allow")
    /\ UNCHANGED <<pc, link, live, vouched, subbed>>

----------------------------------------------------------------------------
(* AM, the broker, the network and libmosquitto. *)

(* AM answers 200 for a token that it knows and 401 for another, or cannot *)
(* be reached.                                                             *)
Userinfo(d, reached) ==
    /\ Answer(d, "userinfo", IF ~reached THEN "failed"
                             ELSE IF live[d] THEN "ok" ELSE "rejected")
    /\ vouched' = [vouched EXCEPT ![d] = reached /\ live[d]]
    /\ UNCHANGED <<pc, link, live, subbed>>

(* The broker admits the connection on "allow" only. *)
Connack(d) ==
    /\ link[d] = "connecting"
    /\ \/ request[d] = "allow" /\ link' = [link EXCEPT ![d] = "accepted"]
       \/ /\ request[d] \in {"rejected", "failed"}
          /\ link' = [link EXCEPT ![d] = "refused"]
    /\ request' = [request EXCEPT ![d] = "none"]
    /\ UNCHANGED <<pc, live, vouched, subbed>>

(* IG answers the questions about vhost, resource and topic with "allow". *)
Suback(d) ==
    /\ link[d] = "subscribing"
    /\ link' = [link EXCEPT ![d] = "up"]
    /\ subbed' = [subbed EXCEPT ![d] = TRUE]
    /\ UNCHANGED <<pc, request, live, vouched>>

(* libmosquitto calls the callback as soon as it has read the CONNACK. *)
ConnectionLost(d) ==
    /\ link[d] \in {"connecting", "subscribing", "up"}
    /\ Closed(d)
    /\ UNCHANGED <<pc, live>>

Reconnect(d) ==
    /\ pc[d] = "loop" /\ link[d] = "down"
    /\ Connecting(d)
    /\ UNCHANGED <<pc, live, vouched, subbed>>

TokenExpires(d) ==
    /\ live[d]
    /\ live' = [live EXCEPT ![d] = FALSE]
    /\ UNCHANGED <<pc, link, request, vouched, subbed>>

Ended == (\A d \in Devices : pc[d] = "exited") /\ UNCHANGED vars

Serve(d) == \/ Forward(d) \/ Then(d) \/ Connack(d) \/ Suback(d)
            \/ \E reached \in BOOLEAN : Userinfo(d, reached)

Next == \/ \E d \in Devices : \/ Main(d) \/ Serve(d)
                              \/ ConnectionLost(d) \/ Reconnect(d)
                              \/ TokenExpires(d)
        \/ Ended

Spec == Init /\ [][Next]_vars

(* The device runs, libmosquitto keeps connecting, and IG and the broker   *)
(* answer; neither the network nor AM is reliable.                         *)
Fairness == \A d \in Devices : /\ WF_vars(Main(d)) /\ WF_vars(Serve(d))
                               /\ WF_vars(Reconnect(d))

FairSpec == Spec /\ Fairness

----------------------------------------------------------------------------
(* A device that has been refused ends; it does not connect over and over  *)
(* with a token that has expired (rabbitmq_mqtt_sub.c:49-52, 128).         *)
RefusedEnds ==
    \A d \in Devices :
        link[d] = "refused" ~> pc[d] = "exited"

(* Every connection that is accepted ends up subscribed, unless it is lost *)
(* first (rabbitmq_mqtt_sub.c:53).                                         *)
SubscribedAgain ==
    \A d \in Devices :
        link[d] = "accepted" ~> subbed[d] \/ link[d] = "down"
==============================================================================

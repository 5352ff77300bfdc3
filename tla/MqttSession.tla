----------------------------- MODULE MqttSession -----------------------------
(***************************************************************************)
(* The C publisher and the broker it publishes to: any broker, as in       *)
(* DeviceMqttPub, or HiveMQ with the ForgeRock extension, which decides on *)
(* the CONNECT and on each PUBLISH of the device by introspecting the      *)
(* token that the device has from the IEC.                                 *)
(*                                                                         *)
(* The device is one connection of the broker.  A packet is delivered at   *)
(* once or lost with its connection; the two sides notice a loss           *)
(* independently.  The extension is up when the device starts.  Faults are *)
(* bounded as in DeviceMqttPub: they happen to the first Faulty tokens.    *)
(* Only a microservice that hangs does so with any.                        *)
(***************************************************************************)
EXTENDS DeviceMqttPub

CONSTANT Slots  \* request slots of the broker (bound: requests in flight)

ASSUME SlotsAssumption == Slots \subseteq Nat

VARIABLES
    broker,   \* "any": any broker; "hivemq": HiveMQ, which has its answers
              \* in time unless a task throws; "hanging": HiveMQ with a
              \* microservice that answers late or never
    attached, \* the connection in the broker is the device's current one
    ext, phase, store, perms, subs, req, live, cache

hiveVars == <<ext, phase, store, perms, subs, req, live, cache>>
all      == <<vars, broker, attached, hiveVars>>

IecTokens == 1..(Faulty + 1)

Hive == INSTANCE HiveMQExtension WITH
    Conns <- {"device"}, Requests <- Slots, Workers <- 1,
    Tokens <- IecTokens, Issued <- IecTokens, Topics <- {"data"},
    MqttScopes <- [t \in IecTokens |-> <<"data">>],
    NoConn <- "none", NoToken <- 0, NoTopic <- "none"

SessionTypeOK == TypeOK /\ Hive!TypeOK /\ attached \in BOOLEAN

SessionInit ==
    /\ Init
    /\ broker \in {"any", "hivemq", "hanging"}
    /\ attached = FALSE
    /\ ext = "started"
    /\ phase = [c \in {"device"} |-> "offline"]
    /\ store = [c \in {"device"} |-> 0]
    /\ perms = [c \in {"device"} |-> {}]
    /\ subs = [c \in {"device"} |-> {}]
    /\ req = [r \in Slots |-> Hive!FreeSlot]
    /\ live = [t \in IecTokens |-> TRUE]
    /\ cache = [t \in IecTokens |-> FALSE]

(* A fault may happen to token t. *)
MayFail(t) == t <= Faulty /\ broker # "hanging"

(* The broker takes the first slot that is free. *)
NextSlot == {r \in Slots : Hive!Free(r) /\ \A s \in Slots :
                                              Hive!Free(s) => r <= s}

----------------------------------------------------------------------------
(* The device.  What it does to its connection by itself ends the old one. *)

Alone == /\ attached' = (attached /\ link' = link)
         /\ UNCHANGED <<broker, hiveVars>>

(* A PUBLISH over a connection that is up reaches the broker. *)
PublishStep ==
    /\ Publish
    /\ IF attached /\ link = "up"
       THEN \E r \in NextSlot : Hive!AuthorizePublish("device", r, "data")
       ELSE UNCHANGED hiveVars
    /\ UNCHANGED <<broker, attached>>

MainStep == PublishStep \/ (pc # "publish" /\ Main /\ Alone)

FreshToken == tokens <= Faulty /\ get_access_token(TRUE) /\ Alone

(* Bound: with HiveMQ the IEC does not fail to issue a token twice running. *)
TokenDenied == (broker = "hivemq" => ~fetchFailed) /\ get_access_token(FALSE)

ThreadStep == /\ \/ mosq_connect_cb \/ mosq_disconnect_cb
                 \/ TokenDenied \/ UseFreshToken
                 \/ NoticeLoss \/ AutoReconnect
                 \/ broker = "any" /\ Connack
              /\ Alone

----------------------------------------------------------------------------
(* HiveMQ.  CONNECT: an old connection of the device goes first. *)
ConnectArrives ==
    /\ broker # "any" /\ loop
    /\ link = "connecting" /\ ~attached
    /\ \E r \in NextSlot : Hive!OnConnect("device", r, password)
    /\ attached' = TRUE
    /\ UNCHANGED <<vars, broker>>

OldConnectionEnds ==
    /\ ~attached
    /\ Hive!ConnectionLost("device")
    /\ UNCHANGED <<vars, broker, attached>>

(* What the device hears when the broker accepts, refuses or closes. *)
HearsConnack(state, code, token) ==
    /\ IF Idle
       THEN link' = state /\ cb' = "connack" /\ rc' = code /\ refused' = token
       ELSE UNCHANGED <<link, cb, rc, refused>>
    /\ UNCHANGED <<mainVars, loop, disconnecting, tokens, fetchFailed,
                   connected, password>>

HearsClose ==
    /\ link' = IF link = "up" THEN "lost" ELSE link
    /\ UNCHANGED <<mainVars, loop, disconnecting, tokens, history, connected,
                   cb, rc, password>>

Hears(before, after) ==
    \/ /\ before = after \/ ~attached
       /\ UNCHANGED <<vars, attached>>
    \/ /\ attached /\ before = "connecting" /\ after = "connected"
       /\ HearsConnack("up", "success", refused)
       /\ UNCHANGED attached
    \/ /\ attached /\ before = "connecting" /\ after = "offline"
       /\ HearsConnack("refused", "refused", password)
       /\ attached' = FALSE
    \/ /\ attached /\ before = "connected" /\ after = "offline"
       /\ HearsClose
       /\ attached' = FALSE

(* A step of the extension's task or of the broker for request r. *)
TaskStep(r) ==
    /\ \/ Hive!StartTask(r) \/ Hive!Introspect(r)
       \/ Hive!ProcessResponse(r) \/ Hive!Resume(r)
       \/ /\ Hive!Pending(r)  \* a failure that nobody waits for is none
          /\ \/ MayFail(req[r].token) /\ Hive!IntrospectFails(r)
             \/ /\ MayFail(req[r].token) \/ broker = "hanging"
                /\ Hive!TaskThrows(r)
    /\ Hears(phase["device"], phase'["device"])
    /\ UNCHANGED broker

(* The timer of a request fires: the answer is late or will never come. *)
TimeoutStep(r) ==
    /\ req[r].task = "ended" \/ broker = "hanging"
    /\ Hive!Timeout(r)
    /\ Hears(phase["device"], phase'["device"])
    /\ UNCHANGED broker

(* A slot is released as soon as its request is over. *)
Release(r) == Hive!ReleaseSlot(r) /\ UNCHANGED <<vars, broker, attached>>

Over == {r \in Slots : /\ req[r].outcome \notin {"free", "pending"}
                       /\ req[r].task \in {"none", "ended"}}

TokenAges(t) ==
    /\ broker # "any"
    /\ \/ t <= tokens /\ MayFail(t) /\ Hive!TokenDies(t)
       \/ ~live[t] /\ Hive!CacheExpires(t)
    /\ UNCHANGED <<vars, broker, attached>>

(* The network loses the device's connection, unnoticed by the broker. *)
NetworkLoss ==
    /\ broker # "hanging" /\ LinkDrops
    /\ attached' = FALSE
    /\ UNCHANGED <<broker, hiveVars>>

SessionNext ==
    \/ \E r \in Slots : Release(r)
    \/ /\ Over = {}
       /\ \/ MainStep \/ ThreadStep \/ FreshToken
          \/ ConnectArrives \/ OldConnectionEnds \/ NetworkLoss
          \/ \E r \in Slots : TaskStep(r) \/ TimeoutStep(r)
          \/ \E t \in IecTokens : TokenAges(t)
          \/ Exited /\ UNCHANGED all

BrokerStep == \/ ConnectArrives \/ OldConnectionEnds
              \/ \E r \in Slots : Release(r)

ExecutorStep == broker = "hivemq" /\ \E r \in Slots : TaskStep(r)

(* Both threads of the device keep running; the IEC answers a request for  *)
(* a token within its message timeout, and not always with an error.  The  *)
(* broker takes connections in, notices that they have gone, and its timer *)
(* fires; its executor works and the microservice answers unless it hangs. *)
SessionFairness ==
    /\ WF_all(MainStep)
    /\ WF_all(ThreadStep \/ FreshToken) /\ SF_all(FreshToken)
    /\ WF_all(BrokerStep) /\ WF_all(ExecutorStep)
    /\ WF_all(\E r \in Slots : TimeoutStep(r))

SessionSpec == SessionInit /\ [][SessionNext]_all /\ SessionFairness

----------------------------------------------------------------------------
(* Device and broker agree in whose name the device publishes: as long as  *)
(* the device holds a connection to be up, and it has not been cut, the    *)
(* broker has it as connected with the very token that is the password of  *)
(* the device, however tokens were replaced, connections cut and taken up  *)
(* again, and whichever late answers belong to earlier ones                *)
(* (device_mqtt_pub.c:132-151, TokenAuthenticator.java:74).                *)
SessionAgrees ==
    broker # "any" /\ link = "up" =>
        attached /\ phase["device"] = "connected" /\ store["device"] = password

(* With HiveMQ a token that no fault happens to is honoured: its CONNECT   *)
(* is not refused and its connection not closed by the broker, whatever    *)
(* becomes of requests of earlier connections that are still under way.    *)
(* An extension that let nobody in would keep every other promise          *)
(* (OAuth2Authorizer.run, the processResponse of each authorizer).         *)
GoodTokenServed ==
    [][/\ broker = "hivemq" /\ attached
       /\ phase["device"] # "offline" /\ phase'["device"] = "offline"
       => MayFail(password)]_all

(* Every message gets its turn and main returns, with any broker whose     *)
(* faults end, and with HiveMQ although tokens die, tasks fail or throw,   *)
(* answers come late and one executor thread serves old and new requests   *)
(* (device_mqtt_pub.c:236-264, OAuth2Authorizer.run).                      *)
SessionCompletes == broker # "hanging" => PublishingCompletes

(* Every request gets an outcome, also when the microservice hangs and     *)
(* every thread of the executor is held by another task.                   *)
EveryRequestSettled == Hive!EveryRequestSettled
==============================================================================

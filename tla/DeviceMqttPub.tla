--------------------------- MODULE DeviceMqttPub ---------------------------
(***************************************************************************)
(* The C device application examples/c/src/device_mqtt_pub: the main       *)
(* thread registers the device, gets an access token and publishes         *)
(* messages; the network thread of libmosquitto runs the callbacks that    *)
(* keep the flag "connected" and replace the token when the connection is  *)
(* lost.  The two threads share the flag and the mosquitto client.         *)
(*                                                                         *)
(* libmosquitto (connecting, noticing a loss, reconnecting by itself), the *)
(* network, the MQTT broker and the IEC are external.  The broker may      *)
(* refuse or drop the client for any reason; MqttSession puts HiveMQ with  *)
(* its ForgeRock extension in its place.  Tokens are numbered in the order *)
(* of issue.  A fault costs the token it happens to, since the client asks *)
(* for another whenever its connection ends: the bound is on the tokens    *)
(* that are subject to faults, and not on the faults.                      *)
(***************************************************************************)
EXTENDS Naturals

CONSTANTS
    Messages,    \* how many messages the application publishes
    Faulty       \* bound: the tokens, the first ones, with which connections
                 \* are refused or lost

ASSUME BoundsAssumption ==
    Messages \in Nat \ {0} /\ Faulty \in Nat

VARIABLES
    pc,            \* where the main thread is
    i,             \* the loop counter of main
    result,        \* main's "result", its exit status in the end
    connected,     \* data.connected, shared by the two threads
    loop,          \* the network thread is running
    cb,            \* the callback the network thread is in
    rc,            \* the result code passed to that callback
    link,          \* libmosquitto: the state of the connection
    disconnecting, \* libmosquitto: mosquitto_disconnect has been called
    password,      \* the token set by mosquitto_username_pw_set
    tokens,        \* IEC: how many tokens it has issued
    refused,       \* history: the last token the broker refused, or 0
    fetchFailed    \* history: the last request for a token failed

mainVars == <<pc, i, result>>
libVars  == <<loop, link, disconnecting>>
history  == <<refused, fetchFailed>>
vars     == <<mainVars, libVars, tokens, history, connected, cb, rc, password>>

Setup    == {"attributes", "initialise", "register", "token", "new"}
Running  == {"start", "connect", "wait", "publish", "drain", "stop", "destroy"}
Results  == {"success", "failure"}

TypeOK ==
    /\ pc \in Setup \cup Running \cup {"exited"}
    /\ i \in 0..Messages
    /\ result \in Results
    /\ connected \in BOOLEAN /\ loop \in BOOLEAN /\ disconnecting \in BOOLEAN
    /\ cb \in {"none", "connack", "disconnect", "fetch", "reconnect"}
    /\ rc \in {"success", "refused", "lost"}
    /\ link \in {"down", "connecting", "up", "lost", "refused"}
    /\ password \in Nat /\ tokens \in Nat
    /\ refused \in Nat /\ fetchFailed \in BOOLEAN

Init ==
    /\ pc = "attributes" /\ i = 0
    /\ result \in Results  \* not initialised in main
    /\ connected = FALSE /\ loop = FALSE /\ disconnecting = FALSE
    /\ cb = "none" /\ rc = "success" /\ link = "down"
    /\ password = 0 /\ tokens = 0
    /\ refused = 0 /\ fetchFailed = FALSE

----------------------------------------------------------------------------
(* The main thread. *)

(* The steps of the set-up.  A failed iec_set_attribute returns the        *)
(* uninitialised "result"; every other failure returns an error.           *)
SetupStep(from, ok, to) ==
    /\ pc = from
    /\ pc' = IF ok THEN to ELSE "exited"
    /\ result' = CASE from = "attributes" -> result
                   [] from # "attributes" -> IF ok THEN "success" ELSE "failure"
    /\ UNCHANGED <<i, libVars, history, connected, cb, rc>>

SetAttributes(ok) == /\ SetupStep("attributes", ok, "initialise")
                     /\ UNCHANGED <<password, tokens>>
Initialise(ok)    == /\ SetupStep("initialise", ok, "register")
                     /\ UNCHANGED <<password, tokens>>
Register(ok)      == /\ SetupStep("register", ok, "token")
                     /\ UNCHANGED <<password, tokens>>

FirstToken(ok) ==
    /\ SetupStep("token", ok, "new")
    /\ tokens' = IF ok THEN tokens + 1 ELSE tokens
    /\ UNCHANGED password

(* mosquitto_new, the callbacks and the first password. *)
NewClient(ok) ==
    /\ SetupStep("new", ok, "start")
    /\ password' = IF ok THEN tokens ELSE password
    /\ UNCHANGED tokens

LoopStart ==
    /\ pc = "start"
    /\ pc' = "connect"
    /\ loop' = TRUE
    /\ UNCHANGED <<i, result, link, disconnecting, tokens, history, connected,
                   cb, rc, password>>

ConnectAsync ==
    /\ pc = "connect"
    /\ pc' = "wait"
    /\ link' = "connecting"
    /\ UNCHANGED <<i, result, loop, disconnecting, tokens, history, connected,
                   cb, rc, password>>

(* while (!data.connected); *)
WaitConnected ==
    /\ pc = "wait" /\ connected
    /\ pc' = "publish"
    /\ UNCHANGED <<i, result, libVars, tokens, history, connected, cb, rc,
                   password>>

(* What mosquitto_publish may return: a loss that the library has not      *)
(* noticed yet may go unnoticed by the call, too.                          *)
PublishResults == {r \in Results : /\ link = "up" => r = "success"
                                   /\ r = "success" => link \in {"up", "lost"}}

(* Mutant: one message too many. *)
PublishOneMore ==
    /\ pc = "publish"
    /\ result' \in PublishResults
    /\ i' = i + 1
    /\ pc' = IF i' <= Messages THEN "wait" ELSE "drain"
    /\ UNCHANGED <<libVars, tokens, history, connected, cb, rc, password>>

(* The connection may have gone since the flag was read: a failure is      *)
(* printed and the loop goes on to the next message.                       *)
Publish ==
    /\ pc = "publish"
    /\ result' \in PublishResults
    /\ i' = i + 1
    /\ pc' = IF i' < Messages THEN "wait" ELSE "drain"
    /\ UNCHANGED <<libVars, tokens, history, connected, cb, rc, password>>

Disconnect ==
    /\ pc = "drain"
    /\ pc' = "stop"
    /\ disconnecting' = TRUE
    /\ link' = IF link = "up" THEN "lost" ELSE link
    /\ UNCHANGED <<i, result, loop, tokens, history, connected, cb, rc,
                   password>>

(* mosquitto_loop_stop with force: the thread is cancelled, in a callback  *)
(* or not, and joined.                                                     *)
LoopStop ==
    /\ pc = "stop"
    /\ pc' = "destroy"
    /\ loop' = FALSE
    /\ cb' = "none"
    /\ UNCHANGED <<i, result, link, disconnecting, tokens, history, connected,
                   rc, password>>

Destroy ==
    /\ pc = "destroy"
    /\ pc' = "exited"
    /\ link' = "down"
    /\ UNCHANGED <<i, result, loop, disconnecting, tokens, history, connected,
                   cb, rc, password>>

Main == \/ \E ok \in BOOLEAN : \/ SetAttributes(ok) \/ Initialise(ok)
                               \/ Register(ok) \/ FirstToken(ok)
                               \/ NewClient(ok)
        \/ LoopStart \/ ConnectAsync \/ WaitConnected \/ Publish
        \/ Disconnect \/ LoopStop \/ Destroy

----------------------------------------------------------------------------
(* The callbacks, on the network thread. *)

(* Mutants: the result code is not looked at; the fresh token is not set. *)
ConnectCbIgnoresResult ==
    /\ cb = "connack"
    /\ connected' = TRUE
    /\ cb' = "none"
    /\ UNCHANGED <<mainVars, libVars, tokens, history, rc, password>>

ReconnectWithOldToken ==
    /\ cb = "reconnect"
    /\ link' = "connecting"
    /\ disconnecting' = FALSE
    /\ cb' = "none"
    /\ UNCHANGED <<mainVars, loop, tokens, history, connected, rc, password>>

mosq_connect_cb ==
    /\ cb = "connack"
    /\ connected' = (rc = "success")
    /\ cb' = "none"
    /\ UNCHANGED <<mainVars, libVars, tokens, history, rc, password>>

mosq_disconnect_cb ==
    /\ cb = "disconnect"
    /\ connected' = FALSE
    /\ cb' = IF rc = "success" THEN "none" ELSE "fetch"
    /\ UNCHANGED <<mainVars, libVars, tokens, history, rc, password>>

(* get_access_token, called by mosq_disconnect_cb; on failure the callback *)
(* returns and the password stays what it was.                             *)
get_access_token(ok) ==
    /\ cb = "fetch"
    /\ tokens' = IF ok THEN tokens + 1 ELSE tokens
    /\ fetchFailed' = ~ok
    /\ cb' = IF ok THEN "reconnect" ELSE "none"
    /\ UNCHANGED <<mainVars, libVars, refused, connected, rc, password>>

(* mosquitto_username_pw_set and mosquitto_reconnect_async. *)
UseFreshToken ==
    /\ cb = "reconnect"
    /\ password' = tokens
    /\ link' = "connecting"
    /\ disconnecting' = FALSE
    /\ cb' = "none"
    /\ UNCHANGED <<mainVars, loop, tokens, history, connected, rc>>

----------------------------------------------------------------------------
(* The network thread of libmosquitto, between callbacks (external). *)

Idle == loop /\ cb = "none"

(* The broker's answer to CONNECT. *)
Connack ==
    /\ Idle /\ link = "connecting"
    /\ cb' = "connack"
    /\ \/ link' = "up" /\ rc' = "success" /\ UNCHANGED refused
       \/ /\ password <= Faulty
          /\ link' = "refused" /\ rc' = "refused" /\ refused' = password
    /\ UNCHANGED <<mainVars, loop, disconnecting, tokens, fetchFailed,
                   connected, password>>

(* The thread notices that the connection has gone.  The result code is    *)
(* zero when the application asked to disconnect.                          *)
NoticeLoss ==
    /\ Idle /\ link \in {"lost", "refused"}
    /\ link' = "down"
    /\ cb' = "disconnect"
    /\ rc' = IF disconnecting THEN "success" ELSE "lost"
    /\ UNCHANGED <<mainVars, loop, disconnecting, tokens, history, connected,
                   password>>

AutoReconnect ==
    /\ Idle /\ link = "down" /\ ~disconnecting /\ pc # "connect"
    /\ link' = "connecting"
    /\ UNCHANGED <<mainVars, loop, disconnecting, tokens, history, connected,
                   cb, rc, password>>

(* The network loses the connection, or the broker drops the client. *)
LinkDrops ==
    /\ link \in {"connecting", "up"} /\ password <= Faulty
    /\ link' = "lost"
    /\ UNCHANGED <<mainVars, loop, disconnecting, tokens, history, connected,
                   cb, rc, password>>

NetworkThread == \/ mosq_connect_cb \/ mosq_disconnect_cb
                 \/ get_access_token(FALSE)
                 \/ UseFreshToken \/ Connack \/ NoticeLoss \/ AutoReconnect

(* The process has gone. *)
Exited == pc = "exited" /\ UNCHANGED vars

Next == \/ Main
        \/ NetworkThread
        \/ get_access_token(TRUE)
        \/ LinkDrops
        \/ Exited

Spec == Init /\ [][Next]_vars

----------------------------------------------------------------------------
(* The flag that main waits for tells the truth whenever the network       *)
(* thread is between callbacks: it is set for a connection that is up or   *)
(* whose loss has not been noticed yet, and for no other, so that main     *)
(* neither spins with a connection at hand nor goes on without one         *)
(* (mosq_connect_cb, mosq_disconnect_cb, the loop at device_mqtt_pub.c:240). *)
ConnectedTracksLink ==
    loop /\ cb = "none" =>
        /\ link = "up" => connected
        /\ link \in {"connecting", "refused", "down"} => ~connected

(* A token the broker has refused is not presented again, except when the  *)
(* IEC could not be asked for a new one (mosq_disconnect_cb).              *)
RefusedTokenReplaced ==
    link = "connecting" /\ password = refused => fetchFailed

(* No callback runs once the client is destroyed: it would use the client  *)
(* and the data of a main that has returned (device_mqtt_pub.c:256-258).   *)
QuietAfterDestroy ==
    pc \in {"destroy", "exited"} => ~loop /\ cb = "none"

(* Every message gets its turn and main returns: a lost connection, a      *)
(* refused token or a failed token request never leaves main spinning on   *)
(* the flag for ever (device_mqtt_pub.c:236-264).                          *)
PublishingCompletes == pc = "wait" ~> pc = "exited"
============================================================================

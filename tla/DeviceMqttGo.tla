---------------------------- MODULE DeviceMqttGo ----------------------------
(***************************************************************************)
(* The Go device application examples/go/.../cmd/device-mqtt: main         *)
(* connects an MQTT client with an access token as its password and then   *)
(* subscribes or publishes; a goroutine arms a timer for the expiry time   *)
(* of each token, whose callback replaces the client; a publisher          *)
(* goroutine shares the client with the callback under a mutex.            *)
(*                                                                         *)
(* The paho client, the MQTT broker and the IEC are external.  The IEC may *)
(* be down at any time and for any length of time.  Paho reconnects a lost *)
(* client by itself until the handler of the lost connection has ended the *)
(* process.  Time is abstracted: an armed timer fires at any later moment. *)
(***************************************************************************)
EXTENDS Naturals

CONSTANT MaxTimers  \* bound: timers armed at a time, once the channel is
                    \* closed or a connection has been lost

ASSUME MaxTimersAssumption == MaxTimers \in Nat \ {0}

VARIABLES
    mode,   \* the "subscribe" flag of the command line
    pc,     \* where main is
    exit,   \* whether and how the process has ended
    chan,   \* reconnectIn: the number of expiry times in its buffer
    closed, \* reconnectIn has been closed
    done,   \* ctx has been cancelled
    rpc,    \* the reconnecting goroutine
    timers, \* timers that are armed
    queued, \* timer callbacks that wait for the mutex
    cb,     \* where the timer callback that holds the mutex is
    ppc,    \* the publisher goroutine
    mux,    \* the owner of the mutex
    link,   \* the connection of the client that variable "client" holds
    sub,    \* the broker: the session of the device has a subscription
    iec,    \* the IEC: it gives out tokens
    handler,\* the handler of a lost connection is about to run
    auto    \* paho's goroutine that reconnects a client by itself

(* What the IEC and the library's own goroutines do. *)
ext == <<iec, handler, auto>>

vars == <<mode, pc, exit, chan, closed, done, rpc, timers, queued, cb, ppc, mux,
          link, sub, ext>>

Modes       == {"subscribe", "publish"}
MainSteps   == {"initialise", "register", "credentials", "send", "connecting",
                "spawn", "work", "input", "unsubscribe", "unsuback",
                "close", "cancel", "return"}
CallbackPcs == {"none", "locked", "credentials", "send", "connecting"}
PubPcs      == {"none", "idle", "publishing", "done"}
AutoPcs     == {"none", "credentials", "send", "connecting"}

TypeOK ==
    /\ mode \in Modes
    /\ pc \in MainSteps
    /\ exit \in {"no", "clean", "fatal", "panic"}
    /\ chan \in 0..1
    /\ closed \in BOOLEAN /\ done \in BOOLEAN /\ sub \in BOOLEAN
    /\ rpc \in {"none", "select"}
    /\ timers \in Nat /\ queued \in Nat
    /\ cb \in CallbackPcs
    /\ ppc \in PubPcs
    /\ mux \in {"free", "callback", "publisher"}
    /\ link \in {"none", "up", "down", "lost"}
    /\ iec \in BOOLEAN /\ handler \in BOOLEAN
    /\ auto \in AutoPcs

Init ==
    /\ mode \in Modes
    /\ pc = "initialise" /\ exit = "no"
    /\ chan = 0 /\ closed = FALSE /\ done = FALSE
    /\ rpc = "none" /\ timers = 0 /\ queued = 0 /\ cb = "none"
    /\ ppc = "none" /\ mux = "free"
    /\ link = "none"
    /\ sub \in IF mode = "subscribe" THEN {FALSE} ELSE BOOLEAN
    /\ iec \in BOOLEAN /\ handler = FALSE /\ auto = "none"

Alive == exit = "no"

(* The process ends: log.Fatal, a panic, or the return of main. *)
Ends(how) == exit' = how

----------------------------------------------------------------------------
(* The steps of main. *)

(* SDK calls of the set-up; a failure is a log.Fatal. *)
SetupStep(from, ok, to) ==
    /\ Alive /\ pc = from
    /\ \/ ok /\ pc' = to /\ UNCHANGED exit
       \/ ~ok /\ Ends("fatal") /\ UNCHANGED pc
    /\ UNCHANGED <<mode, chan, closed, done, rpc, timers, queued, cb, ppc, mux,
                   link, sub, ext>>

Initialise(ok) == SetupStep("initialise", ok, "register")
Register(ok)   == SetupStep("register", ok, "credentials")

(* The loop of the credentials provider: it asks the IEC for tokens every  *)
(* 500 ms, for as long as the IEC has none to give.                        *)
DeviceTokens == iec

(* mqttMustConnect: the client asks the credentials provider, which panics *)
(* if it cannot parse the tokens ...                                       *)
MainCredentials(parsed) ==
    /\ Alive /\ pc = "credentials" /\ DeviceTokens
    /\ \/ parsed /\ pc' = "send" /\ UNCHANGED exit
       \/ ~parsed /\ Ends("panic") /\ UNCHANGED pc
    /\ UNCHANGED <<mode, chan, closed, done, rpc, timers, queued, cb, ppc, mux,
                   link, sub, ext>>

(* ... the provider sends the expiry time to the channel, which holds one; *)
MainSend ==
    /\ Alive /\ pc = "send"
    /\ chan = 0
    /\ chan' = 1 /\ pc' = "connecting"
    /\ UNCHANGED <<mode, exit, closed, done, rpc, timers, queued, cb, ppc, mux,
                   link, sub, ext>>

(* ... and the client connects, or mqttMustConnect panics. *)
MainConnect(ok) ==
    /\ Alive /\ pc = "connecting"
    /\ \/ ok /\ pc' = "spawn" /\ link' = "up" /\ UNCHANGED exit
       \/ ~ok /\ Ends("panic") /\ UNCHANGED <<pc, link>>
    /\ UNCHANGED <<mode, chan, closed, done, rpc, timers, queued, cb, ppc, mux,
                   sub, ext>>

Spawn ==
    /\ Alive /\ pc = "spawn"
    /\ rpc' = "select"
    /\ pc' = "work"
    /\ UNCHANGED <<mode, exit, chan, closed, done, timers, queued, cb, ppc,
                   mux, link, sub, ext>>

(* client.Subscribe, without the mutex: it fails, with a log.Fatal, on a   *)
(* client that is being replaced.                                          *)
Subscribe ==
    /\ Alive /\ pc = "work" /\ mode = "subscribe"
    /\ \/ link = "up" /\ sub' = TRUE /\ pc' = "input" /\ UNCHANGED exit
       \/ link # "up" /\ Ends("fatal") /\ UNCHANGED <<pc, sub>>
    /\ UNCHANGED <<mode, chan, closed, done, rpc, timers, queued, cb, ppc, mux,
                   link, ext>>

StartPublisher ==
    /\ Alive /\ pc = "work" /\ mode = "publish"
    /\ ppc' = "idle"
    /\ pc' = "input"
    /\ UNCHANGED <<mode, exit, chan, closed, done, rpc, timers, queued, cb,
                   mux, link, sub, ext>>

(* The user enters a key. *)
Input ==
    /\ Alive /\ pc = "input"
    /\ pc' = IF mode = "subscribe" THEN "unsubscribe" ELSE "close"
    /\ UNCHANGED <<mode, exit, chan, closed, done, rpc, timers, queued, cb,
                   ppc, mux, link, sub, ext>>

(* Mutant: main unsubscribes under the mutex of callback and publisher. *)
UnsubscribeLocked ==
    /\ Alive /\ pc = "unsubscribe" /\ mux = "free"
    /\ pc' = IF link = "up" THEN "unsuback" ELSE "close"
    /\ UNCHANGED <<mode, exit, chan, closed, done, rpc, timers, queued, cb,
                   ppc, mux, link, sub, ext>>

(* client.Unsubscribe, without the mutex: on a client that is not          *)
(* connected it fails at once, and nobody looks at the error.              *)
Unsubscribe ==
    /\ Alive /\ pc = "unsubscribe"
    /\ pc' = IF link = "up" THEN "unsuback" ELSE "close"
    /\ UNCHANGED <<mode, exit, chan, closed, done, rpc, timers, queued, cb,
                   ppc, mux, link, sub, ext>>

(* Wait returns when the broker has answered, or the connection has gone.  *)
UnsubscribeWait ==
    /\ Alive /\ pc = "unsuback"
    /\ pc' = "close"
    /\ sub' = IF link = "up" THEN FALSE ELSE sub
    /\ UNCHANGED <<mode, exit, chan, closed, done, rpc, timers, queued, cb,
                   ppc, mux, link, ext>>

(* The deferred calls of main, last one first. *)
CloseChannel ==
    /\ Alive /\ pc = "close"
    /\ closed' = TRUE /\ pc' = "cancel"
    /\ UNCHANGED <<mode, exit, chan, done, rpc, timers, queued, cb, ppc, mux,
                   link, sub, ext>>

Cancel ==
    /\ Alive /\ pc = "cancel"
    /\ done' = TRUE /\ pc' = "return"
    /\ UNCHANGED <<mode, exit, chan, closed, rpc, timers, queued, cb, ppc, mux,
                   link, sub, ext>>

Return ==
    /\ Alive /\ pc = "return"
    /\ Ends("clean")
    /\ UNCHANGED <<mode, pc, chan, closed, done, rpc, timers, queued, cb, ppc,
                   mux, link, sub, ext>>

Main == \/ \E ok \in BOOLEAN : \/ Initialise(ok) \/ Register(ok)
                               \/ MainCredentials(ok) \/ MainConnect(ok)
        \/ MainSend \/ Spawn \/ Subscribe \/ StartPublisher
        \/ Unsubscribe \/ UnsubscribeWait \/ CloseChannel \/ Cancel \/ Return

----------------------------------------------------------------------------
(* The reconnecting goroutine. *)

(* Mutant: an expiry time is not taken out of the channel. *)
ArmTimerAgain ==
    /\ Alive /\ rpc = "select"
    /\ chan = 1 /\ timers + queued < MaxTimers
    /\ timers' = timers + 1
    /\ UNCHANGED <<mode, pc, exit, chan, closed, done, rpc, queued, cb, ppc,
                   mux, link, sub, ext>>

(* It arms a timer for each expiry time; from the closed and empty channel *)
(* it receives a zero whenever it asks.                                    *)
ArmTimer ==
    /\ Alive /\ rpc = "select"
    /\ \/ chan = 1 /\ chan' = 0
       \/ chan = 0 /\ closed /\ timers + queued < MaxTimers /\ UNCHANGED chan
    /\ timers' = timers + 1
    /\ UNCHANGED <<mode, pc, exit, closed, done, rpc, queued, cb, ppc, mux,
                   link, sub, ext>>

(* Its deferred timer.Stop was bound to the timer variable while that was  *)
(* still nil: the goroutine does not return, it panics.                    *)
StopNilTimer ==
    /\ Alive /\ rpc = "select" /\ done
    /\ Ends("panic")
    /\ UNCHANGED <<mode, pc, chan, closed, done, rpc, timers, queued, cb, ppc,
                   mux, link, sub, ext>>

----------------------------------------------------------------------------
(* The timer callback. *)

TimerFires ==
    /\ Alive /\ timers > 0
    /\ timers' = timers - 1 /\ queued' = queued + 1
    /\ UNCHANGED <<mode, pc, exit, chan, closed, done, rpc, cb, ppc, mux, link,
                   sub, ext>>

(* Mutant: the callback does not take the mutex. *)
CallbackWithoutLock ==
    /\ Alive /\ queued > 0 /\ cb = "none"
    /\ cb' = "locked" /\ queued' = queued - 1
    /\ UNCHANGED <<mode, pc, exit, chan, closed, done, rpc, timers, ppc, mux,
                   link, sub, ext>>

CallbackLock ==
    /\ Alive /\ queued > 0 /\ mux = "free"
    /\ mux' = "callback" /\ cb' = "locked" /\ queued' = queued - 1
    /\ UNCHANGED <<mode, pc, exit, chan, closed, done, rpc, timers, ppc, link,
                   sub, ext>>

(* client.Disconnect, if the client is connected or reconnecting; it does  *)
(* not stop a handler that has been launched.                              *)
CallbackDisconnect ==
    /\ Alive /\ cb = "locked"
    /\ link' = "down" /\ cb' = "credentials"
    /\ UNCHANGED <<mode, pc, exit, chan, closed, done, rpc, timers, queued,
                   ppc, mux, sub, ext>>

(* mqttMustConnect, as in main: the loop of the provider goes round with   *)
(* the mutex held.                                                         *)
CallbackCredentials(parsed) ==
    /\ Alive /\ cb = "credentials" /\ DeviceTokens
    /\ \/ parsed /\ cb' = "send" /\ UNCHANGED exit
       \/ ~parsed /\ Ends("panic") /\ UNCHANGED cb
    /\ UNCHANGED <<mode, pc, chan, closed, done, rpc, timers, queued, ppc, mux,
                   link, sub, ext>>

(* A send on the closed channel panics. *)
CallbackSend ==
    /\ Alive /\ cb = "send"
    /\ \/ closed /\ Ends("panic") /\ UNCHANGED <<chan, cb>>
       \/ ~closed /\ chan = 0 /\ chan' = 1 /\ cb' = "connecting"
          /\ UNCHANGED exit
    /\ UNCHANGED <<mode, pc, closed, done, rpc, timers, queued, ppc, mux, link,
                   sub, ext>>

(* The new client is connected and assigned, and the mutex is unlocked. *)
CallbackConnect(ok) ==
    /\ Alive /\ cb = "connecting"
    /\ \/ ok /\ cb' = "none" /\ mux' = "free" /\ link' = "up" /\ UNCHANGED exit
       \/ ~ok /\ Ends("panic") /\ UNCHANGED <<cb, mux, link>>
    /\ UNCHANGED <<mode, pc, chan, closed, done, rpc, timers, queued, ppc, sub,
                   ext>>

Callback == \/ CallbackDisconnect \/ CallbackSend
            \/ \E ok \in BOOLEAN : CallbackCredentials(ok) \/ CallbackConnect(ok)

----------------------------------------------------------------------------
(* The publisher goroutine, from one tick to the next. *)

PublisherLock ==
    /\ Alive /\ ppc = "idle" /\ mux = "free"
    /\ mux' = "publisher" /\ ppc' = "publishing"
    /\ UNCHANGED <<mode, pc, exit, chan, closed, done, rpc, timers, queued, cb,
                   link, sub, ext>>

(* Publish and Wait; an error is printed. *)
PublisherUnlock ==
    /\ Alive /\ ppc = "publishing"
    /\ mux' = "free" /\ ppc' = "idle"
    /\ UNCHANGED <<mode, pc, exit, chan, closed, done, rpc, timers, queued, cb,
                   link, sub, ext>>

PublisherDone ==
    /\ Alive /\ ppc = "idle" /\ done
    /\ ppc' = "done"
    /\ UNCHANGED <<mode, pc, exit, chan, closed, done, rpc, timers, queued, cb,
                   mux, link, sub, ext>>

----------------------------------------------------------------------------
(* The broker or the network drops the connection.  Paho launches the      *)
(* handler and, as AutoReconnect is on unless an option turns it off, a    *)
(* goroutine that reconnects the client; bound: one such goroutine.        *)
ConnectionLost ==
    /\ Alive /\ link = "up" /\ auto = "none"
    /\ link' = "lost" /\ handler' = TRUE /\ auto' = "credentials"
    /\ UNCHANGED <<mode, pc, exit, chan, closed, done, rpc, timers, queued, cb,
                   ppc, mux, sub, iec>>

(* The handler is a log.Fatal. *)
ConnectionLostHandler ==
    /\ Alive /\ handler
    /\ Ends("fatal")
    /\ UNCHANGED <<mode, pc, chan, closed, done, rpc, timers, queued, cb, ppc,
                   mux, link, sub, ext>>

(* Until the handler has run, paho's goroutine calls the credentials       *)
(* provider, without the mutex, for each attempt to reconnect ...          *)
AutoCredentials(parsed) ==
    /\ Alive /\ auto = "credentials" /\ DeviceTokens
    /\ chan + timers + queued < MaxTimers
    /\ \/ parsed /\ auto' = "send" /\ UNCHANGED exit
       \/ ~parsed /\ Ends("panic") /\ UNCHANGED auto
    /\ UNCHANGED <<mode, pc, chan, closed, done, rpc, timers, queued, cb, ppc,
                   mux, link, sub, iec, handler>>

AutoSend ==
    /\ Alive /\ auto = "send"
    /\ \/ closed /\ Ends("panic") /\ UNCHANGED <<chan, auto>>
       \/ ~closed /\ chan = 0 /\ chan' = 1 /\ auto' = "connecting"
          /\ UNCHANGED exit
    /\ UNCHANGED <<mode, pc, closed, done, rpc, timers, queued, cb, ppc, mux,
                   link, sub, iec, handler>>

(* ... and gives up when the callback has disconnected the client.         *)
AutoConnect(ok) ==
    /\ Alive /\ auto = "connecting"
    /\ auto' = IF ok \/ link # "lost" THEN "none" ELSE "credentials"
    /\ link' = IF ok /\ link = "lost" THEN "up" ELSE link
    /\ UNCHANGED <<mode, pc, exit, chan, closed, done, rpc, timers, queued, cb,
                   ppc, mux, sub, iec, handler>>

(* The IEC goes down, or comes back. *)
IecChanges ==
    /\ Alive
    /\ iec' = ~iec
    /\ UNCHANGED <<mode, pc, exit, chan, closed, done, rpc, timers, queued, cb,
                   ppc, mux, link, sub, handler, auto>>

External == \/ ConnectionLost \/ AutoSend \/ IecChanges
            \/ \E ok \in BOOLEAN : AutoCredentials(ok) \/ AutoConnect(ok)

Ended == ~Alive /\ UNCHANGED vars

Next == \/ Main \/ Input
        \/ ArmTimer \/ StopNilTimer
        \/ TimerFires \/ CallbackLock \/ Callback
        \/ PublisherLock \/ PublisherUnlock \/ PublisherDone
        \/ ConnectionLostHandler \/ External
        \/ Ended

Spec == Init /\ [][Next]_vars

(* Goroutines and timers run, and the broker answers a call that waits for *)
(* it; the mutex of sync starves nobody.  Of the IEC nothing is assumed: a *)
(* provider that asks it goes on only while it gives out tokens.           *)
Fairness == /\ WF_vars(Main)
            /\ WF_vars(ArmTimer) /\ WF_vars(TimerFires) /\ WF_vars(Callback)
            /\ SF_vars(CallbackLock)
            /\ WF_vars(PublisherUnlock)
            /\ WF_vars(ConnectionLostHandler)

FairSpec == Spec /\ Fairness

----------------------------------------------------------------------------
(* A connection attempt that has not sent its expiry time yet. *)
Asking == \/ pc \in {"credentials", "send"}
          \/ cb \in {"locked", "credentials", "send"}

(* While the channel is open there is exactly one reconnection under way,  *)
(* from a token's expiry time to the next token's: it is in the channel,   *)
(* in an armed timer, or in a callback that has not sent yet.  The chain   *)
(* neither breaks, so that the client would stay on an expired token, nor  *)
(* forks, so that the client would be replaced twice per expiry            *)
(* (main.go:170-211).  It ends with the first lost connection, after which *)
(* the process is about to end (main.go:164-166).                          *)
OneReconnectChain ==
    Alive /\ ~handler /\ ~closed /\ pc \notin {"initialise", "register"} =>
        chan + timers + queued + (IF Asking THEN 1 ELSE 0) = 1

(* The credentials provider, which runs while its caller holds the mutex,  *)
(* never blocks on a full channel: a buffer of one is enough (main.go:153, *)
(* 185), and no one waits for the mutex for ever.                          *)
SendNeverBlocks == ~handler /\ (pc = "send" \/ cb = "send") => chan = 0

(* The publisher never publishes over a client that the callback has taken *)
(* down: it sees the old client or the new one (main.go:202-208, 238-243). *)
PublishesOverLiveClient ==
    ppc = "publishing" => link # "down" /\ cb = "none" /\ mux = "publisher"

(* A client that the timer has taken down is replaced, or the process      *)
(* ends, if the IEC is some day back to give out tokens: after an outage   *)
(* of whatever length the device does not stay off line (main.go:170-208). *)
ClientReplaced == <>[]iec => (link = "down" ~> link = "up" \/ ~Alive)

(* Once the user has entered a key the process ends, although a callback   *)
(* may hold the mutex for as long as the IEC is down (main.go:176-182,     *)
(* 202-208, 249-259).                                                      *)
ExitCompletes == pc \in {"unsubscribe", "close"} ~> ~Alive

(* What the comment at main.go:256 says: the subscription does not leak    *)
(* into the next run of the program.                                       *)
NoSubscriptionLeak == exit = "clean" /\ mode = "subscribe" => ~sub
=============================================================================

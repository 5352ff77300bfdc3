------------------------- MODULE DeviceMqttGoProofs -------------------------
(***************************************************************************)
(* The safety properties of DeviceMqttGo, proved for every bound on the    *)
(* timers.  The inductive invariant adds to them where the goroutines are  *)
(* while main is still in its set-up, who owns the mutex, and that a full  *)
(* channel means that no other reconnection is under way.                  *)
(***************************************************************************)
EXTENDS DeviceMqttGo, TLAPS

Before == {"initialise", "register", "credentials", "send", "connecting",
           "spawn"}

(* Until main has spawned the goroutine there are no timers and callbacks, *)
(* and the channel is closed only when main is about to return.            *)
Phases ==
    /\ ~handler /\ pc \in {"initialise", "register", "credentials", "send"} =>
           chan = 0
    /\ pc \in Before => rpc = "none"
    /\ pc \in Before \cup {"work"} => ppc = "none"
    /\ rpc = "none" => timers = 0 /\ queued = 0 /\ cb = "none"
    /\ closed => pc \in {"cancel", "return"}
    /\ auto # "none" => handler

(* The mutex is owned by the one that is in its critical section, and only *)
(* the callback takes the client down.                                     *)
Ownership ==
    /\ mux = "callback" <=> cb # "none"
    /\ mux = "publisher" <=> ppc = "publishing"
    /\ link = "down" => cb \in {"credentials", "send", "connecting"}

Asked == IF Asking THEN 1 ELSE 0

(* Until a connection is lost, one reconnection is under way while the     *)
(* channel is open, and a full channel is the only one even after that.    *)
Chain ==
    /\ ~handler /\ ~closed /\ pc \notin {"initialise", "register"} =>
           chan + timers + queued + Asked = 1
    /\ ~handler /\ chan = 1 => timers = 0 /\ queued = 0 /\ ~Asking

IInv == TypeOK /\ Phases /\ Ownership /\ Chain

LEMMA InitIInv == Init => IInv
<1> SUFFICES ASSUME Init PROVE IInv
  OBVIOUS
<1> USE DEF Init
<1>1. TypeOK
  <2>1. closed \in BOOLEAN /\ done \in BOOLEAN
    BY Zenon
  <2>2. sub \in BOOLEAN
    BY Zenon
  <2>3. iec \in BOOLEAN /\ handler \in BOOLEAN
    BY Zenon
  <2> QED  BY <2>1, <2>2, <2>3 DEF TypeOK, MainSteps, CallbackPcs,
                              PubPcs, AutoPcs
<1>2. Phases /\ Ownership /\ Chain
  BY DEF Phases, Ownership, Chain, Before, Asking
<1> QED  BY <1>1, <1>2 DEF IInv

(* The steps of main keep the invariant. *)
LEMMA MainIInv == IInv /\ (Main \/ Input) => IInv'
<1> SUFFICES ASSUME IInv, Main \/ Input PROVE IInv'
  OBVIOUS
<1> USE DEF IInv, TypeOK, Phases, Ownership, Chain, Asked, Asking, Before, Ends,
            Alive, MainSteps, CallbackPcs, PubPcs, AutoPcs,
            Modes, ext, DeviceTokens
<1>1. ASSUME NEW ok \in BOOLEAN, Initialise(ok) PROVE IInv'
  BY <1>1 DEF Initialise, SetupStep
<1>2. ASSUME NEW ok \in BOOLEAN, Register(ok) PROVE IInv'
  BY <1>2 DEF Register, SetupStep
<1>3. ASSUME NEW ok \in BOOLEAN, MainCredentials(ok) PROVE IInv'
  BY <1>3 DEF MainCredentials
<1>4. ASSUME NEW ok \in BOOLEAN, MainConnect(ok) PROVE IInv'
  BY <1>4 DEF MainConnect
<1>5. CASE MainSend
  BY <1>5 DEF MainSend
<1>6. CASE Spawn
  BY <1>6 DEF Spawn
<1>7. CASE Subscribe
  <2>1. TypeOK'
    BY <1>7 DEF Subscribe
  <2>2. Phases'
    BY <1>7 DEF Subscribe
  <2>3. Ownership'
    BY <1>7 DEF Subscribe
  <2>4. Chain'
    BY <1>7 DEF Subscribe
  <2> QED  BY <2>1, <2>2, <2>3, <2>4
<1>8. CASE StartPublisher
  BY <1>8 DEF StartPublisher
<1>9. CASE Input
  BY <1>9 DEF Input
<1>10. CASE Unsubscribe
  BY <1>10 DEF Unsubscribe
<1>11. CASE UnsubscribeWait
  <2>1. TypeOK'
    <3>1. sub' \in BOOLEAN
      BY <1>11, Zenon DEF UnsubscribeWait
    <3>2. /\ pc' = "close"
          /\ UNCHANGED <<mode, exit, chan, closed, done, rpc, timers, queued,
                         cb, ppc, mux, link, iec, handler, auto>>
      BY <1>11 DEF UnsubscribeWait
    <3> QED  BY <3>1, <3>2
  <2>2. Phases'
    BY <1>11 DEF UnsubscribeWait
  <2>3. Ownership'
    BY <1>11 DEF UnsubscribeWait
  <2>4. Chain'
    BY <1>11 DEF UnsubscribeWait
  <2> QED  BY <2>1, <2>2, <2>3, <2>4
<1>12. CASE CloseChannel
  BY <1>12 DEF CloseChannel
<1>13. CASE Cancel
  BY <1>13 DEF Cancel
<1>14. CASE Return
  BY <1>14 DEF Return
<1> QED
  BY <1>1, <1>2, <1>3, <1>4, <1>5, <1>6, <1>7, <1>8, <1>9, <1>10, <1>11, <1>12,
     <1>13, <1>14, Zenon DEF Main

(* So do the reconnecting goroutine, the timers and their callback. *)
LEMMA CallbackIInv ==
    IInv /\ (ArmTimer \/ StopNilTimer \/ TimerFires \/ CallbackLock \/ Callback)
        => IInv'
<1> SUFFICES ASSUME IInv,
                    ArmTimer \/ StopNilTimer \/ TimerFires \/ CallbackLock
                        \/ Callback
             PROVE  IInv'
  OBVIOUS
<1> USE DEF IInv, TypeOK, Phases, Ownership, Chain, Asked, Asking, Before, Ends,
            Alive, MainSteps, CallbackPcs, PubPcs, AutoPcs,
            Modes, ext, DeviceTokens
<1>1. CASE ArmTimer
  BY <1>1 DEF ArmTimer
<1>2. CASE StopNilTimer
  BY <1>2 DEF StopNilTimer
<1>3. CASE TimerFires
  BY <1>3 DEF TimerFires
<1>4. CASE CallbackLock
  BY <1>4 DEF CallbackLock
<1>5. CASE CallbackDisconnect
  BY <1>5 DEF CallbackDisconnect
<1>6. ASSUME NEW ok \in BOOLEAN, CallbackCredentials(ok) PROVE IInv'
  BY <1>6 DEF CallbackCredentials
<1>7. CASE CallbackSend
  BY <1>7 DEF CallbackSend
<1>8. ASSUME NEW ok \in BOOLEAN, CallbackConnect(ok) PROVE IInv'
  BY <1>8 DEF CallbackConnect
<1> QED
  BY <1>1, <1>2, <1>3, <1>4, <1>5, <1>6, <1>7, <1>8, Zenon DEF Callback

(* So do the IEC and the library's own goroutine. *)
LEMMA ExternalIInv == IInv /\ External => IInv'
<1> SUFFICES ASSUME IInv, External PROVE IInv'
  OBVIOUS
<1> USE DEF IInv, TypeOK, Phases, Ownership, Chain, Asked, Asking, Before, Ends,
            Alive, MainSteps, CallbackPcs, PubPcs, AutoPcs, Modes, DeviceTokens
<1>1. CASE ConnectionLost
  BY <1>1 DEF ConnectionLost
<1>2. CASE AutoSend
  BY <1>2 DEF AutoSend
<1>3. CASE IecChanges
  BY <1>3 DEF IecChanges
<1>4. ASSUME NEW ok \in BOOLEAN, AutoCredentials(ok) PROVE IInv'
  BY <1>4 DEF AutoCredentials
<1>5. ASSUME NEW ok \in BOOLEAN, AutoConnect(ok) PROVE IInv'
  BY <1>5 DEF AutoConnect
<1> QED  BY <1>1, <1>2, <1>3, <1>4, <1>5, Zenon DEF External

LEMMA NextIInv == IInv /\ [Next]_vars => IInv'
<1> SUFFICES ASSUME IInv, [Next]_vars PROVE IInv'
  OBVIOUS
<1> USE DEF IInv, TypeOK, Phases, Ownership, Chain, Asked, Asking, Before, Ends,
            Alive, MainSteps, CallbackPcs, PubPcs, AutoPcs,
            Modes, ext, DeviceTokens
<1>1. CASE Main \/ Input
  BY <1>1, MainIInv
<1>2. CASE ArmTimer \/ StopNilTimer \/ TimerFires \/ CallbackLock \/ Callback
  BY <1>2, CallbackIInv
<1>3. CASE PublisherLock
  BY <1>3 DEF PublisherLock
<1>4. CASE PublisherUnlock
  BY <1>4 DEF PublisherUnlock
<1>5. CASE PublisherDone
  BY <1>5 DEF PublisherDone
<1>6. CASE External
  BY <1>6, ExternalIInv
<1>7. CASE ConnectionLostHandler
  BY <1>7 DEF ConnectionLostHandler
<1>8. CASE UNCHANGED vars
  BY <1>8 DEF vars
<1> QED
  BY <1>1, <1>2, <1>3, <1>4, <1>5, <1>6, <1>7, <1>8, Zenon DEF Next, Ended

THEOREM Inductive == Spec => []IInv
<1> QED  BY InitIInv, NextIInv, PTL DEF Spec

----------------------------------------------------------------------------
(* Every variable of the Go device keeps its type (main.go:117-259). *)
THEOREM TypeCorrect == Spec => []TypeOK
<1>1. IInv => TypeOK
  BY DEF IInv
<1> QED  BY <1>1, Inductive, PTL

(* While the channel is open, and until a connection is lost, there is one *)
(* reconnection under way, never none and never two (main.go:170-211).     *)
THEOREM OneReconnection == Spec => []OneReconnectChain
<1>1. IInv => OneReconnectChain
  BY DEF IInv, Chain, OneReconnectChain, Asked
<1> QED  BY <1>1, Inductive, PTL

(* Until a connection is lost, the credentials provider finds room in the  *)
(* channel (main.go:153, 185).                                             *)
THEOREM RoomInChannel == Spec => []SendNeverBlocks
<1>1. IInv => SendNeverBlocks
  BY DEF IInv, TypeOK, Chain, Phases, SendNeverBlocks, Asking
<1> QED  BY <1>1, Inductive, PTL

(* The publisher never publishes over a client that the timer callback is  *)
(* replacing (main.go:202-208, 238-243).                                   *)
THEOREM PublisherSafe == Spec => []PublishesOverLiveClient
<1>1. IInv => PublishesOverLiveClient
  BY DEF IInv, TypeOK, Ownership, PublishesOverLiveClient, CallbackPcs
<1> QED  BY <1>1, Inductive, PTL

=============================================================================

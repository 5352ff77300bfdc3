--------------------------- MODULE MqttSessionProofs ---------------------------
(***************************************************************************)
(* Proofs about the C publisher, with any broker and with HiveMQ.          *)
(*                                                                         *)
(* The publisher by itself is the instance Device of DeviceMqttPub, whose  *)
(* faults are bounded at Faulty + 1 tokens.  Its inductive invariant       *)
(* DeviceInv does not mention the bound, so that it serves Spec (at most   *)
(* Faulty) and the session alike.                                          *)
(*                                                                         *)
(* The session is proved by showing that each of its steps is a step, or a *)
(* stutter, of both parts: of HiveMQ with its extension, so that the       *)
(* invariant of HiveMQExtensionProofs is preserved and its description of  *)
(* what a step does to a connection applies, and of the device with any    *)
(* broker.  What ties the two together is Agreement; it is needed for the  *)
(* second half, since an answer that the broker gives to a connection that *)
(* is no longer the device's must not reach the device.  Service, at the   *)
(* end, follows the requests about a token that no fault happens to.       *)
(***************************************************************************)
EXTENDS MqttSession, Sequences, TLAPS

Device == INSTANCE DeviceMqttPub WITH Faulty <- Faulty + 1

Early == Setup \cup {"start", "connect"}

(* Before the first connection nothing has happened on the network, and    *)
(* the network thread is in no callback unless it runs.                    *)
Beginning ==
    /\ pc \in Early =>
          /\ link = "down" /\ ~connected /\ ~disconnecting /\ cb = "none"
          /\ refused = 0
    /\ pc \in Setup \cup {"start"} => ~loop
    /\ pc \in {"destroy", "exited"} => ~loop
    /\ ~loop => cb = "none"
    /\ pc \in Setup \cup {"start", "connect", "wait", "publish"} =>
          i < Messages

(* What each callback may rely on. *)
Callbacks ==
    /\ cb = "connack" => link \in IF rc = "success" THEN {"up", "lost"}
                                                    ELSE {"refused"}
    /\ cb \in {"disconnect", "fetch", "reconnect"} => link = "down"
    /\ cb = "disconnect" /\ rc = "success" => disconnecting
    /\ cb \in {"fetch", "reconnect"} => ~connected

(* Tokens are replaced by newer ones. *)
TokenOrder ==
    /\ password <= tokens /\ refused <= password
    /\ cb = "reconnect" => password < tokens
    /\ pc = "new" => tokens >= 1
    /\ pc \in Running => password >= 1
    /\ link # "down" => password >= 1

Replacement ==
    \/ link = "connecting"
    \/ link = "down" /\ loop /\ cb = "none" /\ ~disconnecting
    => (password = refused /\ refused # 0 => fetchFailed)

DeviceInv == /\ TypeOK
        /\ Beginning
        /\ Callbacks
        /\ TokenOrder
        /\ Replacement
        /\ ConnectedTracksLink

LEMMA InitDevice == Init => DeviceInv
<1> SUFFICES ASSUME Init PROVE DeviceInv
  OBVIOUS
<1> USE BoundsAssumption DEF Init
<1>1. TypeOK
  <2>1. 0 \in 0..Messages
    OBVIOUS
  <2>2. pc \in Setup
    BY DEF Setup
  <2>3. connected \in BOOLEAN /\ loop \in BOOLEAN /\ disconnecting \in BOOLEAN
    BY Zenon
  <2>4. fetchFailed \in BOOLEAN
    BY Zenon
  <2> QED  BY <2>1, <2>2, <2>3, <2>4 DEF TypeOK
<1>2. Beginning /\ Callbacks /\ TokenOrder
  BY DEF Beginning, Callbacks, TokenOrder, Early, Setup, Running
<1>3. Replacement /\ ConnectedTracksLink
  BY DEF Replacement, ConnectedTracksLink
<1> QED  BY <1>1, <1>2, <1>3 DEF DeviceInv

LEMMA MainDevice == DeviceInv /\ Device!Main => DeviceInv'
<1> SUFFICES ASSUME DeviceInv, Device!Main PROVE DeviceInv'
  OBVIOUS
<1> USE BoundsAssumption
    DEF DeviceInv, TypeOK, Beginning, Callbacks, TokenOrder, Replacement,
        ConnectedTracksLink, Early, Setup, Running, Results, Device!Results,
        Device!libVars, Device!history
<1>1. ASSUME NEW ok \in BOOLEAN, Device!SetAttributes(ok) PROVE DeviceInv'
  BY <1>1 DEF Device!SetAttributes, Device!SetupStep
<1>2. ASSUME NEW ok \in BOOLEAN, Device!Initialise(ok) PROVE DeviceInv'
  BY <1>2 DEF Device!Initialise, Device!SetupStep
<1>3. ASSUME NEW ok \in BOOLEAN, Device!Register(ok) PROVE DeviceInv'
  BY <1>3 DEF Device!Register, Device!SetupStep
<1>4. ASSUME NEW ok \in BOOLEAN, Device!FirstToken(ok) PROVE DeviceInv'
  BY <1>4 DEF Device!FirstToken, Device!SetupStep
<1>5. ASSUME NEW ok \in BOOLEAN, Device!NewClient(ok) PROVE DeviceInv'
  BY <1>5 DEF Device!NewClient, Device!SetupStep
<1>6. CASE Device!LoopStart
  BY <1>6 DEF Device!LoopStart
<1>7. CASE Device!ConnectAsync
  BY <1>7 DEF Device!ConnectAsync
<1>8. CASE Device!WaitConnected
  BY <1>8 DEF Device!WaitConnected
<1>9. CASE Device!Publish
  <2>1. result' \in Results
    BY <1>9 DEF Device!Publish, Device!PublishResults, Results
  <2> QED  BY <1>9, <2>1 DEF Device!Publish
<1>10. CASE Device!Disconnect
  <2>1. TypeOK'
    BY <1>10 DEF Device!Disconnect
  <2>2. Beginning' /\ Callbacks'
    BY <1>10 DEF Device!Disconnect
  <2>3. TokenOrder'
    BY <1>10 DEF Device!Disconnect
  <2>4. Replacement' /\ ConnectedTracksLink'
    BY <1>10 DEF Device!Disconnect
  <2> QED  BY <2>1, <2>2, <2>3, <2>4
<1>11. CASE Device!LoopStop
  <2>1. TypeOK'
    BY <1>11 DEF Device!LoopStop
  <2>2. Beginning' /\ Callbacks' /\ TokenOrder'
    BY <1>11 DEF Device!LoopStop
  <2>3. Replacement' /\ ConnectedTracksLink'
    BY <1>11 DEF Device!LoopStop
  <2> QED  BY <2>1, <2>2, <2>3
<1>12. CASE Device!Destroy
  BY <1>12 DEF Device!Destroy
<1> QED  BY <1>1, <1>2, <1>3, <1>4, <1>5, <1>6, <1>7, <1>8, <1>9, <1>10,
            <1>11, <1>12 DEF Device!Main

LEMMA NetworkDevice ==
    DeviceInv /\ (Device!NetworkThread \/ Device!get_access_token(TRUE))
        => DeviceInv'
<1> SUFFICES ASSUME DeviceInv,
                    Device!NetworkThread \/ Device!get_access_token(TRUE)
             PROVE  DeviceInv'
  OBVIOUS
<1> USE BoundsAssumption
    DEF DeviceInv, TypeOK, Beginning, Callbacks, TokenOrder, Replacement,
        ConnectedTracksLink, Early, Setup, Running, Results, Device!Results,
        Device!mainVars, Device!libVars, Device!history, Device!Idle
<1>1. CASE Device!mosq_connect_cb
  <2>1. TypeOK'
    BY <1>1 DEF Device!mosq_connect_cb
  <2>2. Beginning' /\ Callbacks'
    BY <1>1 DEF Device!mosq_connect_cb
  <2>3. TokenOrder'
    BY <1>1 DEF Device!mosq_connect_cb
  <2>4. Replacement' /\ ConnectedTracksLink'
    BY <1>1 DEF Device!mosq_connect_cb
  <2> QED  BY <2>1, <2>2, <2>3, <2>4
<1>2. CASE Device!mosq_disconnect_cb
  <2>1. TypeOK'
    BY <1>2 DEF Device!mosq_disconnect_cb
  <2>2. Beginning' /\ Callbacks'
    BY <1>2 DEF Device!mosq_disconnect_cb
  <2>3. TokenOrder'
    BY <1>2 DEF Device!mosq_disconnect_cb
  <2>4. Replacement' /\ ConnectedTracksLink'
    BY <1>2 DEF Device!mosq_disconnect_cb
  <2> QED  BY <2>1, <2>2, <2>3, <2>4
<1>3. ASSUME NEW ok \in BOOLEAN, Device!get_access_token(ok) PROVE DeviceInv'
  BY <1>3 DEF Device!get_access_token
<1>4. CASE Device!UseFreshToken
  <2>1. TypeOK' /\ Beginning' /\ Callbacks' /\ ConnectedTracksLink'
    BY <1>4 DEF Device!UseFreshToken
  <2>2. TokenOrder' /\ password' # refused'
    BY <1>4 DEF Device!UseFreshToken
  <2> QED  BY <2>1, <2>2
<1>5. CASE Device!Connack
  BY <1>5 DEF Device!Connack
<1>6. CASE Device!NoticeLoss
  BY <1>6 DEF Device!NoticeLoss
<1>7. CASE Device!AutoReconnect
  BY <1>7 DEF Device!AutoReconnect
<1> QED  BY <1>1, <1>2, <1>3, <1>4, <1>5, <1>6, <1>7 DEF Device!NetworkThread

LEMMA NextDevice == DeviceInv /\ [Device!Next]_Device!vars => DeviceInv'
<1> SUFFICES ASSUME DeviceInv, [Device!Next]_Device!vars PROVE DeviceInv'
  OBVIOUS
<1>1. CASE Device!Main
  BY <1>1, MainDevice
<1>2. CASE Device!NetworkThread \/ Device!get_access_token(TRUE)
  BY <1>2, NetworkDevice
<1> USE BoundsAssumption
    DEF DeviceInv, TypeOK, Beginning, Callbacks, TokenOrder, Replacement,
        ConnectedTracksLink, Early, Setup, Running, Results, Device!Results,
        Device!mainVars, Device!libVars, Device!history
<1>3. CASE Device!LinkDrops
  BY <1>3 DEF Device!LinkDrops
<1>4. CASE UNCHANGED Device!vars
  BY <1>4 DEF Device!vars
<1> QED  BY <1>1, <1>2, <1>3, <1>4 DEF Device!Next, Device!Exited

----------------------------------------------------------------------------
(* A step of the device with Faulty tokens subject to faults is one with   *)
(* more of them.                                                           *)

LEMMA SameMain == Main => Device!Main
<1> USE DEF SetupStep, Device!SetupStep, mainVars, libVars, history,
            Device!mainVars, Device!libVars, Device!history
<1>1. ASSUME NEW ok \in BOOLEAN,
             \/ SetAttributes(ok) \/ Initialise(ok) \/ Register(ok)
             \/ FirstToken(ok) \/ NewClient(ok)
      PROVE  \/ Device!SetAttributes(ok) \/ Device!Initialise(ok)
             \/ Device!Register(ok) \/ Device!FirstToken(ok)
             \/ Device!NewClient(ok)
  BY <1>1, Zenon
  DEF SetAttributes, Initialise, Register, FirstToken, NewClient,
      Device!SetAttributes, Device!Initialise, Device!Register,
      Device!FirstToken, Device!NewClient
<1>2. Publish => Device!Publish
  BY Zenon DEF Publish, PublishResults, Results, Device!Publish,
               Device!PublishResults, Device!Results
<1>3. /\ LoopStart => Device!LoopStart
      /\ ConnectAsync => Device!ConnectAsync
      /\ WaitConnected => Device!WaitConnected
      /\ Disconnect => Device!Disconnect
      /\ LoopStop => Device!LoopStop
      /\ Destroy => Device!Destroy
  BY Zenon
  DEF LoopStart, ConnectAsync, WaitConnected, Disconnect, LoopStop, Destroy,
      Device!LoopStart, Device!ConnectAsync, Device!WaitConnected,
      Device!Disconnect, Device!LoopStop, Device!Destroy
<1> QED  BY <1>1, <1>2, <1>3, Zenon DEF Main, Device!Main

LEMMA SameCallbacks ==
    /\ mosq_connect_cb => Device!mosq_connect_cb
    /\ mosq_disconnect_cb => Device!mosq_disconnect_cb
    /\ \A ok \in BOOLEAN : get_access_token(ok) => Device!get_access_token(ok)
    /\ UseFreshToken => Device!UseFreshToken
    /\ NoticeLoss => Device!NoticeLoss
    /\ AutoReconnect => Device!AutoReconnect
  BY Zenon
  DEF mosq_connect_cb, mosq_disconnect_cb, get_access_token, UseFreshToken,
      NoticeLoss, AutoReconnect, Idle, mainVars, libVars, history,
      Device!mosq_connect_cb, Device!mosq_disconnect_cb,
      Device!get_access_token, Device!UseFreshToken, Device!NoticeLoss,
      Device!AutoReconnect, Device!Idle, Device!mainVars, Device!libVars,
      Device!history

LEMMA MoreFaults ==
    ASSUME password \in Nat
    PROVE  /\ Connack => Device!Connack
           /\ LinkDrops => Device!LinkDrops
  BY BoundsAssumption
  DEF Connack, LinkDrops, Idle, mainVars, history, Device!Connack,
      Device!LinkDrops, Device!Idle, Device!mainVars, Device!history

LEMMA DeviceStep == DeviceInv /\ [Next]_vars => [Device!Next]_(Device!vars)
<1> SUFFICES ASSUME DeviceInv, [Next]_vars
             PROVE  [Device!Next]_(Device!vars)
  OBVIOUS
<1>1. CASE NetworkThread \/ get_access_token(TRUE) \/ LinkDrops
  BY <1>1, SameCallbacks, MoreFaults
  DEF DeviceInv, TypeOK, NetworkThread, Device!NetworkThread, Device!Next
<1>2. CASE Main
  BY <1>2, SameMain DEF Device!Next
<1>3. CASE UNCHANGED vars
  BY <1>3, Zenon
  DEF vars, mainVars, libVars, history, Device!vars, Device!mainVars,
      Device!libVars, Device!history
<1> QED  BY <1>1, <1>2, <1>3 DEF Next, Exited

LEMMA DeviceInvariance == Spec => []DeviceInv
  BY InitDevice, DeviceStep, NextDevice, PTL DEF Spec

(* Every reachable state is well typed. *)
THEOREM TypeCorrect == Spec => []TypeOK
<1>1. DeviceInv => TypeOK
  BY DEF DeviceInv
<1> QED  BY <1>1, DeviceInvariance, PTL

(* Between callbacks the flag main spins on agrees with the connection. *)
THEOREM FlagIsTrue == Spec => []ConnectedTracksLink
<1>1. DeviceInv => ConnectedTracksLink
  BY DEF DeviceInv
<1> QED  BY <1>1, DeviceInvariance, PTL

(* A refused token is presented again only if no new one could be had. *)
THEOREM RefusedTokensGo == Spec => []RefusedTokenReplaced
<1>1. DeviceInv => RefusedTokenReplaced
  BY DEF DeviceInv, TokenOrder, Replacement, RefusedTokenReplaced, TypeOK
<1> QED  BY <1>1, DeviceInvariance, PTL

(* The network thread runs no callback on a destroyed client. *)
THEOREM NoCallbackAfterDestroy == Spec => []QuietAfterDestroy
<1>1. DeviceInv => QuietAfterDestroy
  BY DEF DeviceInv, Beginning, QuietAfterDestroy
<1> QED  BY <1>1, DeviceInvariance, PTL

----------------------------------------------------------------------------
(* HiveMQ in the session: a step of the session is one of the extension,   *)
(* or none of its, so that what is proved of the extension holds here.     *)

Broker == INSTANCE HiveMQExtensionProofs WITH
    Conns <- {"device"}, Requests <- Slots, Workers <- 1,
    Tokens <- IecTokens, Issued <- IecTokens, Topics <- {"data"},
    MqttScopes <- [t \in IecTokens |-> <<"data">>],
    NoConn <- "none", NoToken <- 0, NoTopic <- "none"

LEMMA BrokerConstants == Broker!ConstantsAssumption
  BY BoundsAssumption DEF Broker!ConstantsAssumption, IecTokens

LEMMA SameRequests ==
    ASSUME NEW r \in Slots
    PROVE  /\ \A p \in IecTokens \cup {0} :
                 Hive!OnConnect("device", r, p) =>
                     Broker!OnConnect("device", r, p)
           /\ Hive!AuthorizePublish("device", r, "data") =>
                  Broker!AuthorizePublish("device", r, "data")
<1> USE DEF Hive!Free, Hive!NewRequest, Hive!RefusedRequest, Hive!FreeSlot,
            Hive!Dead, Broker!Free, Broker!NewRequest,
            Broker!RefusedRequest, Broker!FreeSlot, Broker!Dead
<1>1. ASSUME NEW p \in IecTokens \cup {0}, Hive!OnConnect("device", r, p)
      PROVE  Broker!OnConnect("device", r, p)
  BY <1>1, Zenon DEF Hive!OnConnect, Broker!OnConnect
<1>2. Hive!AuthorizePublish("device", r, "data") =>
          Broker!AuthorizePublish("device", r, "data")
  BY Zenon
  DEF Hive!AuthorizePublish, Hive!Authorize, Hive!CloseWith,
      Hive!VoidPending, Broker!AuthorizePublish, Broker!Authorize,
      Broker!CloseWith, Broker!VoidPending
<1> QED  BY <1>1, <1>2

LEMMA SameEndings ==
    ASSUME NEW r \in Slots
    PROVE  /\ Hive!ConnectionLost("device") => Broker!ConnectionLost("device")
           /\ Hive!Timeout(r) => Broker!Timeout(r)
           /\ Hive!ReleaseSlot(r) => Broker!ReleaseSlot(r)
  BY Zenon
  DEF Hive!ConnectionLost, Hive!Timeout, Hive!ReleaseSlot, Hive!Pending,
      Hive!FreeSlot, Hive!CloseWith, Hive!VoidPending, Hive!RefuseByBroker,
      Broker!ConnectionLost, Broker!Timeout, Broker!ReleaseSlot,
      Broker!Pending, Broker!FreeSlot, Broker!CloseWith, Broker!VoidPending,
      Broker!RefuseByBroker

LEMMA SameTasks ==
    ASSUME NEW r \in Slots
    PROVE  /\ Hive!StartTask(r) => Broker!StartTask(r)
           /\ Hive!Introspect(r) => Broker!Introspect(r)
           /\ Hive!IntrospectFails(r) => Broker!IntrospectFails(r)
           /\ Hive!TaskThrows(r) => Broker!TaskThrows(r)
           /\ Hive!ProcessResponse(r) => Broker!ProcessResponse(r)
           /\ Hive!Resume(r) => Broker!Resume(r)
<1>1. Hive!StartTask(r) => Broker!StartTask(r)
  BY Zenon
  DEF Hive!StartTask, Hive!Busy, Hive!SetTask, Hive!Cardinality,
      Broker!StartTask, Broker!Busy, Broker!SetTask, Broker!Cardinality
<1>4. Hive!Introspect(r) => Broker!Introspect(r)
  BY Zenon DEF Hive!Introspect, Hive!Dead, Broker!Introspect, Broker!Dead
<1>5. /\ Hive!IntrospectFails(r) => Broker!IntrospectFails(r)
      /\ Hive!TaskThrows(r) => Broker!TaskThrows(r)
  BY Zenon
  DEF Hive!IntrospectFails, Hive!TaskThrows, Hive!SetTask,
      Broker!IntrospectFails, Broker!TaskThrows, Broker!SetTask
<1>2. Hive!ProcessResponse(r) => Broker!ProcessResponse(r)
  BY Zenon
  DEF Hive!ProcessResponse, Hive!Verdict, Hive!ConnectAllowed,
      Hive!SubscriptionAllowed, Hive!PublishAllowed, Hive!isTokenActive,
      Hive!getMQTTScope,
      Broker!ProcessResponse, Broker!Verdict, Broker!ConnectAllowed,
      Broker!SubscriptionAllowed, Broker!PublishAllowed,
      Broker!isTokenActive, Broker!getMQTTScope
<1>3. Hive!Resume(r) => Broker!Resume(r)
  BY Zenon
  DEF Hive!Resume, Hive!Pending, Hive!Apply, Hive!CloseWith,
      Hive!VoidPending, Hive!Settle, Hive!SetTask, Hive!DefaultPermissions,
      Hive!getMQTTScope, Hive!RefuseByBroker,
      Broker!Resume, Broker!Pending, Broker!Apply, Broker!CloseWith,
      Broker!VoidPending, Broker!Settle, Broker!SetTask,
      Broker!DefaultPermissions, Broker!getMQTTScope, Broker!RefuseByBroker
<1> QED  BY <1>1, <1>2, <1>3, <1>4, <1>5

LEMMA SameTokens ==
    ASSUME NEW t \in IecTokens
    PROVE  /\ Hive!TokenDies(t) => Broker!TokenDies(t)
           /\ Hive!CacheExpires(t) => Broker!CacheExpires(t)
  BY Zenon DEF Hive!TokenDies, Hive!CacheExpires, Broker!TokenDies,
               Broker!CacheExpires

----------------------------------------------------------------------------
(* The invariant of the session. *)

(* The IEC issues one token more than are subject to faults. *)
TokenBound ==
    /\ tokens <= Faulty + 1
    /\ pc \in {"attributes", "initialise", "register", "token"} => tokens = 0

(* A connection that is the device's current one was made with its present *)
(* password; the two sides have got equally far with it, unless the        *)
(* device's thread has been stopped before it could hear the answer.       *)
Agreement ==
    /\ attached =>
          /\ phase["device"] # "offline" /\ store["device"] = password
          /\ phase["device"] = "connecting" => link = "connecting"
          /\ phase["device"] = "connected" =>
                \/ link = "up"
                \/ link = "connecting" /\ ~loop
    /\ SessionAgrees

IInv == /\ DeviceInv
        /\ Broker!IInv
        /\ attached \in BOOLEAN
        /\ TokenBound
        /\ Agreement

LEMMA InitSession == SessionInit => IInv
<1> SUFFICES ASSUME SessionInit PROVE IInv
  OBVIOUS
<1>1. DeviceInv
  BY InitDevice DEF SessionInit
<1>2. Broker!IInv
  <2>1. Broker!TypeOK
    <3>1. Broker!FreeSlot \in Broker!Slot
      BY Broker!FreeSlotType, BrokerConstants DEF Broker!ConstantsAssumption
    <3>2. req \in [Slots -> Broker!Slot]
      BY <3>1 DEF SessionInit, Hive!FreeSlot, Broker!FreeSlot
    <3> QED  BY <3>2 DEF SessionInit, Broker!TypeOK
  <2>2. \A r \in Slots : req[r] = Broker!FreeSlot
    BY DEF SessionInit, Hive!FreeSlot, Broker!FreeSlot
  <2>3. \A r \in Slots : ~Broker!Pending(r) /\ Broker!Consistent(req[r])
    BY <2>2 DEF Broker!FreeSlot, Broker!Pending, Broker!Consistent,
                Broker!isTokenActive
  <2>4. Broker!Channels /\ Broker!OnlyIssuedAlive
    BY DEF SessionInit, Broker!Channels, Broker!OnlyIssuedAlive
  <2>5. Broker!OneConnectPending /\ Broker!AdmittedByToken
    BY <2>3 DEF SessionInit, Broker!OneConnectPending,
                Broker!ConnectRequests, Broker!AdmittedByToken
  <2> QED  BY <2>1, <2>3, <2>4, <2>5
           DEF Broker!IInv, Broker!PendingRequests, Broker!SlotsConsistent
<1>3. attached = FALSE /\ link = "down" /\ tokens = 0
  BY DEF SessionInit, Init
<1>4. attached \in BOOLEAN
  BY <1>3, Zenon
<1>5. TokenBound /\ Agreement
  BY <1>3, BoundsAssumption DEF TokenBound, Agreement, SessionAgrees
<1> QED  BY <1>1, <1>2, <1>4, <1>5 DEF IInv

(* What a step of the session does to the extension. *)
LEMMA HiveStep ==
    ASSUME IInv, [SessionNext]_all
    PROVE  [Broker!Next]_(Broker!vars)
<1>11. ASSUME UNCHANGED hiveVars PROVE UNCHANGED Broker!vars
  BY <1>11 DEF hiveVars, Broker!vars
<1>1. ASSUME NEW r \in Slots, Release(r) PROVE Broker!Next
  BY <1>1, SameEndings DEF Release, Broker!Next
<1>2. CASE MainStep
  <2>1. ASSUME NEW r \in Slots, Hive!AuthorizePublish("device", r, "data")
        PROVE  Broker!Next
    BY <2>1, SameRequests DEF Broker!Next, Broker!Handlers
  <2>2. CASE PublishStep
    BY <1>11, <2>1, <2>2 DEF PublishStep, NextSlot
  <2>3. CASE Main /\ Alone
    BY <1>11, <2>3 DEF Alone
  <2> QED  BY <1>2, <2>2, <2>3 DEF MainStep
<1>3. CASE ThreadStep \/ FreshToken
  BY <1>11, <1>3 DEF ThreadStep, FreshToken, Alone
<1>4. CASE ConnectArrives
  <2>1. password \in IecTokens \cup {0}
    BY BoundsAssumption
    DEF IInv, DeviceInv, TypeOK, TokenOrder, TokenBound, IecTokens
  <2>2. PICK r \in Slots : Hive!OnConnect("device", r, password)
    BY <1>4 DEF ConnectArrives, NextSlot
  <2>3. Broker!OnConnect("device", r, password)
    BY <2>1, <2>2, SameRequests
  <2> QED  BY <2>1, <2>3 DEF Broker!Next, Broker!Handlers
<1>5. CASE OldConnectionEnds
  <2>1. Broker!ConnectionLost("device")
    BY <1>5, Zenon
    DEF OldConnectionEnds, Hive!ConnectionLost, Hive!CloseWith,
        Hive!VoidPending, Broker!ConnectionLost, Broker!CloseWith,
        Broker!VoidPending
  <2> QED  BY <2>1 DEF Broker!Next
<1>6. CASE NetworkLoss
  BY <1>11, <1>6 DEF NetworkLoss
<1>7. ASSUME NEW r \in Slots, TaskStep(r) PROVE Broker!Next
  <2>1. Broker!Task(r)
    BY <1>7, SameTasks DEF TaskStep, Broker!Task
  <2> QED  BY <2>1 DEF Broker!Next
<1>8. ASSUME NEW r \in Slots, TimeoutStep(r) PROVE Broker!Next
  BY <1>8, SameEndings DEF TimeoutStep, Broker!Next
<1>9. ASSUME NEW t \in IecTokens, TokenAges(t) PROVE Broker!Next
  BY <1>9, SameTokens DEF TokenAges, Broker!Next
<1>10. CASE UNCHANGED all
  BY <1>11, <1>10 DEF all
<1>12. CASE SessionNext
  BY <1>1, <1>2, <1>3, <1>4, <1>5, <1>6, <1>7, <1>8, <1>9, <1>10, <1>12
  DEF SessionNext
<1> QED  BY <1>10, <1>12

LEMMA HiveStepInv == IInv /\ [SessionNext]_all => Broker!IInv'
<1>1. [Broker!Next]_(Broker!vars) /\ Broker!IInv => Broker!IInv'
  BY Broker!NextIInv, BrokerConstants DEF Broker!ConstantsAssumption
<1> QED  BY <1>1, HiveStep DEF IInv

(* What a step may do to the connection of the device in the broker. *)
Kept   == /\ phase'["device"] = phase["device"]
          /\ store'["device"] = store["device"]
Admits == /\ phase["device"] = "connecting" /\ phase'["device"] = "connected"
          /\ store'["device"] = store["device"]

LEMMA HiveEffect ==
    ASSUME IInv, [SessionNext]_all
    PROVE  Kept \/ Admits \/ "offline" \in {phase["device"], phase'["device"]}
<1>1. Broker!Effect
  BY Broker!StepEffect, BrokerConstants, HiveStep
  DEF IInv, Broker!ConstantsAssumption
<1>2. Broker!TypeOK
  BY DEF IInv, Broker!IInv
<1> QED
  BY <1>1, <1>2
  DEF Broker!Effect, Broker!Untouched, Broker!Closes, Broker!LetsIn,
      Broker!Asks, Broker!Admits, Broker!Subscribes, Broker!TypeOK, Kept,
      Admits

----------------------------------------------------------------------------
(* A step of the session is one of the device, with one token more subject *)
(* to faults, or none of its.                                              *)

LEMMA Bounded ==
    ASSUME IInv
    PROVE  password \in Nat /\ password <= Faulty + 1
  BY BoundsAssumption DEF IInv, DeviceInv, TypeOK, TokenOrder, TokenBound

(* What the device hears is what a broker may let it hear. *)
LEMMA HearsDevice ==
    ASSUME IInv, Hears(phase["device"], phase'["device"])
    PROVE  Device!Connack \/ Device!LinkDrops \/ UNCHANGED Device!vars
<1> USE DEF mainVars, libVars, history, Device!mainVars, Device!libVars,
            Device!history
<1>1. CASE UNCHANGED vars
  BY <1>1 DEF vars, Device!vars
<1>2. ASSUME attached, phase["device"] = "connecting",
             \/ HearsConnack("up", "success", refused)
             \/ HearsConnack("refused", "refused", password)
      PROVE  Device!Connack \/ UNCHANGED Device!vars
  <2>1. link = "connecting"
    BY <1>2 DEF IInv, Agreement
  <2>2. CASE Idle
    BY <1>2, <2>1, <2>2, Bounded
    DEF HearsConnack, Device!Connack, Idle, Device!Idle
  <2>3. CASE ~Idle
    BY <1>2, <2>3 DEF HearsConnack, Device!vars
  <2> QED  BY <2>2, <2>3
<1>3. CASE HearsClose
  BY <1>3, Bounded DEF HearsClose, Device!LinkDrops, Device!vars
<1> QED  BY <1>1, <1>2, <1>3 DEF Hears

LEMMA SessionDeviceStep ==
    ASSUME IInv, [SessionNext]_all
    PROVE  [Device!Next]_(Device!vars)
<1>1. CASE UNCHANGED vars
  BY <1>1
  DEF vars, mainVars, libVars, history, Device!vars, Device!mainVars,
      Device!libVars, Device!history
<1>2. CASE MainStep
  <2>1. Main
    BY <1>2 DEF MainStep, PublishStep, Main
  <2> QED  BY <2>1, SameMain DEF Device!Next
<1>3. CASE ThreadStep \/ FreshToken
  BY <1>3, SameCallbacks, MoreFaults, Bounded
  DEF ThreadStep, FreshToken, TokenDenied, Device!NetworkThread, Device!Next
<1>4. CASE NetworkLoss
  BY <1>4, MoreFaults, Bounded DEF NetworkLoss, Device!Next
<1>5. ASSUME NEW r \in Slots, TaskStep(r) \/ TimeoutStep(r)
      PROVE  [Device!Next]_(Device!vars)
  BY <1>5, HearsDevice
  DEF TaskStep, TimeoutStep, Device!NetworkThread, Device!Next
<1>6. CASE \/ \E r \in Slots : Release(r)
           \/ ConnectArrives \/ OldConnectionEnds
           \/ \E t \in IecTokens : TokenAges(t)
           \/ UNCHANGED all
  BY <1>1, <1>6
  DEF Release, ConnectArrives, OldConnectionEnds, TokenAges, all
<1>7. CASE SessionNext
  BY <1>2, <1>3, <1>4, <1>5, <1>6, <1>7 DEF SessionNext
<1> QED  BY <1>6, <1>7

LEMMA SessionDeviceInv == IInv /\ [SessionNext]_all => DeviceInv'
  BY SessionDeviceStep, NextDevice DEF IInv

----------------------------------------------------------------------------
(* The bound on the tokens and the agreement of the two sides. *)

LEMMA BoundStep == IInv /\ [SessionNext]_all => TokenBound'
<1> SUFFICES ASSUME IInv, [SessionNext]_all PROVE TokenBound'
  OBVIOUS
<1>1. /\ TokenBound /\ tokens \in Nat /\ Faulty \in Nat
      /\ cb = "fetch" => pc \notin Early
  BY BoundsAssumption DEF IInv, DeviceInv, TypeOK, Beginning
<1> USE <1>1 DEF TokenBound
<1>2. CASE UNCHANGED <<pc, tokens>>
  BY <1>2
<1>3. CASE MainStep
  <2>1. Main
    BY <1>3 DEF MainStep, PublishStep, Main
  <2>2. ASSUME NEW ok \in BOOLEAN,
               \/ SetAttributes(ok) \/ Initialise(ok) \/ Register(ok)
               \/ FirstToken(ok) \/ NewClient(ok)
        PROVE  TokenBound'
    BY <2>2 DEF SetAttributes, Initialise, Register, FirstToken, NewClient,
                SetupStep
  <2>3. CASE \/ LoopStart \/ ConnectAsync \/ WaitConnected \/ Publish
             \/ Disconnect \/ LoopStop \/ Destroy
    BY <2>3 DEF LoopStart, ConnectAsync, WaitConnected, Publish, Disconnect,
                LoopStop, Destroy
  <2> QED  BY <2>1, <2>2, <2>3 DEF Main
<1>4. CASE FreshToken
  BY <1>4 DEF FreshToken, get_access_token, mainVars, Early, Setup
<1>5. CASE ThreadStep
  BY <1>2, <1>5
  DEF ThreadStep, mosq_connect_cb, mosq_disconnect_cb, TokenDenied,
      get_access_token, UseFreshToken, NoticeLoss, AutoReconnect, Connack,
      mainVars
<1>6. ASSUME NEW r \in Slots, TaskStep(r) \/ TimeoutStep(r)
      PROVE  TokenBound'
  BY <1>2, <1>6
  DEF TaskStep, TimeoutStep, Hears, HearsConnack, HearsClose, vars, mainVars
<1>7. CASE NetworkLoss
  BY <1>2, <1>7 DEF NetworkLoss, LinkDrops, mainVars
<1>8. CASE UNCHANGED vars
  BY <1>2, <1>8 DEF vars, mainVars
<1>9. CASE \/ \E r \in Slots : Release(r)
           \/ ConnectArrives \/ OldConnectionEnds
           \/ \E t \in IecTokens : TokenAges(t)
           \/ UNCHANGED all
  BY <1>8, <1>9
  DEF Release, ConnectArrives, OldConnectionEnds, TokenAges, all
<1>10. CASE SessionNext
  BY <1>3, <1>4, <1>5, <1>6, <1>7, <1>9, <1>10 DEF SessionNext
<1> QED  BY <1>9, <1>10

(* By itself the device neither comes to hold a new connection to be up,   *)
(* nor changes its password or starts its thread while it has one.         *)
LEMMA AloneSteps ==
    ASSUME IInv, (pc # "publish" /\ Main) \/ ThreadStep \/ FreshToken, Alone
    PROVE  /\ link' = "up" => link = "up" \/ broker = "any"
           /\ password' # password => link = "down"
           /\ loop' => loop \/ link = "down"
<1> USE DEF IInv, DeviceInv, Beginning, Callbacks, TypeOK
<1>1. ASSUME NEW ok \in BOOLEAN,
             \/ SetAttributes(ok) \/ Initialise(ok) \/ Register(ok)
             \/ FirstToken(ok) \/ NewClient(ok)
      PROVE  /\ link' = link /\ loop' = loop
             /\ password' # password => link = "down"
  BY <1>1 DEF SetAttributes, Initialise, Register, FirstToken, NewClient,
              SetupStep, libVars, Early, Setup
<1>2. CASE \/ LoopStart \/ ConnectAsync \/ WaitConnected
           \/ Disconnect \/ LoopStop \/ Destroy
  BY <1>2 DEF LoopStart, ConnectAsync, WaitConnected, Disconnect, LoopStop,
              Destroy, libVars, Early
<1>3. CASE \/ mosq_connect_cb \/ mosq_disconnect_cb \/ UseFreshToken
           \/ NoticeLoss \/ AutoReconnect
  BY <1>3 DEF mosq_connect_cb, mosq_disconnect_cb, UseFreshToken, NoticeLoss,
              AutoReconnect, libVars
<1>4. CASE broker = "any" /\ Connack
  BY <1>4 DEF Connack
<1>5. CASE TokenDenied \/ FreshToken
  BY <1>5 DEF TokenDenied, FreshToken, get_access_token, libVars
<1>6. pc # "publish" => ~Publish
  BY DEF Publish
<1> QED  BY <1>1, <1>2, <1>3, <1>4, <1>5, <1>6 DEF Main, ThreadStep

(* What the device hears of a change in the broker keeps them agreeing. *)
LEMMA HearsAgreement ==
    ASSUME IInv, [SessionNext]_all, Hears(phase["device"], phase'["device"]),
           UNCHANGED broker
    PROVE  Agreement'
<1> USE DEF IInv, Agreement, SessionAgrees
<1>1. Kept \/ Admits \/ "offline" \in {phase["device"], phase'["device"]}
  BY HiveEffect
<1>2. ASSUME (phase["device"] = phase'["device"]) \/ ~attached,
             UNCHANGED <<vars, attached>>
      PROVE  Agreement'
  <2>1. CASE attached /\ phase["device"] = phase'["device"]
    BY <1>1, <1>2, <2>1 DEF Kept, Admits, vars, libVars
  <2>2. CASE ~attached
    BY <1>2, <2>2 DEF vars, libVars
  <2> QED  BY <1>2, <2>1, <2>2
<1>3. ASSUME attached, phase["device"] = "connecting",
             phase'["device"] = "connected",
             HearsConnack("up", "success", refused), UNCHANGED attached
      PROVE  Agreement'
  <2>1. link = "connecting" /\ cb = "none"
    BY <1>3 DEF DeviceInv, Callbacks, TypeOK
  <2>2. store'["device"] = password' /\ loop' = loop
    BY <1>1, <1>3 DEF Kept, Admits, HearsConnack
  <2>3. link' = "up" \/ (link' = "connecting" /\ ~loop)
    BY <1>3, <2>1 DEF HearsConnack, Idle
  <2> QED  BY <1>3, <2>2, <2>3
<1>4. ASSUME attached, phase["device"] = "connecting",
             HearsConnack("refused", "refused", password), attached' = FALSE
      PROVE  Agreement'
  BY <1>4 DEF HearsConnack
<1>5. CASE HearsClose /\ attached' = FALSE
  BY <1>5 DEF HearsClose
<1> QED  BY <1>2, <1>3, <1>4, <1>5 DEF Hears

LEMMA AgreementStep == IInv /\ [SessionNext]_all => Agreement'
<1> SUFFICES ASSUME IInv, [SessionNext]_all PROVE Agreement'
  OBVIOUS
<1> USE DEF IInv, Agreement, SessionAgrees
<1>1. ASSUME (pc # "publish" /\ Main) \/ ThreadStep \/ FreshToken, Alone
      PROVE  Agreement'
  <2>1. attached' <=> attached /\ link' = link
    BY <1>1, Zenon DEF Alone
  <2>2. /\ link' = "up" => link = "up" \/ broker = "any"
        /\ password' # password => link = "down"
        /\ loop' => loop \/ link = "down"
    BY <1>1, AloneSteps
  <2>3. UNCHANGED <<broker, phase, store>>
    BY <1>1 DEF Alone, hiveVars
  <2>4. phase["device"] \in {"offline", "connecting", "connected"}
    BY DEF Broker!IInv, Broker!TypeOK
  <2> QED  BY <2>1, <2>2, <2>3, <2>4
<1>2. CASE PublishStep
  <2>1. UNCHANGED <<link, loop, password, attached, broker>>
    BY <1>2 DEF PublishStep, Publish, libVars
  <2>2. ASSUME NEW r \in Slots, attached, link = "up",
               Hive!AuthorizePublish("device", r, "data")
        PROVE  UNCHANGED <<phase, store>>
    <3>1. store["device"] = password /\ password # 0
      BY <2>2 DEF DeviceInv, TokenOrder, TypeOK
    <3> QED  BY <2>2, <3>1 DEF Hive!AuthorizePublish, Hive!Authorize
  <2>3. UNCHANGED <<phase, store>>
    BY <1>2, <2>2 DEF PublishStep, NextSlot, hiveVars
  <2> QED  BY <2>1, <2>3
<1>3. CASE ConnectArrives
  <2>1. link = "connecting" /\ password # 0
    BY <1>3 DEF ConnectArrives, DeviceInv, TokenOrder, TypeOK
  <2>2. phase'["device"] = "connecting" /\ store'["device"] = password
    BY <1>3, <2>1 DEF ConnectArrives, NextSlot, Hive!OnConnect, Broker!IInv,
                      Broker!TypeOK
  <2>3. UNCHANGED <<link, password>>
    BY <1>3 DEF ConnectArrives, vars, libVars
  <2> QED  BY <2>1, <2>2, <2>3
<1>4. CASE OldConnectionEnds
  BY <1>4 DEF OldConnectionEnds, vars, libVars
<1>5. CASE NetworkLoss
  BY <1>5 DEF NetworkLoss, LinkDrops
<1>6. ASSUME NEW r \in Slots, TaskStep(r) \/ TimeoutStep(r)
      PROVE  Agreement'
  BY <1>6, HearsAgreement DEF TaskStep, TimeoutStep
<1>7. CASE UNCHANGED <<vars, broker, attached, phase, store>>
  BY <1>7 DEF vars, libVars
<1>8. CASE \/ \E r \in Slots : Release(r)
           \/ \E t \in IecTokens : TokenAges(t)
           \/ UNCHANGED all
  BY <1>7, <1>8
  DEF Release, TokenAges, Hive!ReleaseSlot, Hive!TokenDies,
      Hive!CacheExpires, all, hiveVars
<1>9. CASE MainStep \/ ThreadStep \/ FreshToken
  BY <1>1, <1>2, <1>9 DEF MainStep, ThreadStep, FreshToken
<1>10. CASE SessionNext
  BY <1>3, <1>4, <1>5, <1>6, <1>8, <1>9, <1>10 DEF SessionNext
<1> QED  BY <1>8, <1>10

LEMMA AttachedType == IInv /\ [SessionNext]_all => attached' \in BOOLEAN
<1> SUFFICES ASSUME IInv, [SessionNext]_all PROVE attached' \in BOOLEAN
  OBVIOUS
<1>1. attached' = attached \/ attached' = FALSE \/ attached' = TRUE
      \/ attached' = (attached /\ link' = link)
  BY DEF SessionNext, MainStep, PublishStep, ThreadStep, FreshToken, Alone,
         ConnectArrives, OldConnectionEnds, NetworkLoss, TaskStep,
         TimeoutStep, Hears, TokenAges, Release, all
<1>2. attached \in BOOLEAN
  BY DEF IInv
<1> QED  BY <1>1, <1>2, Zenon

LEMMA SessionInvariance == SessionSpec => []IInv
<1>1. IInv /\ [SessionNext]_all => IInv'
  BY SessionDeviceInv, HiveStepInv, BoundStep, AgreementStep, AttachedType
  DEF IInv
<1> QED  BY InitSession, <1>1, PTL DEF SessionSpec

(* Every reachable state of device and broker together is well typed. *)
THEOREM SessionTypeCorrect == SessionSpec => []SessionTypeOK
<1>1. Broker!TypeOK => Hive!TypeOK
  BY Zenon
  DEF Broker!TypeOK, Broker!Slot, Broker!Kinds, Broker!Stages, Broker!Bodies,
      Broker!Verdicts, Broker!Outcomes, Hive!TypeOK, Hive!Slot, Hive!Kinds,
      Hive!Stages, Hive!Bodies, Hive!Verdicts, Hive!Outcomes
<1>2. IInv => SessionTypeOK
  BY <1>1 DEF IInv, DeviceInv, Broker!IInv, SessionTypeOK
<1> QED  BY <1>2, SessionInvariance, PTL

(* As long as the device holds its connection to be up, the broker has it  *)
(* as connected with the very token that is the device's password.         *)
THEOREM BothSidesAgree == SessionSpec => []SessionAgrees
<1>1. IInv => SessionAgrees
  BY DEF IInv, Agreement
<1> QED  BY <1>1, SessionInvariance, PTL

(* With HiveMQ in the place of any broker, too, the flag main spins on     *)
(* agrees with the connection between callbacks.                           *)
THEOREM FlagIsTrueInSession == SessionSpec => []ConnectedTracksLink
<1>1. IInv => ConnectedTracksLink
  BY DEF IInv, DeviceInv
<1> QED  BY <1>1, SessionInvariance, PTL

(* And a token HiveMQ has refused is presented again only if no new one    *)
(* could be had from the IEC.                                              *)
THEOREM RefusedTokensGoInSession == SessionSpec => []RefusedTokenReplaced
<1>1. IInv => RefusedTokenReplaced
  BY DEF IInv, DeviceInv, TokenOrder, Replacement, RefusedTokenReplaced,
         TypeOK
<1> QED  BY <1>1, SessionInvariance, PTL

----------------------------------------------------------------------------
(* A token that no fault happens to is served: with HiveMQ each pending    *)
(* request about it is on its way to a positive verdict.                   *)

(* The task of a pending request about such a token has a step before it,  *)
(* and what it has found so far speaks for the request.                    *)
Served(s) ==
    s.outcome = "pending" /\ s.token > Faulty =>
        /\ s.task \in {"queued", "posting", "replied", "processed"}
        /\ s.task = "replied" => s.body = "active"
        /\ s.task = "processed" => s.verdict = "allow"
        /\ \/ s.kind = "connect"
           \/ s.kind = "publish" /\ s.topic = "data"

Healthy == \A t \in IecTokens : t > Faulty => live[t]

Service == /\ Healthy
           /\ broker = "hivemq" => \A r \in Slots : Served(req[r])

(* Closing the connection only settles what was pending. *)
LEMMA VoidServed ==
    ASSUME NEW q \in [Slots -> Broker!Slot], \A r \in Slots : Served(q[r])
    PROVE  \A r \in Slots : Served(Hive!VoidPending(q, "device")[r])
<1> SUFFICES ASSUME NEW r \in Slots
             PROVE  Served(Hive!VoidPending(q, "device")[r])
  OBVIOUS
<1>1. \/ Hive!VoidPending(q, "device")[r] = q[r]
      \/ Hive!VoidPending(q, "device")[r] = [q[r] EXCEPT !.outcome = "void"]
  BY DEF Hive!VoidPending
<1>2. [q[r] EXCEPT !.outcome = "void"].outcome = "void"
  BY DEF Broker!Slot
<1> QED  BY <1>1, <1>2 DEF Served

LEMMA HealthyStep == IInv /\ Healthy /\ [SessionNext]_all => Healthy'
<1> SUFFICES ASSUME IInv, Healthy, [SessionNext]_all PROVE Healthy'
  OBVIOUS
<1>1. CASE UNCHANGED live
  BY <1>1 DEF Healthy
<1>2. ASSUME NEW t \in IecTokens, TokenAges(t) PROVE Healthy'
  <2>1. CASE MayFail(t) /\ Hive!TokenDies(t)
    BY <2>1, BoundsAssumption
    DEF MayFail, Hive!TokenDies, Healthy, IecTokens, IInv, Broker!IInv,
        Broker!TypeOK
  <2>2. CASE Hive!CacheExpires(t)
    BY <1>1, <2>2 DEF Hive!CacheExpires
  <2> QED  BY <1>2, <2>1, <2>2 DEF TokenAges
<1>3. CASE UNCHANGED hiveVars
  BY <1>1, <1>3 DEF hiveVars
<1>4. CASE PublishStep
  BY <1>1, <1>3, <1>4 DEF PublishStep, NextSlot, Hive!AuthorizePublish,
                          Hive!Authorize
<1>5. CASE ConnectArrives \/ OldConnectionEnds
  BY <1>1, <1>5 DEF ConnectArrives, OldConnectionEnds, NextSlot,
                    Hive!OnConnect, Hive!ConnectionLost
<1>6. ASSUME NEW r \in Slots, Release(r) \/ TaskStep(r) \/ TimeoutStep(r)
      PROVE  Healthy'
  BY <1>1, <1>6
  DEF Release, TaskStep, TimeoutStep, Hive!ReleaseSlot, Hive!StartTask,
      Hive!Introspect, Hive!IntrospectFails, Hive!TaskThrows,
      Hive!ProcessResponse, Hive!Resume, Hive!Timeout
<1>7. CASE \/ MainStep \/ ThreadStep \/ FreshToken \/ NetworkLoss
           \/ UNCHANGED all
  BY <1>3, <1>4, <1>7
  DEF MainStep, ThreadStep, FreshToken, NetworkLoss, Alone, all
<1> QED  BY <1>2, <1>5, <1>6, <1>7 DEF SessionNext

LEMMA NewRequestIsSlot ==
    ASSUME IInv, NEW kind \in {"connect", "publish"}, NEW t \in IecTokens,
           NEW x \in {"data", "none"}
    PROVE  Hive!NewRequest(kind, "device", t, x) \in Broker!Slot
<1>1. Hive!NewRequest(kind, "device", t, x)
         = Broker!NewRequest(kind, "device", t, x)
  BY Zenon DEF Hive!NewRequest, Hive!FreeSlot, Hive!Dead, Broker!NewRequest,
               Broker!FreeSlot, Broker!Dead
<1>2. Broker!NewRequest(kind, "device", t, x) \in Broker!Slot
  BY Broker!NewRequestType, BrokerConstants
  DEF Broker!ConstantsAssumption, Broker!Kinds, IInv, Broker!IInv
<1> QED  BY <1>1, <1>2

(* The requests the device makes. *)
LEMMA AskingServed ==
    ASSUME IInv, \A r \in Slots : Served(req[r]),
           PublishStep \/ ConnectArrives \/ OldConnectionEnds
    PROVE  \A r \in Slots : Served(req'[r])
<1> USE DEF IInv, Broker!IInv, Broker!TypeOK
<1>1. ASSUME NEW r \in Slots, NEW s \in Broker!Slot, Served(s),
             \/ req' = [req EXCEPT ![r] = s]
             \/ req' = Hive!VoidPending([req EXCEPT ![r] = s], "device")
      PROVE  \A j \in Slots : Served(req'[j])
  <2> DEFINE q == [req EXCEPT ![r] = s]
  <2>1. q \in [Slots -> Broker!Slot] /\ \A j \in Slots : Served(q[j])
    BY <1>1
  <2> HIDE DEF q
  <2> QED  BY <1>1, <2>1, VoidServed DEF q
<1>2. ASSUME NEW kind \in {"connect", "publish"}, NEW x, NEW t,
             kind = "publish" => x = "data"
      PROVE  /\ Served(Hive!NewRequest(kind, "device", t, x))
             /\ Served(Hive!RefusedRequest(kind, "device", x))
  BY <1>2 DEF Served, Hive!NewRequest, Hive!RefusedRequest, Hive!FreeSlot
<1>3. CASE PublishStep
  <2>1. ASSUME NEW r \in Slots, Hive!AuthorizePublish("device", r, "data")
        PROVE  \A j \in Slots : Served(req'[j])
    <3> DEFINE new == Hive!NewRequest("publish", "device", store["device"],
                                      "data")
               no  == Hive!RefusedRequest("publish", "device", "data")
    <3>1. Served(new) /\ Served(no)
      BY <1>2
    <3>2. no \in Broker!Slot
      BY Broker!RefusedRequestType, BrokerConstants
      DEF Broker!ConstantsAssumption, Hive!RefusedRequest, Hive!FreeSlot,
          Broker!RefusedRequest, Broker!FreeSlot, Broker!Kinds
    <3>3. new \in Broker!Slot \/ store["device"] = 0
      BY NewRequestIsSlot
    <3>4. \/ req' = [req EXCEPT ![r] = new] /\ store["device"] # 0
          \/ req' = Hive!VoidPending([req EXCEPT ![r] = no], "device")
      BY <2>1 DEF Hive!AuthorizePublish, Hive!Authorize, Hive!CloseWith
    <3> HIDE DEF new, no
    <3> QED  BY <1>1, <3>1, <3>2, <3>3, <3>4
  <2> QED  BY <1>3, <2>1 DEF PublishStep, NextSlot, hiveVars
<1>4. CASE ConnectArrives
  <2>1. PICK r \in Slots : Hive!OnConnect("device", r, password)
    BY <1>4 DEF ConnectArrives, NextSlot
  <2> DEFINE new == Hive!NewRequest("connect", "device", password, "none")
             no  == Hive!RefusedRequest("connect", "device", "none")
  <2>2. Served(new) /\ Served(no)
    BY <1>2
  <2>3. no \in Broker!Slot
    BY Broker!RefusedRequestType, BrokerConstants
    DEF Broker!ConstantsAssumption, Hive!RefusedRequest, Hive!FreeSlot,
        Broker!RefusedRequest, Broker!FreeSlot, Broker!Kinds
  <2>4. password \in IecTokens \/ password = 0
    BY BoundsAssumption
    DEF DeviceInv, TypeOK, TokenOrder, TokenBound, IecTokens
  <2>5. new \in Broker!Slot \/ password = 0
    BY <2>4, NewRequestIsSlot
  <2>6. \/ req' = [req EXCEPT ![r] = new] /\ password # 0
        \/ req' = [req EXCEPT ![r] = no]
    BY <2>1 DEF Hive!OnConnect
  <2> HIDE DEF new, no
  <2> QED  BY <1>1, <2>2, <2>3, <2>5, <2>6
<1>5. CASE OldConnectionEnds
  BY <1>5, VoidServed DEF OldConnectionEnds, Hive!ConnectionLost,
                          Hive!CloseWith
<1> QED  BY <1>3, <1>4, <1>5

(* A step of a request that leaves the others alone or settles them. *)
LEMMA OneRequest ==
    ASSUME IInv, \A j \in Slots : Served(req[j]), NEW r \in Slots,
           NEW s \in Broker!Slot, Served(s),
           LET q == [req EXCEPT ![r] = s]
           IN  req' = q \/ req' = Hive!VoidPending(q, "device")
    PROVE  \A j \in Slots : Served(req'[j])
<1> DEFINE q == [req EXCEPT ![r] = s]
<1>1. q \in [Slots -> Broker!Slot] /\ \A j \in Slots : Served(q[j])
  BY DEF IInv, Broker!IInv, Broker!TypeOK
<1>2. req' = q \/ req' = Hive!VoidPending(q, "device")
  OBVIOUS
<1> HIDE DEF q
<1> QED  BY <1>1, <1>2, VoidServed

(* The steps of the extension's tasks and of the broker's timer. *)
LEMMA TaskServed ==
    ASSUME IInv, Healthy, broker = "hivemq", \A j \in Slots : Served(req[j]),
           NEW r \in Slots, TaskStep(r) \/ TimeoutStep(r) \/ Release(r)
    PROVE  \A j \in Slots : Served(req'[j])
<1>1. /\ req \in [Slots -> Broker!Slot] /\ req[r] \in Broker!Slot
      /\ Served(req[r])
  BY DEF IInv, Broker!IInv, Broker!TypeOK
<1>2. req[r].outcome = "pending" =>
          req[r].conn = "device" /\ req[r].token \in IecTokens
  BY DEF IInv, Broker!IInv, Broker!PendingRequests, Broker!PendingFor,
         Broker!Pending
<1>3. ASSUME NEW s, Served(s),
             LET q == [req EXCEPT ![r] = s]
             IN  req' = q \/ req' = Hive!VoidPending(q, "device"),
             s \in Broker!Slot
      PROVE  \A j \in Slots : Served(req'[j])
  BY <1>3, OneRequest
<1>4. ASSUME NEW t \in Broker!Stages, NEW b \in Broker!Bodies,
             NEW v \in Broker!Verdicts, NEW o \in Broker!Outcomes
      PROVE  /\ [req[r] EXCEPT !.task = t] \in Broker!Slot
             /\ [req[r] EXCEPT !.task = t, !.body = b] \in Broker!Slot
             /\ [req[r] EXCEPT !.task = t, !.body = b, !.verdict = v]
                   \in Broker!Slot
             /\ [req[r] EXCEPT !.task = t, !.outcome = o] \in Broker!Slot
             /\ [req[r] EXCEPT !.outcome = o] \in Broker!Slot
  BY <1>1 DEF Broker!Slot
<1>5. MayFail(req[r].token) /\ req[r].outcome = "pending" =>
          ~(req[r].token > Faulty)
  BY <1>2, BoundsAssumption DEF MayFail, IecTokens
<1> USE DEF Broker!Stages, Broker!Bodies, Broker!Verdicts, Broker!Outcomes
<1>6. CASE Hive!StartTask(r)
  <2> DEFINE s == [req[r] EXCEPT !.task = "posting"]
  <2>1. req' = [req EXCEPT ![r] = s] /\ req[r].task = "queued"
    BY <1>6 DEF Hive!StartTask, Hive!SetTask
  <2>2. s \in Broker!Slot
    BY <1>4
  <2>3. Served(s)
    BY <1>1 DEF Served, Broker!Slot
  <2> HIDE DEF s
  <2> QED  BY <1>3, <2>1, <2>2, <2>3
<1>7. CASE Hive!Introspect(r)
  <2> DEFINE b == IF Hive!Dead(req[r].token) THEN "inactive" ELSE "active"
             s == [req[r] EXCEPT !.task = "replied", !.body = b]
  <2>1. req' = [req EXCEPT ![r] = s]
    BY <1>7 DEF Hive!Introspect
  <2>2. s \in Broker!Slot
    BY <1>4
  <2>3. req[r].outcome = "pending" /\ req[r].token > Faulty => b = "active"
    BY <1>2 DEF Healthy, Hive!Dead
  <2>4. Served(s)
    BY <1>1, <2>3 DEF Served, Broker!Slot
  <2> HIDE DEF s
  <2> QED  BY <1>3, <2>1, <2>2, <2>4
<1>8. CASE \/ Hive!IntrospectFails(r) /\ MayFail(req[r].token)
           \/ Hive!TaskThrows(r) /\ MayFail(req[r].token)
  <2> DEFINE s == [req[r] EXCEPT !.task = "replied", !.body = "empty"]
             u == [req[r] EXCEPT !.task = "ended"]
  <2>1. req' = [req EXCEPT ![r] = s] \/ req' = [req EXCEPT ![r] = u]
    BY <1>8 DEF Hive!IntrospectFails, Hive!TaskThrows, Hive!SetTask
  <2>2. s \in Broker!Slot /\ u \in Broker!Slot
    BY <1>4
  <2>3. Served(s) /\ Served(u)
    BY <1>1, <1>5, <1>8 DEF Served, Broker!Slot
  <2> HIDE DEF s, u
  <2> QED  BY <1>3, <2>1, <2>2, <2>3
<1>9. CASE Hive!ProcessResponse(r)
  <2> DEFINE v == Hive!Verdict(req[r])
             s == [req[r] EXCEPT !.task = "processed", !.body = "empty",
                                 !.verdict = v]
  <2>1. req' = [req EXCEPT ![r] = s] /\ req[r].task = "replied"
    BY <1>9 DEF Hive!ProcessResponse
  <2>2. v \in Broker!Verdicts
    BY DEF Hive!Verdict
  <2>3. s \in Broker!Slot
    BY <1>4, <2>2
  <2>4. req[r].outcome = "pending" /\ req[r].token > Faulty => v = "allow"
    <3>1. SUFFICES ASSUME req[r].outcome = "pending", req[r].token > Faulty
                   PROVE  v = "allow"
      OBVIOUS
    <3>2. req[r].body = "active" /\ req[r].kind \in {"connect", "publish"}
      BY <1>1, <2>1, <3>1 DEF Served
    <3>3. Hive!getMQTTScope(req[r].token) = "data"
      BY <1>2, <3>1 DEF Hive!getMQTTScope
    <3> QED
      BY <3>2, <3>3 DEF Hive!Verdict, Hive!ConnectAllowed,
                        Hive!PublishAllowed, Hive!isTokenActive
  <2> HIDE DEF v
  <2>5. Served(s)
    BY <1>1, <2>4 DEF Served, Broker!Slot
  <2> HIDE DEF s
  <2> QED  BY <1>3, <2>1, <2>3, <2>5
<1>10. CASE Hive!Resume(r)
  <2> DEFINE s == [req[r] EXCEPT !.task = "ended", !.outcome = "granted"]
             u == [req[r] EXCEPT !.task = "ended", !.outcome = "refused"]
             w == [req[r] EXCEPT !.task = "ended"]
  <2>1. s \in Broker!Slot /\ u \in Broker!Slot /\ w \in Broker!Slot
    BY <1>4
  <2>2. Served(s) /\ Served(u)
    BY <1>1 DEF Served, Broker!Slot
  <2>3. req[r].outcome # "pending" => Served(w)
    BY <1>1 DEF Served, Broker!Slot
  <2>4. \/ /\ req[r].conn = "device"
           /\ \/ req' = [req EXCEPT ![r] = s]
              \/ req' = [req EXCEPT ![r] = u]
              \/ req' = Hive!VoidPending([req EXCEPT ![r] = u], "device")
        \/ req[r].outcome # "pending" /\ req' = [req EXCEPT ![r] = w]
    BY <1>2, <1>10
    DEF Hive!Resume, Hive!Apply, Hive!Pending, Hive!SetTask, Hive!Settle,
        Hive!CloseWith, Hive!RefuseByBroker
  <2> HIDE DEF s, u, w
  <2> QED  BY <1>3, <2>1, <2>2, <2>3, <2>4
<1>11. CASE Hive!Timeout(r)
  <2> DEFINE s == [req[r] EXCEPT !.outcome = "timedout"]
  <2>1. s \in Broker!Slot
    BY <1>4
  <2>2. Served(s)
    BY <1>1 DEF Served, Broker!Slot
  <2>3. \/ req' = [req EXCEPT ![r] = s]
        \/ req' = Hive!VoidPending([req EXCEPT ![r] = s], "device")
    BY <1>2, <1>11 DEF Hive!Timeout, Hive!Pending, Hive!CloseWith,
                       Hive!RefuseByBroker
  <2> HIDE DEF s
  <2> QED  BY <1>3, <2>1, <2>2, <2>3
<1>12. CASE Hive!ReleaseSlot(r)
  <2>1. Served(Hive!FreeSlot)
    BY DEF Served, Hive!FreeSlot
  <2>2. \A j \in Slots : req'[j] \in {req[j], Hive!FreeSlot}
    BY <1>1, <1>12 DEF Hive!ReleaseSlot
  <2> QED  BY <2>1, <2>2
<1> QED
  BY <1>6, <1>7, <1>8, <1>9, <1>10, <1>11, <1>12
  DEF TaskStep, TimeoutStep, Release

LEMMA ServiceStep == IInv /\ Service /\ [SessionNext]_all => Service'
<1> SUFFICES ASSUME IInv, Service, [SessionNext]_all PROVE Service'
  OBVIOUS
<1>1. Healthy'
  BY HealthyStep DEF Service
<1>2. broker' = broker
  BY DEF SessionNext, MainStep, PublishStep, ThreadStep, FreshToken, Alone,
         ConnectArrives, OldConnectionEnds, NetworkLoss, TaskStep,
         TimeoutStep, TokenAges, Release, all
<1>3. SUFFICES ASSUME broker = "hivemq" PROVE \A r \in Slots : Served(req'[r])
  BY <1>1, <1>2 DEF Service
<1>4. \A r \in Slots : Served(req[r])
  BY <1>3 DEF Service
<1>5. CASE UNCHANGED req
  BY <1>4, <1>5
<1>6. CASE PublishStep \/ ConnectArrives \/ OldConnectionEnds
  BY <1>4, <1>6, AskingServed
<1>7. ASSUME NEW r \in Slots, TaskStep(r) \/ TimeoutStep(r) \/ Release(r)
      PROVE  \A j \in Slots : Served(req'[j])
  BY <1>3, <1>4, <1>7, TaskServed DEF Service
<1>8. CASE \/ Main /\ Alone
           \/ ThreadStep \/ FreshToken \/ NetworkLoss
           \/ \E t \in IecTokens : TokenAges(t)
           \/ UNCHANGED all
  BY <1>5, <1>8
  DEF ThreadStep, FreshToken, NetworkLoss, Alone, TokenAges, Hive!TokenDies,
      Hive!CacheExpires, all, hiveVars
<1> QED  BY <1>6, <1>7, <1>8 DEF SessionNext, MainStep

LEMMA ServiceInvariance == SessionSpec => [](IInv /\ Service)
<1>1. SessionInit => Service
  BY DEF SessionInit, Service, Healthy, Served, Hive!FreeSlot
<1>2. IInv /\ [SessionNext]_all => IInv'
  BY SessionDeviceInv, HiveStepInv, BoundStep, AgreementStep, AttachedType
  DEF IInv
<1> QED  BY InitSession, <1>1, <1>2, ServiceStep, PTL DEF SessionSpec

(* With HiveMQ a token that no fault happens to is neither refused nor has *)
(* its connection closed by the broker, for any number of slots and        *)
(* messages and whatever earlier requests are still under way.             *)
THEOREM GoodTokensServed == SessionSpec => GoodTokenServed
<1> DEFINE Step == /\ broker = "hivemq" /\ attached
                   /\ phase["device"] # "offline"
                   /\ phase'["device"] = "offline"
<1>1. ASSUME IInv, Service, [SessionNext]_all, Step PROVE MayFail(password)
  <2>1. ASSUME NEW r \in Slots, TaskStep(r) \/ TimeoutStep(r)
        PROVE  MayFail(password)
    <3>1. store["device"] = password /\ password \in Nat
      BY <1>1, Bounded DEF IInv, Agreement
    <3>2. Served(req[r])
      BY <1>1 DEF Service
    <3>3. req[r].outcome = "pending" =>
              /\ req[r].token = password /\ req[r].conn = "device"
              /\ phase["device"] = IF req[r].kind = "connect"
                                   THEN "connecting" ELSE "connected"
      BY <1>1, <3>1 DEF IInv, Broker!IInv, Broker!PendingRequests,
                        Broker!PendingFor, Broker!Pending
    <3>4. phase["device"] = "connected" => "data" \in perms["device"]
      <4>1. phase["device"] = "connected" =>
                /\ store["device"] \in IecTokens
                /\ perms["device"] = {Broker!getMQTTScope(store["device"])}
        BY <1>1, <3>1, BoundsAssumption
        DEF IInv, Broker!IInv, Broker!AdmittedByToken, Agreement, DeviceInv,
            TokenOrder, TypeOK, Step
      <4> QED  BY <4>1 DEF Broker!getMQTTScope
    <3>5. CASE password > Faulty
      <4>1. CASE Hive!Resume(r)
        <5>1. req[r].outcome = "pending"
          BY <1>1, <4>1 DEF Hive!Resume, Hive!Pending, Hive!SetTask
        <5>2. /\ req[r].verdict = "allow"
              /\ \/ req[r].kind = "connect"
                 \/ req[r].kind # "connect" /\ req[r].topic \in perms["device"]
          BY <3>2, <3>3, <3>4, <3>5, <4>1, <5>1 DEF Served, Hive!Resume
        <5>3. \/ phase' = [phase EXCEPT !["device"] = "connected"]
              \/ UNCHANGED phase
          BY <3>3, <4>1, <5>1, <5>2 DEF Hive!Resume, Hive!Apply, Hive!Pending
        <5> QED  BY <1>1, <5>3 DEF IInv, Broker!IInv, Broker!TypeOK
      <4>2. CASE TimeoutStep(r)
        BY <1>1, <3>2, <3>3, <3>5, <4>2
        DEF TimeoutStep, Hive!Timeout, Hive!Pending, Served
      <4> QED
        BY <1>1, <2>1, <4>1, <4>2
        DEF TaskStep, Hive!StartTask, Hive!Introspect, Hive!ProcessResponse,
            Hive!IntrospectFails, Hive!TaskThrows
    <3>6. CASE ~(password > Faulty)
      BY <1>1, <3>1, <3>6, BoundsAssumption DEF MayFail
    <3> QED  BY <3>5, <3>6
  <2>2. CASE UNCHANGED phase
    BY <1>1, <2>2
  <2>3. CASE PublishStep
    <3>1. ASSUME NEW r \in Slots, link = "up",
                 Hive!AuthorizePublish("device", r, "data")
          PROVE  UNCHANGED phase
      <4>1. store["device"] # 0
        BY <1>1, <3>1, BoundsAssumption
        DEF IInv, Agreement, DeviceInv, TokenOrder, TypeOK
      <4> QED  BY <3>1, <4>1 DEF Hive!AuthorizePublish, Hive!Authorize
    <3> QED  BY <2>2, <2>3, <3>1 DEF PublishStep, NextSlot, hiveVars
  <2>4. CASE ConnectArrives \/ OldConnectionEnds
    BY <1>1, <2>4 DEF ConnectArrives, OldConnectionEnds
  <2>5. CASE \/ Main /\ Alone
             \/ ThreadStep \/ FreshToken \/ NetworkLoss
             \/ \E t \in IecTokens : TokenAges(t)
             \/ \E r \in Slots : Release(r)
             \/ UNCHANGED all
    BY <2>2, <2>5
    DEF ThreadStep, FreshToken, NetworkLoss, Alone, TokenAges, Release,
        Hive!TokenDies, Hive!CacheExpires, Hive!ReleaseSlot, all, hiveVars
  <2> QED  BY <1>1, <2>1, <2>3, <2>4, <2>5 DEF SessionNext, MainStep
<1>2. IInv /\ Service /\ [SessionNext]_all => [Step => MayFail(password)]_all
  BY <1>1
<1> QED  BY <1>2, ServiceInvariance, PTL DEF SessionSpec, GoodTokenServed
============================================================================

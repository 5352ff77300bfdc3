----------------------- MODULE HiveMQExtensionProofs -----------------------
(***************************************************************************)
(* Proofs about HiveMQExtension, for any connections, tokens, topics,      *)
(* request slots and number of executor threads: its invariants, what a    *)
(* step may do to the connections, the two action properties and the       *)
(* refinement of MqttAuthorization that follow from it.                    *)
(***************************************************************************)
EXTENDS HiveMQExtension, TLAPS

----------------------------------------------------------------------------
(* Types. *)

LEMMA ScopeType ==
    ASSUME NEW t \in Tokens
    PROVE  getMQTTScope(t) \in Topics \cup {NoTopic}
  BY ConstantsAssumption DEF getMQTTScope

LEMMA FreeSlotType == FreeSlot \in Slot
  BY DEF FreeSlot, Slot, Kinds, Stages, Bodies, Verdicts, Outcomes

LEMMA NewRequestType ==
    ASSUME TypeOK, NEW kind \in Kinds, NEW c \in Conns, NEW t \in Tokens,
           NEW topic \in Topics \cup {NoTopic}
    PROVE  NewRequest(kind, c, t, topic) \in Slot
  BY DEF NewRequest, FreeSlot, Slot, Kinds, Stages, Bodies, Verdicts,
         Outcomes, Dead, TypeOK

LEMMA RefusedRequestType ==
    ASSUME NEW kind \in Kinds, NEW c \in Conns,
           NEW topic \in Topics \cup {NoTopic}
    PROVE  RefusedRequest(kind, c, topic) \in Slot
  BY DEF RefusedRequest, FreeSlot, Slot, Kinds, Stages, Bodies, Verdicts,
         Outcomes

(* Updating the fields of a slot keeps it a slot. *)
LEMMA SlotUpdateType ==
    ASSUME NEW q \in Slot, NEW s \in Stages, NEW b \in Bodies,
           NEW v \in Verdicts, NEW o \in Outcomes
    PROVE  /\ [q EXCEPT !.task = s] \in Slot
           /\ [q EXCEPT !.task = s, !.body = b] \in Slot
           /\ [q EXCEPT !.task = s, !.body = b, !.verdict = v] \in Slot
           /\ [q EXCEPT !.task = s, !.outcome = o] \in Slot
  BY DEF Slot

LEMMA VoidPendingType ==
    ASSUME NEW q \in [Requests -> Slot], NEW c \in Conns
    PROVE  VoidPending(q, c) \in [Requests -> Slot]
  BY DEF VoidPending, Slot, Outcomes

LEMMA CloseWithType ==
    ASSUME TypeOK, NEW c \in Conns, NEW q \in [Requests -> Slot],
           CloseWith(c, q)
    PROVE  /\ phase' \in [Conns -> {"offline", "connecting", "connected"}]
           /\ store' \in [Conns -> Tokens \cup {NoToken}]
           /\ perms' \in [Conns -> SUBSET Topics]
           /\ subs' \in [Conns -> SUBSET Topics]
           /\ req' \in [Requests -> Slot]
  BY VoidPendingType DEF CloseWith, TypeOK

LEMMA RefuseByBrokerType ==
    ASSUME TypeOK, NEW c \in Conns, NEW q \in [Requests -> Slot],
           RefuseByBroker(c, q)
    PROVE  /\ phase' \in [Conns -> {"offline", "connecting", "connected"}]
           /\ store' \in [Conns -> Tokens \cup {NoToken}]
           /\ perms' \in [Conns -> SUBSET Topics]
           /\ subs' \in [Conns -> SUBSET Topics]
           /\ req' \in [Requests -> Slot]
<1>1. CASE CloseWith(c, q)
  BY <1>1, CloseWithType
<1>2. CASE req' = q /\ UNCHANGED <<phase, store, perms, subs>>
  BY <1>2 DEF TypeOK
<1> QED  BY <1>1, <1>2 DEF RefuseByBroker

----------------------------------------------------------------------------
(* The invariant. *)

(* What a slot knows of its token, at every stage of its task: a working   *)
(* task has a token, a dead token stays dead, and only a token of AM that   *)
(* was not dead on arrival gets a positive answer.                         *)
Consistent(s) ==
    /\ s.task \in {"queued", "posting", "replied", "processed"} =>
          s.token \in Tokens
    /\ s.stale => s.token \in Tokens /\ Dead(s.token)
    /\ isTokenActive(s.body) => s.token \in Issued /\ ~s.stale
    /\ s.verdict = "allow" =>
          /\ s.token \in Issued /\ ~s.stale
          /\ s.kind = "connect" => getMQTTScope(s.token) # NoTopic
    /\ s.outcome = "granted" =>
          /\ s.token \in Issued /\ ~s.stale
          /\ s.kind # "connect" => s.topic = getMQTTScope(s.token)

SlotsConsistent == \A r \in Requests : Consistent(req[r])

OnlyIssuedAlive == \A t \in Tokens : ~Dead(t) => t \in Issued

(* A closed channel has left nothing behind, and what a connection is      *)
(* subscribed to is what its token is good for.                            *)
Channels ==
    \A c \in Conns :
        /\ phase[c] = "offline" => store[c] = NoToken
        /\ phase[c] = "connecting" => store[c] # NoToken
        /\ phase[c] # "connected" => subs[c] = {}
        /\ \A x \in subs[c] : store[c] \in Issued /\ x = getMQTTScope(store[c])

IInv == /\ TypeOK
        /\ PendingRequests
        /\ SlotsConsistent
        /\ OnlyIssuedAlive
        /\ Channels
        /\ OneConnectPending
        /\ AdmittedByToken

----------------------------------------------------------------------------
(* Type correctness. *)

LEMMA InitTypeOK == Init => TypeOK
  BY FreeSlotType DEF Init, TypeOK

(* The default permissions are well typed only because a positive answer  *)
(* to a connect request names a scope: types alone are not inductive.      *)
LEMMA ResumeType ==
    ASSUME TypeOK, PendingRequests, SlotsConsistent, NEW r \in Requests,
           Resume(r)
    PROVE  TypeOK'
<1> USE DEF TypeOK
<1>1. CASE ~Pending(r)
  <2>1. /\ req' = [req EXCEPT ![r].task = "ended"]
        /\ UNCHANGED <<ext, phase, store, perms, subs, live, cache>>
    BY <1>1 DEF Resume, SetTask
  <2>2. [req[r] EXCEPT !.task = "ended"] \in Slot
    BY DEF Slot, Stages
  <2>3. req' = [req EXCEPT ![r] = [req[r] EXCEPT !.task = "ended"]]
    BY <2>1
  <2> QED  BY <2>1, <2>2, <2>3
<1>2. CASE Pending(r)
  <2> DEFINE c == req[r].conn
             t == req[r].token
  <2>1. c \in Conns /\ t \in Tokens
    BY <1>2 DEF PendingRequests, PendingFor
  <2>2. \A o \in Outcomes : Settle(r, o) \in [Requests -> Slot]
    BY SlotUpdateType DEF Settle, Stages, Bodies, Verdicts
  <2>3. CASE req[r].verdict = "deny"
    BY <1>2, <2>1, <2>2, <2>3, CloseWithType DEF Resume, Apply, Outcomes
  <2>4. CASE req[r].verdict = "allow" /\ req[r].kind = "connect"
    <3>1. DefaultPermissions(t) \in SUBSET Topics
      BY <2>1, <2>4, ScopeType DEF SlotsConsistent, Consistent,
         DefaultPermissions
    <3> QED  BY <1>2, <2>1, <2>2, <2>4, <3>1 DEF Resume, Apply, Outcomes
  <2>5. CASE /\ req[r].verdict = "allow" /\ req[r].kind # "connect"
             /\ req[r].topic \in perms[c]
    BY <1>2, <2>1, <2>2, <2>5 DEF Resume, Apply, Outcomes
  <2>6. CASE /\ req[r].verdict = "allow" /\ req[r].kind # "connect"
             /\ req[r].topic \notin perms[c]
    BY <1>2, <2>1, <2>2, <2>6, RefuseByBrokerType DEF Resume, Apply, Outcomes
  <2> QED  BY <1>2, <2>3, <2>4, <2>5, <2>6 DEF Resume, Apply
<1> QED  BY <1>1, <1>2

LEMMA NextTypeOK == IInv /\ [Next]_vars => TypeOK'
<1> SUFFICES ASSUME TypeOK, PendingRequests, SlotsConsistent, [Next]_vars
             PROVE  TypeOK'
  BY DEF IInv
<1> USE DEF TypeOK
<1>1. CASE Startup
  BY <1>1 DEF Startup, LoadConfiguration, SetAuthenticatorProvider,
              SetAuthorizerProvider
<1>2. ASSUME NEW c \in Conns, BrokerConnect(c) PROVE TypeOK'
  BY <1>2 DEF BrokerConnect
<1>3. ASSUME NEW c \in Conns, ConnectionLost(c) PROVE TypeOK'
  BY <1>3, CloseWithType DEF ConnectionLost
<1>4. ASSUME NEW c \in Conns, NEW r \in Requests,
             NEW p \in Tokens \cup {NoToken}, OnConnect(c, r, p)
      PROVE  TypeOK'
  <2>1. CASE p = NoToken
    BY <1>4, <2>1, RefusedRequestType DEF OnConnect, Kinds
  <2>2. CASE p # NoToken
    BY <1>4, <2>2, NewRequestType DEF OnConnect, Kinds
  <2> QED  BY <2>1, <2>2
<1>5. ASSUME NEW c \in Conns, NEW r \in Requests, NEW x \in Topics,
             NEW kind \in {"publish", "subscribe"}, Authorize(kind, c, r, x)
      PROVE  TypeOK'
  <2>1. CASE store[c] = NoToken
    <3>1. [req EXCEPT ![r] = RefusedRequest(kind, c, x)] \in [Requests -> Slot]
      BY RefusedRequestType DEF Kinds
    <3> QED  BY <1>5, <2>1, <3>1, CloseWithType DEF Authorize
  <2>2. CASE store[c] # NoToken
    BY <1>5, <2>2, NewRequestType DEF Authorize, Kinds
  <2> QED  BY <2>1, <2>2
<1>6. ASSUME NEW r \in Requests, Task(r) PROVE TypeOK'
  <2>1. CASE StartTask(r)
    <3>1. "posting" \in Stages
      BY DEF Stages
    <3> QED  BY <2>1, <3>1 DEF StartTask, SetTask, Slot
  <2>2. CASE Introspect(r)
    <3> DEFINE b == IF Dead(req[r].token) THEN "inactive" ELSE "active"
    <3>1. "replied" \in Stages /\ b \in Bodies
      BY DEF Stages, Bodies
    <3>2. [req[r] EXCEPT !.task = "replied", !.body = b] \in Slot
      BY <3>1, SlotUpdateType DEF Verdicts, Outcomes
    <3> QED  BY <2>2, <3>2 DEF Introspect, Dead
  <2>3. CASE IntrospectFails(r)
    <3>1. "replied" \in Stages /\ "empty" \in Bodies
      BY DEF Stages, Bodies
    <3>2. [req[r] EXCEPT !.task = "replied", !.body = "empty"] \in Slot
      BY <3>1, SlotUpdateType DEF Verdicts, Outcomes
    <3> QED  BY <2>3, <3>2 DEF IntrospectFails
  <2>4. CASE TaskThrows(r)
    <3>1. "ended" \in Stages
      BY DEF Stages
    <3> QED  BY <2>4, <3>1 DEF TaskThrows, SetTask, Slot
  <2>5. CASE ProcessResponse(r)
    <3> DEFINE v == Verdict(req[r])
    <3>1. "processed" \in Stages /\ "empty" \in Bodies /\ v \in Verdicts
      BY DEF Stages, Bodies, Verdicts, Verdict
    <3>2. [req[r] EXCEPT !.task = "processed", !.body = "empty", !.verdict = v]
             \in Slot
      BY <3>1, SlotUpdateType DEF Outcomes
    <3> HIDE DEF v
    <3> QED  BY <2>5, <3>2 DEF ProcessResponse, v
  <2>6. CASE Resume(r)
    BY <2>6, ResumeType
  <2> QED  BY <1>6, <2>1, <2>2, <2>3, <2>4, <2>5, <2>6 DEF Task
<1>7. ASSUME NEW r \in Requests, Timeout(r) PROVE TypeOK'
  <2>1. req[r].conn \in Conns
    BY <1>7 DEF Timeout, PendingRequests, PendingFor
  <2>2. [req EXCEPT ![r].outcome = "timedout"] \in [Requests -> Slot]
    BY DEF Slot, Outcomes
  <2> QED  BY <1>7, <2>1, <2>2, CloseWithType, RefuseByBrokerType DEF Timeout
<1>8. ASSUME NEW r \in Requests, ReleaseSlot(r) PROVE TypeOK'
  BY <1>8, FreeSlotType DEF ReleaseSlot
<1>9. ASSUME NEW t \in Tokens, TokenDies(t) \/ CacheExpires(t) PROVE TypeOK'
  BY <1>9 DEF TokenDies, CacheExpires
<1>10. CASE UNCHANGED vars
  BY <1>10 DEF vars
<1> QED
  BY <1>1, <1>2, <1>3, <1>4, <1>5, <1>6, <1>7, <1>8, <1>9, <1>10
  DEF Next, Handlers, AuthorizeSubscribe, AuthorizePublish

----------------------------------------------------------------------------
(* The invariant is inductive. *)

LEMMA InitIInv == Init => IInv
<1> SUFFICES ASSUME Init PROVE IInv
  OBVIOUS
<1> USE DEF Init
<1>1. TypeOK
  BY InitTypeOK
<1>2. \A r \in Requests : ~Pending(r) /\ req[r] = FreeSlot
  BY DEF Pending, FreeSlot
<1>3. PendingRequests /\ OneConnectPending
  BY <1>2 DEF PendingRequests, OneConnectPending, ConnectRequests
<1>4. SlotsConsistent /\ OnlyIssuedAlive
  BY <1>2 DEF SlotsConsistent, Consistent, OnlyIssuedAlive, FreeSlot, Dead,
              isTokenActive
<1>5. Channels /\ AdmittedByToken
  BY DEF Channels, AdmittedByToken
<1> QED  BY <1>1, <1>3, <1>4, <1>5 DEF IInv

(* A step that changes slot r only, and no connection except by adding to  *)
(* its subscriptions what its token is good for.                           *)
LEMMA SlotInv ==
    ASSUME IInv, TypeOK', NEW r \in Requests, NEW s \in Slot,
           req' = [req EXCEPT ![r] = s],
           UNCHANGED <<phase, store, perms>>,
           \A c \in Conns : \A x \in subs'[c] :
              \/ x \in subs[c]
              \/ /\ phase[c] = "connected" /\ store[c] \in Issued
                 /\ x = getMQTTScope(store[c]),
           \A t \in Tokens : Dead(t)' <=> Dead(t),
           Consistent(s),
           s.outcome = "pending" => PendingFor(s),
           s.outcome = "pending" /\ s.kind = "connect" =>
              Pending(r) /\ req[r].kind = "connect" /\ req[r].conn = s.conn,
           Pending(r) /\ req[r].kind = "connect" =>
              s.outcome = "pending" /\ s.kind = "connect" /\ req[r].conn = s.conn
    PROVE  IInv'
<1> USE DEF IInv
<1>1. req'[r] = s /\ \A i \in Requests \ {r} : req'[i] = req[i]
  BY DEF TypeOK
<1>2. PendingRequests'
  BY <1>1 DEF PendingRequests, PendingFor, Pending
<1>3. SlotsConsistent'
  BY <1>1 DEF SlotsConsistent, Consistent, isTokenActive
<1>4. OnlyIssuedAlive'
  BY DEF OnlyIssuedAlive
<1>5. Channels'
  BY DEF Channels
<1>6. OneConnectPending'
  <2>1. \A d \in Conns : ConnectRequests(d)' = ConnectRequests(d)
    BY <1>1 DEF ConnectRequests, Pending
  <2> QED  BY <2>1 DEF OneConnectPending
<1>7. AdmittedByToken'
  BY DEF AdmittedByToken
<1> QED  BY <1>2, <1>3, <1>4, <1>5, <1>6, <1>7

(* A step that closes connection c, and changes no slot but those that are *)
(* about c or settled.                                                     *)
LEMMA CloseInv ==
    ASSUME IInv, TypeOK', NEW c \in Conns, NEW q \in [Requests -> Slot],
           CloseWith(c, q), UNCHANGED <<live, cache>>,
           \A i \in Requests :
              \/ q[i] = req[i]
              \/ /\ Pending(i) => req[i].conn = c
                 /\ q[i].outcome # "pending"
                 /\ Consistent(q[i])
    PROVE  IInv'
<1> USE DEF IInv
<1>1. /\ phase' = [phase EXCEPT ![c] = "offline"]
      /\ store' = [store EXCEPT ![c] = NoToken]
      /\ perms' = [perms EXCEPT ![c] = {}]
      /\ subs' = [subs EXCEPT ![c] = {}]
      /\ req' = [i \in Requests |-> IF q[i].conn = c /\ q[i].outcome = "pending"
                                    THEN [q[i] EXCEPT !.outcome = "void"]
                                    ELSE q[i]]
  BY DEF CloseWith, VoidPending
<1>2. ASSUME NEW i \in Requests
      PROVE  /\ req'[i].kind = q[i].kind /\ req'[i].conn = q[i].conn
             /\ req'[i].token = q[i].token /\ req'[i].topic = q[i].topic
             /\ req'[i].stale = q[i].stale /\ req'[i].task = q[i].task
             /\ req'[i].body = q[i].body /\ req'[i].verdict = q[i].verdict
             /\ req'[i].outcome = IF q[i].conn = c /\ q[i].outcome = "pending"
                                  THEN "void" ELSE q[i].outcome
  BY <1>1 DEF Slot
<1>3. ASSUME NEW i \in Requests
      PROVE  Pending(i)' <=> Pending(i) /\ q[i] = req[i] /\ req[i].conn # c
  BY <1>2 DEF Pending
<1>4. PendingRequests'
  BY <1>1, <1>2, <1>3 DEF PendingRequests, PendingFor, TypeOK
<1>5. SlotsConsistent'
  <2> SUFFICES ASSUME NEW i \in Requests PROVE Consistent(req[i])'
    BY DEF SlotsConsistent
  <2>1. Consistent(q[i])
    BY DEF SlotsConsistent
  <2> QED  BY <1>2, <2>1 DEF Consistent, Dead, isTokenActive
<1>6. OnlyIssuedAlive'
  BY DEF OnlyIssuedAlive, Dead
<1>7. Channels'
  BY <1>1 DEF Channels, TypeOK
<1>8. OneConnectPending'
  <2>1. ASSUME NEW d \in Conns \ {c}
        PROVE  ConnectRequests(d)' = ConnectRequests(d) /\ phase'[d] = phase[d]
    <3>1. ASSUME NEW i \in Requests
          PROVE  i \in ConnectRequests(d)' <=> i \in ConnectRequests(d)
      BY <1>2, <1>3 DEF ConnectRequests, Pending
    <3> QED  BY <1>1, <3>1 DEF ConnectRequests, TypeOK
  <2>2. ConnectRequests(c)' = {} /\ phase'[c] = "offline"
    BY <1>1, <1>2, <1>3 DEF ConnectRequests, TypeOK
  <2> QED  BY <2>1, <2>2 DEF OneConnectPending
<1>9. AdmittedByToken'
  BY <1>1 DEF AdmittedByToken, TypeOK
<1> QED  BY <1>4, <1>5, <1>6, <1>7, <1>8, <1>9

----------------------------------------------------------------------------
(* The steps that neither change one slot only nor close a connection. *)

LEMMA StartupInv == IInv /\ Startup => IInv'
<1> SUFFICES ASSUME IInv, Startup PROVE IInv'
  OBVIOUS
<1> USE DEF IInv
<1>1. UNCHANGED <<phase, store, perms, subs, req, live, cache>>
  BY DEF Startup, LoadConfiguration, SetAuthenticatorProvider,
         SetAuthorizerProvider
<1>2. TypeOK'
  BY NextTypeOK DEF Next
<1>3. PendingRequests' /\ SlotsConsistent' /\ OnlyIssuedAlive'
  BY <1>1 DEF PendingRequests, PendingFor, SlotsConsistent, Consistent,
              OnlyIssuedAlive, Pending, Dead
<1>4. Channels' /\ OneConnectPending' /\ AdmittedByToken'
  BY <1>1 DEF Channels, OneConnectPending, ConnectRequests, Pending,
              AdmittedByToken
<1> QED  BY <1>2, <1>3, <1>4

LEMMA BrokerConnectInv ==
    ASSUME IInv, NEW c \in Conns, BrokerConnect(c)
    PROVE  IInv'
<1> USE DEF IInv
<1>1. TypeOK'
  BY NextTypeOK DEF Next
<1>2. /\ phase[c] = "offline" /\ store[c] = NoToken
      /\ phase' = [phase EXCEPT ![c] = "connected"]
      /\ perms' = [perms EXCEPT ![c] = Topics]
      /\ UNCHANGED <<store, subs, req, live, cache>>
  BY DEF BrokerConnect, Channels
<1>3. PendingRequests'
  BY <1>2 DEF PendingRequests, PendingFor, Pending, TypeOK
<1>4. SlotsConsistent' /\ OnlyIssuedAlive'
  BY <1>2 DEF SlotsConsistent, Consistent, OnlyIssuedAlive, Dead
<1>5. Channels'
  BY <1>2 DEF Channels, TypeOK
<1>6. OneConnectPending'
  BY <1>2 DEF OneConnectPending, ConnectRequests, Pending, TypeOK
<1>7. AdmittedByToken'
  BY <1>2 DEF AdmittedByToken, TypeOK
<1> QED  BY <1>1, <1>3, <1>4, <1>5, <1>6, <1>7

(* The death of a token and the expiry of a cache entry only add dead tokens. *)
LEMMA TokenInv ==
    ASSUME IInv, NEW t \in Tokens, TokenDies(t) \/ CacheExpires(t)
    PROVE  IInv'
<1> USE DEF IInv
<1>1. TypeOK'
  BY NextTypeOK DEF Next
<1>2. /\ UNCHANGED <<phase, store, perms, subs, req>>
      /\ \A u \in Tokens : Dead(u) => Dead(u)'
  BY DEF TokenDies, CacheExpires, Dead, TypeOK
<1>3. PendingRequests'
  BY <1>2 DEF PendingRequests, PendingFor, Pending
<1>4. SlotsConsistent' /\ OnlyIssuedAlive'
  BY <1>2 DEF SlotsConsistent, Consistent, OnlyIssuedAlive
<1>5. Channels' /\ OneConnectPending' /\ AdmittedByToken'
  BY <1>2 DEF Channels, OneConnectPending, ConnectRequests, Pending,
              AdmittedByToken
<1> QED  BY <1>1, <1>3, <1>4, <1>5

----------------------------------------------------------------------------
(* The handlers. *)

LEMMA RefusedConsistent ==
    ASSUME NEW kind, NEW c, NEW x
    PROVE  /\ Consistent(RefusedRequest(kind, c, x))
           /\ RefusedRequest(kind, c, x).outcome = "refused"
  BY DEF RefusedRequest, FreeSlot, Consistent, isTokenActive

LEMMA NewConsistent ==
    ASSUME NEW kind, NEW c, NEW t \in Tokens, NEW x
    PROVE  /\ Consistent(NewRequest(kind, c, t, x))
           /\ NewRequest(kind, c, t, x).outcome = "pending"
           /\ NewRequest(kind, c, t, x).kind = kind
           /\ NewRequest(kind, c, t, x).conn = c
           /\ NewRequest(kind, c, t, x).token = t
  BY DEF NewRequest, FreeSlot, Consistent, isTokenActive

LEMMA OnConnectInv ==
    ASSUME IInv, NEW c \in Conns, NEW r \in Requests,
           NEW p \in Tokens \cup {NoToken}, OnConnect(c, r, p)
    PROVE  IInv'
<1> USE DEF IInv
<1>1. TypeOK'
  BY NextTypeOK DEF Next, Handlers
<1>2. ~Pending(r) /\ phase[c] = "offline" /\ store[c] = NoToken /\ subs[c] = {}
  BY DEF OnConnect, Free, Pending, Channels
<1>3. CASE p = NoToken
  <2> DEFINE s == RefusedRequest("connect", c, NoTopic)
  <2>1. s \in Slot /\ Consistent(s) /\ s.outcome = "refused"
    BY RefusedRequestType, RefusedConsistent DEF Kinds
  <2>2. /\ req' = [req EXCEPT ![r] = s]
        /\ UNCHANGED <<phase, store, perms, subs, live, cache>>
    BY <1>3 DEF OnConnect
  <2> HIDE DEF s
  <2> QED  BY <1>1, <1>2, <2>1, <2>2, SlotInv DEF Dead
<1>4. CASE p # NoToken
  <2> DEFINE s == NewRequest("connect", c, p, NoTopic)
  <2>1. p \in Tokens
    BY <1>4
  <2>2. /\ s \in Slot /\ Consistent(s) /\ s.outcome = "pending"
        /\ s.kind = "connect" /\ s.conn = c /\ s.token = p
    BY <2>1, NewRequestType, NewConsistent DEF Kinds
  <2>3. /\ store' = [store EXCEPT ![c] = p]
        /\ phase' = [phase EXCEPT ![c] = "connecting"]
        /\ req' = [req EXCEPT ![r] = s]
        /\ UNCHANGED <<perms, subs, live, cache>>
    BY <1>4 DEF OnConnect
  <2> HIDE DEF s
  <2>4. req'[r] = s /\ \A i \in Requests \ {r} : req'[i] = req[i]
    BY <2>3 DEF TypeOK
  <2>5. \A i \in Requests : Pending(i) => i # r /\ req[i].conn # c
    BY <1>2 DEF PendingRequests, PendingFor
  <2>6. PendingRequests'
    BY <2>1, <2>2, <2>3, <2>4, <2>5
    DEF PendingRequests, PendingFor, Pending, TypeOK
  <2>7. SlotsConsistent' /\ OnlyIssuedAlive'
    BY <2>2, <2>3, <2>4
    DEF SlotsConsistent, Consistent, OnlyIssuedAlive, Dead, isTokenActive
  <2>8. Channels'
    BY <1>2, <2>1, <2>3, ConstantsAssumption DEF Channels, TypeOK
  <2>9. OneConnectPending'
    <3>1. ConnectRequests(c)' = {r}
      BY <2>2, <2>4, <2>5 DEF ConnectRequests, Pending
    <3>2. \A d \in Conns \ {c} : ConnectRequests(d)' = ConnectRequests(d)
      BY <1>2, <2>2, <2>4 DEF ConnectRequests, Pending
    <3>3. /\ phase'[c] = "connecting"
          /\ \A d \in Conns \ {c} : phase'[d] = phase[d]
      BY <2>3 DEF TypeOK
    <3> QED  BY <3>1, <3>2, <3>3 DEF OneConnectPending
  <2>10. AdmittedByToken'
    BY <2>3 DEF AdmittedByToken, TypeOK
  <2> QED  BY <1>1, <2>6, <2>7, <2>8, <2>9, <2>10
<1> QED  BY <1>3, <1>4

LEMMA AuthorizeInv ==
    ASSUME IInv, NEW kind \in {"publish", "subscribe"}, NEW c \in Conns,
           NEW r \in Requests, NEW x \in Topics, Authorize(kind, c, r, x),
           TypeOK'
    PROVE  IInv'
<1> USE DEF IInv
<1>1. ~Pending(r) /\ phase[c] = "connected"
  BY DEF Authorize, Free, Pending
<1>2. CASE store[c] = NoToken
  <2> DEFINE s == RefusedRequest(kind, c, x)
             q == [req EXCEPT ![r] = s]
  <2>1. s \in Slot /\ Consistent(s) /\ s.outcome = "refused"
    BY RefusedRequestType, RefusedConsistent DEF Kinds
  <2>2. CloseWith(c, q) /\ UNCHANGED <<live, cache>>
    BY <1>2 DEF Authorize
  <2> HIDE DEF s
  <2>3. q \in [Requests -> Slot] /\ q[r] = s
    BY <2>1 DEF TypeOK
  <2>4. \A i \in Requests : i # r => q[i] = req[i]
    BY DEF TypeOK
  <2> HIDE DEF q
  <2> QED  BY <1>1, <2>1, <2>2, <2>3, <2>4, CloseInv
<1>3. CASE store[c] # NoToken
  <2> DEFINE t == store[c]
             s == NewRequest(kind, c, t, x)
  <2>1. t \in Tokens
    BY <1>3 DEF TypeOK
  <2>2. /\ s \in Slot /\ Consistent(s) /\ s.outcome = "pending"
        /\ s.kind = kind /\ s.conn = c /\ s.token = t
    BY <2>1, NewRequestType, NewConsistent DEF Kinds
  <2>3. /\ req' = [req EXCEPT ![r] = s]
        /\ UNCHANGED <<phase, store, perms, subs, live, cache>>
    BY <1>3 DEF Authorize
  <2> HIDE DEF s
  <2>4. PendingFor(s)
    BY <1>1, <2>1, <2>2 DEF PendingFor
  <2>5. s.kind # "connect"
    BY <2>2
  <2> QED  BY <1>1, <2>2, <2>3, <2>4, <2>5, SlotInv DEF Dead
<1> QED  BY <1>2, <1>3

----------------------------------------------------------------------------
(* The tasks, the timer and the bookkeeping. *)

(* A step of a task that leaves the outcome of its request open. *)
LEMMA TaskStepInv ==
    ASSUME IInv, TypeOK', NEW r \in Requests, NEW s \in Slot,
           req' = [req EXCEPT ![r] = s],
           UNCHANGED <<phase, store, perms, subs>>,
           \A t \in Tokens : Dead(t)' <=> Dead(t),
           Consistent(s),
           s.outcome = req[r].outcome, s.kind = req[r].kind,
           s.conn = req[r].conn, s.token = req[r].token
    PROVE  IInv'
<1>1. s.outcome = "pending" => PendingFor(s)
  BY DEF IInv, PendingRequests, PendingFor, Pending
<1> QED  BY <1>1, SlotInv DEF Pending

LEMMA TaskInv ==
    ASSUME IInv, TypeOK', NEW r \in Requests,
           \/ StartTask(r) \/ Introspect(r) \/ IntrospectFails(r)
           \/ TaskThrows(r) \/ ProcessResponse(r)
    PROVE  IInv'
<1> USE DEF IInv
<1> DEFINE s == req'[r]
<1>1. s \in Slot /\ req[r] \in Slot /\ Consistent(req[r])
  BY DEF TypeOK, SlotsConsistent
<1>2. /\ req' = [req EXCEPT ![r] = s]
      /\ s.outcome = req[r].outcome /\ s.kind = req[r].kind
      /\ s.conn = req[r].conn /\ s.token = req[r].token
      /\ s.topic = req[r].topic /\ s.stale = req[r].stale
  <2>1. CASE StartTask(r)
    BY <1>1, <2>1 DEF StartTask, SetTask, TypeOK, Slot
  <2>2. CASE Introspect(r)
    BY <1>1, <2>2 DEF Introspect, TypeOK, Slot
  <2>3. CASE IntrospectFails(r)
    BY <1>1, <2>3 DEF IntrospectFails, TypeOK, Slot
  <2>4. CASE TaskThrows(r)
    BY <1>1, <2>4 DEF TaskThrows, SetTask, TypeOK, Slot
  <2>5. CASE ProcessResponse(r)
    BY <1>1, <2>5 DEF ProcessResponse, TypeOK, Slot
  <2> QED  BY <2>1, <2>2, <2>3, <2>4, <2>5
<1>3. UNCHANGED <<phase, store, perms, subs>>
  BY DEF StartTask, Introspect, IntrospectFails, TaskThrows, ProcessResponse
<1>4. \A t \in Tokens : Dead(t)' <=> Dead(t)
  BY DEF StartTask, Introspect, IntrospectFails, TaskThrows, ProcessResponse,
         Dead, TypeOK
<1>5. Consistent(s)
  <2>1. CASE StartTask(r)
    BY <1>1, <1>2, <2>1 DEF StartTask, SetTask, Consistent, TypeOK, Slot
  <2>2. CASE Introspect(r)
    <3>1. req[r].token \in Tokens
      BY <1>1, <2>2 DEF Introspect, Consistent
    <3>2. /\ s.body = IF Dead(req[r].token) THEN "inactive" ELSE "active"
          /\ s.verdict = req[r].verdict
      BY <1>1, <2>2 DEF Introspect, TypeOK, Slot
    <3> HIDE DEF s
    <3> QED  BY <1>1, <1>2, <3>1, <3>2
             DEF Consistent, isTokenActive, OnlyIssuedAlive
  <2>3. CASE IntrospectFails(r)
    <3>1. s.body = "empty" /\ s.verdict = req[r].verdict /\ s.task = "replied"
      BY <1>1, <2>3 DEF IntrospectFails, TypeOK, Slot
    <3>2. req[r].token \in Tokens
      BY <1>1, <2>3 DEF IntrospectFails, Consistent
    <3> HIDE DEF s
    <3> QED  BY <1>1, <1>2, <3>1, <3>2 DEF Consistent, isTokenActive
  <2>4. CASE TaskThrows(r)
    BY <1>1, <1>2, <2>4 DEF TaskThrows, SetTask, Consistent, TypeOK, Slot
  <2>5. CASE ProcessResponse(r)
    <3>1. s.body = "empty" /\ s.verdict = Verdict(req[r])
      BY <1>1, <2>5 DEF ProcessResponse, TypeOK, Slot
    <3>2. req[r].token \in Tokens
      BY <1>1, <2>5 DEF ProcessResponse, Consistent
    <3> HIDE DEF s
    <3> QED  BY <1>1, <1>2, <3>1, <3>2 DEF Consistent, isTokenActive,
                       Verdict, ConnectAllowed, SubscriptionAllowed,
                       PublishAllowed
  <2> QED  BY <2>1, <2>2, <2>3, <2>4, <2>5
<1> HIDE DEF s
<1> QED  BY <1>1, <1>2, <1>3, <1>4, <1>5, TaskStepInv

(* The slot of a request as the broker leaves it when it settles it. *)
LEMMA SettledSlot ==
    ASSUME TypeOK, NEW r \in Requests, Consistent(req[r]),
           NEW o \in {"refused", "granted"},
           o = "granted" => /\ req[r].token \in Issued /\ ~req[r].stale
                            /\ req[r].kind # "connect" =>
                                  req[r].topic = getMQTTScope(req[r].token)
    PROVE  /\ Settle(r, o) \in [Requests -> Slot]
           /\ \A i \in Requests : i # r => Settle(r, o)[i] = req[i]
           /\ Settle(r, o)[r].outcome = o
           /\ Settle(r, o)[r].kind = req[r].kind
           /\ Settle(r, o)[r].conn = req[r].conn
           /\ Settle(r, o)[r].token = req[r].token
           /\ Consistent(Settle(r, o)[r])
<1> DEFINE s == [req[r] EXCEPT !.task = "ended", !.outcome = o]
<1>1. req[r] \in Slot
  BY DEF TypeOK
<1>2. s \in Slot
  BY <1>1, SlotUpdateType DEF Stages, Outcomes, Bodies, Verdicts
<1>3. /\ s.kind = req[r].kind /\ s.conn = req[r].conn
      /\ s.token = req[r].token /\ s.topic = req[r].topic
      /\ s.stale = req[r].stale /\ s.body = req[r].body
      /\ s.verdict = req[r].verdict /\ s.task = "ended" /\ s.outcome = o
  BY <1>1 DEF Slot
<1>4. Settle(r, o) = [req EXCEPT ![r] = s]
  BY DEF Settle
<1> HIDE DEF s
<1>5. Consistent(s)
  BY <1>3 DEF Consistent, isTokenActive
<1> QED  BY <1>2, <1>3, <1>4, <1>5 DEF TypeOK

LEMMA RefuseInv ==
    ASSUME IInv, TypeOK', NEW r \in Requests, Pending(r),
           NEW q \in [Requests -> Slot],
           \A i \in Requests : i # r => q[i] = req[i],
           Consistent(q[r]), q[r].outcome # "pending",
           \/ CloseWith(req[r].conn, q)
           \/ req[r].kind # "connect" /\ RefuseByBroker(req[r].conn, q),
           UNCHANGED <<live, cache>>
    PROVE  IInv'
<1>1. req[r].conn \in Conns
  BY DEF IInv, PendingRequests, PendingFor
<1>2. CASE CloseWith(req[r].conn, q)
  BY <1>1, <1>2, CloseInv
<1>3. CASE /\ req[r].kind # "connect" /\ req' = q
           /\ UNCHANGED <<phase, store, perms, subs>>
  <2>1. q = [req EXCEPT ![r] = q[r]]
    BY DEF IInv, TypeOK
  <2>2. q[r] \in Slot
    OBVIOUS
  <2> QED  BY <1>3, <2>1, <2>2, SlotInv DEF Dead
<1> QED  BY <1>2, <1>3 DEF RefuseByBroker

LEMMA TimeoutInv ==
    ASSUME IInv, TypeOK', NEW r \in Requests, Timeout(r)
    PROVE  IInv'
<1> DEFINE q == [req EXCEPT ![r].outcome = "timedout"]
<1>1. req[r] \in Slot /\ Consistent(req[r])
  BY DEF IInv, TypeOK, SlotsConsistent
<1>2. [req[r] EXCEPT !.outcome = "timedout"] \in Slot
  BY <1>1 DEF Slot, Outcomes
<1>3. /\ q \in [Requests -> Slot]
      /\ \A i \in Requests : i # r => q[i] = req[i]
      /\ q[r] = [req[r] EXCEPT !.outcome = "timedout"]
  BY <1>2 DEF IInv, TypeOK
<1>4. Consistent(q[r]) /\ q[r].outcome # "pending"
  BY <1>1, <1>3 DEF Consistent, isTokenActive, Slot
<1>5. /\ Pending(r) /\ UNCHANGED <<live, cache>>
      /\ \/ CloseWith(req[r].conn, q)
         \/ req[r].kind # "connect" /\ RefuseByBroker(req[r].conn, q)
  BY DEF Timeout
<1> HIDE DEF q
<1> QED  BY <1>3, <1>4, <1>5, RefuseInv

LEMMA ReleaseInv ==
    ASSUME IInv, TypeOK', NEW r \in Requests, ReleaseSlot(r)
    PROVE  IInv'
<1>1. Consistent(FreeSlot) /\ FreeSlot.outcome = "free"
  BY DEF Consistent, FreeSlot, isTokenActive
<1>2. ~Pending(r) /\ req' = [req EXCEPT ![r] = FreeSlot]
  BY DEF ReleaseSlot, Pending
<1> QED  BY <1>1, <1>2, FreeSlotType, SlotInv DEF ReleaseSlot, Dead

----------------------------------------------------------------------------
(* The resumption of an output, by what its authorizer wrote to it. *)

(* Only a connect request makes a connection connected, and only with the  *)
(* permissions of the token it presented.                                  *)
LEMMA AdmitInv ==
    ASSUME IInv, TypeOK', NEW r \in Requests, Pending(r),
           req[r].kind = "connect", req[r].verdict = "allow",
           phase' = [phase EXCEPT ![req[r].conn] = "connected"],
           perms' = [perms EXCEPT
                        ![req[r].conn] = DefaultPermissions(req[r].token)],
           req' = Settle(r, "granted"),
           UNCHANGED <<store, subs, live, cache>>
    PROVE  IInv'
<1> USE DEF IInv
<1> DEFINE t == req[r].token
<1>0. PICK c \in Conns : c = req[r].conn
  BY DEF PendingRequests, PendingFor
<1>1. t \in Tokens /\ store[c] = t /\ phase[c] = "connecting"
  BY <1>0 DEF PendingRequests, PendingFor
<1>2. Consistent(req[r])
  BY DEF SlotsConsistent
<1>3. t \in Issued /\ ~req[r].stale /\ getMQTTScope(t) # NoTopic
  BY <1>2 DEF Consistent
<1>4. /\ \A i \in Requests : i # r => req'[i] = req[i]
      /\ req'[r].outcome = "granted" /\ Consistent(req'[r])
  BY <1>2, <1>3, SettledSlot
<1>5. ConnectRequests(c) = {r}
  BY <1>0, <1>1 DEF OneConnectPending, ConnectRequests
<1>6. \A i \in Requests : Pending(i) /\ i # r => req[i].conn # c
  BY <1>1, <1>5 DEF PendingRequests, PendingFor, ConnectRequests
<1>7. /\ phase'[c] = "connected" /\ perms'[c] = {getMQTTScope(t)}
      /\ \A d \in Conns \ {c} : phase'[d] = phase[d] /\ perms'[d] = perms[d]
  BY <1>0 DEF TypeOK, DefaultPermissions
<1>8. PendingRequests'
  BY <1>4, <1>6, <1>7 DEF PendingRequests, PendingFor, Pending
<1>9. SlotsConsistent'
  BY <1>4 DEF SlotsConsistent, Consistent, Dead, isTokenActive
<1>10. OnlyIssuedAlive'
  BY DEF OnlyIssuedAlive, Dead
<1>11. Channels'
  BY <1>1, <1>7 DEF Channels
<1>12. OneConnectPending'
  <2>1. ConnectRequests(c)' = {}
    BY <1>4, <1>6 DEF ConnectRequests, Pending
  <2>2. ASSUME NEW d \in Conns \ {c}
        PROVE  ConnectRequests(d)' = ConnectRequests(d)
    <3>1. req[r].conn # d /\ req'[r].outcome # "pending"
      BY <1>0, <1>4
    <3> QED  BY <1>4, <3>1 DEF ConnectRequests, Pending
  <2>3. ASSUME NEW d \in Conns
        PROVE  /\ phase'[d] = "connecting" <=> ConnectRequests(d)' # {}
               /\ \A i, j \in ConnectRequests(d)' : i = j
    <3>1. CASE d = c
      BY <1>7, <2>1, <3>1
    <3>2. CASE d # c
      BY <1>7, <2>2, <3>2 DEF OneConnectPending
    <3> QED  BY <3>1, <3>2
  <2> QED  BY <2>3 DEF OneConnectPending
<1>13. AdmittedByToken'
  BY <1>1, <1>3, <1>7 DEF AdmittedByToken
<1> QED  BY <1>8, <1>9, <1>10, <1>11, <1>12, <1>13

(* A publish or subscribe request is granted within the permissions of the *)
(* connection, which are those of the token of the request.                *)
LEMMA GrantInv ==
    ASSUME IInv, TypeOK', NEW r \in Requests, Pending(r),
           req[r].kind # "connect", req[r].verdict = "allow",
           req[r].topic \in perms[req[r].conn],
           req' = Settle(r, "granted"),
           \/ subs' = subs
           \/ subs' = [subs EXCEPT ![req[r].conn] = @ \cup {req[r].topic}],
           UNCHANGED <<phase, store, perms, live, cache>>
    PROVE  IInv'
<1> USE DEF IInv
<1> DEFINE c == req[r].conn
           t == req[r].token
           s == req'[r]
<1>1. /\ c \in Conns /\ t \in Tokens /\ store[c] = t
      /\ phase[c] = "connected"
  BY DEF PendingRequests, PendingFor
<1>2. Consistent(req[r])
  BY DEF SlotsConsistent
<1>3. t \in Issued /\ ~req[r].stale
  BY <1>2 DEF Consistent
<1>4. req[r].topic = getMQTTScope(t)
  BY <1>1, ConstantsAssumption DEF AdmittedByToken
<1>5. /\ req' = [req EXCEPT ![r] = s] /\ s \in Slot
      /\ s.outcome = "granted" /\ Consistent(s)
  BY <1>2, <1>3, <1>4, SettledSlot DEF TypeOK
<1>6. \A d \in Conns : \A x \in subs'[d] :
         \/ x \in subs[d]
         \/ /\ phase[d] = "connected" /\ store[d] \in Issued
            /\ x = getMQTTScope(store[d])
  BY <1>1, <1>3, <1>4 DEF TypeOK
<1> HIDE DEF s
<1> QED  BY <1>5, <1>6, SlotInv DEF Dead

LEMMA ResumeInv ==
    ASSUME IInv, TypeOK', NEW r \in Requests, Resume(r)
    PROVE  IInv'
<1>1. Consistent(req[r]) /\ req[r] \in Slot
  BY DEF IInv, SlotsConsistent, TypeOK
<1>2. CASE ~Pending(r)
  <2> DEFINE s == [req[r] EXCEPT !.task = "ended"]
  <2>1. /\ s \in Slot
        /\ s.kind = req[r].kind /\ s.conn = req[r].conn
        /\ s.token = req[r].token /\ s.topic = req[r].topic
        /\ s.stale = req[r].stale /\ s.body = req[r].body
        /\ s.verdict = req[r].verdict /\ s.outcome = req[r].outcome
        /\ s.task = "ended"
    BY <1>1 DEF Slot, Stages
  <2>2. /\ req' = [req EXCEPT ![r] = s]
        /\ UNCHANGED <<phase, store, perms, subs, live, cache>>
    BY <1>2 DEF Resume, SetTask
  <2> HIDE DEF s
  <2>3. Consistent(s)
    BY <1>1, <2>1 DEF Consistent
  <2> QED  BY <2>1, <2>2, <2>3, TaskStepInv DEF Dead
<1>3. CASE Pending(r)
  <2>1. Apply(r) /\ UNCHANGED <<live, cache>>
    BY <1>3 DEF Resume
  <2> DEFINE q == Settle(r, "refused")
  <2>2. /\ q \in [Requests -> Slot] /\ Consistent(q[r])
        /\ \A i \in Requests : i # r => q[i] = req[i]
        /\ q[r].outcome # "pending"
    BY <1>1, SettledSlot DEF IInv
  <2>3. CASE \/ req[r].verdict = "deny"
             \/ /\ req[r].kind # "connect"
                /\ req[r].topic \notin perms[req[r].conn]
    <3>1. \/ CloseWith(req[r].conn, q)
          \/ req[r].kind # "connect" /\ RefuseByBroker(req[r].conn, q)
      BY <2>1, <2>3 DEF Apply
    <3> HIDE DEF q
    <3> QED  BY <1>3, <2>1, <2>2, <3>1, RefuseInv
  <2>4. CASE req[r].verdict = "allow" /\ req[r].kind = "connect"
    BY <1>3, <2>1, <2>4, AdmitInv DEF Apply
  <2>5. CASE /\ req[r].verdict = "allow" /\ req[r].kind # "connect"
             /\ req[r].topic \in perms[req[r].conn]
    BY <1>3, <2>1, <2>5, GrantInv DEF Apply
  <2> QED  BY <2>1, <2>3, <2>4, <2>5 DEF Apply
<1> QED  BY <1>2, <1>3

----------------------------------------------------------------------------
(* The theorems. *)

LEMMA NextIInv == IInv /\ [Next]_vars => IInv'
<1> SUFFICES ASSUME IInv, [Next]_vars PROVE IInv'
  OBVIOUS
<1>1. TypeOK'
  BY NextTypeOK
<1>2. CASE Startup
  BY <1>2, StartupInv
<1>3. ASSUME NEW c \in Conns, BrokerConnect(c) PROVE IInv'
  BY <1>3, BrokerConnectInv
<1>4. ASSUME NEW c \in Conns, ConnectionLost(c) PROVE IInv'
  <2>1. CloseWith(c, req) /\ req \in [Requests -> Slot]
    BY <1>4 DEF ConnectionLost, IInv, TypeOK
  <2> QED  BY <1>1, <1>4, <2>1, CloseInv DEF ConnectionLost
<1>5. ASSUME NEW c \in Conns, NEW r \in Requests, Handlers(c, r) PROVE IInv'
  BY <1>1, <1>5, OnConnectInv, AuthorizeInv
  DEF Handlers, AuthorizeSubscribe, AuthorizePublish
<1>6. ASSUME NEW r \in Requests, Task(r) PROVE IInv'
  BY <1>1, <1>6, TaskInv, ResumeInv DEF Task
<1>7. ASSUME NEW r \in Requests, Timeout(r) \/ ReleaseSlot(r) PROVE IInv'
  BY <1>1, <1>7, TimeoutInv, ReleaseInv
<1>8. ASSUME NEW t \in Tokens, TokenDies(t) \/ CacheExpires(t) PROVE IInv'
  BY <1>8, TokenInv
<1>9. CASE UNCHANGED vars
  <2> USE <1>9 DEF vars, IInv
  <2>1. PendingRequests' /\ SlotsConsistent' /\ OnlyIssuedAlive'
    BY DEF PendingRequests, PendingFor, SlotsConsistent, Consistent,
           OnlyIssuedAlive, Pending, Dead
  <2>2. Channels' /\ OneConnectPending' /\ AdmittedByToken'
    BY DEF Channels, OneConnectPending, ConnectRequests, Pending,
           AdmittedByToken
  <2> QED  BY <1>1, <2>1, <2>2
<1> QED
  BY <1>2, <1>3, <1>4, <1>5, <1>6, <1>7, <1>8, <1>9 DEF Next

LEMMA Invariance == Spec => []IInv
  BY InitIInv, NextIInv, PTL DEF Spec

(* Every reachable state is well typed. *)
THEOREM TypeCorrect == Spec => []TypeOK
<1>1. IInv => TypeOK
  BY DEF IInv
<1> QED  BY <1>1, Invariance, PTL

(* A connection waits for its CONNACK exactly while one connect request of *)
(* it is pending, for any executor, even one without threads.              *)
THEOREM OneAnswerPerConnect == Spec => []OneConnectPending
<1>1. IInv => OneConnectPending
  BY DEF IInv
<1> QED  BY <1>1, Invariance, PTL

(* A pending request is about the token that its connection holds, however *)
(* often clients left and came back while tasks were queued.               *)
THEOREM RequestsOfHolder == Spec => []PendingRequests
<1>1. IInv => PendingRequests
  BY DEF IInv
<1> QED  BY <1>1, Invariance, PTL

(* The extension lets in only clients with a token of AM that has an MQTT  *)
(* scope, with the permissions of that token.                              *)
THEOREM AdmissionByToken == Spec => []AdmittedByToken
<1>1. IInv => AdmittedByToken
  BY DEF IInv
<1> QED  BY <1>1, Invariance, PTL

(* Nothing is granted, and nothing subscribed to, outside the scope of the *)
(* token that the connection presented.                                    *)
THEOREM Confinement == Spec => []ConfinedToScope
<1>1. IInv => ConfinedToScope
  BY DEF IInv, SlotsConsistent, Consistent, Channels, ConfinedToScope
<1> QED  BY <1>1, Invariance, PTL

(* A request that arrives with a dead token is never granted. *)
THEOREM Revocation == Spec => []DeadTokenRefused
<1>1. IInv => DeadTokenRefused
  BY DEF IInv, SlotsConsistent, Consistent, DeadTokenRefused
<1> QED  BY <1>1, Invariance, PTL

----------------------------------------------------------------------------
(* What a step may do to the connections. *)

Untouched == UNCHANGED <<phase, store, perms, subs>>

Closes(c) == /\ phase' = [phase EXCEPT ![c] = "offline"]
             /\ store' = [store EXCEPT ![c] = NoToken]
             /\ perms' = [perms EXCEPT ![c] = {}]
             /\ subs' = [subs EXCEPT ![c] = {}]

LetsIn(c) == /\ phase[c] = "offline" /\ store[c] = NoToken
             /\ phase' = [phase EXCEPT ![c] = "connected"]
             /\ perms' = [perms EXCEPT ![c] = Topics]
             /\ UNCHANGED <<store, subs>>

Asks(c, t) == /\ phase[c] = "offline"
              /\ phase' = [phase EXCEPT ![c] = "connecting"]
              /\ store' = [store EXCEPT ![c] = t]
              /\ UNCHANGED <<perms, subs>>

Admits(c) == /\ phase[c] = "connecting"
             /\ store[c] \in Issued /\ getMQTTScope(store[c]) # NoTopic
             /\ phase' = [phase EXCEPT ![c] = "connected"]
             /\ perms' = [perms EXCEPT ![c] = {getMQTTScope(store[c])}]
             /\ UNCHANGED <<store, subs>>

Subscribes(c) == /\ phase[c] = "connected" /\ store[c] \in Tokens
                 /\ subs' = [subs EXCEPT ![c] = @ \cup {getMQTTScope(store[c])}]
                 /\ UNCHANGED <<phase, store, perms>>

Effect == \/ Untouched
          \/ \E c \in Conns : \/ Closes(c) \/ LetsIn(c) \/ Admits(c)
                              \/ Subscribes(c)
                              \/ \E t \in Tokens : Asks(c, t)

LEMMA ResumeEffect ==
    ASSUME IInv, NEW r \in Requests, Resume(r)
    PROVE  Effect
<1>1. CASE ~Pending(r)
  BY <1>1 DEF Resume, Effect, Untouched
<1>2. CASE Pending(r)
  <2>0. PICK c \in Conns : c = req[r].conn
    BY <1>2 DEF IInv, PendingRequests, PendingFor
  <2>1. /\ store[c] = req[r].token /\ store[c] \in Tokens
        /\ phase[c] = IF req[r].kind = "connect" THEN "connecting"
                                                 ELSE "connected"
    BY <1>2, <2>0 DEF IInv, PendingRequests, PendingFor
  <2>2. /\ req[r].verdict = "allow" => req[r].token \in Issued
        /\ req[r].verdict = "allow" /\ req[r].kind = "connect" =>
              getMQTTScope(req[r].token) # NoTopic
    BY DEF IInv, SlotsConsistent, Consistent
  <2>3. req[r].kind # "connect" => perms[c] = {getMQTTScope(store[c])}
    BY <2>1, ConstantsAssumption DEF IInv, AdmittedByToken
  <2>4. Apply(r)
    BY <1>2 DEF Resume
  <2>5. CASE \E q : CloseWith(c, q)
    BY <2>5 DEF CloseWith, Closes, Effect
  <2>6. CASE /\ req[r].verdict = "allow" /\ req[r].kind = "connect"
             /\ phase' = [phase EXCEPT ![c] = "connected"]
             /\ perms' = [perms EXCEPT ![c] = DefaultPermissions(req[r].token)]
             /\ UNCHANGED <<store, subs>>
    <3>1. Admits(c)
      BY <2>1, <2>2, <2>6 DEF Admits, DefaultPermissions
    <3> QED  BY <3>1 DEF Effect
  <2>7. CASE /\ req[r].kind # "connect" /\ req[r].topic \in perms[c]
             /\ subs' = [subs EXCEPT ![c] = @ \cup {req[r].topic}]
             /\ UNCHANGED <<phase, store, perms>>
    <3>1. req[r].topic = getMQTTScope(store[c])
      BY <2>3, <2>7
    <3>2. Subscribes(c)
      BY <2>1, <2>7, <3>1 DEF Subscribes
    <3> QED  BY <3>2 DEF Effect
  <2>8. CASE Untouched
    BY <2>8 DEF Effect
  <2> QED  BY <2>0, <2>4, <2>5, <2>6, <2>7, <2>8
           DEF Apply, RefuseByBroker, Untouched
<1> QED  BY <1>1, <1>2

LEMMA StepEffect == IInv /\ [Next]_vars => Effect
<1> SUFFICES ASSUME IInv, [Next]_vars PROVE Effect
  OBVIOUS
<1>1. CASE Startup
  BY <1>1 DEF Startup, LoadConfiguration, SetAuthenticatorProvider,
              SetAuthorizerProvider, Effect, Untouched
<1>2. ASSUME NEW c \in Conns, BrokerConnect(c) PROVE Effect
  <2>1. LetsIn(c)
    BY <1>2 DEF BrokerConnect, LetsIn, IInv, Channels
  <2> QED  BY <2>1 DEF Effect
<1>3. ASSUME NEW c \in Conns, ConnectionLost(c) PROVE Effect
  BY <1>3 DEF ConnectionLost, CloseWith, Closes, Effect
<1>4. ASSUME NEW c \in Conns, NEW r \in Requests,
             NEW p \in Tokens \cup {NoToken}, OnConnect(c, r, p)
      PROVE  Effect
  <2>1. CASE p = NoToken
    BY <1>4, <2>1 DEF OnConnect, Effect, Untouched
  <2>2. CASE p # NoToken
    BY <1>4, <2>2 DEF OnConnect, Effect, Asks
  <2> QED  BY <2>1, <2>2
<1>5. ASSUME NEW c \in Conns, NEW r \in Requests, NEW x, NEW kind,
             Authorize(kind, c, r, x)
      PROVE  Effect
  BY <1>5 DEF Authorize, CloseWith, Effect, Closes, Untouched
<1>6. ASSUME NEW r \in Requests, Task(r) PROVE Effect
  BY <1>6, ResumeEffect
  DEF Task, StartTask, Introspect, IntrospectFails, TaskThrows,
      ProcessResponse, Effect, Untouched
<1>7. ASSUME NEW r \in Requests, Timeout(r) PROVE Effect
  <2>1. req[r].conn \in Conns
    BY <1>7 DEF Timeout, IInv, PendingRequests, PendingFor
  <2> QED  BY <1>7, <2>1 DEF Timeout, RefuseByBroker, CloseWith, Effect,
                             Closes, Untouched
<1>8. ASSUME NEW r \in Requests, ReleaseSlot(r) PROVE Effect
  BY <1>8 DEF ReleaseSlot, Effect, Untouched
<1>9. ASSUME NEW t \in Tokens, TokenDies(t) \/ CacheExpires(t) PROVE Effect
  BY <1>9 DEF TokenDies, CacheExpires, Effect, Untouched
<1>10. CASE UNCHANGED vars
  BY <1>10 DEF vars, Effect, Untouched
<1> QED
  BY <1>1, <1>2, <1>3, <1>4, <1>5, <1>6, <1>7, <1>8, <1>9, <1>10
  DEF Next, Handlers, AuthorizeSubscribe, AuthorizePublish

----------------------------------------------------------------------------
(* The token and the permissions of a connection are fixed from the moment *)
(* it is let in until it closes.                                           *)
THEOREM SessionsUnaltered == Spec => SessionUnaltered
<1> DEFINE Unaltered ==
      \A c \in Conns : phase[c] = "connected" /\ phase'[c] = "connected" =>
                          store'[c] = store[c] /\ perms'[c] = perms[c]
<1>1. IInv /\ [Next]_vars => Unaltered
  BY StepEffect DEF Effect, Untouched, Closes, LetsIn, Asks, Admits,
                    Subscribes, IInv, TypeOK
<1>2. IInv /\ [Next]_vars => [Unaltered]_vars
  BY <1>1
<1> QED  BY <1>2, Invariance, PTL DEF Spec, SessionUnaltered

----------------------------------------------------------------------------
(* Seen from the sessions and what they reach, every step of the extension *)
(* is a step of the abstract specification, or none.                       *)

LEMMA InitPromise == Init => Promise!Init
  BY DEF Init, Promise!Init, SessionOf

LEMMA StepPromise == IInv /\ [Next]_vars => [Promise!Next]_(Promise!vars)
<1> SUFFICES ASSUME IInv, [Next]_vars PROVE [Promise!Next]_(Promise!vars)
  OBVIOUS
<1> USE DEF IInv, TypeOK, SessionOf
<1>1. CASE Untouched
  BY <1>1 DEF Untouched, Promise!vars
<1>2. ASSUME NEW c \in Conns, Closes(c) PROVE Promise!End(c)
  BY <1>2 DEF Closes, Promise!End
<1>3. ASSUME NEW c \in Conns, LetsIn(c) PROVE Promise!AdmitUnknown(c)
  BY <1>3 DEF LetsIn, Promise!AdmitUnknown
<1>4. ASSUME NEW c \in Conns, NEW t \in Tokens, Asks(c, t)
      PROVE  UNCHANGED Promise!vars
  BY <1>4 DEF Asks, Promise!vars
<1>5. ASSUME NEW c \in Conns, Admits(c)
      PROVE  \E t \in Tokens : Promise!Admit(c, t)
  BY <1>5, ConstantsAssumption DEF Admits, Promise!Admit
<1>6. ASSUME NEW c \in Conns, Subscribes(c) PROVE Promise!Reach(c)
  BY <1>6 DEF Subscribes, Promise!Reach
<1> QED
  BY <1>1, <1>2, <1>3, <1>4, <1>5, <1>6, StepEffect DEF Effect, Promise!Next

(* The extension implements the authorisation it promises. *)
THEOREM Refinement == Spec => ImplementsPromise
  BY InitPromise, StepPromise, Invariance, PTL
  DEF Spec, ImplementsPromise, Promise!Spec
============================================================================

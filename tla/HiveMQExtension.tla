-------------------------- MODULE HiveMQExtension --------------------------
(***************************************************************************)
(* The ForgeRock extension of the HiveMQ broker: it authenticates an MQTT  *)
(* client by introspecting the OAuth 2.0 token the client presents as its  *)
(* password, and introspects the same token again for every publish and    *)
(* subscribe request of the connection.                                    *)
(*                                                                         *)
(* Modelled code: ForgeRockMain, config/Configuration, auth/Token-         *)
(* Authenticator, auth/TokenAuthorizer and oauth2/OAuth2*Authorizer.  The  *)
(* HiveMQ broker, its extension executor and the Token Validation          *)
(* Microservice with its introspection cache are external: they are        *)
(* modelled from the way the extension calls them and its configuration.   *)
(*                                                                         *)
(* A request slot stands for one asynchronous output of the broker and for *)
(* the task submitted on its behalf.  The number of slots and of executor  *)
(* threads are the only bounds of the module.                              *)
(***************************************************************************)
EXTENDS Naturals, FiniteSets, Sequences

CONSTANTS
    Conns,      \* MQTT client connections
    Tokens,     \* every password that a client may present
    Issued,     \* the tokens that AM issued; the others are not tokens of AM
    Topics,     \* MQTT topics
    MqttScopes, \* the "mqtt:" scopes of a token, in order of appearance
    Requests,   \* request slots (a bound of the model)
    Workers,    \* threads of the managed extension executor
    NoConn, NoToken, NoTopic

ASSUME ConstantsAssumption ==
    /\ Issued \subseteq Tokens
    /\ MqttScopes \in [Tokens -> Seq(Topics)]
    /\ Workers \in Nat
    /\ NoConn \notin Conns /\ NoToken \notin Tokens /\ NoTopic \notin Topics

VARIABLES
    ext,    \* how far extensionStart has got
    phase,  \* the state of each connection in the broker
    store,  \* the token in the connection attribute store of each connection
    perms,  \* the topics the default permissions of each connection allow
    subs,   \* the subscriptions the extension has granted each connection
    req,    \* the request slots
    live,   \* AM: the token has neither expired nor been revoked
    cache   \* microservice: an active introspection of the token is cached

vars == <<ext, phase, store, perms, subs, req, live, cache>>

----------------------------------------------------------------------------
Kinds    == {"connect", "publish", "subscribe"}
Stages   == {"none", "queued", "posting", "replied", "processed", "ended"}
Bodies   == {"empty", "inactive", "active"}
Verdicts == {"none", "allow", "deny"}
Outcomes == {"free", "pending", "granted", "refused", "timedout", "void"}

(* One asynchronous output and its task.  "stale" is a history field: when *)
(* the request arrived, the token was dead and its cache entry had gone.   *)
Slot == [kind : Kinds \cup {"none"}, conn : Conns \cup {NoConn},
         token : Tokens \cup {NoToken}, topic : Topics \cup {NoTopic},
         stale : BOOLEAN, task : Stages, body : Bodies,
         verdict : Verdicts, outcome : Outcomes]

FreeSlot == [kind |-> "none", conn |-> NoConn, token |-> NoToken,
             topic |-> NoTopic, stale |-> FALSE, task |-> "none",
             body |-> "empty", verdict |-> "none", outcome |-> "free"]

(* The introspection can no longer say "active" of such a token. *)
Dead(t) == ~live[t] /\ ~cache[t]

NewRequest(kind, c, t, topic) ==
    [FreeSlot EXCEPT !.kind = kind, !.conn = c, !.token = t, !.topic = topic,
                     !.stale = Dead(t), !.task = "queued",
                     !.outcome = "pending"]

(* A request answered in the handler itself: no task is submitted. *)
RefusedRequest(kind, c, topic) ==
    [FreeSlot EXCEPT !.kind = kind, !.conn = c, !.topic = topic,
                     !.outcome = "refused"]

Pending(r) == req[r].outcome = "pending"
Free(r)    == req[r].outcome = "free"
Busy       == {r \in Requests :
                  req[r].task \in {"posting", "replied", "processed"}}

TypeOK ==
    /\ ext \in {"off", "loaded", "authn", "started", "failed"}
    /\ phase \in [Conns -> {"offline", "connecting", "connected"}]
    /\ store \in [Conns -> Tokens \cup {NoToken}]
    /\ perms \in [Conns -> SUBSET Topics]
    /\ subs \in [Conns -> SUBSET Topics]
    /\ req \in [Requests -> Slot]
    /\ live \in [Tokens -> BOOLEAN]
    /\ cache \in [Tokens -> BOOLEAN]

Init ==
    /\ ext = "off"
    /\ phase = [c \in Conns |-> "offline"]
    /\ store = [c \in Conns |-> NoToken]
    /\ perms = [c \in Conns |-> {}]
    /\ subs = [c \in Conns |-> {}]
    /\ req = [r \in Requests |-> FreeSlot]
    /\ live = [t \in Tokens |-> t \in Issued]
    /\ cache = [t \in Tokens |-> FALSE]

----------------------------------------------------------------------------
(* ForgeRockMain.extensionStart.  The extension may be enabled while the   *)
(* broker is running, so connections come and go between its steps; any    *)
(* exception is logged and leaves the providers unregistered.              *)

LoadConfiguration(readableAndComplete) ==
    /\ ext = "off"
    /\ ext' = IF readableAndComplete THEN "loaded" ELSE "failed"
    /\ UNCHANGED <<phase, store, perms, subs, req, live, cache>>

SetAuthenticatorProvider ==
    /\ ext = "loaded"
    /\ ext' = "authn"
    /\ UNCHANGED <<phase, store, perms, subs, req, live, cache>>

SetAuthorizerProvider ==
    /\ ext = "authn"
    /\ ext' = "started"
    /\ UNCHANGED <<phase, store, perms, subs, req, live, cache>>

----------------------------------------------------------------------------
(* The broker's side of a connection. *)

(* The channel closes: its attribute store and permissions go with it, and *)
(* nothing that its outstanding outputs say later has any effect.          *)
VoidPending(q, c) ==
    [r \in Requests |-> IF q[r].conn = c /\ q[r].outcome = "pending"
                        THEN [q[r] EXCEPT !.outcome = "void"]
                        ELSE q[r]]

CloseWith(c, q) ==
    /\ phase' = [phase EXCEPT ![c] = "offline"]
    /\ store' = [store EXCEPT ![c] = NoToken]
    /\ perms' = [perms EXCEPT ![c] = {}]
    /\ subs' = [subs EXCEPT ![c] = {}]
    /\ req' = VoidPending(q, c)

(* Without an authenticator the broker lets clients in on its own terms. *)
BrokerConnect(c) ==
    /\ ext \in {"off", "loaded", "failed"}
    /\ phase[c] = "offline"
    /\ phase' = [phase EXCEPT ![c] = "connected"]
    /\ perms' = [perms EXCEPT ![c] = Topics]
    /\ UNCHANGED <<ext, store, subs, req, live, cache>>

(* The network or the client drops the connection. *)
ConnectionLost(c) ==
    /\ phase[c] # "offline"
    /\ CloseWith(c, req)
    /\ UNCHANGED <<ext, live, cache>>

----------------------------------------------------------------------------
(* Mutant: the password is introspected and not stored. *)
OnConnectNotStored(c, r, password) ==
    /\ ext \in {"authn", "started"}
    /\ phase[c] = "offline" /\ Free(r) /\ password # NoToken
    /\ phase' = [phase EXCEPT ![c] = "connecting"]
    /\ req' = [req EXCEPT ![r] = NewRequest("connect", c, password, NoTopic)]
    /\ UNCHANGED <<ext, store, perms, subs, live, cache>>

(* TokenAuthenticator.onConnect: no password fails the authentication at   *)
(* once; otherwise the password is stored, before it is known to be a      *)
(* token, and the introspection is submitted to the executor.              *)
OnConnect(c, r, password) ==
    /\ ext \in {"authn", "started"}
    /\ phase[c] = "offline"
    /\ Free(r)
    /\ \/ /\ password = NoToken
          /\ req' = [req EXCEPT ![r] = RefusedRequest("connect", c, NoTopic)]
          /\ UNCHANGED <<phase, store>>
       \/ /\ password # NoToken
          /\ store' = [store EXCEPT ![c] = password]
          /\ phase' = [phase EXCEPT ![c] = "connecting"]
          /\ req' = [req EXCEPT
                        ![r] = NewRequest("connect", c, password, NoTopic)]
    /\ UNCHANGED <<ext, perms, subs, live, cache>>

(* TokenAuthorizer: a connection without a stored token is disconnected;   *)
(* otherwise the stored token is introspected again.                       *)
Authorize(kind, c, r, topic) ==
    /\ ext = "started"
    /\ phase[c] = "connected"
    /\ Free(r)
    /\ \/ /\ store[c] = NoToken
          /\ CloseWith(c, [req EXCEPT ![r] = RefusedRequest(kind, c, topic)])
       \/ /\ store[c] # NoToken
          /\ req' = [req EXCEPT ![r] = NewRequest(kind, c, store[c], topic)]
          /\ UNCHANGED <<phase, store, perms, subs>>
    /\ UNCHANGED <<ext, live, cache>>

AuthorizeSubscribe(c, r, topic) == Authorize("subscribe", c, r, topic)
AuthorizePublish(c, r, topic)   == Authorize("publish", c, r, topic)

----------------------------------------------------------------------------
(* OAuth2Authorizer.run, one action per point where another thread, the    *)
(* microservice or the broker's timer can come in between.                 *)

SetTask(r, stage) == req' = [req EXCEPT ![r].task = stage]

(* An executor thread takes the task and posts the introspection request. *)
StartTask(r) ==
    /\ req[r].task = "queued"
    /\ Cardinality(Busy) < Workers
    /\ SetTask(r, "posting")
    /\ UNCHANGED <<ext, phase, store, perms, subs, live, cache>>

(* The microservice answers, from its cache or by asking AM; only an active *)
(* introspection is cached.                                                 *)
Introspect(r) ==
    LET t == req[r].token IN
    /\ req[r].task = "posting"
    /\ req' = [req EXCEPT ![r] =
                  [@ EXCEPT !.task = "replied",
                            !.body = IF Dead(t) THEN "inactive" ELSE "active"]]
    /\ cache' = [cache EXCEPT ![t] = ~Dead(t)]
    /\ UNCHANGED <<ext, phase, store, perms, subs, live>>

(* A status other than 200, or an IOException: the response stays empty. *)
IntrospectFails(r) ==
    /\ req[r].task = "posting"
    /\ req' = [req EXCEPT ![r] = [@ EXCEPT !.task = "replied",
                                           !.body = "empty"]]
    /\ UNCHANGED <<ext, phase, store, perms, subs, live, cache>>

(* An exception that run does not catch ends the task: processResponse and *)
(* resume are never called, and only the broker's timeout is left.         *)
TaskThrows(r) ==
    /\ req[r].task = "posting"
    /\ SetTask(r, "ended")
    /\ UNCHANGED <<ext, phase, store, perms, subs, live, cache>>

(* Mutants: any answer, or all but an inactive one, is taken as active. *)
AnyAnswerIsActive(body)   == body # "empty"
NoAnswerIsActive(body)    == body # "inactive"

isTokenActive(body) == body = "active"

(* The first "mqtt:" scope of the token, if it has one. *)
getMQTTScope(t) ==
    IF MqttScopes[t] = <<>> THEN NoTopic ELSE Head(MqttScopes[t])

(* What processResponse of the three authorizers writes to the output. *)
ConnectAllowed(q) ==
    /\ isTokenActive(q.body)
    /\ getMQTTScope(q.token) # NoTopic

SubscriptionAllowed(q) == isTokenActive(q.body)
PublishAllowed(q)      == isTokenActive(q.body)

Verdict(q) ==
    IF \/ q.kind = "connect"   /\ ConnectAllowed(q)
       \/ q.kind = "subscribe" /\ SubscriptionAllowed(q)
       \/ q.kind = "publish"   /\ PublishAllowed(q)
    THEN "allow" ELSE "deny"

ProcessResponse(r) ==
    /\ req[r].task = "replied"
    /\ req' = [req EXCEPT ![r] = [@ EXCEPT !.task = "processed",
                                           !.body = "empty",
                                           !.verdict = Verdict(req[r])]]
    /\ UNCHANGED <<ext, phase, store, perms, subs, live, cache>>

Settle(r, outcome) ==
    [req EXCEPT ![r] = [@ EXCEPT !.task = "ended", !.outcome = outcome]]

(* Mutants: the default permissions are not narrowed to the scope; the     *)
(* permission for the scope is built and not added to them.                *)
AllPermissions(t) == Topics

NoPermissions(t)  == {}

(* The output was authenticated: the default permissions hold one topic. *)
DefaultPermissions(t) == {getMQTTScope(t)}

(* The broker refuses a request the permissions do not allow; it may close *)
(* the connection.                                                         *)
RefuseByBroker(c, q) ==
    \/ CloseWith(c, q)
    \/ req' = q /\ UNCHANGED <<phase, store, perms, subs>>

(* The broker applies a resumed output to the connection. *)
Apply(r) ==
    LET q == req[r]
        c == req[r].conn
    IN  \/ /\ q.verdict = "deny"
           /\ CloseWith(c, Settle(r, "refused"))
        \/ /\ q.verdict = "allow" /\ q.kind = "connect"
           /\ phase' = [phase EXCEPT ![c] = "connected"]
           /\ perms' = [perms EXCEPT ![c] = DefaultPermissions(q.token)]
           /\ req' = Settle(r, "granted")
           /\ UNCHANGED <<store, subs>>
        \/ /\ q.verdict = "allow" /\ q.kind # "connect"
           /\ q.topic \in perms[c]
           /\ req' = Settle(r, "granted")
           /\ subs' = IF q.kind = "subscribe"
                      THEN [subs EXCEPT ![c] = @ \cup {q.topic}] ELSE subs
           /\ UNCHANGED <<phase, store, perms>>
        \/ /\ q.verdict = "allow" /\ q.kind # "connect"
           /\ q.topic \notin perms[c]
           /\ RefuseByBroker(c, Settle(r, "refused"))

(* async.resume: it has an effect only on an output that is still pending. *)
Resume(r) ==
    /\ req[r].task = "processed"
    /\ \/ Pending(r) /\ Apply(r)
       \/ ~Pending(r) /\ SetTask(r, "ended")
                      /\ UNCHANGED <<phase, store, perms, subs>>
    /\ UNCHANGED <<ext, live, cache>>

(* Mutants: the fallback leaves the connection of a connect request as it  *)
(* is; only a connect request has a fallback.                              *)
TimeoutWithoutClose(r) ==
    /\ Pending(r)
    /\ req' = [req EXCEPT ![r].outcome = "timedout"]
    /\ UNCHANGED <<ext, phase, store, perms, subs, live, cache>>

TimeoutOfConnect(r) ==
    /\ Pending(r) /\ req[r].kind = "connect"
    /\ CloseWith(req[r].conn, [req EXCEPT ![r].outcome = "timedout"])
    /\ UNCHANGED <<ext, live, cache>>

(* Ten seconds after output.async the broker falls back to FAILURE. *)
Timeout(r) ==
    LET q == [req EXCEPT ![r].outcome = "timedout"]
        c == req[r].conn
    IN  /\ Pending(r)
        /\ IF req[r].kind = "connect" THEN CloseWith(c, q)
                                      ELSE RefuseByBroker(c, q)
        /\ UNCHANGED <<ext, live, cache>>

(* Bookkeeping: the slot of a settled request whose task is over is reused. *)
ReleaseSlot(r) ==
    /\ req[r].outcome \in {"granted", "refused", "timedout", "void"}
    /\ req[r].task \in {"none", "ended"}
    /\ req' = [req EXCEPT ![r] = FreeSlot]
    /\ UNCHANGED <<ext, phase, store, perms, subs, live, cache>>

----------------------------------------------------------------------------
(* AM and the microservice: a token dies, a cache entry reaches its age. *)

TokenDies(t) ==
    /\ live[t]
    /\ live' = [live EXCEPT ![t] = FALSE]
    /\ UNCHANGED <<ext, phase, store, perms, subs, req, cache>>

CacheExpires(t) ==
    /\ cache[t]
    /\ cache' = [cache EXCEPT ![t] = FALSE]
    /\ UNCHANGED <<ext, phase, store, perms, subs, req, live>>

----------------------------------------------------------------------------
Startup == \/ \E ok \in BOOLEAN : LoadConfiguration(ok)
           \/ SetAuthenticatorProvider
           \/ SetAuthorizerProvider

Handlers(c, r) == \/ \E p \in Tokens \cup {NoToken} : OnConnect(c, r, p)
                  \/ \E x \in Topics : AuthorizeSubscribe(c, r, x)
                  \/ \E x \in Topics : AuthorizePublish(c, r, x)

Task(r) == \/ StartTask(r)
           \/ Introspect(r)
           \/ IntrospectFails(r)
           \/ TaskThrows(r)
           \/ ProcessResponse(r)
           \/ Resume(r)

Next == \/ Startup
        \/ \E c \in Conns : BrokerConnect(c) \/ ConnectionLost(c)
        \/ \E c \in Conns, r \in Requests : Handlers(c, r)
        \/ \E r \in Requests : Task(r) \/ Timeout(r) \/ ReleaseSlot(r)
        \/ \E t \in Tokens : TokenDies(t) \/ CacheExpires(t)

(* The broker's timer is the only thing the extension may rely on: neither *)
(* the microservice nor the executor promises an answer.                   *)
Fairness == \A r \in Requests : WF_vars(Timeout(r))

Spec == Init /\ [][Next]_vars

FairSpec == Spec /\ Fairness

----------------------------------------------------------------------------
(* Safety. *)

ConnectRequests(c) == {r \in Requests : /\ Pending(r)
                                        /\ req[r].kind = "connect"
                                        /\ req[r].conn = c}

(* A connection waits for its CONNACK exactly while one connect request of *)
(* it is pending: a task that fails, is late or is never run neither       *)
(* strands the client half connected nor leaves two answers to one CONNECT *)
(* (TokenAuthenticator.onConnect, OAuth2Authorizer.run).                   *)
OneConnectPending ==
    \A c \in Conns :
        /\ phase[c] = "connecting" <=> ConnectRequests(c) # {}
        /\ \A i, j \in ConnectRequests(c) : i = j

(* A request that waits for its answer is about the token its connection   *)
(* holds at that moment, and finds the connection as it was when it asked: *)
(* the token that is introspected, taken when the handler runs, is the one *)
(* in the attribute store when the answer counts, though the client may    *)
(* have gone and come back with another token while tasks were queued      *)
(* (TokenAuthenticator.java:69-83, TokenAuthorizer.java:59-107).           *)
PendingFor(s) ==
    /\ s.conn \in Conns /\ s.token \in Tokens
    /\ store[s.conn] = s.token
    /\ phase[s.conn] = IF s.kind = "connect" THEN "connecting" ELSE "connected"

PendingRequests ==
    \A r \in Requests : Pending(r) => PendingFor(req[r])

(* A client that the extension let in presented a token of AM which has an *)
(* MQTT scope, and the permissions of its connection are those of that     *)
(* token, however the connections and the answers of the microservice      *)
(* interleaved (OAuth2ConnectAuthorizer.processResponse, and the store     *)
(* written before validation at TokenAuthenticator.java:74).               *)
AdmittedByToken ==
    \A c \in Conns :
        phase[c] = "connected" /\ store[c] # NoToken =>
            /\ store[c] \in Issued
            /\ getMQTTScope(store[c]) # NoTopic
            /\ perms[c] = {getMQTTScope(store[c])}

(* Whatever the extension grants, to any client, it grants for the one     *)
(* topic in the scope of the token that the requesting connection has      *)
(* presented, and a subscription it has granted stays that way: a client   *)
(* the broker let in before the extension was up gets nothing more than    *)
(* the broker gave it (TokenAuthorizer, OAuth2*Authorizer).                *)
ConfinedToScope ==
    /\ \A r \in Requests :
          req[r].outcome = "granted" /\ req[r].kind # "connect" =>
              /\ req[r].token \in Issued
              /\ req[r].topic = getMQTTScope(req[r].token)
    /\ \A c \in Conns : \A x \in subs[c] :
          store[c] \in Issued /\ x = getMQTTScope(store[c])

(* Revocation bites: a connect, publish or subscribe request that arrives  *)
(* when its token has died and the microservice no longer holds it in its  *)
(* cache is never granted, whatever fails, is late or is retried later     *)
(* (OAuth2Authorizer.run and the processResponse of each authorizer).      *)
DeadTokenRefused ==
    \A r \in Requests : req[r].stale => req[r].outcome # "granted"

(* While a connection stays connected its token and its permissions stay   *)
(* what they were when it was let in: no answer to an earlier connection   *)
(* of the client, or to another client, alters them.                       *)
SessionUnaltered ==
    [][\A c \in Conns :
          phase[c] = "connected" /\ phase'[c] = "connected" =>
              store'[c] = store[c] /\ perms'[c] = perms[c]]_vars

(* The extension implements the authorisation it promises: seen from the   *)
(* sessions and what they reach, every interleaving of handlers, tasks,    *)
(* timeouts and failures is a run of MqttAuthorization.                    *)
SessionOf(c) == IF phase[c] = "connected" THEN store[c] ELSE NoConn

Promise == INSTANCE MqttAuthorization WITH
    ScopeOf <- [t \in Tokens |-> getMQTTScope(t)],
    NoSession <- NoConn, Unknown <- NoToken,
    session <- [c \in Conns |-> SessionOf(c)], reach <- subs

ImplementsPromise == Promise!Spec

(* Liveness. *)

(* Every request gets an outcome, even when the introspection hangs, the   *)
(* task throws, or every thread of the executor is held by another task.   *)
EveryRequestSettled ==
    \A r \in Requests : Pending(r) ~> ~Pending(r)

============================================================================

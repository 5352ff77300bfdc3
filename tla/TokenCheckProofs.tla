--------------------------- MODULE TokenCheckProofs ---------------------------
(***************************************************************************)
(* Two brokers that ask AM about the token of a device before they let it  *)
(* in: RabbitMQ through Identity Gateway's filter, AWS through its custom  *)
(* authorizer.  The two specifications stay apart; a few of their          *)
(* variables have the same names, and nothing below relates the two.       *)
(*                                                                         *)
(* RabbitMQ: a subscriber is accepted only over a connection for which AM  *)
(* has known its token; the invariant ties the request in Identity Gateway *)
(* to the connection that it is about.  AWS: a message is published only   *)
(* under a policy that the answer to the very request has earned, and the  *)
(* client reports only what is published; the invariant follows the answer *)
(* through the authorizer to AWS.                                          *)
(***************************************************************************)
EXTENDS AwsCustomAuth, RabbitMqAdmission, TLAPS

VARIABLE request

Rabbit == INSTANCE RabbitMqAuth

----------------------------------------------------------------------------
(* RabbitMQ. *)

(* A request is about the connection that is being made, and is gone with  *)
(* it; only a connection that is up is subscribed.                         *)
Requests ==
    \A d \in Devices :
        /\ request[d] # "none" => link[d] = "connecting"
        /\ request[d] \in {"ok", "allow"} => vouched[d]
        /\ subbed[d] => link[d] = "up"
        /\ pc[d] # "loop" => link[d] = "down"

RabbitInv == Rabbit!TypeOK /\ Requests /\ AdmittedByUserinfo

LEMMA RabbitInit == Rabbit!Init => RabbitInv
<1> SUFFICES ASSUME Rabbit!Init PROVE RabbitInv
  OBVIOUS
<1>1. Rabbit!TypeOK
  BY DEF Rabbit!Init, Rabbit!TypeOK
<1>2. Requests /\ AdmittedByUserinfo
  BY DEF Rabbit!Init, Requests, AdmittedByUserinfo
<1> QED  BY <1>1, <1>2 DEF RabbitInv

(* A step of device d leaves the other devices as they are. *)
OtherDevices(d) ==
    \A e \in Devices \ {d} :
        /\ pc'[e] = pc[e] /\ link'[e] = link[e] /\ request'[e] = request[e]
        /\ live'[e] = live[e] /\ vouched'[e] = vouched[e]
        /\ subbed'[e] = subbed[e]

(* What the invariant says of one device. *)
DeviceInv(d) ==
    /\ request[d] # "none" => link[d] = "connecting"
    /\ request[d] \in {"ok", "allow"} => vouched[d]
    /\ subbed[d] => link[d] = "up"
    /\ pc[d] # "loop" => link[d] = "down"
    /\ link[d] \in {"accepted", "subscribing", "up"} \/ subbed[d] => vouched[d]

LEMMA OneDevice ==
    ASSUME NEW d \in Devices, RabbitInv, Rabbit!TypeOK', OtherDevices(d),
           DeviceInv(d)'
    PROVE  RabbitInv'
<1>1. ASSUME NEW e \in Devices PROVE DeviceInv(e)'
  <2>1. CASE e = d
    BY <2>1
  <2>2. CASE e # d
    <3>1. DeviceInv(e)
      BY DEF RabbitInv, Requests, AdmittedByUserinfo, DeviceInv
    <3>2. /\ pc'[e] = pc[e] /\ link'[e] = link[e] /\ request'[e] = request[e]
          /\ vouched'[e] = vouched[e] /\ subbed'[e] = subbed[e]
      BY <2>2, Zenon DEF OtherDevices
    <3> QED  BY <3>1, <3>2, Zenon DEF DeviceInv
  <2> QED  BY <2>1, <2>2
<1>2. Requests' /\ AdmittedByUserinfo'
  BY <1>1, Zenon DEF DeviceInv, Requests, AdmittedByUserinfo
<1> QED  BY <1>2 DEF RabbitInv

LEMMA RabbitNext == RabbitInv /\ [Rabbit!Next]_Rabbit!vars => RabbitInv'
<1> SUFFICES ASSUME RabbitInv, [Rabbit!Next]_Rabbit!vars PROVE RabbitInv'
  OBVIOUS
<1> USE DEF Rabbit!TypeOK, OtherDevices, DeviceInv
<1> Rabbit!TypeOK
  BY DEF RabbitInv
<1>d. ASSUME NEW d \in Devices PROVE DeviceInv(d)
  BY DEF RabbitInv, Requests, AdmittedByUserinfo
<1>1. ASSUME NEW d \in Devices, NEW ok \in BOOLEAN,
             Rabbit!Initialise(d, ok) \/ Rabbit!Register(d, ok)
      PROVE  RabbitInv'
  <2>1. Rabbit!TypeOK' /\ OtherDevices(d) /\ DeviceInv(d)'
    BY <1>1, <1>d DEF Rabbit!Initialise, Rabbit!Register, Rabbit!Goto
  <2> QED  BY <2>1, OneDevice
<1>2. ASSUME NEW d \in Devices, NEW ok \in BOOLEAN, Rabbit!Tokens(d, ok)
      PROVE  RabbitInv'
  <2>1. Rabbit!TypeOK'
    BY <1>2 DEF Rabbit!Tokens, Rabbit!Goto
  <2>2. OtherDevices(d)
    BY <1>2 DEF Rabbit!Tokens, Rabbit!Goto
  <2>3. DeviceInv(d)'
    BY <1>2, <1>d DEF Rabbit!Tokens, Rabbit!Goto
  <2> QED  BY <2>1, <2>2, <2>3, OneDevice
<1>3. ASSUME NEW d \in Devices, NEW ok \in BOOLEAN, Rabbit!Connect(d, ok)
      PROVE  RabbitInv'
  <2>1. Rabbit!TypeOK'
    BY <1>3 DEF Rabbit!Connect, Rabbit!Connecting, Rabbit!Goto
  <2>2. OtherDevices(d)
    BY <1>3 DEF Rabbit!Connect, Rabbit!Connecting, Rabbit!Goto
  <2>3. DeviceInv(d)'
    BY <1>3, <1>d DEF Rabbit!Connect, Rabbit!Connecting, Rabbit!Goto
  <2> QED  BY <2>1, <2>2, <2>3, OneDevice
<1>4. ASSUME NEW d \in Devices,
             \/ Rabbit!LoopReturns(d) \/ Rabbit!Cleanup(d)
             \/ Rabbit!mosq_connect_cb(d)
      PROVE  RabbitInv'
  <2>1. Rabbit!TypeOK'
    <3>1. CASE Rabbit!LoopReturns(d)
      BY <3>1 DEF Rabbit!LoopReturns, Rabbit!Closed, Rabbit!Goto
    <3>2. CASE Rabbit!Cleanup(d)
      BY <3>2 DEF Rabbit!Cleanup, Rabbit!Goto
    <3>3. CASE Rabbit!mosq_connect_cb(d)
      BY <3>3 DEF Rabbit!mosq_connect_cb
    <3> QED  BY <1>4, <3>1, <3>2, <3>3
  <2>2. OtherDevices(d)
    BY <1>4
    DEF Rabbit!LoopReturns, Rabbit!Cleanup, Rabbit!mosq_connect_cb,
        Rabbit!Closed, Rabbit!Goto
  <2>3. DeviceInv(d)'
    BY <1>4, <1>d
    DEF Rabbit!LoopReturns, Rabbit!Cleanup, Rabbit!mosq_connect_cb,
        Rabbit!Closed, Rabbit!Goto
  <2> QED  BY <2>1, <2>2, <2>3, OneDevice
<1>5. ASSUME NEW d \in Devices, Rabbit!Forward(d) \/ Rabbit!Then(d)
      PROVE  RabbitInv'
  <2>1. Rabbit!TypeOK' /\ OtherDevices(d) /\ DeviceInv(d)'
    BY <1>5, <1>d DEF Rabbit!Forward, Rabbit!Then, Rabbit!Answer
  <2> QED  BY <2>1, OneDevice
<1>6. ASSUME NEW d \in Devices, NEW reached \in BOOLEAN,
             Rabbit!Userinfo(d, reached)
      PROVE  RabbitInv'
  <2>1. Rabbit!TypeOK'
    BY <1>6 DEF Rabbit!Userinfo, Rabbit!Answer
  <2>2. OtherDevices(d)
    BY <1>6 DEF Rabbit!Userinfo, Rabbit!Answer
  <2>3. DeviceInv(d)'
    BY <1>6, <1>d DEF Rabbit!Userinfo, Rabbit!Answer
  <2> QED  BY <2>1, <2>2, <2>3, OneDevice
<1>7. ASSUME NEW d \in Devices, Rabbit!Connack(d) \/ Rabbit!Suback(d)
      PROVE  RabbitInv'
  <2>1. Rabbit!TypeOK'
    <3>1. CASE Rabbit!Connack(d)
      BY <3>1 DEF Rabbit!Connack
    <3>2. CASE Rabbit!Suback(d)
      BY <3>2 DEF Rabbit!Suback
    <3> QED  BY <1>7, <3>1, <3>2
  <2>2. OtherDevices(d)
    BY <1>7 DEF Rabbit!Connack, Rabbit!Suback
  <2>3. DeviceInv(d)'
    BY <1>7, <1>d DEF Rabbit!Connack, Rabbit!Suback
  <2> QED  BY <2>1, <2>2, <2>3, OneDevice
<1>8. ASSUME NEW d \in Devices, Rabbit!ConnectionLost(d) \/ Rabbit!Reconnect(d)
      PROVE  RabbitInv'
  <2>1. Rabbit!TypeOK'
    <3>1. CASE Rabbit!ConnectionLost(d)
      BY <3>1 DEF Rabbit!ConnectionLost, Rabbit!Closed
    <3>2. CASE Rabbit!Reconnect(d)
      BY <3>2 DEF Rabbit!Reconnect, Rabbit!Connecting
    <3> QED  BY <1>8, <3>1, <3>2
  <2>2. OtherDevices(d)
    BY <1>8
    DEF Rabbit!ConnectionLost, Rabbit!Reconnect, Rabbit!Connecting,
        Rabbit!Closed
  <2>3. DeviceInv(d)'
    BY <1>8, <1>d
    DEF Rabbit!ConnectionLost, Rabbit!Reconnect, Rabbit!Connecting,
        Rabbit!Closed
  <2> QED  BY <2>1, <2>2, <2>3, OneDevice
<1>9. ASSUME NEW d \in Devices, Rabbit!TokenExpires(d)
      PROVE  RabbitInv'
  <2>1. Rabbit!TypeOK' /\ OtherDevices(d) /\ DeviceInv(d)'
    BY <1>9, <1>d DEF Rabbit!TokenExpires
  <2> QED  BY <2>1, OneDevice
<1>10. CASE UNCHANGED Rabbit!vars
  BY <1>10 DEF Rabbit!vars, RabbitInv, Requests, AdmittedByUserinfo
<1> QED
  BY <1>1, <1>2, <1>3, <1>4, <1>5, <1>6, <1>7, <1>8, <1>9, <1>10, Zenon
  DEF Rabbit!Next, Rabbit!Main, Rabbit!Serve, Rabbit!Ended

THEOREM RabbitInductive == Rabbit!Spec => []RabbitInv
<1> QED  BY RabbitInit, RabbitNext, PTL DEF Rabbit!Spec

----------------------------------------------------------------------------
(* Every variable keeps its type (rabbitmq_mqtt_sub.c:43-56, 67-134,       *)
(* userinfo.groovy:20-50).                                                 *)
THEOREM RabbitTypeCorrect == Rabbit!Spec => []Rabbit!TypeOK
<1>1. RabbitInv => Rabbit!TypeOK
  BY DEF RabbitInv
<1> QED  BY <1>1, RabbitInductive, PTL

(* A device is accepted and subscribed only over a connection for which AM *)
(* has known its token (userinfo.groovy:38-46).                            *)
THEOREM AdmissionByUserinfo == Rabbit!Spec => []AdmittedByUserinfo
<1>1. RabbitInv => AdmittedByUserinfo
  BY DEF RabbitInv
<1> QED  BY <1>1, RabbitInductive, PTL

----------------------------------------------------------------------------
(* AWS. *)

Allows(r) == r.isAuthenticated /\ r.effect = "Allow"

(* What has to be true of the answer before a message is published. *)
Earned(c) == SaysPublish(answer[c]) /\ (byAM[c] => granted[c])

(* What the authorizer's reply stands for, from the answer to the client. *)
ClientInv(c) ==
    /\ lambda[c] = "answered" /\ Allows(handled(answer[c])) => Earned(c)
    /\ lambda[c] = "replied" /\ http[c] = 0 /\ Allows(reply[c]) => Earned(c)
    /\ c \in published => lambda[c] = "replied" /\ Earned(c)
    /\ http[c] = 200 => c \in published
    /\ pc[c] = "done" => c \in published

AwsInv == TypeOK /\ \A c \in Clients : ClientInv(c)

(* The authorizer allows only what a good answer says of a subject and a   *)
(* scope.                                                                  *)
LEMMA HandledAllows ==
    ASSUME NEW a, Allows(handled(a))
    PROVE  SaysPublish(a)
<1>1. introspect(a) /\ tokenInfoStringEntry(a.sub) /\ policyDocument(a) # "none"
  BY DEF Allows, handled, unauthorized
<1>2. policyDocument(a) = "Allow"
  BY <1>1 DEF Allows, handled, authorized
<1>3. "publish" \in a.scope.words
  BY <1>2 DEF policyDocument, containsElement
<1> QED  BY <1>1, <1>3 DEF introspect, tokenInfoStringEntry, SaysPublish

LEMMA HandledReply == ASSUME NEW a PROVE handled(a) \in Reply
  BY DEF handled, authorized, unauthorized, policyDocument, Reply, Effects

LEMMA Updated ==
    ASSUME NEW f \in [Clients -> BOOLEAN], NEW c \in Clients, NEW g
    PROVE  [f EXCEPT ![c] = g][c] = g
  OBVIOUS

LEMMA AMsAnswers ==
    ASSUME TypeOK, NEW c \in Clients,
           NEW a \in Confirmed(c)
                        \cup {NotJson, Refused, Info(NoString, NoString)}
    PROVE  /\ a \in Answers
           /\ SaysPublish(a) => live[c] /\ "publish" \in scope[c]
<1>1. scope[c] \in Scopes
  BY DEF TypeOK
<1>2. /\ NoString \in Entries /\ Str(scope[c]) \in Entries
      /\ Info(NoString, NoString).scope = NoString
      /\ NotJson.scope = NoString /\ Refused.scope = NoString
  BY <1>1 DEF Entries, NotJson, Refused, Info, Answer
<1>3. CASE a \in {NotJson, Refused, Info(NoString, NoString)}
  <2>1. a \in Answers
    <3>1. /\ Refused = [status |-> 401, json |-> TRUE, sub |-> NoString,
                        scope |-> NoString]
          /\ Info(NoString, NoString) = [status |-> 200, json |-> TRUE,
                                         sub |-> NoString, scope |-> NoString]
      BY DEF Refused, Info, Answer
    <3>2. Refused \in Answers
      BY <1>2, <3>1 DEF Answers
    <3>3. Info(NoString, NoString) \in Answers
      BY <1>2, <3>1 DEF Answers
    <3>4. NotJson \in Answers
      BY DEF Answers
    <3> QED  BY <1>3, <3>2, <3>3, <3>4
  <2>2. ~SaysPublish(a)
    BY <1>2, <1>3 DEF SaysPublish, NoString
  <2> QED  BY <2>1, <2>2
<1>4. CASE a \in Confirmed(c)
  <2>1. live[c] /\ \E s \in {NoString, Str({})}, w \in {NoString, Str(scope[c])} :
                       a = Info(s, w)
    BY <1>4 DEF Confirmed
  <2>2. PICK s \in {NoString, Str({})}, w \in {NoString, Str(scope[c])} :
            a = Info(s, w)
    BY <2>1
  <2>3. a \in Answers
    BY <1>2, <2>2 DEF Answers, Info, Answer
  <2>4. a.scope = w
    BY <2>2 DEF Info, Answer
  <2>5. SaysPublish(a) => "publish" \in scope[c]
    BY <2>4 DEF SaysPublish, NoString, Str
  <2> QED  BY <2>1, <2>3, <2>5
<1> QED  BY <1>3, <1>4

LEMMA AwsInit == Init => AwsInv
<1> SUFFICES ASSUME Init PROVE AwsInv
  OBVIOUS
<1>1. TypeOK
  <2>1. answer \in [Clients -> Answers]
    BY DEF Init, Answers
  <2>2. reply \in [Clients -> Reply]
    BY DEF Init, Reply, Effects, unauthorized
  <2>3. scope \in [Clients -> Scopes]
    BY DEF Init, Scopes
  <2> QED  BY <2>1, <2>2, <2>3 DEF Init, TypeOK
<1>2. ASSUME NEW c \in Clients PROVE ClientInv(c)
  BY DEF Init, ClientInv
<1> QED  BY <1>1, <1>2 DEF AwsInv

(* A step of client c leaves the others as they are. *)
OtherClients(c) ==
    \A d \in Clients \ {c} :
        /\ pc'[d] = pc[d] /\ lambda'[d] = lambda[d] /\ answer'[d] = answer[d]
        /\ reply'[d] = reply[d] /\ http'[d] = http[d]
        /\ granted'[d] = granted[d] /\ byAM'[d] = byAM[d]
        /\ d \in published' <=> d \in published

LEMMA OneClient ==
    ASSUME NEW c \in Clients, AwsInv, TypeOK', OtherClients(c), ClientInv(c)'
    PROVE  AwsInv'
<1>1. ASSUME NEW d \in Clients PROVE ClientInv(d)'
  <2>1. CASE d = c
    BY <2>1
  <2>2. CASE d # c
    <3>1. ClientInv(d)
      BY DEF AwsInv
    <3>2. /\ pc'[d] = pc[d] /\ lambda'[d] = lambda[d] /\ answer'[d] = answer[d]
          /\ reply'[d] = reply[d] /\ http'[d] = http[d]
          /\ granted'[d] = granted[d] /\ byAM'[d] = byAM[d]
          /\ (d \in published' <=> d \in published)
      BY <2>2, Zenon DEF OtherClients
    <3> QED  BY <3>1, <3>2 DEF ClientInv, Earned
  <2> QED  BY <2>1, <2>2
<1> QED  BY <1>1 DEF AwsInv

(* An answer; when it is AM's it says of the token what is so. *)
LEMMA AnsweredKeeps ==
    ASSUME AwsInv, NEW c \in Clients, NEW a \in Answers, NEW fromAM \in BOOLEAN,
           Answered(c, a, fromAM),
           fromAM /\ SaysPublish(a) => live[c] /\ "publish" \in scope[c]
    PROVE  AwsInv'
<1> DEFINE g == fromAM /\ live[c] /\ "publish" \in scope[c]
<1>0. TypeOK /\ ClientInv(c)
  BY DEF AwsInv
<1>1. /\ lambda[c] = "introspect"
      /\ lambda' = [lambda EXCEPT ![c] = "answered"]
      /\ answer' = [answer EXCEPT ![c] = a]
      /\ UNCHANGED <<client, reply, http, published>>
  BY DEF Answered
<1>2. byAM' = [byAM EXCEPT ![c] = fromAM] /\ granted' = [granted EXCEPT ![c] = g]
  BY Zenon DEF Answered
<1>3. byAM \in [Clients -> BOOLEAN] /\ granted \in [Clients -> BOOLEAN]
  BY <1>0 DEF TypeOK
<1>4. byAM' \in [Clients -> BOOLEAN] /\ granted' \in [Clients -> BOOLEAN]
  BY <1>2, <1>3, Zenon
<1>5. (byAM'[c] <=> fromAM) /\ (granted'[c] <=> g)
  <2>1. byAM'[c] = fromAM
    BY <1>2, <1>3, Updated, Zenon
  <2>2. granted'[c] = g
    BY <1>2, <1>3, Updated, Zenon
  <2> QED  BY <2>1, <2>2, Zenon
<1>6. TypeOK'
  <2>1. answer' \in [Clients -> Answers]
    BY <1>0, <1>1 DEF TypeOK
  <2>2. lambda' \in [Clients -> {"none", "invoked", "introspect", "answered",
                                 "replied"}]
    BY <1>0, <1>1 DEF TypeOK
  <2> HIDE DEF g
  <2> QED  BY <1>0, <1>1, <1>4, <2>1, <2>2 DEF TypeOK, client
<1>7. OtherClients(c)
  BY <1>1, <1>2, <1>3, <1>0 DEF OtherClients, client, TypeOK
<1>8. ClientInv(c)'
  <2>1. answer'[c] = a /\ lambda'[c] = "answered"
    BY <1>0, <1>1 DEF TypeOK
  <2>2. Allows(handled(a)) => SaysPublish(a)
    BY HandledAllows
  <2>3. Allows(handled(a)) => (byAM'[c] => granted'[c])
    BY <1>5, <2>2, Zenon
  <2>4. Allows(handled(a)) => Earned(c)'
    BY <2>1, <2>2, <2>3, Zenon DEF Earned
  <2> QED  BY <1>0, <1>1, <2>1, <2>4 DEF ClientInv, client
<1> QED  BY <1>6, <1>7, <1>8, OneClient

LEMMA AwsNext == AwsInv /\ [Next]_vars => AwsInv'
<1> SUFFICES ASSUME AwsInv, [Next]_vars PROVE AwsInv'
  OBVIOUS
<1> TypeOK
  BY DEF AwsInv
<1> USE DEF TypeOK, client, history, invocation
<1>c. ASSUME NEW c \in Clients PROVE ClientInv(c)
  BY DEF AwsInv
<1>1. ASSUME NEW c \in Clients, NEW ok \in BOOLEAN,
             \/ initialiseSDK(c, ok) \/ registerDevice(c, ok)
             \/ authorizationTokenJson(c, ok) \/ publishMessage(c, ok)
      PROVE  AwsInv'
  <2>1. TypeOK' /\ OtherClients(c) /\ ClientInv(c)'
    BY <1>1, <1>c DEF initialiseSDK, registerDevice, authorizationTokenJson,
       publishMessage, Goto, OtherClients, ClientInv, Earned
  <2> QED  BY <2>1, OneClient
<1>2. ASSUME NEW c \in Clients, NEW ok \in BOOLEAN, NEW ws \in Scopes,
             deviceTokens(c, ok, ws)
      PROVE  AwsInv'
  <2>1. TypeOK' /\ OtherClients(c) /\ ClientInv(c)'
    BY <1>2, <1>c DEF deviceTokens, Goto, OtherClients, ClientInv, Earned
  <2> QED  BY <2>1, OneClient
<1>3. ASSUME NEW c \in Clients, PublishAnswered(c) \/ PublishFails(c)
      PROVE  AwsInv'
  <2>1. TypeOK' /\ OtherClients(c) /\ ClientInv(c)'
    BY <1>3, <1>c
    DEF PublishAnswered, PublishFails, Goto, OtherClients, ClientInv, Earned
  <2> QED  BY <2>1, OneClient
<1>4. ASSUME NEW c \in Clients, Introspect(c) \/ Invoke(c) \/ Refuse(c)
      PROVE  AwsInv'
  <2>1. TypeOK' /\ OtherClients(c) /\ ClientInv(c)'
    BY <1>4, <1>c DEF Introspect, Invoke, Refuse, OtherClients, ClientInv, Earned
  <2> QED  BY <2>1, OneClient
<1>5. ASSUME NEW c \in Clients, handleRequest(c) PROVE AwsInv'
  <2>1. reply'[c] = handled(answer[c]) /\ reply' \in [Clients -> Reply]
    BY <1>5, HandledReply DEF handleRequest
  <2>2. TypeOK' /\ OtherClients(c)
    BY <1>5, <2>1 DEF handleRequest, OtherClients
  <2>3. ClientInv(c)'
    BY <1>5, <1>c, <2>1 DEF handleRequest, ClientInv, Earned
  <2> QED  BY <2>2, <2>3, OneClient
<1>6. ASSUME NEW c \in Clients, AMAnswers(c) \/ OtherAnswers(c) PROVE AwsInv'
  <2>1. PICK a \in Answers, fromAM \in BOOLEAN :
            /\ Answered(c, a, fromAM)
            /\ fromAM /\ SaysPublish(a) => live[c] /\ "publish" \in scope[c]
    <3>1. CASE AMAnswers(c)
      <4>1. PICK a \in Confirmed(c)
                          \cup {NotJson, Refused, Info(NoString, NoString)} :
                Answered(c, a, TRUE)
        BY <3>1, Zenon DEF AMAnswers
      <4> QED  BY <4>1, AMsAnswers
    <3>2. CASE OtherAnswers(c)
      BY <3>2 DEF OtherAnswers
    <3> QED  BY <1>6, <3>1, <3>2
  <2> QED  BY <2>1, AnsweredKeeps
<1>7. ASSUME NEW c \in Clients, Enforce(c) PROVE AwsInv'
  <2>1. TypeOK' /\ OtherClients(c)
    BY <1>7 DEF Enforce, OtherClients
  <2>2. ClientInv(c)'
    BY <1>7, <1>c DEF Enforce, ClientInv, Earned, Allows
  <2> QED  BY <2>1, <2>2, OneClient
<1>8. ASSUME NEW c \in Clients, TokenExpires(c) \/ BearerExpires(c)
      PROVE  AwsInv'
  <2>1. CASE TokenExpires(c)
    <3>1. TypeOK' /\ OtherClients(c) /\ ClientInv(c)'
      BY <2>1, <1>c DEF TokenExpires, OtherClients, ClientInv, Earned
    <3> QED  BY <3>1, OneClient
  <2>2. CASE BearerExpires(c)
    <3>1. TypeOK' /\ OtherClients(c) /\ ClientInv(c)'
      BY <2>2, <1>c DEF BearerExpires, OtherClients, ClientInv, Earned
    <3> QED  BY <3>1, OneClient
  <2> QED  BY <1>8, <2>1, <2>2
<1>9. CASE UNCHANGED vars
  BY <1>9 DEF vars, AwsInv, ClientInv, Earned
<1>10. ASSUME NEW c \in Clients, Client(c) PROVE AwsInv'
  <2>1. ASSUME NEW ok \in BOOLEAN,
               \/ initialiseSDK(c, ok) \/ registerDevice(c, ok)
               \/ \E ws \in Scopes : deviceTokens(c, ok, ws)
               \/ authorizationTokenJson(c, ok) \/ publishMessage(c, ok)
        PROVE  AwsInv'
    BY <1>1, <1>2, <2>1
  <2>2. CASE PublishAnswered(c) \/ PublishFails(c)
    BY <1>3, <2>2
  <2> QED  BY <1>10, <2>1, <2>2 DEF Client
<1> QED
  BY <1>4, <1>5, <1>6, <1>7, <1>8, <1>9, <1>10, Zenon DEF Next, Ended

THEOREM AwsInductive == Spec => []AwsInv
<1> QED  BY AwsInit, AwsNext, PTL DEF Spec

----------------------------------------------------------------------------
(* Every variable keeps its type (client/main.go, lambda/main.go). *)
THEOREM AwsTypeCorrect == Spec => []TypeOK
<1>1. AwsInv => TypeOK
  BY DEF AwsInv
<1> QED  BY <1>1, AwsInductive, PTL

(* A message is published only if the answer to its request names a        *)
(* subject and the scope; if it is AM's, the token was alive and has that  *)
(* scope (lambda/main.go:75-115, 139-214).                                 *)
THEOREM PublicationByScope == Spec => []PublishedByScope
<1>1. AwsInv => PublishedByScope
  BY DEF AwsInv, ClientInv, Earned, PublishedByScope, TypeOK
<1> QED  BY <1>1, AwsInductive, PTL

(* The client that ends well has published (client/main.go:106-110,        *)
(* 164-170).                                                               *)
THEOREM SuccessIsPublication == Spec => []DoneIsPublished
<1>1. AwsInv => DoneIsPublished
  BY DEF AwsInv, ClientInv, DoneIsPublished
<1> QED  BY <1>1, AwsInductive, PTL
==============================================================================

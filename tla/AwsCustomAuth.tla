----------------------------- MODULE AwsCustomAuth -----------------------------
(***************************************************************************)
(* Publishing to AWS IoT with an access token of AM: the client            *)
(* (aws_custom_auth/.../client/main.go) gets a token from the IEC, signs a *)
(* JWT with which the token may be introspected, and posts its message;    *)
(* AWS asks the custom authorizer (.../lambda/main.go), which introspects  *)
(* the token and turns its scope into a policy.                            *)
(*                                                                         *)
(* The authorizer posts to the authorization_url of the request, which the *)
(* client has from its command line, and does not verify the certificate   *)
(* of the server there (lambda/main.go:124-137): AM answers, or another    *)
(* server, of which nothing is assumed.                                    *)
(*                                                                         *)
(* The IEC, AM and AWS are external: AWS invokes the authorizer for a      *)
(* request whose signature is good, gives it up when it takes too long,    *)
(* and publishes the message if the policy allows that.                    *)
(***************************************************************************)
EXTENDS Naturals

CONSTANT Clients  \* the clients that publish

Scopes == SUBSET {"publish", "publisher"}

(* What the token info has at an entry: a string, which for the scope is a *)
(* set of words, or nothing that is a string.                              *)
NoString == [isString |-> FALSE, words |-> {}]
Str(ws)  == [isString |-> TRUE, words |-> ws]
Entries  == {NoString} \cup {Str(ws) : ws \in Scopes}

(* An answer to the authorizer; none at all is an error like the status. *)
Answer(status, json, sub, words) ==
    [status |-> status, json |-> json, sub |-> sub, scope |-> words]

Info(sub, words) == Answer(200, TRUE, sub, words)
NotJson == Answer(200, FALSE, NoString, NoString)
Refused == Answer(401, TRUE, NoString, NoString)
Answers == [status : {200, 401}, json : {TRUE},
            sub : {NoString, Str({})}, scope : Entries] \cup {NotJson}

Effects == {"none", "Allow", "Deny"}
Reply   == [isAuthenticated : BOOLEAN, effect : Effects]

unauthorized == [isAuthenticated |-> FALSE, effect |-> "none"]

VARIABLES
    pc,        \* client: where main is
    live,      \* AM: the access token of the client is known to AM
    scope,     \* AM: and its scope
    bearer,    \* the signed JWT
    lambda,    \* the authorizer's invocation for the request of the client
    answer,    \* the answer to the authorizer
    byAM,      \* history: it was AM that has answered
    reply,     \* the authorizer's reply to AWS
    http,      \* the status of AWS's answer to the client
    granted,   \* history: AM has answered, of a token with the publish scope
    published  \* AWS: the messages of these clients have been published

client     == <<pc, live, scope, bearer>>
history    == <<byAM, granted>>
invocation == <<lambda, answer, reply>>
vars       == <<client, history, invocation, http, published>>

TypeOK ==
    /\ pc \in [Clients -> {"initialise", "register", "tokens", "sign", "post",
                           "wait", "done", "panicked"}]
    /\ {live, byAM, granted} \subseteq [Clients -> BOOLEAN]
    /\ scope \in [Clients -> Scopes]
    /\ bearer \in [Clients -> {"none", "valid", "expired"}]
    /\ lambda \in [Clients -> {"none", "invoked", "introspect", "answered", "replied"}]
    /\ answer \in [Clients -> Answers]
    /\ reply \in [Clients -> Reply]
    /\ http \in [Clients -> {0, 200, 403}]
    /\ published \subseteq Clients

Init ==
    /\ pc = [c \in Clients |-> "initialise"]
    /\ live = [c \in Clients |-> FALSE]
    /\ scope = [c \in Clients |-> {}]
    /\ bearer = [c \in Clients |-> "none"]
    /\ lambda = [c \in Clients |-> "none"]
    /\ answer = [c \in Clients |-> NotJson]
    /\ reply = [c \in Clients |-> unauthorized]
    /\ http = [c \in Clients |-> 0]
    /\ byAM = [c \in Clients |-> FALSE]
    /\ granted = [c \in Clients |-> FALSE]
    /\ published = {}

----------------------------------------------------------------------------
(* The client.  Each call that fails ends it with a panic. *)

Goto(c, from, to) ==
    /\ pc[c] = from
    /\ pc' = [pc EXCEPT ![c] = to]

initialiseSDK(c, ok) ==
    /\ Goto(c, "initialise", IF ok THEN "register" ELSE "panicked")
    /\ UNCHANGED <<live, scope, bearer, invocation, http, history, published>>

registerDevice(c, ok) ==
    /\ Goto(c, "register", IF ok THEN "tokens" ELSE "panicked")
    /\ UNCHANGED <<live, scope, bearer, invocation, http, history, published>>

(* The tokens of the device, of some scope, or an error, or no JSON. *)
deviceTokens(c, ok, ws) ==
    /\ Goto(c, "tokens", IF ok THEN "sign" ELSE "panicked")
    /\ live' = [live EXCEPT ![c] = ok]
    /\ scope' = [scope EXCEPT ![c] = IF ok THEN ws ELSE @]
    /\ UNCHANGED <<bearer, invocation, http, history, published>>

(* The JWT is valid for bearerTokenExp. *)
authorizationTokenJson(c, ok) ==
    /\ Goto(c, "sign", IF ok THEN "post" ELSE "panicked")
    /\ bearer' = [bearer EXCEPT ![c] = IF ok THEN "valid" ELSE @]
    /\ UNCHANGED <<live, scope, invocation, http, history, published>>

(* The request is sent, or it fails. *)
publishMessage(c, ok) ==
    /\ Goto(c, "post", IF ok THEN "wait" ELSE "panicked")
    /\ UNCHANGED <<live, scope, bearer, invocation, http, history, published>>

(* Mutant: any answer is a success. *)
AnyStatusIsGood(c) ==
    /\ http[c] # 0
    /\ Goto(c, "wait", "done")
    /\ UNCHANGED <<live, scope, bearer, invocation, http, history, published>>

(* AWS's answer is a success if its status is 200. *)
PublishAnswered(c) ==
    /\ http[c] # 0
    /\ Goto(c, "wait", IF http[c] = 200 THEN "done" ELSE "panicked")
    /\ UNCHANGED <<live, scope, bearer, invocation, http, history, published>>

(* Without one the client waits for as long as the connection is there. *)
PublishFails(c) ==
    /\ Goto(c, "wait", "panicked")
    /\ UNCHANGED <<live, scope, bearer, invocation, http, history, published>>

Client(c) == \/ \E ok \in BOOLEAN :
                    \/ initialiseSDK(c, ok) \/ registerDevice(c, ok)
                    \/ \E ws \in Scopes : deviceTokens(c, ok, ws)
                    \/ authorizationTokenJson(c, ok) \/ publishMessage(c, ok)
             \/ PublishAnswered(c) \/ PublishFails(c)

----------------------------------------------------------------------------
(* The authorizer. *)

tokenInfoStringEntry(entry) == entry.isString

(* Mutant: a part of a word is taken for the element. *)
ContainsPart(elems, elem) == elems # {}

containsElement(elems, elem) == elem \in elems

introspect(a) == a.status = 200 /\ a.json

(* The effect of the policy, "none" for an error. *)
policyDocument(info) ==
    IF ~tokenInfoStringEntry(info.scope) THEN "none"
    ELSE IF containsElement(info.scope.words, "publish") THEN "Allow"
    ELSE "Deny"

authorized(effect) == [isAuthenticated |-> TRUE, effect |-> effect]

(* What handleRequest makes of an answer. *)
handled(a) ==
    IF introspect(a) /\ tokenInfoStringEntry(a.sub) /\ policyDocument(a) # "none"
    THEN authorized(policyDocument(a))
    ELSE unauthorized

(* It has been asked, and has sent its request to the authorization_url. *)
Introspect(c) ==
    /\ lambda[c] = "invoked"
    /\ lambda' = [lambda EXCEPT ![c] = "introspect"]
    /\ UNCHANGED <<client, answer, reply, http, history, published>>

handleRequest(c) ==
    /\ lambda[c] = "answered"
    /\ lambda' = [lambda EXCEPT ![c] = "replied"]
    /\ reply' = [reply EXCEPT ![c] = handled(answer[c])]
    /\ UNCHANGED <<client, answer, http, history, published>>

----------------------------------------------------------------------------
(* AM, another server, and AWS. *)

(* AM wants a JWT that has not expired, and says of a token that it does   *)
(* not know only that it is not active.  What it says of another may lack  *)
(* an entry; the authorizer may get no answer.                             *)
Confirmed(c) == IF live[c] /\ bearer[c] = "valid"
                THEN {Info(s, w) : s \in {NoString, Str({})},
                                   w \in {NoString, Str(scope[c])}}
                ELSE {}

Answered(c, a, fromAM) ==
    /\ lambda[c] = "introspect"
    /\ lambda' = [lambda EXCEPT ![c] = "answered"]
    /\ answer' = [answer EXCEPT ![c] = a]
    /\ byAM' = [byAM EXCEPT ![c] = fromAM]
    /\ granted' = [granted EXCEPT ![c] =
                      fromAM /\ live[c] /\ "publish" \in scope[c]]
    /\ UNCHANGED <<client, reply, http, published>>

AMAnswers(c) ==
    \E a \in Confirmed(c) \cup {NotJson, Refused, Info(NoString, NoString)} :
        Answered(c, a, TRUE)

OtherAnswers(c) == \E a \in Answers : Answered(c, a, FALSE)

(* AWS invokes the authorizer; or it refuses a request whose signature is  *)
(* not good, and one whose invocation panics or takes too long.            *)
Invoke(c) ==
    /\ pc[c] = "wait" /\ lambda[c] = "none" /\ http[c] = 0
    /\ lambda' = [lambda EXCEPT ![c] = "invoked"]
    /\ UNCHANGED <<client, answer, reply, http, history, published>>

Refuse(c) ==
    /\ pc[c] = "wait" /\ http[c] = 0 /\ lambda[c] # "replied"
    /\ lambda' = [lambda EXCEPT ![c] = "replied"]
    /\ http' = [http EXCEPT ![c] = 403]
    /\ UNCHANGED <<client, answer, reply, history, published>>

Enforce(c) ==
    /\ lambda[c] = "replied" /\ http[c] = 0
    /\ LET allowed == reply[c].isAuthenticated /\ reply[c].effect = "Allow"
       IN  /\ http' = [http EXCEPT ![c] = IF allowed THEN 200 ELSE 403]
           /\ published' = IF allowed THEN published \cup {c} ELSE published
    /\ UNCHANGED <<client, invocation, history>>

TokenExpires(c) ==
    /\ live[c]
    /\ live' = [live EXCEPT ![c] = FALSE]
    /\ UNCHANGED <<pc, scope, bearer, invocation, http, history, published>>

BearerExpires(c) ==
    /\ bearer[c] = "valid"
    /\ bearer' = [bearer EXCEPT ![c] = "expired"]
    /\ UNCHANGED <<pc, live, scope, invocation, http, history, published>>

Ended == (\A c \in Clients : pc[c] \in {"done", "panicked"}) /\ UNCHANGED vars

Next == \/ \E c \in Clients :
              \/ Client(c) \/ Introspect(c) \/ handleRequest(c)
              \/ AMAnswers(c) \/ OtherAnswers(c)
              \/ Invoke(c) \/ Refuse(c) \/ Enforce(c)
              \/ TokenExpires(c) \/ BearerExpires(c)
        \/ Ended

Spec == Init /\ [][Next]_vars

----------------------------------------------------------------------------
(* A message is published only if the answer to this very request is good, *)
(* has a subject, and a scope with the word "publish": an error on the     *)
(* way, a missing entry, or a scope that looks like it does not do.  If it *)
(* is AM that has answered, the token was alive when it did, and its scope *)
(* has the word (lambda/main.go:75-115, 139-214).                          *)
SaysPublish(a) == /\ a.status = 200 /\ a.json /\ a.sub.isString
                  /\ "publish" \in a.scope.words

PublishedByScope ==
    \A c \in published : SaysPublish(answer[c]) /\ (byAM[c] => granted[c])

(* The client takes the publication for done only when it is: it does not  *)
(* end well on a refusal or an error (client/main.go:106-110, 164-170).    *)
DoneIsPublished == \A c \in Clients : pc[c] = "done" => c \in published
==============================================================================

-------------------------- MODULE MqttAuthorization --------------------------
(***************************************************************************)
(* What the HiveMQ extension promises, with its tasks, its introspections, *)
(* its failures and its timeouts left out: who may hold a session, and     *)
(* which topics a session may ever reach.  HiveMQExtension implements it.  *)
(***************************************************************************)
CONSTANTS
    Conns, Tokens, Issued, Topics,
    ScopeOf,     \* the topic that a token is good for, or NoTopic
    NoTopic,
    NoSession,   \* there is no session on the connection
    Unknown      \* the broker let the client in before the extension was up

VARIABLES
    session,  \* the token each session was admitted with
    reach     \* the subscriptions each session has been granted

vars == <<session, reach>>

Init == /\ session = [c \in Conns |-> NoSession]
        /\ reach = [c \in Conns |-> {}]

(* Only a token of AM that has an MQTT scope opens a session. *)
Admit(c, t) ==
    /\ session[c] = NoSession
    /\ t \in Issued /\ ScopeOf[t] # NoTopic
    /\ session' = [session EXCEPT ![c] = t]
    /\ UNCHANGED reach

AdmitUnknown(c) ==
    /\ session[c] = NoSession
    /\ session' = [session EXCEPT ![c] = Unknown]
    /\ UNCHANGED reach

(* A session reaches no topic but the one in the scope of its token. *)
Reach(c) ==
    /\ session[c] \in Tokens
    /\ reach' = [reach EXCEPT ![c] = @ \cup {ScopeOf[session[c]]}]
    /\ UNCHANGED session

End(c) ==
    /\ session' = [session EXCEPT ![c] = NoSession]
    /\ reach' = [reach EXCEPT ![c] = {}]

Next == \E c \in Conns : \/ \E t \in Tokens : Admit(c, t)
                         \/ AdmitUnknown(c)
                         \/ Reach(c)
                         \/ End(c)

Spec == Init /\ [][Next]_vars

==============================================================================

--------------------------- MODULE RabbitMqAdmission ---------------------------
(***************************************************************************)
(* The subscribers' connections as RabbitMQ has them, and what Identity    *)
(* Gateway's filter is there for: RabbitMQ itself knows nothing of tokens. *)
(***************************************************************************)
CONSTANT Devices  \* the devices that subscribe

VARIABLES
    link,    \* device and broker: the connection, as far as it has got
    vouched, \* history: AM has known the token of this connection
    subbed   \* broker: the connection is subscribed to the topic

(* A device is accepted, and subscribed, only over a connection for which  *)
(* AM has known its token, however often the connection was lost between a *)
(* request and its answer (userinfo.groovy:38-46).                         *)
AdmittedByUserinfo ==
    \A d \in Devices :
        \/ link[d] \in {"accepted", "subscribing", "up"}
        \/ subbed[d]
        => vouched[d]
===============================================================================

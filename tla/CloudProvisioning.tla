-------------------------- MODULE CloudProvisioning --------------------------
(***************************************************************************)
(* What just-in-time provisioning in a cloud platform promises, with the   *)
(* attestation scripts, the overlapping requests and the clients' steps    *)
(* left out: a device is in the cloud's registry and its connection data   *)
(* is at hand before AM registers it, and only a registered device works.  *)
(* GcpProvisioning and AzureProvisioning implement it.                     *)
(***************************************************************************)
CONSTANT Devices

VARIABLES
    cloud,      \* the devices in the registry of the cloud platform
    ready,      \* the devices whose connection data AM can hand out
    registered, \* the devices that AM has registered
    working     \* the devices whose client is past its set-up

vars == <<cloud, ready, registered, working>>

Init == cloud = {} /\ ready = {} /\ registered = {} /\ working = {}

AddToCloud(d) ==
    /\ cloud' = cloud \cup {d}
    /\ UNCHANGED <<ready, registered, working>>

(* Connection data may be those of one device or of all. *)
Provide(ds) ==
    /\ ready' = ready \cup ds
    /\ UNCHANGED <<cloud, registered, working>>

Register(d) ==
    /\ d \in cloud \cap ready
    /\ registered' = registered \cup {d}
    /\ UNCHANGED <<cloud, ready, working>>

Work(d) ==
    /\ d \in registered
    /\ working' = working \cup {d}
    /\ UNCHANGED <<cloud, ready, registered>>

End(d) ==
    /\ working' = working \ {d}
    /\ UNCHANGED <<cloud, ready, registered>>

Next == \/ \E d \in Devices : \/ AddToCloud(d) \/ Register(d)
                              \/ Work(d) \/ End(d)
        \/ \E ds \in SUBSET Devices : Provide(ds)

Spec == Init /\ [][Next]_vars
==============================================================================

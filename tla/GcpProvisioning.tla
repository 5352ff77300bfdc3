--------------------------- MODULE GcpProvisioning ---------------------------
(***************************************************************************)
(* Just-in-time provisioning of a device in two platforms: while AM        *)
(* registers the device, its attestation script (CustomDeviceAttestation-  *)
(* GCPDevice.groovy) creates the device in the registry of IoT Core and    *)
(* stores the connection data in the configuration of the IEC; the client  *)
(* (gcp-device-mqtt/main.go) registers, fetches the configuration and      *)
(* connects to IoT Core with a JWT that it signs itself.                   *)
(*                                                                         *)
(* AM, the IEC, IoT Core and the paho client are external.  The client of  *)
(* a device may be run again; a request to AM goes on when its client has  *)
(* given up waiting.  AM attests a device until it is registered.          *)
(***************************************************************************)
EXTENDS Naturals

CONSTANTS
    Devices,  \* the devices behind one IEC
    MaxRuns   \* bound: runs of the client of each device

ASSUME MaxRunsAssumption == MaxRuns \in Nat \ {0}

VARIABLES
    script,    \* AM: the attestation of each device for each run of its client
    registry,  \* IoT Core: the devices in the registry
    am,        \* AM: the devices that are registered
    iecConfig, \* AM: the IEC's configuration holds the connection data
    run,       \* the current run of each client
    cpc,       \* where main of each client is
    conf,      \* the client: connectionData is not empty
    jwt,       \* the client: the JWT set as its password
    link,      \* the client: its connection, "none" for a nil client
    pub        \* the client: the telemetry goroutine

platform == <<script, registry, am, iecConfig>>
vars     == <<platform, run, cpc, conf, jwt, link, pub>>

Runs        == 1..MaxRuns
ScriptSteps == {"none", "check", "create", "store", "save", "done", "failed"}
SetUp       == {"initialise", "register", "registering", "config", "jwt",
                "connect"}
Working     == {"state", "spawn", "commands", "configs", "input", "disconnect"}

TypeOK ==
    /\ script \in [Devices -> [Runs -> ScriptSteps]]
    /\ registry \subseteq Devices /\ am \subseteq Devices
    /\ iecConfig \in BOOLEAN
    /\ run \in [Devices -> 0..MaxRuns]
    /\ cpc \in [Devices -> {"off"} \cup SetUp \cup Working]
    /\ conf \in [Devices -> BOOLEAN]
    /\ jwt \in [Devices -> {"none", "valid", "expired"}]
    /\ link \in [Devices -> {"none", "up", "lost"}]
    /\ pub \in [Devices -> {"none", "running", "cancelled"}]

Init ==
    /\ script = [d \in Devices |-> [n \in Runs |-> "none"]]
    /\ registry = {} /\ am = {} /\ iecConfig = FALSE
    /\ run = [d \in Devices |-> 0]
    /\ cpc = [d \in Devices |-> "off"]
    /\ conf = [d \in Devices |-> FALSE]
    /\ jwt = [d \in Devices |-> "none"]
    /\ link = [d \in Devices |-> "none"]
    /\ pub = [d \in Devices |-> "none"]

----------------------------------------------------------------------------
(* The attestation script, for device d and run n of its client. *)

Continue(d, n, from, to) ==
    /\ script[d][n] = from
    /\ script' = [script EXCEPT ![d][n] = to]

ScriptOnly == UNCHANGED <<run, cpc, conf, jwt, link, pub>>

(* Registration data without a public key fails the attestation. *)
CheckData(d, n, hasKey) ==
    /\ Continue(d, n, "check", IF hasKey THEN "create" ELSE "failed")
    /\ UNCHANGED <<registry, am, iecConfig>> /\ ScriptOnly

(* Mutant: that the registry has the device counts as success. *)
CreateTakesExisting(d, n) ==
    /\ registry' = registry \cup {d}
    /\ \E to \in {"store", "create", "failed"} : Continue(d, n, "create", to)
    /\ UNCHANGED <<am, iecConfig>> /\ ScriptOnly

(* createDevice: the request gets to the registry, which refuses a device  *)
(* that it has.  When the reply is lost the request is sent again, as long *)
(* as the back-off allows; an exception fails the attestation.             *)
createDevice(d, n) ==
    /\ registry' = registry \cup {d}
    /\ \/ Continue(d, n, "create", IF d \in registry THEN "failed" ELSE "store")
       \/ Continue(d, n, "create", "create")  \* reply lost, retry
       \/ Continue(d, n, "create", "failed")  \* reply lost, no retry left
    /\ UNCHANGED <<am, iecConfig>> /\ ScriptOnly

(* The request does not get to the registry. *)
CreateFails(d, n) ==
    /\ Continue(d, n, "create", "failed")
    /\ UNCHANGED <<registry, am, iecConfig>> /\ ScriptOnly

(* Mutant: a missing IEC is logged and not taken as a failure. *)
SetConfigurationIfPresent(d, n, iecPresent) ==
    /\ Continue(d, n, "store", "save")
    /\ iecConfig' = (iecPresent \/ iecConfig)
    /\ UNCHANGED <<registry, am>> /\ ScriptOnly

(* The connection data is stored with the IEC of the device, if it has one. *)
SetConfiguration(d, n, iecPresent) ==
    /\ Continue(d, n, "store", IF iecPresent THEN "save" ELSE "failed")
    /\ iecConfig' = (iecPresent \/ iecConfig)
    /\ UNCHANGED <<registry, am>> /\ ScriptOnly

(* AM creates the identity of an attested device, or fails to. *)
SaveIdentity(d, n, ok) ==
    /\ Continue(d, n, "save", IF ok THEN "done" ELSE "failed")
    /\ am' = IF ok THEN am \cup {d} ELSE am
    /\ UNCHANGED <<registry, iecConfig>> /\ ScriptOnly

Script(d, n) == \/ createDevice(d, n) \/ CreateFails(d, n)
                \/ \E ok \in BOOLEAN : \/ CheckData(d, n, ok)
                                       \/ SetConfiguration(d, n, ok)
                                       \/ SaveIdentity(d, n, ok)

----------------------------------------------------------------------------
(* The client. *)

Goto(d, from, to) ==
    /\ cpc[d] = from
    /\ cpc' = [cpc EXCEPT ![d] = to]

(* log.Fatal, a panic or the return of main. *)
Exits(d) ==
    /\ cpc' = [cpc EXCEPT ![d] = "off"]
    /\ conf' = [conf EXCEPT ![d] = FALSE]
    /\ jwt' = [jwt EXCEPT ![d] = "none"]
    /\ link' = [link EXCEPT ![d] = "none"]
    /\ pub' = [pub EXCEPT ![d] = "none"]

Start(d) ==
    /\ run[d] < MaxRuns
    /\ Goto(d, "off", "initialise")
    /\ run' = [run EXCEPT ![d] = @ + 1]
    /\ UNCHANGED <<platform, conf, jwt, link, pub>>

(* zmqclient.Initialise and readRegistrationData. *)
Initialise(d) ==
    /\ Goto(d, "initialise", "register")
    /\ UNCHANGED <<platform, run, conf, jwt, link, pub>>

(* A step of the set-up fails: log.Fatal. *)
SetUpFails(d) ==
    /\ cpc[d] \in {"initialise", "register", "config", "jwt", "connect"}
    /\ Exits(d)
    /\ UNCHANGED <<platform, run>>

(* zmqclient.DeviceRegister: a device that AM does not know is attested. *)
DeviceRegister(d) ==
    /\ \/ d \in am /\ Goto(d, "register", "config") /\ UNCHANGED script
       \/ /\ d \notin am
          /\ Goto(d, "register", "registering")
          /\ script' = [script EXCEPT ![d][run[d]] = "check"]
    /\ UNCHANGED <<registry, am, iecConfig, run, conf, jwt, link, pub>>

(* Mutant: the result of the registration is not looked at. *)
RegisterReplyIgnored(d) ==
    /\ Goto(d, "registering", "config")
    /\ script[d][run[d]] \in {"done", "failed"}
    /\ UNCHANGED <<platform, run, conf, jwt, link, pub>>

RegisterReply(d) ==
    /\ cpc[d] = "registering"
    /\ \/ /\ script[d][run[d]] = "done"
          /\ Goto(d, "registering", "config")
          /\ UNCHANGED <<conf, jwt, link, pub>>
       \/ script[d][run[d]] = "failed" /\ Exits(d)
    /\ UNCHANGED <<platform, run>>

(* The SDK gives up waiting for the answer of the IEC, which may come much *)
(* later: a request to IoT Core may take minutes.                          *)
RegisterTimeout(d) ==
    /\ cpc[d] = "registering"
    /\ Exits(d)
    /\ UNCHANGED <<platform, run>>

(* An empty configuration is good JSON, too. *)
DeviceConfiguration(d) ==
    /\ Goto(d, "config", "jwt")
    /\ conf' = [conf EXCEPT ![d] = iecConfig]
    /\ UNCHANGED <<platform, run, jwt, link, pub>>

createJWT(d) ==
    /\ Goto(d, "jwt", "connect")
    /\ jwt' = [jwt EXCEPT ![d] = "valid"]
    /\ UNCHANGED <<platform, run, conf, link, pub>>

(* What IoT Core accepts. *)
Accepted(d) == conf[d] /\ d \in registry /\ jwt[d] = "valid"

(* Root certificates that do not parse yield neither a client nor an error. *)
connectToIOTCore(d, certsParse) ==
    /\ Goto(d, "connect", "state")
    /\ certsParse => Accepted(d)
    /\ link' = [link EXCEPT ![d] = IF certsParse THEN "up" ELSE "none"]
    /\ UNCHANGED <<platform, run, conf, jwt, pub>>

(* Mutant: a request without a client is an error that is only printed. *)
RequestPrintsError(d, from, to) ==
    /\ Goto(d, from, to)
    /\ UNCHANGED <<platform, run, conf, jwt, link, pub>>

(* A request of main over the client ends in a panic when there is no      *)
(* client; when the connection is lost paho lets it wait or ends it in an  *)
(* error, and then log.Fatal is called.                                    *)
Request(d, from, to) ==
    /\ cpc[d] = from
    /\ \/ /\ link[d] = "up"
          /\ Goto(d, from, to)
          /\ UNCHANGED <<conf, jwt, link, pub>>
       \/ link[d] # "up" /\ Exits(d)
    /\ UNCHANGED <<platform, run>>

PublishState(d)      == Request(d, "state", "spawn")
SubscribeCommands(d) == Request(d, "commands", "configs")
SubscribeConfig(d)   == Request(d, "configs", "input")

SpawnTelemetry(d) ==
    /\ Goto(d, "spawn", "commands")
    /\ pub' = [pub EXCEPT ![d] = "running"]
    /\ UNCHANGED <<platform, run, conf, jwt, link>>

(* The user enters a key; the deferred calls run, cancel() before          *)
(* client.Disconnect.                                                      *)
Input(d) ==
    /\ Goto(d, "input", "disconnect")
    /\ pub' = [pub EXCEPT ![d] = "cancelled"]
    /\ UNCHANGED <<platform, run, conf, jwt, link>>

Disconnect(d) ==
    /\ cpc[d] = "disconnect"
    /\ Exits(d)
    /\ UNCHANGED <<platform, run>>

(* The telemetry goroutine sees that it is cancelled; until then it        *)
(* publishes every two seconds, and only prints an error.                  *)
TelemetryStops(d) ==
    /\ pub[d] = "cancelled"
    /\ pub' = [pub EXCEPT ![d] = "none"]
    /\ UNCHANGED <<platform, run, cpc, conf, jwt, link>>

Client(d) == \/ Initialise(d) \/ DeviceRegister(d) \/ RegisterReply(d)
             \/ DeviceConfiguration(d) \/ createJWT(d)
             \/ \E ok \in BOOLEAN : connectToIOTCore(d, ok)
             \/ SetUpFails(d)
             \/ PublishState(d) \/ SpawnTelemetry(d)
             \/ SubscribeCommands(d) \/ SubscribeConfig(d)
             \/ Disconnect(d) \/ TelemetryStops(d)

----------------------------------------------------------------------------
(* The JWT expires; the connection is lost, and so it is when the JWT has  *)
(* expired; paho connects again by itself, with the password that it has.  *)

JWTExpires(d) ==
    /\ jwt[d] = "valid"
    /\ jwt' = [jwt EXCEPT ![d] = "expired"]
    /\ UNCHANGED <<platform, run, cpc, conf, link, pub>>

LinkLost(d) ==
    /\ link[d] = "up"
    /\ link' = [link EXCEPT ![d] = "lost"]
    /\ UNCHANGED <<platform, run, cpc, conf, jwt, pub>>

Reconnect(d) ==
    /\ link[d] = "lost" /\ Accepted(d)
    /\ link' = [link EXCEPT ![d] = "up"]
    /\ UNCHANGED <<platform, run, cpc, conf, jwt, pub>>

(* Every client has had its runs. *)
Finished == (\A d \in Devices : cpc[d] = "off" /\ run[d] = MaxRuns)
            /\ UNCHANGED vars

Next == \/ \E d \in Devices : \/ Start(d) \/ Client(d) \/ Input(d)
                              \/ RegisterTimeout(d)
                              \/ JWTExpires(d) \/ LinkLost(d) \/ Reconnect(d)
        \/ \E d \in Devices, n \in Runs : Script(d, n)
        \/ Finished

Spec == Init /\ [][Next]_vars

----------------------------------------------------------------------------
(* A device that AM has registered is in the registry of IoT Core and its  *)
(* connection data can be fetched, whatever requests were lost, failed or  *)
(* sent again and whatever attestations of it ran side by side             *)
(* (CustomDeviceAttestationGCPDevice.groovy:124-142).                      *)
RegisteredInBoth == \A d \in am : d \in registry /\ iecConfig

(* A client that gets past its registration finds the device provisioned:  *)
(* it never goes on with an empty configuration, and its connection is not *)
(* refused for want of a registry entry, not even after earlier runs that  *)
(* gave up on an attestation (gcp-device-mqtt/main.go:268-292).            *)
ClientFindsDevice ==
    \A d \in Devices :
        /\ cpc[d] \in {"config", "jwt", "connect"} \cup Working =>
               d \in am /\ d \in registry
        /\ cpc[d] \in {"jwt", "connect"} \cup Working => conf[d]

(* The telemetry goroutine runs beside a main that has a client, lost or   *)
(* not: connectToIOTCore may return neither a client nor an error, but     *)
(* main has panicked before it starts the goroutine, and takes it along    *)
(* when it ends later (gcp-device-mqtt/main.go:178, 298-333).              *)
TelemetryHasClient ==
    \A d \in Devices : pub[d] # "none" => cpc[d] \in Working /\ link[d] # "none"

(* Of all attestations of a device at most one gets past its creation, so  *)
(* that no second one stores the connection data or is answered with a     *)
(* second identity: neither when clients give up and their attestations    *)
(* run on side by side, nor when a creation whose reply was lost is sent   *)
(* again (CustomDeviceAttestationGCPDevice.groovy:60-93, 127).             *)
OneAttestationPasses ==
    \A d \in Devices : \A m, n \in Runs :
        {script[d][m], script[d][n]} \subseteq {"store", "save", "done"} =>
            m = n

(* Attestation script and client keep the promise of provisioning: no      *)
(* interleaving of attestations, clients, retries and lost replies makes a *)
(* device registered, or lets its client work, before the cloud platform   *)
(* knows it and its connection data can be fetched.                        *)
Provisioning == INSTANCE CloudProvisioning WITH
    cloud <- registry, registered <- am,
    ready <- IF iecConfig THEN Devices ELSE {},
    working <- {d \in Devices : cpc[d] \in Working}

ImplementsProvisioning == Provisioning!Spec

(* What gcpiot/README.md says: devices automatically receive the           *)
(* citizenship of both platforms; when no attestation of a device is under *)
(* way it is registered in both or in none.                                *)
DualCitizenship ==
    \A d \in Devices :
        (\A n \in Runs : script[d][n] \in {"none", "done", "failed"}) =>
            (d \in registry <=> d \in am)
==============================================================================

-------------------------- MODULE AzureProvisioning --------------------------
(***************************************************************************)
(* Just-in-time provisioning with Azure: while AM registers a device, its  *)
(* attestation script (CustomDeviceAttestation.groovy) adds the device to  *)
(* the IoT hub and stores its connection string with its identity; the     *)
(* client (AzureClientExample.java) registers, fetches the connection      *)
(* string and publishes telemetry from a thread of its own until the user  *)
(* presses ENTER.                                                          *)
(*                                                                         *)
(* AM, the IEC, the hub, the Azure SDK and the Java executor are external. *)
(* The client may be run again; an attestation goes on when its client has *)
(* given up waiting.  AM attests a device until it is registered.          *)
(***************************************************************************)
EXTENDS Naturals

CONSTANTS
    Devices,  \* the devices
    MaxRuns   \* bound: runs of the client of each device

ASSUME MaxRunsAssumption == MaxRuns \in Nat \ {0}

VARIABLES
    script,      \* AM: the attestation of each device for each run of the client
    hub,         \* the devices in the hub's registry
    config,      \* AM: the devices whose connection string is stored
    am,          \* AM: the devices that are registered
    run,         \* the current run of each client
    cpc,         \* where main of each client is
    conf,        \* the client: it has a connection string
    client,      \* the client: its DeviceClient
    pub,         \* the client: where the publisher thread is
    interrupted, \* the client: the publisher has been interrupted
    late         \* history: messages sent after that

platform  == <<script, hub, config, am>>
publisher == <<pub, interrupted, late>>
vars      == <<platform, run, cpc, conf, client, publisher>>

Runs        == 1..MaxRuns
ScriptSteps == {"none", "add", "store", "save", "done", "failed"}
SetUp       == {"initialise", "register", "registering", "config", "open"}
Working     == {"spawn", "input", "shutdown", "close"}

TypeOK ==
    /\ script \in [Devices -> [Runs -> ScriptSteps]]
    /\ hub \subseteq Devices /\ config \subseteq Devices /\ am \subseteq Devices
    /\ run \in [Devices -> 0..MaxRuns]
    /\ cpc \in [Devices -> {"off"} \cup SetUp \cup Working]
    /\ conf \in [Devices -> BOOLEAN]
    /\ client \in [Devices -> {"none", "open", "closed"}]
    /\ pub \in [Devices -> {"none", "send", "sleep"}]
    /\ interrupted \in [Devices -> BOOLEAN]
    /\ late \in [Devices -> Nat]

Init ==
    /\ script = [d \in Devices |-> [n \in Runs |-> "none"]]
    /\ hub = {} /\ config = {} /\ am = {}
    /\ run = [d \in Devices |-> 0]
    /\ cpc = [d \in Devices |-> "off"]
    /\ conf = [d \in Devices |-> FALSE]
    /\ client = [d \in Devices |-> "none"]
    /\ pub = [d \in Devices |-> "none"]
    /\ interrupted = [d \in Devices |-> FALSE]
    /\ late = [d \in Devices |-> 0]

----------------------------------------------------------------------------
(* The attestation script, for device d and run n of its client. *)

Continue(d, n, from, to) ==
    /\ script[d][n] = from
    /\ script' = [script EXCEPT ![d][n] = to]

ScriptOnly == UNCHANGED <<run, cpc, conf, client, publisher>>

(* Mutants: the device is added under another name than its own; an        *)
(* exception is logged, and the script goes on.                            *)
AddDeviceUnderOtherName(d, n) ==
    /\ hub' = hub \cup {n}
    /\ Continue(d, n, "add", "store")
    /\ UNCHANGED <<config, am>> /\ ScriptOnly

AddDeviceLogged(d, n) ==
    /\ \/ hub' = hub \cup {d} \/ UNCHANGED hub
    /\ Continue(d, n, "add", "store")
    /\ UNCHANGED <<config, am>> /\ ScriptOnly

(* addDevice: the hub refuses a device that it has; the request or its     *)
(* answer may be lost.  An exception fails the attestation.                *)
AddDevice(d, n) ==
    /\ \/ /\ d \notin hub
          /\ hub' = hub \cup {d}
          /\ Continue(d, n, "add", "store")
       \/ /\ hub' = hub \cup {d}
          /\ Continue(d, n, "add", "failed")
       \/ /\ UNCHANGED hub
          /\ Continue(d, n, "add", "failed")
    /\ UNCHANGED <<config, am>> /\ ScriptOnly

(* getDeviceConnectionString and setUserConfiguration; an exception of     *)
(* theirs ends the script and the attestation.                             *)
SetUserConfiguration(d, n, ok) ==
    /\ Continue(d, n, "store", IF ok THEN "save" ELSE "failed")
    /\ config' = IF ok THEN config \cup {d} ELSE config
    /\ UNCHANGED <<hub, am>> /\ ScriptOnly

(* AM creates the identity of an attested device, or fails to. *)
SaveIdentity(d, n, ok) ==
    /\ Continue(d, n, "save", IF ok THEN "done" ELSE "failed")
    /\ am' = IF ok THEN am \cup {d} ELSE am
    /\ UNCHANGED <<hub, config>> /\ ScriptOnly

Script(d, n) == \/ AddDevice(d, n)
                \/ \E ok \in BOOLEAN : \/ SetUserConfiguration(d, n, ok)
                                       \/ SaveIdentity(d, n, ok)

----------------------------------------------------------------------------
(* main of the client. *)

Goto(d, from, to) ==
    /\ cpc[d] = from
    /\ cpc' = [cpc EXCEPT ![d] = to]

(* A new process, once main and the publisher of the last one have ended. *)
Start(d) ==
    /\ run[d] < MaxRuns
    /\ pub[d] = "none"
    /\ Goto(d, "off", "initialise")
    /\ run' = [run EXCEPT ![d] = @ + 1]
    /\ conf' = [conf EXCEPT ![d] = FALSE]
    /\ client' = [client EXCEPT ![d] = "none"]
    /\ interrupted' = [interrupted EXCEPT ![d] = FALSE]
    /\ late' = [late EXCEPT ![d] = 0]
    /\ UNCHANGED <<platform, pub>>

Initialise(d) ==
    /\ Goto(d, "initialise", "register")
    /\ UNCHANGED <<platform, run, conf, client, publisher>>

(* A call of the set-up fails, or iec_device_register is not answered in   *)
(* time: main throws.                                                      *)
SetUpFails(d) ==
    /\ cpc[d] \in SetUp
    /\ cpc' = [cpc EXCEPT ![d] = "off"]
    /\ UNCHANGED <<platform, run, conf, client, publisher>>

(* iec_device_register: a device that AM does not know is attested. *)
DeviceRegister(d) ==
    /\ \/ d \in am /\ Goto(d, "register", "config") /\ UNCHANGED script
       \/ /\ d \notin am
          /\ Goto(d, "register", "registering")
          /\ script' = [script EXCEPT ![d][run[d]] = "add"]
    /\ UNCHANGED <<hub, config, am, run, conf, client, publisher>>

(* Mutant: the result of the registration is not looked at. *)
RegisterReplyIgnored(d) ==
    /\ Goto(d, "registering", "config")
    /\ script[d][run[d]] \in {"done", "failed"}
    /\ UNCHANGED <<platform, run, conf, client, publisher>>

RegisterReply(d) ==
    /\ Goto(d, "registering", "config")
    /\ script[d][run[d]] = "done"
    /\ UNCHANGED <<platform, run, conf, client, publisher>>

(* GetDeviceConfig.groovy answers with "{}" when nothing is stored, from   *)
(* which the client gets a null for its connection string.                 *)
DeviceConfiguration(d) ==
    /\ Goto(d, "config", "open")
    /\ conf' = [conf EXCEPT ![d] = d \in config]
    /\ UNCHANGED <<platform, run, client, publisher>>

(* A DeviceClient without a connection string, or of a device that the hub *)
(* does not know, throws.                                                  *)
Open(d) ==
    /\ conf[d] /\ d \in hub
    /\ Goto(d, "open", "spawn")
    /\ client' = [client EXCEPT ![d] = "open"]
    /\ UNCHANGED <<platform, run, conf, publisher>>

Execute(d) ==
    /\ Goto(d, "spawn", "input")
    /\ pub' = [pub EXCEPT ![d] = "send"]
    /\ UNCHANGED <<platform, run, conf, client, interrupted, late>>

(* System.in.read returns, or throws: then main is over, and nobody stops  *)
(* the publisher.                                                          *)
Input(d, ok) ==
    /\ Goto(d, "input", IF ok THEN "shutdown" ELSE "off")
    /\ UNCHANGED <<platform, run, conf, client, publisher>>

ShutdownNow(d) ==
    /\ Goto(d, "shutdown", "close")
    /\ interrupted' = [interrupted EXCEPT ![d] = TRUE]
    /\ UNCHANGED <<platform, run, conf, client, pub, late>>

CloseNow(d) ==
    /\ Goto(d, "close", "off")
    /\ client' = [client EXCEPT ![d] = "closed"]
    /\ UNCHANGED <<platform, run, conf, publisher>>

Main(d) == \/ Initialise(d) \/ SetUpFails(d) \/ DeviceRegister(d)
           \/ RegisterReply(d) \/ DeviceConfiguration(d) \/ Open(d)
           \/ Execute(d) \/ ShutdownNow(d) \/ CloseNow(d)

----------------------------------------------------------------------------
(* The publisher thread. *)

(* Mutant: an exception of the send is caught, and it is sent again. *)
SendEventRetried(d) ==
    /\ pub[d] = "send"
    /\ pub' = [pub EXCEPT ![d] = IF client[d] = "open" THEN "sleep" ELSE "send"]
    /\ late' = [late EXCEPT ![d] = IF interrupted[d] /\ client[d] = "open"
                                   THEN @ + 1 ELSE @]
    /\ UNCHANGED <<platform, run, cpc, conf, client, interrupted>>

(* sendEventAsync over a client that main has closed throws, and nobody    *)
(* catches it: the thread ends.                                            *)
SendEvent(d) ==
    /\ pub[d] = "send"
    /\ \/ /\ client[d] = "open"
          /\ pub' = [pub EXCEPT ![d] = "sleep"]
          /\ late' = [late EXCEPT ![d] = IF interrupted[d] THEN @ + 1 ELSE @]
       \/ /\ client[d] = "closed"
          /\ pub' = [pub EXCEPT ![d] = "none"]
          /\ UNCHANGED late
    /\ UNCHANGED <<platform, run, cpc, conf, client, interrupted>>

(* Mutant: the interruption is caught inside the loop. *)
SleepOnlyInterrupted(d) ==
    /\ pub[d] = "sleep"
    /\ pub' = [pub EXCEPT ![d] = "send"]
    /\ UNCHANGED <<platform, run, cpc, conf, client, interrupted, late>>

(* Thread.sleep returns, or throws when the thread is or gets interrupted. *)
Sleep(d) ==
    /\ pub[d] = "sleep"
    /\ pub' = [pub EXCEPT ![d] = IF interrupted[d] THEN "none" ELSE "send"]
    /\ UNCHANGED <<platform, run, cpc, conf, client, interrupted, late>>

Publisher(d) == SendEvent(d) \/ Sleep(d)

(* Every client has had its runs. *)
Finished == /\ \A d \in Devices : /\ cpc[d] = "off" /\ run[d] = MaxRuns
                                  /\ pub[d] = "none"
            /\ UNCHANGED vars

Next == \/ \E d \in Devices : \/ Start(d) \/ Main(d) \/ Publisher(d)
                              \/ \E ok \in BOOLEAN : Input(d, ok)
        \/ \E d \in Devices, n \in Runs : Script(d, n)
        \/ Finished

Spec == Init /\ [][Next]_vars

(* The two threads of a client run on; nothing is expected of AM, the hub  *)
(* or the user.                                                            *)
Fairness == \A d \in Devices : WF_vars(Main(d)) /\ WF_vars(Publisher(d))

FairSpec == Spec /\ Fairness

----------------------------------------------------------------------------
(* A client that gets past its registration finds its connection string,   *)
(* and the hub knows it, whichever attestations of the device of earlier   *)
(* runs were given up, failed half way or still go on                      *)
(* (AzureClientExample.java:99-117, CustomDeviceAttestation.groovy:36-50). *)
ClientFindsConnection ==
    \A d \in Devices :
        /\ cpc[d] = "config" \/ client[d] # "none" => d \in am
        /\ cpc[d] \in {"open"} \cup Working => conf[d] /\ d \in hub

(* After shutdownNow the publisher sends at most the one message it was    *)
(* about to send, wherever the interruption catches it: before it has      *)
(* started, in the middle of a send or asleep (AzureClientExample.java:72- *)
(* 86, 125).                                                               *)
OneLateMessage == \A d \in Devices : late[d] <= 1

(* When the user has pressed ENTER both threads end, whether the last send *)
(* comes before or after closeNow, or throws (AzureClientExample.java:124- *)
(* 126).                                                                   *)
ClientEnds ==
    \A d \in Devices :
        cpc[d] = "shutdown" ~> cpc[d] = "off" /\ pub[d] = "none"

(* Attestation script and client keep the promise of provisioning: AM does *)
(* not register a device of which the hub or the connection string is      *)
(* missing, and only a registered device works, however attestations of it *)
(* overlap, fail half way or lose an answer of the hub.                    *)
Provisioning == INSTANCE CloudProvisioning WITH
    cloud <- hub, ready <- config, registered <- am,
    working <- {d \in Devices : cpc[d] \in Working}

ImplementsProvisioning == Provisioning!Spec
==============================================================================

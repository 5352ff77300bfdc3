---------------------- MODULE AzureProvisioningProofs ----------------------
(***************************************************************************)
(* What AzureProvisioning promises, for any number of devices and of runs  *)
(* of their clients.  The invariant adds to the properties how far each    *)
(* attestation has got and what that has left in the hub and in AM, and    *)
(* when a publisher may have been interrupted.                             *)
(***************************************************************************)
EXTENDS AzureProvisioning, TLAPS

(* What an attestation has done before it reaches a step. *)
Attested ==
    \A d \in Devices, n \in Runs :
        /\ script[d][n] \in {"store", "save", "done"} => d \in hub
        /\ script[d][n] \in {"save", "done"} => d \in config
        /\ script[d][n] = "done" => d \in am

RegisteredInBoth == am \subseteq hub \cap config

(* How far a client gets with what; a message that it sends after the      *)
(* interruption was already on its way.                                    *)
Earned(d) ==
    /\ cpc[d] # "off" => run[d] \in Runs
    /\ cpc[d] \in {"config", "open"} \cup Working => d \in am
    /\ cpc[d] \in {"open"} \cup Working => conf[d]
    /\ client[d] # "none" => d \in am

Quiet(d) ==
    /\ late[d] # 0 => late[d] = 1 /\ interrupted[d] /\ pub[d] # "send"
    /\ interrupted[d] => cpc[d] \in {"off", "close"}

IInv == /\ TypeOK
        /\ Attested
        /\ RegisteredInBoth
        /\ \A d \in Devices : Earned(d) /\ Quiet(d)

LEMMA InitIInv == Init => IInv
<1> SUFFICES ASSUME Init PROVE IInv
  OBVIOUS
<1>1. TypeOK
  <2>1. run \in [Devices -> 0..MaxRuns]
    BY MaxRunsAssumption DEF Init
  <2>2. script \in [Devices -> [Runs -> ScriptSteps]]
    BY DEF Init, ScriptSteps
  <2> QED  BY <2>1, <2>2 DEF Init, TypeOK
<1>2. Attested /\ RegisteredInBoth
  BY DEF Init, Attested, RegisteredInBoth
<1>3. \A d \in Devices : Earned(d) /\ Quiet(d)
  BY DEF Init, Earned, Quiet, Working
<1> QED  BY <1>1, <1>2, <1>3 DEF IInv

(* The types of what belongs to the clients. *)
ClientTypes ==
    /\ run \in [Devices -> 0..MaxRuns]
    /\ cpc \in [Devices -> {"off"} \cup SetUp \cup Working]
    /\ conf \in [Devices -> BOOLEAN]
    /\ client \in [Devices -> {"none", "open", "closed"}]
    /\ pub \in [Devices -> {"none", "send", "sleep"}]
    /\ interrupted \in [Devices -> BOOLEAN]
    /\ late \in [Devices -> Nat]

----------------------------------------------------------------------------
(* The attestation script. *)

(* A step of an attestation changes one entry of script. *)
Moves(d, n, to) == script' = [script EXCEPT ![d][n] = to]

LEMMA ScriptEntry ==
    ASSUME TypeOK, NEW d \in Devices, NEW n \in Runs, NEW to \in ScriptSteps,
           Moves(d, n, to)
    PROVE  /\ script' \in [Devices -> [Runs -> ScriptSteps]]
           /\ script'[d][n] = to
           /\ \A e \in Devices, m \in Runs :
                  e # d \/ m # n => script'[e][m] = script[e][m]
<1> DEFINE f == [script[d] EXCEPT ![n] = to]
<1>1. script' = [script EXCEPT ![d] = f]
  BY DEF Moves
<1>2. /\ f \in [Runs -> ScriptSteps] /\ f[n] = to
      /\ \A m \in Runs : m # n => f[m] = script[d][m]
  BY DEF TypeOK
<1> HIDE DEF f
<1> QED  BY <1>1, <1>2 DEF TypeOK

(* An attestation that enters only steps that it has earned, while the hub *)
(* and AM lose nothing, keeps the invariant.                               *)
LEMMA ScriptKeeps ==
    ASSUME IInv, NEW d \in Devices, NEW n \in Runs, NEW to \in ScriptSteps,
           Moves(d, n, to), ScriptOnly,
           hub \subseteq hub', hub' \subseteq Devices,
           config \subseteq config', config' \subseteq Devices,
           am \subseteq am', am' \subseteq hub' \cap config',
           to \in {"store", "save", "done"} => d \in hub',
           to \in {"save", "done"} => d \in config',
           to = "done" => d \in am'
    PROVE  IInv'
<1>0. TypeOK
  BY DEF IInv
<1>1. /\ script' \in [Devices -> [Runs -> ScriptSteps]]
      /\ script'[d][n] = to
      /\ \A e \in Devices, m \in Runs :
             e # d \/ m # n => script'[e][m] = script[e][m]
  BY <1>0, ScriptEntry
<1>2. TypeOK'
  <2>1. UNCHANGED <<run, cpc, conf, client, pub, interrupted, late>>
    BY DEF ScriptOnly, publisher
  <2> QED  BY <1>1, <2>1 DEF IInv, TypeOK
<1>3. Attested'
  <2> SUFFICES ASSUME NEW e \in Devices, NEW m \in Runs
               PROVE  /\ script'[e][m] \in {"store", "save", "done"}
                             => e \in hub'
                      /\ script'[e][m] \in {"save", "done"} => e \in config'
                      /\ script'[e][m] = "done" => e \in am'
    BY DEF Attested
  <2> QED  BY <1>1 DEF IInv, Attested
<1>4. RegisteredInBoth'
  BY DEF RegisteredInBoth
<1>5. \A e \in Devices : Earned(e)' /\ Quiet(e)'
  BY DEF IInv, Earned, Quiet, ScriptOnly, publisher
<1> QED  BY <1>2, <1>3, <1>4, <1>5 DEF IInv

LEMMA ScriptIInv ==
    ASSUME IInv, NEW d \in Devices, NEW n \in Runs, Script(d, n)
    PROVE  IInv'
<1>0. /\ hub \subseteq Devices /\ config \subseteq Devices
      /\ am \subseteq hub \cap config
      /\ script[d][n] \in {"store", "save"} => d \in hub
      /\ script[d][n] = "save" => d \in config
  BY DEF IInv, TypeOK, Attested, RegisteredInBoth
<1>1. CASE AddDevice(d, n)
  <2>1. PICK to \in {"store", "failed"} :
            /\ Moves(d, n, to)
            /\ hub' = hub \cup {d} \/ (to = "failed" /\ hub' = hub)
    BY <1>1 DEF AddDevice, Continue, Moves
  <2>2. UNCHANGED <<config, am>> /\ ScriptOnly
    BY <1>1 DEF AddDevice
  <2> QED  BY <1>0, <2>1, <2>2, ScriptKeeps DEF ScriptSteps
<1>2. ASSUME NEW ok \in BOOLEAN, SetUserConfiguration(d, n, ok) PROVE IInv'
  <2>1. PICK to \in {"save", "failed"} :
            /\ Moves(d, n, to)
            /\ config' = IF to = "save" THEN config \cup {d} ELSE config
    BY <1>2 DEF SetUserConfiguration, Continue, Moves
  <2>2. UNCHANGED <<hub, am>> /\ ScriptOnly /\ script[d][n] = "store"
    BY <1>2 DEF SetUserConfiguration, Continue
  <2> QED  BY <1>0, <2>1, <2>2, ScriptKeeps DEF ScriptSteps
<1>3. ASSUME NEW ok \in BOOLEAN, SaveIdentity(d, n, ok) PROVE IInv'
  <2>1. PICK to \in {"done", "failed"} :
            /\ Moves(d, n, to)
            /\ am' = IF to = "done" THEN am \cup {d} ELSE am
    BY <1>3 DEF SaveIdentity, Continue, Moves
  <2>2. UNCHANGED <<hub, config>> /\ ScriptOnly /\ script[d][n] = "save"
    BY <1>3 DEF SaveIdentity, Continue
  <2> QED  BY <1>0, <2>1, <2>2, ScriptKeeps DEF ScriptSteps
<1> QED  BY <1>1, <1>2, <1>3, Zenon DEF Script

----------------------------------------------------------------------------
(* The client: a step of it touches the variables of one device only. *)

Others(d) ==
    \A e \in Devices \ {d} :
        /\ cpc'[e] = cpc[e] /\ run'[e] = run[e] /\ conf'[e] = conf[e]
        /\ client'[e] = client[e] /\ pub'[e] = pub[e]
        /\ interrupted'[e] = interrupted[e] /\ late'[e] = late[e]

LEMMA ClientKeeps ==
    ASSUME IInv, NEW d \in Devices, UNCHANGED platform, ClientTypes',
           Others(d), Earned(d)', Quiet(d)'
    PROVE  IInv'
<1>1. UNCHANGED <<script, hub, config, am>>
  BY DEF platform
<1>2. TypeOK'
  BY <1>1 DEF IInv, TypeOK, ClientTypes
<1>3. Attested' /\ RegisteredInBoth'
  BY <1>1 DEF IInv, Attested, RegisteredInBoth
<1>4. \A e \in Devices \ {d} : Earned(e)' /\ Quiet(e)'
  BY <1>1 DEF IInv, Earned, Quiet, Others
<1> QED  BY <1>2, <1>3, <1>4 DEF IInv

LEMMA ClientIInv ==
    ASSUME IInv, NEW d \in Devices,
           \/ Start(d) \/ Main(d) \/ Publisher(d)
           \/ \E ok \in BOOLEAN : Input(d, ok)
    PROVE  IInv'
<1> USE DEF ClientTypes, Others, Earned, Quiet, Goto, platform, publisher,
            SetUp, Working
<1>0. ClientTypes /\ Earned(d) /\ Quiet(d) /\ MaxRuns \in Nat
  BY MaxRunsAssumption DEF IInv, TypeOK
<1>1. CASE Start(d)
  <2>1. run[d] + 1 \in Runs
    BY <1>0, <1>1 DEF Start, Runs
  <2>2. ClientTypes'
    BY <1>0, <1>1, <2>1 DEF Start, Runs
  <2>3. Others(d)
    BY <1>0, <1>1 DEF Start
  <2>4. Earned(d)' /\ Quiet(d)'
    BY <1>0, <1>1, <2>1 DEF Start
  <2> QED  BY <1>1, <2>2, <2>3, <2>4, ClientKeeps DEF Start
<1>2. CASE Initialise(d)
  BY <1>0, <1>2, ClientKeeps DEF Initialise
<1>3. CASE SetUpFails(d)
  BY <1>0, <1>3, ClientKeeps DEF SetUpFails
<1>4. CASE DeviceRegister(d)
  <2>0. /\ Goto(d, "register", "config") \/ Goto(d, "register", "registering")
        /\ UNCHANGED <<hub, config, am, run, conf, client, publisher>>
    BY <1>4 DEF DeviceRegister
  <2>1. ClientTypes' /\ Others(d)
    BY <1>0, <2>0
  <2>2. Earned(d)' /\ Quiet(d)'
    BY <1>0, <1>4, <2>0 DEF DeviceRegister
  <2>3. CASE UNCHANGED script
    BY <2>0, <2>1, <2>2, <2>3, ClientKeeps
  <2>4. CASE script' = [script EXCEPT ![d][run[d]] = "add"]
    <3>1. run[d] \in Runs
      BY <1>0, <2>0
    <3>2. /\ script' \in [Devices -> [Runs -> ScriptSteps]]
          /\ script'[d][run[d]] = "add"
          /\ \A e \in Devices, m \in Runs :
                 e # d \/ m # run[d] => script'[e][m] = script[e][m]
      BY <2>4, <3>1, ScriptEntry DEF IInv, ScriptSteps, Moves
    <3> HIDE DEF Goto, SetUp, Working
    <3>3. TypeOK'
      BY <2>0, <2>1, <3>2 DEF IInv, TypeOK
    <3>4. Attested' /\ RegisteredInBoth'
      BY <2>0, <3>2 DEF IInv, Attested, RegisteredInBoth
    <3>5. \A e \in Devices \ {d} : Earned(e)' /\ Quiet(e)'
      BY <2>0, <2>1 DEF IInv
    <3> QED  BY <2>2, <3>3, <3>4, <3>5 DEF IInv
  <2> QED  BY <1>4, <2>3, <2>4 DEF DeviceRegister
<1>5. CASE RegisterReply(d)
  <2>1. d \in am
    BY <1>0, <1>5 DEF RegisterReply, IInv, Attested
  <2> QED  BY <1>0, <1>5, <2>1, ClientKeeps DEF RegisterReply
<1>6. CASE DeviceConfiguration(d)
  <2>1. d \in am /\ d \in config
    BY <1>0, <1>6 DEF DeviceConfiguration, IInv, RegisteredInBoth
  <2>2. conf'[d] /\ conf' \in [Devices -> BOOLEAN]
    BY <1>0, <1>6, <2>1 DEF DeviceConfiguration
  <2> QED  BY <1>0, <1>6, <2>1, <2>2, ClientKeeps DEF DeviceConfiguration
<1>7. CASE Open(d)
  BY <1>0, <1>7, ClientKeeps DEF Open
<1>8. CASE Execute(d)
  BY <1>0, <1>8, ClientKeeps DEF Execute
<1>9. ASSUME NEW ok \in BOOLEAN, Input(d, ok) PROVE IInv'
  BY <1>0, <1>9, ClientKeeps DEF Input
<1>10. CASE ShutdownNow(d)
  BY <1>0, <1>10, ClientKeeps DEF ShutdownNow
<1>11. CASE CloseNow(d)
  BY <1>0, <1>11, ClientKeeps DEF CloseNow
<1>12. CASE SendEvent(d)
  BY <1>0, <1>12, ClientKeeps DEF SendEvent
<1>13. CASE Sleep(d)
  BY <1>0, <1>13, ClientKeeps DEF Sleep
<1> QED
  BY <1>1, <1>2, <1>3, <1>4, <1>5, <1>6, <1>7, <1>8, <1>9, <1>10, <1>11,
     <1>12, <1>13, Zenon DEF Main, Publisher

LEMMA NextIInv == IInv /\ [Next]_vars => IInv'
<1> SUFFICES ASSUME IInv, [Next]_vars PROVE IInv'
  OBVIOUS
<1>1. CASE UNCHANGED vars
  BY <1>1 DEF vars, platform, publisher, IInv, TypeOK, Attested,
              RegisteredInBoth, Earned, Quiet
<1> QED  BY <1>1, ScriptIInv, ClientIInv DEF Next, Finished

LEMMA Invariance == Spec => []IInv
  BY InitIInv, NextIInv, PTL DEF Spec

----------------------------------------------------------------------------
(* Every variable keeps its type. *)
THEOREM TypeCorrect == Spec => []TypeOK
<1>1. IInv => TypeOK
  BY DEF IInv
<1> QED  BY <1>1, Invariance, PTL

(* A client that gets past its registration finds its connection string    *)
(* and is known to the hub, whatever became of earlier attestations of the *)
(* device (AzureClientExample.java:99-117,                                 *)
(* CustomDeviceAttestation.groovy:36-50).                                  *)
THEOREM ConnectionFound == Spec => []ClientFindsConnection
<1>1. IInv => ClientFindsConnection
  BY DEF IInv, RegisteredInBoth, Earned, ClientFindsConnection
<1> QED  BY <1>1, Invariance, PTL

(* The publisher sends at most one message after shutdownNow               *)
(* (AzureClientExample.java:72-86, 125).                                   *)
THEOREM AtMostOneLate == Spec => []OneLateMessage
<1>1. IInv => OneLateMessage
  <2> SUFFICES ASSUME IInv, NEW d \in Devices PROVE late[d] <= 1
    BY DEF OneLateMessage
  <2> QED  BY DEF IInv, Quiet
<1> QED  BY <1>1, Invariance, PTL

----------------------------------------------------------------------------
(* The refinement: a step of the attestation adds to the hub, to the       *)
(* connection strings or to AM; a step of main lets a registered device    *)
(* begin to work, or ends its work; nothing else is seen.                  *)

Active == {d \in Devices : cpc[d] \in Working}

LEMMA ScriptRefines ==
    ASSUME IInv, NEW d \in Devices, NEW n \in Runs, Script(d, n)
    PROVE  [Provisioning!Next]_(Provisioning!vars)
<1>0. UNCHANGED Active
  BY DEF Script, AddDevice, SetUserConfiguration, SaveIdentity, ScriptOnly,
         Active
<1>1. CASE UNCHANGED <<hub, config, am>>
  BY <1>0, <1>1 DEF Provisioning!vars, Active
<1>2. CASE hub' = hub \cup {d} /\ UNCHANGED <<config, am>>
  <2>1. Provisioning!AddToCloud(d)
    BY <1>0, <1>2 DEF Provisioning!AddToCloud, Active
  <2> QED  BY <2>1 DEF Provisioning!Next
<1>3. CASE config' = config \cup {d} /\ UNCHANGED <<hub, am>>
  <2>1. Provisioning!Provide({d})
    BY <1>0, <1>3 DEF Provisioning!Provide, Active
  <2> QED  BY <2>1 DEF Provisioning!Next
<1>4. CASE /\ script[d][n] = "save"
           /\ am' = am \cup {d} /\ UNCHANGED <<hub, config>>
  <2>1. d \in hub \cap config
    BY <1>4 DEF IInv, Attested
  <2>2. Provisioning!Register(d)
    BY <1>0, <1>4, <2>1 DEF Provisioning!Register, Active
  <2> QED  BY <2>2 DEF Provisioning!Next
<1>5. CASE AddDevice(d, n)
  BY <1>1, <1>2, <1>5 DEF AddDevice
<1>6. ASSUME NEW ok \in BOOLEAN,
             SetUserConfiguration(d, n, ok) \/ SaveIdentity(d, n, ok)
      PROVE  [Provisioning!Next]_(Provisioning!vars)
  BY <1>1, <1>3, <1>4, <1>6 DEF SetUserConfiguration, SaveIdentity, Continue
<1> QED  BY <1>5, <1>6 DEF Script

LEMMA ClientRefines ==
    ASSUME IInv, IInv', NEW d \in Devices,
           \/ Start(d) \/ Main(d) \/ Publisher(d)
           \/ \E ok \in BOOLEAN : Input(d, ok)
    PROVE  [Provisioning!Next]_(Provisioning!vars)
<1>1. /\ UNCHANGED <<hub, config, am>>
      /\ cpc' = cpc \/ \E to : cpc' = [cpc EXCEPT ![d] = to]
  BY Zenon
  DEF Start, Main, Publisher, Input, Initialise, SetUpFails, DeviceRegister,
      RegisterReply, DeviceConfiguration, Open, Execute, ShutdownNow,
      CloseNow, SendEvent, Sleep, Goto, platform
<1>2. Active' \in {Active, Active \cup {d}, Active \ {d}}
  BY <1>1 DEF Active, IInv, TypeOK
<1>3. CASE Active' = Active
  BY <1>1, <1>3 DEF Provisioning!vars, Active
<1>4. CASE Active' = Active \ {d}
  <2>1. Provisioning!End(d)
    BY <1>1, <1>4 DEF Provisioning!End, Active
  <2> QED  BY <2>1 DEF Provisioning!Next
<1>5. CASE Active' = Active \cup {d}
  <2>1. d \in Active'
    BY <1>5
  <2>2. d \in am
    BY <1>1, <2>1 DEF IInv, Earned, Active
  <2>3. Provisioning!Work(d)
    BY <1>1, <1>5, <2>2 DEF Provisioning!Work, Active
  <2> QED  BY <2>3 DEF Provisioning!Next
<1> QED  BY <1>2, <1>3, <1>4, <1>5

(* Attestation script and client implement the promise of provisioning     *)
(* (CustomDeviceAttestation.groovy, AzureClientExample.java).              *)
THEOREM Refinement == Spec => ImplementsProvisioning
<1>1. Init => Provisioning!Init
  BY DEF Init, Provisioning!Init, Working
<1>2. ASSUME IInv, IInv', [Next]_vars
      PROVE  [Provisioning!Next]_(Provisioning!vars)
  <2>1. CASE UNCHANGED vars
    BY <2>1 DEF vars, platform, Provisioning!vars
  <2> QED  BY <1>2, <2>1, ScriptRefines, ClientRefines DEF Next, Finished
<1> QED
  BY <1>1, <1>2, Invariance, PTL
  DEF Spec, Provisioning!Spec, ImplementsProvisioning
============================================================================

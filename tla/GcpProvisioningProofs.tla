----------------------- MODULE GcpProvisioningProofs -----------------------
(***************************************************************************)
(* What GcpProvisioning promises of a registered device, for any number of *)
(* devices and of runs of their clients.  The invariant adds how far an    *)
(* attestation has got to what that has left in the two platforms.         *)
(***************************************************************************)
EXTENDS GcpProvisioning, TLAPS

(* What an attestation has done before it reaches a step. *)
Attested ==
    \A d \in Devices, n \in Runs :
        /\ script[d][n] \in {"store", "save", "done"} => d \in registry
        /\ script[d][n] \in {"save", "done"} => iecConfig
        /\ script[d][n] = "done" => d \in am

Numbered == \A d \in Devices : cpc[d] # "off" => run[d] \in Runs

IInv == TypeOK /\ Attested /\ Numbered /\ RegisteredInBoth /\ ClientFindsDevice

LEMMA InitIInv == Init => IInv
<1> SUFFICES ASSUME Init PROVE IInv
  OBVIOUS
<1>1. TypeOK
  <2>1. run \in [Devices -> 0..MaxRuns]
    BY MaxRunsAssumption DEF Init
  <2>2. script \in [Devices -> [Runs -> ScriptSteps]]
    BY DEF Init, ScriptSteps
  <2> QED  BY <2>1, <2>2 DEF Init, TypeOK
<1>2. Attested /\ Numbered /\ RegisteredInBoth /\ ClientFindsDevice
  BY DEF Init, Attested, Numbered, RegisteredInBoth, ClientFindsDevice, SetUp,
         Working
<1> QED  BY <1>1, <1>2 DEF IInv

(* A step of an attestation changes one entry of script. *)
LEMMA ContinueScript ==
    ASSUME TypeOK, NEW d \in Devices, NEW n \in Runs, NEW from,
           NEW to \in ScriptSteps, Continue(d, n, from, to)
    PROVE  /\ script' \in [Devices -> [Runs -> ScriptSteps]]
           /\ script[d][n] = from /\ script'[d][n] = to
           /\ \A e \in Devices, m \in Runs :
                  e # d \/ m # n => script'[e][m] = script[e][m]
<1>1. script' = [script EXCEPT ![d] = [script[d] EXCEPT ![n] = to]]
  BY DEF Continue
<1> DEFINE f == [script[d] EXCEPT ![n] = to]
<1>2. /\ f \in [Runs -> ScriptSteps] /\ f[n] = to
      /\ \A m \in Runs : m # n => f[m] = script[d][m]
  BY DEF TypeOK
<1> HIDE DEF f
<1> QED  BY <1>1, <1>2 DEF TypeOK, Continue, f

(* An attestation that keeps the registry and AM growing, and enters only  *)
(* steps that it has earned, keeps the invariant.                          *)
LEMMA ScriptKeeps ==
    ASSUME IInv, NEW d \in Devices, NEW n \in Runs, NEW from,
           NEW to \in ScriptSteps, Continue(d, n, from, to), ScriptOnly,
           registry \subseteq registry', registry' \subseteq Devices,
           am \subseteq am', am' \subseteq Devices,
           iecConfig' \in BOOLEAN, iecConfig => iecConfig',
           to \in {"store", "save", "done"} => d \in registry',
           to \in {"save", "done"} => iecConfig',
           to = "done" => d \in am',
           \A e \in am' \ am : e \in registry' /\ iecConfig'
    PROVE  IInv'
<1>1. /\ script' \in [Devices -> [Runs -> ScriptSteps]]
      /\ script'[d][n] = to
      /\ \A e \in Devices, m \in Runs :
             e # d \/ m # n => script'[e][m] = script[e][m]
  BY ContinueScript DEF IInv
<1>2. TypeOK'
  <2>1. UNCHANGED <<run, cpc, conf, jwt, link, pub>>
    BY DEF ScriptOnly
  <2> QED  BY <1>1, <2>1 DEF IInv, TypeOK
<1>3. Attested'
  <2> SUFFICES ASSUME NEW e \in Devices, NEW m \in Runs
               PROVE  /\ script'[e][m] \in {"store", "save", "done"}
                             => e \in registry'
                      /\ script'[e][m] \in {"save", "done"} => iecConfig'
                      /\ script'[e][m] = "done" => e \in am'
    BY DEF Attested
  <2> QED  BY <1>1 DEF IInv, Attested
<1>4. RegisteredInBoth'
  BY DEF IInv, RegisteredInBoth
<1>5. Numbered' /\ ClientFindsDevice'
  BY DEF IInv, Numbered, ClientFindsDevice, ScriptOnly
<1> QED  BY <1>2, <1>3, <1>4, <1>5 DEF IInv

LEMMA ScriptIInv ==
    ASSUME IInv, NEW d \in Devices, NEW n \in Runs, Script(d, n)
    PROVE  IInv'
<1> USE DEF ScriptSteps
<1>0. /\ registry \subseteq Devices /\ am \subseteq Devices
      /\ iecConfig \in BOOLEAN
      /\ script[d][n] \in {"store", "save"} => d \in registry
      /\ script[d][n] = "save" => iecConfig
  BY DEF IInv, TypeOK, Attested
<1>1. ASSUME NEW hasKey \in BOOLEAN, CheckData(d, n, hasKey) PROVE IInv'
  <2> DEFINE to == IF hasKey THEN "create" ELSE "failed"
  <2>1. Continue(d, n, "check", to) /\ ScriptOnly
        /\ UNCHANGED <<registry, am, iecConfig>>
    BY <1>1 DEF CheckData
  <2>2. to \in ScriptSteps /\ to \notin {"store", "save", "done"}
    OBVIOUS
  <2> HIDE DEF to
  <2> QED  BY <1>0, <2>1, <2>2, ScriptKeeps
<1>2. CASE createDevice(d, n)
  <2>1. /\ ScriptOnly /\ registry' = registry \cup {d}
        /\ UNCHANGED <<am, iecConfig>>
    BY <1>2 DEF createDevice
  <2>2. PICK to \in {"failed", "store", "create"} :
            Continue(d, n, "create", to)
    <3> HIDE DEF ScriptSteps
    <3> QED  BY <1>2 DEF createDevice
  <2> QED  BY <1>0, <2>1, <2>2, ScriptKeeps
<1>3. CASE CreateFails(d, n)
  <2>1. /\ ScriptOnly /\ UNCHANGED <<registry, am, iecConfig>>
        /\ Continue(d, n, "create", "failed")
    BY <1>3 DEF CreateFails
  <2> QED  BY <1>0, <2>1, ScriptKeeps
<1>4. ASSUME NEW iecPresent \in BOOLEAN, SetConfiguration(d, n, iecPresent)
      PROVE  IInv'
  <2> DEFINE to == IF iecPresent THEN "save" ELSE "failed"
  <2>1. Continue(d, n, "store", to) /\ ScriptOnly
        /\ iecConfig' = (iecPresent \/ iecConfig)
        /\ UNCHANGED <<registry, am>>
    BY <1>4 DEF SetConfiguration
  <2>2. to \in {"save", "failed"} /\ (to = "save" => iecPresent)
    OBVIOUS
  <2>3. script[d][n] = "store"
    BY <2>1 DEF Continue
  <2>4. iecConfig' \in BOOLEAN /\ (iecConfig => iecConfig')
        /\ (to = "save" => iecConfig')
    BY <1>0, <2>1, <2>2
  <2> HIDE DEF to
  <2> QED  BY <1>0, <2>1, <2>2, <2>3, <2>4, ScriptKeeps
<1>5. ASSUME NEW ok \in BOOLEAN, SaveIdentity(d, n, ok) PROVE IInv'
  <2> DEFINE to == IF ok THEN "done" ELSE "failed"
  <2>1. Continue(d, n, "save", to) /\ ScriptOnly
        /\ am' = (IF ok THEN am \cup {d} ELSE am)
        /\ UNCHANGED <<registry, iecConfig>>
    BY <1>5 DEF SaveIdentity
  <2>2. to \in {"done", "failed"} /\ (to = "done" => ok)
    OBVIOUS
  <2>3. script[d][n] = "save"
    BY <2>1 DEF Continue
  <2>4. /\ am \subseteq am' /\ am' \subseteq am \cup {d}
        /\ to = "done" => d \in am'
    BY <2>1, <2>2
  <2> HIDE DEF to
  <2> QED  BY <1>0, <2>1, <2>2, <2>3, <2>4, ScriptKeeps
<1> QED
  BY <1>1, <1>2, <1>3, <1>4, <1>5, Zenon DEF Script

----------------------------------------------------------------------------
(* A step of a client: the platforms are as they were, and what the client *)
(* goes on to it has earned.                                               *)
LEMMA ClientKeeps ==
    ASSUME IInv, NEW d \in Devices, UNCHANGED platform,
           run' \in [Devices -> 0..MaxRuns],
           cpc' \in [Devices -> {"off"} \cup SetUp \cup Working],
           conf' \in [Devices -> BOOLEAN],
           jwt' \in [Devices -> {"none", "valid", "expired"}],
           link' \in [Devices -> {"none", "up", "lost"}],
           pub' \in [Devices -> {"none", "running", "cancelled"}],
           \A e \in Devices \ {d} : /\ cpc'[e] = cpc[e] /\ run'[e] = run[e]
                                    /\ conf'[e] = conf[e],
           cpc'[d] # "off" => run'[d] \in Runs,
           cpc'[d] \in {"config", "jwt", "connect"} \cup Working =>
               d \in am /\ d \in registry,
           cpc'[d] \in {"jwt", "connect"} \cup Working => conf'[d]
    PROVE  IInv'
<1>1. UNCHANGED <<script, registry, am, iecConfig>>
  BY DEF platform
<1>2. TypeOK'
  BY <1>1 DEF IInv, TypeOK
<1>3. Attested' /\ RegisteredInBoth'
  BY <1>1 DEF IInv, Attested, RegisteredInBoth
<1>4. Numbered' /\ ClientFindsDevice'
  BY <1>1 DEF IInv, Numbered, ClientFindsDevice
<1> QED  BY <1>2, <1>3, <1>4 DEF IInv

LEMMA ExitsKeeps ==
    ASSUME IInv, NEW d \in Devices, Exits(d), UNCHANGED <<platform, run>>
    PROVE  IInv'
<1>1. /\ run' \in [Devices -> 0..MaxRuns]
      /\ cpc' \in [Devices -> {"off"} \cup SetUp \cup Working]
      /\ conf' \in [Devices -> BOOLEAN]
      /\ jwt' \in [Devices -> {"none", "valid", "expired"}]
      /\ link' \in [Devices -> {"none", "up", "lost"}]
      /\ pub' \in [Devices -> {"none", "running", "cancelled"}]
  BY DEF Exits, IInv, TypeOK
<1>2. cpc'[d] = "off" /\ \A e \in Devices \ {d} : /\ cpc'[e] = cpc[e]
                                                 /\ run'[e] = run[e]
                                                 /\ conf'[e] = conf[e]
  BY DEF Exits, IInv, TypeOK
<1>3. cpc'[d] \notin {"config", "jwt", "connect"} \cup Working
  BY <1>2 DEF Working
<1> QED  BY <1>1, <1>2, <1>3, ClientKeeps

(* main goes on from one place to the next. *)
LEMMA GotoKeeps ==
    ASSUME IInv, NEW d \in Devices, NEW from, NEW to \in SetUp \cup Working,
           UNCHANGED <<platform, run>>, Goto(d, from, to), from # "off",
           conf' \in [Devices -> BOOLEAN],
           jwt' \in [Devices -> {"none", "valid", "expired"}],
           link' \in [Devices -> {"none", "up", "lost"}],
           pub' \in [Devices -> {"none", "running", "cancelled"}],
           \A e \in Devices \ {d} : conf'[e] = conf[e],
           to \in {"config", "jwt", "connect"} \cup Working => d \in am,
           to \in {"jwt", "connect"} \cup Working => conf'[d]
    PROVE  IInv'
<1>1. /\ cpc' \in [Devices -> {"off"} \cup SetUp \cup Working]
      /\ cpc'[d] = to
      /\ \A e \in Devices \ {d} : cpc'[e] = cpc[e]
  <2> HIDE DEF SetUp, Working
  <2> QED  BY DEF Goto, IInv, TypeOK
<1>2. run' = run /\ run \in [Devices -> 0..MaxRuns] /\ run[d] \in Runs
  BY DEF Goto, IInv, TypeOK, Numbered
<1>3. d \in am => d \in registry
  BY DEF IInv, RegisteredInBoth
<1> QED  BY <1>1, <1>2, <1>3, ClientKeeps

(* The JWT, the connection and the goroutine are not in the invariant. *)
LEMMA StaysKeeps ==
    ASSUME IInv, NEW d \in Devices, UNCHANGED <<platform, run, cpc, conf>>,
           jwt' \in [Devices -> {"none", "valid", "expired"}],
           link' \in [Devices -> {"none", "up", "lost"}],
           pub' \in [Devices -> {"none", "running", "cancelled"}]
    PROVE  IInv'
<1>1. UNCHANGED <<script, registry, am, iecConfig>>
  BY DEF platform
<1>2. TypeOK'
  BY <1>1 DEF IInv, TypeOK
<1> QED
  BY <1>1, <1>2 DEF IInv, Attested, Numbered, RegisteredInBoth, ClientFindsDevice

LEMMA NextIInv == IInv /\ [Next]_vars => IInv'
<1> SUFFICES ASSUME IInv, [Next]_vars PROVE IInv'
  OBVIOUS
<1>1. CASE UNCHANGED vars
  BY <1>1 DEF vars, platform, IInv, TypeOK, Attested, Numbered,
              RegisteredInBoth, ClientFindsDevice
<1>2. ASSUME NEW d \in Devices, NEW n \in Runs, Script(d, n) PROVE IInv'
  BY <1>2, ScriptIInv
<1>3. SUFFICES ASSUME NEW d \in Devices,
                      \/ Start(d) \/ Client(d) \/ Input(d) \/ RegisterTimeout(d)
                      \/ JWTExpires(d) \/ LinkLost(d) \/ Reconnect(d)
               PROVE  IInv'
  BY <1>1, <1>2 DEF Next, Finished
<1>0. /\ run \in [Devices -> 0..MaxRuns]
      /\ cpc \in [Devices -> {"off"} \cup SetUp \cup Working]
      /\ conf \in [Devices -> BOOLEAN] /\ iecConfig \in BOOLEAN
      /\ jwt \in [Devices -> {"none", "valid", "expired"}]
      /\ link \in [Devices -> {"none", "up", "lost"}]
      /\ pub \in [Devices -> {"none", "running", "cancelled"}]
  BY DEF IInv, TypeOK
<1>a. /\ cpc[d] \in {"config", "jwt", "connect"} \cup Working => d \in am
      /\ cpc[d] \in {"jwt", "connect"} \cup Working => conf[d]
      /\ d \in am => iecConfig
  BY DEF IInv, ClientFindsDevice, RegisteredInBoth
<1>b. /\ \A s \in {"initialise", "register", "registering", "config", "jwt",
                    "connect"} : s \in SetUp /\ s \notin Working
      /\ \A s \in {"state", "spawn", "commands", "configs", "input",
                    "disconnect"} : s \in Working
      /\ "off" \notin Working
  BY DEF SetUp, Working
<1>4. CASE Start(d)
  <2>1. UNCHANGED <<platform, conf, jwt, link, pub>> /\ Goto(d, "off", "initialise")
    BY <1>4 DEF Start
  <2>2. run[d] \in 0..MaxRuns /\ run[d] < MaxRuns /\ MaxRuns \in Nat
    BY <1>0, <1>4, MaxRunsAssumption DEF Start
  <2>3. run[d] + 1 \in Runs /\ run[d] + 1 \in 0..MaxRuns
    BY <2>2 DEF Runs
  <2>4. run' = [run EXCEPT ![d] = run[d] + 1]
    BY <1>4 DEF Start
  <2>5. /\ run' \in [Devices -> 0..MaxRuns] /\ run'[d] \in Runs
        /\ \A e \in Devices \ {d} : run'[e] = run[e]
    BY <1>0, <2>3, <2>4
  <2>6. /\ cpc' \in [Devices -> {"off"} \cup SetUp \cup Working]
        /\ cpc'[d] = "initialise"
        /\ \A e \in Devices \ {d} : cpc'[e] = cpc[e]
    BY <1>0, <1>b, <2>1 DEF Goto
  <2>7. cpc'[d] \notin {"config", "jwt", "connect"} \cup Working
    BY <1>b, <2>6
  <2> QED  BY <1>0, <2>1, <2>5, <2>6, <2>7, ClientKeeps
<1>5. CASE Input(d)
  <2>1. /\ Goto(d, "input", "disconnect") /\ cpc[d] = "input"
        /\ UNCHANGED <<platform, run, conf, jwt, link>>
        /\ pub' \in [Devices -> {"none", "running", "cancelled"}]
    BY <1>0, <1>5 DEF Input, Goto
  <2> QED  BY <1>0, <1>a, <1>b, <2>1, GotoKeeps
<1>6. CASE RegisterTimeout(d) \/ SetUpFails(d) \/ Disconnect(d)
  BY <1>6, ExitsKeeps DEF RegisterTimeout, SetUpFails, Disconnect
<1>7. CASE JWTExpires(d) \/ LinkLost(d) \/ Reconnect(d) \/ TelemetryStops(d)
  <2>1. /\ UNCHANGED <<platform, run, cpc, conf>>
        /\ jwt' \in [Devices -> {"none", "valid", "expired"}]
        /\ link' \in [Devices -> {"none", "up", "lost"}]
        /\ pub' \in [Devices -> {"none", "running", "cancelled"}]
    BY <1>0, <1>7 DEF JWTExpires, LinkLost, Reconnect, TelemetryStops
  <2> QED  BY <2>1, StaysKeeps
<1>8. CASE Initialise(d)
  <2>1. /\ Goto(d, "initialise", "register")
        /\ UNCHANGED <<platform, run, conf, jwt, link, pub>>
    BY <1>8 DEF Initialise
  <2> QED  BY <1>0, <1>b, <2>1, GotoKeeps
<1>9. CASE DeviceRegister(d)
  <2>0. UNCHANGED <<registry, am, iecConfig, run, conf, jwt, link, pub>>
    BY <1>9 DEF DeviceRegister
  <2>1. CASE d \in am /\ Goto(d, "register", "config") /\ UNCHANGED script
    <3>1. UNCHANGED platform
      BY <2>0, <2>1 DEF platform
    <3> QED  BY <1>0, <1>b, <2>0, <2>1, <3>1, GotoKeeps
  <2>2. CASE /\ Goto(d, "register", "registering")
             /\ script' = [script EXCEPT ![d][run[d]] = "check"]
    <3>1. run[d] \in Runs
      BY <2>2 DEF IInv, Numbered, Goto
    <3>2. Continue(d, run[d], script[d][run[d]], "check")
      BY <2>2 DEF Continue
    <3>3. /\ script' \in [Devices -> [Runs -> ScriptSteps]]
          /\ script'[d][run[d]] = "check"
          /\ \A e \in Devices, m \in Runs :
                 e # d \/ m # run[d] => script'[e][m] = script[e][m]
      BY <3>1, <3>2, ContinueScript DEF IInv, ScriptSteps
    <3>4. /\ cpc' \in [Devices -> {"off"} \cup SetUp \cup Working]
          /\ cpc'[d] = "registering"
          /\ \A e \in Devices \ {d} : cpc'[e] = cpc[e]
      BY <1>0, <1>b, <2>2 DEF Goto
    <3>5. TypeOK'
      BY <2>0, <3>3, <3>4 DEF IInv, TypeOK
    <3>6. Attested'
      <4> SUFFICES ASSUME NEW e \in Devices, NEW m \in Runs
                   PROVE  /\ script'[e][m] \in {"store", "save", "done"}
                                 => e \in registry'
                          /\ script'[e][m] \in {"save", "done"} => iecConfig'
                          /\ script'[e][m] = "done" => e \in am'
        BY DEF Attested
      <4> QED  BY <2>0, <3>3 DEF IInv, Attested
    <3>7. cpc'[d] \notin {"config", "jwt", "connect"} \cup Working
      BY <1>b, <3>4
    <3>8. RegisteredInBoth' /\ Numbered' /\ ClientFindsDevice'
      BY <2>0, <3>1, <3>4, <3>7 DEF IInv, RegisteredInBoth, Numbered,
                                    ClientFindsDevice
    <3> QED  BY <3>5, <3>6, <3>8 DEF IInv
  <2> QED  BY <1>9, <2>1, <2>2 DEF DeviceRegister
<1>10. CASE RegisterReply(d)
  <2>0. UNCHANGED <<platform, run>> /\ cpc[d] = "registering"
    BY <1>10 DEF RegisterReply
  <2>1. CASE Exits(d)
    BY <2>0, <2>1, ExitsKeeps
  <2>2. CASE /\ script[d][run[d]] = "done" /\ Goto(d, "registering", "config")
             /\ UNCHANGED <<conf, jwt, link, pub>>
    <3>1. d \in am
      BY <2>0, <2>2 DEF IInv, Attested, Numbered
    <3> QED  BY <1>0, <1>b, <2>0, <2>2, <3>1, GotoKeeps
  <2> QED  BY <1>10, <2>1, <2>2 DEF RegisterReply
<1>11. CASE DeviceConfiguration(d)
  <2>1. /\ Goto(d, "config", "jwt") /\ cpc[d] = "config"
        /\ UNCHANGED <<platform, run, jwt, link, pub>>
        /\ conf' \in [Devices -> BOOLEAN] /\ conf'[d] = iecConfig
        /\ \A e \in Devices \ {d} : conf'[e] = conf[e]
    BY <1>0, <1>11 DEF DeviceConfiguration, Goto
  <2> QED  BY <1>0, <1>a, <1>b, <2>1, GotoKeeps
<1>12. CASE createJWT(d)
  <2>1. /\ Goto(d, "jwt", "connect") /\ cpc[d] = "jwt"
        /\ UNCHANGED <<platform, run, conf, link, pub>>
        /\ jwt' \in [Devices -> {"none", "valid", "expired"}]
    BY <1>0, <1>12 DEF createJWT, Goto
  <2> QED  BY <1>0, <1>a, <1>b, <2>1, GotoKeeps
<1>13. ASSUME NEW ok \in BOOLEAN, connectToIOTCore(d, ok) PROVE IInv'
  <2>1. /\ Goto(d, "connect", "state") /\ cpc[d] = "connect"
        /\ UNCHANGED <<platform, run, conf, jwt, pub>>
        /\ link' \in [Devices -> {"none", "up", "lost"}]
    BY <1>0, <1>13 DEF connectToIOTCore, Goto
  <2> QED  BY <1>0, <1>a, <1>b, <2>1, GotoKeeps
<1>14. ASSUME NEW from \in Working, NEW to \in Working, Request(d, from, to)
       PROVE  IInv'
  <2>0. UNCHANGED <<platform, run>> /\ cpc[d] = from
    BY <1>14 DEF Request
  <2>1. CASE Exits(d)
    BY <2>0, <2>1, ExitsKeeps
  <2>2. CASE Goto(d, from, to) /\ UNCHANGED <<conf, jwt, link, pub>>
    BY <1>0, <1>a, <1>b, <2>0, <2>2, GotoKeeps
  <2> QED  BY <1>14, <2>1, <2>2 DEF Request
<1>15. CASE PublishState(d) \/ SubscribeCommands(d) \/ SubscribeConfig(d)
  BY <1>b, <1>14, <1>15 DEF PublishState, SubscribeCommands, SubscribeConfig
<1>16. CASE SpawnTelemetry(d)
  <2>1. /\ Goto(d, "spawn", "commands") /\ cpc[d] = "spawn"
        /\ UNCHANGED <<platform, run, conf, jwt, link>>
        /\ pub' \in [Devices -> {"none", "running", "cancelled"}]
    BY <1>0, <1>16 DEF SpawnTelemetry, Goto
  <2> QED  BY <1>0, <1>a, <1>b, <2>1, GotoKeeps
<1> QED
  BY <1>3, <1>4, <1>5, <1>6, <1>7, <1>8, <1>9, <1>10, <1>11, <1>12, <1>13,
     <1>15, <1>16 DEF Client

THEOREM Inductive == Spec => []IInv
<1> QED  BY InitIInv, NextIInv, PTL DEF Spec

----------------------------------------------------------------------------
(* Every variable keeps its type. *)
THEOREM TypeCorrect == Spec => []TypeOK
<1>1. IInv => TypeOK
  BY DEF IInv
<1> QED  BY <1>1, Inductive, PTL

(* A registered device is in both platforms and has its configuration      *)
(* (CustomDeviceAttestationGCPDevice.groovy:124-142).                      *)
THEOREM Provisioned == Spec => []RegisteredInBoth
<1>1. IInv => RegisteredInBoth
  BY DEF IInv
<1> QED  BY <1>1, Inductive, PTL

(* A client that gets past its registration finds its device provisioned   *)
(* (gcp-device-mqtt/main.go:268-292).                                      *)
THEOREM ClientProvisioned == Spec => []ClientFindsDevice
<1>1. IInv => ClientFindsDevice
  BY DEF IInv
<1> QED  BY <1>1, Inductive, PTL

----------------------------------------------------------------------------
(* Of all attestations of a device at most one gets past its creation      *)
(* (CustomDeviceAttestationGCPDevice.groovy:60-93, 127).  What makes it so *)
(* is that the registry refuses a device that it has: an attestation that  *)
(* is past the creation has left the device there.                         *)
Passed == {"store", "save", "done"}

(* An attestation that is past the creation was so before, or is the first *)
(* one of its device.                                                      *)
LEMMA PassesOnce ==
    ASSUME IInv, OneAttestationPasses, NEW d \in Devices, NEW n \in Runs,
           NEW from, NEW to \in ScriptSteps, Continue(d, n, from, to),
           to \in Passed => from \in Passed \/ d \notin registry
    PROVE  OneAttestationPasses'
<1>1. /\ script[d][n] = from /\ script'[d][n] = to
      /\ \A e \in Devices, m \in Runs :
             e # d \/ m # n => script'[e][m] = script[e][m]
  BY ContinueScript DEF IInv
<1>2. to \in Passed => \A m \in Runs \ {n} : script[d][m] \notin Passed
  BY <1>1 DEF IInv, Attested, OneAttestationPasses, Passed
<1> SUFFICES ASSUME NEW e \in Devices, NEW l \in Runs, NEW m \in Runs,
                    script'[e][l] \in Passed, script'[e][m] \in Passed
             PROVE  l = m
  BY DEF OneAttestationPasses, Passed
<1>3. CASE e # d \/ (l # n /\ m # n)
  BY <1>1, <1>3 DEF OneAttestationPasses, Passed
<1>4. CASE e = d /\ (l = n \/ m = n)
  BY <1>1, <1>2, <1>4
<1> QED  BY <1>3, <1>4

LEMMA ScriptPasses ==
    ASSUME IInv, OneAttestationPasses, NEW d \in Devices, NEW n \in Runs,
           Script(d, n)
    PROVE  OneAttestationPasses'
<1>1. ASSUME NEW ok \in BOOLEAN,
             CheckData(d, n, ok) \/ SetConfiguration(d, n, ok)
                                \/ SaveIdentity(d, n, ok)
      PROVE  OneAttestationPasses'
  <2>1. PICK from \in {"check", "store", "save"},
             to \in {"create", "save", "done", "failed"} :
            /\ Continue(d, n, from, to)
            /\ from = "check" => to \in {"create", "failed"}
    BY <1>1 DEF CheckData, SetConfiguration, SaveIdentity
  <2> QED  BY <2>1, PassesOnce DEF ScriptSteps, Passed
<1>2. CASE createDevice(d, n) \/ CreateFails(d, n)
  <2>1. PICK to \in {"failed", "store", "create"} :
            /\ Continue(d, n, "create", to)
            /\ to = "store" => d \notin registry
    BY <1>2 DEF createDevice, CreateFails
  <2> QED  BY <2>1, PassesOnce DEF ScriptSteps, Passed
<1> QED  BY <1>1, <1>2 DEF Script

(* An attestation begins before its creation. *)
LEMMA ClientPasses ==
    ASSUME IInv, OneAttestationPasses, NEW d \in Devices,
           \/ Start(d) \/ Client(d) \/ Input(d) \/ RegisterTimeout(d)
           \/ JWTExpires(d) \/ LinkLost(d) \/ Reconnect(d)
    PROVE  OneAttestationPasses'
<1>1. CASE UNCHANGED script
  BY <1>1 DEF OneAttestationPasses
<1>2. CASE DeviceRegister(d) /\ script' # script
  <2>1. run[d] \in Runs
    BY <1>2 DEF DeviceRegister, Goto, IInv, Numbered
  <2>2. Continue(d, run[d], script[d][run[d]], "check")
    BY <1>2 DEF DeviceRegister, Continue
  <2> QED  BY <2>1, <2>2, PassesOnce DEF ScriptSteps, Passed
<1> QED
  BY <1>1, <1>2, Zenon DEF Start, Client, Input, RegisterTimeout, JWTExpires,
     LinkLost, Reconnect, Initialise, RegisterReply, createJWT,
     DeviceConfiguration, connectToIOTCore, SetUpFails, PublishState,
     SpawnTelemetry, SubscribeCommands, SubscribeConfig, Disconnect,
     TelemetryStops, Request, platform

THEOREM OneAttestation == Spec => []OneAttestationPasses
<1>1. Init => OneAttestationPasses
  BY DEF Init, OneAttestationPasses
<1>2. IInv /\ OneAttestationPasses /\ [Next]_vars => OneAttestationPasses'
  <2> SUFFICES ASSUME IInv, OneAttestationPasses, [Next]_vars
               PROVE  OneAttestationPasses'
    OBVIOUS
  <2>1. CASE UNCHANGED vars
    BY <2>1 DEF vars, platform, OneAttestationPasses
  <2> QED  BY <2>1, ScriptPasses, ClientPasses DEF Next, Finished
<1> QED  BY <1>1, <1>2, Inductive, PTL DEF Spec

----------------------------------------------------------------------------
(* Where main is when the goroutine runs, and from where on it has a       *)
(* client.                                                                 *)
Started == {"commands", "configs", "input", "disconnect"}

TelemetryInv ==
    \A d \in Devices :
        /\ pub[d] # "none" => cpc[d] \in Started
        /\ cpc[d] \in Started \cup {"spawn"} => link[d] # "none"

Types == /\ cpc \in [Devices -> {"off"} \cup SetUp \cup Working]
         /\ link \in [Devices -> {"none", "up", "lost"}]
         /\ pub \in [Devices -> {"none", "running", "cancelled"}]

LEMMA TelemetryStep ==
    ASSUME TelemetryInv, Types, NEW d \in Devices,
           \/ Start(d) \/ Client(d) \/ Input(d) \/ RegisterTimeout(d)
           \/ JWTExpires(d) \/ LinkLost(d) \/ Reconnect(d)
    PROVE  TelemetryInv'
<1> USE DEF TelemetryInv, Types, Started
<1>1. ASSUME Exits(d) PROVE TelemetryInv'
  BY <1>1 DEF Exits
<1>2. ASSUME NEW from, NEW to, Goto(d, from, to), UNCHANGED <<link, pub>>,
             pub[d] = "none" \/ to \in Started,
             to \in Started \cup {"spawn"} => link[d] # "none"
      PROVE  TelemetryInv'
  BY <1>2 DEF Goto
<1>3. CASE Start(d) \/ Initialise(d) \/ DeviceRegister(d) \/ createJWT(d)
           \/ DeviceConfiguration(d)
  <2>1. PICK from \in {"off", "initialise", "register", "config", "jwt"},
             to \in {"initialise", "register", "registering", "config", "jwt",
                     "connect"} :
            Goto(d, from, to) /\ UNCHANGED <<link, pub>>
    BY <1>3, Zenon DEF Start, Initialise, DeviceRegister, createJWT,
                       DeviceConfiguration
  <2>2. pub[d] = "none"
    BY <2>1 DEF Goto
  <2> QED  BY <1>2, <2>1, <2>2
<1>4. CASE RegisterReply(d) \/ RegisterTimeout(d) \/ SetUpFails(d)
           \/ Disconnect(d)
  <2>1. CASE Goto(d, "registering", "config") /\ UNCHANGED <<link, pub>>
    <3>1. pub[d] = "none"
      BY <2>1 DEF Goto
    <3> QED  BY <1>2, <2>1, <3>1
  <2> QED  BY <1>1, <1>4, <2>1 DEF RegisterReply, RegisterTimeout, SetUpFails,
                                   Disconnect
<1>5. ASSUME NEW ok \in BOOLEAN, connectToIOTCore(d, ok) PROVE TelemetryInv'
  BY <1>5 DEF connectToIOTCore, Goto
<1>6. CASE PublishState(d) \/ SubscribeCommands(d) \/ SubscribeConfig(d)
  <2>1. ASSUME NEW from, NEW to \in {"spawn", "configs", "input"},
               Request(d, from, to), to = "spawn" => from = "state"
        PROVE  TelemetryInv'
    <3>1. CASE Exits(d)
      BY <1>1, <3>1
    <3>2. CASE link[d] = "up" /\ Goto(d, from, to) /\ UNCHANGED <<link, pub>>
      <4>1. pub[d] = "none" \/ to \in Started
        BY <2>1, <3>2 DEF Goto
      <4> QED  BY <1>2, <3>2, <4>1
    <3> QED  BY <2>1, <3>1, <3>2 DEF Request
  <2> QED  BY <1>6, <2>1 DEF PublishState, SubscribeCommands, SubscribeConfig
<1>7. CASE SpawnTelemetry(d) \/ Input(d)
  BY <1>7 DEF SpawnTelemetry, Input, Goto
<1>8. CASE TelemetryStops(d) \/ JWTExpires(d) \/ LinkLost(d) \/ Reconnect(d)
  BY <1>8 DEF TelemetryStops, JWTExpires, LinkLost, Reconnect
<1> QED  BY <1>3, <1>4, <1>5, <1>6, <1>7, <1>8 DEF Client

(* The telemetry goroutine never runs without a client                     *)
(* (gcp-device-mqtt/main.go:178, 298-333).                                 *)
THEOREM TelemetryClient == Spec => []TelemetryHasClient
<1>1. Init => TelemetryInv
  BY DEF Init, TelemetryInv, Started
<1>2. IInv /\ TelemetryInv /\ [Next]_vars => TelemetryInv'
  <2> SUFFICES ASSUME IInv, TelemetryInv, [Next]_vars PROVE TelemetryInv'
    OBVIOUS
  <2>1. CASE UNCHANGED <<cpc, link, pub>>
    BY <2>1 DEF TelemetryInv
  <2>2. ASSUME NEW d \in Devices, NEW n \in Runs, Script(d, n)
        PROVE  UNCHANGED <<cpc, link, pub>>
    BY <2>2 DEF Script, CheckData, createDevice, CreateFails, SetConfiguration,
                SaveIdentity, ScriptOnly
  <2>3. Types
    BY DEF IInv, TypeOK, Types
  <2> QED  BY <2>1, <2>2, <2>3, TelemetryStep DEF Next, Finished, vars
<1>3. TelemetryInv => TelemetryHasClient
  BY DEF TelemetryInv, TelemetryHasClient, Started, Working
<1> QED  BY <1>1, <1>2, <1>3, InitIInv, NextIInv, PTL DEF Spec

----------------------------------------------------------------------------
(* The refinement. *)

Active == {d \in Devices : cpc[d] \in Working}

Ready == IF iecConfig THEN Devices ELSE {}

LEMMA ScriptRefines ==
    ASSUME IInv, IInv', NEW d \in Devices, NEW n \in Runs, Script(d, n)
    PROVE  [Provisioning!Next]_Provisioning!vars
<1>0. UNCHANGED Active
  BY DEF Script, CheckData, createDevice, CreateFails, SetConfiguration,
         SaveIdentity, ScriptOnly, Active
<1>1. CASE UNCHANGED <<registry, am, iecConfig>>
  BY <1>0, <1>1 DEF Provisioning!vars, Active
<1>2. CASE registry' = registry \cup {d} /\ UNCHANGED <<am, iecConfig>>
  <2>1. Provisioning!AddToCloud(d)
    BY <1>0, <1>2 DEF Provisioning!AddToCloud, Active
  <2> QED  BY <2>1 DEF Provisioning!Next
<1>3. CASE UNCHANGED <<registry, am>> /\ iecConfig' \in {TRUE, iecConfig}
  <2>1. CASE UNCHANGED iecConfig
    BY <1>1, <1>3, <2>1
  <2>2. CASE iecConfig' = TRUE
    <3>1. Ready' = Ready \cup Devices
      BY <2>2 DEF Ready
    <3>2. Provisioning!Provide(Devices)
      BY <1>0, <1>3, <3>1 DEF Provisioning!Provide, Active, Ready
    <3> QED  BY <3>2 DEF Provisioning!Next
  <2> QED  BY <1>3, <2>1, <2>2
<1>4. ASSUME NEW ok \in BOOLEAN, SaveIdentity(d, n, ok)
      PROVE  [Provisioning!Next]_Provisioning!vars
  <2>1. script[d][n] = "save" /\ UNCHANGED <<registry, iecConfig>>
    BY <1>4 DEF SaveIdentity, Continue
  <2>2. d \in registry /\ iecConfig
    BY <2>1 DEF IInv, Attested
  <2>3. CASE am' = am
    BY <1>1, <2>1, <2>3
  <2>4. CASE am' = am \cup {d}
    <3>1. Provisioning!Register(d)
      BY <1>0, <2>1, <2>2, <2>4 DEF Provisioning!Register, Active
    <3> QED  BY <3>1 DEF Provisioning!Next
  <2> QED  BY <1>4, <2>3, <2>4 DEF SaveIdentity
<1>5. ASSUME NEW hasKey \in BOOLEAN, CheckData(d, n, hasKey)
      PROVE  UNCHANGED <<registry, am, iecConfig>>
  BY <1>5 DEF CheckData
<1>6. CASE createDevice(d, n) \/ CreateFails(d, n)
  BY <1>1, <1>2, <1>6 DEF createDevice, CreateFails
<1>7. ASSUME NEW ok \in BOOLEAN, SetConfiguration(d, n, ok)
      PROVE  [Provisioning!Next]_Provisioning!vars
  <2>1. iecConfig' = (ok \/ iecConfig) /\ UNCHANGED <<registry, am>>
    BY <1>7 DEF SetConfiguration
  <2>2. iecConfig \in BOOLEAN
    BY DEF IInv, TypeOK
  <2>3. iecConfig' \in {TRUE, iecConfig}
    BY <2>1, <2>2
  <2> QED  BY <1>3, <2>1, <2>3
<1> QED  BY <1>1, <1>4, <1>5, <1>6, <1>7 DEF Script

(* main of one client moves: it begins to work, ends or neither. *)
LEMMA ClientRefines ==
    ASSUME IInv, IInv', NEW d \in Devices, UNCHANGED <<registry, am, iecConfig>>,
           \A e \in Devices \ {d} : cpc'[e] = cpc[e]
    PROVE  [Provisioning!Next]_Provisioning!vars
<1>1. Active' \in {Active, Active \cup {d}, Active \ {d}}
  BY DEF Active
<1>2. CASE Active' = Active
  BY <1>2 DEF Provisioning!vars, Active
<1>3. CASE Active' = Active \ {d}
  <2>1. Provisioning!End(d)
    BY <1>3 DEF Provisioning!End, Active
  <2> QED  BY <2>1 DEF Provisioning!Next
<1>4. CASE Active' = Active \cup {d}
  <2>1. d \in Active'
    BY <1>4
  <2>2. d \in am
    BY <2>1 DEF IInv, ClientFindsDevice, Active
  <2>3. Provisioning!Work(d)
    BY <1>4, <2>2 DEF Provisioning!Work, Active
  <2> QED  BY <2>3 DEF Provisioning!Next
<1> QED  BY <1>1, <1>2, <1>3, <1>4

LEMMA StepRefines ==
    IInv /\ IInv' /\ [Next]_vars => [Provisioning!Next]_Provisioning!vars
<1> SUFFICES ASSUME IInv, IInv', [Next]_vars
             PROVE  [Provisioning!Next]_Provisioning!vars
  OBVIOUS
<1>1. CASE UNCHANGED vars
  BY <1>1 DEF vars, platform, Provisioning!vars
<1>2. ASSUME NEW d \in Devices, NEW n \in Runs, Script(d, n)
      PROVE  [Provisioning!Next]_Provisioning!vars
  BY <1>2, ScriptRefines
<1>3. ASSUME NEW d \in Devices,
             \/ Start(d) \/ Client(d) \/ Input(d) \/ RegisterTimeout(d)
             \/ JWTExpires(d) \/ LinkLost(d) \/ Reconnect(d)
      PROVE  [Provisioning!Next]_Provisioning!vars
  <2>1. UNCHANGED <<registry, am, iecConfig>>
    BY <1>3 DEF Start, Client, Input, RegisterTimeout, JWTExpires, LinkLost,
        Reconnect, Initialise, DeviceRegister, RegisterReply, createJWT,
        DeviceConfiguration, connectToIOTCore, SetUpFails, PublishState,
        SpawnTelemetry, SubscribeCommands, SubscribeConfig, Disconnect,
        TelemetryStops, Request, platform
  <2>2. cpc' = cpc \/ \E to : cpc' = [cpc EXCEPT ![d] = to]
    BY <1>3, Zenon DEF Start, Client, Input, RegisterTimeout, JWTExpires, LinkLost,
        Reconnect, Initialise, DeviceRegister, RegisterReply, createJWT,
        DeviceConfiguration, connectToIOTCore, SetUpFails, PublishState,
        SpawnTelemetry, SubscribeCommands, SubscribeConfig, Disconnect,
        TelemetryStops, Request, Goto, Exits
  <2>3. \A e \in Devices \ {d} : cpc'[e] = cpc[e]
    BY <2>2 DEF IInv, TypeOK
  <2> QED  BY <2>1, <2>3, ClientRefines
<1> QED  BY <1>1, <1>2, <1>3 DEF Next, Finished

(* Attestation script and client implement the promise of provisioning     *)
(* (CustomDeviceAttestationGCPDevice.groovy, gcp-device-mqtt/main.go).     *)
THEOREM Refinement == Spec => ImplementsProvisioning
<1>1. Init => Provisioning!Init
  BY DEF Init, Provisioning!Init, Working
<1>2. IInv /\ IInv' /\ [Next]_vars => [Provisioning!Next]_Provisioning!vars
  BY StepRefines
<1> QED  BY <1>1, <1>2, Inductive, PTL DEF Spec, Provisioning!Spec,
                                          ImplementsProvisioning
============================================================================

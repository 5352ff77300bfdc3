# Verification of the Identity Edge Controller documentation project

The repository documents the ForgeRock Identity Edge Controller (IEC). What runs
in it are the example devices, the plug-ins and scripts that integrate the IEC
and Access Management (AM) with MQTT brokers and cloud platforms, and a training
environment. This directory holds TLA+ models of those programs, TLC
configurations that check them, and TLAPS proofs.

    tlc -workers 2 -config X.cfg M     checks module M with X.cfg
    tlapm M.tla                        checks the proofs of module M

`PROJECT.json` lists the runs, which source lines each definition stands for,
the hazards with the properties that cover them, and the theorems.

## 1. The system

| Component | State it keeps | Operations | Talks to |
|---|---|---|---|
| **HiveMQ extension** (`integrations/hivemq/.../iot`) | a token in the attribute store of each connection, default permissions, one asynchronous output and one executor task per request | `extensionStart`, `onConnect`, `authorizeSubscribe`, `authorizePublish`, `OAuth2Authorizer.run` and three `processResponse` | HiveMQ (handlers, executor, 10 s fallback), the Token Validation Microservice (`/introspect`, caches for two minutes), AM |
| **C publisher** (`examples/c`) | `data.connected`, the client, the token, the loop counter | `main`, `mosq_connect_cb`, `mosq_disconnect_cb`, `get_access_token` | the IEC through its SDK; libmosquitto, whose network thread runs the callbacks |
| **Go device** (`examples/go`) | `client` under a mutex, the channel `reconnectIn`, timers, a context | `main`, the credentials provider, the reconnecting goroutine, its timer callback, the publisher goroutine | the IEC, paho, a broker |
| **IoT Core provisioning** (`integrations/gcpiot`) | two registries (IoT Core and AM), the configuration of the IEC; the client's connection data, JWT and connection | the attestation script; the client's registration, configuration, connection, telemetry | AM, the IEC, Google IoT Core, paho |
| **Tomcat control** (`training/am/commands.sh`) | `catalina.out`, the server processes, `count` | `start_tomcat`, `stop_tomcat`, `restart_tomcat`, `quick_install` | Tomcat |
| **RabbitMQ integration** (`integrations/rabbitmq`) | the connection of a subscriber, the request in Identity Gateway | `rabbitmq_mqtt_sub.c`, `userinfo.groovy`, the unrestricted route | RabbitMQ's HTTP backend, AM `/userinfo`, libmosquitto |
| **AWS custom authorizer** (`integrations/awsiot`) | token and JWT of the client, the policy of one invocation | the client's SDK calls and `publishMessage`; `handleRequest`, `introspect`, `policyDocument` | the IEC, AWS IoT, AM `/introspect` |
| **Azure provisioning** (`integrations/azureiot`) | the hub's registry, the connection string in AM; the client, its publisher thread and the interruption | the attestation script, `AzureClientExample.main`, `Publisher.run` | AM, the IEC, Azure IoT Hub and its SDK, the Java executor |
| **IEC service scripts** (`training/iec`, `awsiot/commands.sh`) | the processes of the service, whether it is installed | `install_iec_service`, `start_iec_service`, `stop_iec_service`, `quick_install` | `pgrep`, `pkill`, the shell's background jobs |
| **SDK training examples** (`training/sdk/examples`, seven programs) | the place in `main`, the pointers it gets answers into, `result` | the SDK calls of each `main` with every error path | the IEC through its SDK, AM, the user who authorises a pairing |
| `HelloWorldListener`, images, build scripts, Mosquitto, remote updates | none | logging; configuration of other programs | |

### What is hard in it, and what would make each part correct

* **HiveMQ.** Any number of connections and tasks interleave over one authenticator
  and one authorizer. A token is stored before it is validated; an introspection
  may hang, fail with an exception that nobody catches, or answer after the ten
  seconds or for a connection that is gone; the providers are registered on a
  broker that may already serve clients. Correct: nobody is granted anything but
  the one topic in the scope of a live token of AM that the very connection has
  presented, and every request gets exactly one outcome.
* **C publisher.** `main` spins on a flag written by another thread, while
  libmosquitto reconnects by itself with the password it has. Correct: the flag
  says what the connection is, a refused token is not presented for ever, no
  callback outlives the client, and `main` gets through its messages.
* **Go device.** The credentials provider sends on a channel of capacity one while
  its caller may hold the mutex; each expiry arms a timer whose callback replaces
  the client. Correct: exactly one reconnection is under way, nobody blocks on the
  channel, nobody publishes over a client that is being replaced, and the program
  ends when asked to, also while the IEC is down and a callback asks it again and
  again with the mutex held.
* **IoT Core.** Creating the device, storing its connection data and saving its
  identity are three steps in three systems without an undo; requests are lost and
  retried; a client gives up on a registration that goes on. Correct: a registered
  device is provisioned, by one attestation only, and a client never works with an
  empty configuration.
* **Tomcat control.** The outcome is read from a log that several servers may have
  written, within a wait that may end in the same round as the message comes.
  Correct: it reports on its own server, a failure leaves nothing behind.
* **RabbitMQ.** The answer of AM may belong to a connection that is lost; a
  reconnection needs an answer and a subscription of its own.
* **AWS.** Whatever is not a good answer with a subject and the publish scope must
  be a refusal, and a refusal must not look like a success to the client.
* **The MQTT session of a device.** Device and broker notice a lost connection
  independently, while tasks of old connections still hold the executor and the
  device is back with another token. Correct: the two sides agree on who is
  connected with which token, every request is settled, a token that works is
  served whatever becomes of older requests, and the device gets through.
* **Azure.** As for IoT Core, the device is added to the hub before the steps that
  may fail. `shutdownNow` interrupts a publisher that may be in a send. Correct: a
  working device is in the hub and has its connection string; at most one message
  follows the shutdown, and both threads end.
* **IEC service.** Testing for the service and starting it are two steps, a killed
  process is still listed, and the unquoted `pgrep` is an error of the test when
  there are two. Correct: a start leaves a service, a stop leaves none.
* **SDK examples.** Each call may fail or time out while the service goes down and
  comes back under the program; the pointers are mostly uninitialised. Correct: no
  path uses or frees what the SDK did not give, and status 0 means that all was done.

## 2. Modules

| Module | What it is |
|---|---|
| `HiveMQExtension` | the extension with broker, microservice and AM around it |
| `MqttAuthorization` | what the extension promises: who holds a session and what it reaches |
| `HiveMQExtensionProofs` | inductive invariant, safety, action properties and refinement |
| `MCHiveMQExtension` | model values, scopes and symmetry for TLC |
| `MqttSession` | composes `DeviceMqttPub` and `HiveMQExtension`: the C publisher connected to any broker or to HiveMQ with the extension |
| `DeviceMqttPub` | the C publisher and libmosquitto's thread |
| `MqttSessionProofs` | the publisher by itself and connected to HiveMQ |
| `DeviceMqttGo`, `DeviceMqttGoProofs` | the Go device with its goroutines, timers and mutex |
| `GcpProvisioning`, `GcpProvisioningProofs` | attestation script, client, and the platforms between them |
| `TrainingTomcat`, `TrainingTomcatProofs` | the bash functions and Tomcat |
| `CloudProvisioning` | what just-in-time provisioning promises; both clouds implement it |
| `AzureProvisioning`, `AzureProvisioningProofs` | attestation script, the client's two threads, the hub |
| `RabbitMqAdmission` | the subscribers' connections in RabbitMQ and what is promised of them |
| `RabbitMqAuth` | subscriber, Identity Gateway, broker |
| `AwsCustomAuth` | client, authorizer, AWS |
| `TokenCheckProofs` | proofs about both: two brokers that ask AM about a token |
| `IecService` | the bash functions of the service and its processes |
| `SdkExamples` | the seven programs, each a table of calls and of what it frees, over one heap |
| `Training`, `TrainingProofs` | composes `IecService` and `SdkExamples` |

Definitions keep the names of the source where it has one (`mosq_connect_cb`,
`createDevice`, `policyDocument`, `start_tomcat`, ...). A definition marked
"Mutant" in its comment is not part of the model: it is a plausible bug, put in
place of the definition after it to see that the property under test would
notice. Components that share state are composed (`MqttSession`, `Training`); the
others are models of their own because each is another deployment against AM, and
what they have in common (an expiring token, an SDK call that may fail) is in each
model as its environment.

### HiveMQExtension

A *slot* is one asynchronous output of the broker and the task submitted for it:
kind, connection, token, topic, how far the task is, the answer (`body`), what
`processResponse` wrote (`verdict`), and the outcome in the broker. Handlers fill
a slot (`OnConnect`, `AuthorizeSubscribe`, `AuthorizePublish`). The task runs in
four stages: `StartTask` waits for one of `Workers` threads; `Introspect`,
`IntrospectFails` or `TaskThrows` is the request, with the exception that `run`
does not catch; `ProcessResponse`; `Resume`. `Timeout` is the fallback `FAILURE`.
A connection that closes voids its pending outputs. `LoadConfiguration`,
`SetAuthenticatorProvider` and `SetAuthorizerProvider` are `extensionStart`, with
clients coming and going between them.

`subs` records what the extension has granted; what the broker let a client do
before the extension was up is the broker's own affair. The two-minute cache is
`cache` (`mstokval/configuration/config.json`); that the microservice caches the
active answers only is an assumption about it. `stale` is a history field: when the request arrived its token was dead
and no longer cached. `ReleaseSlot` is bookkeeping, so that slots bound the
requests in flight and not those of a whole run.

### DeviceMqttPub

`pc` walks through `main`; `cb` is the callback the network thread is in, with
`mosq_disconnect_cb` in three steps (flag, token request, reconnection), because
`main` runs in between. `link` is the connection as libmosquitto has it. The
example is built without optimisation (`examples/c/build.sh`), so
`while(!data.connected);` reads the flag again each time. `result`, which `main`
does not initialise, starts with either value. Tokens are numbered in the order
of issue. The broker may refuse a token for any reason and close at any time, but
faults happen to the first `Faulty` tokens only, so that a run can come to an end.

### MqttSession

`broker` chooses the other side: `"any"`, which is the broker inside
`DeviceMqttPub`; `"hivemq"`, whose tasks may fail, throw or be slow to start; and
`"hanging"`, whose microservice answers late or never. The device is the one
connection of `Hive`; its tokens are those that the IEC issues, each with the one
scope of its topic. Steps of the two sides that meet in a packet are joint steps:
a publish that reaches the broker is `Publish` and `AuthorizePublish`; a CONNECT is
`OnConnect` with the password the device has; what the broker decides reaches the
device through `Hears`. A packet is delivered at once or goes with its connection
(`attached` says whether the broker's connection is the device's current one), as
each side notices a loss when it does. A slot that is over is released before
anything else happens, and the broker takes the lowest free one, which removes
orders that make no difference.

### DeviceMqttGo

`pc`, `rpc`, `ppc` and `cb` are the places of `main`, the reconnecting goroutine,
the publisher and the timer callback that holds the mutex; callbacks that wait
for it are `queued`. `chan` is what is in the channel's buffer. After `close` a
receive gives the zero value at once, which is why the goroutine may arm one
timer after another then; `MaxTimers` bounds those that are armed at a time. Any
`log.Fatal` or panic ends the process with all goroutines (`Ends`).

`iec` says whether the IEC gives out tokens. The provider asks it every 500 ms
without end (main.go:176-182), so each caller of the provider waits at its place
until it does, the timer callback with the mutex in its hands. Paho's own
`AutoReconnect`, which the options do not turn off, calls the provider, too (`auto`):
when a connection is lost it runs beside `connectionLostHandler` (`handler`), which
ends the process by `log.Fatal` as soon as it gets to run, whatever the callback
does to the client meanwhile. A second automatic reconnection does not begin before
the first has ended; that is the one bound on it.

### GcpProvisioning

`script[d][n]` is the attestation started by run `n` of the client of device `d`.
It goes on when the SDK has given up waiting (`RegisterTimeout`, external), so two
attestations of a device overlap. `createDevice` may get through with its reply
lost, and is then sent again or given up. `cpc` is the client's `main`; `conf`
says whether its connection data is empty; `link = "none"` is the nil client
that `connectToIOTCore` returns when the root certificates do not parse.

### CloudProvisioning and AzureProvisioning

The abstract specification has four sets: the devices in the cloud, those whose
connection data can be handed out, those that AM has registered, and those whose
client works. A device is registered only when it is in the first two, and works
only when it is registered. For IoT Core the connection data is the configuration
of the one IEC and thus of all devices; for Azure it is one device's connection
string. In `AzureProvisioning`, `script[d][n]` is as in `GcpProvisioning`; `pub`,
`interrupted` and `late` are the publisher thread, its interrupt flag and the
messages sent after `shutdownNow`.

### IecService, SdkExamples and Training

`proc` follows a process from the fork (bash's child, which `pgrep -x` does not
list) over boot and service to the time between its kill and its end, when it is
still listed. `todo` is what a shell has still to do, so that the test and the
launch, or the test and the kill, are two steps. `started` and `stopped` are
history: the last word of a start or a stop that nothing has overtaken.

A program of `SdkExamples` is a record: its calls, whether its pointers are
initialised, the keys it asks for, what it frees on a failure and on success. One
set of actions interprets it (`SetAttributes`, `Send`, `Return`, `Timeout`,
`Extract`, `PrintTokens`), as the seven programs are cut from the same cloth.
`misused` records a pointer that was used or freed without holding an answer. In
`Training` the IEC is up when a process of `IecService` serves. The message timeout
ends a request, but neither `iec_initialise`, which blocks until the IEC is ready
(`libiecclient.h`), nor `iec_user_tokens` while the code is pending.

### TrainingTomcat

`todo` holds the functions that the running one has still to call, so
`restart_tomcat` is `<<"stop", "start">>`. `Wait` is the 30 of `count=30`. A
Tomcat that outlives its stop is `old`: it has the ports, and the next one ends
after its startup.

### RabbitMqAuth and AwsCustomAuth

`request` is the question of the HTTP backend on its way through Identity
Gateway; it goes with the connection. `link`, `vouched` and `subbed`, what RabbitMQ
has of a connection and AM has said of it, are in `RabbitMqAdmission` with the promise
about them, so that it can be read without the way to it. `rabbitmq.conf` chains two
backends, the broker's own users and then HTTP; the devices are no users of the
broker, and only the second one is modelled. What is said about admission is said of
connections that the HTTP backend decides.

In `AwsCustomAuth` an answer to the authorizer is a record of what it looks at: the
status, whether it is JSON, and the entries `sub` and `scope`, the latter as a set of
words. Two words are enough: the one that is looked for and one that contains it. The
authorizer asks the server at the `authorization_url` of the request, an argument of
the client, and does not verify its certificate (`lambda/main.go:124-137`). Hence it
is AM that answers (`AMAnswers`) or another server (`OtherAnswers`), and nothing is
assumed of another one: it may give any answer. `PublishedByScope` says what the
authorizer makes of an answer, whoever has given it, and what that means for the
token if it is AM's; that the URL is AM's is left to who runs the client.

## 3. Runs

The sizes are distinct states. Properties that are theorems of section 5 and that
another property of the same run comes close to are not in the runs: the type
invariants of the modules with a proof, `SessionUnaltered`, `QuietAfterDestroy`,
`SendNeverBlocks`, `RegisteredInBoth` and `StoppedThisOne`.

| Run | Instance | Properties | What it shows |
|---|---|---|---|
| `hivemq_safety` | 2 connections, 2 slots, 1 worker, 2 topics, a good token with two scopes and a forged one; symmetric; 708,156 | `OneConnectPending`, `AdmittedByToken`, `ConfinedToScope`, `DeadTokenRefused`, `PendingRequests`, `ImplementsPromise` | no interleaving of handlers, tasks, failures, timeouts and lost connections grants more than the scope of the token presented; an outstanding request is always about the token its connection has now; the extension implements `MqttAuthorization` |
| `mqtt_session` | 2 messages, faults of 1 token, 2 slots, the three brokers; 242,467 | `SessionTypeOK`, `ConnectedTracksLink`, `RefusedTokenReplaced`, `SessionAgrees`, `GoodTokenServed`, `SessionCompletes`, `EveryRequestSettled` | device and broker agree about the session and its token; the flag tells the truth; all messages get their turn; every request is settled although tasks hang or throw; a token without faults is never refused |
| `go_device` | `MaxTimers = 2`, both modes; 33,838 | `OneReconnectChain`, `PublishesOverLiveClient`, `ClientReplaced`, `ExitCompletes` | the reconnection neither breaks nor forks, a lost client is replaced if the IEC comes back for good, and main returns whether the IEC is there or not |
| `go_device_leak` | the same | `NoSubscriptionLeak` (violated) | finding 1 |
| `gcp_provisioning` | 2 devices, 2 runs each; 116,510 | `ClientFindsDevice`, `TelemetryHasClient`, `OneAttestationPasses`, `ImplementsProvisioning` | a registered device is provisioned, whatever overlaps or is lost; of overlapping attestations one passes; telemetry is sent over a client that exists |
| `gcp_dual_citizenship` | 1 device, 2 runs | `DualCitizenship` (violated) | finding 2 |
| `azure_provisioning` | 2 devices, 2 runs each; 40,000 | `TypeOK`, `ClientFindsConnection`, `OneLateMessage`, `ClientEnds`, `ImplementsProvisioning` | the same for Azure; the publisher is stopped wherever it is |
| `tomcat` | `Wait = 3`; 1,347 | `StartedThisOne`, `FailedStartLeavesNone`, `FunctionsReturn` | the functions tell the truth about their server and return |
| `tomcat_stop_kills` | `Wait = 3` | `StopKills` (violated) | finding 3 |
| `rabbitmq` | 2 devices; 1,024 | `AdmittedByUserinfo`, `RefusedEnds`, `SubscribedAgain` | each connection has its own answer and its own subscription; a refused device ends |
| `aws` | 1 client; 2,995 | `PublishedByScope`, `DoneIsPublished` | no answer without a subject and the publish scope leads to a publication, and no refusal looks like a success |
| `training` | 2 shells, 2 processes, the seven programs; 367,658 | `TypesOK`, `StartedServes`, `StoppedGone`, `AnswersOnly`, `GoodMeansDone` | start and stop are as good as their words; no program touches what it was not given, and status 0 is the truth, with the service going up and down under it |

### Why the bounds are enough

* HiveMQ: two connections show a token or an answer of one reaching the other; two
  slots and one worker show a task that waits behind another, an old answer of a
  connection that has come back, and two requests of one connection. There is no
  bound on requests over time.
* MQTT session: two messages put a fault before, between and after publications.
  With one token that is subject to faults the device loses any number of
  connections, is refused, and comes back with another token while tasks of the
  first one are under way; two slots with one thread let an old request stand
  before a new one. Against HiveMQ the IEC does not fail twice running
  (`TokenDenied`); against any broker it may.
* Go device: no bound but `MaxTimers`, which matters after the channel is closed
  only; a second zero-length timer already shows callbacks that queue.
* IoT Core: the second run of a client overlaps the attestation of the first; two
  devices share the configuration of one IEC. Azure likewise: two attestations of
  one device overlap, and every late message belongs to one run.
* Training: two shells start side by side, or one starts while the other stops; with
  two processes `pgrep` yields none, one or two numbers, which is all that the test
  distinguishes. Programs run one after another for ever.
* Tomcat: three rounds have a first, a middle and a last; the count is compared
  with zero only. The user calls functions for ever.
* RabbitMQ and AWS: no bound; devices and clients share nothing but the broker.

The theorems of section 5 hold for every value of these constants.

### Fairness

| Module | Fair | Because |
|---|---|---|
| `HiveMQExtension` | `Timeout` of each slot, weakly | the broker's timer is the one thing the extension can rely on; nothing is assumed of executor, microservice or AM |
| `MqttSession` | `main`; the network thread; a token request that succeeds, strongly; the broker (it takes a connection in, notices one that has gone), its timer, and its executor unless the microservice hangs, weakly | both threads are scheduled; the IEC answers within its message timeout, and an IEC that never had a token again would leave `main` spinning for ever, which the code accepts; a broker works, and the code sets the timer on each output |
| `DeviceMqttGo` | goroutines, timers and the broker's answer to a call that waits for it, weakly; `CallbackLock` strongly; nothing of the IEC, so that a provider may ask it for ever | goroutines are scheduled; paho's calls end with the answer or the connection; a Go mutex hands over to a waiter that has waited for a millisecond, so the publisher cannot starve the callback |
| `AzureProvisioning` | the client's own steps, its publisher thread | both threads are scheduled; nothing is expected of AM, the hub or the user |
| `TrainingTomcat` | the shell | Tomcat and the user are under no obligation |
| `RabbitMqAuth` | the device, Identity Gateway and the broker, libmosquitto's reconnection | the network may lose each connection, AM may be out of reach |
| `GcpProvisioning`, `AwsCustomAuth`, `Training` | none | safety only |

No fairness is assumed of a user's input, a lost connection, an expiry or AM.

## 4. Findings

1. **Subscription leak** (`go_device_leak`). The session is persistent and `main`
   calls `Unsubscribe` without the mutex and ignores its error
   (`device-mqtt/main.go:257`). When the connection is lost, or the timer callback
   has just taken the client down, the program ends with the subscription in
   place, against the comment at line 256.
2. **One-sided citizenship** (`gcp_dual_citizenship`). The attestation creates the
   device in IoT Core before steps that may fail. Nothing removes it, and each
   later attestation fails because the registry has the device already: the device
   can never be registered. The README promises "dual-citizenship".
3. **Tomcat is not killed** (`tomcat_stop_kills`). `[[ count == 0 ]]`
   (`training/am/commands.sh:75`) compares two words and is never true, so that a
   Tomcat that does not stop is not killed as line 74 says; `restart_tomcat`
   starts another beside it.

Further observations that the models show, without a run of their own:

* C publisher: after a failed token request it reconnects and publishes with the old
  token. When an attribute cannot be set it returns an uninitialised `result`.
* IoT Core: when the root certificates do not parse, `connectToIOTCore` returns its
  `err`, which is nil there, and no client (`gcp-device-mqtt/main.go:178`), although
  the comment on line 143 speaks of a client; `main` goes on and panics before any
  telemetry is sent (`TelemetryHasClient`). The JWT is set once, so a connection
  that is lost after an hour does not come back.
* Azure: what finding 2 says holds here as well: a device that the hub has and AM
  has not can never be registered. When `System.in.read` throws, `main` is over and
  the publisher, which is no daemon, goes on for ever.
* Tomcat: one whose startup message appears in the last round is killed although it
  has started; no property is at odds with that.
* Go device: at exit the deferred calls close the channel before they cancel the
  context, so that the goroutine may receive zeros and replace clients meanwhile, or a
  provider that is about to send panics. Either is within what the properties allow
  of a process that ends.
* AWS: the authorizer's two times (24 hours and 5 minutes) are the very bounds which
  the comments at `lambda/main.go:47-49` exclude.
* IEC service: a start right after a stop finds the killed process in the list, says
  that the service is started, and leaves none. Two starts side by side leave two
  processes for a while; a stop in that time kills neither and says that none runs.
  A child of the shell before its exec is not seen by either. `StartedServes` and
  `StoppedGone` leave these cases out by their conditions.
* SDK examples: `get_device_tokens` frees none of its answers and
  `run_device_custom_command` does not free its answer when a key is missing; each
  returns from `main` at once.

## 5. Proofs

The theorems hold for every value of the constants that the named assumptions
allow (`ConstantsAssumption`, `BoundsAssumption`, `MaxTimersAssumption`,
`MaxRunsAssumption`, `WaitAssumption`); TLC evaluates the assumptions on each run.

**HiveMQExtensionProofs**: `TypeCorrect`, `OneAnswerPerConnect`, `AdmissionByToken`,
`Confinement`, `Revocation`. Their invariant `IInv` adds:
* `PendingRequests`: a pending request is about the token its connection has in
  store, and the connection is in the phase of such requests (the run checks it, too). This is why a late
  answer can be trusted: whatever would change the token voids the request.
* `SlotsConsistent`: what each stage of a task knows. A dead, uncached token stays
  so, hence a stale request never has an active body, verdict or grant.
* `OnlyIssuedAlive`: what is not a token of AM is never active.
* `Channels`: a closed channel leaves nothing behind, and granted subscriptions
  match the token.

Closing a channel and updating one slot each have a lemma (`CloseInv`, `SlotInv`,
`SettledSlot`), since almost every action is built from the two; there is one
lemma per action or group of actions above them.

The same module proves `SessionsUnaltered`, `RequestsOfHolder` and
`Refinement`, `Spec => ImplementsPromise`. Every step under `IInv` has one of six
effects on the connections (`Effect`, `StepEffect`): none, closing one, letting one
in before the extension is up, asking to connect with a token, admitting one with
the topic of its token, granting one subscription. Each effect is a step of
`MqttAuthorization` or a stutter.

A token without an MQTT scope is in the proofs, which are about any `MqttScopes`, and
not in the run.

**MqttSessionProofs**, the publisher by itself: `TypeCorrect`, `FlagIsTrue`,
`RefusedTokensGo`, `NoCallbackAfterDestroy`, for any number of messages and of
faulty tokens. `DeviceInv` says what each callback may rely on (`Callbacks`), that
nothing happens on the network before the first connection (`Beginning`), that
tokens are replaced by newer ones (`TokenOrder`), and when a refused password may be
in use (`Replacement`).

**MqttSessionProofs**, the session: `SessionTypeCorrect`, `BothSidesAgree`,
`FlagIsTrueInSession`, `RefusedTokensGoInSession` and `GoodTokensServed`,
for any number of messages, tokens and slots. Each
step of the session is a step or a stutter of both parts:
* of HiveMQ with its extension. `Broker` instantiates `HiveMQExtensionProofs`, so
  that its `IInv` is preserved, and `Effect` says what a step may do to the device's
  connection, without a look at the steps of the tasks;
* of the device with any broker, `Device`. What a task decides about a connection
  reaches the device only while that connection is its present one.

What ties them together is `Agreement`: a connection of the broker that is the
device's present one (`attached`) was made with the device's present password, and
the two sides have got equally far with it, unless the network thread has been
stopped before it heard the answer. `SessionAgrees` alone does not say what a
connection in the making was asked for with, so it is not inductive: the answer to an
old CONNECT would be taken for one to the new password. `TokenBound` relates the tokens issued to
the bound on faults, which the device's specification has one higher.

`GoodTokensServed` rests on `Service` beside that: a pending request about a token
that no fault happens to has a task with a step before it, and what the task has
found so far speaks for the request (`Served`). It is here that the extension itself
matters, its default permissions included: one that refused everybody would keep
all other promises of the session.

**DeviceMqttGoProofs**: `TypeCorrect`, `OneReconnection`, `RoomInChannel`,
`PublisherSafe`. `IInv` adds who owns the mutex (`Ownership`) and that a full
channel is the only reconnection even after the channel has been closed (`Chain`),
which the property alone does not say.

**GcpProvisioningProofs**: `TypeCorrect`, `Provisioned`, `ClientProvisioned`,
`OneAttestation`, `TelemetryClient` and `Refinement`, `Spec => ImplementsProvisioning`.
`IInv` adds what an attestation has left in the platforms when it reaches a step (`Attested`); a step
that saves an identity is then an abstract `Register`, one that gets the client past
its connection a `Work`, and the others add, provide, end or stutter.

**AzureProvisioningProofs**: `TypeCorrect`, `ConnectionFound`, `AtMostOneLate` and
`Refinement`, `Spec => ImplementsProvisioning`. `IInv` adds what an attestation has
left in the hub and in AM when it reaches a step (`Attested`), what a client has when
it gets to one (`Earned`), and that a message after the interruption was on its way
when it came (`Quiet`): the property bounds the late messages, but only the place of
the publisher shows that no second one can follow.

**TrainingProofs**: `TypeCorrect`, `Started`, `Stopped`, `OnlyAnswersTouched`,
`StatusTellsTruth`, for any number of shells and processes. Two invariants that do
not share a variable:
* `ServiceInv` for the service: after a start that counts, no process is dying until
  the next kill. Without that, one that is refused could leave nothing but the dying
  one that still holds the endpoint.
* `ProgramInv` for the programs: `Past(n)` says what is true when the first `n - 1`
  calls have been made, `Holds` what a call finds on the heap, and `Waiting` that a
  request is never in flight but at its own call. What the seven programs have in
  common is `Shape` (a pointer is extracted from right after a request has filled it,
  user tokens are printed at the very end, what is freed was extracted); `Shapes`
  proves it of each of them, and nothing else about them is used.

**TrainingTomcatProofs**: `TypeCorrect`, `TrueStart`, `CleanFailure`, `TrueStop`.
`IInv` adds that a message in the log is one of the last server (`Messages`), which
is what removing the log before a launch is for.

**TokenCheckProofs**, RabbitMQ: `RabbitTypeCorrect`, `AdmissionByUserinfo`.
`RabbitInv` adds that a request is about the connection that is being made and goes
with it (`Requests`).

**TokenCheckProofs**, AWS: `AwsTypeCorrect`, `PublicationByScope`,
`SuccessIsPublication`. `AwsInv` follows an answer, AM's or another server's, over the
authorizer's reply to the publication and to the client (`ClientInv`). The two
integrations share the module as they share their question, what is said of
the token; no fact of one is used for the other.

### Model-checked only

Liveness (`EveryRequestSettled`, `SessionCompletes`, `ClientReplaced`,
`ExitCompletes`, `ClientEnds`, `FunctionsReturn`, `RefusedEnds`,
`SubscribedAgain`): TLAPS has no rules for fairness and ENABLED here.
All invariants, action properties and refinements that the passing runs check are
theorems. The models hold no recursive operators, so nothing had to be left out for
them.

## 6. Not modelled

* What third parties do (HiveMQ, RabbitMQ, libmosquitto, paho, AM, the IEC, IoT
  Core, AWS, Tomcat) is in the models only as the modelled code uses it; these
  definitions are marked external in `PROJECT.json`.
* The text of messages, JSON, certificates and signatures: a parse succeeds or
  fails, a token is a value. Time: a timer fires at any moment after it is set.
* The installation steps of `training/am/commands.sh` between the starts of Tomcat,
  build scripts, images and configuration: sequences of calls of external tools
  without state of their own.
* `libiecclient.h` is the interface of the SDK, whose code is not in the repository;
  the models take their contract for its calls from it. Mosquitto and remote updates
  are configured here and hold no code.
* `HelloWorldListener`, which only logs.

## 7. Plan

Done, in this order, the core first: HiveMQ (safety, promise, proofs), C publisher,
Go device, IoT Core, Tomcat, RabbitMQ, AWS; then the abstract provisioning with Azure
and IoT Core as its implementations, the IEC service and the SDK examples with their
composition, and the MQTT session of the C publisher with HiveMQ.

The proofs followed the models: first each component's invariant and the refinement
of its promise, then the session of the C publisher with HiveMQ on top of the proofs
of its two parts, Azure, and the training environment.

Next:
1. An abstract specification of the device session (a client that holds a token,
   is replaced at its expiry, ends when asked to) for the C and Go devices.
2. What a fair scheduler rests on, as invariants: that a thread which waits has
   somebody whose step ends the waiting (the request in flight of each wait of the C
   publisher, the owner of the Go device's mutex, the timer of each HiveMQ output).

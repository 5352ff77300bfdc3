---------------------------- MODULE TrainingProofs ----------------------------
(***************************************************************************)
(* Proofs about the training environment: the IEC service that shells      *)
(* install, start and stop, for any number of shells and processes, and    *)
(* the SDK examples that run against it.                                   *)
(*                                                                         *)
(* The two invariants do not mention each other's variables: the service   *)
(* is proved by what its functions do to the processes, the examples by    *)
(* what is true of a program when it has got to a certain call, whatever   *)
(* the service does meanwhile.                                             *)
(***************************************************************************)
EXTENDS Training, FiniteSetTheorems, TLAPS

----------------------------------------------------------------------------
(* The service. *)

Todo == Functions \cup {<<>>, <<"launch">>, <<"kill">>}

(* What has been started keeps running until a process breaks down or is   *)
(* killed; a process that is refused leaves the one that refused it, which *)
(* serves, since none is dying.                                            *)
ServiceInv == /\ TypeOK
              /\ started => Alive # {} /\ In("dying") = {}
              /\ StoppedGone

LEMMA InitService == Init => ServiceInv
<1> SUFFICES ASSUME Init PROVE ServiceInv
  OBVIOUS
<1>1. TypeOK
  <2>1. installed \in BOOLEAN /\ started \in BOOLEAN /\ stopped \in BOOLEAN
    BY Zenon DEF Init
  <2>2. todo \in [Shells -> Functions \cup {<<>>, <<"launch">>, <<"kill">>}]
    BY Zenon DEF Init
  <2>3. proc \in [Procs -> {"none", "forked", "booting", "serving", "dying"}]
    BY DEF Init
  <2> QED  BY <2>1, <2>2, <2>3 DEF TypeOK
<1> QED  BY <1>1 DEF Init, ServiceInv, StoppedGone

(* What remains of a list of functions is one. *)
LEMMA TodoRest ==
    ASSUME NEW q \in Todo, q # <<>>
    PROVE  /\ Head(q) = "install" => <<>> \o Tail(q) \in Todo
           /\ Head(q) = "start" => /\ <<>> \o Tail(q) \in Todo
                                   /\ <<"launch">> \o Tail(q) \in Todo
           /\ Head(q) = "stop" => /\ <<>> \o Tail(q) \in Todo
                                  /\ <<"kill">> \o Tail(q) \in Todo
           /\ Head(q) \in {"launch", "kill"} => <<>> \o Tail(q) \in Todo
<1>1. CASE q = <<"install", "start">>
  <2>1. Head(q) = "install" /\ Tail(q) = <<"start">>
    BY <1>1
  <2>2. <<>> \o <<"start">> = <<"start">>
    OBVIOUS
  <2> QED  BY <2>1, <2>2 DEF Todo, Functions
<1>2. ASSUME NEW f \in {"install", "start", "stop", "launch", "kill"},
             q = <<f>>
      PROVE  /\ Head(q) = f /\ <<>> \o Tail(q) = <<>>
             /\ <<"launch">> \o Tail(q) = <<"launch">>
             /\ <<"kill">> \o Tail(q) = <<"kill">>
  <2>1. Head(q) = f /\ Tail(q) = <<>>
    BY <1>2
  <2>2. /\ <<>> \o <<>> = <<>> /\ <<"launch">> \o <<>> = <<"launch">>
        /\ <<"kill">> \o <<>> = <<"kill">>
    OBVIOUS
  <2> QED  BY <2>1, <2>2
<1>3. \/ q = <<"install", "start">>
      \/ \E f \in {"install", "start", "stop", "launch", "kill"} : q = <<f>>
  BY DEF Todo, Functions
<1>4. <<>> \in Todo /\ <<"launch">> \in Todo /\ <<"kill">> \in Todo
  BY DEF Todo
<1> QED  BY <1>1, <1>2, <1>3, <1>4

LEMMA NowTodo ==
    ASSUME TypeOK, NEW s \in Shells, NEW step, NEW rest, Now(s, step, rest),
           \/ rest = <<>> /\ step \in {"install", "start", "stop", "launch",
                                       "kill"}
           \/ rest = <<"launch">> /\ step = "start"
           \/ rest = <<"kill">> /\ step = "stop"
    PROVE  todo' \in [Shells -> Todo]
<1>1. todo \in [Shells -> Todo]
  BY DEF TypeOK, Todo
<1>2. todo[s] \in Todo /\ todo[s] # <<>> /\ Head(todo[s]) = step
  BY <1>1 DEF Now
<1> DEFINE q == rest \o Tail(todo[s])
<1>3. q \in Todo
  BY <1>2, TodoRest
<1>4. todo' = [todo EXCEPT ![s] = q]
  BY DEF Now
<1> HIDE DEF q
<1> QED  BY <1>1, <1>3, <1>4

LEMMA ShellType ==
    ASSUME TypeOK, NEW s \in Shells, Shell(s)
    PROVE  TypeOK'
<1>1. todo' \in [Shells -> Todo]
  <2>1. ASSUME NEW f \in Functions, Call(s, f) PROVE todo' \in [Shells -> Todo]
    BY <2>1 DEF Call, TypeOK, Todo
  <2>2. ASSUME NEW ok \in BOOLEAN, install_iec_service(s, ok)
        PROVE  todo' \in [Shells -> Todo]
    BY <2>2, NowTodo DEF install_iec_service
  <2>3. CASE start_iec_service(s)
    BY <2>3, NowTodo DEF start_iec_service
  <2>4. CASE stop_iec_service(s)
    BY <2>4, NowTodo DEF stop_iec_service
  <2>5. CASE Launch(s) \/ Kill(s)
    BY <2>5, NowTodo DEF Launch, Kill
  <2> QED  BY <2>1, <2>2, <2>3, <2>4, <2>5 DEF Shell
<1>2. proc' \in [Procs -> {"none", "forked", "booting", "serving", "dying"}]
  BY DEF Shell, Call, install_iec_service, start_iec_service, Launch,
         stop_iec_service, Kill, TypeOK
<1>3. installed' \in BOOLEAN /\ started' \in BOOLEAN /\ stopped' \in BOOLEAN
  <2>1. installed \in BOOLEAN /\ started \in BOOLEAN /\ stopped \in BOOLEAN
    BY DEF TypeOK
  <2>2. /\ installed' = installed \/ \E ok \in BOOLEAN :
                                         installed' = (installed \/ ok)
        /\ \/ started' = started \/ started' = (In("dying") = {})
           \/ started' = FALSE
        /\ \/ stopped' = stopped \/ stopped' = FALSE
           \/ stopped' = (In("forked") = {})
    BY Zenon DEF Shell, Call, install_iec_service, start_iec_service, Launch,
                 stop_iec_service, Kill
  <2> QED  BY <2>1, <2>2, Zenon
<1> QED  BY <1>1, <1>2, <1>3 DEF TypeOK, Todo

LEMMA ProcessType ==
    ASSUME TypeOK, NEW p \in Procs, Process(p)
    PROVE  TypeOK'
<1>1. /\ UNCHANGED <<todo, installed, stopped>>
      /\ started' = started \/ started' = FALSE
      /\ \E to \in {"none", "booting", "serving"} :
             proc' = [proc EXCEPT ![p] = to]
  BY DEF Process, Exec, Bind, Refused, Gone, Breaks, Becomes
<1>2. started' \in BOOLEAN
  BY <1>1, Zenon DEF TypeOK
<1> QED  BY <1>1, <1>2 DEF TypeOK

(* Every function of commands.sh keeps what its messages say. *)
LEMMA ShellKeeps ==
    ASSUME ServiceInv, NEW s \in Shells, Shell(s)
    PROVE  ServiceInv'
<1>1. TypeOK'
  BY ShellType DEF ServiceInv
<1> USE DEF ServiceInv, StoppedGone, Alive, In
<1>2. CASE UNCHANGED <<proc, started, stopped>>
  BY <1>1, <1>2
<1>3. CASE start_iec_service(s) /\ Cardinality(pgrep) = 1
  <2>1. pgrep # {}
    BY <1>3, FS_EmptySet
  <2>2. started' => In("dying") = {}
    BY <1>3, Zenon DEF start_iec_service
  <2>3. In("dying") = {} => Alive # {}
    BY <2>1 DEF pgrep, TypeOK
  <2>4. UNCHANGED <<proc, stopped>>
    BY <1>3 DEF start_iec_service
  <2> QED  BY <1>1, <2>2, <2>3, <2>4
<1>4. CASE Launch(s)
  <2>1. PICK p \in Procs : /\ proc[p] = "none"
                           /\ proc' = [proc EXCEPT ![p] = "forked"]
    BY <1>4 DEF Launch
  <2>2. p \in Alive' /\ In("dying")' = In("dying")
    BY <2>1 DEF TypeOK
  <2>3. (started' => In("dying") = {}) /\ ~stopped'
    BY <1>4, Zenon DEF Launch
  <2> QED  BY <1>1, <2>2, <2>3
<1>5. CASE Kill(s)
  <2>1. Alive' = In("forked")
    BY <1>5 DEF Kill, pgrep, TypeOK
  <2>2. ~started' /\ (stopped' => In("forked") = {})
    BY <1>5, Zenon DEF Kill
  <2> QED  BY <1>1, <2>1, <2>2
<1> QED
  BY <1>2, <1>3, <1>4, <1>5
  DEF Shell, Call, install_iec_service, start_iec_service, stop_iec_service

LEMMA ProcessKeeps ==
    ASSUME ServiceInv, NEW p \in Procs, Process(p)
    PROVE  ServiceInv'
<1>1. TypeOK'
  BY ProcessType DEF ServiceInv
<1> USE DEF ServiceInv, StoppedGone, Alive, In, TypeOK, Becomes
<1>2. CASE Exec(p)
  BY <1>1, <1>2 DEF Exec
<1>3. CASE Bind(p)
  BY <1>1, <1>3 DEF Bind
<1>4. CASE Refused(p)
  BY <1>1, <1>4 DEF Refused
<1>5. CASE Gone(p)
  BY <1>1, <1>5 DEF Gone
<1>6. CASE Breaks(p)
  BY <1>1, <1>6 DEF Breaks
<1> QED  BY <1>2, <1>3, <1>4, <1>5, <1>6 DEF Process

LEMMA NextService == ServiceInv /\ [Next]_vars => ServiceInv'
<1>1. ASSUME ServiceInv, UNCHANGED vars PROVE ServiceInv'
  BY <1>1 DEF vars, ServiceInv, TypeOK, StoppedGone, Alive, In
<1> QED  BY <1>1, ShellKeeps, ProcessKeeps DEF Next

----------------------------------------------------------------------------
(* The programs: what all seven have in common. *)

Shape(P) ==
    /\ Len(P.calls) \in Nat /\ Len(P.calls) >= 1
    /\ P.keys \subseteq {"first", "second"} /\ P.onFailure \subseteq {"answer"}
    /\ P.onSuccess \subseteq P.keys \cup {"answer"}
    /\ P.declared \in {"null", "wild"}
    /\ P.calls[1] \in {"attributes", "initialise"}
    /\ \A n \in 2..Len(P.calls) :
          /\ P.calls[n] # "attributes"
          /\ P.calls[n] = "extract" =>
                P.calls[n - 1] \in Sdk!DeviceRequests \ {"user_tokens"}
          /\ P.calls[n] = "print" =>
                P.calls[n - 1] = "user_tokens" /\ n = Len(P.calls)
    /\ P.keys \cup P.onSuccess # {} =>
          \E n \in 2..Len(P.calls) : P.calls[n] = "extract"

LEMMA Shapes ==
    ASSUME NEW e \in Sdk!Examples
    PROVE  /\ Shape(Sdk!MainOf(e))
           /\ e = "get_user_tokens" =>
                 Sdk!MainOf(e).calls[Len(Sdk!MainOf(e).calls)] = "print"
<1> USE DEF Shape, Sdk!Program, Sdk!Device, Sdk!DeviceRequests
<1>1. Shape(Sdk!init_sdk_static) /\ Shape(Sdk!init_sdk_dynamic)
  BY DEF Sdk!init_sdk_static, Sdk!init_sdk_dynamic
<1>2. Shape(Sdk!register_device)
  BY DEF Sdk!register_device
<1>3. Shape(Sdk!get_device_tokens)
  BY DEF Sdk!get_device_tokens
<1>4. Shape(Sdk!get_device_configuration)
  BY DEF Sdk!get_device_configuration
<1>5. Shape(Sdk!run_device_custom_command)
  BY DEF Sdk!run_device_custom_command
<1>6. /\ Shape(Sdk!get_user_tokens)
      /\ Sdk!get_user_tokens.calls[Len(Sdk!get_user_tokens.calls)] = "print"
  BY DEF Sdk!get_user_tokens
<1> HIDE DEF Shape
<1>7. /\ Sdk!MainOf("init_sdk_static") = Sdk!init_sdk_static
      /\ Sdk!MainOf("init_sdk_dynamic") = Sdk!init_sdk_dynamic
      /\ Sdk!MainOf("register_device") = Sdk!register_device
      /\ Sdk!MainOf("get_device_tokens") = Sdk!get_device_tokens
      /\ Sdk!MainOf("get_device_configuration") =
             Sdk!get_device_configuration
      /\ Sdk!MainOf("run_device_custom_command") =
             Sdk!run_device_custom_command
      /\ Sdk!MainOf("get_user_tokens") = Sdk!get_user_tokens
  BY DEF Sdk!MainOf
<1> QED
  BY <1>1, <1>2, <1>3, <1>4, <1>5, <1>6, <1>7 DEF Sdk!Examples

----------------------------------------------------------------------------
(* A program in the middle of its calls. *)

Calls == Sdk!Main.calls

(* What is true when the first n - 1 calls have been made. *)
Past(n) ==
    \A m \in 1..(n - 1) :
        /\ Calls[m] = "register" => registered
        /\ Calls[m] = "extract" =>
              \A v \in Sdk!Main.keys \cup Sdk!Main.onSuccess :
                  ptr[v] \in {"live", "freed"}
        /\ Calls[m] = "print" => ptr["tokens"] = "freed"

Done == IF at # 0 THEN Past(at) ELSE status = "good" => Past(Len(Calls) + 1)

Waiting == /\ request # "none" => at # 0 /\ Calls[at] \in Sdk!Requests
           /\ request = "good" /\ Sdk!At("register") => registered

Holds == /\ Sdk!At("attributes") => result = "error"
         /\ Sdk!At("extract") => ptr["answer"] = "live"
         /\ Sdk!At("print") => ptr["tokens"] = "live"

ProgramInv == Sdk!TypeOK /\ Done /\ Waiting /\ Holds /\ AnswersOnly

(* What does not depend on how the service is doing. *)
Types == /\ example \in Sdk!Examples
         /\ at \in 0..Len(Calls)
         /\ request \in {"none", "sent", "good", "bad"}
         /\ ptr \in [Sdk!Pointers -> {"null", "wild", "live", "freed"}]
         /\ misused \in BOOLEAN
         /\ result \in {"error", "good"} /\ status \in {"error", "good"}
         /\ registered \in BOOLEAN
         /\ code \in {"none", "pending", "authorised", "expired"}

LEMMA TypesSuffice == (Types <=> Sdk!TypeOK) /\ (Types' <=> Sdk!TypeOK')
<1>1. /\ (In("serving") # {}) \in BOOLEAN
      /\ (In("serving")' # {}) \in BOOLEAN
  BY Zenon
<1>2. Types <=> Sdk!TypeOK
  BY <1>1, Zenon DEF Types, Sdk!TypeOK, Calls
<1>3. Types' <=> Sdk!TypeOK'
  BY <1>1, Zenon DEF Types, Sdk!TypeOK, Calls
<1> QED  BY <1>2, <1>3

LEMMA InitProgram == Sdk!Init => ProgramInv
<1> SUFFICES ASSUME Sdk!Init PROVE ProgramInv
  OBVIOUS
<1>1. example \in Sdk!Examples /\ at = 0
  BY DEF Sdk!Init, Sdk!Examples
<1>2. Shape(Sdk!Main)
  BY <1>1, Shapes DEF Sdk!Main
<1>3. misused \in BOOLEAN /\ registered \in BOOLEAN
  BY Zenon DEF Sdk!Init
<1>4. at \in 0..Len(Calls)
  BY <1>1, <1>2 DEF Shape, Calls
<1>5. Types
  BY <1>1, <1>3, <1>4 DEF Sdk!Init, Types
<1>6. Done /\ Waiting /\ Holds /\ AnswersOnly
  BY DEF Sdk!Init, Done, Waiting, Holds, AnswersOnly, Sdk!AnswersOnly, Sdk!At
<1> QED  BY <1>5, <1>6, TypesSuffice DEF ProgramInv

LEMMA MainShape ==
    ASSUME ProgramInv
    PROVE  /\ Types /\ Shape(Sdk!Main)
           /\ UNCHANGED example => Sdk!Main' = Sdk!Main /\ Calls' = Calls
<1>1. Types
  BY TypesSuffice DEF ProgramInv
<1>2. Shape(Sdk!Main)
  BY <1>1, Shapes DEF Types, Sdk!Main
<1>3. UNCHANGED example => Sdk!Main' = Sdk!Main
  BY DEF Sdk!Main
<1> QED  BY <1>1, <1>2, <1>3 DEF Calls

(* Falling off the end of main, or on to the next call. *)
LEMMA OnToNext ==
    ASSUME ProgramInv, UNCHANGED example, NEW n \in Nat, n = at, n # 0,
           Sdk!Advance, request' = "none", Past(n + 1)',
           Calls[n] \in Sdk!DeviceRequests \ {"user_tokens"} =>
               ptr'["answer"] = "live",
           Calls[n] = "user_tokens" => ptr'["tokens"] = "live"
    PROVE  /\ at' \in 0..Len(Calls)' /\ status' \in {"error", "good"}
           /\ Done' /\ Waiting' /\ Holds'
<1>1. /\ n \in 1..Len(Calls) /\ Len(Calls) \in Nat /\ Calls' = Calls
      /\ status \in {"error", "good"}
  BY MainShape DEF Types, Shape, Calls
<1>2. \/ n = Len(Calls) /\ at' = 0 /\ status' = "good"
      \/ n + 1 \in 2..Len(Calls) /\ at' = n + 1 /\ status' = status
  BY <1>1 DEF Sdk!Advance, Sdk!Exit, Calls
<1>3. Done'
  BY <1>1, <1>2 DEF Done, Past
<1>4. Waiting'
  BY DEF Waiting
<1>5. Holds'
  <2>1. CASE at' = 0
    BY <2>1 DEF Holds, Sdk!At
  <2>2. CASE n + 1 \in 2..Len(Calls) /\ at' = n + 1
    <3>1. \A c : Sdk!At(c)' => Calls[n + 1] = c
      BY <1>1, <2>2 DEF Sdk!At, Calls
    <3>2. /\ Calls[n + 1] # "attributes"
          /\ Calls[n + 1] = "extract" =>
                Calls[n] \in Sdk!DeviceRequests \ {"user_tokens"}
          /\ Calls[n + 1] = "print" => Calls[n] = "user_tokens"
      BY <1>1, <2>2, MainShape DEF Shape, Calls
    <3> QED  BY <3>1, <3>2 DEF Holds
  <2> QED  BY <1>2, <2>1, <2>2
<1> QED  BY <1>1, <1>2, <1>3, <1>4, <1>5

(* A program that gives up has done nothing that anyone relies on. *)
LEMMA GivesUp ==
    ASSUME ProgramInv, UNCHANGED example, Sdk!Exit("error"),
           request' = "none"
    PROVE  /\ at' \in 0..Len(Calls)' /\ status' \in {"error", "good"}
           /\ Done' /\ Waiting' /\ Holds'
<1>1. Len(Calls) \in Nat /\ Calls' = Calls
  BY MainShape DEF Shape, Calls
<1> QED  BY <1>1 DEF Sdk!Exit, Done, Waiting, Holds, Sdk!At

LEMMA AttributesKeep ==
    ASSUME ProgramInv, NEW ok \in BOOLEAN, Sdk!SetAttributes(ok)
    PROVE  ProgramInv'
<1>1. UNCHANGED <<example, request, ptr, misused, result, registered, code>>
  BY DEF Sdk!SetAttributes, Sdk!am
<1>2. /\ Types /\ Shape(Sdk!Main) /\ Calls' = Calls /\ Sdk!Main' = Sdk!Main
  BY <1>1, MainShape
<1>3. at \in Nat /\ at # 0 /\ Calls[at] = "attributes" /\ result = "error"
  BY <1>2 DEF Sdk!SetAttributes, Sdk!At, ProgramInv, Holds, Types, Shape, Calls
<1>4. request' = "none"
  <2>1. request # "none" => Calls[at] \in Sdk!Requests
    BY DEF ProgramInv, Waiting
  <2> QED  BY <1>1, <1>3, <2>1 DEF Sdk!Requests, Sdk!DeviceRequests
<1>5. \A n \in Nat : n = at => Past(n + 1)'
  BY <1>1, <1>2, <1>3 DEF ProgramInv, Done, Past
<1>6. /\ at' \in 0..Len(Calls)' /\ status' \in {"error", "good"}
      /\ Done' /\ Waiting' /\ Holds'
  <2>1. CASE ok
    <3>1. Sdk!Advance
      BY <2>1 DEF Sdk!SetAttributes
    <3>2. PICK n \in Nat : n = at
      BY <1>3
    <3>3. /\ Calls[n] \in Sdk!DeviceRequests \ {"user_tokens"} => FALSE
          /\ Calls[n] = "user_tokens" => FALSE
      BY <1>3, <3>2 DEF Sdk!DeviceRequests
    <3> QED  BY <1>1, <1>3, <1>4, <1>5, <3>1, <3>2, <3>3, OnToNext
  <2>2. CASE ~ok
    <3>1. Sdk!Exit("error")
      BY <1>3, <2>2 DEF Sdk!SetAttributes
    <3> QED  BY <1>1, <1>4, <3>1, GivesUp
  <2> QED  BY <2>1, <2>2
<1>7. Types'
  BY <1>1, <1>2, <1>6 DEF Types
<1>8. AnswersOnly'
  BY <1>1 DEF ProgramInv, AnswersOnly, Sdk!AnswersOnly
<1> QED  BY <1>6, <1>7, <1>8, TypesSuffice DEF ProgramInv

LEMMA SendKeeps ==
    ASSUME ProgramInv, Sdk!Send
    PROVE  ProgramInv'
<1>1. /\ UNCHANGED <<example, at, ptr, misused, result, status, registered,
                     code>>
      /\ request = "none" /\ request' = "sent"
      /\ at # 0 /\ Calls[at] \in Sdk!Requests
  BY DEF Sdk!Send, Sdk!am, Sdk!At, Calls
<1>2. Types /\ Calls' = Calls /\ Sdk!Main' = Sdk!Main
  BY <1>1, MainShape
<1>3. Types'
  BY <1>1, <1>2 DEF Types
<1>4. Done' /\ Waiting'
  BY <1>1, <1>2 DEF ProgramInv, Done, Past, Waiting
<1>5. Holds' /\ AnswersOnly'
  BY <1>1, <1>2
  DEF ProgramInv, Holds, Sdk!At, AnswersOnly, Sdk!AnswersOnly
<1> QED  BY <1>3, <1>4, <1>5, TypesSuffice DEF ProgramInv

(* What a request may come to: its answer is on the heap, and AM knows a   *)
(* device that has been registered.                                        *)
LEMMA ReturnKeeps ==
    ASSUME ProgramInv, Sdk!Return
    PROVE  ProgramInv'
<1>1. /\ UNCHANGED <<example, misused, registered, code>>
      /\ request \in {"good", "bad"} /\ request' = "none"
      /\ result' \in {"error", "good"}
  BY DEF Sdk!Return, Sdk!am
<1>2. /\ Types /\ Shape(Sdk!Main) /\ Calls' = Calls /\ Sdk!Main' = Sdk!Main
  BY <1>1, MainShape
<1>3. /\ at \in 1..Len(Calls) /\ at # 0 /\ Len(Calls) \in Nat
      /\ Calls[at] \in Sdk!Requests
  BY <1>1, <1>2 DEF ProgramInv, Waiting, Types, Shape, Calls
<1>4. ptr' = IF request = "good" /\ Calls[at] \in Sdk!DeviceRequests
             THEN [ptr EXCEPT ![Sdk!Out] = "live"] ELSE ptr
  BY <1>3 DEF Sdk!Return, Sdk!At, Calls
<1>5. ptr' \in [Sdk!Pointers -> {"null", "wild", "live", "freed"}]
  BY <1>2, <1>4 DEF Types, Sdk!Pointers
<1>6. /\ at' \in 0..Len(Calls)' /\ status' \in {"error", "good"}
      /\ Done' /\ Waiting' /\ Holds'
  <2>1. CASE request = "good"
    <3>1. Sdk!Advance
      BY <2>1 DEF Sdk!Return
    <3>2. PICK n \in Nat : n = at
      BY <1>3
    <3>3. /\ Sdk!Out = IF Calls[n] = "user_tokens" THEN "tokens" ELSE "answer"
          /\ Sdk!Out \in Sdk!Pointers
      BY <1>3, <3>2 DEF Sdk!Out, Sdk!At, Calls, Sdk!Pointers
    <3>4. /\ Calls[n] \in Sdk!DeviceRequests \ {"user_tokens"} =>
                ptr'["answer"] = "live"
          /\ Calls[n] = "user_tokens" => ptr'["tokens"] = "live"
      BY <1>2, <1>4, <2>1, <3>2, <3>3 DEF Types, Sdk!DeviceRequests
    <3>5. Past(n + 1)'
      <4>1. Calls[n] = "register" => registered
        BY <1>3, <2>1, <3>2 DEF ProgramInv, Waiting, Sdk!At, Calls
      <4>2. Calls[n] # "extract" /\ Calls[n] # "print"
        BY <1>3, <3>2 DEF Sdk!Requests, Sdk!DeviceRequests
      <4>3. \A m \in 1..(n - 1) : Calls[m] # "print"
        <5>1. \A m \in 2..Len(Calls) : Calls[m] = "print" => m = Len(Calls)
          BY <1>2 DEF Shape, Calls
        <5>2. Calls[1] # "print"
          BY <1>2 DEF Shape, Calls
        <5> QED  BY <1>3, <3>2, <5>1, <5>2
      <4>4. \A v \in Sdk!Pointers : ptr'[v] = ptr[v] \/ ptr'[v] = "live"
        BY <1>2, <1>4, <3>3 DEF Types
      <4>5. Sdk!Main.keys \cup Sdk!Main.onSuccess \subseteq Sdk!Pointers
        BY <1>2 DEF Shape, Sdk!Pointers
      <4>6. Past(n)
        BY <1>3, <3>2 DEF ProgramInv, Done
      <4>7. ASSUME NEW m \in 1..(n - 1), NEW v \in Sdk!Pointers,
                   ptr[v] \in {"live", "freed"}
            PROVE  ptr'[v] \in {"live", "freed"}
        BY <4>4, <4>7
      <4>8. \A m \in 1..n : m \in 1..(n - 1) \/ m = n
        BY <3>2
      <4> HIDE DEF Calls
      <4> QED
        BY <1>1, <1>2, <3>2, <4>1, <4>2, <4>3, <4>4, <4>5, <4>6, <4>8 DEF Past
    <3> QED  BY <1>1, <1>3, <3>1, <3>2, <3>4, <3>5, OnToNext
  <2>2. CASE request # "good"
    <3>1. Sdk!Exit("error")
      BY <2>2 DEF Sdk!Return
    <3> QED  BY <1>1, <3>1, GivesUp
  <2> QED  BY <2>1, <2>2
<1>7. Types'
  BY <1>1, <1>2, <1>5, <1>6 DEF Types
<1>8. AnswersOnly'
  BY <1>1 DEF ProgramInv, AnswersOnly, Sdk!AnswersOnly
<1> QED  BY <1>6, <1>7, <1>8, TypesSuffice DEF ProgramInv

LEMMA TimeoutKeeps ==
    ASSUME ProgramInv, Sdk!Timeout
    PROVE  ProgramInv'
<1>1. /\ UNCHANGED <<example, ptr, misused, registered, code>>
      /\ request' = "none" /\ result' = "error" /\ Sdk!Exit("error")
  BY DEF Sdk!Timeout, Sdk!am
<1>2. Types /\ Calls' = Calls
  BY <1>1, MainShape
<1>3. /\ at' \in 0..Len(Calls)' /\ status' \in {"error", "good"}
      /\ Done' /\ Waiting' /\ Holds'
  BY <1>1, GivesUp
<1>4. Types'
  BY <1>1, <1>2, <1>3 DEF Types
<1>5. AnswersOnly'
  BY <1>1 DEF ProgramInv, AnswersOnly, Sdk!AnswersOnly
<1> QED  BY <1>3, <1>4, <1>5, TypesSuffice DEF ProgramInv

(* The answer that is taken apart is there, the strings of the keys that   *)
(* were found are, and nothing else is touched.                            *)
LEMMA ExtractKeeps ==
    ASSUME ProgramInv,
           NEW got \in SUBSET (Sdk!Main.keys \cup {"answer"}),
           Sdk!Extract(got)
    PROVE  ProgramInv'
<1> DEFINE p == [v \in Sdk!Pointers |-> IF v \in got \cap Sdk!Main.keys
                                        THEN "live" ELSE ptr[v]]
           found == got = Sdk!Main.keys \cup {"answer"}
<1>1. /\ UNCHANGED <<example, request, result, registered, code>>
      /\ Sdk!At("extract")
      /\ IF found THEN Sdk!Touch(p, got, Sdk!Main.onSuccess) /\ Sdk!Advance
                  ELSE /\ Sdk!Touch(p, {"answer"}, Sdk!Main.onFailure)
                       /\ Sdk!Exit("error")
  BY DEF Sdk!Extract, Sdk!ExtractThen, Sdk!am
<1>2. /\ Types /\ Shape(Sdk!Main) /\ Calls' = Calls /\ Sdk!Main' = Sdk!Main
  BY <1>1, MainShape
<1>3. /\ at \in 1..Len(Calls) /\ at # 0 /\ Len(Calls) \in Nat
      /\ Calls[at] = "extract" /\ ptr["answer"] = "live"
  BY <1>1, <1>2 DEF ProgramInv, Holds, Sdk!At, Types, Shape, Calls
<1>4. request' = "none"
  <2>1. request # "none" => Calls[at] \in Sdk!Requests
    BY DEF ProgramInv, Waiting
  <2> QED  BY <1>1, <1>3, <2>1 DEF Sdk!Requests, Sdk!DeviceRequests
<1>5. /\ Sdk!Main.keys \subseteq Sdk!Pointers \ {"answer"}
      /\ Sdk!Main.onFailure \subseteq {"answer"}
      /\ Sdk!Main.onSuccess \subseteq Sdk!Main.keys \cup {"answer"}
  BY <1>2 DEF Shape, Sdk!Pointers
<1>6. /\ p["answer"] = "live"
      /\ found => \A v \in Sdk!Main.keys : p[v] = "live"
      /\ \A v \in Sdk!Pointers : p[v] \in {"null", "wild", "live", "freed"}
  BY <1>2, <1>3, <1>5 DEF Types, Sdk!Pointers
<1>7. \E freed \in SUBSET Sdk!Pointers :
          ptr' = [v \in Sdk!Pointers |-> IF v \in freed THEN "freed" ELSE p[v]]
  <2>1. /\ Sdk!Main.onSuccess \in SUBSET Sdk!Pointers
        /\ Sdk!Main.onFailure \in SUBSET Sdk!Pointers
    BY <1>5 DEF Sdk!Pointers
  <2> HIDE DEF p
  <2> QED  BY <1>1, <2>1 DEF Sdk!Touch
<1>8. ptr' \in [Sdk!Pointers -> {"null", "wild", "live", "freed"}]
  <2> HIDE DEF p
  <2> QED  BY <1>6, <1>7
<1>9. misused' = misused
  <2> HIDE DEF p
  <2>1. CASE found
    <3>1. \A v \in got \cup Sdk!Main.onSuccess : p[v] = "live"
      BY <1>5, <1>6, <2>1
    <3>2. misused' = (misused \/ (\E v \in got : p[v] # "live")
                             \/ (\E v \in Sdk!Main.onSuccess :
                                      p[v] \in {"wild", "freed"}))
      BY <1>1, <2>1, Zenon DEF Sdk!Touch
    <3>3. /\ ~\E v \in got : p[v] # "live"
          /\ ~\E v \in Sdk!Main.onSuccess : p[v] \in {"wild", "freed"}
      BY <3>1
    <3> QED  BY <1>2, <3>2, <3>3, Zenon DEF Types
  <2>2. CASE ~found
    <3>1. misused' = (misused \/ (\E v \in {"answer"} : p[v] # "live")
                             \/ (\E v \in Sdk!Main.onFailure :
                                      p[v] \in {"wild", "freed"}))
      BY <1>1, <2>2, Zenon DEF Sdk!Touch
    <3>2. /\ ~\E v \in {"answer"} : p[v] # "live"
          /\ ~\E v \in Sdk!Main.onFailure : p[v] \in {"wild", "freed"}
      BY <1>5, <1>6
    <3> QED  BY <1>2, <3>1, <3>2, Zenon DEF Types
  <2> QED  BY <2>1, <2>2
<1>10. /\ at' \in 0..Len(Calls)' /\ status' \in {"error", "good"}
       /\ Done' /\ Waiting' /\ Holds'
  <2>1. CASE found
    <3>1. PICK n \in Nat : n = at
      BY <1>3
    <3>2. \A v \in Sdk!Main.keys \cup Sdk!Main.onSuccess :
              ptr'[v] \in {"live", "freed"}
      <4> HIDE DEF p
      <4> QED  BY <1>5, <1>6, <1>7, <2>1 DEF Sdk!Pointers
    <3>3. \A m \in 1..n : Calls[m] # "print"
      <4>1. \A m \in 2..Len(Calls) : Calls[m] = "print" => m = Len(Calls)
        BY <1>2 DEF Shape, Calls
      <4>2. Calls[1] # "print"
        BY <1>2 DEF Shape, Calls
      <4> QED  BY <1>3, <3>1, <4>1, <4>2
    <3>4. \A m \in 1..(n - 1) : Calls[m] = "register" => registered
      BY <1>3, <3>1 DEF ProgramInv, Done, Past
    <3>5. Past(n + 1)'
      <4> HIDE DEF p, found, Calls
      <4>1. \A m \in 1..n : m \in 1..(n - 1) \/ m = n
        BY <3>1
      <4> QED
        BY <1>1, <1>2, <1>3, <3>1, <3>2, <3>3, <3>4, <4>1 DEF Past
    <3>6. Calls[n] \notin Sdk!DeviceRequests /\ Calls[n] # "user_tokens"
      BY <1>3, <3>1 DEF Sdk!DeviceRequests
    <3>7. Sdk!Advance
      BY <1>1, <2>1
    <3> HIDE DEF p, found
    <3> QED  BY <1>1, <1>3, <1>4, <3>1, <3>5, <3>6, <3>7, OnToNext
  <2>2. CASE ~found
    <3>1. Sdk!Exit("error")
      BY <1>1, <2>2
    <3> QED  BY <1>1, <1>4, <3>1, GivesUp
  <2> QED  BY <2>1, <2>2
<1> HIDE DEF p, found
<1>11. Types'
  BY <1>1, <1>2, <1>8, <1>9, <1>10 DEF Types
<1>12. AnswersOnly'
  BY <1>9 DEF ProgramInv, AnswersOnly, Sdk!AnswersOnly
<1> QED  BY <1>10, <1>11, <1>12, TypesSuffice DEF ProgramInv

LEMMA PrintKeeps ==
    ASSUME ProgramInv, Sdk!PrintTokens
    PROVE  ProgramInv'
<1>1. /\ UNCHANGED <<example, request, result, registered, code>>
      /\ Sdk!At("print") /\ Sdk!Advance
      /\ Sdk!Touch(ptr, {"tokens"}, {"tokens"})
  BY DEF Sdk!PrintTokens, Sdk!am
<1>2. /\ Types /\ Shape(Sdk!Main) /\ Calls' = Calls /\ Sdk!Main' = Sdk!Main
  BY <1>1, MainShape
<1>3. /\ at \in 1..Len(Calls) /\ at # 0 /\ Len(Calls) \in Nat
      /\ Calls[at] = "print" /\ ptr["tokens"] = "live"
  BY <1>1, <1>2 DEF ProgramInv, Holds, Sdk!At, Types, Shape, Calls
<1>4. request' = "none"
  <2>1. request # "none" => Calls[at] \in Sdk!Requests
    BY DEF ProgramInv, Waiting
  <2> QED  BY <1>1, <1>3, <2>1 DEF Sdk!Requests, Sdk!DeviceRequests
<1>5. ptr' = [v \in Sdk!Pointers |-> IF v \in {"tokens"} THEN "freed"
                                                         ELSE ptr[v]]
  BY <1>1 DEF Sdk!Touch
<1>6. /\ ptr' \in [Sdk!Pointers -> {"null", "wild", "live", "freed"}]
      /\ ptr'["tokens"] = "freed"
      /\ \A v \in {"answer", "first", "second"} : ptr'[v] = ptr[v]
  BY <1>2, <1>5 DEF Types, Sdk!Pointers
<1>7. misused' = misused
  <2>1. misused' = (misused \/ (\E v \in {"tokens"} : ptr[v] # "live")
                           \/ (\E v \in {"tokens"} :
                                    ptr[v] \in {"wild", "freed"}))
    BY <1>1, Zenon DEF Sdk!Touch
  <2>2. /\ ~\E v \in {"tokens"} : ptr[v] # "live"
        /\ ~\E v \in {"tokens"} : ptr[v] \in {"wild", "freed"}
    BY <1>3
  <2> QED  BY <1>2, <2>1, <2>2, Zenon DEF Types
<1>8. /\ at' \in 0..Len(Calls)' /\ status' \in {"error", "good"}
      /\ Done' /\ Waiting' /\ Holds'
  <2>1. PICK n \in Nat : n = at
    BY <1>3
  <2>2. Sdk!Main.keys \cup Sdk!Main.onSuccess
            \subseteq {"answer", "first", "second"}
    BY <1>2 DEF Shape
  <2>3. Past(n)
    BY <1>3, <2>1 DEF ProgramInv, Done
  <2>4. Past(n + 1)'
    <3> HIDE DEF Calls
    <3>1. \A m \in 1..n : m \in 1..(n - 1) \/ m = n
      BY <2>1
    <3>2. \A m \in 1..(n - 1) :
              Calls[m] = "extract" =>
                  \A v \in Sdk!Main.keys \cup Sdk!Main.onSuccess :
                      ptr'[v] \in {"live", "freed"}
      BY <1>6, <2>2, <2>3 DEF Past
    <3> QED
      BY <1>1, <1>2, <1>3, <1>6, <2>1, <2>3, <3>1, <3>2 DEF Past
  <2>5. Calls[n] \notin Sdk!DeviceRequests /\ Calls[n] # "user_tokens"
    BY <1>3, <2>1 DEF Sdk!DeviceRequests
  <2> QED  BY <1>1, <1>3, <1>4, <2>1, <2>4, <2>5, OnToNext
<1>9. Types'
  BY <1>1, <1>2, <1>6, <1>7, <1>8 DEF Types
<1>10. AnswersOnly'
  BY <1>7 DEF ProgramInv, AnswersOnly, Sdk!AnswersOnly
<1> QED  BY <1>8, <1>9, <1>10, TypesSuffice DEF ProgramInv

(* The IEC answers; a registration that it reports is one that AM knows. *)
LEMMA ServeKeeps ==
    ASSUME ProgramInv, NEW ok \in BOOLEAN, Sdk!Serve(ok)
    PROVE  ProgramInv'
<1>1. /\ UNCHANGED <<example, at, ptr, misused, result, status>>
      /\ request = "sent" /\ request' = IF ok THEN "good" ELSE "bad"
      /\ code' = IF ok /\ Sdk!At("user_code") THEN "pending" ELSE code
  BY DEF Sdk!Serve
<1>2. Types /\ Calls' = Calls /\ Sdk!Main' = Sdk!Main
  BY <1>1, MainShape
<1>3. /\ registered' \in BOOLEAN
      /\ registered => registered'
      /\ ok /\ Sdk!At("register") => registered'
  <2>1. registered' = (registered \/ (ok /\ Sdk!At("register")))
    BY Zenon DEF Sdk!Serve
  <2>2. registered \in BOOLEAN
    BY <1>2 DEF Types
  <2> QED  BY <2>1, <2>2, Zenon
<1>4. Types'
  <2>1. code' \in {"none", "pending", "authorised", "expired"}
    BY <1>1, <1>2 DEF Types
  <2>2. request' \in {"none", "sent", "good", "bad"}
    BY <1>1
  <2>3. registered' \in BOOLEAN
    BY <1>3, Zenon
  <2> QED  BY <1>1, <1>2, <2>1, <2>2, <2>3, Zenon DEF Types
<1>5. Done'
  <2> HIDE DEF Calls
  <2>1. ASSUME NEW n, Past(n) PROVE Past(n)'
    <3>1. ptr' = ptr /\ Calls' = Calls /\ Sdk!Main' = Sdk!Main
      BY <1>1, <1>2
    <3>2. registered => registered'
      BY <1>3, Zenon
    <3> QED  BY <2>1, <3>1, <3>2, Zenon DEF Past
  <2>2. (Len(Calls) + 1)' = Len(Calls) + 1
    BY <1>2
  <2> QED  BY <1>1, <2>1, <2>2, Zenon DEF ProgramInv, Done
<1>6. Waiting'
  BY <1>1, <1>2, <1>3 DEF ProgramInv, Waiting, Sdk!At, Calls
<1>7. Holds' /\ AnswersOnly'
  BY <1>1, <1>2
  DEF ProgramInv, Holds, Sdk!At, AnswersOnly, Sdk!AnswersOnly
<1> QED  BY <1>4, <1>5, <1>6, <1>7, TypesSuffice DEF ProgramInv

(* The user, and the time: a program does not see the code. *)
LEMMA CodeKeeps ==
    ASSUME ProgramInv,
           UNCHANGED <<example, at, request, ptr, misused, result, status,
                       registered>>,
           code' \in {"none", "pending", "authorised", "expired"}
    PROVE  ProgramInv'
<1>1. Types /\ Calls' = Calls /\ Sdk!Main' = Sdk!Main
  BY MainShape
<1>2. Types'
  BY <1>1 DEF Types
<1>3. Done' /\ Waiting'
  BY <1>1 DEF ProgramInv, Done, Past, Waiting, Sdk!At
<1>4. Holds' /\ AnswersOnly'
  BY <1>1 DEF ProgramInv, Holds, Sdk!At, AnswersOnly, Sdk!AnswersOnly
<1> QED  BY <1>2, <1>3, <1>4, TypesSuffice DEF ProgramInv

LEMMA RunKeeps ==
    ASSUME ProgramInv, NEW e \in Sdk!Examples, Sdk!Run(e)
    PROVE  ProgramInv'
<1>1. /\ example' = e /\ at' = 1 /\ request' = "none" /\ code' = "none"
      /\ ptr' = [v \in Sdk!Pointers |-> Sdk!MainOf(e).declared]
      /\ result' = "error" /\ status' = "error" /\ UNCHANGED misused
  BY DEF Sdk!Run
<1>2. Sdk!Main' = Sdk!MainOf(e) /\ Shape(Sdk!MainOf(e))
  BY <1>1, Shapes DEF Sdk!Main
<1>3. /\ Len(Calls') \in Nat /\ Len(Calls') >= 1
      /\ Calls'[1] \in {"attributes", "initialise"}
      /\ ptr' \in [Sdk!Pointers -> {"null", "wild", "live", "freed"}]
  BY <1>1, <1>2 DEF Shape, Calls
<1>4. registered' \in BOOLEAN
  BY Zenon DEF Sdk!Run
<1>5. Types'
  BY <1>1, <1>3, <1>4, MainShape DEF Types
<1>6. Done' /\ Waiting'
  BY <1>1 DEF Done, Past, Waiting
<1>7. Holds' /\ AnswersOnly'
  BY <1>1, <1>3
  DEF ProgramInv, Holds, Sdk!At, Calls, AnswersOnly, Sdk!AnswersOnly
<1> QED  BY <1>5, <1>6, <1>7, TypesSuffice DEF ProgramInv

LEMMA NextProgram ==
    ProgramInv /\ (Sdk!Next \/ UNCHANGED sdkVars) => ProgramInv'
<1>1. ASSUME ProgramInv, UNCHANGED sdkVars
      PROVE  ProgramInv'
  BY <1>1, CodeKeeps, MainShape DEF sdkVars, Types
<1>2. ASSUME ProgramInv, Sdk!Steps
      PROVE  ProgramInv'
  BY <1>2, AttributesKeep, SendKeeps, ReturnKeeps, PrintKeeps, ExtractKeeps
  DEF Sdk!Steps
<1>3. ASSUME ProgramInv, Sdk!Authorise \/ Sdk!CodeExpires
      PROVE  ProgramInv'
  <2>1. /\ UNCHANGED <<example, at, request, ptr, misused, result, status,
                       registered>>
        /\ code' \in {"authorised", "expired"}
    BY <1>3 DEF Sdk!Authorise, Sdk!CodeExpires, Sdk!program
  <2> QED  BY <1>3, <2>1, CodeKeeps
<1> QED
  BY <1>1, <1>2, <1>3, TimeoutKeeps, RunKeeps, ServeKeeps DEF Sdk!Next

(* main has been through all its calls when it returns success. *)
LEMMA DoneIsDone == ProgramInv => GoodMeansDone
<1> SUFFICES ASSUME ProgramInv, at = 0, status = "good"
             PROVE  /\ "register" \in {Sdk!Main.calls[n] :
                                      n \in 1..Len(Sdk!Main.calls)} =>
                           registered
                    /\ \A v \in Sdk!Main.keys \cup Sdk!Main.onSuccess :
                           ptr[v] \in {"live", "freed"}
                    /\ example = "get_user_tokens" => ptr["tokens"] = "freed"
  BY DEF GoodMeansDone, Sdk!GoodMeansDone
<1>1. Types /\ Shape(Sdk!Main) /\ Len(Calls) \in Nat /\ Len(Calls) >= 1
  BY MainShape DEF Shape, Calls
<1>2. Past(Len(Calls) + 1)
  BY DEF ProgramInv, Done
<1>3. \A m \in 1..Len(Calls) :
        /\ Calls[m] = "register" => registered
        /\ Calls[m] = "extract" =>
              \A v \in Sdk!Main.keys \cup Sdk!Main.onSuccess :
                  ptr[v] \in {"live", "freed"}
        /\ Calls[m] = "print" => ptr["tokens"] = "freed"
  BY <1>1, <1>2 DEF Past
<1>4. Sdk!Main.keys \cup Sdk!Main.onSuccess # {} =>
          \E n \in 1..Len(Calls) : Calls[n] = "extract"
  BY <1>1 DEF Shape, Calls
<1>5. example = "get_user_tokens" => Calls[Len(Calls)] = "print"
  BY <1>1, Shapes DEF Types, Calls, Sdk!Main
<1> HIDE DEF Shape
<1> QED  BY <1>1, <1>3, <1>4, <1>5 DEF Calls

----------------------------------------------------------------------------
(* The two together. *)

TrainingInv == ServiceInv /\ ProgramInv

LEMMA Invariant == TrainingSpec => []TrainingInv
<1>1. TrainingInit => TrainingInv
  BY InitService, InitProgram DEF TrainingInit, TrainingInv
<1>2. TrainingInv /\ [TrainingNext]_all => TrainingInv'
  <2> SUFFICES ASSUME TrainingInv, [TrainingNext]_all
               PROVE  TrainingInv'
    OBVIOUS
  <2>1. CASE RunExample
    BY <2>1, NextService, NextProgram DEF RunExample, TrainingInv
  <2>2. CASE RunService
    BY <2>2, NextService, NextProgram DEF RunService, TrainingInv
  <2>3. CASE UNCHANGED all
    BY <2>3, NextService, NextProgram DEF all, TrainingInv
  <2> QED  BY <2>1, <2>2, <2>3 DEF TrainingNext
<1> QED  BY <1>1, <1>2, PTL DEF TrainingSpec

(* Whatever is typed into however many shells, and wherever a program is   *)
(* when it ends, the variables of commands.sh and of the seven programs    *)
(* stay in their types; so does what the shells have still to do, which is *)
(* never more than the rest of one function.                               *)
THEOREM TypeCorrect == TrainingSpec => []TypesOK
<1>1. TrainingInv => TypesOK
  BY DEF TrainingInv, ServiceInv, ProgramInv, TypesOK
<1> QED  BY <1>1, Invariant, PTL

(* When start_iec_service has ended with no killed process on its way out, *)
(* a process that runs or comes up is there until one breaks down or is    *)
(* killed, for any number of shells that start and stop the service side   *)
(* by side: a process that cannot bind the endpoint ends, and leaves the   *)
(* one that has bound it.                                                  *)
THEOREM Started == TrainingSpec => []StartedServes
<1>1. TrainingInv => StartedServes
  BY DEF TrainingInv, ServiceInv, StartedServes
<1> QED  BY <1>1, Invariant, PTL

(* When stop_iec_service has said that the service has stopped, and no     *)
(* child of another start was before its exec then, no process is left     *)
(* that runs or comes up, until the next launch of any shell.              *)
THEOREM Stopped == TrainingSpec => []StoppedGone
<1>1. TrainingInv => StoppedGone
  BY DEF TrainingInv, ServiceInv
<1> QED  BY <1>1, Invariant, PTL

(* On no path of failures does one of the seven programs read or free a    *)
(* pointer that the SDK has not filled, whenever the service goes and      *)
(* comes back.                                                             *)
THEOREM OnlyAnswersTouched == TrainingSpec => []AnswersOnly
<1>1. TrainingInv => AnswersOnly
  BY DEF TrainingInv, ProgramInv
<1> QED  BY <1>1, Invariant, PTL

(* An exit status of 0 means that the program has done what it is about:   *)
(* AM knows the device, and every answer that it prints has come.          *)
THEOREM StatusTellsTruth == TrainingSpec => []GoodMeansDone
<1>1. TrainingInv => GoodMeansDone
  BY DoneIsDone DEF TrainingInv
<1> QED  BY <1>1, Invariant, PTL
============================================================================

------------------------------ MODULE IecService ------------------------------
(***************************************************************************)
(* The functions of iec/commands.sh that install, start and stop the IEC   *)
(* service.  They know the service through pgrep and pkill only: a child   *)
(* that bash has forked is not named iecservice before its exec, a killed  *)
(* process is listed until it is gone, and two process numbers in          *)
(* [ `pgrep` ] are an error of the test, which counts as false.            *)
(***************************************************************************)
EXTENDS FiniteSets, Sequences

CONSTANTS
    Shells,  \* the shells that call the functions
    Procs    \* bound: processes of the service at a time

VARIABLES
    todo,      \* what each shell has still to do
    proc,      \* the processes
    installed, \* install.sh has put the service in its place
    started,   \* history: the last start ended with none dying, nothing since
    stopped    \* history: the last stop said so, and nothing since

vars == <<todo, proc, installed, started, stopped>>

Functions == {<<"install">>, <<"start">>, <<"stop">>, <<"install", "start">>}

TypeOK ==
    /\ todo \in [Shells -> Functions \cup {<<>>, <<"launch">>, <<"kill">>}]
    /\ proc \in [Procs -> {"none", "forked", "booting", "serving", "dying"}]
    /\ installed \in BOOLEAN /\ started \in BOOLEAN /\ stopped \in BOOLEAN

Init ==
    /\ todo = [s \in Shells |-> <<>>]
    /\ proc = [p \in Procs |-> "none"]
    /\ installed = FALSE /\ started = FALSE /\ stopped = FALSE

In(state) == {p \in Procs : proc[p] = state}
Alive     == In("forked") \cup In("booting") \cup In("serving")

(* pgrep -x iecservice *)
pgrep == Procs \ (In("none") \cup In("forked"))

----------------------------------------------------------------------------
Call(s, f) ==
    /\ todo[s] = <<>>
    /\ todo' = [todo EXCEPT ![s] = f]
    /\ UNCHANGED <<proc, installed, started, stopped>>

Now(s, step, rest) ==
    /\ todo[s] # <<>> /\ Head(todo[s]) = step
    /\ todo' = [todo EXCEPT ![s] = rest \o Tail(@)]

(* Nothing looks at what tar, sed and install.sh return. *)
install_iec_service(s, ok) ==
    /\ Now(s, "install", <<>>)
    /\ installed' = (installed \/ ok)
    /\ UNCHANGED <<proc, started, stopped>>

(* Mutant: any line of ps counts, also that of the shell itself. *)
TestMatchesShell(s) ==
    /\ Now(s, "start", <<>>)
    /\ started' = (In("dying") = {})
    /\ UNCHANGED <<proc, installed, stopped>>

(* if [ `pgrep -x iecservice` ] ; then ... return 0 *)
start_iec_service(s) ==
    /\ \/ /\ Cardinality(pgrep) = 1
          /\ Now(s, "start", <<>>)
          /\ started' = (In("dying") = {})
       \/ /\ Cardinality(pgrep) # 1
          /\ Now(s, "start", <<"launch">>)
          /\ UNCHANGED started
    /\ UNCHANGED <<proc, installed, stopped>>

(* iecservice &: the status of a job in the background is always zero. *)
Launch(s) ==
    /\ Now(s, "launch", <<>>)
    /\ \E p \in In("none") : proc' = [proc EXCEPT ![p] = "forked"]
    /\ started' = (In("dying") = {}) /\ stopped' = FALSE
    /\ UNCHANGED installed

stop_iec_service(s) ==
    /\ \/ Cardinality(pgrep) = 1 /\ Now(s, "stop", <<"kill">>)
       \/ Cardinality(pgrep) # 1 /\ Now(s, "stop", <<>>)
    /\ UNCHANGED <<proc, installed, started, stopped>>

(* Mutant: pkill without -9, which a service that is still booting ignores. *)
KillServing(s) ==
    /\ Now(s, "kill", <<>>)
    /\ proc' = [p \in Procs |-> IF p \in In("serving") THEN "dying" ELSE proc[p]]
    /\ started' = FALSE
    /\ stopped' = (In("forked") = {})
    /\ UNCHANGED installed

(* pkill -9 iecservice *)
Kill(s) ==
    /\ Now(s, "kill", <<>>)
    /\ proc' = [p \in Procs |-> IF p \in pgrep THEN "dying" ELSE proc[p]]
    /\ started' = FALSE
    /\ stopped' = (In("forked") = {})
    /\ UNCHANGED installed

Shell(s) == \/ \E f \in Functions : Call(s, f)
            \/ \E ok \in BOOLEAN : install_iec_service(s, ok)
            \/ start_iec_service(s) \/ Launch(s)
            \/ stop_iec_service(s) \/ Kill(s)

----------------------------------------------------------------------------
(* The processes (external).  The first to bind the endpoint serves; a     *)
(* service that cannot bind it ends, and one that dies may still hold it;  *)
(* a service may break down, and one that is not installed does not run.   *)

Becomes(p, from, to) ==
    /\ proc[p] = from
    /\ proc' = [proc EXCEPT ![p] = to]
    /\ UNCHANGED <<todo, installed, stopped>>

Exec(p) ==
    installed /\ Becomes(p, "forked", "booting") /\ UNCHANGED started

Bind(p) ==
    /\ In("serving") = {}
    /\ Becomes(p, "booting", "serving") /\ UNCHANGED started

Refused(p) ==
    /\ In("serving") \cup In("dying") # {}
    /\ Becomes(p, "booting", "none") /\ UNCHANGED started

Gone(p) == Becomes(p, "dying", "none") /\ UNCHANGED started

Breaks(p) ==
    /\ \E state \in {"forked", "booting", "serving"} : Becomes(p, state, "none")
    /\ started' = FALSE

Process(p) == Exec(p) \/ Bind(p) \/ Refused(p) \/ Gone(p) \/ Breaks(p)

Next == (\E s \in Shells : Shell(s)) \/ (\E p \in Procs : Process(p))

Spec == Init /\ [][Next]_vars

----------------------------------------------------------------------------
(* A start is as good as its word: when it has ended, with no process on   *)
(* its way out, a service runs or comes up until it breaks down or a stop  *)
(* kills it, however many shells start it side by side and although the    *)
(* test sees neither a child before its exec nor what two numbers mean     *)
(* (commands.sh:38-50).  A start right after a stop may find the dying     *)
(* process and leave nothing: the condition on those that die is needed.   *)
StartedServes == started => Alive # {}

(* A stop that says "IEC Service stopped", with no child of another start  *)
(* before its exec, leaves none behind until the next start, whichever     *)
(* processes were booting, serving or refused (commands.sh:55-62).         *)
StoppedGone == stopped => Alive = {}
==============================================================================

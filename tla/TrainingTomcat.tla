---------------------------- MODULE TrainingTomcat ----------------------------
(***************************************************************************)
(* The bash functions that control Tomcat in the AM container of the       *)
(* training environment (training/am/commands.sh): they launch or stop the *)
(* server and learn what became of it from its log, catalina.out, which    *)
(* they read every two seconds for at most a minute.                       *)
(*                                                                         *)
(* The user calls one function after the other.  Tomcat is external: it    *)
(* may hang in any state.  One that outlives its stop goes on beside the   *)
(* next one, with the ports, and writes to a file that has been removed.   *)
(***************************************************************************)
EXTENDS Naturals, Sequences

CONSTANT Wait  \* count=30, the reads of the log before a function gives up

ASSUME WaitAssumption == Wait \in Nat \ {0}

VARIABLES
    todo,   \* shell: the functions that the running one has still to call
    pc,     \* shell: where the running function is
    count,  \* shell: the variable of the two wait loops
    said,   \* shell: what the last start_tomcat or stop_tomcat has printed
    log,    \* the messages in catalina.out
    cur,    \* the server that was launched last
    old,    \* an earlier server is still running
    booted, \* history: the last server has completed its startup
    gaveUp  \* history: the last stop_tomcat has not seen the shutdown

shell  == <<todo, pc, count, said>>
server == <<log, cur, old, booted>>
vars   == <<shell, server, gaveUp>>

TypeOK ==
    /\ todo \in {<<>>, <<"start">>, <<"stop", "start">>}
    /\ pc \in {"prompt", "clean", "launch", "startup", "stop", "shutdown"}
    /\ count \in 0..Wait
    /\ said \in {"nothing", "started", "failed", "stopped"}
    /\ log \subseteq {"startup", "destroy"}
    /\ cur \in {"none", "booting", "serving", "stopping", "exiting"}
    /\ {old, booted, gaveUp} \subseteq BOOLEAN

(* The image has been built with install_am, which leaves its log behind. *)
Init ==
    /\ todo = <<>> /\ pc = "prompt" /\ count = 0 /\ said = "nothing"
    /\ log = {"startup"} /\ cur = "none"
    /\ old = FALSE /\ booted = FALSE /\ gaveUp = FALSE

----------------------------------------------------------------------------
(* The shell. *)

Entry(f) == IF f = "start" THEN "clean" ELSE "stop"

(* The user calls start_tomcat, stop_tomcat, restart_tomcat, or            *)
(* quick_install, which starts Tomcat and restarts it after configuring.   *)
Call(fs) ==
    /\ pc = "prompt" /\ todo = <<>>
    /\ pc' = Entry(Head(fs)) /\ todo' = Tail(fs)
    /\ UNCHANGED <<count, said, server, gaveUp>>

start_tomcat   == Call(<<"start">>)
stop_tomcat    == Call(<<"stop">>)
restart_tomcat == Call(<<"stop", "start">>)
quick_install  == Call(<<"start", "stop", "start">>)

(* A function returns; what has called it goes on. *)
Return(message) ==
    /\ said' = message
    /\ IF todo = <<>>
       THEN pc' = "prompt" /\ UNCHANGED todo
       ELSE pc' = Entry(Head(todo)) /\ todo' = Tail(todo)

(* Mutant: the log of the previous server is kept. *)
KeepLog ==
    /\ pc = "clean" /\ pc' = "launch"
    /\ UNCHANGED <<todo, count, said, server, gaveUp>>

(* The log goes first, so that no earlier message is read. *)
CleanLog ==
    /\ pc = "clean" /\ pc' = "launch"
    /\ log' = {}
    /\ UNCHANGED <<todo, count, said, cur, old, booted, gaveUp>>

Launch ==
    /\ pc = "launch" /\ pc' = "startup"
    /\ count' = Wait
    /\ cur' = "booting" /\ old' = (old \/ cur # "none") /\ booted' = FALSE
    /\ UNCHANGED <<todo, said, log, gaveUp>>

(* One turn of a wait loop: the message is not in the log yet. *)
Sleep(place, message) ==
    /\ pc = place /\ message \notin log /\ count > 0
    /\ count' = count - 1
    /\ UNCHANGED <<todo, pc, said, server, gaveUp>>

(* Mutant: the loop forgets to count. *)
WaitForStartupUncounted ==
    /\ pc = "startup" /\ "startup" \notin log
    /\ UNCHANGED vars

WaitForStartup  == Sleep("startup", "startup")
WaitForShutdown == Sleep("shutdown", "destroy")

Started ==
    /\ pc = "startup" /\ "startup" \in log /\ count > 0
    /\ Return("started")
    /\ UNCHANGED <<count, server, gaveUp>>

(* Mutant: only the server that was launched is killed. *)
KillLaunched ==
    /\ pc = "startup" /\ count = 0
    /\ cur' = "none"
    /\ Return("failed")
    /\ UNCHANGED <<count, log, old, booted, gaveUp>>

(* The count has run out: every Tomcat is killed. *)
StartFailed ==
    /\ pc = "startup" /\ count = 0
    /\ cur' = "none" /\ old' = FALSE
    /\ Return("failed")
    /\ UNCHANGED <<count, log, booted, gaveUp>>

(* catalina.sh stop: a server that serves begins to shut down. *)
Stop ==
    /\ pc = "stop" /\ pc' = "shutdown"
    /\ count' = Wait
    /\ cur' = IF cur = "serving" THEN "stopping" ELSE cur
    /\ UNCHANGED <<todo, said, log, old, booted, gaveUp>>

(* [[ count == 0 ]] compares two words that differ, and is never true. *)
Stopped ==
    /\ pc = "shutdown" /\ ("destroy" \in log \/ count = 0)
    /\ gaveUp' = ("destroy" \notin log)
    /\ Return("stopped")
    /\ UNCHANGED <<count, server>>

Shell == \/ CleanLog \/ Launch \/ WaitForStartup \/ Started \/ StartFailed
         \/ Stop \/ WaitForShutdown \/ Stopped

----------------------------------------------------------------------------
(* Tomcat.  A server without its ports ends after its startup. *)

(* Between rm and the next launch there is no catalina.out to write to. *)
Logs(message) == log' = IF pc = "launch" THEN log ELSE log \cup {message}

Boot ==
    /\ cur = "booting"
    /\ cur' = IF old THEN "stopping" ELSE "serving"
    /\ Logs("startup")
    /\ booted' = TRUE
    /\ UNCHANGED <<shell, old, gaveUp>>

ShutDown ==
    /\ cur = "stopping" /\ cur' = "exiting"
    /\ Logs("destroy")
    /\ UNCHANGED <<shell, old, booted, gaveUp>>

(* A server ends after its shutdown, or breaks down. *)
Exit ==
    /\ cur # "none" /\ cur' = "none"
    /\ UNCHANGED <<shell, log, old, booted, gaveUp>>

OldExits ==
    /\ old /\ old' = FALSE
    /\ UNCHANGED <<shell, log, cur, booted, gaveUp>>

Next == \/ start_tomcat \/ stop_tomcat \/ restart_tomcat \/ quick_install
        \/ Shell
        \/ Boot \/ ShutDown \/ Exit \/ OldExits

Spec == Init /\ [][Next]_vars

(* The shell runs on; Tomcat and the user are under no obligation. *)
FairSpec == Spec /\ WF_vars(Shell)

----------------------------------------------------------------------------
(* start_tomcat says "Server started" only of the server that it has       *)
(* launched itself, never because of a message of an earlier one           *)
(* (commands.sh:35-36, 44, 55).                                            *)
StartedThisOne == said = "started" /\ pc # "startup" => booted

(* A failed start leaves no server behind, not even one that has outlived  *)
(* an earlier stop (commands.sh:49-53).                                    *)
FailedStartLeavesNone ==
    said = "failed" /\ pc = "prompt" => cur = "none" /\ ~old

(* A stop_tomcat that has not given up has seen the shutdown of the last   *)
(* server, not of one before it (commands.sh:62-81).                       *)
StoppedThisOne ==
    said = "stopped" /\ ~gaveUp /\ pc = "prompt" => cur \in {"none", "exiting"}

(* Every function comes back to the prompt, whatever hangs in Tomcat       *)
(* (commands.sh:42-47, 67-72).                                             *)
FunctionsReturn == pc # "prompt" ~> pc = "prompt"

(* What the comment at commands.sh:74 says: a Tomcat that does not stop in *)
(* time is killed.                                                         *)
StopKills == said = "stopped" /\ pc = "prompt" => cur \in {"none", "exiting"}
==============================================================================

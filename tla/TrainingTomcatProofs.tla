------------------------- MODULE TrainingTomcatProofs -------------------------
(***************************************************************************)
(* The functions of the training environment tell the truth about the      *)
(* server they have launched or stopped, however long they wait for it.    *)
(* The invariant says what a message in catalina.out stands for.           *)
(***************************************************************************)
EXTENDS TrainingTomcat, TLAPS

(* A message in the log comes from the server that was launched last. *)
Messages ==
    /\ pc = "launch" => log = {}
    /\ pc = "startup" /\ "startup" \in log => booted
    /\ "destroy" \in log => cur \in {"exiting", "none"}

IInv == /\ TypeOK
        /\ Messages
        /\ StartedThisOne
        /\ FailedStartLeavesNone
        /\ StoppedThisOne

LEMMA InitIInv == Init => IInv
<1> SUFFICES ASSUME Init PROVE IInv
  OBVIOUS
<1>1. TypeOK
  <2>1. old \in BOOLEAN /\ booted \in BOOLEAN /\ gaveUp \in BOOLEAN
    BY Zenon DEF Init
  <2>2. /\ todo \in {<<>>, <<"start">>, <<"stop", "start">>}
        /\ count \in 0..Wait
    BY WaitAssumption DEF Init
  <2> QED  BY <2>1, <2>2 DEF Init, TypeOK
<1>2. Messages /\ StartedThisOne /\ FailedStartLeavesNone /\ StoppedThisOne
  BY DEF Init, Messages, StartedThisOne, FailedStartLeavesNone, StoppedThisOne
<1> QED  BY <1>1, <1>2 DEF IInv

(* What is left to call stays one of three sequences. *)
LEMMA CallSteps ==
    ASSUME NEW fs \in {<<"start">>, <<"stop">>, <<"stop", "start">>,
                       <<"start", "stop", "start">>}
    PROVE  /\ Entry(Head(fs)) \in {"clean", "stop"}
           /\ Tail(fs) \in {<<>>, <<"start">>, <<"stop", "start">>}
<1>1. CASE fs = <<"start">>
  BY <1>1 DEF Entry
<1>2. CASE fs = <<"stop">>
  BY <1>2 DEF Entry
<1>3. CASE fs = <<"stop", "start">>
  BY <1>3 DEF Entry
<1>4. CASE fs = <<"start", "stop", "start">>
  BY <1>4 DEF Entry
<1> QED  BY <1>1, <1>2, <1>3, <1>4

LEMMA ReturnSteps ==
    ASSUME TypeOK, NEW message, Return(message)
    PROVE  /\ said' = message
           /\ pc' \in {"prompt", "clean", "stop"}
           /\ todo' \in {<<>>, <<"start">>, <<"stop", "start">>}
<1>1. CASE todo = <<>>
  BY <1>1 DEF Return
<1>2. CASE todo # <<>>
  <2>1. todo \in {<<"start">>, <<"stop", "start">>}
    BY <1>2 DEF TypeOK
  <2>2. pc' = Entry(Head(todo)) /\ todo' = Tail(todo) /\ said' = message
    BY <1>2 DEF Return
  <2> QED  BY <2>1, <2>2, CallSteps
<1> QED  BY <1>1, <1>2

LEMMA NextIInv == IInv /\ [Next]_vars => IInv'
<1> SUFFICES ASSUME IInv, [Next]_vars PROVE IInv'
  OBVIOUS
<1> USE WaitAssumption
    DEF IInv, TypeOK, Messages, StartedThisOne, FailedStartLeavesNone,
        StoppedThisOne, shell, server
<1>1. ASSUME NEW fs \in {<<"start">>, <<"stop">>, <<"stop", "start">>,
                         <<"start", "stop", "start">>},
             Call(fs)
      PROVE  IInv'
  <2>1. /\ pc' \in {"clean", "stop"}
        /\ todo' \in {<<>>, <<"start">>, <<"stop", "start">>}
        /\ UNCHANGED <<count, said, log, cur, old, booted, gaveUp>>
        /\ pc = "prompt"
    BY <1>1, CallSteps DEF Call
  <2> QED  BY <2>1
<1>2. CASE start_tomcat \/ stop_tomcat \/ restart_tomcat \/ quick_install
  BY <1>1, <1>2 DEF start_tomcat, stop_tomcat, restart_tomcat, quick_install
<1>3. CASE CleanLog
  BY <1>3 DEF CleanLog
<1>4. CASE Launch
  <2>1. old' \in BOOLEAN /\ booted' \in BOOLEAN
    BY <1>4, Zenon DEF Launch
  <2> QED  BY <1>4, <2>1 DEF Launch
<1>5. ASSUME NEW place, NEW message, Sleep(place, message) PROVE IInv'
  BY <1>5 DEF Sleep
<1>6. CASE Started
  <2>1. /\ said' = "started" /\ pc' \in {"prompt", "clean", "stop"}
        /\ todo' \in {<<>>, <<"start">>, <<"stop", "start">>}
    BY <1>6, ReturnSteps DEF Started
  <2> QED  BY <1>6, <2>1 DEF Started
<1>7. CASE StartFailed
  <2>1. /\ said' = "failed" /\ pc' \in {"prompt", "clean", "stop"}
        /\ todo' \in {<<>>, <<"start">>, <<"stop", "start">>}
    BY <1>7, ReturnSteps DEF StartFailed
  <2> QED  BY <1>7, <2>1 DEF StartFailed
<1>8. CASE Stop
  BY <1>8 DEF Stop
<1>9. CASE Stopped
  <2>1. /\ said' = "stopped" /\ pc' \in {"prompt", "clean", "stop"}
        /\ todo' \in {<<>>, <<"start">>, <<"stop", "start">>}
    BY <1>9, ReturnSteps DEF Stopped
  <2>2. gaveUp' \in BOOLEAN
    BY <1>9, Zenon DEF Stopped
  <2> QED  BY <1>9, <2>1, <2>2 DEF Stopped
<1>10. CASE Boot
  BY <1>10 DEF Boot, Logs
<1>11. CASE ShutDown
  BY <1>11 DEF ShutDown, Logs
<1>12. CASE Exit \/ OldExits
  BY <1>12 DEF Exit, OldExits
<1>13. CASE UNCHANGED vars
  BY <1>13 DEF vars
<1> QED
  BY <1>2, <1>3, <1>4, <1>5, <1>6, <1>7, <1>8, <1>9, <1>10, <1>11, <1>12,
     <1>13, Zenon DEF Next, Shell, WaitForStartup, WaitForShutdown

THEOREM Inductive == Spec => []IInv
<1> QED  BY InitIInv, NextIInv, PTL DEF Spec

----------------------------------------------------------------------------
(* Every variable keeps its type (commands.sh:34-91). *)
THEOREM TypeCorrect == Spec => []TypeOK
<1>1. IInv => TypeOK
  BY DEF IInv
<1> QED  BY <1>1, Inductive, PTL

(* start_tomcat reports the startup of its own server only                 *)
(* (commands.sh:35-36, 44, 55).                                            *)
THEOREM TrueStart == Spec => []StartedThisOne
<1>1. IInv => StartedThisOne
  BY DEF IInv
<1> QED  BY <1>1, Inductive, PTL

(* A failed start leaves no server behind (commands.sh:49-53). *)
THEOREM CleanFailure == Spec => []FailedStartLeavesNone
<1>1. IInv => FailedStartLeavesNone
  BY DEF IInv
<1> QED  BY <1>1, Inductive, PTL

(* A stop_tomcat that has seen a shutdown has seen that of the last server *)
(* (commands.sh:62-81).                                                    *)
THEOREM TrueStop == Spec => []StoppedThisOne
<1>1. IInv => StoppedThisOne
  BY DEF IInv
<1> QED  BY <1>1, Inductive, PTL
==============================================================================

------------------------------- MODULE Training -------------------------------
(***************************************************************************)
(* The training environment without AM's container: the SDK examples run   *)
(* against an IEC service that shells install, start and stop under them.  *)
(***************************************************************************)
EXTENDS IecService

VARIABLES example, at, request, ptr, misused, result, status, registered, code

Sdk == INSTANCE SdkExamples WITH up <- In("serving") # {}

sdkVars == <<example, at, request, ptr, misused, result, status, registered,
             code>>
all     == <<vars, sdkVars>>

TypesOK == TypeOK /\ Sdk!TypeOK

TrainingInit == Init /\ Sdk!Init

RunExample == Sdk!Next /\ UNCHANGED vars
RunService == Next /\ UNCHANGED sdkVars

TrainingNext == RunExample \/ RunService

TrainingSpec == TrainingInit /\ [][TrainingNext]_all

----------------------------------------------------------------------------
AnswersOnly   == Sdk!AnswersOnly
GoodMeansDone == Sdk!GoodMeansDone
==============================================================================

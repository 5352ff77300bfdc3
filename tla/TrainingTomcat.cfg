SPECIFICATION FairSpec
CONSTANT Wait = 3
INVARIANTS StartedThisOne FailedStartLeavesNone
PROPERTY FunctionsReturn

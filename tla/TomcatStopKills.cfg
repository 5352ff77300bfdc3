SPECIFICATION Spec
CONSTANT Wait = 3
INVARIANT StopKills

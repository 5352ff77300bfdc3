SPECIFICATION TrainingSpec
CONSTANTS
    Shells = {a, b}
    Procs = {p1, p2}
INVARIANTS
    TypesOK
    StartedServes
    StoppedGone
    AnswersOnly
    GoodMeansDone

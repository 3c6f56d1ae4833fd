SPECIFICATION Spec
CONSTANTS
    Workers = {w1, w2, w3}
    Tasks = {a, b, c, d}
    NoTask = NoTask
INVARIANTS
    TypeOK
    NoIdleWorker
PROPERTIES
    EveryTaskRuns
    DestructorReturns
    RunsEachTaskOnce

\* Two workers, one automation, overlapping requests, a run and a crash.
SPECIFICATION Spec
CONSTANTS
    a1 = a1  ann = ann  w1 = w1  w2 = w2  None = None
    Automations = {a1}
    Owner <- OneOwner
    Users = {ann}
    Providers = {"github", "slack"}
    Prompts <- OnePrompt
    Older <- AllOrNone
    Crons = {"hourly"}
    BadCrons = {"never"}
    Workers = {w1, w2}
    MaxRequests = 3
    MaxInFlight = 2
    MaxRuns = 1
    MaxCrashes = 1
INVARIANTS
    TypeOK
    SchedulerAgrees
    QuietWhenOff
    ConnectorWasAskedFor
SYMMETRY WorkerSymmetry
CHECK_DEADLOCK FALSE

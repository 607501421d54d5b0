SPECIFICATION Spec
CONSTANTS
    t1 = t1
    t2 = t2
    v1 = v1
    None = None
    Agent = Agent
    Human = Human
    Undo <- MCUndo
    Tasks <- MCTasks
    Clashes <- MCClashes
    Privileged <- MCPrivileged
    MaxSubmissions = 2
    MaxDisturbances = 1
    MaxPublished = 2
INVARIANTS
    LandingSafe
    ProvenanceKept
PROPERTIES
    PushesAreAuthorized
    UndoneStaysUndone
CONSTRAINT FirstFirst
CHECK_DEADLOCK FALSE

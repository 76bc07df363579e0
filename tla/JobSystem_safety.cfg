SPECIFICATION Spec
CONSTANTS
    Thread = {p1, p2, c1, c2}
    NoThread = NoThread
    Producer = {p1, p2}
    Consumer = {c1, c2}
    Capacity = 4
    InitJobs = 2
    MAX_CHILD_JOBS = 2
    MaxAdds = 1
INVARIANTS
    JInv
    FirstReaderNeverBlocks
    DependencyOrder
    TreeShape
    ChildListBounded
    QueueNeverFull
    QuitsOnlyWhenDone
    ReportComplete
    NoWaitCycle
PROPERTIES
    NoOvertaking
    RWImplementsAbs
    ClosedAfterRoot
    ImplementsTree
SYMMETRY Symmetry

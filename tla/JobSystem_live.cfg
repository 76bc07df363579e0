SPECIFICATION FairSpec
CONSTANTS
    Thread = {p1, p2, c1}
    NoThread = NoThread
    Producer = {p1, p2}
    Consumer = {c1}
    Capacity = 4
    InitJobs = 2
    MAX_CHILD_JOBS = 3
    MaxAdds = 1
PROPERTIES
    JobMutexReleased
    StartedCompletes
    RootEndsAll
    WriterGetsIn

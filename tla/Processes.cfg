SPECIFICATION ProcessesSpec
CONSTANTS
    Steps = 2
    LeaseSeconds = 2
    MaxClock = 4
    MaxFaults = 1
    Processes = {p1, p2}
    MaxSessions = 3
    RemoteCommands <- AllCommands
    MaxRuns = 2
    MaxVersion = 3
    MaxChange = 2
    MaxPolls = 2
    Publishers = {u1, u2}
    Names <- OutputNames
    MaxForeign = 1
    MaxFailures = 1
INVARIANTS SessionsKept
PROPERTIES CommandsHonest ThreadsAgree FilesKept ProcessesEnd
\* run_once has returned, or a command has ended.
CHECK_DEADLOCK FALSE

SPECIFICATION RecSpec
CONSTANTS
    p = p
    q = q
    NoFile = NoFile
    Broken = Broken
    Scripts <- MCScripts
    Outcomes <- MCOutcomes
    MaxRuns = 3
INVARIANTS
    ReplayRepeats
    RecordingIsOneRun
PROPERTIES
    CommandsEnd
CHECK_DEADLOCK FALSE

CONSTANTS
    absent = absent
    garbled = garbled
    noConfig = noConfig
    noAddr = noAddr
    noKey = noKey
    operatorKey = operatorKey
    defaultAddr = defaultAddr
    port9 = port9
    badAddr = badAddr
    s1 = s1
    s2 = s2
    DefaultAddr = defaultAddr
    NoAddr = noAddr
    NoKey = noKey
    HostPort <- MCHostPort
    ReadTimeout = 2
    WriteTimeout = 2
    Slot = {s1}
    AttemptTimeout = 1
    Backoff = 1
    DrainTimeout = 3
    Installations <- MCInstallations
    FlagSets <- MCFlagSets
    EnvSets <- MCEnvSets
    NoConfig = noConfig
    Absent = absent
    Garbled = garbled
    Cuts = {0, 3, 5}
    MaxAge = 7
    MaxWait = 1
    MaxStarts = 2
    MaxRequests = 2
SPECIFICATION FairSpec
INVARIANTS
    TypeOK
    RestartsAlike
    SchemaGapsExplained
    DrainCutsOnlyDeadAnswers
    WaitsBounded
    KeysAccounted
PROPERTIES
    DrainAdvances
    SignalEndsProcess
CHECK_DEADLOCK FALSE

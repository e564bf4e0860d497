SPECIFICATION Spec
CONSTANTS
    Ip = {i1, i2}
    Rpm = 40
    HeartbeatRpm = 80
    Burst = 2
    TicksPerSecond = 2
    IdleLimit = 3
    MaxTime = 8
INVARIANTS TypeOK RetryAfterHonest
PROPERTIES ImplementsMeter

SPECIFICATION Spec
CONSTANTS
    MidiPoll = MidiPoll
    SoundPoll = SoundPoll
    Dev = Dev
    Big = Big
    NoTimer = NoTimer
    Devices = {}
    BigTimers <- MCBigTimers
    Half = 6
    Frac = 2
    PollDelay <- MCPollDelay
    Delays <- MCDelays
    Periods = {1, 3}
    MAX_USEC = 1
    TIMER_USEC = 2
    MaxDelay = 3
    MaxStep = 2
    RearmWhileRunning = TRUE
INVARIANT PeriodExact

SPECIFICATION FairSpec
CONSTANTS
    MidiPoll = MidiPoll
    SoundPoll = SoundPoll
    Dev = Dev
    Big = Big
    NoTimer = NoTimer
    Devices <- MCDevices
    BigTimers = {}
    Half = 6
    Frac = 2
    PollDelay <- MCPollDelay
    Delays <- LiveDelays
    Periods = {1, 3}
    MAX_USEC = 1
    TIMER_USEC = 2
    MaxDelay = 3
    MaxStep = 2
    RearmWhileRunning = FALSE
PROPERTIES
    ProcessTerminates
    PollsForever

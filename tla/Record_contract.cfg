SPECIFICATION Spec
CONSTANTS
    u1 = u1
    u2 = u2
    u3 = u3
    w1 = w1
    NoWave = NoWave
    NoPapers = NoPapers
    Units = {u1, u2}
    Named = {u1, u2, u3}
    PerSecond = 2
    Waves = {w1}
    UsedStates = {"ready", "in_progress", "blocked", "review", "done"}
    Remarks <- Talk
    Filings <- Paperwork
    MaxComments = 6
    MaxTime = 2
CHECK_DEADLOCK FALSE
INVARIANTS
    DoneIsEarned
    MetricsAreSound
    CanStillFinish

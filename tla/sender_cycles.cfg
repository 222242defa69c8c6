CONSTANTS
    Last = 2
    Threshold = 2
    Cooldown = 1
    MaxAttempts = 2
SPECIFICATION FairSpec
INVARIANTS BreakerExact FailoverJustified DenialIsFinal
PROPERTIES SettlesOnFirstHealthy EveryCycleEnds StopsWhenTold

\* Every kind of command, with three troubles among them and no race.
CONSTANTS
    Commands <- AllCommands
    MaxPieces = 2
    MaxTrouble = 3
    Nil = Nil
    Avoided = {"FailUnderReset", "AccessInFailure", "ResetInDma", "ResetInRedo", "SuspendInRedo", "ResumeInRedo", "SlowMedium", "ResetAgain", "SlowFetch", "SplitBuffer"}
SPECIFICATION FairSpec
INVARIANTS StateConsistent RoomForOne SuspendedIsQuiet IdleIsFree
PROPERTIES CommandEnds ResetEnds

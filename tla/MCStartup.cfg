\* Two processes, or one that is started again, are configured; one of them can
\* build and load what it built, while the other, which found nothing either,
\* builds for the same home and writes over it.  An edit, a failing call, and
\* engines whose buffers fit and do not.  The platform is fast with kFP16, which
\* 1 asks for; 256 is cut to 0, which asks for kTF32, and a plain engine is
\* built.
SPECIFICATION FairSpec
CONSTANTS
    Processes = {p, q}
    Homes = {g, h}
    NoHome = NoHome
    Accuracies = {1, 256}
    MaxEdits = 1
    Chunks = 2
    Models <- Engines
    Supported = {"kFP16"}
    MaxStarts = 2
    MaxCalls <- Calls
    MaxFaults = 1
INVARIANTS
    BrokenExplained
    EngineMatchesSettings
    SettingsWereRead
    BuffersFit
PROPERTIES
    ImplementsEngineCache
    FoundEngineIsUsed
    EngineGetsBuilt
\* The calls and the starts are used up.
CHECK_DEADLOCK FALSE

SPECIFICATION LiveSpec
CONSTANTS
    mc = mc
    fs = fs
    am = am
    Mc = mc
    Services = {mc, fs}
    Srv11 = srv11
    Needs <- NeedsOfServices
    Provide = 2
    NbBuffers = 3
    Happens = {"sleep"}
INVARIANTS TypeOK SemaphoreCounts NeverPanics BuffersExclusive ReplyToAsker
PROPERTIES QuietWhileAsleep EveryAnswered

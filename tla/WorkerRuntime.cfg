\* One handler per consumer, two claims per delivery cycle, one upset.
CONSTANTS
    Handlers = {h1}
    BatchSize = 2
    MaxUpsets = 1
SPECIFICATION FairRuntimeSpec
INVARIANT WorkIsCutOnlyAfterItsDrain
PROPERTIES ShutdownEnds WorkGoesOn
CHECK_DEADLOCK FALSE

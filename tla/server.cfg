SPECIFICATION MCSpec
CONSTANTS
    Boot = boot
    Calls = {boot, a, b, c}
    Spare = c
    Contents = {x, y}
    MaxPubs = 3
    Concurrency = 2
    Queue = 1
INVARIANTS NoUseAfterClose NoModelLost FreshModel WaitsForCompany WakerAtWork SlotBooks NativeBounded ModelDrained
PROPERTIES CallsEnd RequestEnds ShutdownEnds
\* every call and request ended, the manager closed: nothing is left to do
CHECK_DEADLOCK FALSE

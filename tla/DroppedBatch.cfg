SPECIFICATION DeliverySpec
CHECK_DEADLOCK FALSE
CONSTANTS
    Entities = {e1, e2}
    Relays = {r1, r2}
    Deployments = {{r1}, {r1, r2}}
    RelayBatch = 2
    PollSize = 2
    MaxEvents = 2
    MaxLog = 4
    MaxTroubles = 1
INVARIANTS CommittedAfterHandle

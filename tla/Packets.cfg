\* Four DATA chunks of four lengths against a packet of two; five gaps; bundles of three.
SPECIFICATION Spec
CONSTANTS
    Mtu = 44
    Lengths = {1, 4, 11, 16}
    MaxData = 4
    MaxGap = 5
    MaxBundle = 3
INVARIANTS
    ParsesWhatWasSent
    BundlesData
    ReportsExact
    EveryChunkHandled
CHECK_DEADLOCK FALSE

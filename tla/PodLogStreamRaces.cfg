SPECIFICATION RSpec
CONSTANTS
    Conns = {c1, c2}
    Pods = {p1}
    Containers = {k1}
    Streams = {s1, s2, s3}
    NoStream = NoStream
SYMMETRY Symmetry
INVARIANTS EntryIsOwned NoGhostSubscriber ServedUnlessRaced NoOrphanUnlessRaced
PROPERTY EvictedOnlyByStaleRemoval
CHECK_DEADLOCK FALSE

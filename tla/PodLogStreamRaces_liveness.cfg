SPECIFICATION RSpec
CONSTANTS
    Conns = {c1, c2}
    Pods = {p1}
    Containers = {k1}
    Streams = {s1, s2}
    NoStream = NoStream
PROPERTY LastLeaverStopsStream
CHECK_DEADLOCK FALSE

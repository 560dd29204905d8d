---------------------------- MODULE MCPodFigures ----------------------------
(* What the metrics API says of a container, in the units it uses.         *)
EXTENDS PodFigures

Of(cpu, cpuUnit, memory, memoryUnit) ==
    [cpu |-> [n |-> cpu, unit |-> cpuUnit],
     memory |-> [n |-> memory, unit |-> memoryUnit]]
MCReadings == {Of(250, "m", 900, "Ki"), Of(33333333, "n", 1, "Mi"),
               Of(1, NoUnit, 1023, "Ki"), Of(7000, "u", 511, NoUnit)}
MCNodeMemory == [n |-> 4000, unit |-> "Ki"]
=============================================================================

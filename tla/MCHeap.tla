------------------------------- MODULE MCHeap -------------------------------
EXTENDS Heap

MCOrderSize == [o \in Orders |-> 2 ^ o]
MCPow2 == [n \in 0 .. MaxPow |-> 2 ^ n]

=============================================================================

------------------------------ MODULE MCBuddy ------------------------------
EXTENDS Buddy

MCOrderSize == [o \in Orders |-> 2 ^ o]

=============================================================================

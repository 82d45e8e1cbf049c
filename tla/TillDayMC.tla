----------------------------- MODULE TillDayMC -----------------------------
EXTENDS TillDay, TLC
CONSTANT u1
MCUserOf == [o \in Orders |-> u1]
=============================================================================

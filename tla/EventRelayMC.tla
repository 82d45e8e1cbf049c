----------------------------- MODULE EventRelayMC -----------------------------
EXTENDS EventRelay, TLC
CONSTANTS b1, w1
MCBranchOf == [s \in Sockets |-> b1]
MCMaxFailures == [w \in Servers |-> IF w = w1 THEN 1 ELSE 0]
===============================================================================

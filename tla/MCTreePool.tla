------------------------------ MODULE MCTreePool ------------------------------
(* The clients make MaxCalls calls of acquire in all (see CallsReturn).    *)
EXTENDS TreePool

CONSTANT MaxCalls      \* bound: the calls of acquire

VARIABLE calls         \* the calls of acquire so far

MCInit == Init /\ calls = 0

MCAcquire(t) == /\ calls < MaxCalls
                /\ calls' = calls + 1
                /\ Acquire(t)

MCNext == \E t \in Threads : \/ MCAcquire(t)
                             \/ (Drop(t) \/ CallStep(t)) /\ UNCHANGED calls

MCFairSpec == MCInit /\ [][MCNext]_<<vars, calls>> /\ Fairness
===============================================================================

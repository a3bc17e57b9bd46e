------------------------------ MODULE MCTelemetry ------------------------------
EXTENDS Telemetry, TLC

\* Collectors are interchangeable.
Anonymous == Permutations(Collectors)

\* (bound) Calls are recorded only while no other server has run.
Bounded == others # {} \/ disputed # {} => \A t \in Calls : caller[t] = "idle"
=============================================================================

------------------------------ MODULE MCSatPlan ------------------------------
EXTENDS SatPlan

\* Every course of elevations over nine ticks that is below the horizon, low
\* or high at each of them.
MCElevations == [0..8 -> {-1, 3, 6}]
MCAzimuths == {[from |-> f, turn |-> t] : f \in {80, 260}, t \in {-50, 35}}

MCMocks == {NoTime, 100}
=============================================================================

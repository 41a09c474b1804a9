------------------------------ MODULE MCReplay ------------------------------
EXTENDS Replay
MCTimes == [sub2api |-> <<20, 40, 60, 80>>, cpa |-> <<20, 40, 60>>]
MCWindows == [sub2api |-> [used : {0, 1, 2}, resets : {110, 139, 141}],
              cpa |-> [used : {0, 1}, resets : {110, 139}]]
MCSteps == [sub2api |-> 5, cpa |-> 4]
=============================================================================

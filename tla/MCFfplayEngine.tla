---------------------------- MODULE MCFfplayEngine ----------------------------
\* Two songs, two levels of volume and none, and two processes.
EXTENDS FfplayEngine, TLC

MCSongs == 1..2
MCVolumes == {40, 100}
MCPids == 1..2
===============================================================================

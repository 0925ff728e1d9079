---------------------------- MODULE MCDaemonRuntime ----------------------------
\* One playlist with two songs.
EXTENDS DaemonRuntime, TLC

MCSongs == 1..2
===============================================================================

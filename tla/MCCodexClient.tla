----------------------------- MODULE MCCodexClient -----------------------------
\* Two calls, which may need a process each, and room for one turn.
EXTENDS CodexClient, TLC

CONSTANTS c1, c2

MCCalls == {c1, c2}
===============================================================================

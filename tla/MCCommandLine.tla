---------------------------- MODULE MCCommandLine ----------------------------
EXTENDS CommandLine

MCOptionLists == UNION {[1..k -> {"b", "r", "a", "d", "l", "h", "?"}] : k \in 0..3}
=============================================================================

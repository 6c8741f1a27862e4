---------------------------- MODULE MCMihomoTUN ----------------------------
EXTENDS MihomoTUN
Pids == 1..2
=============================================================================

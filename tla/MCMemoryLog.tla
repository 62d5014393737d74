---------------------------- MODULE MCMemoryLog ----------------------------
(* Messages of 1 and 3 bytes and limits 0, 2 and 4: a message larger than *)
(* the limit, one that fits exactly, and a limit lowered below the log.    *)
EXTENDS MemoryLog
=============================================================================

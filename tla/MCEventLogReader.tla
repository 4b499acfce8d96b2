--------------------------- MODULE MCEventLogReader ---------------------------
(***************************************************************************)
(* Instances of EventLogReader: a window of two bites at the end of a      *)
(* partition of three records, which an erase moves under the reader.      *)
(***************************************************************************)
EXTENDS EventLogReader
=============================================================================

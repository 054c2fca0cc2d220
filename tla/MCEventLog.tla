----------------------------- MODULE MCEventLog -----------------------------
(* Small instances of EventLog: generations of a few lines.                 *)
EXTENDS EventLog
=============================================================================

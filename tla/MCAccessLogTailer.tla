-------------------------- MODULE MCAccessLogTailer --------------------------
(* Small instances of AccessLogTailer for TLC.                                *)
EXTENDS AccessLogTailer
=============================================================================

------------------------------ MODULE MCSyncBot ------------------------------
(* SyncBot needs no definitions for its constants; this module is the root of *)
(* its TLC runs.                                                              *)
EXTENDS SyncBot
================================================================================

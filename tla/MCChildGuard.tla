----------------------------- MODULE MCChildGuard -----------------------------
(* ChildGuard needs no definitions for its constants; this module is the    *)
(* root of its TLC runs.                                                    *)
EXTENDS ChildGuard
================================================================================

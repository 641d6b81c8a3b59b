----------------------------- MODULE MCSyncAgent -----------------------------
(***************************************************************************)
(* Small instances of SyncAgent.  A directory holds the files f1 and f2.   *)
(* Three items name parts of it: the directory itself (label A), the file  *)
(* f2 on its own (label B), and a subdirectory with f2 in it (label A).    *)
(* Every run picks its items, files and contents of agent.yaml from here.  *)
(***************************************************************************)
EXTENDS SyncAgent, TLC

CONSTANTS
  f1, f2,
  dirItem, fileItem, subItem,
  both, split, moved, alone, mistyped, garbled, none,
  s1, s2

MCLabelOf == [i \in Item |-> IF i = fileItem THEN "B" ELSE "A"]

MCFilesOf == [i \in Item |-> IF i = dirItem THEN File ELSE {f2}]

\* A file is watched through its parent directory, not recursively.
MCWatchOf == [i \in Item |-> CASE i = dirItem -> "dir, recursive"
                               [] i = fileItem -> "dir"
                               [] OTHER -> "sub, recursive"]
MCWatch == {MCWatchOf[i] : i \in Item}
MCReports == [w \in MCWatch |-> IF w = "sub, recursive" THEN {f2} ELSE File]

MCRank == [i \in Item |-> CASE i = dirItem -> 1 [] i = subItem -> 2 [] OTHER -> 3]

MCOutcome == [c \in Content |-> CASE c \in {none, mistyped} -> "ConfigError"
                                  [] c = garbled -> "other"
                                  [] OTHER -> "ok"]

MCLoadable == {c \in Content : MCOutcome[c] = "ok"}

MCRemoteOf == [c \in MCLoadable |-> IF c = moved THEN s2 ELSE s1]

Second == IF fileItem \in Item THEN fileItem ELSE subItem

\* both: two items; split: the same two, f2 excluded from the first; moved: the
\* directory alone on another server; alone: the directory alone.
MCTargetsOf == [c \in MCLoadable |-> IF c \in {both, split} THEN <<dirItem, Second>>
                                                           ELSE <<dirItem>>]

MCExcluded == [c \in MCLoadable |-> [i \in Item |->
                 IF c = split /\ i = dirItem THEN {f2} ELSE {}]]
================================================================================

-------------------------------- MODULE Excludes --------------------------------
(***************************************************************************)
(* One list of exclude patterns, read twice: by watcher.py, to tell which  *)
(* changes are worth an upload, and by rsync, to tell which files the      *)
(* upload takes along.                                                     *)
(*                                                                         *)
(* A pattern is abstracted to what the two readings tell apart:            *)
(*   text      the name it spells out, "" when that is no name             *)
(*   names     for each of its components the names that fnmatch and       *)
(*             rsync's wildcards match                                     *)
(*   dir       it ends in a slash                                          *)
(*   anchored  it begins with one                                          *)
(* Paths are sequences of names.                                           *)
(***************************************************************************)
EXTENDS Naturals, Sequences

\* fnmatch.fnmatch(): one name against the whole pattern, which no name with a
\* slash in it can match.
Fnmatch(part, p) == ~p.anchored /\ Len(p.names) = 1 /\ part \in p.names[1]

\* Mutant: the last name counts as a directory too.
IsExcludedWhole(parts, patterns) ==
  \E k \in DOMAIN patterns :
    LET p == patterns[k] IN
    \/ p.dir /\ \E n \in DOMAIN parts : p.text = parts[n]
    \/ ~p.dir /\ \E n \in DOMAIN parts : Fnmatch(parts[n], p)

\* is_excluded(): a pattern that ends in a slash is compared with the names above
\* the file, letter by letter, any other is a glob for every name.
IsExcluded(parts, patterns) ==
  \E k \in DOMAIN patterns :
    LET p == patterns[k] IN
    \/ p.dir /\ \E n \in 1..(Len(parts) - 1) : p.text = parts[n]
    \/ ~p.dir /\ \E n \in DOMAIN parts : Fnmatch(parts[n], p)

\* rsync: the pattern against the end of a path, the whole of it when anchored.
FitsEnd(path, p) ==
  LET skip == Len(path) - Len(p.names) IN
  /\ skip >= 0 /\ (p.anchored => skip = 0)
  /\ \A n \in DOMAIN p.names : path[skip + n] \in p.names[n]

\* rsync: the file at "path" of the transfer, or a directory above it, is excluded.
RsyncExcludes(path, patterns) ==
  \E k \in DOMAIN patterns : \E n \in 1..Len(path) :
    /\ patterns[k].dir => n < Len(path)
    /\ FitsEnd(SubSeq(path, 1, n), patterns[k])
================================================================================

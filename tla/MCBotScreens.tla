----------------------------- MODULE MCBotScreens -----------------------------
(* A store of one folder, 1, with up to two entries, and links next to it      *)
(* and in it: to the folder, the root, the outside, nothing and themselves.    *)
EXTENDS BotScreens

Dir == [is |-> "dir"]
File == [is |-> "file"]
Nothing == [is |-> "none"]
LinkTo(p) == [is |-> "link", to |-> p]

MCName == 1..3
MCRel == UNION {[1..n -> MCName] : n \in 0..2}

Empty == [p \in Place |-> Nothing]

MCTrees ==
  {[Empty EXCEPT ![<<1>>] = Dir, ![<<2>>] = a, ![<<1, 1>>] = b, ![<<1, 2>>] = c] :
     a \in {File, LinkTo(<<1>>), LinkTo(Outside)},
     b \in {Nothing, File, LinkTo(<<1, 2>>), LinkTo(Root)},
     c \in {File, Nothing, LinkTo(<<1, 1>>), LinkTo(<<3>>), LinkTo(OutsideFile)}}

\* One entry of the folder is deleted: the change that old buttons suffer from.
MCEdits(t) ==
  {u \in MCTrees : \E p \in Place : t[p] # Nothing /\ u = [t EXCEPT ![p] = Nothing]}

MCNeedles == {{1}, {1, 2}}
================================================================================

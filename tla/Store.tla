--------------------------------- MODULE Store ---------------------------------
(***************************************************************************)
(* The server's store as bot/store.py sees it, and the walk of packer.py   *)
(* over a folder of it: which entries a listing, a search, the size of a   *)
(* folder and its archive consist of when the tree holds symbolic links.   *)
(*                                                                         *)
(* A path is a sequence of names, the root the empty one; names are        *)
(* numbers, in the order Python sorts them.  A tree t gives each place     *)
(* below the root what is there:                                           *)
(*   "none", "dir", "file", or a symbolic link to t[p].to, which may lead  *)
(*   out of the store, to nothing or round in a circle.                    *)
(***************************************************************************)
EXTENDS Naturals, Sequences, FiniteSets

CONSTANTS
  Name,        \* names, above 0
  Depth,       \* bound: names in a path of the tree
  SearchLimit, \* search()'s limit
  MaxLinks     \* links the system follows before it gives up

ASSUME StoreAssumption ==
  /\ Name \subseteq Nat \ {0} /\ IsFiniteSet(Name)
  /\ {Depth, SearchLimit, MaxLinks} \subseteq Nat

Root == <<>>
Outside == <<0>>        \* a directory next to the store
OutsideFile == <<0, 0>> \* and the file in it

Place == UNION {[1..n -> Name] : n \in 1..Depth}

Here(t, p) == IF p \in Place THEN t[p].is ELSE "none"

Parent(p) == SubSeq(p, 1, Len(p) - 1)

\* A tree the file system can hold: an entry lies in a directory.
WellFormed(t) ==
  \A p \in Place :
    /\ t[p].is \in {"none", "dir", "file", "link"}
    /\ t[p].is = "link" => t[p].to \in Seq(Nat)
    /\ t[p].is # "none" => Parent(p) = Root \/ Here(t, Parent(p)) = "dir"

\* The elements of S in the order Before.
Ordered(S, Before(_, _)) ==
  [k \in 1..Cardinality(S) |->
     CHOOSE x \in S : Cardinality({y \in S : Before(y, x)}) = k - 1]

--------------------------------------------------------------------------------
(* Path.resolve() *)

LinksOn(t, p) == {n \in 1..Len(p) : Here(t, SubSeq(p, 1, n)) = "link"}

\* The first link on the way is replaced by what it points to.
FollowOne(t, p) ==
  LET n == CHOOSE k \in LinksOn(t, p) : \A j \in LinksOn(t, p) : k <= j
  IN t[SubSeq(p, 1, n)].to \o SubSeq(p, n + 1, Len(p))

Resolve(t, p) ==
  LET after[n \in 0..MaxLinks] ==
        IF n = 0 THEN p
        ELSE LET q == after[n - 1] IN IF LinksOn(t, q) = {} THEN q ELSE FollowOne(t, q)
  IN after[MaxLinks]

\* _is_inside() of the resolved path; a circle of links is not.
ResolvesInside(t, p) ==
  LET q == Resolve(t, p) IN LinksOn(t, q) = {} /\ (q # Root => q[1] \in Name)

\* What is_dir(), is_file() and stat() find at path p: they follow links.
At(t, p) ==
  LET q == Resolve(t, p) IN
  CASE q \in {Root, Outside} -> "dir"
    [] q = OutsideFile -> "file"
    [] Here(t, q) = "link" -> "none"
    [] OTHER -> Here(t, q)

IsFile(t, p) == At(t, p) = "file"

--------------------------------------------------------------------------------
(* resolve_safe(), list_dir() *)

\* resolve_safe() does not raise StoreError.
Safe(t, rel) == ResolvesInside(t, rel) /\ At(t, rel) # "none"

\* Neither does list_dir() or directory_stats().
IsFolder(t, rel) == Safe(t, rel) /\ At(t, rel) = "dir"

Children(t, q) == {p \in Place : Parent(p) = q /\ Here(t, p) # "none"}

\* Mutant: an entry whose status cannot be read is listed all the same.
ReadableAlways(t, p) == TRUE

\* _to_entry(): an entry that leads to nothing is left out.
Readable(t, p) == At(t, p) # "none"

ListDir(t, rel) ==
  LET q == Resolve(t, rel)
      entries == {[rel |-> Append(rel, p[Len(p)]), is_dir |-> At(t, p) = "dir"] :
                    p \in {c \in Children(t, q) : ResolvesInside(t, c) /\ Readable(t, c)}}
      Before(a, b) == IF a.is_dir = b.is_dir
                        THEN a.rel[Len(a.rel)] < b.rel[Len(b.rel)] ELSE a.is_dir
  IN Ordered(entries, Before)

--------------------------------------------------------------------------------
(* rglob(), directory_stats(), search() and the packer's walk *)

\* rglob("*") below a directory: it does not go through links.
Below(t, q) ==
  {p \in Place : /\ Len(p) > Len(q) /\ SubSeq(p, 1, Len(q)) = q /\ Here(t, p) # "none"
                 /\ \A n \in (Len(q) + 1)..(Len(p) - 1) : Here(t, SubSeq(p, 1, n)) = "dir"}

\* Mutant: files that lead out of the store are counted.
SizedAll(t, rel) == {p \in Below(t, Resolve(t, rel)) : IsFile(t, p)}

\* directory_stats(): the files it counts.
Sized(t, rel) ==
  {p \in Below(t, Resolve(t, rel)) : ResolvesInside(t, p) /\ IsFile(t, p)}

\* _make_encrypted_dir_zip(): the files it writes.
Packed(t, rel) ==
  {p \in Below(t, Resolve(t, rel)) : ResolvesInside(t, p) /\ IsFile(t, p)}

\* Paths sort by their names, one after the other.
PathBefore(p, q) ==
  \E n \in 0..Len(p) :
    /\ SubSeq(p, 1, n) = SubSeq(q, 1, n) /\ n < Len(q)
    /\ n < Len(p) => p[n + 1] < q[n + 1]

\* search(): files whose name matches, up to the limit, in the order of the paths.
Search(t, needle) ==
  LET hits == Ordered({p \in Below(t, Root) : /\ p[Len(p)] \in needle /\ IsFile(t, p)
                                              /\ ResolvesInside(t, p)}, PathBefore)
  IN SubSeq(hits, 1, IF Len(hits) < SearchLimit THEN Len(hits) ELSE SearchLimit)
================================================================================

------------------------------ MODULE BotScreens ------------------------------
(***************************************************************************)
(* The bot's screens over the server's store: Browse with the callables    *)
(* that main.py's _build_context() injects, the functions of Store.        *)
(***************************************************************************)
EXTENDS Store, Browse

CONSTANT Taps   \* bound: taps from the first screen

\* _build_context()
BuildContext ==
  /\ \A t \in Trees, rel \in Rel :
       opens(t, rel) = IsFolder(t, rel) /\ lister(t, rel) = ListDir(t, rel)
  /\ \A t \in Trees, needle \in Needles : searcher(t, needle) = Search(t, needle)
  /\ MaxResults = SearchLimit

ASSUME ContextAssumption == BuildContext /\ \A t \in Trees : WellFormed(t)

\* The buttons on these views of the store.
ButtonsOf(t, views) ==
  UNION {LET buttons == DirButtons(t, v.rel, v.page)
         IN {buttons[k] : k \in DOMAIN buttons} : v \in views}

\* The views that a tap on one of these buttons leads to.
OneTapFrom(t, views) ==
  {[rel |-> b.rel, page |-> Clamp(t, b.rel, b.page)] :
     b \in {c \in ButtonsOf(t, views) : c.kind = "dir" /\ c.rel \in Rel}}

\* The views that taps from /start lead to while the store stays as it is.
Reached(t) ==
  LET after[n \in 0..Taps] ==
        IF n = 0 THEN {[rel |-> <<>>, page |-> 0]}
        ELSE LET views == after[n - 1] IN views \cup OneTapFrom(t, views)
  IN after[Taps]

\* The bounds are wide enough: every path of the store can be tapped, more taps
\* show nothing new, and a path the system gives up on after MaxLinks links has
\* not come to its end after twice as many either.
ASSUME BoundsAssumption ==
  /\ Taps \in Nat /\ Place \subseteq Rel
  /\ \A t \in Trees : OneTapFrom(t, Reached(t)) \subseteq Reached(t)
  /\ \A t \in Trees, rel \in Rel, x \in Name :
       LET q == Resolve(t, Append(rel, x))
       IN LinksOn(t, q) # {} => LinksOn(t, Resolve(t, q)) # {}

\* The files in the listings of a folder and of the folders below it.
ListedBelow(t, rel) ==
  LET q == Resolve(t, rel)
      folders == {q} \cup {p \in Below(t, q) : Here(t, p) = "dir"}
  IN UNION {LET entries == ListDir(t, d)
            IN {entries[k].rel : k \in {j \in DOMAIN entries : ~entries[j].is_dir}} :
              d \in folders}

--------------------------------------------------------------------------------
(* Properties *)

\* From the first screen of a conversation everything in the store can be
\* reached: each entry that lies inside has its button, of its own kind, on some
\* page of some folder - and so the search finds nothing the listings hide.
EveryEntryReachable ==
  chat = <<>> =>
    LET buttons == ButtonsOf(tree, Reached(tree)) IN
    \A p \in Below(tree, Root) :
      ResolvesInside(tree, p) /\ At(tree, p) # "none" =>
        Button(IF At(tree, p) = "dir" THEN "dir" ELSE "file", p, 0) \in buttons

\* What a listing or a search puts behind a button can be opened or sent: links
\* that lead outside, nowhere or round in a circle never become a button.
ShownCanBeFetched ==
  chat = <<>> =>
    /\ \A b \in ButtonsOf(tree, Reached(tree)) :
         IF b.kind = "file" THEN Safe(tree, b.rel) /\ IsFile(tree, b.rel)
         ELSE IsFolder(tree, b.rel)
    /\ \A needle \in Needles : \A k \in DOMAIN Search(tree, needle) :
         Safe(tree, Search(tree, needle)[k]) /\ IsFile(tree, Search(tree, needle)[k])

\* The listings, the count on the confirmation screen and the archive agree on what
\* a folder holds: the files counted are the files sent, and they are the files
\* listed in the folder and in those below it, linked folders apart, which are
\* listed but neither counted nor sent (docstring of resolves_inside()).
WalksAgree ==
  chat = <<>> =>
    \A b \in ButtonsOf(tree, Reached(tree)) :
      b.kind = "zipask" =>
        /\ Sized(tree, b.rel) = Packed(tree, b.rel)
        /\ Packed(tree, b.rel) = ListedBelow(tree, b.rel)
================================================================================

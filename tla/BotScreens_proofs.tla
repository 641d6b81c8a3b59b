--------------------------- MODULE BotScreens_proofs ---------------------------
(***************************************************************************)
(* Proofs about BotScreens: what can be reached, fetched and counted.      *)
(*                                                                         *)
(* The three theorems at the end are about what recursive functions        *)
(* compute, Resolve() by following links and Reached() by taps.  Induction *)
(* is done over sets: a set of naturals with 0 and, with each, the next is *)
(* Nat, because what it lacks would have a least element.                  *)
(*                                                                         *)
(*   Path.resolve()   following links is a trace of paths; the first link  *)
(*                    on a path is the first on every path it begins, so   *)
(*                    an entry is found behind every path to its folder    *)
(*                    (ChildResolves).                                     *)
(*   Sorting          the elements of a finite ordered set are numbered by *)
(*                    those before them, so Ordered() lists each (Sorted). *)
(*   Screens          a view is Good if its page exists and its path leads *)
(*                    through folders; buttons of good views work          *)
(*                    (ButtonsWork), and taps lead to good views (TapGood).*)
(*   Conversations    the folders of the store are reached one level after *)
(*                    the other (FoldersReached), their pages one after    *)
(*                    the other (AllPages).                                *)
(*   The walk         what rglob() finds are the entries of the            *)
(*                    directories it goes into (WalkFinds, WalkMisses),    *)
(*                    which are listings of their own (WalkListed).        *)
(***************************************************************************)
EXTENDS BotScreens, Browse_proofs, FiniteSetTheorems

--------------------------------------------------------------------------------
(* Induction *)

\* A set of naturals that is not empty has a least element.
LEMMA LeastNatural ==
  ASSUME NEW T \in SUBSET Nat, T # {}
  PROVE  \E m \in T : \A k \in T : m <= k
<1>1. \E x \in T : \A y \in T : ~(<<y, x>> \in OpToRel(<, Nat))
  BY NatLessThanWellFounded, WFMin, Zenon
<1>2. PICK m \in T : \A y \in T : ~(<<y, m>> \in OpToRel(<, Nat))
  BY <1>1
<1>3. ASSUME NEW k \in T PROVE m <= k
  <2>1. ~(<<k, m>> \in {ss \in Nat \X Nat : ss[1] < ss[2]})
    BY <1>2 DEF OpToRel
  <2>2. ~(k < m)
    BY <2>1
  <2> QED BY <2>2
<1> QED BY <1>2, <1>3

\* What holds of 0 and, with n, of n + 1 holds of every natural number: induction,
\* over the set of the numbers of which it holds.
LEMMA Induction ==
  ASSUME NEW T, 0 \in T, \A n \in Nat : n \in T => n + 1 \in T
  PROVE  Nat \subseteq T
<1> DEFINE F == {n \in Nat : n \notin T}
<1> SUFFICES ASSUME F # {} PROVE FALSE
  OBVIOUS
<1>1. PICK m \in F : \A k \in F : m <= k
  BY LeastNatural
<1>2. m # 0 /\ m - 1 \in Nat
  OBVIOUS
<1>3. m - 1 \notin F
  BY <1>1, <1>2
<1> QED BY <1>2, <1>3

\* f lists what applying g to a up to N times leads to.
Iterates(X, g, a, N, f) ==
  f \in [0..N -> X] /\ f[0] = a /\ \A k \in 1..N : f[k] = g[f[k - 1]]

\* A function can be applied to an element N times, for every N.
LEMMA Iteration ==
  ASSUME NEW X, NEW g \in [X -> X], NEW a \in X, NEW N \in Nat
  PROVE  \E f : Iterates(X, g, a, N, f)
<1> DEFINE Good(n, f) == f \in [0..n -> X] /\ f[0] = a /\ \A k \in 1..n : f[k] = g[f[k - 1]]
           T == {n \in Nat : \E f : Good(n, f)}
<1>1. 0 \in T
  <2> DEFINE f == [k \in 0..0 |-> a]
  <2>1. Good(0, f)
    OBVIOUS
  <2> QED BY <2>1
<1>2. ASSUME NEW n \in Nat, n \in T PROVE n + 1 \in T
  <2>1. PICK f : Good(n, f)
    BY <1>2
  <2> DEFINE h == [k \in 0..(n + 1) |-> IF k = n + 1 THEN g[f[n]] ELSE f[k]]
  <2>2. f[n] \in X /\ g[f[n]] \in X
    BY <2>1
  <2>3. h \in [0..(n + 1) -> X] /\ h[0] = a
    BY <2>1, <2>2
  <2>4. ASSUME NEW k \in 1..(n + 1) PROVE h[k] = g[h[k - 1]]
    <3>1. CASE k = n + 1
      BY <3>1
    <3>2. CASE k # n + 1
      BY <2>1, <3>2
    <3> QED BY <3>1, <3>2
  <2>5. Good(n + 1, h) /\ n + 1 \in Nat
    BY <2>3, <2>4
  <2> HIDE DEF Good
  <2> QED BY <2>5
<1> HIDE DEF T
<1>3. N \in T
  BY <1>1, <1>2, Induction
<1> QED BY <1>3 DEF T, Iterates

--------------------------------------------------------------------------------
(* Paths *)

\* A part of a path.
LEMMA Part ==
  ASSUME NEW p \in Path, NEW a \in Nat \ {0}, NEW b \in 0..Len(p)
  PROVE  /\ SubSeq(p, a, b) \in Path
         /\ Len(SubSeq(p, a, b)) = IF a <= b THEN b - a + 1 ELSE 0
         /\ \A k \in 1..(b - a + 1) : SubSeq(p, a, b)[k] = p[a + k - 1]
  BY DEF Path

\* Two paths of the same length that agree on every name are the same.
LEMMA SamePath ==
  ASSUME NEW p \in Path, NEW q \in Path, Len(p) = Len(q), \A k \in 1..Len(p) : p[k] = q[k]
  PROVE  p = q
  BY DEF Path

\* A path with a name more.
LEMMA Longer ==
  ASSUME NEW p \in Path, NEW x \in Nat
  PROVE  /\ Append(p, x) \in Path /\ Len(Append(p, x)) = Len(p) + 1 /\ Len(p) \in Nat
         /\ Append(p, x)[Len(p) + 1] = x
         /\ \A k \in 1..Len(p) : Append(p, x)[k] = p[k]
  BY DEF Path

\* A path followed by another.
LEMMA Concatenated ==
  ASSUME NEW p \in Path, NEW q \in Path
  PROVE  /\ p \o q \in Path /\ Len(p \o q) = Len(p) + Len(q)
         /\ Len(p) \in Nat /\ Len(q) \in Nat
         /\ \A k \in 1..Len(p) : (p \o q)[k] = p[k]
         /\ \A k \in 1..Len(q) : (p \o q)[Len(p) + k] = q[k]
  BY DEF Path

\* A name more leaves the beginnings of a path alone.
LEMMA LongerPart ==
  ASSUME NEW p \in Path, NEW x \in Nat, NEW a \in Nat \ {0}, NEW b \in 0..Len(p)
  PROVE  SubSeq(Append(p, x), a, b) = SubSeq(p, a, b)
<1>1. /\ Append(p, x) \in Path /\ Len(Append(p, x)) = Len(p) + 1 /\ Len(p) \in Nat
      /\ \A k \in 1..Len(p) : Append(p, x)[k] = p[k]
  BY Longer
<1>2. b \in 0..Len(Append(p, x))
  BY <1>1
<1> DEFINE c == SubSeq(Append(p, x), a, b)
           d == SubSeq(p, a, b)
<1>3. /\ c \in Path /\ Len(c) = IF a <= b THEN b - a + 1 ELSE 0
      /\ \A k \in 1..(b - a + 1) : c[k] = Append(p, x)[a + k - 1]
  BY <1>1, <1>2, Part
<1>4. /\ d \in Path /\ Len(d) = IF a <= b THEN b - a + 1 ELSE 0
      /\ \A k \in 1..(b - a + 1) : d[k] = p[a + k - 1]
  BY Part
<1> HIDE DEF c, d
<1>5. ASSUME NEW k \in 1..Len(c) PROVE c[k] = d[k]
  <2>1. k \in 1..(b - a + 1) /\ a + k - 1 \in 1..Len(p)
    BY <1>1, <1>3
  <2> QED BY <1>1, <1>3, <1>4, <2>1
<1>6. c = d
  BY <1>3, <1>4, <1>5, SamePath
<1> QED BY <1>6 DEF c, d

\* The rest of a path with a name more is the rest of the path with a name more.
LEMMA LongerRest ==
  ASSUME NEW p \in Path, NEW x \in Nat, NEW a \in 1..(Len(p) + 1)
  PROVE  SubSeq(Append(p, x), a, Len(p) + 1) = Append(SubSeq(p, a, Len(p)), x)
<1>1. /\ Append(p, x) \in Path /\ Len(Append(p, x)) = Len(p) + 1 /\ Len(p) \in Nat
      /\ Append(p, x)[Len(p) + 1] = x
      /\ \A k \in 1..Len(p) : Append(p, x)[k] = p[k]
  BY Longer
<1> DEFINE c == SubSeq(Append(p, x), a, Len(p) + 1)
           d == SubSeq(p, a, Len(p))
           e == Append(d, x)
<1>2. /\ c \in Path /\ Len(c) = Len(p) + 2 - a
      /\ \A k \in 1..(Len(p) + 2 - a) : c[k] = Append(p, x)[a + k - 1]
  <2>1. a \in Nat \ {0} /\ Len(p) + 1 \in 0..Len(Append(p, x)) /\ a <= Len(p) + 1
    BY <1>1
  <2>2. /\ c \in Path /\ Len(c) = IF a <= Len(p) + 1 THEN (Len(p) + 1) - a + 1 ELSE 0
        /\ \A k \in 1..((Len(p) + 1) - a + 1) : c[k] = Append(p, x)[a + k - 1]
    BY <1>1, <2>1, Part
  <2>3. (Len(p) + 1) - a + 1 = Len(p) + 2 - a
    BY <1>1
  <2> HIDE DEF c
  <2> QED BY <2>1, <2>2, <2>3
<1>3. /\ d \in Path /\ Len(d) = Len(p) + 1 - a /\ Len(d) \in Nat
      /\ \A k \in 1..(Len(p) + 1 - a) : d[k] = p[a + k - 1]
  <2>1. a \in Nat \ {0} /\ Len(p) \in 0..Len(p)
    BY <1>1
  <2>2. /\ d \in Path /\ Len(d) = IF a <= Len(p) THEN Len(p) - a + 1 ELSE 0
        /\ \A k \in 1..(Len(p) - a + 1) : d[k] = p[a + k - 1]
    BY <1>1, <2>1, Part
  <2>3. Len(p) - a + 1 = Len(p) + 1 - a
    BY <1>1
  <2> HIDE DEF d
  <2> QED BY <1>1, <2>1, <2>2, <2>3
<1> HIDE DEF c, d
<1>4. /\ e \in Path /\ Len(e) = Len(d) + 1
      /\ e[Len(d) + 1] = x /\ \A k \in 1..Len(d) : e[k] = d[k]
  BY <1>3, Longer
<1> HIDE DEF e
<1>5. Len(c) = Len(e)
  BY <1>1, <1>2, <1>3, <1>4
<1>6. ASSUME NEW k \in 1..Len(c) PROVE c[k] = e[k]
  <2>1. CASE k = Len(d) + 1
    <3>1. a + k - 1 = Len(p) + 1
      BY <1>1, <1>3, <2>1
    <3> QED BY <1>1, <1>2, <1>4, <2>1, <3>1
  <2>2. CASE k # Len(d) + 1
    <3>1. k \in 1..Len(d) /\ a + k - 1 \in 1..Len(p)
      BY <1>1, <1>2, <1>3, <2>2
    <3> QED BY <1>1, <1>2, <1>3, <1>4, <3>1
  <2> QED BY <2>1, <2>2
<1>7. c = e
  BY <1>2, <1>4, <1>5, <1>6, SamePath
<1> QED BY <1>7 DEF c, d, e

\* A name more can be added before or after a path is put behind another.
LEMMA LongerEnd ==
  ASSUME NEW p \in Path, NEW q \in Path, NEW x \in Nat
  PROVE  p \o Append(q, x) = Append(p \o q, x)
<1> DEFINE b == Append(q, x)
           c == p \o b
           d == p \o q
           e == Append(d, x)
<1>1. /\ b \in Path /\ Len(b) = Len(q) + 1 /\ Len(q) \in Nat
      /\ b[Len(q) + 1] = x /\ \A k \in 1..Len(q) : b[k] = q[k]
  BY Longer
<1>2. /\ d \in Path /\ Len(d) = Len(p) + Len(q) /\ Len(p) \in Nat
      /\ \A k \in 1..Len(p) : d[k] = p[k]
      /\ \A k \in 1..Len(q) : d[Len(p) + k] = q[k]
  BY Concatenated
<1> HIDE DEF b, d
<1>3. /\ c \in Path /\ Len(c) = Len(p) + Len(b)
      /\ \A k \in 1..Len(p) : c[k] = p[k]
      /\ \A k \in 1..Len(b) : c[Len(p) + k] = b[k]
  BY <1>1, Concatenated
<1>4. /\ e \in Path /\ Len(e) = Len(d) + 1
      /\ e[Len(d) + 1] = x /\ \A k \in 1..Len(d) : e[k] = d[k]
  BY <1>2, Longer
<1> HIDE DEF c, e
<1>5. ASSUME NEW k \in 1..Len(c) PROVE c[k] = e[k]
  <2>1. CASE k <= Len(p)
    BY <1>1, <1>2, <1>3, <1>4, <2>1
  <2>2. CASE k > Len(p)
    <3>1. k - Len(p) \in 1..(Len(q) + 1) /\ Len(p) + (k - Len(p)) = k
      BY <1>1, <1>2, <1>3, <2>2
    <3>2. c[k] = b[k - Len(p)]
      BY <1>1, <1>3, <3>1
    <3>3. CASE k - Len(p) = Len(q) + 1
      BY <1>1, <1>2, <1>4, <3>1, <3>2, <3>3
    <3>4. CASE k - Len(p) \in 1..Len(q)
      <4>1. e[k] = d[k] /\ d[k] = q[k - Len(p)]
        BY <1>1, <1>2, <1>4, <3>1, <3>4
      <4> QED BY <1>1, <3>2, <3>4, <4>1
    <3> QED BY <1>1, <3>1, <3>3, <3>4
  <2> QED BY <1>2, <1>3, <2>1, <2>2
<1>6. c = e
  BY <1>1, <1>2, <1>3, <1>4, <1>5, SamePath
<1> QED BY <1>6 DEF b, c, d, e

--------------------------------------------------------------------------------
(* Path.resolve() *)

\* One link followed, if there is one.
Step(t, q) == IF LinksOn(t, q) = {} THEN q ELSE FollowOne(t, q)

\* The paths that following N links one after the other leads through.
Trace(t, p, f, N) == f \in [0..N -> Path] /\ f[0] = p /\ \A k \in 1..N : f[k] = Step(t, f[k - 1])

FirstLink(t, q) == CHOOSE k \in LinksOn(t, q) : \A j \in LinksOn(t, q) : k <= j

\* What is known of a tree.
LEMMA TreeFacts ==
  ASSUME NEW t \in Trees
  PROVE  /\ \A p \in Place : t[p].is \in {"none", "dir", "file", "link"}
         /\ \A p \in Place : t[p].is = "link" => t[p].to \in Path
  BY ContextAssumption DEF WellFormed, Path

\* The first link on a path that has one.
LEMMA FirstLinkFacts ==
  ASSUME NEW t, NEW q \in Path, LinksOn(t, q) # {}
  PROVE  /\ FirstLink(t, q) \in LinksOn(t, q) /\ LinksOn(t, q) \subseteq 1..Len(q)
         /\ \A j \in LinksOn(t, q) : FirstLink(t, q) <= j
         /\ \A k \in LinksOn(t, q) :
              (\A j \in LinksOn(t, q) : k <= j) => k = FirstLink(t, q)
<1>1. LinksOn(t, q) \subseteq 1..Len(q)
  BY DEF LinksOn
<1>2. Len(q) \in Nat
  BY DEF Path
<1>3. LinksOn(t, q) \in SUBSET Nat
  BY <1>1, <1>2
<1>4. \E k \in LinksOn(t, q) : \A j \in LinksOn(t, q) : k <= j
  BY <1>3, LeastNatural
<1>5. /\ FirstLink(t, q) \in LinksOn(t, q)
      /\ \A j \in LinksOn(t, q) : FirstLink(t, q) <= j
  BY <1>4 DEF FirstLink
<1>6. ASSUME NEW k \in LinksOn(t, q), \A j \in LinksOn(t, q) : k <= j
      PROVE  k = FirstLink(t, q)
  <2>1. k \in Nat /\ FirstLink(t, q) \in Nat
    BY <1>3, <1>5
  <2> QED BY <1>5, <1>6, <2>1
<1> QED BY <1>1, <1>5, <1>6

\* Following a link leads to a path.
LEMMA FollowType ==
  ASSUME NEW t \in Trees, NEW q \in Path, LinksOn(t, q) # {}
  PROVE  LET n == FirstLink(t, q)
         IN /\ n \in 1..Len(q) /\ t[SubSeq(q, 1, n)].to \in Path
            /\ SubSeq(q, n + 1, Len(q)) \in Path
            /\ FollowOne(t, q) = t[SubSeq(q, 1, n)].to \o SubSeq(q, n + 1, Len(q))
            /\ FollowOne(t, q) \in Path
<1> DEFINE n == FirstLink(t, q)
<1>1. n \in 1..Len(q) /\ n \in LinksOn(t, q) /\ Len(q) \in Nat
  BY FirstLinkFacts DEF Path
<1>2. FollowOne(t, q) = t[SubSeq(q, 1, n)].to \o SubSeq(q, n + 1, Len(q))
  BY DEF FollowOne, FirstLink
<1>3. Here(t, SubSeq(q, 1, n)) = "link"
  BY <1>1 DEF LinksOn
<1> HIDE DEF n
<1>4. SubSeq(q, 1, n) \in Place /\ t[SubSeq(q, 1, n)].is = "link"
  BY <1>3 DEF Here
<1>5. t[SubSeq(q, 1, n)].to \in Path
  BY <1>4, TreeFacts
<1>6. SubSeq(q, n + 1, Len(q)) \in Path
  <2>1. n + 1 \in Nat \ {0} /\ Len(q) \in 0..Len(q)
    BY <1>1
  <2> QED BY <2>1, Part
<1>7. FollowOne(t, q) \in Path
  BY <1>2, <1>5, <1>6, Concatenated
<1> QED BY <1>1, <1>2, <1>5, <1>6, <1>7 DEF n

\* That is a path.
LEMMA StepType ==
  ASSUME NEW t \in Trees, NEW q \in Path
  PROVE  Step(t, q) \in Path
  BY FollowType DEF Step

\* Links can be followed from every path, as many as one likes.
LEMMA TraceExists ==
  ASSUME NEW t \in Trees, NEW p \in Path, NEW N \in Nat
  PROVE  \E f : Trace(t, p, f, N)
<1>1. [q \in Path |-> Step(t, q)] \in [Path -> Path]
  BY StepType
<1>2. PICK g \in [Path -> Path] : \A q \in Path : g[q] = Step(t, q)
  BY <1>1
<1>3. PICK f : Iterates(Path, g, p, N, f)
  BY Iteration
<1>4. ASSUME NEW k \in 1..N PROVE f[k] = Step(t, f[k - 1])
  <2>1. k - 1 \in 0..N
    OBVIOUS
  <2> QED BY <1>2, <1>3, <2>1 DEF Iterates
<1> QED BY <1>3, <1>4 DEF Trace, Iterates

\* In one way only.
LEMMA TraceUnique ==
  ASSUME NEW t, NEW p, NEW f, NEW g, NEW N \in Nat, NEW M \in Nat,
         Trace(t, p, f, N), Trace(t, p, g, M), NEW n \in Nat, n <= N, n <= M
  PROVE  f[n] = g[n]
<1> DEFINE T == {k \in Nat : k <= N /\ k <= M => f[k] = g[k]}
<1>1. 0 \in T
  BY DEF Trace
<1>2. ASSUME NEW k \in Nat, k \in T PROVE k + 1 \in T
  <2> SUFFICES ASSUME k + 1 <= N /\ k + 1 <= M PROVE f[k + 1] = g[k + 1]
    OBVIOUS
  <2>1. k + 1 \in 1..N /\ k + 1 \in 1..M /\ (k + 1) - 1 = k
    OBVIOUS
  <2>2. f[k] = g[k]
    BY <1>2
  <2>3. f[k + 1] = Step(t, f[k]) /\ g[k + 1] = Step(t, g[k])
    BY <2>1 DEF Trace
  <2> QED BY <2>2, <2>3
<1> HIDE DEF T
<1>3. n \in T
  BY <1>1, <1>2, Induction
<1> QED BY <1>3 DEF T

\* resolve() is what MaxLinks steps lead to.
LEMMA ResolveIsTrace ==
  ASSUME NEW t \in Trees, NEW p \in Path, NEW f, NEW N \in Nat, MaxLinks <= N,
         Trace(t, p, f, N)
  PROVE  Resolve(t, p) = f[MaxLinks] /\ Resolve(t, p) \in Path
<1> DEFINE Def(h) == h = [n \in 0..MaxLinks |->
                            IF n = 0 THEN p
                            ELSE LET q == h[n - 1]
                                 IN IF LinksOn(t, q) = {} THEN q ELSE FollowOne(t, q)]
<1>1. MaxLinks \in Nat
  BY StoreAssumption
<1>2. PICK g : Trace(t, p, g, MaxLinks)
  BY <1>1, TraceExists
<1>3. Def(g)
  <2>1. g \in [0..MaxLinks -> Path] /\ g[0] = p
        /\ \A k \in 1..MaxLinks : g[k] = Step(t, g[k - 1])
    BY <1>2 DEF Trace
  <2>2. \A k \in 0..MaxLinks : k # 0 => k \in 1..MaxLinks
    BY <1>1
  <2>3. \A k \in 0..MaxLinks :
          g[k] = IF k = 0 THEN p
                 ELSE LET q == g[k - 1]
                      IN IF LinksOn(t, q) = {} THEN q ELSE FollowOne(t, q)
    BY <2>1, <2>2 DEF Step
  <2> QED BY <2>1, <2>3
<1> DEFINE h == CHOOSE h : Def(h)
<1>4. Def(h)
  BY <1>3
<1>5. Resolve(t, p) = h[MaxLinks]
  BY DEF Resolve
<1> HIDE DEF h
<1>6. h[MaxLinks] = g[MaxLinks]
  <2> DEFINE T == {k \in Nat : k <= MaxLinks => h[k] = g[k]}
  <2>1. \A k \in 0..MaxLinks :
          h[k] = IF k = 0 THEN p
                 ELSE LET q == h[k - 1]
                      IN IF LinksOn(t, q) = {} THEN q ELSE FollowOne(t, q)
    BY <1>4
  <2>2. g[0] = p /\ \A k \in 1..MaxLinks : g[k] = Step(t, g[k - 1])
    BY <1>2 DEF Trace
  <2>3. 0 \in T
    <3>1. 0 \in 0..MaxLinks
      BY <1>1
    <3> QED BY <2>1, <2>2, <3>1
  <2>4. ASSUME NEW k \in Nat, k \in T PROVE k + 1 \in T
    <3> SUFFICES ASSUME k + 1 <= MaxLinks PROVE h[k + 1] = g[k + 1]
      OBVIOUS
    <3>1. /\ k + 1 \in 0..MaxLinks /\ k + 1 \in 1..MaxLinks /\ k + 1 # 0
          /\ (k + 1) - 1 = k /\ k <= MaxLinks
      BY <1>1
    <3>2. h[k] = g[k]
      BY <2>4, <3>1
    <3>3. h[k + 1] = Step(t, h[k])
      BY <2>1, <3>1 DEF Step
    <3>4. g[k + 1] = Step(t, g[k])
      BY <2>2, <3>1
    <3> QED BY <3>2, <3>3, <3>4
  <2> HIDE DEF T
  <2>5. MaxLinks \in T
    BY <1>1, <2>3, <2>4, Induction
  <2> QED BY <1>1, <2>5 DEF T
<1>7. f[MaxLinks] = g[MaxLinks]
  BY <1>1, <1>2, TraceUnique
<1>8. g[MaxLinks] \in Path
  BY <1>1, <1>2 DEF Trace
<1> QED BY <1>5, <1>6, <1>7, <1>8

\* So resolve() leads to a path.
LEMMA ResolveType ==
  ASSUME NEW t \in Trees, NEW p \in Path
  PROVE  Resolve(t, p) \in Path
<1>1. MaxLinks \in Nat
  BY StoreAssumption
<1>2. PICK f : Trace(t, p, f, MaxLinks)
  BY <1>1, TraceExists
<1> QED BY <1>1, <1>2, ResolveIsTrace

\* A path without links on it stays as it is.
LEMMA TraceStays ==
  ASSUME NEW t, NEW p, NEW f, NEW N \in Nat, Trace(t, p, f, N), NEW m \in 0..N,
         LinksOn(t, f[m]) = {}, NEW n \in m..N
  PROVE  f[n] = f[m]
<1> DEFINE T == {k \in Nat : m + k <= N => f[m + k] = f[m]}
<1>1. 0 \in T
  OBVIOUS
<1>2. ASSUME NEW k \in Nat, k \in T PROVE k + 1 \in T
  <2> SUFFICES ASSUME m + (k + 1) <= N PROVE f[m + (k + 1)] = f[m]
    OBVIOUS
  <2>1. m + (k + 1) \in 1..N /\ (m + (k + 1)) - 1 = m + k /\ m + k <= N
    OBVIOUS
  <2>2. f[m + k] = f[m]
    BY <1>2, <2>1
  <2>3. f[m + (k + 1)] = Step(t, f[m + k])
    BY <2>1 DEF Trace
  <2> QED BY <2>2, <2>3 DEF Step
<1> HIDE DEF T
<1>3. n - m \in T
  <2>1. n - m \in Nat
    OBVIOUS
  <2> QED BY <1>1, <1>2, <2>1, Induction
<1>4. n - m \in Nat /\ m + (n - m) = n /\ n <= N
  OBVIOUS
<1> QED BY <1>3, <1>4 DEF T

\* resolve() leaves a path without links alone.
LEMMA ResolveFree ==
  ASSUME NEW t \in Trees, NEW p \in Path, LinksOn(t, p) = {}
  PROVE  Resolve(t, p) = p
<1>1. MaxLinks \in Nat
  BY StoreAssumption
<1>2. PICK f : Trace(t, p, f, MaxLinks)
  BY <1>1, TraceExists
<1>3. f[0] = p /\ 0 \in 0..MaxLinks /\ MaxLinks \in 0..MaxLinks
  BY <1>1, <1>2 DEF Trace
<1>4. f[MaxLinks] = f[0]
  BY <1>1, <1>2, <1>3, TraceStays
<1> QED BY <1>1, <1>2, <1>3, <1>4, ResolveIsTrace

\* Following links can be interrupted and taken up again.
LEMMA TraceRest ==
  ASSUME NEW t, NEW p, NEW f, NEW N \in Nat, Trace(t, p, f, N), NEW m \in 0..N
  PROVE  \E g : Trace(t, f[m], g, N - m) /\ \A k \in 0..(N - m) : g[k] = f[m + k]
<1> DEFINE g == [k \in 0..(N - m) |-> f[m + k]]
<1>1. f \in [0..N -> Path] /\ \A k \in 1..N : f[k] = Step(t, f[k - 1])
  BY DEF Trace
<1>2. ASSUME NEW k \in 0..(N - m) PROVE g[k] = f[m + k] /\ f[m + k] \in Path
  <2>1. m + k \in 0..N
    OBVIOUS
  <2> QED BY <1>1, <2>1
<1>3. g \in [0..(N - m) -> Path] /\ g[0] = f[m]
  BY <1>2
<1>4. ASSUME NEW k \in 1..(N - m) PROVE g[k] = Step(t, g[k - 1])
  <2>1. /\ m + k \in 1..N /\ k \in 0..(N - m) /\ k - 1 \in 0..(N - m)
        /\ (m + k) - 1 = m + (k - 1)
    OBVIOUS
  <2>2. f[m + k] = Step(t, f[m + (k - 1)])
    BY <1>1, <2>1
  <2> QED BY <1>2, <2>1, <2>2
<1> HIDE DEF g
<1> QED BY <1>2, <1>3, <1>4 DEF Trace

\* The first link on a path is also the first on the path with a name more, and
\* following it does not touch that name.
LEMMA FollowLonger ==
  ASSUME NEW t \in Trees, NEW q \in Path, NEW x \in Nat, LinksOn(t, q) # {}
  PROVE  /\ LinksOn(t, Append(q, x)) # {}
         /\ FollowOne(t, Append(q, x)) = Append(FollowOne(t, q), x)
<1> DEFINE r == Append(q, x)
           n == FirstLink(t, q)
<1>1. /\ r \in Path /\ Len(r) = Len(q) + 1 /\ Len(q) \in Nat
  BY Longer
<1>2. \A k \in 1..Len(q) : SubSeq(r, 1, k) = SubSeq(q, 1, k)
  <2>1. \A k \in 1..Len(q) : k \in 0..Len(q) /\ 1 \in Nat \ {0}
    BY <1>1
  <2> QED BY <2>1, LongerPart
<1>3. /\ n \in LinksOn(t, q) /\ n \in 1..Len(q)
      /\ \A j \in LinksOn(t, q) : n <= j
  BY FirstLinkFacts
<1> HIDE DEF r, n
<1>4. ASSUME NEW k \in 1..Len(q) PROVE k \in LinksOn(t, r) <=> k \in LinksOn(t, q)
  <2>1. k \in 1..Len(r)
    BY <1>1
  <2>2. SubSeq(r, 1, k) = SubSeq(q, 1, k)
    BY <1>2
  <2>3. k \in LinksOn(t, r) <=> Here(t, SubSeq(r, 1, k)) = "link"
    BY <2>1 DEF LinksOn
  <2>4. k \in LinksOn(t, q) <=> Here(t, SubSeq(q, 1, k)) = "link"
    BY DEF LinksOn
  <2> QED BY <2>2, <2>3, <2>4
<1>5. n \in LinksOn(t, r)
  BY <1>3, <1>4
<1>6. ASSUME NEW j \in LinksOn(t, r) PROVE n <= j
  <2>1. j \in 1..(Len(q) + 1)
    BY <1>1 DEF LinksOn
  <2>2. CASE j \in 1..Len(q)
    BY <1>3, <1>4, <2>2
  <2>3. CASE j = Len(q) + 1
    BY <1>1, <1>3, <2>3
  <2> QED BY <1>1, <2>1, <2>2, <2>3
<1>7. n = FirstLink(t, r)
  BY <1>1, <1>5, <1>6, FirstLinkFacts
<1>8. FollowOne(t, r) = t[SubSeq(r, 1, n)].to \o SubSeq(r, n + 1, Len(r))
  BY <1>1, <1>5, <1>7, FollowType
<1>9. /\ FollowOne(t, q) = t[SubSeq(q, 1, n)].to \o SubSeq(q, n + 1, Len(q))
      /\ t[SubSeq(q, 1, n)].to \in Path /\ SubSeq(q, n + 1, Len(q)) \in Path
  BY FollowType DEF n
<1>10. SubSeq(r, n + 1, Len(r)) = Append(SubSeq(q, n + 1, Len(q)), x)
  <2>1. n + 1 \in 1..(Len(q) + 1)
    BY <1>1, <1>3
  <2> QED BY <1>1, <2>1, LongerRest DEF r
<1>11. t[SubSeq(r, 1, n)].to \o Append(SubSeq(q, n + 1, Len(q)), x)
         = Append(t[SubSeq(q, 1, n)].to \o SubSeq(q, n + 1, Len(q)), x)
  <2>1. SubSeq(r, 1, n) = SubSeq(q, 1, n)
    BY <1>2, <1>3
  <2> DEFINE a == t[SubSeq(q, 1, n)].to
             b == SubSeq(q, n + 1, Len(q))
  <2>2. a \in Path /\ b \in Path
    BY <1>9
  <2> HIDE DEF a, b
  <2>3. a \o Append(b, x) = Append(a \o b, x)
    BY <2>2, LongerEnd
  <2> QED BY <2>1, <2>3 DEF a, b
<1> QED BY <1>5, <1>8, <1>9, <1>10, <1>11 DEF r

\* An entry of a folder is found at the same place through every path to the
\* folder: resolving the path of the button is resolving the entry.
LEMMA ChildResolves ==
  ASSUME NEW t \in Trees, NEW rel \in Rel, NEW x \in Name,
         LinksOn(t, Resolve(t, rel)) = {},
         LinksOn(t, Resolve(t, Append(Resolve(t, rel), x))) = {}
  PROVE  Resolve(t, Append(rel, x)) = Resolve(t, Append(Resolve(t, rel), x))
<1> DEFINE M == MaxLinks
           p == Append(rel, x)
           q == Resolve(t, rel)
           c == Append(q, x)
<1>1. /\ M \in Nat /\ 2 * M \in Nat /\ M <= 2 * M /\ M \in 0..(2 * M) /\ 0 \in Nat
      /\ x \in Nat /\ rel \in Path
  BY StoreAssumption, BrowseAssumption
<1>2. q \in Path /\ p \in Path /\ c \in Path
  <2>1. q \in Path
    BY <1>1, ResolveType
  <2> QED BY <1>1, <2>1, Longer
<1> HIDE DEF q, p, c, M
<1>3. PICK f : Trace(t, rel, f, M)
  BY <1>1, TraceExists
<1>4. PICK g : Trace(t, p, g, 2 * M)
  BY <1>1, <1>2, TraceExists
<1>5. PICK h : Trace(t, c, h, M)
  BY <1>1, <1>2, TraceExists
<1>6. f[M] = q /\ g[M] = Resolve(t, p) /\ h[M] = Resolve(t, c)
  BY <1>1, <1>2, <1>3, <1>4, <1>5, ResolveIsTrace DEF M, q
<1>7. PICK m \in 0..M : LinksOn(t, f[m]) = {} /\ \A k \in 0..(m - 1) : LinksOn(t, f[k]) # {}
  <2> DEFINE T == {k \in 0..M : LinksOn(t, f[k]) = {}}
  <2>1. T \in SUBSET Nat /\ M \in T
    BY <1>1, <1>6 DEF q
  <2>2. PICK m \in T : \A k \in T : m <= k
    BY <2>1, LeastNatural
  <2>3. \A k \in 0..(m - 1) : k \notin T /\ k \in 0..M
    BY <2>1, <2>2
  <2> QED BY <2>2, <2>3
<1>8. f[m] = q
  <2>1. M \in m..M
    BY <1>1
  <2> QED BY <1>1, <1>3, <1>6, <1>7, <2>1, TraceStays
<1>9. g[m] = c
  <2> DEFINE T == {k \in Nat : k <= m => g[k] = Append(f[k], x)}
  <2>1. 0 \in T
    BY <1>3, <1>4 DEF Trace, p
  <2>2. ASSUME NEW k \in Nat, k \in T PROVE k + 1 \in T
    <3> SUFFICES ASSUME k + 1 <= m PROVE g[k + 1] = Append(f[k + 1], x)
      OBVIOUS
    <3>1. /\ k + 1 \in 1..M /\ k + 1 \in 1..(2 * M) /\ (k + 1) - 1 = k
          /\ k \in 0..M /\ k \in 0..(m - 1) /\ k <= m
      BY <1>1
    <3>2. g[k] = Append(f[k], x)
      BY <2>2, <3>1
    <3>3. f[k + 1] = Step(t, f[k]) /\ g[k + 1] = Step(t, g[k]) /\ f[k] \in Path
      BY <1>3, <1>4, <3>1 DEF Trace
    <3>4. LinksOn(t, f[k]) # {}
      BY <1>7, <3>1
    <3>5. /\ LinksOn(t, Append(f[k], x)) # {}
          /\ FollowOne(t, Append(f[k], x)) = Append(FollowOne(t, f[k]), x)
      BY <1>1, <3>3, <3>4, FollowLonger
    <3> QED BY <3>2, <3>3, <3>4, <3>5 DEF Step
  <2> HIDE DEF T
  <2>3. m \in T
    BY <2>1, <2>2, Induction
  <2> QED BY <1>8, <2>3 DEF T, c
<1>10. g[m + M] = Resolve(t, c)
  <2>1. m \in 0..(2 * M) /\ 2 * M - m \in Nat /\ M \in 0..(2 * M - m)
    BY <1>1
  <2>2. PICK r : Trace(t, g[m], r, 2 * M - m) /\ \A k \in 0..(2 * M - m) : r[k] = g[m + k]
    BY <1>1, <1>4, <2>1, TraceRest
  <2>3. r[M] = h[M]
    <3>1. Trace(t, c, r, 2 * M - m) /\ M <= 2 * M - m /\ M <= M
      BY <1>1, <1>9, <2>1, <2>2
    <3> QED BY <1>1, <1>5, <2>1, <3>1, TraceUnique
  <2> QED BY <1>6, <2>1, <2>2, <2>3
<1>11. g[2 * M] = Resolve(t, c) /\ LinksOn(t, g[2 * M]) = {}
  <2>1. m + M \in 0..(2 * M) /\ 2 * M \in (m + M)..(2 * M)
    BY <1>1
  <2>2. LinksOn(t, g[m + M]) = {}
    BY <1>10 DEF c, q
  <2> QED BY <1>1, <1>4, <1>10, <2>1, <2>2, TraceStays
<1>12. Resolve(t, Resolve(t, p)) = g[2 * M]
  <2>1. 2 * M - M = M /\ M \in 0..M /\ M + M = 2 * M /\ M <= M
    BY <1>1
  <2>2. PICK r : Trace(t, g[M], r, M) /\ \A k \in 0..M : r[k] = g[M + k]
    BY <1>1, <1>4, <2>1, TraceRest
  <2>3. g[M] \in Path
    BY <1>1, <1>4 DEF Trace
  <2>4. Resolve(t, g[M]) = r[M]
    BY <1>1, <2>1, <2>2, <2>3, ResolveIsTrace DEF M
  <2> QED BY <1>6, <2>1, <2>2, <2>4
<1>13. LinksOn(t, Resolve(t, p)) = {}
  <2>1. LinksOn(t, Resolve(t, p)) # {} => LinksOn(t, Resolve(t, Resolve(t, p))) # {}
    BY BoundsAssumption DEF p
  <2> QED BY <1>11, <1>12, <2>1
<1>14. g[2 * M] = g[M]
  <2>1. 2 * M \in M..(2 * M)
    BY <1>1
  <2> QED BY <1>1, <1>4, <1>6, <1>13, <2>1, TraceStays
<1> QED BY <1>6, <1>11, <1>14 DEF p, c, q

--------------------------------------------------------------------------------
(* Sorting *)

\* R orders the elements of S.
Orders(R, S) ==
  /\ \A x \in S : <<x, x>> \notin R
  /\ \A x, y, z \in S : <<x, y>> \in R /\ <<y, z>> \in R => <<x, z>> \in R
  /\ \A x, y \in S : x # y => <<x, y>> \in R \/ <<y, x>> \in R

\* The number of elements of S before x.
Rank(x, R, S) == Cardinality({y \in S : <<y, x>> \in R})

\* The elements of an ordered finite set are numbered by those before them.
LEMMA Ranks ==
  ASSUME NEW S, IsFiniteSet(S), NEW R, Orders(R, S)
  PROVE  /\ Cardinality(S) \in Nat
         /\ \A x \in S : Rank(x, R, S) + 1 \in 1..Cardinality(S)
         /\ \A x, z \in S : Rank(x, R, S) = Rank(z, R, S) => x = z
         /\ \A k \in 1..Cardinality(S) : \E x \in S : Rank(x, R, S) = k - 1
<1> DEFINE n == Cardinality(S)
           L(x) == {y \in S : <<y, x>> \in R}
           r == [x \in S |-> Cardinality(L(x))]
<1>1. n \in Nat
  BY FS_CardinalityType
<1>2. ASSUME NEW x \in S
      PROVE  IsFiniteSet(L(x)) /\ Cardinality(L(x)) \in 0..(n - 1)
  <2>1. L(x) \in SUBSET S /\ L(x) # S
    BY DEF Orders
  <2> HIDE DEF L
  <2>2. IsFiniteSet(L(x)) /\ Cardinality(L(x)) <= n /\ Cardinality(L(x)) # n
    BY <2>1, FS_Subset
  <2>3. Cardinality(L(x)) \in Nat
    BY <2>2, FS_CardinalityType
  <2> HIDE DEF n
  <2> QED BY <1>1, <2>2, <2>3
<1>3. ASSUME NEW x \in S, NEW z \in S, <<x, z>> \in R
      PROVE  Cardinality(L(x)) # Cardinality(L(z))
  <2>1. L(x) \in SUBSET L(z) /\ x \in L(z) /\ x \notin L(x)
    BY <1>3 DEF Orders
  <2>2. IsFiniteSet(L(z))
    BY <1>2
  <2> HIDE DEF L
  <2> QED BY <2>1, <2>2, FS_Subset
<1>4. ASSUME NEW x \in S, NEW z \in S, x # z
      PROVE  Cardinality(L(x)) # Cardinality(L(z))
  BY <1>3, <1>4 DEF Orders
<1>5. r \in Injection(S, 0..(n - 1))
  <2> HIDE DEF L, n
  <2>1. r \in [S -> 0..(n - 1)]
    BY <1>2
  <2>2. \A x, z \in S : r[x] = r[z] => x = z
    BY <1>4
  <2> HIDE DEF r
  <2> QED BY <2>1, <2>2 DEF Injection, IsInjective
<1>6. IsFiniteSet(0..(n - 1)) /\ Cardinality(0..(n - 1)) = n
  <2> HIDE DEF n
  <2>1. 0 \in Int /\ n - 1 \in Int
    BY <1>1
  <2>2. /\ IsFiniteSet(0..(n - 1))
        /\ Cardinality(0..(n - 1)) = IF 0 > n - 1 THEN 0 ELSE (n - 1) - 0 + 1
    BY <2>1, FS_Interval
  <2> QED BY <1>1, <2>2
<1>7. r \in Surjection(S, 0..(n - 1))
  <2> HIDE DEF r
  <2> QED BY <1>5, <1>6, FS_Injection
<1>8. ASSUME NEW k \in 1..n PROVE \E x \in S : Cardinality(L(x)) = k - 1
  <2> HIDE DEF n, L
  <2>1. k - 1 \in 0..(n - 1)
    BY <1>1
  <2>2. \E x \in S : r[x] = k - 1
    <3> HIDE DEF r
    <3> QED BY <1>7, <2>1 DEF Surjection
  <2> QED BY <2>2
<1>9. \A x \in S : Rank(x, R, S) = Cardinality(L(x))
  BY DEF Rank
<1>10. \A x \in S : Cardinality(L(x)) + 1 \in 1..n
  <2> HIDE DEF n, L
  <2> QED BY <1>1, <1>2
<1> HIDE DEF L
<1> QED BY <1>1, <1>4, <1>8, <1>9, <1>10

\* Elements of S in the order of R.
InOrder(s, R, S) ==
  s \in [1..Cardinality(S) -> S] /\ \A k \in 1..Cardinality(S) : Rank(s[k], R, S) = k - 1

\* A sequence of the elements of S, each of which it has.
Lists(s, S) ==
  /\ s \in Seq(S) /\ Len(s) \in Nat /\ \A k \in 1..Len(s) : s[k] \in S
  /\ \A x \in S : \E k \in 1..Len(s) : s[k] = x

\* A sequence in the order of R of elements of S has each of them.
LEMMA Sorted ==
  ASSUME NEW S, IsFiniteSet(S), NEW R, Orders(R, S), NEW s, InOrder(s, R, S)
  PROVE  Lists(s, S)
<1> DEFINE n == Cardinality(S)
<1>1. n \in Nat
  BY Ranks
<1>2. s \in [1..n -> S] /\ \A k \in 1..n : s[k] \in S /\ Rank(s[k], R, S) = k - 1
  BY DEF InOrder
<1>3. s \in Seq(S) /\ Len(s) = n
  <2> HIDE DEF n
  <2>1. s \in [1..n -> S]
    BY <1>2 DEF n
  <2>2. \A f, m : m \in Nat /\ f \in [1..m -> S] => f \in Seq(S) /\ Len(f) = m
    OBVIOUS
  <2> QED BY <1>1, <2>1, <2>2
<1>4. ASSUME NEW x \in S PROVE \E k \in 1..n : s[k] = x
  <2> DEFINE k == Rank(x, R, S) + 1
  <2>1. k \in 1..n
    BY Ranks
  <2>2. Rank(x, R, S) = k - 1
    <3>1. Rank(x, R, S) + 1 \in 1..n
      BY Ranks
    <3>2. {y \in S : <<y, x>> \in R} \in SUBSET S
      OBVIOUS
    <3>3. Rank(x, R, S) \in Nat
      BY <3>2, FS_Subset, FS_CardinalityType DEF Rank
    <3> QED BY <3>3
  <2> HIDE DEF k
  <2>3. s[k] \in S /\ Rank(s[k], R, S) = Rank(x, R, S)
    BY <1>2, <2>1, <2>2
  <2>4. s[k] = x
    BY <2>3, Ranks
  <2> QED BY <2>1, <2>4
<1> QED BY <1>1, <1>2, <1>3, <1>4 DEF Lists

\* The beginnings of two paths are the same when the names are.
LEMMA SameStart ==
  ASSUME NEW p \in Path, NEW q \in Path, NEW n \in Nat, n <= Len(p), n <= Len(q)
  PROVE  SubSeq(p, 1, n) = SubSeq(q, 1, n) <=> \A k \in 1..n : p[k] = q[k]
<1> DEFINE c == SubSeq(p, 1, n)
           d == SubSeq(q, 1, n)
<1>1. n \in 0..Len(p) /\ n \in 0..Len(q) /\ 1 \in Nat \ {0}
  BY DEF Path
<1>2. /\ c \in Path /\ Len(c) = (IF 1 <= n THEN n - 1 + 1 ELSE 0)
      /\ \A k \in 1..(n - 1 + 1) : c[k] = p[1 + k - 1]
  BY <1>1, Part
<1>3. /\ d \in Path /\ Len(d) = (IF 1 <= n THEN n - 1 + 1 ELSE 0)
      /\ \A k \in 1..(n - 1 + 1) : d[k] = q[1 + k - 1]
  BY <1>1, Part
<1> HIDE DEF c, d
<1>4. /\ Len(c) = n /\ Len(d) = n /\ n - 1 + 1 = n
      /\ \A k \in 1..n : c[k] = p[k] /\ d[k] = q[k]
  BY <1>2, <1>3
<1>5. (\A k \in 1..n : p[k] = q[k]) => c = d
  BY <1>2, <1>3, <1>4, SamePath
<1>6. c = d => \A k \in 1..n : p[k] = q[k]
  BY <1>4
<1> QED BY <1>5, <1>6 DEF c, d

\* The beginning of a beginning of a path is one of the path.
LEMMA PartOfPart ==
  ASSUME NEW p \in Path, NEW m \in 0..Len(p), NEW n \in Nat, n <= m
  PROVE  SubSeq(SubSeq(p, 1, m), 1, n) = SubSeq(p, 1, n)
<1> DEFINE a == SubSeq(p, 1, m)
<1>1. Len(p) \in Nat /\ m \in Nat
  BY DEF Path
<1>2. a \in Path /\ Len(a) = m /\ \A k \in 1..m : a[k] = p[k]
  <2>1. /\ a \in Path /\ Len(a) = IF 1 <= m THEN m - 1 + 1 ELSE 0
        /\ \A k \in 1..(m - 1 + 1) : a[k] = p[1 + k - 1]
    BY Part
  <2> HIDE DEF a
  <2> QED BY <1>1, <2>1
<1> HIDE DEF a
<1>3. n <= Len(a) /\ n <= Len(p) /\ \A k \in 1..n : a[k] = p[k]
  BY <1>1, <1>2
<1> QED BY <1>2, <1>3, SameStart DEF a

\* Paths before others, by their names.
LEMMA BeforeNames ==
  ASSUME NEW p \in Path, NEW q \in Path
  PROVE  PathBefore(p, q) <=>
           \E n \in Nat : /\ n <= Len(p) /\ n < Len(q) /\ \A k \in 1..n : p[k] = q[k]
                          /\ n < Len(p) => p[n + 1] < q[n + 1]
<1>1. Len(p) \in Nat /\ Len(q) \in Nat
  BY DEF Path
<1>2. \A n \in Nat : n <= Len(p) /\ n < Len(q) =>
        (SubSeq(p, 1, n) = SubSeq(q, 1, n) <=> \A k \in 1..n : p[k] = q[k])
  BY <1>1, SameStart
<1>3. \A n : n \in 0..Len(p) <=> n \in Nat /\ n <= Len(p)
  BY <1>1
<1>4. PathBefore(p, q) <=>
        \E n \in Nat : /\ n <= Len(p) /\ SubSeq(p, 1, n) = SubSeq(q, 1, n) /\ n < Len(q)
                       /\ n < Len(p) => p[n + 1] < q[n + 1]
  BY <1>3 DEF PathBefore
<1> QED BY <1>2, <1>4

\* Path.__lt__() orders the paths.
LEMMA PathOrder == Orders({e \in Path \X Path : PathBefore(e[1], e[2])}, Path)
<1> DEFINE R == {e \in Path \X Path : PathBefore(e[1], e[2])}
<1>1. \A p, q \in Path : <<p, q>> \in R <=> PathBefore(p, q)
  OBVIOUS
<1>2. ASSUME NEW p \in Path PROVE Len(p) \in Nat /\ \A k \in 1..Len(p) : p[k] \in Nat
  BY DEF Path
<1>3. ASSUME NEW p \in Path, PathBefore(p, p) PROVE FALSE
  <2>1. PICK n \in Nat : n < Len(p) /\ p[n + 1] < p[n + 1]
    BY <1>3, BeforeNames
  <2>2. p[n + 1] \in Nat
    BY <1>2, <2>1
  <2> QED BY <2>1, <2>2
<1>4. ASSUME NEW p \in Path, NEW q \in Path, NEW r \in Path,
             PathBefore(p, q), PathBefore(q, r)
      PROVE  PathBefore(p, r)
  <2>1. PICK n \in Nat : /\ n <= Len(p) /\ n < Len(q) /\ \A k \in 1..n : p[k] = q[k]
                         /\ n < Len(p) => p[n + 1] < q[n + 1]
    BY <1>4, BeforeNames
  <2>2. PICK m \in Nat : /\ m <= Len(q) /\ m < Len(r) /\ \A k \in 1..m : q[k] = r[k]
                         /\ m < Len(q) => q[m + 1] < r[m + 1]
    BY <1>4, BeforeNames
  <2>3. Len(p) \in Nat /\ Len(q) \in Nat /\ Len(r) \in Nat
    BY <1>2
  <2>4. CASE n < m
    <3>1. n < Len(r) /\ \A k \in 1..n : p[k] = r[k]
      BY <2>1, <2>2, <2>3, <2>4
    <3>2. n + 1 \in 1..m
      BY <2>4
    <3>3. n < Len(p) => p[n + 1] < r[n + 1]
      BY <2>1, <2>2, <3>2
    <3> QED BY <2>1, <3>1, <3>3, BeforeNames
  <2>5. CASE n = m
    <3>1. n < Len(r) /\ \A k \in 1..n : p[k] = r[k]
      BY <2>1, <2>2, <2>5
    <3>2. ASSUME n < Len(p) PROVE p[n + 1] < r[n + 1]
      <4>1. p[n + 1] < q[n + 1] /\ q[n + 1] < r[n + 1]
        BY <2>1, <2>2, <2>5, <3>2
      <4>2. p[n + 1] \in Nat /\ q[n + 1] \in Nat /\ r[n + 1] \in Nat
        BY <1>2, <2>1, <2>3, <3>1, <3>2
      <4> QED BY <4>1, <4>2
    <3> QED BY <2>1, <3>1, <3>2, BeforeNames
  <2>6. CASE n > m
    <3>1. /\ m < Len(p) /\ m <= Len(p) /\ m < Len(q)
          /\ \A k \in 1..m : p[k] = r[k] /\ m + 1 \in 1..n
      BY <2>1, <2>2, <2>3, <2>6
    <3>2. m + 1 \in 1..n
      BY <2>6
    <3>3. p[m + 1] < r[m + 1]
      BY <2>1, <2>2, <3>1, <3>2
    <3> QED BY <2>2, <3>1, <3>3, BeforeNames
  <2> QED BY <2>4, <2>5, <2>6
<1>5. ASSUME NEW p \in Path, NEW q \in Path, p # q
      PROVE  PathBefore(p, q) \/ PathBefore(q, p)
  <2> DEFINE D == {k \in Nat : k \in 1..Len(p) /\ k \in 1..Len(q) /\ p[k] # q[k]}
  <2>1. Len(p) \in Nat /\ Len(q) \in Nat
    BY <1>2
  <2>2. CASE D = {}
    <3>1. \A k \in Nat : k \in 1..Len(p) /\ k \in 1..Len(q) => p[k] = q[k]
      BY <2>2
    <3>2. CASE Len(p) < Len(q)
      <4>1. \A k \in 1..Len(p) : p[k] = q[k]
        BY <2>1, <3>1, <3>2
      <4> QED BY <2>1, <3>2, <4>1, BeforeNames
    <3>3. CASE Len(q) < Len(p)
      <4>1. \A k \in 1..Len(q) : q[k] = p[k]
        BY <2>1, <3>1, <3>3
      <4> QED BY <2>1, <3>3, <4>1, BeforeNames
    <3>4. CASE Len(p) = Len(q)
      BY <1>5, <2>1, <3>1, <3>4, SamePath
    <3> QED BY <2>1, <3>2, <3>3, <3>4
  <2>3. CASE D # {}
    <3>1. PICK d \in D : \A k \in D : d <= k
      BY <2>3, LeastNatural
    <3> DEFINE n == d - 1
    <3>2. /\ n \in Nat /\ n + 1 = d /\ n < Len(p) /\ n < Len(q)
          /\ n <= Len(p) /\ n <= Len(q) /\ p[d] # q[d] /\ p[d] \in Nat /\ q[d] \in Nat
      BY <1>2, <2>1
    <3>3. \A k \in 1..n : k \in Nat /\ k \in 1..Len(p) /\ k \in 1..Len(q) /\ ~(d <= k)
      BY <2>1
    <3>4. \A k \in 1..n : p[k] = q[k] /\ q[k] = p[k]
      BY <3>1, <3>3
    <3> HIDE DEF n, D
    <3>5. CASE p[d] < q[d]
      BY <3>2, <3>4, <3>5, BeforeNames
    <3>6. CASE q[d] < p[d]
      BY <3>2, <3>4, <3>6, BeforeNames
    <3> QED BY <3>2, <3>5, <3>6
  <2> QED BY <2>2, <2>3
<1> HIDE DEF R
<1>6. Orders(R, Path)
  BY <1>1, <1>3, <1>4, <1>5 DEF Orders
<1> QED BY <1>6 DEF R

--------------------------------------------------------------------------------
(* Places *)

\* The places are the paths of up to Depth names; there are finitely many.
LEMMA PlaceFacts ==
  /\ \A p \in Place : /\ p \in Path /\ Len(p) \in Nat /\ Len(p) \in 1..Depth
                      /\ \A k \in 1..Len(p) : p[k] \in Name /\ p[k] \in Nat
  /\ \A p \in Path : Len(p) \in 1..Depth /\ (\A k \in 1..Len(p) : p[k] \in Name) => p \in Place
  /\ Root \notin Place /\ Outside \notin Place /\ OutsideFile \notin Place
<1>1. Depth \in Nat /\ Name \subseteq Nat \ {0}
  BY StoreAssumption
<1>2. ASSUME NEW p \in Place
      PROVE  /\ p \in Path /\ Len(p) \in Nat /\ Len(p) \in 1..Depth
             /\ \A k \in 1..Len(p) : p[k] \in Name /\ p[k] \in Nat
  <2>1. PICK n \in 1..Depth : p \in [1..n -> Name]
    BY DEF Place
  <2>2. n \in Nat
    BY <1>1
  <2>3. p \in Seq(Nat) /\ Len(p) = n
    <3>1. p \in [1..n -> Nat]
      BY <1>1, <2>1
    <3>2. \A f, m : m \in Nat /\ f \in [1..m -> Nat] => f \in Seq(Nat) /\ Len(f) = m
      OBVIOUS
    <3> QED BY <2>2, <3>1, <3>2
  <2> QED BY <1>1, <2>1, <2>2, <2>3 DEF Path
<1>3. ASSUME NEW p \in Path, Len(p) \in 1..Depth, \A k \in 1..Len(p) : p[k] \in Name
      PROVE  p \in Place
  <2>1. p = [k \in 1..Len(p) |-> p[k]]
    BY DEF Path
  <2>2. p \in [1..Len(p) -> Name]
    BY <1>3, <2>1
  <2> QED BY <1>3, <2>2 DEF Place
<1>4. Root \notin Place
  <2>1. Len(Root) = 0
    BY DEF Root
  <2> QED BY <1>1, <1>2, <2>1
<1>5. Outside \notin Place /\ OutsideFile \notin Place
  <2>1. /\ 1 \in 1..Len(Outside) /\ Outside[1] = 0
        /\ 1 \in 1..Len(OutsideFile) /\ OutsideFile[1] = 0
    BY DEF Outside, OutsideFile
  <2> QED BY <1>1, <1>2, <2>1
<1> QED BY <1>2, <1>3, <1>4, <1>5

\* There are finitely many of them.
LEMMA PlaceFinite == IsFiniteSet(Place)
<1> DEFINE Pairs == (1..Depth) \X Name
           G(p) == {e \in Pairs : e[1] <= Len(p) /\ p[e[1]] = e[2]}
           g == [p \in Place |-> G(p)]
<1>1. Depth \in Nat /\ IsFiniteSet(Name) /\ Name \subseteq Nat
  BY StoreAssumption
<1>2. IsFiniteSet(SUBSET Pairs)
  <2>1. 1 \in Int /\ Depth \in Int
    BY <1>1
  <2>2. IsFiniteSet(1..Depth)
    BY <2>1, FS_Interval
  <2>3. IsFiniteSet(Pairs)
    BY <1>1, <2>2, FS_Product
  <2> HIDE DEF Pairs
  <2> QED BY <2>3, FS_SUBSET
<1>3. ASSUME NEW p \in Place, NEW q \in Place, G(p) = G(q), NEW k \in 1..Len(p)
      PROVE  k <= Len(q) /\ q[k] = p[k]
  <2>1. Len(p) \in 1..Depth /\ p[k] \in Name /\ k \in 1..Depth
    BY <1>1, PlaceFacts
  <2>2. <<k, p[k]>> \in G(p)
    BY <2>1
  <2>3. <<k, p[k]>> \in G(q)
    BY <1>3, <2>2
  <2> QED BY <2>3
<1>4. ASSUME NEW p \in Place, NEW q \in Place, G(p) = G(q) PROVE p = q
  <2>1. p \in Path /\ q \in Path /\ Len(p) \in Nat /\ Len(q) \in Nat /\ Len(p) > 0 /\ Len(q) > 0
    BY <1>1, PlaceFacts
  <2>2. \A k \in 1..Len(p) : k <= Len(q) /\ q[k] = p[k]
    BY <1>3, <1>4
  <2>3. \A k \in 1..Len(q) : k <= Len(p) /\ p[k] = q[k]
    BY <1>3, <1>4
  <2>4. Len(p) \in 1..Len(p) /\ Len(q) \in 1..Len(q)
    BY <2>1
  <2>5. Len(p) = Len(q)
    BY <2>1, <2>2, <2>3, <2>4
  <2> QED BY <2>1, <2>2, <2>5, SamePath
<1>5. g \in Injection(Place, SUBSET Pairs)
  <2>1. g \in [Place -> SUBSET Pairs]
    OBVIOUS
  <2>2. \A p, q \in Place : g[p] = g[q] => p = q
    BY <1>4
  <2> HIDE DEF g, Pairs
  <2> QED BY <2>1, <2>2 DEF Injection, IsInjective
<1> HIDE DEF g, Pairs
<1> QED BY <1>2, <1>5, FS_Injection

\* The elements of a finite set are mapped to finitely many.
LEMMA FiniteImage ==
  ASSUME NEW S, IsFiniteSet(S), NEW f
  PROVE  IsFiniteSet({f[x] : x \in S})
<1> DEFINE T == {f[x] : x \in S}
           g == [x \in S |-> f[x]]
<1>1. g \in [S -> T] /\ \A y \in T : \E x \in S : g[x] = y
  OBVIOUS
<1> HIDE DEF g, T
<1>2. g \in Surjection(S, T)
  BY <1>1 DEF Surjection
<1>3. IsFiniteSet(T)
  BY <1>2, FS_Surjection
<1> QED BY <1>3 DEF T

\* A path and its parent.
LEMMA ParentFacts ==
  ASSUME NEW p \in Path, Len(p) > 0
  PROVE  /\ Parent(p) \in Path /\ Len(Parent(p)) = Len(p) - 1
         /\ Len(p) \in Nat /\ p[Len(p)] \in Nat /\ p = Append(Parent(p), p[Len(p)])
         /\ \A n \in 0..(Len(p) - 1) : SubSeq(Parent(p), 1, n) = SubSeq(p, 1, n)
<1> DEFINE q == Parent(p)
           x == p[Len(p)]
<1>1. Len(p) \in Nat /\ Len(p) \in 1..Len(p) /\ \A k \in 1..Len(p) : p[k] \in Nat
  BY DEF Path
<1>2. /\ q \in Path /\ Len(q) = Len(p) - 1
      /\ \A k \in 1..(Len(p) - 1) : q[k] = p[k]
  <2>1. 1 \in Nat \ {0} /\ Len(p) - 1 \in 0..Len(p)
    BY <1>1
  <2>2. /\ q \in Path
        /\ Len(q) = IF 1 <= Len(p) - 1 THEN (Len(p) - 1) - 1 + 1 ELSE 0
        /\ \A k \in 1..((Len(p) - 1) - 1 + 1) : q[k] = p[1 + k - 1]
    BY <2>1, Part DEF Parent
  <2> HIDE DEF q
  <2>3. /\ (Len(p) - 1) - 1 + 1 = Len(p) - 1
        /\ (IF 1 <= Len(p) - 1 THEN (Len(p) - 1) - 1 + 1 ELSE 0) = Len(p) - 1
    <3>1. \A n \in Nat : n > 0 =>
            (n - 1) - 1 + 1 = n - 1 /\ (IF 1 <= n - 1 THEN (n - 1) - 1 + 1 ELSE 0) = n - 1
      OBVIOUS
    <3> QED BY <1>1, <3>1
  <2>4. ASSUME NEW k \in 1..(Len(p) - 1) PROVE q[k] = p[k]
    <3>1. k \in 1..((Len(p) - 1) - 1 + 1) /\ 1 + k - 1 = k
      BY <1>1, <2>3
    <3>2. q[k] = p[1 + k - 1]
      BY <2>2, <3>1
    <3> QED BY <3>1, <3>2
  <2> QED BY <2>2, <2>3, <2>4
<1>3. x \in Nat
  BY <1>1
<1> HIDE DEF q, x
<1>4. /\ Append(q, x) \in Path /\ Len(Append(q, x)) = Len(q) + 1
      /\ Append(q, x)[Len(q) + 1] = x
      /\ \A k \in 1..Len(q) : Append(q, x)[k] = q[k]
  BY <1>2, <1>3, Longer
<1>5. ASSUME NEW k \in 1..Len(p) PROVE p[k] = Append(q, x)[k]
  <2>1. CASE k = Len(p)
    BY <1>1, <1>2, <1>4, <2>1 DEF x
  <2>2. CASE k # Len(p)
    BY <1>1, <1>2, <1>4, <2>2
  <2> QED BY <2>1, <2>2
<1>6. p = Append(q, x)
  <2>1. Len(p) = Len(Append(q, x))
    BY <1>1, <1>2, <1>4
  <2> QED BY <1>4, <1>5, <2>1, SamePath
<1>7. ASSUME NEW n \in 0..(Len(p) - 1) PROVE SubSeq(q, 1, n) = SubSeq(p, 1, n)
  <2>1. n \in Nat /\ n <= Len(q) /\ n <= Len(p) /\ \A k \in 1..n : q[k] = p[k]
    BY <1>1, <1>2
  <2> QED BY <1>2, <2>1, SameStart
<1> QED BY <1>1, <1>2, <1>3, <1>6, <1>7 DEF q, x

\* A path with a name more has the path as its parent.
LEMMA LongerParent ==
  ASSUME NEW p \in Path, NEW x \in Nat
  PROVE  Parent(Append(p, x)) = p
<1> DEFINE r == Append(p, x)
<1>1. /\ r \in Path /\ Len(r) = Len(p) + 1 /\ Len(p) \in Nat
      /\ \A k \in 1..Len(p) : r[k] = p[k]
  BY Longer
<1> HIDE DEF r
<1>2. /\ Parent(r) \in Path /\ Len(Parent(r)) = Len(r) - 1
      /\ Append(Parent(r), r[Len(r)]) = r /\ r[Len(r)] \in Nat
  BY <1>1, ParentFacts
<1>3. \A k \in 1..Len(Parent(r)) : Append(Parent(r), r[Len(r)])[k] = Parent(r)[k]
  BY <1>2, Longer
<1>4. Len(Parent(r)) = Len(p)
  BY <1>1, <1>2
<1>5. \A k \in 1..Len(p) : Parent(r)[k] = p[k]
  BY <1>1, <1>2, <1>3, <1>4
<1> QED BY <1>2, <1>4, <1>5, SamePath DEF r

--------------------------------------------------------------------------------
(* list_dir() and search() *)

\* The entries of directory q that _to_entry() does not leave out.
Found(t, q) == {c \in Children(t, q) : ResolvesInside(t, c) /\ Readable(t, c)}

\* The entry c in the listing of rel.
EntryOf(t, rel, c) == [rel |-> Append(rel, c[Len(c)]), is_dir |-> At(t, c) = "dir"]

\* What stat() finds.
LEMMA AtKinds ==
  ASSUME NEW t \in Trees, NEW p
  PROVE  At(t, p) \in {"dir", "file", "none"}
<1> DEFINE q == Resolve(t, p)
<1>1. Here(t, q) \in {"none", "dir", "file", "link"}
  BY TreeFacts DEF Here
<1> HIDE DEF q
<1>2. \/ q \in {Root, Outside} /\ At(t, p) = "dir"
      \/ q = OutsideFile /\ At(t, p) = "file"
      \/ Here(t, q) = "link" /\ At(t, p) = "none"
      \/ Here(t, q) # "link" /\ At(t, p) = Here(t, q)
  BY DEF At, q, Root, Outside, OutsideFile
<1> QED BY <1>1, <1>2

\* The entries of a directory.
LEMMA ChildFacts ==
  ASSUME NEW t, NEW q \in Path, NEW c \in Children(t, q)
  PROVE  /\ c \in Place /\ c \in Path /\ Here(t, c) # "none" /\ Parent(c) = q
         /\ Len(c) = Len(q) + 1 /\ Len(q) \in Nat
         /\ c[Len(c)] \in Name /\ c[Len(c)] \in Nat /\ c = Append(q, c[Len(c)])
<1>1. c \in Place /\ Here(t, c) # "none" /\ Parent(c) = q
  BY DEF Children
<1>2. c \in Path /\ Len(c) > 0 /\ Len(c) \in 1..Len(c) /\ c[Len(c)] \in Name
  <2>1. /\ c \in Path /\ Len(c) \in Nat /\ Len(c) \in 1..Depth
        /\ \A k \in 1..Len(c) : c[k] \in Name
    BY <1>1, PlaceFacts
  <2>2. Depth \in Nat
    BY StoreAssumption
  <2> QED BY <2>1, <2>2
<1>3. Len(q) = Len(c) - 1 /\ Len(c) \in Nat /\ c[Len(c)] \in Nat /\ c = Append(q, c[Len(c)])
  BY <1>1, <1>2, ParentFacts
<1> QED BY <1>1, <1>2, <1>3

\* A listing is a sequence of the readable entries inside, each of which it has.
LEMMA Listing ==
  ASSUME NEW t \in Trees, NEW rel \in Path
  PROVE  LET s == ListDir(t, rel)
             found == Found(t, Resolve(t, rel))
         IN /\ Len(s) \in Nat /\ DOMAIN s = 1..Len(s)
            /\ \A k \in 1..Len(s) : \E c \in found : s[k] = EntryOf(t, rel, c)
            /\ \A c \in found : \E k \in 1..Len(s) : s[k] = EntryOf(t, rel, c)
<1> DEFINE q == Resolve(t, rel)
           found == Found(t, q)
           E == {EntryOf(t, rel, c) : c \in found}
           Before(a, b) == IF a.is_dir = b.is_dir
                             THEN a.rel[Len(a.rel)] < b.rel[Len(b.rel)] ELSE a.is_dir
           R == {e \in E \X E : Before(e[1], e[2])}
           Nth(k) == CHOOSE x \in E : Cardinality({y \in E : Before(y, x)}) = k - 1
           s == ListDir(t, rel)
<1>1. s = Ordered(E, Before)
  BY DEF ListDir, Found, EntryOf
<1>2. q \in Path
  BY ResolveType
<1>3. IsFiniteSet(E)
  <2> DEFINE g == [c \in found |-> EntryOf(t, rel, c)]
  <2>1. found \in SUBSET Place
    BY DEF Found, Children
  <2>2. IsFiniteSet(found)
    BY <2>1, PlaceFinite, FS_Subset
  <2>3. E = {g[c] : c \in found}
    OBVIOUS
  <2> HIDE DEF g, E, found
  <2> QED BY <2>2, <2>3, FiniteImage
<1>4. ASSUME NEW e \in E
      PROVE  /\ e.is_dir \in BOOLEAN /\ e.rel[Len(e.rel)] \in Nat
             /\ e = [rel |-> Append(rel, e.rel[Len(e.rel)]), is_dir |-> e.is_dir]
  <2>1. PICK c \in found : e = EntryOf(t, rel, c)
    OBVIOUS
  <2>2. c[Len(c)] \in Nat
    BY <1>2, ChildFacts DEF Found
  <2>3. e.rel = Append(rel, c[Len(c)]) /\ e.is_dir = (At(t, c) = "dir")
    BY <2>1 DEF EntryOf
  <2>4. e.rel[Len(e.rel)] = c[Len(c)]
    BY <2>2, <2>3, Longer
  <2>5. e = [rel |-> Append(rel, c[Len(c)]), is_dir |-> At(t, c) = "dir"]
    BY <2>1 DEF EntryOf
  <2> QED BY <2>2, <2>3, <2>4, <2>5
<1> HIDE DEF E
<1>5. \A a, b \in E : <<a, b>> \in R <=> Before(a, b)
  OBVIOUS
<1>6. Orders(R, E)
  <2>1. \A a \in E : <<a, a>> \notin R
    BY <1>4, <1>5
  <2>2. ASSUME NEW a \in E, NEW b \in E, NEW c \in E, Before(a, b), Before(b, c)
        PROVE  Before(a, c)
    <3>1. /\ a.is_dir \in BOOLEAN /\ b.is_dir \in BOOLEAN /\ c.is_dir \in BOOLEAN
          /\ a.rel[Len(a.rel)] \in Nat /\ b.rel[Len(b.rel)] \in Nat
          /\ c.rel[Len(c.rel)] \in Nat
      BY <1>4
    <3> QED BY <2>2, <3>1
  <2>3. ASSUME NEW a \in E, NEW b \in E, a # b PROVE Before(a, b) \/ Before(b, a)
    <3>1. /\ a.is_dir \in BOOLEAN /\ b.is_dir \in BOOLEAN
          /\ a.rel[Len(a.rel)] \in Nat /\ b.rel[Len(b.rel)] \in Nat
      BY <1>4
    <3>2. a.is_dir # b.is_dir \/ a.rel[Len(a.rel)] # b.rel[Len(b.rel)]
      BY <1>4, <2>3
    <3> QED BY <3>1, <3>2
  <2> HIDE DEF R, Before
  <2> QED BY <1>5, <2>1, <2>2, <2>3 DEF Orders
<1>7. s = [k \in 1..Cardinality(E) |-> Nth(k)]
  BY <1>1 DEF Ordered
<1> HIDE DEF s, R, Nth
<1>8. \A x \in E : Rank(x, R, E) = Cardinality({y \in E : Before(y, x)})
  <2>1. ASSUME NEW x \in E PROVE {y \in E : <<y, x>> \in R} = {y \in E : Before(y, x)}
    BY <1>5
  <2> QED BY <2>1 DEF Rank
<1>9. ASSUME NEW k \in 1..Cardinality(E)
      PROVE  s[k] \in E /\ Rank(s[k], R, E) = k - 1
  <2>1. \E x \in E : Cardinality({y \in E : Before(y, x)}) = k - 1
    BY <1>3, <1>6, <1>8, Ranks
  <2>2. s[k] = Nth(k)
    BY <1>7
  <2>3. s[k] \in E /\ Cardinality({y \in E : Before(y, s[k])}) = k - 1
    BY <2>1, <2>2 DEF Nth
  <2> QED BY <1>8, <2>3
<1>10. s \in [1..Cardinality(E) -> E]
  BY <1>7, <1>9
<1>11. Lists(s, E)
  <2>1. InOrder(s, R, E)
    BY <1>9, <1>10 DEF InOrder
  <2> QED BY <1>3, <1>6, <2>1, Sorted
<1>12. DOMAIN s = 1..Len(s)
  BY <1>11 DEF Lists
<1> HIDE DEF found
<1> QED BY <1>11, <1>12 DEF E, s, found, Lists

\* What a search finds are files inside the store.
LEMMA Searching ==
  ASSUME NEW t \in Trees, NEW needle
  PROVE  LET s == Search(t, needle)
         IN \A k \in DOMAIN s :
              s[k] \in Below(t, Root) /\ IsFile(t, s[k]) /\ ResolvesInside(t, s[k])
<1> DEFINE H == {p \in Below(t, Root) : /\ p[Len(p)] \in needle /\ IsFile(t, p)
                                        /\ ResolvesInside(t, p)}
           R == {e \in Path \X Path : PathBefore(e[1], e[2])}
           Nth(k) == CHOOSE x \in H : Cardinality({y \in H : PathBefore(y, x)}) = k - 1
           hits == Ordered(H, PathBefore)
           end == IF Len(hits) < SearchLimit THEN Len(hits) ELSE SearchLimit
<1>1. Search(t, needle) = SubSeq(hits, 1, end)
  BY DEF Search
<1>2. H \in SUBSET Place /\ H \in SUBSET Path
  BY PlaceFacts DEF Below
<1>3. IsFiniteSet(H)
  BY <1>2, PlaceFinite, FS_Subset
<1>4. \A x \in H : x \in Below(t, Root) /\ IsFile(t, x) /\ ResolvesInside(t, x)
  OBVIOUS
<1>5. hits = [k \in 1..Cardinality(H) |-> Nth(k)]
  BY DEF Ordered
<1> HIDE DEF H, hits, Nth
<1>6. \A x, y \in H : <<y, x>> \in R <=> PathBefore(y, x)
  BY <1>2
<1>7. Orders(R, H)
  BY <1>2, PathOrder DEF Orders
<1> HIDE DEF R
<1>8. \A x \in H : Rank(x, R, H) = Cardinality({y \in H : PathBefore(y, x)})
  <2>1. ASSUME NEW x \in H PROVE {y \in H : <<y, x>> \in R} = {y \in H : PathBefore(y, x)}
    BY <1>6
  <2> QED BY <2>1 DEF Rank
<1>9. ASSUME NEW k \in 1..Cardinality(H)
      PROVE  hits[k] \in H /\ Rank(hits[k], R, H) = k - 1
  <2>1. \E x \in H : Cardinality({y \in H : PathBefore(y, x)}) = k - 1
    BY <1>3, <1>7, <1>8, Ranks
  <2>2. hits[k] = Nth(k)
    BY <1>5
  <2>3. hits[k] \in H /\ Cardinality({y \in H : PathBefore(y, hits[k])}) = k - 1
    BY <2>1, <2>2 DEF Nth
  <2> QED BY <1>8, <2>3
<1>10. hits \in [1..Cardinality(H) -> H]
  BY <1>5, <1>9
<1>11. Lists(hits, H)
  <2>1. InOrder(hits, R, H)
    BY <1>9, <1>10 DEF InOrder
  <2> QED BY <1>3, <1>7, <2>1, Sorted
<1>12. hits \in Seq(H) /\ end \in 0..Len(hits)
  BY <1>11, StoreAssumption DEF Lists
<1> HIDE DEF end
<1>13. \A s \in Seq(H) : \A n \in 0..Len(s) : \A k \in DOMAIN SubSeq(s, 1, n) : SubSeq(s, 1, n)[k] \in H
  OBVIOUS
<1> QED BY <1>1, <1>4, <1>12, <1>13

--------------------------------------------------------------------------------
(* Folders *)

\* The directory a folder's path leads to.
LEMMA FolderFacts ==
  ASSUME NEW t \in Trees, NEW rel \in Path, IsFolder(t, rel)
  PROVE  LET q == Resolve(t, rel)
         IN q \in Path /\ LinksOn(t, q) = {} /\ (q = Root \/ Here(t, q) = "dir")
<1> DEFINE q == Resolve(t, rel)
<1>1. q \in Path
  BY ResolveType
<1>2. LinksOn(t, q) = {} /\ (q # Root => q[1] \in Name) /\ At(t, rel) = "dir"
  BY DEF IsFolder, Safe, ResolvesInside
<1>3. Outside # Root /\ Outside[1] \notin Name
  BY StoreAssumption DEF Outside, Root
<1>4. q # Outside
  BY <1>2, <1>3
<1>5. q # Root => Here(t, q) = "dir"
  BY <1>2, <1>4 DEF At
<1> QED BY <1>1, <1>2, <1>5

\* A directory that no link leads to or through is a folder, under its own path.
LEMMA PlainFolder ==
  ASSUME NEW t \in Trees, NEW d \in Path, LinksOn(t, d) = {}, d = Root \/ Here(t, d) = "dir"
  PROVE  Resolve(t, d) = d /\ IsFolder(t, d)
<1>1. Resolve(t, d) = d
  BY ResolveFree
<1>2. d # Root => d \in Place
  BY DEF Here
<1>3. d # Root => d[1] \in Name
  <2> SUFFICES ASSUME d # Root PROVE d[1] \in Name
    OBVIOUS
  <2>1. Len(d) \in Nat /\ Len(d) \in 1..Depth /\ \A k \in 1..Len(d) : d[k] \in Name
    BY <1>2, PlaceFacts
  <2>2. 1 \in 1..Len(d)
    BY <2>1, StoreAssumption
  <2> QED BY <2>1, <2>2
<1>4. d \notin {Outside, OutsideFile}
  <2>1. d = Root => d \notin {Outside, OutsideFile}
    BY DEF Root, Outside, OutsideFile
  <2> QED BY <1>2, <2>1, PlaceFacts
<1>5. At(t, d) = "dir"
  <2>1. CASE d = Root
    <3>1. Here(t, d) # "link" /\ d # OutsideFile
      BY <1>4, <2>1, PlaceFacts DEF Here
    <3> QED BY <1>1, <2>1, <3>1 DEF At
  <2>2. CASE d # Root
    <3>1. d \notin {Root, Outside} /\ d # OutsideFile /\ Here(t, d) = "dir"
      BY <1>4, <2>2
    <3> QED BY <1>1, <3>1 DEF At
  <2> QED BY <2>1, <2>2
<1> QED BY <1>1, <1>3, <1>5 DEF IsFolder, Safe, ResolvesInside

\* An entry of a listing is found behind the path of its button.
LEMMA EntryOpens ==
  ASSUME NEW t \in Trees, NEW rel \in Rel, IsFolder(t, rel),
         NEW c \in Found(t, Resolve(t, rel))
  PROVE  LET r == EntryOf(t, rel, c).rel
         IN /\ r \in Path /\ r = Append(rel, c[Len(c)]) /\ c[Len(c)] \in Nat /\ c \in Place
            /\ Safe(t, r) /\ At(t, r) = At(t, c)
<1> DEFINE q == Resolve(t, rel)
           x == c[Len(c)]
           r == Append(rel, x)
<1>1. rel \in Path
  BY BrowseAssumption
<1>2. q \in Path /\ LinksOn(t, q) = {}
  BY <1>1, FolderFacts
<1>3. c \in Children(t, q) /\ ResolvesInside(t, c) /\ At(t, c) # "none"
  BY DEF Found, Readable
<1>4. x \in Name /\ x \in Nat /\ c = Append(q, x) /\ c \in Place
  BY <1>2, <1>3, ChildFacts
<1>5. LinksOn(t, Resolve(t, Append(q, x))) = {}
  BY <1>3, <1>4 DEF ResolvesInside
<1>6. Resolve(t, r) = Resolve(t, c)
  <2>1. Resolve(t, Append(rel, x)) = Resolve(t, Append(q, x))
    BY <1>2, <1>4, <1>5, ChildResolves
  <2> QED BY <1>4, <2>1
<1>7. At(t, r) = At(t, c)
  BY <1>6 DEF At
<1>8. ResolvesInside(t, r)
  BY <1>3, <1>6 DEF ResolvesInside
<1>9. r \in Path
  BY <1>1, <1>4, Longer
<1> QED BY <1>3, <1>4, <1>7, <1>8, <1>9 DEF EntryOf, Safe

--------------------------------------------------------------------------------
(* Screens *)

\* The elements of a sequence.
In(s) == {s[k] : k \in DOMAIN s}

\* A sequence of three parts has the elements of the parts.
LEMMA InParts ==
  ASSUME NEW T, NEW a \in Seq(T), NEW b \in Seq(T), NEW c \in Seq(T)
  PROVE  In(a \o b \o c) = In(a) \cup In(b) \cup In(c)
<1>1. ASSUME NEW u \in Seq(T), NEW v \in Seq(T)
      PROVE  u \o v \in Seq(T) /\ In(u \o v) = In(u) \cup In(v)
  <2>1. /\ u \o v \in Seq(T) /\ Len(u \o v) = Len(u) + Len(v)
        /\ Len(u) \in Nat /\ Len(v) \in Nat
        /\ DOMAIN u = 1..Len(u) /\ DOMAIN v = 1..Len(v) /\ DOMAIN (u \o v) = 1..Len(u \o v)
        /\ \A k \in 1..Len(u) : (u \o v)[k] = u[k]
        /\ \A k \in 1..Len(v) : (u \o v)[Len(u) + k] = v[k]
    OBVIOUS
  <2>2. ASSUME NEW k \in 1..Len(u \o v) PROVE (u \o v)[k] \in In(u) \cup In(v)
    <3>1. CASE k <= Len(u)
      <4>1. k \in DOMAIN u /\ (u \o v)[k] = u[k]
        BY <2>1, <3>1
      <4> QED BY <4>1 DEF In
    <3>2. CASE k > Len(u)
      <4>1. k - Len(u) \in 1..Len(v) /\ Len(u) + (k - Len(u)) = k
        BY <2>1, <3>2
      <4>2. (u \o v)[k] = v[k - Len(u)]
        BY <2>1, <4>1
      <4> QED BY <2>1, <4>1, <4>2 DEF In
    <3> QED BY <2>1, <3>1, <3>2
  <2>3. ASSUME NEW k \in 1..Len(u) PROVE u[k] \in In(u \o v)
    <3>1. k \in 1..Len(u \o v) /\ (u \o v)[k] = u[k]
      BY <2>1
    <3> QED BY <2>1, <3>1 DEF In
  <2>4. ASSUME NEW k \in 1..Len(v) PROVE v[k] \in In(u \o v)
    <3>1. Len(u) + k \in 1..Len(u \o v) /\ (u \o v)[Len(u) + k] = v[k]
      BY <2>1
    <3> QED BY <2>1, <3>1 DEF In
  <2>5. \A x \in In(u \o v) : x \in In(u) \cup In(v)
    BY <2>1, <2>2 DEF In
  <2>6. \A x \in In(u) \cup In(v) : x \in In(u \o v)
    BY <2>1, <2>3, <2>4 DEF In
  <2> QED BY <2>1, <2>5, <2>6
<1>2. a \o b \in Seq(T) /\ In(a \o b) = In(a) \cup In(b)
  BY <1>1
<1> DEFINE d == a \o b
<1>3. d \in Seq(T)
  BY <1>2
<1> HIDE DEF d
<1>4. In(d \o c) = In(d) \cup In(c)
  BY <1>1, <1>3
<1> QED BY <1>2, <1>4 DEF d

\* What of the listing is on a page.
LEMMA PageHas ==
  ASSUME NEW t \in Trees, NEW rel \in Rel, NEW page \in Nat
  PROVE  LET l == lister(t, rel)
             shown == Page(t, rel, page)
         IN /\ l \in Seq(Entry) /\ shown \in Seq(Entry) /\ Len(l) \in Nat
            /\ In(shown) \subseteq In(l)
            /\ \A k \in 1..Len(l) : page * PageSize < k /\ k <= page * PageSize + PageSize
                                      => l[k] \in In(shown)
<1> DEFINE l == lister(t, rel)
           n == Len(l)
           start == page * PageSize
           last == IF n < (page + 1) * PageSize THEN n ELSE (page + 1) * PageSize
<1>1. l \in Seq(Entry) /\ n \in Nat /\ DOMAIN l = 1..n
  BY BrowseAssumption
<1>2. PageSize \in Nat \ {0}
  BY BrowseAssumption
<1>3. start \in Nat /\ (page + 1) * PageSize = start + PageSize
  BY <1>2
<1>4. Page(t, rel, page) = SubSeq(l, start + 1, last)
  BY DEF Page
<1>5. last \in 0..n /\ last <= start + PageSize /\ (last = n \/ last = start + PageSize)
  <2>1. \A a, b \in Nat : LET m == IF a < b THEN a ELSE b
                           IN m \in 0..a /\ m <= b /\ (m = a \/ m = b)
    OBVIOUS
  <2>2. start + PageSize \in Nat /\ last = IF n < start + PageSize THEN n ELSE start + PageSize
    BY <1>2, <1>3
  <2> HIDE DEF n, start, last
  <2> QED BY <1>1, <2>1, <2>2
<1>6. ASSUME NEW s \in Seq(Entry), NEW a \in Nat, NEW b \in 0..Len(s)
      PROVE  /\ SubSeq(s, a + 1, b) \in Seq(Entry)
             /\ DOMAIN SubSeq(s, a + 1, b) = 1..(b - a)
             /\ \A k \in 1..(b - a) : SubSeq(s, a + 1, b)[k] = s[a + k]
  OBVIOUS
<1> HIDE DEF l, n, start, last
<1>7. /\ Page(t, rel, page) \in Seq(Entry)
      /\ DOMAIN Page(t, rel, page) = 1..(last - start)
      /\ \A k \in 1..(last - start) : Page(t, rel, page)[k] = l[start + k]
  <2>1. last \in 0..Len(l)
    BY <1>5 DEF n
  <2>2. /\ SubSeq(l, start + 1, last) \in Seq(Entry)
        /\ DOMAIN SubSeq(l, start + 1, last) = 1..(last - start)
        /\ \A k \in 1..(last - start) : SubSeq(l, start + 1, last)[k] = l[start + k]
    BY <1>1, <1>3, <1>6, <2>1
  <2> QED BY <1>4, <2>2
<1>8. In(Page(t, rel, page)) \subseteq In(l)
  <2>1. \A k \in 1..(last - start) : start + k \in 1..n
    BY <1>1, <1>3, <1>5
  <2> QED BY <1>1, <1>7, <2>1 DEF In
<1>9. ASSUME NEW k \in 1..n, start < k, k <= start + PageSize
      PROVE  l[k] \in In(Page(t, rel, page))
  <2>1. k - start \in 1..(last - start) /\ start + (k - start) = k
    BY <1>1, <1>2, <1>3, <1>5, <1>9
  <2>2. Page(t, rel, page)[k - start] = l[k]
    BY <1>7, <2>1
  <2> QED BY <1>7, <2>1, <2>2 DEF In
<1> QED BY <1>1, <1>7, <1>8, <1>9 DEF l, n, start

\* Each entry is on a page.
LEMMA PageOf ==
  ASSUME NEW t \in Trees, NEW rel \in Rel, NEW k \in 1..Len(lister(t, rel))
  PROVE  \E g \in Nat : g < Pages(t, rel) /\ g * PageSize < k /\ k <= g * PageSize + PageSize
<1> DEFINE n == Len(lister(t, rel))
           g == (k - 1) \div PageSize
           r == (k - 1) % PageSize
           m == Pages(t, rel)
<1>1. n \in Nat /\ k \in 1..n
  BY BrowseAssumption
<1>2. PageSize \in Nat \ {0}
  BY BrowseAssumption
<1>3. g \in Nat /\ r \in 0..(PageSize - 1) /\ k - 1 = PageSize * g + r
  BY <1>1, <1>2
<1>4. m \in Nat /\ m * PageSize >= n
  <2>1. m = (n + PageSize - 1) \div PageSize
    BY <1>1 DEF Pages
  <2> HIDE DEF n, m, g, r
  <2> DEFINE a == n + PageSize - 1
             u == a % PageSize
  <2>2. a \in Nat
    BY <1>1, <1>2
  <2> HIDE DEF a
  <2>3. a \div PageSize \in Nat /\ u \in 0..(PageSize - 1) /\ a = PageSize * (a \div PageSize) + u
    BY <1>2, <2>2
  <2> HIDE DEF u
  <2>4. m = a \div PageSize
    BY <2>1 DEF a
  <2>5. n = PageSize * m + u - PageSize + 1
    BY <1>1, <1>2, <2>3, <2>4 DEF a
  <2>6. PageSize * m \in Nat /\ m * PageSize = PageSize * m
    <3>1. m \in Nat /\ PageSize \in Nat
      BY <1>2, <2>3, <2>4
    <3>2. \A x, y \in Nat : x * y \in Nat /\ y * x = x * y
      OBVIOUS
    <3> QED BY <3>1, <3>2
  <2> QED BY <1>1, <1>2, <2>3, <2>4, <2>5, <2>6
<1> HIDE DEF n, g, r, m
<1>5. g * PageSize \in Nat /\ PageSize * g = g * PageSize
  BY <1>2, <1>3
<1>6. g * PageSize < k /\ k <= g * PageSize + PageSize
  BY <1>1, <1>2, <1>3, <1>5
<1>7. g < m
  <2> SUFFICES ASSUME m <= g PROVE FALSE
    BY <1>3, <1>4
  <2>1. PageSize * (g - m) >= 0 /\ PageSize * (g - m) = g * PageSize - m * PageSize
    BY <1>2, <1>3, <1>4
  <2>2. m * PageSize \in Nat
    BY <1>2, <1>4
  <2> QED BY <1>1, <1>4, <1>5, <1>6, <2>1, <2>2
<1> QED BY <1>3, <1>6, <1>7 DEF m

\* The buttons of a screen: the folder's own, one for each entry of the page, and
\* those of the pager, among them the next page if there is one.
LEMMA ScreenButtons ==
  ASSUME NEW t \in Trees, NEW rel \in Rel, NEW page \in Nat, page < Pages(t, rel)
  PROVE  /\ In(DirButtons(t, rel, page))
              = In(FolderButtons(rel)) \cup {EntryButton(e) : e \in In(Page(t, rel, page))}
                  \cup In(Pager(t, rel, page))
         /\ rel = <<>> => In(FolderButtons(rel)) = {}
         /\ rel # <<>> => In(FolderButtons(rel)) = {Button("dir", Parent(rel), 0),
                                                    Button("zipask", rel, 0)}
         /\ In(Pager(t, rel, page)) \subseteq {Button("dir", rel, g) : g \in Nat}
         /\ page + 1 < Pages(t, rel)
              => Button("dir", rel, page + 1) \in In(Pager(t, rel, page))
<1> DEFINE shown == Page(t, rel, page)
           entries == [k \in DOMAIN shown |-> EntryButton(shown[k])]
<1>1. Clamp(t, rel, page) = page
  BY DEF Clamp
<1>2. /\ FolderButtons(rel) \in Seq(Buttons) /\ entries \in Seq(Buttons)
      /\ Pager(t, rel, page) \in Seq(Buttons)
      /\ DirButtons(t, rel, page) = FolderButtons(rel) \o entries \o Pager(t, rel, page)
  BY <1>1, DirButtonsParts
<1>3. In(entries) = {EntryButton(e) : e \in In(shown)}
  BY DEF In
<1> HIDE DEF entries, shown
<1>4. In(DirButtons(t, rel, page))
        = In(FolderButtons(rel)) \cup In(entries) \cup In(Pager(t, rel, page))
  BY <1>2, InParts
<1>5. \A x : In(<<x>>) = {x}
  BY DEF In
<1>6. \A x, y : In(<<x, y>>) = {x, y}
  BY DEF In
<1>7. In(<<>>) = {}
  BY DEF In
<1>8. rel = <<>> => In(FolderButtons(rel)) = {}
  BY <1>7 DEF FolderButtons
<1>9. rel # <<>> => In(FolderButtons(rel)) = {Button("dir", Parent(rel), 0),
                                              Button("zipask", rel, 0)}
  BY <1>6 DEF FolderButtons, Parent
<1>10. Pages(t, rel) \in Nat
  BY PageFacts
<1> DEFINE before == IF page > 0 THEN <<Button("dir", rel, page - 1)>> ELSE <<>>
           here == <<Button("dir", rel, page)>>
           after == IF page + 1 < Pages(t, rel) THEN <<Button("dir", rel, page + 1)>> ELSE <<>>
           All == {Button("dir", rel, g) : g \in Nat}
<1>11. Pager(t, rel, page) = IF Pages(t, rel) <= 1 THEN <<>> ELSE before \o here \o after
  BY DEF Pager
<1>12. \A g \in Nat : Button("dir", rel, g) \in All
  OBVIOUS
<1> HIDE DEF All
<1>13. before \in Seq(All) /\ In(before) \subseteq All
  <2>1. CASE page > 0
    <3>1. page - 1 \in Nat
      BY <2>1
    <3>2. Button("dir", rel, page - 1) \in All
      BY <1>12, <3>1
    <3> QED BY <1>5, <2>1, <3>2
  <2>2. CASE ~(page > 0)
    BY <1>7, <2>2
  <2> QED BY <2>1, <2>2
<1>14. here \in Seq(All) /\ In(here) \subseteq All
  BY <1>5, <1>12
<1>15. after \in Seq(All) /\ In(after) \subseteq All
       /\ (page + 1 < Pages(t, rel) => Button("dir", rel, page + 1) \in In(after))
  <2>1. CASE page + 1 < Pages(t, rel)
    <3>1. Button("dir", rel, page + 1) \in All
      BY <1>12
    <3> QED BY <1>5, <2>1, <3>1
  <2>2. CASE ~(page + 1 < Pages(t, rel))
    BY <1>7, <2>2
  <2> QED BY <2>1, <2>2
<1> HIDE DEF before, here, after
<1>16. In(before \o here \o after) = In(before) \cup In(here) \cup In(after)
  BY <1>13, <1>14, <1>15, InParts
<1>17. In(Pager(t, rel, page)) \subseteq All
  BY <1>7, <1>11, <1>13, <1>14, <1>15, <1>16
<1>18. page + 1 < Pages(t, rel) => Button("dir", rel, page + 1) \in In(Pager(t, rel, page))
  <2>1. page + 1 < Pages(t, rel) => ~(Pages(t, rel) <= 1)
    BY <1>10
  <2> QED BY <1>11, <1>15, <1>16, <2>1
<1> QED BY <1>3, <1>4, <1>8, <1>9, <1>17, <1>18 DEF All, shown

\* A path and all paths to it are folders.
Folders(t, rel) == \A n \in 0..Len(rel) : IsFolder(t, SubSeq(rel, 1, n))

\* The views a conversation can be on: pages of folders, below folders all the way.
Good(t) == {v \in [rel : Rel, page : Nat] : v.page < Pages(t, v.rel) /\ Folders(t, v.rel)}

\* The root is a folder.
LEMMA RootFolder ==
  ASSUME NEW t \in Trees
  PROVE  <<>> \in Path /\ Folders(t, <<>>)
<1>1. Root \in Path /\ Len(<<>>) = 0
  BY DEF Root, Path
<1>2. LinksOn(t, Root) = {}
  BY DEF LinksOn, Root
<1>3. IsFolder(t, Root)
  BY <1>1, <1>2, PlainFolder
<1>4. \A n \in 0..Len(<<>>) : SubSeq(<<>>, 1, n) = <<>>
  OBVIOUS
<1> QED BY <1>1, <1>3, <1>4 DEF Folders, Root

\* So is what lies on the way to a folder.
LEMMA FoldersWhole ==
  ASSUME NEW t, NEW rel \in Path, Folders(t, rel)
  PROVE  /\ IsFolder(t, rel)
         /\ rel # <<>> => Parent(rel) \in Path /\ Folders(t, Parent(rel))
<1>1. Len(rel) \in 0..Len(rel) /\ SubSeq(rel, 1, Len(rel)) = rel /\ Len(rel) \in Nat
  BY DEF Path
<1>2. ASSUME rel # <<>> PROVE Parent(rel) \in Path /\ Folders(t, Parent(rel))
  <2>1. Len(rel) > 0
    BY <1>2 DEF Path
  <2>2. /\ Parent(rel) \in Path /\ Len(Parent(rel)) = Len(rel) - 1
        /\ \A n \in 0..(Len(rel) - 1) : SubSeq(Parent(rel), 1, n) = SubSeq(rel, 1, n)
    BY <2>1, ParentFacts
  <2>3. \A n \in 0..(Len(rel) - 1) : n \in 0..Len(rel)
    BY <1>1
  <2> QED BY <2>2, <2>3 DEF Folders
<1> QED BY <1>1, <1>2 DEF Folders

\* And an entry of a folder that is one.
LEMMA FoldersEntry ==
  ASSUME NEW t, NEW rel \in Path, NEW x \in Nat, Folders(t, rel), IsFolder(t, Append(rel, x))
  PROVE  Folders(t, Append(rel, x))
<1> DEFINE r == Append(rel, x)
<1>1. r \in Path /\ Len(r) = Len(rel) + 1 /\ Len(rel) \in Nat
  BY Longer
<1>2. SubSeq(r, 1, Len(r)) = r
  BY <1>1 DEF Path
<1>3. ASSUME NEW n \in 0..Len(rel) PROVE IsFolder(t, SubSeq(r, 1, n))
  <2>1. SubSeq(r, 1, n) = SubSeq(rel, 1, n)
    BY LongerPart
  <2> QED BY <2>1 DEF Folders
<1> HIDE DEF r
<1>4. \A n \in 0..Len(r) : n \in 0..Len(rel) \/ n = Len(r)
  BY <1>1
<1> QED BY <1>2, <1>3, <1>4 DEF Folders, r

\* What the listing of a path consists of.
LEMMA ListDirHas ==
  ASSUME NEW t \in Trees, NEW rel \in Path
  PROVE  In(ListDir(t, rel)) = {EntryOf(t, rel, c) : c \in Found(t, Resolve(t, rel))}
<1>1. LET s == ListDir(t, rel)
          found == Found(t, Resolve(t, rel))
      IN /\ Len(s) \in Nat /\ DOMAIN s = 1..Len(s)
         /\ \A k \in 1..Len(s) : \E c \in found : s[k] = EntryOf(t, rel, c)
         /\ \A c \in found : \E k \in 1..Len(s) : s[k] = EntryOf(t, rel, c)
  BY Listing
<1> QED BY <1>1 DEF In

\* The same of the listing on a screen.
LEMMA ListerHas ==
  ASSUME NEW t \in Trees, NEW rel \in Rel
  PROVE  In(lister(t, rel)) = {EntryOf(t, rel, c) : c \in Found(t, Resolve(t, rel))}
<1>1. lister(t, rel) = ListDir(t, rel) /\ rel \in Path
  BY ContextAssumption, BrowseAssumption DEF BuildContext
<1> QED BY <1>1, ListDirHas

\* Every button of a good view works: files can be fetched, folders opened.
LEMMA ButtonsWork ==
  ASSUME NEW t \in Trees, NEW v \in Good(t), NEW b \in In(DirButtons(t, v.rel, v.page))
  PROVE  /\ b.kind = "file" => Safe(t, b.rel) /\ IsFile(t, b.rel)
         /\ b.kind # "file" => b.rel \in Path /\ b.page \in Nat /\ Folders(t, b.rel)
         /\ b.kind = "zipask" => b.rel = v.rel
<1> DEFINE rel == v.rel
           page == v.page
<1>1. rel \in Rel /\ page \in Nat /\ page < Pages(t, rel) /\ Folders(t, rel) /\ rel \in Path
  BY BrowseAssumption DEF Good
<1> HIDE DEF rel, page
<1>2. /\ b \in In(FolderButtons(rel)) \cup {EntryButton(e) : e \in In(Page(t, rel, page))}
                 \cup In(Pager(t, rel, page))
      /\ rel = <<>> => In(FolderButtons(rel)) = {}
      /\ rel # <<>> => In(FolderButtons(rel)) = {Button("dir", Parent(rel), 0),
                                                 Button("zipask", rel, 0)}
      /\ In(Pager(t, rel, page)) \subseteq {Button("dir", rel, g) : g \in Nat}
  BY <1>1, ScreenButtons DEF rel, page
<1>3. CASE b \in In(FolderButtons(rel))
  <2>1. rel # <<>> /\ b \in {Button("dir", Parent(rel), 0), Button("zipask", rel, 0)}
    BY <1>2, <1>3
  <2>2. Parent(rel) \in Path /\ Folders(t, Parent(rel))
    BY <1>1, <2>1, FoldersWhole
  <2> QED BY <1>1, <2>1, <2>2 DEF Button, rel
<1>4. CASE b \in {EntryButton(e) : e \in In(Page(t, rel, page))}
  <2>1. PICK e \in In(Page(t, rel, page)) : b = EntryButton(e)
    BY <1>4
  <2>2. e \in In(lister(t, rel))
    BY <1>1, <2>1, PageHas
  <2>3. PICK c \in Found(t, Resolve(t, rel)) : e = EntryOf(t, rel, c)
    BY <1>1, <2>2, ListerHas
  <2>4. IsFolder(t, rel)
    BY <1>1, FoldersWhole
  <2>5. /\ e.rel \in Path /\ e.rel = Append(rel, c[Len(c)]) /\ c[Len(c)] \in Nat
        /\ Safe(t, e.rel) /\ At(t, e.rel) = At(t, c)
    BY <1>1, <2>3, <2>4, EntryOpens
  <2>6. e.is_dir = (At(t, c) = "dir")
    BY <2>3 DEF EntryOf
  <2>7. CASE At(t, c) = "dir"
    <3>1. b.kind = "dir" /\ b.rel = e.rel /\ b.page = 0
      BY <2>1, <2>6, <2>7 DEF EntryButton, Button
    <3>2. IsFolder(t, e.rel)
      BY <2>5, <2>7 DEF IsFolder
    <3>3. Folders(t, e.rel)
      BY <1>1, <2>5, <3>2, FoldersEntry
    <3> QED BY <2>5, <3>1, <3>3
  <2>8. CASE At(t, c) # "dir"
    <3>1. b.kind = "file" /\ b.rel = e.rel
      BY <2>1, <2>6, <2>8 DEF EntryButton, Button
    <3>2. At(t, e.rel) # "none"
      BY <2>5 DEF Safe
    <3>3. At(t, e.rel) = "file"
      BY <2>5, <2>8, <3>2, AtKinds
    <3> QED BY <2>5, <3>1, <3>3 DEF IsFile
  <2> QED BY <2>7, <2>8
<1>5. CASE b \in In(Pager(t, rel, page))
  <2>1. PICK g \in Nat : b = Button("dir", rel, g)
    BY <1>2, <1>5
  <2> QED BY <1>1, <2>1 DEF Button
<1> QED BY <1>2, <1>3, <1>4, <1>5

--------------------------------------------------------------------------------
(* Conversations *)

\* A tap on a button of good views leads to good views.
LEMMA TapGood ==
  ASSUME NEW t \in Trees, NEW views \in SUBSET Good(t)
  PROVE  OneTapFrom(t, views) \in SUBSET Good(t)
<1> SUFFICES ASSUME NEW w \in OneTapFrom(t, views) PROVE w \in Good(t)
  OBVIOUS
<1>1. PICK b \in ButtonsOf(t, views) : /\ b.kind = "dir" /\ b.rel \in Rel
                                       /\ w = [rel |-> b.rel, page |-> Clamp(t, b.rel, b.page)]
  BY DEF OneTapFrom
<1>2. PICK v \in views : b \in In(DirButtons(t, v.rel, v.page))
  BY <1>1 DEF ButtonsOf, In
<1>3. b.page \in Nat /\ Folders(t, b.rel)
  BY <1>1, <1>2, ButtonsWork
<1>4. Clamp(t, b.rel, b.page) \in Nat /\ Clamp(t, b.rel, b.page) < Pages(t, b.rel)
  BY <1>1, <1>3, PageFacts
<1> QED BY <1>1, <1>3, <1>4 DEF Good

\* The screen of /start.
First == [rel |-> <<>>, page |-> 0]

\* It is a good view.
LEMMA FirstGood ==
  ASSUME NEW t \in Trees
  PROVE  First \in Good(t)
<1>1. <<>> \in Rel /\ 0 \in Nat
  BY BrowseAssumption
<1>2. Clamp(t, <<>>, 0) \in Nat /\ Clamp(t, <<>>, 0) < Pages(t, <<>>) /\ Pages(t, <<>>) \in Nat
  BY <1>1, PageFacts
<1>3. 0 < Pages(t, <<>>)
  BY <1>2
<1> QED BY <1>1, <1>3, RootFolder DEF First, Good

\* A conversation is on good views only; it starts with the root, and what it can
\* reach with a tap it reaches.
LEMMA ReachedFacts ==
  ASSUME NEW t \in Trees
  PROVE  /\ Reached(t) \in SUBSET Good(t) /\ First \in Reached(t)
         /\ OneTapFrom(t, Reached(t)) \subseteq Reached(t)
<1> DEFINE X == SUBSET Good(t)
           Def(h) == h = [n \in 0..Taps |->
                            IF n = 0 THEN {[rel |-> <<>>, page |-> 0]}
                            ELSE LET views == h[n - 1] IN views \cup OneTapFrom(t, views)]
           h == CHOOSE h : Def(h)
<1>1. Taps \in Nat
  BY BoundsAssumption
<1>2. \E f : Def(f)
  <2>1. {First} \in X
    BY FirstGood
  <2>2. [views \in X |-> views \cup OneTapFrom(t, views)] \in [X -> X]
    BY TapGood
  <2>3. PICK g \in [X -> X] : \A views \in X : g[views] = views \cup OneTapFrom(t, views)
    BY <2>2
  <2> HIDE DEF X
  <2>4. PICK f : Iterates(X, g, {First}, Taps, f)
    BY <1>1, <2>1, Iteration
  <2>5. f \in [0..Taps -> X] /\ f[0] = {First} /\ \A k \in 1..Taps : f[k] = g[f[k - 1]]
    BY <2>4 DEF Iterates
  <2>6. \A k \in 0..Taps : k # 0 => k \in 1..Taps /\ k - 1 \in 0..Taps
    BY <1>1
  <2>7. \A k \in 0..Taps : k # 0 => f[k] = f[k - 1] \cup OneTapFrom(t, f[k - 1])
    BY <2>3, <2>5, <2>6
  <2>8. f = [n \in 0..Taps |->
               IF n = 0 THEN {[rel |-> <<>>, page |-> 0]}
               ELSE LET views == f[n - 1] IN views \cup OneTapFrom(t, views)]
    BY <2>5, <2>7 DEF First
  <2> QED BY <2>8
<1>3. Def(h)
  BY <1>2
<1>4. Reached(t) = h[Taps]
  BY DEF Reached
<1> HIDE DEF h
<1>5. \A n \in 0..Taps : h[n] = IF n = 0 THEN {First}
                                ELSE h[n - 1] \cup OneTapFrom(t, h[n - 1])
  BY <1>3 DEF First
<1> HIDE DEF Def
<1> DEFINE T == {n \in Nat : n <= Taps => h[n] \in X /\ First \in h[n]}
<1>6. 0 \in T
  <2>1. 0 \in 0..Taps
    BY <1>1
  <2>2. h[0] = {First}
    BY <1>5, <2>1
  <2> QED BY <2>2, FirstGood
<1>7. ASSUME NEW n \in Nat, n \in T PROVE n + 1 \in T
  <2> SUFFICES ASSUME n + 1 <= Taps PROVE h[n + 1] \in X /\ First \in h[n + 1]
    OBVIOUS
  <2>1. n + 1 \in 0..Taps /\ n + 1 # 0 /\ (n + 1) - 1 = n /\ n <= Taps
    BY <1>1
  <2>2. h[n] \in X /\ First \in h[n]
    BY <1>7, <2>1
  <2>3. h[n + 1] = h[n] \cup OneTapFrom(t, h[n])
    BY <1>5, <2>1
  <2> QED BY <2>2, <2>3, TapGood
<1> HIDE DEF T
<1>8. Taps \in T
  BY <1>1, <1>6, <1>7, Induction
<1> QED BY <1>1, <1>4, <1>8, BoundsAssumption DEF T

\* A tap on a folder's button leads to the page it names.
LEMMA Tapped ==
  ASSUME NEW t \in Trees, NEW v \in Reached(t), NEW rel \in Rel, NEW page \in Nat,
         page < Pages(t, rel), Button("dir", rel, page) \in In(DirButtons(t, v.rel, v.page))
  PROVE  [rel |-> rel, page |-> page] \in Reached(t)
<1> DEFINE b == Button("dir", rel, page)
<1>1. b.kind = "dir" /\ b.rel = rel /\ b.page = page
  BY DEF Button
<1> HIDE DEF b
<1>2. b \in ButtonsOf(t, Reached(t))
  BY DEF ButtonsOf, In, b
<1>3. Clamp(t, rel, page) = page
  BY DEF Clamp
<1>4. [rel |-> rel, page |-> page] \in OneTapFrom(t, Reached(t))
  BY <1>1, <1>2, <1>3 DEF OneTapFrom
<1> QED BY <1>4, ReachedFacts

\* From its first page all pages of a folder are reached.
LEMMA AllPages ==
  ASSUME NEW t \in Trees, NEW rel \in Rel, [rel |-> rel, page |-> 0] \in Reached(t),
         NEW g \in Nat, g < Pages(t, rel)
  PROVE  [rel |-> rel, page |-> g] \in Reached(t)
<1> DEFINE T == {n \in Nat : n < Pages(t, rel) => [rel |-> rel, page |-> n] \in Reached(t)}
<1>1. 0 \in T
  OBVIOUS
<1>2. Pages(t, rel) \in Nat
  BY PageFacts
<1>3. ASSUME NEW n \in Nat, n \in T PROVE n + 1 \in T
  <2> SUFFICES ASSUME n + 1 < Pages(t, rel)
               PROVE  [rel |-> rel, page |-> n + 1] \in Reached(t)
    OBVIOUS
  <2>1. n < Pages(t, rel) /\ n + 1 \in Nat
    BY <1>2
  <2> DEFINE v == [rel |-> rel, page |-> n]
  <2>2. v \in Reached(t) /\ v.rel = rel /\ v.page = n
    BY <1>3, <2>1
  <2>3. Button("dir", rel, n + 1) \in In(DirButtons(t, rel, n))
    BY <2>1, ScreenButtons
  <2> HIDE DEF v
  <2> QED BY <2>1, <2>2, <2>3, Tapped
<1> HIDE DEF T
<1>4. g \in T
  BY <1>1, <1>3, Induction
<1> QED BY <1>4 DEF T

\* Every entry of a folder that is reached has its button on one of the pages.
LEMMA EntryReached ==
  ASSUME NEW t \in Trees, NEW rel \in Rel, [rel |-> rel, page |-> 0] \in Reached(t),
         NEW c \in Found(t, Resolve(t, rel))
  PROVE  \E v \in Reached(t) :
           EntryButton(EntryOf(t, rel, c)) \in In(DirButtons(t, v.rel, v.page))
<1> DEFINE l == lister(t, rel)
           e == EntryOf(t, rel, c)
<1>1. e \in In(l)
  BY ListerHas
<1>2. l \in Seq(Entry) /\ DOMAIN l = 1..Len(l)
  BY BrowseAssumption
<1>3. PICK k \in 1..Len(l) : l[k] = e
  BY <1>1, <1>2 DEF In
<1>4. PICK g \in Nat : /\ g < Pages(t, rel) /\ g * PageSize < k
                       /\ k <= g * PageSize + PageSize
  BY PageOf
<1>5. e \in In(Page(t, rel, g))
  BY <1>3, <1>4, PageHas
<1>6. EntryButton(e) \in In(DirButtons(t, rel, g))
  BY <1>4, <1>5, ScreenButtons
<1> DEFINE v == [rel |-> rel, page |-> g]
<1>7. v \in Reached(t) /\ v.rel = rel /\ v.page = g
  BY <1>4, AllPages
<1> HIDE DEF v, e
<1> QED BY <1>6, <1>7 DEF e

--------------------------------------------------------------------------------
(* The walk of rglob() *)

\* The directory a walk starts with and those it goes into.
WalkFolders(t, q) == {q} \cup {d \in Below(t, q) : Here(t, d) = "dir"}

\* What the walk finds is in the directory it starts with or further down.
LEMMA BelowFacts ==
  ASSUME NEW t, NEW q \in Path, NEW p \in Below(t, q)
  PROVE  /\ p \in Place /\ p \in Path /\ Len(p) \in Nat /\ Len(p) \in 1..Depth
         /\ Len(q) \in Nat /\ Len(p) > Len(q) /\ SubSeq(p, 1, Len(q)) = q
         /\ Here(t, p) # "none"
         /\ \A n \in (Len(q) + 1)..(Len(p) - 1) : Here(t, SubSeq(p, 1, n)) = "dir"
<1>1. p \in Place
  BY DEF Below
<1> QED BY <1>1, PlaceFacts DEF Below, Path

\* No link leads to or through a directory the walk goes into.
LEMMA WalkPlain ==
  ASSUME NEW t \in Trees, NEW q \in Path, LinksOn(t, q) = {}, q = Root \/ Here(t, q) = "dir",
         NEW d \in WalkFolders(t, q)
  PROVE  d \in Path /\ LinksOn(t, d) = {} /\ (d = Root \/ Here(t, d) = "dir")
<1>1. CASE d = q
  BY <1>1
<1>2. CASE d # q
  <2>1. d \in Below(t, q) /\ Here(t, d) = "dir"
    BY <1>2 DEF WalkFolders
  <2>2. /\ d \in Path /\ Len(d) \in Nat /\ Len(q) \in Nat /\ Len(d) > Len(q)
        /\ SubSeq(d, 1, Len(q)) = q
        /\ \A n \in (Len(q) + 1)..(Len(d) - 1) : Here(t, SubSeq(d, 1, n)) = "dir"
    BY <2>1, BelowFacts
  <2>3. ASSUME NEW n \in 1..Len(d) PROVE Here(t, SubSeq(d, 1, n)) # "link"
    <3>1. CASE n <= Len(q)
      <4>1. n \in Nat /\ n \in 1..Len(q)
        BY <2>2, <3>1
      <4>2. SubSeq(d, 1, n) = SubSeq(q, 1, n)
        BY <2>2, <3>1, <4>1, PartOfPart
      <4>3. n \notin LinksOn(t, q)
        OBVIOUS
      <4> QED BY <4>1, <4>2, <4>3 DEF LinksOn
    <3>2. CASE n > Len(q) /\ n < Len(d)
      <4>1. n \in (Len(q) + 1)..(Len(d) - 1)
        BY <2>2, <3>2
      <4> QED BY <2>2, <4>1
    <3>3. CASE n = Len(d)
      <4>1. SubSeq(d, 1, n) = d
        BY <2>2, <3>3 DEF Path
      <4> QED BY <2>1, <4>1
    <3> QED BY <2>2, <3>1, <3>2, <3>3
  <2> QED BY <2>1, <2>2, <2>3 DEF LinksOn
<1> QED BY <1>1, <1>2

\* What the walk finds are the entries of the directories it goes into.
LEMMA WalkFinds ==
  ASSUME NEW t, NEW q \in Path, NEW p \in Below(t, q)
  PROVE  /\ Parent(p) \in WalkFolders(t, q) /\ p \in Children(t, Parent(p))
         /\ Parent(p) \in Path /\ Len(p) = Len(Parent(p)) + 1
         /\ Len(Parent(p)) \in Nat /\ p = Append(Parent(p), p[Len(p)])
<1> DEFINE d == Parent(p)
<1>1. /\ p \in Place /\ p \in Path /\ Len(p) \in Nat /\ Len(p) \in 1..Depth
      /\ Len(q) \in Nat /\ Len(p) > Len(q) /\ SubSeq(p, 1, Len(q)) = q
      /\ Here(t, p) # "none"
      /\ \A n \in (Len(q) + 1)..(Len(p) - 1) : Here(t, SubSeq(p, 1, n)) = "dir"
  BY BelowFacts
<1>2. Len(p) > 0
  BY <1>1
<1>3. /\ d \in Path /\ Len(d) = Len(p) - 1 /\ p = Append(d, p[Len(p)])
      /\ \A n \in 0..(Len(p) - 1) : SubSeq(d, 1, n) = SubSeq(p, 1, n)
  BY <1>1, <1>2, ParentFacts
<1>4. SubSeq(p, 1, Len(p) - 1) = d
  BY DEF Parent
<1>5. p \in Children(t, d)
  BY <1>1 DEF Children
<1> HIDE DEF d
<1>6. d \in WalkFolders(t, q)
  <2>1. CASE Len(d) = Len(q)
    <3>1. Len(p) - 1 = Len(q)
      BY <1>3, <2>1
    <3>2. d = q
      BY <1>1, <1>4, <3>1
    <3> QED BY <3>2 DEF WalkFolders
  <2>2. CASE Len(d) # Len(q)
    <3>1. /\ Len(d) > Len(q) /\ Len(p) - 1 \in (Len(q) + 1)..(Len(p) - 1)
          /\ Len(q) \in 0..(Len(p) - 1) /\ Len(d) \in Nat
      BY <1>1, <1>3, <2>2
    <3>2. Here(t, d) = "dir"
      BY <1>1, <1>4, <3>1
    <3>3. d \in Place
      BY <3>2 DEF Here
    <3>4. SubSeq(d, 1, Len(q)) = q
      BY <1>1, <1>3, <3>1
    <3>5. ASSUME NEW n \in (Len(q) + 1)..(Len(d) - 1)
          PROVE  Here(t, SubSeq(d, 1, n)) = "dir"
      <4>1. n \in 0..(Len(p) - 1) /\ n \in (Len(q) + 1)..(Len(p) - 1)
        BY <1>1, <1>3
      <4> QED BY <1>1, <1>3, <4>1
    <3>6. d \in Below(t, q)
      BY <3>1, <3>2, <3>3, <3>4, <3>5 DEF Below
    <3> QED BY <3>2, <3>6 DEF WalkFolders
  <2> QED BY <2>1, <2>2
<1>7. Len(p) = Len(d) + 1 /\ Len(d) \in Nat
  BY <1>1, <1>2, <1>3
<1> QED BY <1>3, <1>5, <1>6, <1>7 DEF d

\* And all of those.
LEMMA WalkMisses ==
  ASSUME NEW t, NEW q \in Path, NEW d \in WalkFolders(t, q), NEW c \in Children(t, d)
  PROVE  c \in Below(t, q)
<1>1. d \in Path /\ (d # q => d \in Below(t, q) /\ Here(t, d) = "dir")
  BY PlaceFacts DEF WalkFolders, Below
<1>2. /\ c \in Place /\ c \in Path /\ Here(t, c) # "none" /\ Parent(c) = d
      /\ Len(c) = Len(d) + 1 /\ Len(d) \in Nat
  BY <1>1, ChildFacts
<1>3. SubSeq(c, 1, Len(c) - 1) = d
  BY <1>2 DEF Parent
<1>4. \A n \in 0..(Len(c) - 1) : SubSeq(d, 1, n) = SubSeq(c, 1, n)
  BY <1>2, ParentFacts
<1>5. CASE d = q
  <2>1. Len(c) > Len(q) /\ Len(c) - 1 = Len(q)
    BY <1>2, <1>5
  <2>2. SubSeq(c, 1, Len(q)) = q
    BY <1>3, <1>5, <2>1
  <2>3. \A n \in (Len(q) + 1)..(Len(c) - 1) : FALSE
    BY <1>2, <1>5
  <2> QED BY <1>2, <2>1, <2>2, <2>3 DEF Below
<1>6. CASE d # q
  <2>1. /\ Len(q) \in Nat /\ Len(d) > Len(q) /\ SubSeq(d, 1, Len(q)) = q
        /\ Here(t, d) = "dir"
        /\ \A n \in (Len(q) + 1)..(Len(d) - 1) : Here(t, SubSeq(d, 1, n)) = "dir"
    BY <1>1, <1>6, BelowFacts
  <2>2. Len(c) > Len(q) /\ Len(q) \in 0..(Len(c) - 1)
    BY <1>2, <2>1
  <2>3. SubSeq(c, 1, Len(q)) = q
    BY <1>4, <2>1, <2>2
  <2>4. ASSUME NEW n \in (Len(q) + 1)..(Len(c) - 1)
        PROVE  Here(t, SubSeq(c, 1, n)) = "dir"
    <3>1. CASE n = Len(c) - 1
      BY <1>3, <2>1, <3>1
    <3>2. CASE n # Len(c) - 1
      <4>1. n \in 0..(Len(c) - 1) /\ n \in (Len(q) + 1)..(Len(d) - 1)
        BY <1>2, <2>1, <3>2
      <4> QED BY <1>4, <2>1, <4>1
    <3> QED BY <3>1, <3>2
  <2> QED BY <1>2, <2>2, <2>3, <2>4 DEF Below
<1> QED BY <1>5, <1>6

\* A directory that is reached shows each of its own entries under its own path.
LEMMA PlainEntryReached ==
  ASSUME NEW t \in Trees, NEW d \in Rel, LinksOn(t, d) = {}, d = Root \/ Here(t, d) = "dir",
         [rel |-> d, page |-> 0] \in Reached(t),
         NEW p \in Children(t, d), ResolvesInside(t, p), At(t, p) # "none"
  PROVE  \E v \in Reached(t) :
           Button(IF At(t, p) = "dir" THEN "dir" ELSE "file", p, 0)
             \in In(DirButtons(t, v.rel, v.page))
<1>1. d \in Path
  BY BrowseAssumption
<1>2. Resolve(t, d) = d
  BY <1>1, PlainFolder
<1>3. p \in Found(t, Resolve(t, d))
  BY <1>2 DEF Found, Readable
<1>4. p = Append(d, p[Len(p)])
  BY <1>1, ChildFacts
<1> DEFINE e == EntryOf(t, d, p)
<1>5. e.rel = p /\ e.is_dir = (At(t, p) = "dir")
  BY <1>4 DEF EntryOf
<1>6. PICK v \in Reached(t) : EntryButton(e) \in In(DirButtons(t, v.rel, v.page))
  BY <1>3, EntryReached
<1> HIDE DEF e
<1>7. EntryButton(e) = Button(IF At(t, p) = "dir" THEN "dir" ELSE "file", p, 0)
  BY <1>5 DEF EntryButton
<1> QED BY <1>6, <1>7

\* Every directory that the walk below the root goes into is reached.
LEMMA FoldersReached ==
  ASSUME NEW t \in Trees, NEW d \in WalkFolders(t, Root)
  PROVE  d \in Rel /\ [rel |-> d, page |-> 0] \in Reached(t)
<1> DEFINE F == WalkFolders(t, Root)
           T == {n \in Nat : \A f \in F : Len(f) = n => [rel |-> f, page |-> 0] \in Reached(t)}
<1>1. Root \in Path /\ LinksOn(t, Root) = {} /\ Root \in Rel
  BY BrowseAssumption DEF Root, Path, LinksOn
<1>2. \A f \in F : f \in Path /\ LinksOn(t, f) = {} /\ (f = Root \/ Here(t, f) = "dir")
  BY <1>1, WalkPlain
<1>3. \A f \in F : f \in Rel
  BY <1>1, <1>2, BoundsAssumption DEF Here
<1> HIDE DEF F
<1>4. 0 \in T
  <2> SUFFICES ASSUME NEW f \in F, Len(f) = 0 PROVE [rel |-> f, page |-> 0] \in Reached(t)
    OBVIOUS
  <2>1. f = <<>>
    BY <1>2 DEF Path
  <2> QED BY <2>1, ReachedFacts DEF First
<1>5. ASSUME NEW n \in Nat, n \in T PROVE n + 1 \in T
  <2> SUFFICES ASSUME NEW f \in F, Len(f) = n + 1
               PROVE  [rel |-> f, page |-> 0] \in Reached(t)
    OBVIOUS
  <2>1. f # Root
    BY DEF Root
  <2>2. f \in Below(t, Root) /\ Here(t, f) = "dir"
    BY <2>1 DEF F, WalkFolders
  <2> DEFINE e == Parent(f)
  <2>3. e \in F /\ f \in Children(t, e) /\ Len(f) = Len(e) + 1 /\ Len(e) \in Nat
    BY <1>1, <2>2, WalkFinds DEF F
  <2> HIDE DEF e
  <2>4. Len(e) = n
    BY <2>3
  <2>5. [rel |-> e, page |-> 0] \in Reached(t) /\ e \in Rel
    BY <1>3, <1>5, <2>3, <2>4
  <2>6. IsFolder(t, f) /\ f \in Rel
    BY <1>2, <1>3, PlainFolder
  <2>7. ResolvesInside(t, f) /\ At(t, f) = "dir"
    BY <2>6 DEF IsFolder, Safe
  <2>8. PICK v \in Reached(t) : Button("dir", f, 0) \in In(DirButtons(t, v.rel, v.page))
    BY <1>2, <2>3, <2>5, <2>7, PlainEntryReached
  <2>9. 0 \in Nat /\ 0 < Pages(t, f)
    BY <2>6, PageFacts
  <2> QED BY <2>6, <2>8, <2>9, Tapped
<1> HIDE DEF T
<1>6. Nat \subseteq T
  BY <1>4, <1>5, Induction
<1>7. d \in F /\ Len(d) \in Nat
  BY <1>2 DEF F, Path
<1> QED BY <1>3, <1>6, <1>7 DEF T

\* The files listed in the directories of a walk are the files it finds.
LEMMA WalkListed ==
  ASSUME NEW t \in Trees, NEW rel \in Path, IsFolder(t, rel)
  PROVE  Packed(t, rel) = ListedBelow(t, rel)
<1> DEFINE q == Resolve(t, rel)
           F == WalkFolders(t, q)
           Files(d) == LET entries == ListDir(t, d)
                       IN {entries[k].rel : k \in {j \in DOMAIN entries : ~entries[j].is_dir}}
<1>1. q \in Path /\ LinksOn(t, q) = {} /\ (q = Root \/ Here(t, q) = "dir")
  BY FolderFacts
<1>2. ListedBelow(t, rel) = UNION {Files(d) : d \in F}
  BY DEF ListedBelow, WalkFolders
<1>3. Packed(t, rel) = {p \in Below(t, q) : ResolvesInside(t, p) /\ IsFile(t, p)}
  BY DEF Packed
<1> HIDE DEF q
<1>4. ASSUME NEW d \in F
      PROVE  Files(d) = {c \in Children(t, d) : ResolvesInside(t, c) /\ IsFile(t, c)}
  <2>1. d \in Path /\ LinksOn(t, d) = {} /\ (d = Root \/ Here(t, d) = "dir")
    BY <1>1, WalkPlain
  <2>2. Resolve(t, d) = d
    BY <2>1, PlainFolder
  <2>3. In(ListDir(t, d)) = {EntryOf(t, d, c) : c \in Found(t, d)}
    BY <2>1, <2>2, ListDirHas
  <2>4. Files(d) = {e.rel : e \in {x \in In(ListDir(t, d)) : ~x.is_dir}}
    BY DEF In
  <2> HIDE DEF Files
  <2>5. \A c \in Found(t, d) : /\ EntryOf(t, d, c).rel = c
                               /\ EntryOf(t, d, c).is_dir = (At(t, c) = "dir")
    <3> SUFFICES ASSUME NEW c \in Found(t, d)
                 PROVE  /\ EntryOf(t, d, c).rel = c
                        /\ EntryOf(t, d, c).is_dir = (At(t, c) = "dir")
      OBVIOUS
    <3>1. c \in Children(t, d)
      BY DEF Found
    <3>2. c = Append(d, c[Len(c)])
      BY <2>1, <3>1, ChildFacts
    <3> QED BY <3>2 DEF EntryOf
  <2>6. Files(d) = {c \in Found(t, d) : At(t, c) # "dir"}
    <3>1. Files(d) = {e.rel : e \in {x \in {EntryOf(t, d, c) : c \in Found(t, d)} : ~x.is_dir}}
      BY <2>3, <2>4
    <3>2. ASSUME NEW c \in Found(t, d), At(t, c) # "dir" PROVE c \in Files(d)
      <4>1. EntryOf(t, d, c).rel = c /\ ~EntryOf(t, d, c).is_dir
        BY <2>5, <3>2
      <4> QED BY <3>1, <4>1
    <3>3. ASSUME NEW r \in Files(d) PROVE r \in Found(t, d) /\ At(t, r) # "dir"
      <4>1. PICK c \in Found(t, d) : r = EntryOf(t, d, c).rel /\ ~EntryOf(t, d, c).is_dir
        BY <3>1
      <4>2. r = c /\ At(t, c) # "dir"
        BY <2>5, <4>1
      <4> QED BY <4>2
    <3> QED BY <3>2, <3>3
  <2>7. \A c : IsFile(t, c) <=> At(t, c) # "dir" /\ Readable(t, c)
    BY AtKinds DEF IsFile, Readable
  <2> QED BY <2>6, <2>7 DEF Found
<1> HIDE DEF Files, F
<1>5. \A p \in Below(t, q) : \E d \in F : p \in Children(t, d)
  BY <1>1, WalkFinds DEF F
<1>6. \A d \in F : Children(t, d) \subseteq Below(t, q)
  BY <1>1, WalkMisses DEF F
<1> QED BY <1>2, <1>3, <1>4, <1>5, <1>6

--------------------------------------------------------------------------------
(* Theorems *)

\* The buttons of a set of views are those of the views.
LEMMA ButtonsAre ==
  ASSUME NEW t, NEW views
  PROVE  ButtonsOf(t, views) = UNION {In(DirButtons(t, v.rel, v.page)) : v \in views}
  BY DEF ButtonsOf, In

\* From the first screen every entry of the store that lies inside it has its button
\* on some page of some folder, for every tree, names, depth and page size:
\* directories are reached one level after the other, pages one after the other.
THEOREM EntriesReachable == Spec => []EveryEntryReachable
<1>1. ASSUME NEW t \in Trees, NEW p \in Below(t, Root), ResolvesInside(t, p), At(t, p) # "none"
      PROVE  Button(IF At(t, p) = "dir" THEN "dir" ELSE "file", p, 0)
               \in ButtonsOf(t, Reached(t))
  <2>1. Root \in Path /\ LinksOn(t, Root) = {}
    BY DEF Root, Path, LinksOn
  <2> DEFINE d == Parent(p)
  <2>2. d \in WalkFolders(t, Root) /\ p \in Children(t, d)
    BY <2>1, WalkFinds
  <2> HIDE DEF d
  <2>3. LinksOn(t, d) = {} /\ (d = Root \/ Here(t, d) = "dir")
    BY <2>1, <2>2, WalkPlain
  <2>4. d \in Rel /\ [rel |-> d, page |-> 0] \in Reached(t)
    BY <2>2, FoldersReached
  <2>5. \E v \in Reached(t) :
          Button(IF At(t, p) = "dir" THEN "dir" ELSE "file", p, 0)
            \in In(DirButtons(t, v.rel, v.page))
    BY <1>1, <2>2, <2>3, <2>4, PlainEntryReached
  <2> QED BY <2>5, ButtonsAre
<1>2. TypeOK => EveryEntryReachable
  BY <1>1 DEF TypeOK, EveryEntryReachable
<1> QED BY <1>2, BrowseTypeCorrect, PTL

\* Whatever a conversation shows can be opened or sent, and so can what a search
\* finds: no button leads outside, to nothing or round in a circle, for every tree
\* of links, as long as the links on a path come to an end or never do.
THEOREM ShownIsThere == Spec => []ShownCanBeFetched
<1>1. ASSUME NEW t \in Trees, NEW b \in ButtonsOf(t, Reached(t))
      PROVE  IF b.kind = "file" THEN Safe(t, b.rel) /\ IsFile(t, b.rel)
             ELSE IsFolder(t, b.rel)
  <2>1. PICK v \in Reached(t) : b \in In(DirButtons(t, v.rel, v.page))
    BY ButtonsAre
  <2>2. v \in Good(t)
    BY ReachedFacts
  <2>3. /\ b.kind = "file" => Safe(t, b.rel) /\ IsFile(t, b.rel)
        /\ b.kind # "file" => b.rel \in Path /\ Folders(t, b.rel)
    BY <2>1, <2>2, ButtonsWork
  <2> QED BY <2>3, FoldersWhole
<1>2. ASSUME NEW t \in Trees, NEW needle, NEW k \in DOMAIN Search(t, needle)
      PROVE  Safe(t, Search(t, needle)[k]) /\ IsFile(t, Search(t, needle)[k])
  <2>1. IsFile(t, Search(t, needle)[k]) /\ ResolvesInside(t, Search(t, needle)[k])
    BY Searching
  <2> QED BY <2>1 DEF Safe, IsFile
<1>3. TypeOK => ShownCanBeFetched
  BY <1>1, <1>2 DEF TypeOK, ShownCanBeFetched
<1> QED BY <1>3, BrowseTypeCorrect, PTL

\* On every folder a conversation can show, the three walks agree: what the
\* confirmation counts is what the archive holds and what the listings of the folder
\* and of the folders below it show.
THEOREM WalksFindTheSame == Spec => []WalksAgree
<1>1. ASSUME NEW t \in Trees, NEW b \in ButtonsOf(t, Reached(t)), b.kind = "zipask"
      PROVE  Sized(t, b.rel) = Packed(t, b.rel) /\ Packed(t, b.rel) = ListedBelow(t, b.rel)
  <2>1. PICK v \in Reached(t) : b \in In(DirButtons(t, v.rel, v.page))
    BY ButtonsAre
  <2>2. v \in Good(t)
    BY ReachedFacts
  <2>3. b.rel \in Path /\ Folders(t, b.rel)
    BY <1>1, <2>1, <2>2, ButtonsWork
  <2>4. IsFolder(t, b.rel)
    BY <2>3, FoldersWhole
  <2>5. Packed(t, b.rel) = ListedBelow(t, b.rel)
    BY <2>3, <2>4, WalkListed
  <2>6. Sized(t, b.rel) = Packed(t, b.rel)
    BY DEF Sized, Packed
  <2> QED BY <2>5, <2>6
<1>2. TypeOK => WalksAgree
  BY <1>1 DEF TypeOK, WalksAgree
<1> QED BY <1>2, BrowseTypeCorrect, PTL
================================================================================

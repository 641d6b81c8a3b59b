----------------------------- MODULE Browse_proofs -----------------------------
(***************************************************************************)
(* Proofs about Browse, for every page size, limit of the token map and    *)
(* store, however the store changes between two taps.                      *)
(***************************************************************************)
EXTENDS Browse, TLAPS

Buttons == [kind : Kinds, rel : Path, page : Nat]
Token == [id : Nat, button : Buttons]
Message == [keys : SUBSET Nat, of : Nat, shown : Nat]

\* The map holds the tokens issued last, in the order of their issue.
MapHoldsLast ==
  /\ issued \in Nat /\ tokens \in Seq(Token)
  /\ Len(tokens) = IF issued < Limit THEN issued ELSE Limit
  /\ \A k \in 1..Len(tokens) : tokens[k].id = issued - Len(tokens) + k

\* The keys of the screen made last are among the last Limit that were issued.
KeysRecent ==
  newest > 0 => \A id \in chat[newest].keys :
                  id \in Nat \ {0} /\ issued < id + Limit /\ id <= issued

ScreenTypes ==
  /\ tree \in Trees /\ screens \in 0..MaxScreens
  /\ chat \in Seq(Message) /\ newest \in 0..Len(chat)

IInv == ScreenTypes /\ MapHoldsLast /\ KeysRecent /\ NoEmptyPage

--------------------------------------------------------------------------------

\* The pages a directory is cut into: none of them is empty, together they hold it.
LEMMA Division ==
  ASSUME NEW n \in Nat \ {0}, NEW p \in Nat \ {0}
  PROVE  LET q == (n + p - 1) \div p
         IN q \in Nat /\ q > 0 /\ \A k \in Nat : k < q => k * p < n
<1> DEFINE q == (n + p - 1) \div p
           r == (n + p - 1) % p
<1>1. q \in Int /\ r \in 0..(p - 1) /\ n + p - 1 = p * q + r
  OBVIOUS
<1> HIDE DEF q, r
<1>2. q > 0
  <2>1. p * q >= n
    BY <1>1
  <2>2. q <= 0 => p * q <= 0
    BY <1>1
  <2> QED BY <2>1, <2>2, <1>1
<1>3. ASSUME NEW k \in Nat, k < q PROVE k * p < n
  <2>1. k + 1 <= q /\ q - (k + 1) \in Nat
    BY <1>1, <1>3
  <2>2. p * (q - (k + 1)) >= 0
    BY <2>1
  <2>3. p * (q - (k + 1)) = p * q - k * p - p
    BY <1>1
  <2>4. k * p \in Nat /\ p * q \in Int
    BY <1>1
  <2>5. p * q <= n + p - 1
    BY <1>1, <2>4
  <2> QED BY <2>2, <2>3, <2>4, <2>5
<1> QED BY <1>1, <1>2, <1>3 DEF q

\* The page that is shown: at most PageSize entries, and some if there are any.
LEMMA PageFacts ==
  ASSUME NEW t \in Trees, NEW rel \in Rel, NEW page \in Nat
  PROVE  LET at == Clamp(t, rel, page)
             shown == Page(t, rel, at)
         IN /\ at \in Nat /\ Pages(t, rel) \in Nat /\ at < Pages(t, rel)
            /\ shown \in Seq(Entry) /\ Len(shown) <= PageSize
            /\ Len(lister(t, rel)) > 0 => Len(shown) > 0
<1> DEFINE n == Len(lister(t, rel))
           at == Clamp(t, rel, page)
           start == at * PageSize
           last == IF n < (at + 1) * PageSize THEN n ELSE (at + 1) * PageSize
<1>1. lister(t, rel) \in Seq(Entry) /\ n \in Nat
  BY BrowseAssumption
<1>2. PageSize \in Nat \ {0}
  BY BrowseAssumption
<1>3. n > 0 => /\ Pages(t, rel) = (n + PageSize - 1) \div PageSize
               /\ Pages(t, rel) \in Nat /\ Pages(t, rel) > 0
               /\ \A k \in Nat : k < Pages(t, rel) => k * PageSize < n
  <2> SUFFICES ASSUME n > 0 PROVE /\ Pages(t, rel) = (n + PageSize - 1) \div PageSize
               /\ Pages(t, rel) \in Nat /\ Pages(t, rel) > 0
               /\ \A k \in Nat : k < Pages(t, rel) => k * PageSize < n
    OBVIOUS
  <2>1. Pages(t, rel) = (n + PageSize - 1) \div PageSize
    BY <1>1 DEF Pages
  <2>2. n \in Nat \ {0}
    BY <1>1
  <2> HIDE DEF n
  <2> QED BY <2>1, <2>2, <1>2, Division
<1>4. n = 0 => Pages(t, rel) = 1
  BY DEF Pages
<1>5. at \in Nat /\ at < Pages(t, rel) /\ Pages(t, rel) \in Nat
  BY <1>1, <1>3, <1>4 DEF Clamp
<1>6. start \in Nat /\ (at + 1) * PageSize = start + PageSize
  BY <1>2, <1>5
<1>7. Page(t, rel, at) = SubSeq(lister(t, rel), start + 1, last)
  BY DEF Page
<1>8. last \in Nat /\ last <= n /\ last <= start + PageSize
  BY <1>1, <1>2, <1>6
<1>9. n > 0 => start < n /\ start < last
  BY <1>1, <1>2, <1>3, <1>5, <1>6
<1>10. ASSUME NEW s \in Seq(Entry), NEW a \in Nat, NEW b \in Nat, b <= Len(s)
       PROVE  /\ SubSeq(s, a + 1, b) \in Seq(Entry)
              /\ Len(SubSeq(s, a + 1, b)) = IF a < b THEN b - a ELSE 0
  BY <1>10
<1> HIDE DEF at, start, last, n
<1>11. /\ Page(t, rel, at) \in Seq(Entry)
       /\ Len(Page(t, rel, at)) = IF start < last THEN last - start ELSE 0
  BY <1>1, <1>6, <1>7, <1>8, <1>10 DEF n
<1>12. Len(Page(t, rel, at)) <= PageSize /\ (n > 0 => Len(Page(t, rel, at)) > 0)
  BY <1>2, <1>6, <1>8, <1>9, <1>11
<1> QED BY <1>5, <1>11, <1>12 DEF at, n

\* The parts a screen of _browse() is put together from.
LEMMA DirButtonsParts ==
  ASSUME NEW t \in Trees, NEW rel \in Rel, NEW page \in Nat
  PROVE  LET at == Clamp(t, rel, page)
             shown == Page(t, rel, at)
             entries == [k \in DOMAIN shown |-> EntryButton(shown[k])]
         IN /\ FolderButtons(rel) \in Seq(Buttons) /\ Len(FolderButtons(rel)) <= 2
            /\ entries \in Seq(Buttons) /\ Len(entries) <= PageSize
            /\ Pager(t, rel, at) \in Seq(Buttons) /\ Len(Pager(t, rel, at)) <= 3
            /\ DirButtons(t, rel, at) = FolderButtons(rel) \o entries \o Pager(t, rel, at)
<1> DEFINE at == Clamp(t, rel, page)
           shown == Page(t, rel, at)
           entries == [k \in DOMAIN shown |-> EntryButton(shown[k])]
<1>1. /\ at \in Nat /\ Pages(t, rel) \in Nat
      /\ shown \in Seq(Entry) /\ Len(shown) \in Nat /\ Len(shown) <= PageSize
  BY PageFacts
<1>2. rel \in Path /\ PageSize \in Nat
  BY BrowseAssumption
<1>3. ASSUME NEW p \in Nat, NEW r \in Path, NEW kind \in Kinds
      PROVE  Button(kind, r, p) \in Buttons
  BY DEF Button, Buttons
<1>4. FolderButtons(rel) \in Seq(Buttons) /\ Len(FolderButtons(rel)) <= 2
  <2>1. CASE rel = <<>>
    BY <2>1 DEF FolderButtons
  <2>2. CASE rel # <<>>
    <3>1. SubSeq(rel, 1, Len(rel) - 1) \in Path
      BY <1>2, <2>2 DEF Path
    <3>2. Button("dir", SubSeq(rel, 1, Len(rel) - 1), 0) \in Buttons
      BY <1>3, <3>1 DEF Kinds
    <3>3. Button("zipask", rel, 0) \in Buttons
      BY <1>2, <1>3 DEF Kinds
    <3> QED BY <2>2, <3>2, <3>3 DEF FolderButtons
  <2> QED BY <2>1, <2>2
<1>5. entries \in Seq(Buttons) /\ Len(entries) = Len(shown)
  <2>1. DOMAIN shown = 1..Len(shown)
    BY <1>1
  <2>2. \A k \in 1..Len(shown) : shown[k] \in Entry
    BY <1>1
  <2>3. \A e \in Entry : EntryButton(e) \in Buttons
    BY <1>3 DEF EntryButton, Entry, Kinds
  <2> QED BY <1>1, <2>1, <2>2, <2>3
<1>6. Pager(t, rel, at) \in Seq(Buttons) /\ Len(Pager(t, rel, at)) <= 3
  <2>1. \A p \in Nat : Button("dir", rel, p) \in Buttons
    BY <1>2, <1>3 DEF Kinds
  <2>2. at > 0 => at - 1 \in Nat
    BY <1>1
  <2> DEFINE before == IF at > 0 THEN <<Button("dir", rel, at - 1)>> ELSE <<>>
             here == <<Button("dir", rel, at)>>
             after == IF at + 1 < Pages(t, rel) THEN <<Button("dir", rel, at + 1)>> ELSE <<>>
  <2>3. before \in Seq(Buttons) /\ Len(before) \in {0, 1}
    BY <1>1, <2>1, <2>2
  <2>4. here \in Seq(Buttons) /\ Len(here) = 1
    BY <1>1, <2>1
  <2>5. after \in Seq(Buttons) /\ Len(after) <= 1
    BY <1>1, <2>1
  <2>6. Pager(t, rel, at) = IF Pages(t, rel) <= 1 THEN <<>> ELSE before \o here \o after
    BY DEF Pager
  <2> HIDE DEF before, here, after
  <2>7. ASSUME NEW a \in Seq(Buttons), NEW b \in Seq(Buttons)
        PROVE  /\ a \o b \in Seq(Buttons) /\ Len(a \o b) = Len(a) + Len(b)
               /\ Len(a) \in Nat /\ Len(b) \in Nat
    OBVIOUS
  <2>8. before \o here \o after \in Seq(Buttons) /\ Len(before \o here \o after) <= 3
    <3>1. before \o here \in Seq(Buttons) /\ Len(before \o here) <= 2
      <4>1. before \o here \in Seq(Buttons) /\ Len(before \o here) = Len(before) + Len(here)
        BY <2>3, <2>4, <2>7
      <4> QED BY <2>3, <2>4, <4>1
    <3>2. /\ before \o here \o after \in Seq(Buttons) /\ Len(before \o here) \in Nat
          /\ Len(before \o here \o after) = Len(before \o here) + Len(after)
      BY <2>5, <2>7, <3>1
    <3>3. Len(after) \in Nat
      BY <2>5
    <3> QED BY <2>5, <3>1, <3>2, <3>3
  <2> QED BY <2>6, <2>8
<1>7. DirButtons(t, rel, at) = FolderButtons(rel) \o entries \o Pager(t, rel, at)
  BY DEF DirButtons
<1> QED BY <1>1, <1>4, <1>5, <1>6, <1>7

\* A screen of _browse() has at most PageSize + 5 buttons.
LEMMA DirButtonsFacts ==
  ASSUME NEW t \in Trees, NEW rel \in Rel, NEW page \in Nat
  PROVE  LET buttons == DirButtons(t, rel, Clamp(t, rel, page))
         IN buttons \in Seq(Buttons) /\ Len(buttons) <= PageSize + 5
<1> DEFINE at == Clamp(t, rel, page)
           shown == Page(t, rel, at)
           entries == [k \in DOMAIN shown |-> EntryButton(shown[k])]
<1>1. /\ FolderButtons(rel) \in Seq(Buttons) /\ Len(FolderButtons(rel)) <= 2
      /\ entries \in Seq(Buttons) /\ Len(entries) <= PageSize
      /\ Pager(t, rel, at) \in Seq(Buttons) /\ Len(Pager(t, rel, at)) <= 3
      /\ DirButtons(t, rel, at) = FolderButtons(rel) \o entries \o Pager(t, rel, at)
  BY DirButtonsParts
<1>2. PageSize \in Nat
  BY BrowseAssumption
<1> HIDE DEF entries, shown, at
<1>3. /\ FolderButtons(rel) \o entries \o Pager(t, rel, at) \in Seq(Buttons)
      /\ Len(FolderButtons(rel) \o entries \o Pager(t, rel, at)) <= PageSize + 5
  BY <1>1, <1>2
<1> QED BY <1>1, <1>3 DEF at

--------------------------------------------------------------------------------

\* Putting tokens into the map leaves the last ones in it, in order.
LEMMA PutFacts ==
  ASSUME MapHoldsLast, NEW buttons \in Seq(Buttons), Put(buttons)
  PROVE  MapHoldsLast' /\ issued' = issued + Len(buttons)
<1> DEFINE fresh == [k \in DOMAIN buttons |-> [id |-> issued + k, button |-> buttons[k]]]
           all == tokens \o fresh
<1>1. /\ issued \in Nat /\ tokens \in Seq(Token) /\ Limit \in Nat
      /\ Len(tokens) = IF issued < Limit THEN issued ELSE Limit
      /\ \A k \in 1..Len(tokens) : tokens[k].id = issued - Len(tokens) + k
  BY BrowseAssumption DEF MapHoldsLast
<1>2. issued' = issued + Len(buttons) /\ tokens' = LastOf(all, Limit)
  BY DEF Put
<1>3. /\ fresh \in Seq(Token) /\ Len(fresh) = Len(buttons)
      /\ \A k \in 1..Len(buttons) : fresh[k].id = issued + k
  <2>1. DOMAIN buttons = 1..Len(buttons) /\ Len(buttons) \in Nat
    OBVIOUS
  <2>2. \A k \in 1..Len(buttons) : buttons[k] \in Buttons /\ issued + k \in Nat
    BY <1>1
  <2> QED BY <2>1, <2>2 DEF Token
<1> HIDE DEF fresh
<1>4. /\ all \in Seq(Token) /\ Len(all) = Len(tokens) + Len(buttons)
      /\ Len(all) \in Nat /\ Len(tokens) \in Nat /\ Len(buttons) \in Nat
      /\ \A k \in 1..Len(tokens) : all[k] = tokens[k]
      /\ \A k \in 1..Len(buttons) : all[Len(tokens) + k] = fresh[k]
  <2>1. ASSUME NEW a \in Seq(Token), NEW b \in Seq(Token)
        PROVE  /\ a \o b \in Seq(Token) /\ Len(a \o b) = Len(a) + Len(b)
               /\ Len(a \o b) \in Nat /\ Len(a) \in Nat /\ Len(b) \in Nat
               /\ \A k \in 1..Len(a) : (a \o b)[k] = a[k]
               /\ \A k \in 1..Len(b) : (a \o b)[Len(a) + k] = b[k]
    OBVIOUS
  <2>2. tokens \in Seq(Token) /\ fresh \in Seq(Token) /\ Len(fresh) = Len(buttons)
    BY <1>1, <1>3
  <2>3. /\ all \in Seq(Token) /\ Len(all) = Len(tokens) + Len(fresh)
        /\ Len(all) \in Nat /\ Len(tokens) \in Nat /\ Len(fresh) \in Nat
        /\ \A k \in 1..Len(tokens) : all[k] = tokens[k]
        /\ \A k \in 1..Len(fresh) : all[Len(tokens) + k] = fresh[k]
    BY <2>1, <2>2
  <2> QED BY <2>2, <2>3
<1>5. ASSUME NEW k \in 1..Len(all) PROVE all[k].id = issued - Len(tokens) + k
  <2>1. CASE k <= Len(tokens)
    BY <1>1, <1>4, <2>1
  <2>2. CASE k > Len(tokens)
    <3>1. k - Len(tokens) \in 1..Len(buttons) /\ Len(tokens) + (k - Len(tokens)) = k
      BY <1>1, <1>4, <2>2
    <3>2. all[k].id = issued + (k - Len(tokens))
      BY <1>3, <1>4, <3>1
    <3> QED BY <1>1, <1>4, <3>2
  <2> QED BY <1>1, <1>4, <2>1, <2>2
<1> HIDE DEF all
<1> DEFINE first == IF Len(all) > Limit THEN Len(all) - Limit + 1 ELSE 1
<1>6. tokens' = SubSeq(all, first, Len(all))
  BY <1>2 DEF LastOf
<1>7. /\ first \in 1..(Len(all) + 1) /\ Len(all) \in Nat
      /\ Len(all) - first + 1 = IF Len(all) < Limit THEN Len(all) ELSE Limit
  <2>1. ASSUME NEW n \in Nat, NEW l \in Nat,
               NEW f, f = IF n > l THEN n - l + 1 ELSE 1
        PROVE  f \in 1..(n + 1) /\ n - f + 1 = IF n < l THEN n ELSE l
    BY <2>1
  <2>2. Len(all) \in Nat /\ Limit \in Nat
    BY <1>1, <1>4
  <2>3. first = IF Len(all) > Limit THEN Len(all) - Limit + 1 ELSE 1
    OBVIOUS
  <2> HIDE DEF first
  <2>4. \A n, l \in Nat : \A f :
          f = (IF n > l THEN n - l + 1 ELSE 1)
            => f \in 1..(n + 1) /\ n - f + 1 = IF n < l THEN n ELSE l
    BY <2>1
  <2> QED BY <2>2, <2>3, <2>4
<1>8. ASSUME NEW s \in Seq(Token), NEW a \in 1..(Len(s) + 1)
      PROVE  /\ SubSeq(s, a, Len(s)) \in Seq(Token)
             /\ Len(SubSeq(s, a, Len(s))) = Len(s) - a + 1
             /\ \A k \in 1..(Len(s) - a + 1) : SubSeq(s, a, Len(s))[k] = s[a + k - 1]
  OBVIOUS
<1> HIDE DEF first
<1>9. /\ tokens' \in Seq(Token) /\ Len(tokens') = Len(all) - first + 1
      /\ \A k \in 1..Len(tokens') : tokens'[k] = all[first + k - 1]
  BY <1>4, <1>6, <1>7, <1>8
<1>10. Len(tokens') = IF issued' < Limit THEN issued' ELSE Limit
  BY <1>1, <1>2, <1>4, <1>7, <1>9
<1>11. ASSUME NEW k \in 1..Len(tokens') PROVE tokens'[k].id = issued' - Len(tokens') + k
  <2>1. first + k - 1 \in 1..Len(all)
    BY <1>7, <1>9
  <2>2. tokens'[k].id = issued - Len(tokens) + (first + k - 1)
    BY <1>5, <1>9, <2>1
  <2> QED BY <1>1, <1>2, <1>4, <1>7, <1>9, <2>2
<1>12. issued' \in Nat
  BY <1>1, <1>2
<1> QED BY <1>2, <1>9, <1>10, <1>11, <1>12 DEF MapHoldsLast

\* Delivering a screen of n fresh keys, n at most Limit, keeps the chat's invariants.
LEMMA DeliverFacts ==
  ASSUME ScreenTypes, NoEmptyPage, issued \in Nat, Limit \in Nat,
         NEW m \in 0..Len(chat), NEW n \in Nat, NEW of \in Nat, NEW shown \in Nat,
         n <= Limit, n > 0 => issued' = issued + n, issued' \in Nat,
         of > 0 => shown > 0,
         Deliver(m, Screen(n, of, shown))
  PROVE  chat' \in Seq(Message) /\ newest' \in 0..Len(chat') /\ KeysRecent' /\ NoEmptyPage'
<1> DEFINE s == Screen(n, of, shown)
<1>1. s \in Message /\ s.keys = (issued + 1)..(issued + n) /\ s.of = of /\ s.shown = shown
  BY DEF Screen, Message
<1>2. chat \in Seq(Message) /\ newest \in 0..Len(chat)
  BY DEF ScreenTypes
<1>3. \A id \in s.keys : id \in Nat \ {0} /\ issued' < id + Limit /\ id <= issued'
  BY <1>1
<1>4. \A k \in DOMAIN chat : chat[k].of > 0 => chat[k].shown > 0
  BY DEF NoEmptyPage
<1> HIDE DEF s
<1>5. CASE m = 0 /\ chat' = Append(chat, s) /\ newest' = Len(chat) + 1
  <2>1. /\ chat' \in Seq(Message) /\ Len(chat') = Len(chat) + 1
        /\ chat'[Len(chat) + 1] = s /\ \A k \in 1..Len(chat) : chat'[k] = chat[k]
    BY <1>1, <1>2, <1>5
  <2>2. newest' \in 0..Len(chat') /\ KeysRecent'
    BY <1>2, <1>3, <1>5, <2>1 DEF KeysRecent
  <2>3. DOMAIN chat' = 1..(Len(chat) + 1) /\ DOMAIN chat = 1..Len(chat) /\ Len(chat) \in Nat
    BY <1>2, <2>1
  <2>4. ASSUME NEW k \in DOMAIN chat', chat'[k].of > 0 PROVE chat'[k].shown > 0
    <3>1. CASE k = Len(chat) + 1
      BY <1>1, <2>1, <2>4, <3>1
    <3>2. CASE k \in 1..Len(chat)
      BY <1>4, <2>1, <2>3, <2>4, <3>2
    <3> QED BY <2>3, <3>1, <3>2
  <2> QED BY <2>1, <2>2, <2>4 DEF NoEmptyPage
<1>6. CASE m > 0 /\ chat' = [chat EXCEPT ![m] = s] /\ newest' = m
  <2>1. m \in 1..Len(chat) /\ DOMAIN chat = 1..Len(chat) /\ Len(chat) \in Nat
    BY <1>2, <1>6
  <2>2. /\ chat' \in Seq(Message) /\ Len(chat') = Len(chat) /\ DOMAIN chat' = DOMAIN chat
        /\ chat'[m] = s /\ \A k \in 1..Len(chat) : k # m => chat'[k] = chat[k]
    BY <1>1, <1>2, <1>6, <2>1
  <2>3. newest' \in 0..Len(chat') /\ KeysRecent'
    BY <1>3, <1>6, <2>1, <2>2 DEF KeysRecent
  <2>4. ASSUME NEW k \in DOMAIN chat', chat'[k].of > 0 PROVE chat'[k].shown > 0
    <3>1. CASE k = m
      BY <1>1, <2>2, <2>4, <3>1
    <3>2. CASE k # m
      BY <1>4, <2>1, <2>2, <2>4, <3>2
    <3> QED BY <3>1, <3>2
  <2> QED BY <2>2, <2>3, <2>4 DEF NoEmptyPage
<1>7. CASE chat' = chat /\ newest' = 0
  BY <1>2, <1>4, <1>7 DEF KeysRecent, NoEmptyPage
<1> QED BY <1>5, <1>6, <1>7 DEF Deliver, s

--------------------------------------------------------------------------------

LEMMA InitIInv == Init => IInv
  BY BrowseAssumption DEF Init, IInv, ScreenTypes, MapHoldsLast, KeysRecent, NoEmptyPage

\* A live token has an entry of the map.
LEMMA LiveGet ==
  ASSUME MapHoldsLast, NEW id, Live(id)
  PROVE  Get(id) \in Buttons
<1>1. DOMAIN tokens = 1..Len(tokens) /\ \A k \in DOMAIN tokens : tokens[k] \in Token
  BY DEF MapHoldsLast
<1>2. \E e \in {tokens[k] : k \in DOMAIN tokens} : e.id = id
  BY DEF Live
<1>3. (CHOOSE e \in {tokens[k] : k \in DOMAIN tokens} : e.id = id) \in Token
  BY <1>1, <1>2
<1> QED BY <1>3 DEF Get, Token

\* _browse() keeps the invariant.
LEMMA BrowseStep ==
  ASSUME IInv, NEW m \in 0..Len(chat), NEW rel \in Rel, NEW page \in Nat,
         BrowseTo(m, rel, page)
  PROVE  IInv'
<1> DEFINE at == Clamp(tree, rel, page)
           buttons == DirButtons(tree, rel, at)
           n == Len(buttons)
           of == Len(lister(tree, rel))
           shown == Len(Page(tree, rel, at))
<1>1. buttons \in Seq(Buttons) /\ n \in Nat /\ n <= PageSize + 5
  BY DirButtonsFacts DEF IInv, ScreenTypes
<1>2. of \in Nat /\ shown \in Nat /\ (of > 0 => shown > 0)
  <2>1. tree \in Trees
    BY DEF IInv, ScreenTypes
  <2>2. lister(tree, rel) \in Seq(Entry)
    BY <2>1, BrowseAssumption
  <2>3. Page(tree, rel, at) \in Seq(Entry) /\ (of > 0 => shown > 0)
    BY <2>1, PageFacts
  <2> QED BY <2>2, <2>3
<1>3. /\ screens' \in 0..MaxScreens /\ tree' \in Trees
      /\ Put(buttons) /\ Deliver(m, Screen(n, of, shown))
  BY BrowseAssumption DEF BrowseTo, Count, IInv, ScreenTypes
<1>4. issued \in Nat /\ Limit \in Nat /\ PageSize \in Nat /\ PageSize + 5 <= Limit
  BY BrowseAssumption DEF IInv, MapHoldsLast
<1> HIDE DEF buttons, n, of, shown
<1>5. MapHoldsLast' /\ issued' = issued + n
  BY <1>1, <1>3, PutFacts DEF IInv, n
<1>6. issued' \in Nat /\ n <= Limit
  BY <1>1, <1>4, <1>5
<1>7. chat' \in Seq(Message) /\ newest' \in 0..Len(chat') /\ KeysRecent' /\ NoEmptyPage'
  BY <1>1, <1>2, <1>3, <1>4, <1>5, <1>6, DeliverFacts DEF IInv
<1> QED BY <1>3, <1>5, <1>7 DEF IInv, ScreenTypes

\* A screen without buttons keeps the invariant.
LEMMA PlainStep ==
  ASSUME IInv, NEW m \in 0..Len(chat), Count, Deliver(m, Screen(0, 0, 0)),
         UNCHANGED <<tree, tokens, issued>>
  PROVE  IInv'
<1>1. issued \in Nat /\ Limit \in Nat
  BY BrowseAssumption DEF IInv, MapHoldsLast
<1>2. chat' \in Seq(Message) /\ newest' \in 0..Len(chat') /\ KeysRecent' /\ NoEmptyPage'
  BY <1>1, DeliverFacts DEF IInv
<1>3. screens' \in 0..MaxScreens
  BY BrowseAssumption DEF Count, IInv, ScreenTypes
<1> QED BY <1>2, <1>3 DEF IInv, ScreenTypes, MapHoldsLast

\* A screen of some other buttons, at most Limit, keeps the invariant.
LEMMA ListStep ==
  ASSUME IInv, NEW m \in 0..Len(chat), NEW buttons \in Seq(Buttons),
         NEW of \in Nat, Len(buttons) <= Limit, Count, Put(buttons),
         Deliver(m, Screen(Len(buttons), of, of)), UNCHANGED tree
  PROVE  IInv'
<1>1. issued \in Nat /\ Limit \in Nat /\ Len(buttons) \in Nat
  BY BrowseAssumption DEF IInv, MapHoldsLast
<1>2. MapHoldsLast' /\ issued' = issued + Len(buttons)
  BY PutFacts DEF IInv
<1>3. issued' \in Nat
  BY <1>1, <1>2
<1>4. chat' \in Seq(Message) /\ newest' \in 0..Len(chat') /\ KeysRecent' /\ NoEmptyPage'
  BY <1>1, <1>2, <1>3, DeliverFacts DEF IInv
<1>5. screens' \in 0..MaxScreens
  BY BrowseAssumption DEF Count, IInv, ScreenTypes
<1> QED BY <1>2, <1>4, <1>5 DEF IInv, ScreenTypes

\* Every step keeps the invariant.
LEMMA StepIInv == IInv /\ [Next]_vars => IInv'
<1> SUFFICES ASSUME IInv, [Next]_vars PROVE IInv'
  OBVIOUS
<1>1. CASE Start
  BY <1>1, BrowseStep, BrowseAssumption DEF Start, IInv, ScreenTypes
<1>2. ASSUME NEW needle \in Needles, Find(needle) PROVE IInv'
  <2> DEFINE hits == searcher(tree, needle)
             buttons == [k \in DOMAIN hits |-> Button("file", hits[k], 0)]
  <2>1. hits \in Seq(Path) /\ Len(hits) \in Nat /\ Len(hits) <= MaxResults /\ MaxResults <= Limit
    BY BrowseAssumption DEF IInv, ScreenTypes
  <2>2. buttons \in Seq(Buttons) /\ Len(buttons) = Len(hits)
    <3>1. \A k \in 1..Len(hits) : hits[k] \in Path /\ DOMAIN hits = 1..Len(hits)
      BY <2>1
    <3>2. \A k \in DOMAIN hits : Button("file", hits[k], 0) \in Buttons
      BY <2>1, <3>1 DEF Button, Buttons, Kinds
    <3> QED BY <2>1, <3>1, <3>2
  <2>3. /\ Count /\ Put(buttons) /\ UNCHANGED tree
        /\ Deliver(0, Screen(Len(hits), Len(hits), Len(hits)))
    BY <1>2 DEF Find
  <2>4. MaxResults \in Nat /\ Limit \in Nat /\ 0 \in 0..Len(chat)
    BY BrowseAssumption DEF IInv, ScreenTypes
  <2> HIDE DEF hits, buttons
  <2>5. Len(buttons) <= Limit /\ Deliver(0, Screen(Len(buttons), Len(hits), Len(hits)))
    BY <2>1, <2>2, <2>3, <2>4
  <2> QED BY <2>1, <2>2, <2>3, <2>4, <2>5, ListStep
<1>3. ASSUME NEW m \in DOMAIN chat, NEW id \in chat[m].keys,
             TapDead(m, id) \/ TapDir(m, id) \/ TapZipAsk(m, id) \/ TapZipGo(m, id)
      PROVE  IInv'
  <2>1. m \in 0..Len(chat) /\ 0 \in 0..Len(chat)
    BY DEF IInv, ScreenTypes
  <2>2. CASE TapDead(m, id)
    BY <2>1, <2>2, PlainStep DEF TapDead
  <2>3. CASE TapDir(m, id)
    <3>1. Get(id) \in Buttons /\ Get(id).rel \in Rel
      BY <2>3, LiveGet DEF TapDir, IInv
    <3>2. Get(id).page \in Nat
      BY <3>1 DEF Buttons
    <3> QED BY <2>1, <2>3, <3>1, <3>2, BrowseStep DEF TapDir
  <2>4. CASE TapZipAsk(m, id)
    <3>1. Get(id) \in Buttons
      BY <2>4, LiveGet DEF TapZipAsk, IInv
    <3> DEFINE go == Button("zipgo", Get(id).rel, 0)
               cancel == Button("dir", Get(id).rel, 0)
    <3>2. go \in Buttons /\ cancel \in Buttons
      BY <3>1 DEF Button, Buttons, Kinds
    <3>3. Count /\ Put(<<go, cancel>>) /\ Deliver(m, Screen(2, 0, 0)) /\ UNCHANGED tree
      BY <2>4 DEF TapZipAsk
    <3> HIDE DEF go, cancel
    <3>4. <<go, cancel>> \in Seq(Buttons) /\ Len(<<go, cancel>>) = 2
      BY <3>2
    <3>5. 2 <= Limit
      BY BrowseAssumption
    <3> QED BY <2>1, <3>3, <3>4, <3>5, ListStep
  <2>5. CASE TapZipGo(m, id)
    BY <2>1, <2>5, PlainStep DEF TapZipGo
  <2> QED BY <1>3, <2>2, <2>3, <2>4, <2>5
<1>4. CASE StoreChanges
  BY <1>4, BrowseAssumption
  DEF StoreChanges, IInv, ScreenTypes, MapHoldsLast, KeysRecent, NoEmptyPage
<1>5. CASE UNCHANGED vars
  BY <1>5 DEF vars, IInv, ScreenTypes, MapHoldsLast, KeysRecent, NoEmptyPage
<1> QED BY <1>1, <1>2, <1>3, <1>4, <1>5 DEF Next, Tap

\* The map holds exactly the last tokens, in order, whatever was tapped.
THEOREM TokensInOrder == Spec => []IInv
  BY InitIInv, StepIInv, PTL DEF Spec

\* Type correctness.
THEOREM BrowseTypeCorrect == Spec => []TypeOK
<1>1. IInv => TypeOK
  BY DEF IInv, ScreenTypes, MapHoldsLast, TypeOK, Token, Buttons, Message
<1> QED BY <1>1, TokensInOrder, PTL

\* The screen made last never has a dead button, for every page size and limit
\* that leave room for one screen, however many screens came before.
THEOREM NewestScreenWorks == Spec => []NewestScreenLive
<1>1. IInv => NewestScreenLive
  <2> SUFFICES ASSUME IInv, newest > 0, NEW id \in chat[newest].keys PROVE Live(id)
    BY DEF NewestScreenLive
  <2>1. id \in Nat \ {0} /\ issued < id + Limit /\ id <= issued
    BY DEF IInv, KeysRecent
  <2>2. /\ issued \in Nat /\ Limit \in Nat /\ Len(tokens) \in Nat
        /\ DOMAIN tokens = 1..Len(tokens)
        /\ Len(tokens) = IF issued < Limit THEN issued ELSE Limit
        /\ \A k \in 1..Len(tokens) : tokens[k].id = issued - Len(tokens) + k
    BY BrowseAssumption DEF IInv, MapHoldsLast
  <2> DEFINE k == id - issued + Len(tokens)
  <2>3. k \in 1..Len(tokens)
    BY <2>1, <2>2
  <2>4. tokens[k].id = id
    BY <2>1, <2>2, <2>3
  <2> QED BY <2>2, <2>3, <2>4 DEF Live
<1> QED BY <1>1, TokensInOrder, PTL

\* No page of a directory that has entries is shown empty, however old the
\* button that was tapped and whatever has happened to the directory since.
THEOREM PagesNotEmpty == Spec => []NoEmptyPage
<1>1. IInv => NoEmptyPage
  BY DEF IInv
<1> QED BY <1>1, TokensInOrder, PTL
================================================================================

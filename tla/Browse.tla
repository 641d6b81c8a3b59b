-------------------------------- MODULE Browse --------------------------------
(***************************************************************************)
(* The screens of the bot: handlers.py with its TokenMap.  As in the code, *)
(* the store is reached only through the callables of a Context, here      *)
(* constant operators of the state the store is in.                        *)
(*                                                                         *)
(* A button is a token, the token an entry (kind, rel, page) of the map.   *)
(* The store changes between two updates; so may the pages of a directory  *)
(* whose buttons are still on the screen.  Tapping a file changes nothing  *)
(* here: its delivery is the subject of SyncBot.                           *)
(***************************************************************************)
EXTENDS Integers, Sequences

CONSTANTS
  Trees,          \* states the store may be in
  Edits(_),       \* states one change of the store away from a state
  Rel,            \* bound: the paths whose buttons are tapped
  Needles,        \* keywords of /find
  lister(_, _),   \* list_dir(): a sequence of entries
  opens(_, _),    \* list_dir() and directory_stats() do not raise StoreError
  searcher(_, _), \* search(): a sequence of paths
  PageSize,       \* _PAGE_SIZE
  MaxResults,     \* search()'s limit
  Limit,          \* TokenMap's limit
  MaxScreens      \* bound: screens the bot makes

Path == Seq(Nat)
Entry == [rel : Path, is_dir : BOOLEAN]

\* The newest screen fits into the map: 25 buttons or 50 results of 500 tokens.
ASSUME BrowseAssumption ==
  /\ {PageSize, MaxResults, Limit, MaxScreens} \subseteq Nat /\ PageSize > 0
  /\ PageSize + 5 <= Limit /\ MaxResults <= Limit
  /\ <<>> \in Rel /\ Rel \subseteq Path
  /\ \A t \in Trees : Edits(t) \subseteq Trees
  /\ \A t \in Trees, rel \in Rel : lister(t, rel) \in Seq(Entry)
  /\ \A t \in Trees, n \in Needles :
       searcher(t, n) \in Seq(Path) /\ Len(searcher(t, n)) <= MaxResults

VARIABLES
  tree,     \* the state of the store
  tokens,   \* TokenMap._entries, the oldest first
  issued,   \* number of tokens issued; a token is the number of its issue
  chat,     \* the messages of the chat that have or had buttons
  newest,   \* the message that shows the last screen, 0 if that was not delivered
  screens   \* bound counter

vars == <<tree, tokens, issued, chat, newest, screens>>

Init ==
  /\ tree \in Trees
  /\ tokens = <<>> /\ issued = 0 /\ chat = <<>> /\ newest = 0 /\ screens = 0

--------------------------------------------------------------------------------
(* TokenMap *)

\* Mutant: popitem(last=True).
FirstOf(s, n) == SubSeq(s, 1, IF Len(s) > n THEN n ELSE Len(s))

\* put() for one token after the other: the map keeps the last ones.
LastOf(s, n) == SubSeq(s, IF Len(s) > n THEN Len(s) - n + 1 ELSE 1, Len(s))

Put(buttons) ==
  /\ tokens' = LastOf(tokens \o [k \in DOMAIN buttons |->
                                   [id |-> issued + k, button |-> buttons[k]]], Limit)
  /\ issued' = issued + Len(buttons)

Live(id) == \E k \in DOMAIN tokens : tokens[k].id = id
Get(id) == (CHOOSE e \in {tokens[k] : k \in DOMAIN tokens} : e.id = id).button

--------------------------------------------------------------------------------
(* Screens *)

Button(kind, rel, page) == [kind |-> kind, rel |-> rel, page |-> page]

Pages(t, rel) ==
  LET n == Len(lister(t, rel)) IN
  IF n = 0 THEN 1 ELSE (n + PageSize - 1) \div PageSize

\* Mutant: the page of the token is taken as it is.
ClampNot(t, rel, page) == page

\* A page that no longer exists becomes the last one.
Clamp(t, rel, page) ==
  IF page < Pages(t, rel) THEN page ELSE Pages(t, rel) - 1

\* entries[start : start + _PAGE_SIZE]
Page(t, rel, page) ==
  LET entries == lister(t, rel)
      end == (page + 1) * PageSize
  IN SubSeq(entries, page * PageSize + 1, IF Len(entries) < end THEN Len(entries) ELSE end)

\* Mutant: the last page cannot be reached.
PagerShort(t, rel, page) ==
  IF Pages(t, rel) <= 1 THEN <<>>
  ELSE (IF page > 0 THEN <<Button("dir", rel, page - 1)>> ELSE <<>>)
       \o <<Button("dir", rel, page)>>
       \o (IF page + 2 < Pages(t, rel) THEN <<Button("dir", rel, page + 1)>> ELSE <<>>)

\* _pager_buttons()
Pager(t, rel, page) ==
  IF Pages(t, rel) <= 1 THEN <<>>
  ELSE (IF page > 0 THEN <<Button("dir", rel, page - 1)>> ELSE <<>>)
       \o <<Button("dir", rel, page)>>
       \o (IF page + 1 < Pages(t, rel) THEN <<Button("dir", rel, page + 1)>> ELSE <<>>)

\* _entry_button()
EntryButton(e) == Button(IF e.is_dir THEN "dir" ELSE "file", e.rel, 0)

\* parent_rel(), and the folder itself, on every screen but the root's.
FolderButtons(rel) ==
  IF rel = <<>> THEN <<>>
  ELSE <<Button("dir", SubSeq(rel, 1, Len(rel) - 1), 0), Button("zipask", rel, 0)>>

\* The buttons of _browse() for page "page", which has been clamped.
DirButtons(t, rel, page) ==
  LET entries == Page(t, rel, page)
  IN FolderButtons(rel) \o [k \in DOMAIN entries |-> EntryButton(entries[k])]
     \o Pager(t, rel, page)

\* A message on the screen: its tokens, and what a listing showed of how much.
Screen(n, of, number) ==
  [keys |-> (issued + 1)..(issued + n), of |-> of, shown |-> number]

--------------------------------------------------------------------------------
(* handle() *)

\* Mutant: the message counts as the newest whether Telegram took it or not.
DeliverBlind(m, screen) ==
  \/ m = 0 /\ chat' \in {chat, Append(chat, screen)} /\ newest' = Len(chat) + 1
  \/ m > 0 /\ chat' \in {chat, [chat EXCEPT ![m] = screen]} /\ newest' = m

\* Deliverer._send_text(): a new message, or message m edited.  When Telegram
\* refuses, a notice without buttons follows and the chat keeps what it shows.
Deliver(m, screen) ==
  \/ m = 0 /\ chat' = Append(chat, screen) /\ newest' = Len(chat) + 1
  \/ m > 0 /\ chat' = [chat EXCEPT ![m] = screen] /\ newest' = m
  \/ chat' = chat /\ newest' = 0

Count == screens < MaxScreens /\ screens' = screens + 1

\* _browse()
BrowseTo(m, rel, page) ==
  LET at == Clamp(tree, rel, page)
      buttons == DirButtons(tree, rel, at)
  IN /\ Count /\ Put(buttons)
     /\ Deliver(m, Screen(Len(buttons), Len(lister(tree, rel)), Len(Page(tree, rel, at))))
     /\ UNCHANGED tree

\* /start and /ls
Start == BrowseTo(0, <<>>, 0)

\* /find
Find(needle) ==
  LET hits == searcher(tree, needle)
      buttons == [k \in DOMAIN hits |-> Button("file", hits[k], 0)]
  IN /\ Count /\ Put(buttons) /\ Deliver(0, Screen(Len(hits), Len(hits), Len(hits)))
     /\ UNCHANGED tree

\* The list has expired, or the folder behind the button is gone.
TapDead(m, id) ==
  /\ Live(id) => Get(id).kind \in {"dir", "zipask"} /\ ~opens(tree, Get(id).rel)
  /\ Count /\ Deliver(0, Screen(0, 0, 0))
  /\ UNCHANGED <<tree, tokens, issued>>

TapDir(m, id) ==
  /\ Live(id) /\ Get(id).kind = "dir" /\ Get(id).rel \in Rel
  /\ opens(tree, Get(id).rel)
  /\ BrowseTo(m, Get(id).rel, Get(id).page)

\* _confirm_folder()
TapZipAsk(m, id) ==
  /\ Live(id) /\ Get(id).kind = "zipask" /\ opens(tree, Get(id).rel)
  /\ Count
  /\ Put(<<Button("zipgo", Get(id).rel, 0), Button("dir", Get(id).rel, 0)>>)
  /\ Deliver(m, Screen(2, 0, 0))
  /\ UNCHANGED tree

\* SendFolder: the first progress text takes the buttons off the message.
TapZipGo(m, id) ==
  /\ Live(id) /\ Get(id).kind = "zipgo"
  /\ Count /\ Deliver(m, Screen(0, 0, 0))
  /\ UNCHANGED <<tree, tokens, issued>>

Tap == \E m \in DOMAIN chat : \E id \in chat[m].keys :
         TapDead(m, id) \/ TapDir(m, id) \/ TapZipAsk(m, id) \/ TapZipGo(m, id)

\* rsync and administrators change the store.
StoreChanges ==
  /\ tree' \in Edits(tree)
  /\ UNCHANGED <<tokens, issued, chat, newest, screens>>

Next == Start \/ (\E needle \in Needles : Find(needle)) \/ Tap \/ StoreChanges

Spec == Init /\ [][Next]_vars

--------------------------------------------------------------------------------
(* Properties *)

Kinds == {"dir", "file", "zipask", "zipgo"}

TypeOK ==
  /\ tree \in Trees /\ issued \in Nat /\ screens \in 0..MaxScreens
  /\ tokens \in Seq([id : Nat, button : [kind : Kinds, rel : Path, page : Nat]])
  /\ chat \in Seq([keys : SUBSET Nat, of : Nat, shown : Nat])
  /\ newest \in 0..Len(chat)

\* Every button of the screen made last works: a screen has at most 25 buttons,
\* a list of results 50, and the map evicts the oldest of 500.
NewestScreenLive == newest > 0 => \A id \in chat[newest].keys : Live(id)

\* A screen never shows an empty page of a directory that has entries, however
\* old the token was and however the directory has shrunk since.
NoEmptyPage == \A m \in DOMAIN chat : chat[m].of > 0 => chat[m].shown > 0
================================================================================

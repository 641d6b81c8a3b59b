---------------------------- MODULE SyncBot_proofs ----------------------------
(***************************************************************************)
(* Proofs about SyncBot: the loop implements the abstract UpdateQueue, so  *)
(* no restart, lost poll or failed call makes Telegram forget an update    *)
(* the bot has not handled; a tap starts one delivery at most; what the    *)
(* user sees of a delivery ends, agrees with the parts that were sent, and *)
(* leaves no archive behind.                                               *)
(***************************************************************************)
EXTENDS SyncBot, TLAPS

\* The part of TypeOK the argument needs.
LoopTypes ==
  /\ next \in Nat \ {0} /\ offset \in Nat /\ confirmed \in Nat
  /\ pc \in PCs

\* What lies behind the loop has been handled, the update in hand excepted.
BehindHandled ==
  pc # "off" => \A id \in 1..(next - 1) :
                  id \in handled \/ (id = next - 1 /\ ~Resting)

\* The offset lies between what Telegram has forgotten and what the batch has got to.
OffsetFollows ==
  /\ pc # "off" /\ offset > 0 => offset <= next /\ offset > confirmed
  /\ pc \notin {"off", "poll"} => next > confirmed

LoopInv == LoopTypes /\ BehindHandled /\ OffsetFollows /\ NothingLostOnRestart

\* Actions that neither move the loop nor return from _handle_one().
Inside == /\ pc \notin {"off", "poll", "loop"} /\ pc' \in PCs \ {"off", "poll", "loop"}
          /\ UNCHANGED <<next, offset, confirmed, handled>>

\* Actions that return from _handle_one().
Returns == /\ pc \notin {"off", "poll", "loop"} /\ Finish
           /\ UNCHANGED <<next, offset, confirmed>>

\* Actions of the world the loop does not notice.
Beside == UNCHANGED <<next, offset, confirmed, handled, pc>>

\* The invariant holds at the start.
LEMMA InitLoop == Init => LoopInv
  BY DEF Init, LoopInv, LoopTypes, BehindHandled, OffsetFollows, NothingLostOnRestart, PCs

\* Every action of the bot's thread between two polls is a step inside the handling
\* of an update or its return, apart from those that take the next entry of a batch.
LEMMA BotSteps == Bot => SkipEntry \/ TakeUpdate \/ BatchDone \/ Inside \/ Returns
  <1> SUFFICES ASSUME Bot PROVE SkipEntry \/ TakeUpdate \/ BatchDone \/ Inside \/ Returns
    OBVIOUS
  <1> USE DEF PCs, Inside, Returns, loopVars, worldVars, outsideVars
  <1>1. CASE Handle
    BY <1>1 DEF Handle
  <1>2. CASE Report \/ Answer \/ SendText
    BY <1>2 DEF Report, Answer, SendText
  <1>3. CASE StartFolder \/ StartFile \/ MakeTempDir \/ NoTempDir \/ EnoughSpace
    BY <1>3 DEF StartFolder, StartFile, MakeTempDir, NoTempDir, EnoughSpace, deliveryVars
  <1>4. CASE Missing \/ NoSpace \/ PackFails \/ AllSent \/ SendingFailed
    BY <1>4 DEF Missing, NoSpace, PackFails, AllSent, SendingFailed, EndWith
  <1>5. CASE Pack \/ PackRaises \/ Announce \/ StatFails
    BY <1>5 DEF Pack, PackRaises, Announce, StatFails, deliveryVars
  <1>6. CASE SendPart
    BY <1>6 DEF SendPart
  <1>7. CASE Notify \/ Complete \/ Clean
    BY <1>7 DEF Notify, Complete, Clean
  <1> QED BY <1>1, <1>2, <1>3, <1>4, <1>5, <1>6, <1>7 DEF Bot

\* Every step keeps the invariant.
LEMMA StepLoop == LoopInv /\ [Next]_vars => LoopInv'
  <1> SUFFICES ASSUME LoopInv, [Next]_vars PROVE LoopInv'
    OBVIOUS
  <1> USE DEF LoopInv, LoopTypes, BehindHandled, OffsetFollows, NothingLostOnRestart,
              Resting, PCs
  <1>1. CASE Boot
    BY <1>1 DEF Boot, worldVars
  <1>2. CASE Poll
    BY <1>2 DEF Poll
  <1>3. CASE PollFails
    BY <1>3 DEF PollFails, loopVars
  <1>4. CASE TakeUpdate
    BY <1>4 DEF TakeUpdate, NewUpdate, worldVars
  <1>5. CASE SkipEntry \/ BatchDone
    BY <1>5 DEF SkipEntry, BatchDone, worldVars, loopVars
  <1>6. CASE Inside
    BY <1>6 DEF Inside
  <1>7. CASE Returns
    BY <1>7 DEF Returns, Finish, cur
  <1>8. CASE Arrive \/ StoreChanges
    <2>1. Beside
      BY <1>8 DEF Arrive, StoreChanges, Beside, loopVars
    <2> QED BY <2>1 DEF Beside
  <1>9. CASE Crash
    BY <1>9 DEF Crash, loopVars
  <1>10. CASE UNCHANGED vars
    BY <1>10 DEF vars
  <1> QED BY <1>1, <1>2, <1>3, <1>4, <1>5, <1>6, <1>7, <1>8, <1>9, <1>10, BotSteps
          DEF Next

\* An update Telegram has forgotten was handled to the end, whatever kills, lost
\* polls and failed calls there were: _serve() raises the offset before it
\* handles an update, but sends it only when the batch is used up.
THEOREM RestartLosesNothing == Spec => []NothingLostOnRestart
  <1>1. LoopInv => NothingLostOnRestart
    BY DEF LoopInv
  <1> QED BY InitLoop, StepLoop, <1>1, PTL DEF Spec

--------------------------------------------------------------------------------
(* Types, and what the bot holds in hand *)

TokenKind == {"up", "dir", "zipask", "zipgo", "file"}
Acts == {"ignore", "internal", "none", "root", "found", "plain", "parent", "empty",
         "missing", "folder", "confirm", "sendFolder", "sendFile"}
\* The texts of the progress message.
Texts == {"checking", "missing", "noSpace", "packing", "packFailed", "sending", "done",
          "sendFailed"}

Update == [kind : UpdateKind, tok : Nat, msg : Nat]
Message == [text : Texts \cup Acts, keys : SUBSET Nat]

Sends == {"sendFolder", "sendFile"}
\* A delivery has begun and its last progress text is still to come.
Working == {"check", "room", "pack", "announce", "send", "failed", "complete"}
Underway == pc \in Working \/ (pc = "notify" /\ notice = "split")
\* It has a temporary directory.
Holding == \/ pc \in (Working \ {"check"}) \cup {"clean"}
           \/ pc = "notify" /\ notice \in Failures \cup {"split"}
AtRest == {"off", "poll", "loop"}

\* TypeOK, with the types of the elements and of the histories.
TypeInv ==
  /\ updates \in Seq(Update) /\ Len(updates) <= MaxUpdates
  /\ confirmed \in 0..Len(updates)
  /\ chat \in Seq(Message) /\ issued \in Seq(TokenKind)
  /\ there \in BOOLEAN /\ fresh \in 0..Len(issued)
  /\ offset \in 0..(Len(updates) + 1) /\ next \in 1..(Len(updates) + 1)
  /\ last \in 0..Len(updates)
  /\ pc \in PCs /\ act \in Acts
  /\ total \in 0..MaxParts /\ sent \in Nat /\ arrived \in Nat
  /\ notice \in Notices \cup {"none"} /\ told \subseteq Notices
  /\ lapse \in {"none", "refused", "crash"}
  /\ temps \in Nat /\ kept \in Nat /\ crashes \in 0..MaxCrashes
  /\ handled \subseteq DOMAIN updates
  /\ stuck \subseteq ((DOMAIN chat) \X Stuck)
  /\ started \in Seq(Nat)

\* A button that is on the screen has a token that was issued; a tap that has
\* arrived came from such a button.
TapInv ==
  /\ \A m \in DOMAIN chat : chat[m].keys \subseteq DOMAIN issued
  /\ \A id \in DOMAIN updates : updates[id].kind = "tap" =>
       updates[id].tok \in DOMAIN issued /\ updates[id].msg \in DOMAIN chat

\* While an update is in hand: what replaces a message or starts a delivery is a tap.
HandInv ==
  /\ pc \notin AtRest => next > 1
  /\ pc \notin AtRest => update.kind # "noDict"
  /\ pc = "handle" => act = "none"
  /\ pc \notin AtRest /\ act \in Edits \cup Sends => update.kind = "tap"
  /\ Underway \/ Holding => act \in Sends
  /\ pc = "notify" => notice \in Notices

\* Nothing is packed, sent or said yet.
Before == {"handle", "report", "answer", "run", "check", "room", "pack"}

\* The parts in the chat are accounted for (PartsAnnounced, of every place).
Accounted ==
  total > 1 /\ arrived > 0 =>
    \/ told \cap {"split", "partial"} # {}
    \/ lapse # "none"
    \/ arrived = 1 /\ "failed" \in told

\* Parts are counted from 0; a part whose answer did not come ends the sending; a
\* notice is chosen by what has been sent, and what is said of it stays true.
PartsInv ==
  /\ sent <= total /\ arrived <= total
  /\ pc \in Before => total = 0 /\ sent = 0 /\ arrived = 0
  /\ pc \in Before \cup {"announce", "send", "failed", "notify"} => told = {}
  /\ pc = "announce" => sent = 0 /\ arrived = 0
  /\ pc = "send" => arrived = sent
  /\ pc = "failed" => arrived \in {sent, sent + 1}
  /\ pc = "failed" /\ sent > 0 => sent < total
  /\ pc = "notify" /\ notice = "split" => arrived = total
  /\ pc = "notify" /\ notice = "partial" => sent \in 1..(total - 1)
  /\ pc = "notify" /\ notice = "failed" => sent = 0 /\ arrived <= 1
  /\ pc = "notify" /\ notice \notin {"split", "partial", "failed"} => total = 0
  /\ pc \notin {"send", "failed", "notify"} => Accounted
  /\ PartsAnnounced

\* One temporary directory at a time, and one for each kill that left one behind and
\* each removal that failed.
TempInv ==
  /\ temps <= crashes + kept + (IF Holding THEN 1 ELSE 0)
  /\ Holding => temps >= 1

BotInv == TypeInv /\ TapInv /\ HandInv /\ PartsInv /\ TempInv

\* Facts about sequences: one element replaced, some appended.
LEMMA SeqPut ==
  ASSUME NEW S, NEW s \in Seq(S), NEW i \in DOMAIN s, NEW e \in S
  PROVE  /\ [s EXCEPT ![i] = e] \in Seq(S)
         /\ DOMAIN [s EXCEPT ![i] = e] = DOMAIN s
         /\ Len([s EXCEPT ![i] = e]) = Len(s)
         /\ [s EXCEPT ![i] = e][i] = e
         /\ \A j \in DOMAIN s : j # i => [s EXCEPT ![i] = e][j] = s[j]
  OBVIOUS

LEMMA SeqAdd ==
  ASSUME NEW S, NEW s \in Seq(S), NEW e \in S
  PROVE  /\ Append(s, e) \in Seq(S)
         /\ Len(Append(s, e)) = Len(s) + 1 /\ Len(s) \in Nat
         /\ DOMAIN Append(s, e) = 1..(Len(s) + 1)
         /\ DOMAIN s = 1..Len(s)
         /\ Append(s, e)[Len(s) + 1] = e
         /\ \A j \in DOMAIN s : Append(s, e)[j] = s[j]
  OBVIOUS

LEMMA SeqJoin ==
  ASSUME NEW S, NEW s \in Seq(S), NEW t \in Seq(S)
  PROVE  /\ s \o t \in Seq(S)
         /\ Len(s \o t) = Len(s) + Len(t) /\ Len(s) \in Nat /\ Len(t) \in Nat
         /\ DOMAIN s = 1..Len(s) /\ DOMAIN (s \o t) = 1..Len(s \o t)
         /\ \A j \in DOMAIN s : (s \o t)[j] = s[j]
  OBVIOUS

\* The update in hand is one Telegram has, of a known form.
LEMMA InHand ==
  ASSUME TypeInv, HandInv, pc \notin AtRest
  PROVE  cur \in DOMAIN updates /\ update \in Update
  <1>1. Len(updates) \in Nat /\ DOMAIN updates = 1..Len(updates)
    BY DEF TypeInv
  <1>2. cur \in 1..Len(updates)
    BY <1>1 DEF TypeInv, HandInv, cur
  <1> QED BY <1>1, <1>2 DEF TypeInv, update

\* A tap in hand belongs to a message of the chat.
LEMMA TapInHand ==
  ASSUME TypeInv, TapInv, HandInv, pc \notin AtRest, act \in Edits \cup Sends
  PROVE  update.msg \in DOMAIN chat /\ update.tok \in DOMAIN issued
  BY InHand DEF TapInv, HandInv, update

\* What an edit of the progress message does, whether or not it fails.
LEMMA ProgressStep ==
  ASSUME TypeInv, TapInv, HandInv, pc \notin AtRest, NEW text \in Texts, Progress(text)
  PROVE  /\ chat' \in Seq(Message) /\ DOMAIN chat' = DOMAIN chat
         /\ \A m \in DOMAIN chat : chat'[m].keys \subseteq chat[m].keys
         /\ stuck' \subseteq (DOMAIN chat) \X Stuck
         /\ \A m \in DOMAIN chat : act # "sendFolder" \/ m # update.msg =>
              /\ chat'[m] = chat[m]
              /\ \A r \in Stuck : <<m, r>> \in stuck => <<m, r>> \in stuck'
         /\ act = "sendFolder" =>
              chat'[update.msg].text = text \/ <<update.msg, "edit">> \in stuck'
  <1> DEFINE new == [text |-> text, keys |-> {}]
  <1>1. CASE act # "sendFolder"
    BY <1>1 DEF Progress, TypeInv
  <1>2. CASE act = "sendFolder"
    <2>1. update.msg \in DOMAIN chat
      BY <1>2, TapInHand DEF Sends
    <2>2. PICK call \in Calls :
            IF Works(call)
              THEN /\ chat' = [chat EXCEPT ![update.msg] = new]
                   /\ stuck' = {x \in stuck : x[1] # update.msg}
              ELSE chat' = chat /\ stuck' = stuck \cup {<<update.msg, "edit">>}
      BY <1>2 DEF Progress
    <2>3. new \in Message /\ new.keys = {} /\ new.text = text
      BY DEF Message
    <2>4. stuck \subseteq (DOMAIN chat) \X Stuck /\ chat \in Seq(Message)
      BY DEF TypeInv
    <2> HIDE DEF new
    <2>5. CASE Works(call)
      <3>1. /\ chat' \in Seq(Message) /\ DOMAIN chat' = DOMAIN chat
            /\ chat'[update.msg] = new
            /\ \A m \in DOMAIN chat : m # update.msg => chat'[m] = chat[m]
        BY <2>1, <2>2, <2>3, <2>4, <2>5, SeqPut
      <3>2. \A m, r : <<m, r>> \in stuck /\ m # update.msg => <<m, r>> \in stuck'
        BY <2>2, <2>5
      <3>3. stuck' \subseteq (DOMAIN chat) \X Stuck
        BY <2>2, <2>4, <2>5
      <3> QED BY <1>2, <2>3, <3>1, <3>2, <3>3
    <2>6. CASE ~Works(call)
      BY <1>2, <2>1, <2>2, <2>4, <2>6 DEF Stuck
    <2> QED BY <2>5, <2>6
  <1> QED BY <1>1, <1>2

\* The screens handle() makes have known buttons.
LEMMA ButtonTypes ==
  ASSUME NEW screen
  PROVE  Buttons(screen) \in Seq(TokenKind)
  <1>1. /\ <<>> \in Seq(TokenKind) /\ <<"dir">> \in Seq(TokenKind)
        /\ <<"up", "zipask", "file">> \in Seq(TokenKind)
        /\ <<"file">> \in Seq(TokenKind) /\ <<"zipgo", "dir">> \in Seq(TokenKind)
    BY DEF TokenKind
  <1>2. Buttons(screen) \in {<<>>, <<"dir">>, <<"up", "zipask", "file">>, <<"file">>,
                             <<"zipgo", "dir">>}
    BY DEF Buttons
  <1> QED BY <1>1, <1>2

\* handle() returns one of the known actions; one that replaces a message or
\* starts a delivery only for a tap on a live token.
LEMMA Decides ==
  ASSUME TypeInv, TapInv, HandInv, pc \notin AtRest
  PROVE  /\ Decision(update) \in Acts
         /\ Decision(update) \in Edits \cup Sends => update.kind = "tap"
         /\ Decision(update) \in Sends => Live(update.tok)
         /\ Decision(update) = "missing" => update.kind = "tap"
         /\ Decision(update) = "internal" => update.kind \in {"broken", "noId"}
         /\ Decision(update) = "ignore" => update.kind = "other"
  <1>1. update.kind \in UpdateKind \ {"noDict"} /\ cur \in DOMAIN updates
    BY InHand DEF Update, HandInv
  <1>2. CASE update.kind = "tap"
    <2>1. update.tok \in DOMAIN issued
      BY <1>1, <1>2 DEF TapInv, update
    <2>2. issued[update.tok] \in TokenKind
      BY <2>1 DEF TypeInv
    <2>3. /\ TapDecision(update.tok) \in Acts \ {"internal", "ignore"}
          /\ TapDecision(update.tok) \in Sends => Live(update.tok)
      BY <2>2 DEF TapDecision, TokenKind, Acts, Sends
    <2>4. Decision(update) = TapDecision(update.tok)
      BY <1>2 DEF Decision
    <2> QED BY <1>2, <2>3, <2>4
  <1>3. CASE update.kind # "tap"
    <2>1. Decision(update) \in Acts \ ((Edits \cup Sends) \cup {"missing"})
      BY <1>1, <1>3 DEF Decision, UpdateKind, Unnumbered, Acts, Edits, Sends
    <2>2. /\ Decision(update) = "internal" => update.kind \in {"broken", "noId"}
          /\ Decision(update) = "ignore" => update.kind = "other"
      BY <1>1, <1>3 DEF Decision, UpdateKind, Unnumbered
    <2> QED BY <2>1, <2>2
  <1> QED BY <1>2, <1>3

\* The actions that begin, report on or end a delivery by way of _progress().
Reporting == StartFolder \/ Missing \/ NoSpace \/ EnoughSpace \/ PackFails
             \/ Announce \/ Complete \/ SendingFailed

LEMMA Reports ==
  ASSUME TypeInv, TapInv, HandInv, Reporting
  PROVE  /\ pc \notin AtRest /\ pc' \in PCs \ (AtRest \cup {"handle", "answer", "run"})
         /\ \E text \in Texts : Progress(text) /\ (Underway' \/ text \notin InProgress)
         /\ UNCHANGED <<updates, confirmed, there, crashes, issued, fresh, offset,
                        next, last, act, total, sent, arrived, told, lapse, temps, kept,
                        handled>>
         /\ (StartFolder /\ started' = Append(started, cur)) \/ started' = started
         /\ notice' = notice \/ notice' \in Failures \cup {"missing"}
  <1> USE DEF AtRest, PCs, outsideVars, worldVars, tokenVars, loopVars, deliveryVars,
              partVars, tempVars, noticeVars, Working, Underway, Texts, InProgress,
              Failures, EndWith
  <1>1. CASE StartFolder
    BY <1>1 DEF StartFolder
  <1>2. CASE Missing
    BY <1>2 DEF Missing
  <1>3. CASE NoSpace
    BY <1>3 DEF NoSpace
  <1>4. CASE EnoughSpace
    BY <1>4 DEF EnoughSpace
  <1>5. CASE PackFails
    BY <1>5 DEF PackFails
  <1>6. CASE Announce
    BY <1>6 DEF Announce
  <1>7. CASE Complete
    BY <1>7 DEF Complete
  <1>8. CASE SendingFailed
    BY <1>8 DEF SendingFailed
  <1> QED BY <1>1, <1>2, <1>3, <1>4, <1>5, <1>6, <1>7, <1>8 DEF Reporting

\* The actions that change nothing of the chat, the tokens and the store.
Plain == Report \/ Answer \/ StartFile \/ MakeTempDir \/ Pack \/ SendPart \/ StatFails
         \/ AllSent \/ Notify \/ Clean
Raising == NoTempDir \/ PackRaises

\* What a screen's sending does to the chat.
LEMMA Sending ==
  ASSUME TypeInv, TapInv, HandInv, SendText
  PROVE  /\ chat' \in Seq(Message) /\ DOMAIN chat \subseteq DOMAIN chat'
         /\ \A m \in DOMAIN chat' : chat'[m].keys \subseteq DOMAIN issued
         /\ \A m \in DOMAIN chat : chat'[m] = chat[m] \/ chat'[m].text = act
         /\ \A m \in DOMAIN chat' \ DOMAIN chat : chat'[m].text = act
  <1> DEFINE screen == [text |-> act, keys |-> NewKeys(act)]
  <1>1. /\ act \in Screens /\ pc \notin AtRest
        /\ chat' \in {chat, IF act \in Edits THEN [chat EXCEPT ![update.msg] = screen]
                                              ELSE Append(chat, screen)}
    BY DEF SendText, AtRest
  <1>2. NewKeys(act) \subseteq DOMAIN issued /\ NewKeys(act) \in SUBSET Nat
    BY DEF NewKeys, TypeInv
  <1>3. screen \in Message /\ screen.text = act /\ screen.keys \subseteq DOMAIN issued
    <2>1. act \in Acts
      BY DEF TypeInv
    <2> QED BY <1>2, <2>1 DEF Message
  <1>4. chat \in Seq(Message)
    BY DEF TypeInv
  <1>5. \A m \in DOMAIN chat : chat[m].keys \subseteq DOMAIN issued
    BY DEF TapInv
  <1> HIDE DEF screen
  <1>6. CASE chat' = chat
    BY <1>4, <1>5, <1>6
  <1>7. CASE chat' # chat /\ act \in Edits
    <2>1. update.msg \in DOMAIN chat
      BY <1>1, <1>7, TapInHand
    <2>2. chat' = [chat EXCEPT ![update.msg] = screen]
      BY <1>1, <1>7
    <2>3. /\ chat' \in Seq(Message) /\ DOMAIN chat' = DOMAIN chat
          /\ chat'[update.msg] = screen
          /\ \A m \in DOMAIN chat : m # update.msg => chat'[m] = chat[m]
      BY <1>3, <1>4, <2>1, <2>2, SeqPut
    <2> QED BY <1>3, <1>5, <2>3
  <1>8. CASE chat' # chat /\ act \notin Edits
    <2>1. chat' = Append(chat, screen)
      BY <1>1, <1>8
    <2>2. /\ chat' \in Seq(Message) /\ Len(chat) \in Nat
          /\ DOMAIN chat' = 1..(Len(chat) + 1) /\ DOMAIN chat = 1..Len(chat)
          /\ chat'[Len(chat) + 1] = screen
          /\ \A m \in DOMAIN chat : chat'[m] = chat[m]
      BY <1>3, <1>4, <2>1, SeqAdd
    <2>3. \A m \in DOMAIN chat' : m \in DOMAIN chat \/ m = Len(chat) + 1
      BY <2>2
    <2> QED BY <1>3, <1>5, <2>2, <2>3
  <1> QED BY <1>6, <1>7, <1>8

\* Every step keeps the types.
LEMMA TypeStep == BotInv /\ [Next]_vars => TypeInv'
  <1> SUFFICES ASSUME BotInv, [Next]_vars PROVE TypeInv'
    OBVIOUS
  <1> USE DEF BotInv, Stuck, PCs, Acts, partVars, tempVars, noticeVars
  <1>1. TypeInv /\ TapInv /\ HandInv /\ PartsInv /\ TempInv
    OBVIOUS
  <1>2. /\ updates \in Seq(Update) /\ Len(updates) \in Nat /\ DOMAIN updates = 1..Len(updates)
        /\ issued \in Seq(TokenKind) /\ Len(issued) \in Nat /\ started \in Seq(Nat)
    BY DEF TypeInv
  <1>3. pc \notin AtRest => cur \in DOMAIN updates /\ cur \in Nat /\ handled \cup {cur} \subseteq DOMAIN updates
    BY <1>2, InHand DEF TypeInv
  <1>4. \A x \in Seq(Nat), n \in Nat : Append(x, n) \in Seq(Nat)
    OBVIOUS
  <1>5. pc \notin AtRest /\ started' \in {started, Append(started, cur)} => started' \in Seq(Nat)
    BY <1>2, <1>3, <1>4
  <1>6. {Limit, MaxParts, MaxUpdates, MaxCrashes} \subseteq Nat /\ MaxParts > 0
    BY BotAssumption
  <1>7. CASE Boot \/ BatchDone \/ SkipEntry \/ StoreChanges \/ TakeUpdate
    <2>1. CASE Boot
      BY <1>2, <2>1 DEF Boot, TypeInv, worldVars, deliveryVars
    <2>2. CASE BatchDone
      BY <1>2, <2>2 DEF BatchDone, TypeInv, worldVars, tokenVars, loopVars, deliveryVars
    <2>3. CASE StoreChanges
      BY <1>2, <2>3 DEF StoreChanges, TypeInv, tokenVars, loopVars, deliveryVars
    <2>4. CASE TakeUpdate
      <3>1. next' \in 1..(Len(updates) + 1) /\ offset' \in 0..(Len(updates) + 1)
        BY <1>2, <2>4 DEF TakeUpdate, TypeInv
      <3> QED BY <1>2, <1>6, <2>4, <3>1 DEF TakeUpdate, NewUpdate, TypeInv, worldVars, tokenVars
    <2>5. CASE SkipEntry
      <3>1. next \in 1..Len(updates) /\ next' = next + 1 /\ handled' = handled \cup {next}
        BY <1>2, <2>5 DEF SkipEntry, TypeInv
      <3>2. next' \in 1..(Len(updates) + 1) /\ handled' \subseteq DOMAIN updates
        BY <1>2, <3>1 DEF TypeInv
      <3> QED BY <1>2, <2>5, <3>2 DEF SkipEntry, TypeInv, worldVars, tokenVars, deliveryVars
    <2> QED BY <1>7, <2>1, <2>2, <2>3, <2>4, <2>5
  <1>8. CASE Poll \/ PollFails
    <2>1. confirmed' \in 0..Len(updates)
      BY <1>2, <1>8 DEF Poll, PollFails, TypeInv
    <2>2. CASE Poll
      BY <1>2, <2>1, <2>2 DEF Poll, TypeInv, tokenVars, deliveryVars
    <2>3. CASE PollFails
      BY <1>2, <2>1, <2>3 DEF PollFails, TypeInv, tokenVars, loopVars, deliveryVars
    <2> QED BY <1>8, <2>2, <2>3
  <1>9. CASE Crash
    <2>1. pc \notin AtRest /\ act = "sendFolder" => update.msg \in DOMAIN chat
      BY TapInHand DEF Sends
    <2>2. /\ pc' = "off" /\ crashes' = crashes + 1 /\ crashes < MaxCrashes
          /\ lapse' \in {lapse, "crash"} /\ chat' = chat
          /\ stuck' = stuck \/ (pc \notin AtRest /\ act = "sendFolder"
                                /\ stuck' = stuck \cup {<<update.msg, "crash">>})
      BY <1>9 DEF Crash, AtRest
    <2>3. UNCHANGED <<updates, confirmed, there, issued, fresh, offset, next, last, act,
                      total, sent, arrived, temps, kept, started, notice, told, handled>>
      BY <1>9 DEF Crash, tokenVars, loopVars, deliveryVars
    <2>4. stuck' \subseteq (DOMAIN chat) \X Stuck
      BY <2>1, <2>2 DEF TypeInv
    <2>5. crashes' \in 0..MaxCrashes
      BY <1>6, <2>2 DEF TypeInv
    <2>6. lapse' \in {"none", "refused", "crash"}
      BY <2>2 DEF TypeInv
    <2> QED BY <1>2, <2>2, <2>3, <2>4, <2>5, <2>6 DEF TypeInv
  <1>10. CASE Handle
    <2> DEFINE d == Decision(update)
    <2>1. pc \notin AtRest /\ d \in Acts
      BY <1>10, Decides DEF Handle, AtRest
    <2>2. issued' \in Seq(TokenKind) /\ Len(issued) <= Len(issued')
      BY <1>2, <1>10, ButtonTypes, SeqJoin DEF Handle
    <2>3. /\ act' = d /\ pc' \in PCs
          /\ handled' \in {handled, handled \cup {cur}}
      BY <1>10 DEF Handle, Finish
    <2> HIDE DEF d
    <2>4. UNCHANGED <<updates, confirmed, there, crashes, chat, fresh, offset, next, last,
                      total, sent, arrived, notice, told, lapse, temps, kept, started, stuck>>
      BY <1>10 DEF Handle, worldVars, loopVars, deliveryVars
    <2>5. fresh \in 0..Len(issued') /\ Len(issued') \in Nat
      BY <1>2, <2>2 DEF TypeInv
    <2>6. handled' \subseteq DOMAIN updates
      BY <1>3, <2>1, <2>3 DEF TypeInv
    <2> QED BY <2>1, <2>2, <2>3, <2>4, <2>5, <2>6 DEF TypeInv
  <1>11. CASE Plain
    <2>1. /\ pc \notin AtRest /\ pc' \in PCs
          /\ handled' \in {handled, handled \cup {cur}}
          /\ started' \in {started, Append(started, cur)}
          /\ UNCHANGED <<updates, confirmed, chat, issued, there, fresh, offset, next, last, act,
                         crashes, stuck>>
      BY <1>11 DEF Plain, Report, Answer, StartFile, MakeTempDir, Pack, SendPart, StatFails,
         AllSent, Notify, Clean, AtRest, Finish, outsideVars, worldVars, tokenVars, loopVars,
         deliveryVars
    <2>2. /\ total' \in 0..MaxParts /\ sent' \in Nat /\ arrived' \in Nat
          /\ temps' \in Nat /\ kept' \in Nat
      <3>1. /\ total \in 0..MaxParts /\ sent \in Nat /\ arrived \in Nat
            /\ temps \in Nat /\ kept \in Nat
        BY DEF TypeInv
      <3>2. CASE Report \/ Answer \/ AllSent \/ Notify
        BY <3>1, <3>2 DEF Report, Answer, AllSent, Notify, deliveryVars
      <3>3. CASE StartFile \/ MakeTempDir \/ StatFails
        BY <3>1, <3>3 DEF StartFile, MakeTempDir, StatFails, deliveryVars
      <3>4. CASE Pack
        BY <1>6, <3>1, <3>4 DEF Pack
      <3>5. CASE SendPart
        BY <3>1, <3>5 DEF SendPart
      <3>6. CASE Clean
        BY <3>1, <3>6 DEF Clean, RemoveDir, TempInv, Holding
      <3> QED BY <1>11, <3>2, <3>3, <3>4, <3>5, <3>6 DEF Plain
    <2>3. /\ notice' \in Notices \cup {"none"} /\ told' \subseteq Notices
          /\ lapse' \in {"none", "refused", "crash"}
      <3>1. /\ notice \in Notices \cup {"none"} /\ told \subseteq Notices
            /\ lapse \in {"none", "refused", "crash"}
        BY DEF TypeInv
      <3>2. CASE Report \/ AllSent
        BY <3>1, <3>2 DEF Report, AllSent, Notices
      <3>3. CASE Notify
        <4>1. notice \in Notices
          BY <3>3 DEF Notify, HandInv
        <4> QED BY <3>1, <3>3, <4>1 DEF Notify
      <3>4. CASE ~(Report \/ AllSent \/ Notify)
        BY <1>11, <3>1, <3>4 DEF Plain, Answer, StartFile, MakeTempDir, Pack, SendPart, StatFails, Clean
      <3> QED BY <3>2, <3>3, <3>4
    <2> QED BY <1>3, <1>5, <2>1, <2>2, <2>3 DEF TypeInv
  <1>12. CASE Raising
    <2>1. pc \notin AtRest /\ act \in Sends
      BY <1>12 DEF Raising, NoTempDir, PackRaises, AtRest, HandInv, Underway, Working
    <2>2. update.msg \in DOMAIN chat
      BY <2>1, TapInHand
    <2>3. temps' \in Nat /\ kept' \in Nat
      <3>1. temps \in Nat /\ kept \in Nat
        BY DEF TypeInv
      <3>2. CASE NoTempDir
        BY <3>1, <3>2 DEF NoTempDir, deliveryVars
      <3>3. CASE PackRaises
        <4>1. pc = "pack" /\ RemoveDir
          BY <3>3 DEF PackRaises
        <4>2. temps >= 1
          BY <4>1 DEF TempInv, Holding, Working
        <4> QED BY <3>1, <4>1, <4>2 DEF RemoveDir
      <3> QED BY <1>12, <3>2, <3>3 DEF Raising
    <2>4. stuck' \subseteq (DOMAIN chat) \X Stuck /\ pc' = "report"
      BY <1>12, <2>2 DEF Raising, NoTempDir, PackRaises, TypeInv
    <2> QED BY <1>12, <2>3, <2>4 DEF Raising, NoTempDir, PackRaises, outsideVars, worldVars,
       tokenVars, loopVars, deliveryVars, TypeInv
  <1>13. CASE SendText
    <2>1. /\ pc \notin AtRest /\ pc' \in PCs
          /\ notice' \in Notices \cup {"none"}
          /\ handled' \in {handled, handled \cup {cur}}
      BY <1>13 DEF SendText, AtRest, Finish, TypeInv, Notices
    <2>2. chat' \in Seq(Message) /\ DOMAIN chat \subseteq DOMAIN chat'
      BY <1>13, Sending
    <2>3. stuck' = stuck /\ stuck' \subseteq (DOMAIN chat') \X Stuck
      BY <1>13, <2>2 DEF SendText, TypeInv
    <2> QED BY <1>3, <1>13, <2>1, <2>2, <2>3 DEF SendText, worldVars, tokenVars, loopVars,
       deliveryVars, TypeInv
  <1>14. CASE Reporting
    <2>1. /\ pc \notin AtRest
          /\ UNCHANGED <<updates, confirmed, there, crashes, issued, fresh, offset,
                         next, last, act, total, sent, arrived, told, lapse, temps, kept,
                         handled>>
          /\ pc' \in PCs /\ started' \in {started, Append(started, cur)}
          /\ notice' = notice \/ notice' \in Failures \cup {"missing"}
      BY <1>14, Reports
    <2>2. chat' \in Seq(Message) /\ stuck' \subseteq (DOMAIN chat') \X Stuck
      <3>1. PICK text \in Texts : Progress(text)
        BY <1>14, Reports
      <3> QED BY <2>1, <3>1, ProgressStep
    <2>3. notice' \in Notices \cup {"none"}
      BY <2>1 DEF Notices, TypeInv
    <2> QED BY <1>3, <1>5, <2>1, <2>2, <2>3 DEF TypeInv
  <1>15. CASE Arrive
    <2>1. PICK u \in Update : updates' = Append(updates, u)
      <3>1. CASE \E kind \in Kinds \ {"tap"} :
                   updates' = Append(updates, [kind |-> kind, tok |-> 0, msg |-> 0])
        BY <3>1, BotAssumption DEF Update
      <3>2. CASE \E m \in DOMAIN chat : \E t \in chat[m].keys :
                   updates' = Append(updates, [kind |-> "tap", tok |-> t, msg |-> m])
        <4>1. PICK m \in DOMAIN chat, t \in Nat :
                t \in chat[m].keys /\ updates' = Append(updates, [kind |-> "tap", tok |-> t, msg |-> m])
          BY <1>2, <3>2 DEF TapInv
        <4>2. m \in Nat
          BY DEF TypeInv
        <4>3. [kind |-> "tap", tok |-> t, msg |-> m] \in Update
          BY <4>2 DEF Update, UpdateKind
        <4> QED BY <4>1, <4>3
      <3> QED BY <1>15, <3>1, <3>2 DEF Arrive
    <2>2. updates' \in Seq(Update) /\ Len(updates') = Len(updates) + 1
          /\ DOMAIN updates \subseteq DOMAIN updates'
      BY <1>2, <2>1, SeqAdd
    <2>3. Len(updates) < MaxUpdates
      BY <1>15 DEF Arrive
    <2>4. UNCHANGED <<confirmed, there, crashes, chat, issued, fresh, offset, next, last, pc, act,
                      total, sent, arrived, temps, kept, started, notice, told, lapse, handled,
                      stuck>>
      BY <1>15 DEF Arrive, tokenVars, loopVars, deliveryVars
    <2>5. Len(updates') \in Nat /\ Len(updates') <= MaxUpdates
      BY <1>2, <1>6, <2>2, <2>3
    <2>6. /\ confirmed' \in 0..Len(updates') /\ offset' \in 0..(Len(updates') + 1)
          /\ next' \in 1..(Len(updates') + 1) /\ last' \in 0..Len(updates')
      BY <1>2, <2>2, <2>4 DEF TypeInv
    <2> QED BY <2>2, <2>4, <2>5, <2>6 DEF TypeInv
  <1>16. CASE UNCHANGED vars
    BY <1>16 DEF vars, TypeInv
  <1> QED BY <1>7, <1>8, <1>9, <1>10, <1>11, <1>12, <1>13, <1>14, <1>15, <1>16
          DEF Next, Bot, Plain, Raising, Reporting

\* Which steps touch the chat, the tokens and the updates.
LEMMA Apart ==
  ASSUME BotInv, [Next]_vars
  PROVE  /\ updates' = updates \/ Arrive
         /\ issued' = issued \/ Handle
         /\ chat' = chat \/ SendText \/ Reporting
  <1> USE DEF worldVars, tokenVars, outsideVars
  <1>1. CASE Boot \/ Poll \/ PollFails \/ SkipEntry \/ TakeUpdate \/ BatchDone
    BY <1>1 DEF Boot, Poll, PollFails, SkipEntry, TakeUpdate, NewUpdate, BatchDone
  <1>2. CASE Plain
    BY <1>2 DEF Plain, Report, Answer, StartFile, MakeTempDir, Pack, SendPart, StatFails,
       AllSent, Notify, Clean
  <1>3. CASE Handle \/ SendText \/ Raising
    BY <1>3 DEF Handle, SendText, Raising, NoTempDir, PackRaises
  <1>4. CASE Reporting
    BY <1>4, Reports DEF BotInv
  <1>5. CASE Arrive \/ StoreChanges \/ Crash \/ UNCHANGED vars
    BY <1>5 DEF Arrive, StoreChanges, Crash, vars
  <1> QED BY <1>1, <1>2, <1>3, <1>4, <1>5 DEF Next, Bot, Plain, Raising, Reporting

\* Every step keeps buttons and taps tied to tokens.
LEMMA TapStep == BotInv /\ [Next]_vars => TapInv'
  <1> SUFFICES ASSUME BotInv, [Next]_vars PROVE TapInv'
    OBVIOUS
  <1>1. TypeInv /\ TapInv /\ HandInv
    BY DEF BotInv
  <1>2. /\ updates \in Seq(Update) /\ issued \in Seq(TokenKind) /\ chat \in Seq(Message)
    BY <1>1 DEF TypeInv
  <1>3. DOMAIN issued \subseteq DOMAIN issued'
    <2>1. CASE Handle
      BY <1>2, <2>1, ButtonTypes, SeqJoin DEF Handle
    <2> QED BY <2>1, Apart
  <1>4. CASE Reporting
    <2>1. PICK text \in Texts : Progress(text)
      BY <1>1, <1>4, Reports
    <2>2. pc \notin AtRest /\ UNCHANGED <<updates, issued>>
      BY <1>1, <1>4, Reports
    <2>3. DOMAIN chat' = DOMAIN chat /\ \A m \in DOMAIN chat : chat'[m].keys \subseteq chat[m].keys
      BY <1>1, <2>1, <2>2, ProgressStep
    <2> QED BY <1>1, <2>2, <2>3 DEF TapInv
  <1>5. CASE SendText
    <2>1. UNCHANGED <<updates, issued>>
      BY <1>5 DEF SendText, worldVars, tokenVars
    <2>2. DOMAIN chat \subseteq DOMAIN chat' /\ \A m \in DOMAIN chat' : chat'[m].keys \subseteq DOMAIN issued
      BY <1>1, <1>5, Sending
    <2> QED BY <1>1, <2>1, <2>2 DEF TapInv
  <1>6. CASE Arrive
    <2>1. UNCHANGED <<chat, issued>>
      BY <1>6 DEF Arrive, tokenVars
    <2>2. CASE \E kind \in Kinds \ {"tap"} :
                 updates' = Append(updates, [kind |-> kind, tok |-> 0, msg |-> 0])
      <3>1. PICK kind \in Kinds \ {"tap"} :
              updates' = Append(updates, [kind |-> kind, tok |-> 0, msg |-> 0])
        BY <2>2
      <3> DEFINE u == [kind |-> kind, tok |-> 0, msg |-> 0]
      <3>2. u \in Update /\ u.kind # "tap"
        BY BotAssumption DEF Update
      <3> HIDE DEF u
      <3>3. /\ DOMAIN updates' = 1..(Len(updates) + 1) /\ DOMAIN updates = 1..Len(updates)
            /\ updates'[Len(updates) + 1] = u /\ Len(updates) \in Nat
            /\ \A id \in DOMAIN updates : updates'[id] = updates[id]
        BY <1>2, <3>1, <3>2, SeqAdd DEF u
      <3>4. \A id \in DOMAIN updates' : id \in DOMAIN updates \/ id = Len(updates) + 1
        BY <3>3
      <3> QED BY <1>1, <2>1, <3>2, <3>3, <3>4 DEF TapInv
    <2>3. CASE \E m \in DOMAIN chat : \E t \in chat[m].keys :
                 updates' = Append(updates, [kind |-> "tap", tok |-> t, msg |-> m])
      <3>1. PICK m \in DOMAIN chat, t \in DOMAIN issued :
              updates' = Append(updates, [kind |-> "tap", tok |-> t, msg |-> m])
        BY <1>1, <2>3 DEF TapInv
      <3> DEFINE u == [kind |-> "tap", tok |-> t, msg |-> m]
      <3>2. u \in Update /\ u.tok = t /\ u.msg = m
        BY <1>2 DEF Update, UpdateKind
      <3> HIDE DEF u
      <3>3. /\ DOMAIN updates' = 1..(Len(updates) + 1) /\ DOMAIN updates = 1..Len(updates)
            /\ updates'[Len(updates) + 1] = u /\ Len(updates) \in Nat
            /\ \A id \in DOMAIN updates : updates'[id] = updates[id]
        BY <1>2, <3>1, <3>2, SeqAdd DEF u
      <3>4. \A id \in DOMAIN updates' : id \in DOMAIN updates \/ id = Len(updates) + 1
        BY <3>3
      <3> QED BY <1>1, <2>1, <3>1, <3>2, <3>3, <3>4 DEF TapInv
    <2> QED BY <1>6, <2>2, <2>3 DEF Arrive
  <1>7. CASE UNCHANGED <<updates, chat>>
    BY <1>1, <1>3, <1>7 DEF TapInv
  <1> QED BY <1>4, <1>5, <1>6, <1>7, Apart

\* An update that has arrived stays what it is.
LEMMA UpdatesStay ==
  ASSUME BotInv, [Next]_vars, NEW id \in DOMAIN updates
  PROVE  id \in DOMAIN updates' /\ updates'[id] = updates[id]
  <1>1. updates \in Seq(Update)
    BY DEF BotInv, TypeInv
  <1>2. CASE Arrive
    <2>1. PICK u : updates' = Append(updates, u)
      BY <1>2 DEF Arrive
    <2> QED BY <1>1, <2>1
  <1> QED BY <1>2, Apart

\* Every step keeps what is known of the update in hand.
LEMMA HandStep == BotInv /\ [Next]_vars => HandInv'
  <1> SUFFICES ASSUME BotInv, [Next]_vars PROVE HandInv'
    OBVIOUS
  <1>1. TypeInv /\ TapInv /\ HandInv
    BY DEF BotInv
  <1> USE DEF AtRest, Underway, Holding, Working
  <1>2. pc \notin AtRest /\ next' = next => update' = update
    BY <1>1, InHand, UpdatesStay DEF update, cur
  <1>3. CASE Boot \/ Poll \/ PollFails \/ SkipEntry \/ BatchDone \/ Crash
    <2>1. pc' \in AtRest
      BY <1>3 DEF Boot, Poll, PollFails, SkipEntry, BatchDone, Crash
    <2> QED BY <2>1 DEF HandInv
  <1>4. CASE TakeUpdate
    <2>1. /\ next' = next + 1 /\ act' = "none" /\ pc' = "handle" /\ updates' = updates
          /\ next \in Nat /\ next > 0 /\ updates[next].kind # "noDict"
      BY <1>1, <1>4 DEF TakeUpdate, NewUpdate, TypeInv, worldVars
    <2>2. update' = updates[next]
      BY <2>1 DEF update, cur
    <2> QED BY <2>1, <2>2 DEF HandInv, Edits, Sends
  <1>5. CASE Handle
    <2>1. /\ next' = next /\ pc = "handle" /\ pc' \in {"loop", "report", "run", "answer"}
          /\ act' = Decision(update)
      BY <1>5 DEF Handle, Finish, loopVars
    <2>2. act' \in Edits \cup Sends => update.kind = "tap"
      BY <1>1, <2>1, Decides
    <2> QED BY <1>1, <1>2, <2>1, <2>2 DEF HandInv
  <1>6. CASE Plain \/ Raising \/ SendText
    <2>1. /\ next' = next /\ pc \notin AtRest /\ act' = act /\ pc' # "handle"
          /\ (Underway \/ Holding)' => Underway \/ Holding \/ act \in Sends
          /\ pc' = "notify" => notice' \in Notices
      <3>1. CASE Report \/ Answer \/ StartFile \/ SendText
        BY <3>1 DEF Report, Answer, StartFile, SendText, Finish, outsideVars, loopVars, Sends,
           Notices, Failures
      <3>2. CASE MakeTempDir \/ Pack \/ SendPart \/ StatFails \/ Raising
        BY <3>2 DEF MakeTempDir, Pack, SendPart, StatFails, Raising, NoTempDir, PackRaises,
           outsideVars, loopVars
      <3>3. CASE AllSent \/ Notify \/ Clean
        BY <3>3 DEF AllSent, Notify, Clean, Finish, outsideVars, loopVars, Notices
      <3> QED BY <1>6, <3>1, <3>2, <3>3 DEF Plain
    <2> QED BY <1>1, <1>2, <2>1 DEF HandInv
  <1>7. CASE Reporting
    <2>1. /\ next' = next /\ pc \notin AtRest /\ act' = act /\ pc' # "handle"
      BY <1>1, <1>7, Reports
    <2>2. act \in Sends
      BY <1>1, <1>7 DEF HandInv, Reporting, StartFolder, Missing, NoSpace, EnoughSpace,
         PackFails, Announce, Complete, SendingFailed, Sends
    <2>3. pc' = "notify" => notice' \in Notices
      BY <1>7 DEF Reporting, StartFolder, Missing, NoSpace, EnoughSpace,
         PackFails, Announce, Complete, SendingFailed, EndWith, Notices, Failures
    <2> QED BY <1>1, <1>2, <2>1, <2>2, <2>3 DEF HandInv
  <1>8. CASE Arrive \/ StoreChanges \/ UNCHANGED vars
    <2>1. UNCHANGED <<next, pc, act, notice>>
      BY <1>8 DEF Arrive, StoreChanges, vars, loopVars, noticeVars
    <2> QED BY <1>1, <1>2, <2>1 DEF HandInv
  <1> QED BY <1>3, <1>4, <1>5, <1>6, <1>7, <1>8 DEF Next, Bot, Plain, Raising, Reporting

\* Every step keeps the count of the parts and the truth of the notices.
LEMMA PartsStep == BotInv /\ [Next]_vars => PartsInv'
  <1> SUFFICES ASSUME BotInv, [Next]_vars PROVE PartsInv'
    OBVIOUS
  <1>1. TypeInv /\ HandInv /\ PartsInv
    BY DEF BotInv
  <1>2. total \in Nat /\ sent \in Nat /\ arrived \in Nat
    BY <1>1 DEF TypeInv
  <1> USE DEF PartsAnnounced, Accounted, Resting, Before, deliveryVars, partVars, noticeVars
  <1>3. CASE Boot
    BY <1>1, <1>2, <1>3 DEF Boot, PartsInv
  <1>4. CASE Poll \/ PollFails \/ SkipEntry \/ BatchDone
    BY <1>1, <1>2, <1>4 DEF Poll, PollFails, SkipEntry, BatchDone, PartsInv
  <1>5. CASE TakeUpdate
    BY <1>5 DEF TakeUpdate, NewUpdate, PartsInv
  <1>6. CASE Handle
    BY <1>1, <1>2, <1>6 DEF Handle, Finish, PartsInv
  <1>7. CASE Report \/ Answer
    BY <1>1, <1>2, <1>7 DEF Report, Answer, Finish, PartsInv
  <1>8. CASE SendText
    BY <1>1, <1>2, <1>8 DEF SendText, Finish, PartsInv
  <1>9. CASE StartFolder \/ StartFile
    BY <1>1, <1>2, <1>9 DEF StartFolder, StartFile, PartsInv
  <1>10. CASE Missing \/ NoSpace \/ PackFails
    BY <1>1, <1>2, <1>10 DEF Missing, NoSpace, PackFails, EndWith, PartsInv
  <1>11. CASE MakeTempDir \/ NoTempDir \/ EnoughSpace
    BY <1>1, <1>2, <1>11 DEF MakeTempDir, NoTempDir, EnoughSpace, PartsInv
  <1>12. CASE Pack \/ PackRaises \/ StatFails
    BY <1>1, <1>2, <1>12, BotAssumption DEF Pack, PackRaises, StatFails, PartsInv
  <1>13. CASE Announce
    BY <1>1, <1>2, <1>13 DEF Announce, PartsInv
  <1>14. CASE SendPart
    <2>1. /\ pc = "send" /\ sent < total /\ UNCHANGED <<total, told, lapse, notice>>
          /\ \/ pc' = "send" /\ sent' = sent + 1 /\ arrived' = arrived + 1
             \/ pc' = "failed" /\ sent' = sent /\ arrived' \in {arrived, arrived + 1}
      BY <1>14 DEF SendPart, Works
    <2> QED BY <1>1, <1>2, <2>1 DEF PartsInv
  <1>15. CASE AllSent
    <2>1. /\ pc = "send" /\ sent = total /\ UNCHANGED <<total, sent, arrived, told, lapse>>
          /\ \/ total > 1 /\ notice' = "split" /\ pc' = "notify"
             \/ ~(total > 1) /\ notice' = notice /\ pc' = "complete"
      BY <1>15 DEF AllSent
    <2> QED BY <1>1, <1>2, <2>1 DEF PartsInv
  <1>16. CASE SendingFailed
    <2>1. /\ pc = "failed" /\ pc' = "notify" /\ UNCHANGED <<total, sent, arrived, told, lapse>>
          /\ notice' = IF sent > 0 THEN "partial" ELSE "failed"
      BY <1>16 DEF SendingFailed, EndWith
    <2> QED BY <1>1, <1>2, <2>1 DEF PartsInv
  <1>17. CASE Arrive \/ StoreChanges \/ UNCHANGED vars
    BY <1>1, <1>17 DEF Arrive, StoreChanges, vars, PartsInv
  <1>18. CASE Crash
    <2>1. /\ pc' = "off" /\ UNCHANGED <<total, sent, arrived, told>>
          /\ lapse' = IF pc \in {"send", "failed", "notify"} THEN "crash" ELSE lapse
      BY <1>18 DEF Crash
    <2> QED BY <1>1, <1>2, <2>1 DEF PartsInv
  <1>19. CASE Notify
    <2>1. /\ pc = "notify" /\ pc' \in {"complete", "clean", "loop"}
          /\ UNCHANGED <<total, sent, arrived>>
          /\ \/ told' = {notice} /\ lapse' = lapse
             \/ told' = {} /\ lapse' = "refused"
      BY <1>1, <1>19 DEF Notify, Finish, PartsInv
    <2>2. /\ sent <= total /\ arrived <= total
          /\ notice = "split" => arrived = total
          /\ notice = "partial" => sent \in 1..(total - 1)
          /\ notice = "failed" => sent = 0 /\ arrived <= 1
          /\ notice \notin {"split", "partial", "failed"} => total = 0
      BY <1>1, <2>1 DEF PartsInv
    <2>3. PartsAnnounced' /\ Accounted'
      <3>1. CASE told' = {notice}
        <4>1. CASE notice = "split" \/ notice = "partial"
          <5>1. told' \cap {"split", "partial"} # {}
            BY <3>1, <4>1
          <5> QED BY <1>2, <2>1, <2>2, <3>1, <4>1, <5>1
        <4>2. CASE notice = "failed"
          BY <1>2, <2>1, <2>2, <3>1, <4>2
        <4>3. CASE notice \notin {"split", "partial", "failed"}
          BY <1>2, <2>1, <2>2, <3>1, <4>3
        <4> QED BY <4>1, <4>2, <4>3
      <3>2. CASE told' = {} /\ lapse' = "refused"
        BY <1>2, <2>1, <2>2, <3>2
      <3> QED BY <2>1, <3>1, <3>2
    <2> QED BY <2>1, <2>2, <2>3 DEF PartsInv
  <1>20. CASE Complete \/ Clean
    <2>1. /\ pc \in {"complete", "clean"} /\ pc' \in {"clean", "loop"}
          /\ UNCHANGED <<total, sent, arrived, told, lapse>>
      BY <1>20 DEF Complete, Clean, Finish
    <2> QED BY <1>1, <1>2, <2>1 DEF PartsInv
  <1> QED BY <1>3, <1>4, <1>5, <1>6, <1>7, <1>8, <1>9, <1>10, <1>11, <1>12, <1>13, <1>14,
             <1>15, <1>16, <1>17, <1>18, <1>19, <1>20 DEF Next, Bot

\* Every step keeps the account of the temporary directories.
LEMMA TempStep == BotInv /\ [Next]_vars => TempInv'
  <1> SUFFICES ASSUME BotInv, [Next]_vars PROVE TempInv'
    OBVIOUS
  <1>1. TypeInv /\ TempInv /\ temps \in Nat /\ crashes \in Nat /\ kept \in Nat
    BY DEF BotInv, TypeInv
  <1> USE DEF Holding, Working, deliveryVars, tempVars, Failures
  <1>2. CASE \/ Boot \/ Poll \/ PollFails \/ SkipEntry \/ BatchDone \/ TakeUpdate \/ Handle
             \/ Report \/ Answer \/ SendText \/ StartFolder \/ StartFile \/ NoTempDir \/ Missing
    <2>1. UNCHANGED <<temps, kept, crashes>> /\ ~Holding /\ ~Holding'
      <3>1. CASE Boot \/ Poll \/ PollFails \/ SkipEntry \/ BatchDone \/ TakeUpdate \/ Handle
        BY <3>1 DEF Boot, Poll, PollFails, SkipEntry, BatchDone, TakeUpdate, NewUpdate, Handle,
           Finish, worldVars
      <3>2. CASE Report \/ Answer \/ SendText
        BY <3>2 DEF Report, Answer, SendText, Finish, worldVars
      <3>3. CASE StartFolder \/ StartFile \/ NoTempDir \/ Missing
        BY <3>3 DEF StartFolder, StartFile, NoTempDir, Missing, EndWith, outsideVars, worldVars
      <3> QED BY <1>2, <3>1, <3>2, <3>3
    <2> QED BY <1>1, <2>1 DEF TempInv
  <1>3. CASE MakeTempDir
    BY <1>1, <1>3 DEF MakeTempDir, TempInv, outsideVars, worldVars
  <1>4. CASE \/ NoSpace \/ PackFails \/ AllSent \/ SendingFailed \/ EnoughSpace \/ Pack
             \/ Announce \/ SendPart \/ StatFails \/ Complete
    <2>1. UNCHANGED <<temps, kept, crashes>> /\ Holding /\ Holding'
      BY <1>4 DEF NoSpace, PackFails, AllSent, SendingFailed, EnoughSpace, Pack, Announce,
         SendPart, StatFails, Complete, EndWith, outsideVars, worldVars
    <2> QED BY <1>1, <2>1 DEF TempInv
  <1>5. CASE Clean \/ PackRaises
    <2>1. RemoveDir /\ crashes' = crashes /\ Holding /\ ~Holding'
      BY <1>5 DEF Clean, PackRaises, Finish, outsideVars, worldVars
    <2>2. /\ temps <= crashes + kept + 1 /\ temps >= 1
      BY <2>1, <1>1 DEF TempInv
    <2>3. temps' <= crashes' + kept'
      BY <1>1, <2>1, <2>2 DEF RemoveDir
    <2>4. crashes' + kept' + 0 = crashes' + kept'
      BY <1>1, <2>1 DEF RemoveDir
    <2> QED BY <2>1, <2>3, <2>4 DEF TempInv
  <1>6. CASE Notify
    <2>1. UNCHANGED <<temps, kept, crashes>> /\ (Holding <=> Holding')
      BY <1>6 DEF Notify, Finish, worldVars
    <2> QED BY <1>1, <2>1 DEF TempInv
  <1>7. CASE Arrive \/ StoreChanges \/ UNCHANGED vars
    BY <1>1, <1>7 DEF Arrive, StoreChanges, vars, noticeVars, TempInv
  <1>8. CASE Crash
    BY <1>1, <1>8 DEF Crash, TempInv
  <1> QED BY <1>2, <1>3, <1>4, <1>5, <1>6, <1>7, <1>8 DEF Next, Bot

\* The invariant holds at the start.
LEMMA InitBot == Init => BotInv
  <1> SUFFICES ASSUME Init PROVE BotInv
    OBVIOUS
  <1>1. TypeInv
    BY BotAssumption DEF Init, TypeInv, PCs, Acts
  <1>2. TapInv /\ HandInv /\ PartsInv /\ TempInv
    BY DEF Init, TapInv, HandInv, PartsInv, TempInv, PartsAnnounced, Accounted, Before,
       Resting, AtRest, Holding, Underway, Working
  <1> QED BY <1>1, <1>2 DEF BotInv

\* What the bot has in hand, whatever the calls, the store and the kills do.
THEOREM BotInvariant == Spec => []BotInv
  <1>1. BotInv /\ [Next]_vars => BotInv'
    BY TypeStep, TapStep, HandStep, PartsStep, TempStep DEF BotInv
  <1> QED BY InitBot, <1>1, PTL DEF Spec

\* Every variable of the bot keeps its type.
THEOREM BotTypeCorrect == Spec => []TypeOK
  <1>1. BotInv => TypeOK
    <2> SUFFICES ASSUME BotInv PROVE TypeOK
      OBVIOUS
    <2>1. TypeInv /\ TapInv /\ PartsInv /\ TempInv
      BY DEF BotInv
    <2>2. sent \in 0..MaxParts /\ arrived \in 0..MaxParts
      BY <2>1, BotAssumption DEF TypeInv, PartsInv
    <2>3. temps \in 0..(MaxCrashes + 1 + kept)
      BY <2>1, BotAssumption DEF TypeInv, TempInv
    <2> QED BY <2>1, <2>2, <2>3 DEF TypeInv, TapInv, TypeOK
  <1> QED BY BotInvariant, <1>1, PTL

\* What the user is told about the parts agrees with the parts in the chat, for any
\* number of parts, any pattern of failing calls and a kill at any point; and parts
\* lie in the chat without a word only if the notice was refused or the bot killed.
THEOREM PartsToldRight == Spec => []PartsAnnounced
  <1>1. BotInv => PartsAnnounced
    BY DEF BotInv, PartsInv
  <1> QED BY BotInvariant, <1>1, PTL

\* Temporary archives outlive only a kill or a removal that fails, one each, however
\* the delivery ends.
THEOREM TempsRemoved == Spec => []NoTempLeft
  <1>1. BotInv => NoTempLeft
    BY DEF BotInv, TypeInv, TempInv, NoTempLeft, Resting, Holding, Working
  <1> QED BY BotInvariant, <1>1, PTL

--------------------------------------------------------------------------------
(* The progress message *)

\* A message that claims that work is under way is the one being delivered for, or
\* is known to be stuck.
SettleInv ==
  \A m \in DOMAIN chat : chat[m].text \in InProgress =>
    \/ \E r \in Stuck : <<m, r>> \in stuck
    \/ Underway /\ act = "sendFolder" /\ m = update.msg

\* Every step keeps it.
LEMMA SettleStep == BotInv /\ SettleInv /\ [Next]_vars => SettleInv'
  <1> SUFFICES ASSUME BotInv, SettleInv, [Next]_vars PROVE SettleInv'
    OBVIOUS
  <1>1. TypeInv /\ TapInv /\ HandInv
    BY DEF BotInv
  <1>2. pc \notin AtRest /\ next' = next => update' = update
    BY <1>1, InHand, UpdatesStay DEF update, cur
  <1>3. CASE SendText
    <2>1. /\ \A m \in DOMAIN chat : chat'[m] = chat[m] \/ chat'[m].text = act
          /\ \A m \in DOMAIN chat' \ DOMAIN chat : chat'[m].text = act
      BY <1>1, <1>3, Sending
    <2>2. act \notin InProgress /\ ~Underway /\ stuck' = stuck
      BY <1>3 DEF SendText, Screens, Edits, InProgress, Underway, Working
    <2> QED BY <2>1, <2>2 DEF SettleInv
  <1>4. CASE Reporting
    <2>1. PICK text \in Texts : Progress(text) /\ (Underway' \/ text \notin InProgress)
      BY <1>1, <1>4, Reports
    <2>2. pc \notin AtRest /\ next' = next /\ act' = act
      BY <1>1, <1>4, Reports
    <2>3. DOMAIN chat' = DOMAIN chat
      BY <1>1, <2>1, <2>2, ProgressStep
    <2> SUFFICES ASSUME NEW m \in DOMAIN chat, chat'[m].text \in InProgress
                 PROVE  \/ \E r \in Stuck : <<m, r>> \in stuck'
                        \/ Underway' /\ act = "sendFolder" /\ m = update.msg
      BY <1>2, <2>2, <2>3 DEF SettleInv
    <2>4. CASE act # "sendFolder" \/ m # update.msg
      <3>1. chat'[m] = chat[m] /\ \A r \in Stuck : <<m, r>> \in stuck => <<m, r>> \in stuck'
        BY <1>1, <2>1, <2>2, <2>4, ProgressStep
      <3> QED BY <2>4, <3>1 DEF SettleInv
    <2>5. CASE act = "sendFolder" /\ m = update.msg /\ ~Underway'
      <3>1. chat'[m].text = text \/ <<m, "edit">> \in stuck'
        BY <1>1, <2>1, <2>2, <2>5, ProgressStep
      <3> QED BY <2>1, <2>5, <3>1 DEF Stuck
    <2> QED BY <2>4, <2>5
  <1>5. CASE Raising
    <2>1. /\ UNCHANGED <<chat, next>> /\ stuck \subseteq stuck'
          /\ \E r \in Stuck : <<update.msg, r>> \in stuck'
      BY <1>5 DEF Raising, NoTempDir, PackRaises, outsideVars, loopVars, Stuck
    <2> QED BY <2>1 DEF SettleInv
  <1>6. CASE Crash
    <2>1. /\ chat' = chat /\ stuck \subseteq stuck'
          /\ Underway /\ act = "sendFolder" => <<update.msg, "crash">> \in stuck'
      BY <1>6 DEF Crash, Underway, Working
    <2> QED BY <2>1 DEF SettleInv, Stuck
  <1>7. CASE Boot \/ Poll \/ PollFails \/ SkipEntry \/ TakeUpdate \/ BatchDone \/ Handle
    <2>1. UNCHANGED <<chat, stuck>> /\ ~Underway
      BY <1>7 DEF Boot, Poll, PollFails, SkipEntry, TakeUpdate, NewUpdate, BatchDone, Handle,
         Underway, Working
    <2> QED BY <2>1 DEF SettleInv
  <1>8. CASE Plain
    <2>1. UNCHANGED <<chat, stuck, act, next>> /\ pc \notin AtRest
      BY <1>8 DEF Plain, Report, Answer, StartFile, MakeTempDir, Pack, SendPart, StatFails,
         AllSent, Notify, Clean, outsideVars, loopVars, AtRest
    <2>2. Underway => Underway'
      <3> USE DEF Underway, Working
      <3>1. CASE Report \/ Answer \/ StartFile \/ Clean
        BY <3>1 DEF Report, Answer, StartFile, Clean
      <3>2. CASE MakeTempDir \/ Pack \/ SendPart \/ StatFails
        BY <3>2 DEF MakeTempDir, Pack, SendPart, StatFails
      <3>3. CASE AllSent \/ Notify
        BY <3>3 DEF AllSent, Notify, Finish, Failures
      <3> QED BY <1>8, <3>1, <3>2, <3>3 DEF Plain
    <2> QED BY <1>2, <2>1, <2>2 DEF SettleInv
  <1>9. CASE Arrive \/ StoreChanges \/ UNCHANGED vars
    <2>1. UNCHANGED <<chat, stuck, act, next, pc, notice>>
      BY <1>9 DEF Arrive, StoreChanges, vars, loopVars, noticeVars
    <2>2. Underway => pc \notin AtRest /\ Underway'
      BY <2>1 DEF Underway, Working, AtRest
    <2> QED BY <1>2, <2>1, <2>2 DEF SettleInv
  <1> QED BY <1>3, <1>4, <1>5, <1>6, <1>7, <1>8, <1>9 DEF Next, Bot, Plain, Raising, Reporting

\* No message claims work for ever, unless one of four things went wrong, however
\* calls fail, the store changes and the process is killed.
THEOREM ProgressEnds == Spec => []ProgressSettles
  <1>1. Init => SettleInv
    BY DEF Init, SettleInv
  <1>2. BotInv /\ SettleInv => ProgressSettles
    BY DEF SettleInv, ProgressSettles, Settled, Resting, Underway, Working
  <1> QED BY BotInvariant, SettleStep, <1>1, <1>2, PTL DEF Spec

--------------------------------------------------------------------------------
(* The loop and the queue of Telegram *)

\* The update in hand is one Telegram still has; the offset is behind it, unless it
\* has no number.
AheadInv ==
  /\ pc \notin AtRest => cur > confirmed
  /\ pc \notin AtRest /\ update.kind # "noId" => offset = next

QueueInv == BotInv /\ LoopInv /\ AheadInv

\* Every step keeps the distance.
LEMMA AheadStep == QueueInv /\ [Next]_vars => AheadInv'
  <1> SUFFICES ASSUME QueueInv, [Next]_vars PROVE AheadInv'
    OBVIOUS
  <1> USE DEF AtRest
  <1>1. /\ AheadInv /\ OffsetFollows /\ BotInv /\ TypeInv /\ HandInv
        /\ next \in Nat /\ confirmed \in Nat /\ offset \in Nat
    BY DEF QueueInv, BotInv, LoopInv, LoopTypes
  <1>2. pc \notin AtRest /\ next' = next => cur' = cur /\ update' = update
    BY <1>1, InHand, UpdatesStay DEF update, cur
  <1>3. CASE Boot \/ Poll \/ PollFails \/ SkipEntry \/ BatchDone \/ Returns \/ Crash
    <2>1. pc' \in AtRest
      BY <1>3 DEF Boot, Poll, PollFails, SkipEntry, BatchDone, Returns, Finish, Crash
    <2> QED BY <2>1 DEF AheadInv
  <1>4. CASE TakeUpdate
    <2>1. /\ pc = "loop" /\ next' = next + 1 /\ updates' = updates /\ confirmed' = confirmed
          /\ offset' = IF updates[next].kind = "noId" THEN offset ELSE next + 1
      BY <1>4 DEF TakeUpdate, NewUpdate, worldVars
    <2>2. cur' = next /\ update' = updates[next]
      BY <1>1, <2>1 DEF cur, update
    <2>3. next > confirmed
      BY <1>1, <2>1 DEF OffsetFollows
    <2> QED BY <2>1, <2>2, <2>3 DEF AheadInv
  <1>5. CASE Inside
    BY <1>1, <1>2, <1>5 DEF Inside, AheadInv
  <1>6. CASE Arrive \/ StoreChanges \/ UNCHANGED vars
    <2>1. UNCHANGED <<next, offset, confirmed, pc>>
      BY <1>6 DEF Arrive, StoreChanges, vars, loopVars
    <2> QED BY <1>1, <1>2, <2>1 DEF AheadInv
  <1> QED BY <1>3, <1>4, <1>5, <1>6, BotSteps DEF Next

\* QueueInv holds at the start and is kept by every step.
LEMMA InitQueue == Init => QueueInv
  <1>1. Init => AheadInv
    BY DEF Init, AheadInv, AtRest
  <1> QED BY <1>1, InitBot, InitLoop DEF QueueInv

LEMMA QueueKept == QueueInv /\ [Next]_vars => QueueInv'
  BY AheadStep, StepLoop, TypeStep, TapStep, HandStep, PartsStep, TempStep
     DEF QueueInv, BotInv

\* A step of the bot is a step of the queue, or the queue does not notice it.
LEMMA QueueStep == QueueInv /\ [Next]_vars => [Queue!Next]_Queue!queueVars
  <1> SUFFICES ASSUME QueueInv, [Next]_vars PROVE [Queue!Next]_Queue!queueVars
    OBVIOUS
  <1>1. /\ AheadInv /\ OffsetFollows /\ BehindHandled /\ TypeInv /\ HandInv
        /\ next \in Nat \ {0} /\ confirmed \in Nat /\ offset \in Nat
    BY DEF QueueInv, LoopInv, LoopTypes, BotInv
  <1>2. Len(updates) \in Nat /\ next <= Len(updates) + 1
    BY <1>1 DEF TypeInv
  <1> USE DEF Queue!queueVars
  <1>6. CASE Arrive
    <2>1. UNCHANGED <<handled, confirmed>>
      BY <1>6 DEF Arrive
    <2>2. PICK u : updates' = Append(updates, u)
      BY <1>6 DEF Arrive
    <2>3. updates \in Seq(Update)
      BY <1>1 DEF TypeInv
    <2>4. Len(updates') = Len(updates) + 1
      BY <2>2, <2>3
    <2> QED BY <2>1, <2>4 DEF Queue!Receive, Queue!Next
  <1>3. CASE Boot \/ TakeUpdate \/ BatchDone \/ Inside \/ Crash \/ StoreChanges \/ UNCHANGED vars
    <2>1. UNCHANGED <<handled, confirmed>>
      BY <1>3 DEF Boot, TakeUpdate, NewUpdate, BatchDone, Inside, Crash, StoreChanges, vars,
         worldVars
    <2>2. updates' = updates \/ Arrive
      BY Apart DEF QueueInv
    <2> QED BY <1>6, <2>1, <2>2
  <1>4. CASE Poll \/ PollFails
    <2>1. UNCHANGED <<updates, handled>> /\ pc = "poll"
      BY <1>4 DEF Poll, PollFails
    <2>2. confirmed' = confirmed \/ (offset > 0 /\ confirmed' = offset - 1)
      BY <1>4, <2>1 DEF Poll, PollFails
    <2>3. CASE offset > 0 /\ confirmed' = offset - 1 /\ confirmed' # confirmed
      <3>1. offset <= next /\ offset > confirmed
        BY <1>1, <2>1, <2>3 DEF OffsetFollows
      <3>2. \A earlier \in 1..confirmed' : earlier \in handled
        BY <1>1, <2>1, <2>3, <3>1 DEF BehindHandled, Resting
      <3>4. confirmed' \in (confirmed + 1)..Len(updates) /\ confirmed' \in 1..Len(updates)
        BY <1>1, <1>2, <2>3, <3>1
      <3>3. Queue!Forget(confirmed')
        BY <2>1, <3>2, <3>4 DEF Queue!Forget
      <3> QED BY <3>3, <3>4 DEF Queue!Next
    <2> QED BY <2>1, <2>2, <2>3
  <1>5. CASE Returns
    <2>1. /\ UNCHANGED confirmed /\ handled' = handled \cup {cur}
          /\ pc \notin {"off", "poll", "loop"} /\ ~Resting
      BY <1>5 DEF Returns, Finish, Resting
    <2>2. cur \in (confirmed + 1)..Len(updates) /\ cur \in 1..Len(updates)
      <3>1. next > 1
        BY <1>1, <2>1 DEF HandInv, AtRest
      <3>2. cur > confirmed
        BY <1>1, <2>1 DEF AheadInv, AtRest
      <3> QED BY <1>1, <1>2, <3>1, <3>2 DEF cur
    <2>3. \A earlier \in 1..(cur - 1) : earlier \in handled
      BY <1>1, <2>1 DEF BehindHandled, cur
    <2>4. updates' = updates
      BY <1>5, Apart DEF QueueInv, Returns, Finish, Arrive
    <2>5. Queue!Serve(cur)
      BY <2>1, <2>2, <2>3, <2>4 DEF Queue!Serve
    <2> QED BY <2>2, <2>5 DEF Queue!Next
  <1>7. CASE SkipEntry
    <2>1. /\ pc = "loop" /\ next <= last /\ handled' = handled \cup {next}
          /\ UNCHANGED <<confirmed, updates>> /\ Resting
      BY <1>7 DEF SkipEntry, worldVars, Resting
    <2>2. next \in (confirmed + 1)..Len(updates) /\ next \in 1..Len(updates)
      BY <1>1, <1>2, <2>1 DEF OffsetFollows, TypeInv
    <2>3. \A earlier \in 1..(next - 1) : earlier \in handled
      BY <1>1, <2>1 DEF BehindHandled
    <2>4. Queue!Serve(next)
      BY <2>1, <2>2, <2>3 DEF Queue!Serve
    <2> QED BY <2>2, <2>4 DEF Queue!Next
  <1> QED BY <1>3, <1>4, <1>5, <1>6, <1>7, BotSteps DEF Next

\* The loop implements the abstract queue: batches, offsets, lost polls, failing
\* calls and kills never make it serve out of order or forget too early.
THEOREM LoopServesTheQueue == Spec => ServesTheQueue
  <1>1. Init => Queue!Init
    BY DEF Init, Queue!Init
  <1> QED BY InitQueue, QueueKept, QueueStep, <1>1, PTL DEF Spec, ServesTheQueue, Queue!Spec

--------------------------------------------------------------------------------
(* A tap is acted on once *)

Tok(k) == updates[started[k]].tok

\* A tap that has started a delivery lies below the offset, or its token died with
\* the process that issued it.
OnceInv ==
  /\ \A k \in DOMAIN started : started[k] \in DOMAIN updates
  /\ \A k \in DOMAIN started : updates[started[k]].kind = "tap"
  /\ pc # "off" => \A k \in DOMAIN started : Tok(k) <= fresh \/ started[k] < offset
  /\ pc \in {"handle", "answer", "run"} =>
       \A k \in DOMAIN started : Tok(k) <= fresh \/ started[k] < cur
  /\ pc \in {"answer", "run"} /\ act \in Sends => update.tok > fresh
  /\ OncePerTap

\* Every step keeps it.
LEMMA OnceStep == QueueInv /\ OnceInv /\ [Next]_vars => OnceInv'
  <1> SUFFICES ASSUME QueueInv, OnceInv, [Next]_vars PROVE OnceInv'
    OBVIOUS
  <1>1. /\ BotInv /\ AheadInv /\ OffsetFollows /\ TypeInv /\ HandInv /\ TapInv
        /\ next \in Nat \ {0} /\ confirmed \in Nat /\ offset \in Nat /\ fresh \in Nat
        /\ started \in Seq(Nat) /\ cur \in Nat
    BY DEF QueueInv, LoopInv, LoopTypes, BotInv, TypeInv, cur
  <1>2. \A id \in DOMAIN updates : id \in DOMAIN updates' /\ updates'[id] = updates[id]
    BY <1>1, UpdatesStay
  <1>3. \A k \in DOMAIN started : started[k] \in Nat /\ Tok(k) \in DOMAIN issued
    BY <1>1 DEF OnceInv, TapInv, Tok
  <1>4. \A k \in DOMAIN started : started' = started => Tok(k)' = Tok(k)
    BY <1>2 DEF OnceInv, Tok
  <1>5. DOMAIN issued = 1..Len(issued) /\ Len(issued) \in Nat
    BY <1>1 DEF TypeInv
  <1>6. started' = started => /\ \A k \in DOMAIN started : started[k] \in DOMAIN updates'
                              /\ \A k \in DOMAIN started : updates'[started[k]].kind = "tap"
                              /\ OncePerTap'
    BY <1>2 DEF OnceInv, OncePerTap
  <1>7. CASE Boot
    <2>1. started' = started /\ fresh' = Len(issued) /\ pc' = "poll"
      BY <1>7 DEF Boot, deliveryVars
    <2> QED BY <1>3, <1>4, <1>5, <1>6, <2>1 DEF OnceInv
  <1>9. CASE TakeUpdate
    <2>1. /\ started' = started /\ fresh' = fresh /\ pc = "loop" /\ pc' = "handle"
          /\ cur' = next /\ offset' \in {offset, next + 1}
      BY <1>1, <1>9 DEF TakeUpdate, NewUpdate, tokenVars, cur
    <2>2. \A k \in DOMAIN started : Tok(k) <= fresh \/ started[k] < offset
      BY <2>1 DEF OnceInv
    <2>3. offset <= next
      BY <1>1, <2>1 DEF OffsetFollows
    <2> HIDE DEF Tok
    <2>4. \A k \in DOMAIN started : Tok(k) <= fresh \/ started[k] < next
      BY <1>1, <1>3, <2>2, <2>3
    <2>5. \A k \in DOMAIN started : Tok(k) <= fresh \/ started[k] < offset'
      BY <1>1, <1>3, <2>1, <2>2, <2>3
    <2> QED BY <1>4, <1>6, <2>1, <2>4, <2>5 DEF OnceInv
  <1>10. CASE Handle
    <2>1. /\ started' = started /\ fresh' = fresh /\ offset' = offset /\ cur' = cur
          /\ pc = "handle" /\ act' = Decision(update) /\ updates' = updates
      BY <1>10 DEF Handle, deliveryVars, loopVars, worldVars, cur
    <2>2. act' \in Sends => update.tok > fresh
      <3>1. Decision(update) \in Sends => Live(update.tok)
        BY <1>1, <2>1, Decides DEF AtRest
      <3> QED BY <2>1, <3>1 DEF Live
    <2>3. update' = update
      BY <2>1 DEF update
    <2>4. \A k \in DOMAIN started : Tok(k) <= fresh \/ started[k] < offset
      BY <2>1 DEF OnceInv
    <2>5. \A k \in DOMAIN started : Tok(k) <= fresh \/ started[k] < cur
      BY <2>1 DEF OnceInv
    <2> QED BY <1>4, <1>6, <2>1, <2>2, <2>3, <2>4, <2>5 DEF OnceInv
  <1>11. CASE StartFolder \/ StartFile
    <2>1. /\ started' = Append(started, cur) /\ pc = "run" /\ act \in Sends /\ pc' = "check"
          /\ UNCHANGED <<updates, fresh, offset>>
      BY <1>11 DEF StartFolder, StartFile, Sends, outsideVars, worldVars, tokenVars, loopVars
    <2>2. cur \in DOMAIN updates /\ cur \in Nat /\ cur < offset /\ update.kind = "tap"
      BY <1>1, <2>1, InHand DEF AtRest, cur, HandInv, TypeInv, AheadInv
    <2>3. \A k \in DOMAIN started : started[k] # cur
      <3>1. \A k \in DOMAIN started : Tok(k) <= fresh \/ started[k] < cur
        BY <2>1 DEF OnceInv
      <3>2. update.tok > fresh /\ update.tok \in DOMAIN issued
        BY <1>1, <2>1, <2>2 DEF OnceInv, TapInv, update
      <3>3. \A k \in DOMAIN started : started[k] = cur => Tok(k) = update.tok
        BY DEF Tok, update
      <3> HIDE DEF Tok, cur, update
      <3> QED BY <1>1, <1>3, <1>5, <2>2, <3>1, <3>2, <3>3
    <2>4. /\ DOMAIN started' = 1..(Len(started) + 1) /\ DOMAIN started = 1..Len(started)
          /\ started'[Len(started) + 1] = cur /\ Len(started) \in Nat
          /\ \A k \in DOMAIN started : started'[k] = started[k]
      BY <1>1, <2>1, <2>2, SeqAdd
    <2>5. \A k \in DOMAIN started' : k \in DOMAIN started \/ k = Len(started) + 1
      BY <2>4
    <2>6. OncePerTap'
      BY <2>3, <2>4, <2>5 DEF OnceInv, OncePerTap
    <2>7. \A k \in DOMAIN started : Tok(k) <= fresh \/ started[k] < offset
      BY <2>1 DEF OnceInv
    <2>8. \A k \in DOMAIN started' : started'[k] \in DOMAIN updates /\ updates[started'[k]].kind = "tap"
      BY <2>2, <2>4, <2>5 DEF OnceInv, update
    <2>9. \A k \in DOMAIN started' : updates[started'[k]].tok <= fresh \/ started'[k] < offset
      BY <2>2, <2>4, <2>5, <2>7 DEF Tok
    <2> QED BY <2>1, <2>6, <2>8, <2>9 DEF OnceInv, Tok
  <1>12. CASE \/ Poll \/ PollFails \/ SkipEntry \/ BatchDone \/ SendText \/ Raising \/ Crash
              \/ Plain /\ ~StartFile
              \/ Reporting /\ ~StartFolder
              \/ Arrive \/ StoreChanges \/ UNCHANGED vars
    <2>1. /\ UNCHANGED <<started, fresh, offset>>
          /\ pc' # "off" => pc # "off"
          /\ pc' = "handle" => pc = "handle" /\ next' = next
          /\ pc' \in {"answer", "run"} => pc \in {"answer", "run"} /\ act' = act /\ next' = next
      <3>1. CASE Reporting /\ ~StartFolder
        BY <1>1, <3>1, Reports DEF AtRest, PCs
      <3>2. CASE Plain /\ ~StartFile
        BY <3>2 DEF Plain, Report, Answer, MakeTempDir, Pack, SendPart, StatFails, AllSent, Notify,
           Clean, Finish, deliveryVars, tokenVars, loopVars, outsideVars
      <3>3. CASE Poll \/ PollFails \/ SkipEntry \/ BatchDone \/ SendText
        BY <3>3 DEF Poll, PollFails, SkipEntry, BatchDone, SendText, Finish, deliveryVars,
           tokenVars, loopVars
      <3>4. CASE Raising \/ Crash \/ Arrive \/ StoreChanges \/ UNCHANGED vars
        BY <3>4 DEF Raising, NoTempDir, PackRaises, Crash, Arrive, StoreChanges, vars,
           deliveryVars, tokenVars, loopVars, outsideVars
      <3> QED BY <1>12, <3>1, <3>2, <3>3, <3>4
    <2>2. pc' \in {"handle", "answer", "run"} => cur' = cur /\ update' = update
      BY <1>1, <1>2, <2>1, InHand DEF cur, update, AtRest
    <2>4. pc' # "off" => \A k \in DOMAIN started : Tok(k) <= fresh \/ started[k] < offset
      BY <2>1 DEF OnceInv
    <2>5. pc' \in {"handle", "answer", "run"} =>
            \A k \in DOMAIN started : Tok(k) <= fresh \/ started[k] < cur
      BY <2>1 DEF OnceInv
    <2>6. pc' \in {"answer", "run"} /\ act' \in Sends => update'.tok > fresh
      BY <2>1, <2>2 DEF OnceInv
    <2> QED BY <1>4, <1>6, <2>1, <2>2, <2>4, <2>5, <2>6 DEF OnceInv
  <1> QED BY <1>7, <1>9, <1>10, <1>11, <1>12 DEF Next, Bot, Plain, Raising, Reporting

\* A tap starts at most one delivery, however often Telegram repeats it after kills.
THEOREM TapsActOnce == Spec => []OncePerTap
  <1>1. Init => OnceInv
    BY DEF Init, OnceInv, OncePerTap
  <1>2. OnceInv => OncePerTap
    BY DEF OnceInv
  <1> QED BY InitQueue, QueueKept, OnceStep, <1>1, <1>2, PTL DEF Spec
================================================================================

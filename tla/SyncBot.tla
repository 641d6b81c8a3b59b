------------------------------- MODULE SyncBot -------------------------------
(***************************************************************************)
(* The Telegram bot of private-sync: the loop of bot/main.py, the token    *)
(* map and the dispatch of handlers.py, and the delivery of a file or a    *)
(* folder as the password-protected archive that packer.py makes.          *)
(*                                                                         *)
(* The BOT is one thread; "pc" is the place it has reached.  A step ends   *)
(* where what the user, the store or a kill does next makes a difference.  *)
(* TELEGRAM keeps each update until a poll asks for later ones.            *)
(* The WORLD is the user and strangers sending updates, the agent or an    *)
(* administrator changing the store, and whatever kills the process.       *)
(*                                                                         *)
(* The store is a folder with a file in it, or empty.  Which page of which *)
(* directory a screen shows is left out; what a button does when pressed   *)
(* is not.                                                                 *)
(***************************************************************************)
EXTENDS Naturals, Sequences

CONSTANTS
  Kinds,      \* the kinds of update that arrive in this instance
  Limit,      \* TokenMap's limit
  MaxParts,   \* bound: parts of an archive
  MaxUpdates, \* bound: updates that arrive
  MaxCrashes, \* bound: times the process is killed
  Faults      \* what may go wrong in this instance

FaultKind ==
  {"refused",    \* a call to Telegram fails and has no effect
   "late",       \* a call has its effect, but its answer does not arrive in time
   "pollLost",   \* getUpdates fails
   "gone",       \* folder and file come and go
   "noTempDir",  \* mkdtemp() fails
   "noSpace",    \* the disk has no room for the archive
   "statFails",  \* an OSError outside the packing proper
   "packError",  \* an OSError while packing
   "foreign",    \* packing raises something that is not an OSError
   "dirStays"}   \* rmtree() leaves the directory, and nobody is told

\* Entries of a batch that are no dict, or whose update_id is no number.
Unnumbered == {"noDict", "noId"}
UpdateKind == {"start", "find", "text", "tap", "stranger", "broken", "other"} \cup Unnumbered

ASSUME BotAssumption ==
  /\ Kinds \subseteq UpdateKind /\ Faults \subseteq FaultKind
  /\ {Limit, MaxParts, MaxUpdates, MaxCrashes} \subseteq Nat
  /\ Limit > 0 /\ MaxParts > 0

VARIABLES
  updates,    \* every update Telegram has received; its id is its index
  confirmed,  \* ids up to here Telegram has forgotten
  chat,       \* chat[m]: text and buttons of message m
  there,      \* folder and file are in the store
  issued,     \* kinds of all tokens ever issued; a token is an index
  fresh,      \* tokens up to here were issued by earlier processes
  offset,     \* _serve()'s offset; 0 is None
  next, last, \* the updates of the batch that are still to be handled
  pc,         \* where the bot is
  act,        \* the action handle() returned
  total,      \* parts of the archive, 0 before it is packed
  sent,       \* parts sendDocument has succeeded for
  arrived,    \* parts that are in the chat
  notice,     \* the notice notify() is about to send
  told,       \* notices about the update in hand, or the last one, that are in the chat
  lapse,      \* history: why the notice about it is not: "refused", "crash" or "none"
  temps,      \* temporary directories on the disk
  kept,       \* history: directories that rmtree() has left there
  crashes,    \* bound counter
  started,    \* history: ids of the updates that started a delivery, in order
  handled,    \* history: ids of the updates handled to the end
  stuck       \* history: <<m, reason>>, a progress text of m nobody will replace

vars == <<updates, confirmed, chat, there, issued, fresh, offset, next, last, pc,
          act, total, sent, arrived, notice, told, lapse, temps, kept, crashes,
          started, handled, stuck>>
worldVars == <<updates, confirmed, there, crashes>>
loopVars == <<offset, next, last>>
tokenVars == <<issued, fresh>>
partVars == <<total, sent, arrived>>
tempVars == <<temps, kept>>
noticeVars == <<notice, told, lapse>>
deliveryVars == <<partVars, tempVars, started>>

Init ==
  /\ updates = <<>> /\ confirmed = 0 /\ chat = <<>> /\ there = TRUE
  /\ issued = <<>> /\ fresh = 0 /\ offset = 0 /\ next = 1 /\ last = 0
  /\ pc = "off" /\ act = "none" /\ total = 0 /\ sent = 0 /\ arrived = 0
  /\ notice = "none" /\ told = {} /\ lapse = "none"
  /\ temps = 0 /\ kept = 0 /\ crashes = 0
  /\ started = <<>> /\ handled = {} /\ stuck = {}

--------------------------------------------------------------------------------
(* Tokens, screens and calls *)

\* TokenMap.get(): the map holds the last Limit tokens this process has issued.
Live(t) == t > fresh /\ t + Limit > Len(issued)

\* The buttons of each screen, in the order their tokens are issued.  "up" is the
\* "dir" token of the parent, here the root; "plain" is any text without buttons.
Buttons(screen) == CASE screen \in {"root", "parent"} -> <<"dir">>
                     [] screen = "folder" -> <<"up", "zipask", "file">>
                     [] screen = "found" -> <<"file">>
                     [] screen = "confirm" -> <<"zipgo", "dir">>
                     [] OTHER -> <<>>

\* Screens that replace the message whose button was tapped.
Edits == {"parent", "empty", "folder", "confirm"}
Screens == Edits \cup {"root", "found", "plain"}

\* The tokens of the screen handle() has just made.
NewKeys(screen) == {t \in DOMAIN issued : t + Len(Buttons(screen)) > Len(issued)}

\* How a call to Telegram ends.
Calls == {"ok"} \cup (Faults \cap {"refused", "late"})
Works(call) == call # "refused"

cur == next - 1        \* the update in hand
update == updates[cur]

InProgress == {"checking", "packing", "sending"}

\* Notices after which a temporary directory is still to be removed.
Failures == {"noSpace", "packFailed", "partial", "failed"}

--------------------------------------------------------------------------------
(* The loop: _serve() and _handle_one() *)

\* Mutant: the token map survives a restart.
BootKeepsTokens ==
  /\ pc = "off"
  /\ fresh' = 0 /\ offset' = 0 /\ next' = 1 /\ last' = 0 /\ pc' = "poll"
  /\ act' = "none" /\ notice' = "none"
  /\ UNCHANGED <<worldVars, chat, issued, deliveryVars, told, lapse, handled, stuck>>

\* systemd starts the bot; main() checks getMe and enters _serve().
Boot ==
  /\ pc = "off"
  /\ fresh' = Len(issued) /\ offset' = 0 /\ next' = 1 /\ last' = 0 /\ pc' = "poll"
  /\ act' = "none" /\ notice' = "none"
  /\ UNCHANGED <<worldVars, chat, issued, deliveryVars, told, lapse, handled, stuck>>

\* Mutant: a batch is confirmed when it is fetched.
PollConfirmsBatch ==
  /\ pc = "poll"
  /\ confirmed' = Len(updates)
  /\ next' = confirmed + 1 /\ last' = Len(updates) /\ pc' = "loop"
  /\ UNCHANGED <<updates, there, crashes, chat, tokenVars, offset, act,
                 deliveryVars, noticeVars, handled, stuck>>

\* getUpdates(offset) confirms what is below the offset and returns the rest.
Poll ==
  /\ pc = "poll"
  /\ confirmed' = IF offset > 0 THEN offset - 1 ELSE confirmed
  /\ next' = confirmed' + 1 /\ last' = Len(updates) /\ pc' = "loop"
  /\ UNCHANGED <<updates, there, crashes, chat, tokenVars, offset, act,
                 deliveryVars, noticeVars, handled, stuck>>

\* The request may have reached Telegram all the same; the loop polls again.
PollFails ==
  /\ pc = "poll" /\ "pollLost" \in Faults
  /\ confirmed' \in {confirmed, IF offset > 0 THEN offset - 1 ELSE confirmed}
  /\ UNCHANGED <<updates, there, crashes, chat, tokenVars, loopVars, pc, act,
                 deliveryVars, noticeVars, handled, stuck>>

\* Nothing is known yet of the update that is taken next.
NewUpdate ==
  /\ act' = "none" /\ notice' = "none" /\ told' = {} /\ lapse' = "none"
  /\ total' = 0 /\ sent' = 0 /\ arrived' = 0
  /\ UNCHANGED <<worldVars, chat, tokenVars, last, tempVars, started, handled, stuck>>

\* An entry that is no dict is passed over.
SkipEntry ==
  /\ pc = "loop" /\ next <= last /\ updates[next].kind = "noDict"
  /\ next' = next + 1 /\ handled' = handled \cup {next}
  /\ UNCHANGED <<worldVars, chat, tokenVars, offset, last, pc, act, deliveryVars,
                 noticeVars, stuck>>

\* Mutant: the offset is left behind by an update that cannot be parsed.
TakeUnlessBroken ==
  /\ pc = "loop" /\ next <= last /\ updates[next].kind # "noDict"
  /\ offset' = IF updates[next].kind \in {"noId", "broken"} THEN offset ELSE next + 1
  /\ next' = next + 1 /\ pc' = "handle" /\ NewUpdate

\* Mutant: the newest update of a batch is handled, and confirmed, first.
TakeNewest ==
  /\ pc = "loop" /\ next <= last /\ updates[last].kind # "noDict"
  /\ offset' = last + 1 /\ next' = last + 1 /\ pc' = "handle" /\ NewUpdate

\* The next update of the batch: its id, if it has one, is accounted for before it is
\* handled.
TakeUpdate ==
  /\ pc = "loop" /\ next <= last /\ updates[next].kind # "noDict"
  /\ offset' = IF updates[next].kind = "noId" THEN offset ELSE next + 1
  /\ next' = next + 1 /\ pc' = "handle" /\ NewUpdate

BatchDone ==
  /\ pc = "loop" /\ next > last /\ pc' = "poll"
  /\ UNCHANGED <<worldVars, chat, tokenVars, loopVars, act, deliveryVars, noticeVars,
                 handled, stuck>>

\* _handle_one() returns.
Finish == pc' = "loop" /\ handled' = handled \cup {cur}

\* _handle_callback() on token t: what the map has for it decides.
TapDecision(t) ==
  IF ~Live(t) THEN "plain"               \* the list has expired
  ELSE CASE issued[t] = "up" -> IF there THEN "parent" ELSE "empty"
         [] issued[t] = "dir" -> IF there THEN "folder" ELSE "missing"  \* StoreError
         [] issued[t] = "zipask" -> IF there THEN "confirm" ELSE "missing"
         [] issued[t] = "zipgo" -> "sendFolder"
         [] issued[t] = "file" -> "sendFile"

\* What handle() makes of an update: an action, or a way not to have one.
Decision(u) ==
  CASE u.kind = "other" -> "ignore"    \* extract() finds nothing to handle
    [] u.kind \in {"broken", "noId"} -> "internal" \* extract() raises
    [] u.kind = "stranger" -> "none"
    [] u.kind = "start" -> IF there THEN "root" ELSE "plain"
    [] u.kind = "find" -> IF there THEN "found" ELSE "plain"
    [] u.kind = "text" -> "plain"      \* the usage text
    [] u.kind = "tap" -> TapDecision(u.tok)

Handle ==
  /\ pc = "handle"
  /\ LET d == Decision(update) IN
       /\ act' = d
       /\ issued' = issued \o Buttons(d)
       /\ IF d = "ignore" THEN Finish
          ELSE /\ handled' = handled
               /\ pc' = CASE d \in {"internal", "missing"} -> "report"
                          [] update.kind \in {"start", "find", "text"} -> "run"
                          [] OTHER -> "answer"
  /\ UNCHANGED <<worldVars, chat, fresh, loopVars, deliveryVars, noticeVars, stuck>>

\* _report(): the loading mark is taken off the button and the user told.
Report ==
  /\ pc = "report" /\ pc' = "notify"
  /\ notice' = IF act = "missing" THEN "missing" ELSE "internal"
  /\ UNCHANGED <<worldVars, chat, tokenVars, loopVars, act, deliveryVars, told, lapse,
                 handled, stuck>>

\* Deliverer.run() answers the callback first, whatever the action is.
Answer ==
  /\ pc = "answer"
  /\ IF act = "none" THEN Finish ELSE pc' = "run" /\ handled' = handled
  /\ UNCHANGED <<worldVars, chat, tokenVars, loopVars, act, deliveryVars, noticeVars, stuck>>

\* _send_text(): a screen replaces the message that was tapped or, for a command
\* or an expired token, is a new one.  A failure leads to a notice.
SendText ==
  /\ pc = "run" /\ act \in Screens
  /\ \E call \in Calls :
       /\ LET screen == [text |-> act, keys |-> NewKeys(act)] IN
            chat' = IF ~Works(call) THEN chat
                    ELSE IF act \in Edits
                      THEN [chat EXCEPT ![update.msg] = screen]
                      ELSE Append(chat, screen)
       /\ IF call = "ok"
            THEN Finish /\ notice' = notice
            ELSE pc' = "notify" /\ notice' = "delivery" /\ handled' = handled
  /\ UNCHANGED <<worldVars, tokenVars, loopVars, act, deliveryVars, told, lapse, stuck>>

\* notify(): a notice that cannot be sent is swallowed.
Notify ==
  /\ pc = "notify" /\ notice' = "none"
  /\ \E call \in Calls :
       /\ told' = IF Works(call) THEN told \cup {notice} ELSE told
       /\ lapse' = IF Works(call) THEN lapse ELSE "refused"
  /\ CASE notice = "split" -> pc' = "complete" /\ handled' = handled
       [] notice \in Failures -> pc' = "clean" /\ handled' = handled
       [] OTHER -> Finish
  /\ UNCHANGED <<worldVars, chat, tokenVars, loopVars, act, deliveryVars, stuck>>

--------------------------------------------------------------------------------
(* Delivery: _send_folder(), _send_file() and the packer *)

\* _progress(): a folder's message shows how far the delivery is; an edit that
\* fails is not repeated.  A file has no such message.
Progress(text) ==
  IF act # "sendFolder" THEN UNCHANGED <<chat, stuck>>
  ELSE \E call \in Calls :
         IF Works(call)
           THEN /\ chat' = [chat EXCEPT ![update.msg] = [text |-> text, keys |-> {}]]
                /\ stuck' = {x \in stuck : x[1] # update.msg}
           ELSE chat' = chat /\ stuck' = stuck \cup {<<update.msg, "edit">>}

\* A delivery ends early: a last progress text, then a notice.
EndWith(text, reason) ==
  /\ Progress(text)
  /\ notice' = reason /\ pc' = "notify"

outsideVars == <<worldVars, tokenVars, loopVars, act>>

StartFolder ==
  /\ pc = "run" /\ act = "sendFolder"
  /\ Progress("checking") /\ started' = Append(started, cur) /\ pc' = "check"
  /\ UNCHANGED <<outsideVars, partVars, tempVars, noticeVars, handled>>

StartFile ==
  /\ pc = "run" /\ act = "sendFile"
  /\ started' = Append(started, cur) /\ pc' = "check"
  /\ UNCHANGED <<outsideVars, chat, partVars, tempVars, noticeVars, handled, stuck>>

\* resolve_safe() and, for a folder, directory_stats().
Missing ==
  /\ pc = "check" /\ ~there
  /\ EndWith("missing", "missing")
  /\ UNCHANGED <<outsideVars, deliveryVars, told, lapse, handled>>

MakeTempDir ==
  /\ pc = "check" /\ there
  /\ temps' = temps + 1 /\ pc' = IF act = "sendFolder" THEN "room" ELSE "pack"
  /\ UNCHANGED <<outsideVars, chat, partVars, kept, started, noticeVars, handled, stuck>>

\* mkdtemp() stands outside every try clause of the delivery.
NoTempDir ==
  /\ pc = "check" /\ there /\ "noTempDir" \in Faults
  /\ stuck' = stuck \cup {<<update.msg, "noTempDir">>}
  /\ pc' = "report"
  /\ UNCHANGED <<outsideVars, chat, deliveryVars, noticeVars, handled>>

NoSpace ==
  /\ pc = "room" /\ "noSpace" \in Faults
  /\ EndWith("noSpace", "noSpace")
  /\ UNCHANGED <<outsideVars, deliveryVars, told, lapse, handled>>

EnoughSpace ==
  /\ pc = "room"
  /\ Progress("packing") /\ pc' = "pack"
  /\ UNCHANGED <<outsideVars, deliveryVars, noticeVars, handled>>

\* pack_dir_for_send() or pack_for_send(): one archive, or its parts.
Pack ==
  /\ pc = "pack" /\ there
  /\ total' \in 1..MaxParts /\ pc' = "announce"
  /\ UNCHANGED <<outsideVars, chat, sent, arrived, tempVars, started, noticeVars, handled, stuck>>

\* Mutant: the user is told, but the progress text is not replaced.
PackFailsSilently ==
  /\ pc = "pack" /\ (~there \/ "packError" \in Faults)
  /\ notice' = "packFailed" /\ pc' = "notify"
  /\ UNCHANGED <<outsideVars, chat, deliveryVars, told, lapse, handled, stuck>>

\* A source that has vanished and every OSError of the packing are PackErrors.
PackFails ==
  /\ pc = "pack" /\ (~there \/ "packError" \in Faults)
  /\ EndWith("packFailed", "packFailed")
  /\ UNCHANGED <<outsideVars, deliveryVars, told, lapse, handled>>

\* rmtree(ignore_errors=True) in the finally clause.
RemoveDir ==
  \/ temps' = temps - 1 /\ kept' = kept
  \/ "dirStays" \in Faults /\ temps' = temps /\ kept' = kept + 1

\* Mutant: only the expected exceptions clean up.
PackRaisesUncleaned ==
  /\ pc = "pack" /\ "foreign" \in Faults
  /\ stuck' = stuck \cup {<<update.msg, "foreign">>}
  /\ pc' = "report"
  /\ UNCHANGED <<outsideVars, chat, deliveryVars, noticeVars, handled>>

\* Anything else leaves the delivery by its finally clause.
PackRaises ==
  /\ pc = "pack" /\ "foreign" \in Faults
  /\ RemoveDir
  /\ stuck' = stuck \cup {<<update.msg, "foreign">>}
  /\ pc' = "report"
  /\ UNCHANGED <<outsideVars, chat, partVars, started, noticeVars, handled>>

Announce ==
  /\ pc = "announce"
  /\ Progress("sending") /\ pc' = "send"
  /\ UNCHANGED <<outsideVars, deliveryVars, noticeVars, handled>>

\* Mutant: one part too many.
SendPartPastEnd ==
  /\ pc = "send" /\ sent <= total
  /\ sent' = sent + 1 /\ arrived' = arrived + 1
  /\ UNCHANGED <<outsideVars, pc, chat, total, tempVars, started, noticeVars, handled, stuck>>

\* send_document() for the next part.
SendPart ==
  /\ pc = "send" /\ sent < total
  /\ \E call \in Calls :
       /\ arrived' = IF Works(call) THEN arrived + 1 ELSE arrived
       /\ IF call = "ok" THEN sent' = sent + 1 /\ pc' = "send"
                         ELSE sent' = sent /\ pc' = "failed"
  /\ UNCHANGED <<outsideVars, chat, total, tempVars, started, noticeVars, handled, stuck>>

\* More than one part: the notice how to join them comes before the last text.
AllSent ==
  /\ pc = "send" /\ sent = total
  /\ IF total > 1 THEN notice' = "split" /\ pc' = "notify"
                  ELSE notice' = notice /\ pc' = "complete"
  /\ UNCHANGED <<outsideVars, chat, deliveryVars, told, lapse, handled, stuck>>

Complete ==
  /\ pc = "complete"
  /\ Progress("done") /\ pc' = "clean"
  /\ UNCHANGED <<outsideVars, deliveryVars, noticeVars, handled>>

\* The finally clause of a delivery that has ended, well or not, and been reported.
Clean ==
  /\ pc = "clean"
  /\ RemoveDir /\ Finish
  /\ UNCHANGED <<outsideVars, chat, partVars, started, noticeVars, stuck>>

\* disk_usage() or the archive's stat() raises an OSError.
StatFails ==
  /\ pc \in {"room", "pack"} /\ "statFails" \in Faults
  /\ pc' = "failed"
  /\ UNCHANGED <<outsideVars, chat, deliveryVars, noticeVars, handled, stuck>>

\* Mutant: parts that went out before the failure are not mentioned.
SendingFailedPlain ==
  /\ pc = "failed"
  /\ EndWith("sendFailed", "failed")
  /\ UNCHANGED <<outsideVars, deliveryVars, told, lapse, handled>>

\* The handler for TelegramError and OSError.
SendingFailed ==
  /\ pc = "failed"
  /\ EndWith("sendFailed", IF sent > 0 THEN "partial" ELSE "failed")
  /\ UNCHANGED <<outsideVars, deliveryVars, told, lapse, handled>>

--------------------------------------------------------------------------------
(* The world *)

\* The user sends a command or taps a button that is on the screen, a stranger
\* taps one of a chat the bot does not serve, Telegram delivers something else.
Arrive ==
  /\ Len(updates) < MaxUpdates
  /\ \/ \E kind \in Kinds \ {"tap"} :
          updates' = Append(updates, [kind |-> kind, tok |-> 0, msg |-> 0])
     \/ /\ "tap" \in Kinds
        /\ \E m \in DOMAIN chat : \E t \in chat[m].keys :
             updates' = Append(updates, [kind |-> "tap", tok |-> t, msg |-> m])
  /\ UNCHANGED <<confirmed, there, crashes, chat, tokenVars, loopVars, pc, act,
                 deliveryVars, noticeVars, handled, stuck>>

StoreChanges ==
  /\ "gone" \in Faults /\ there' = ~there
  /\ UNCHANGED <<updates, confirmed, crashes, chat, tokenVars, loopVars, pc, act,
                 deliveryVars, noticeVars, handled, stuck>>

\* SIGKILL, SIGTERM (which the bot does not handle) or a power loss: no finally
\* clause runs, and of parts that are in the chat the next process knows nothing.
Crash ==
  /\ pc # "off" /\ crashes < MaxCrashes
  /\ crashes' = crashes + 1 /\ pc' = "off"
  /\ stuck' = IF pc \notin {"poll", "loop"} /\ act = "sendFolder"
                THEN stuck \cup {<<update.msg, "crash">>} ELSE stuck
  /\ lapse' = IF pc \in {"send", "failed", "notify"} THEN "crash" ELSE lapse
  /\ UNCHANGED <<updates, confirmed, there, chat, tokenVars, loopVars, act,
                 deliveryVars, notice, told, handled>>

--------------------------------------------------------------------------------
Bot ==
  \/ SkipEntry \/ TakeUpdate \/ BatchDone \/ Handle \/ Report \/ Answer \/ SendText
  \/ Notify \/ Complete \/ Clean
  \/ StartFolder \/ StartFile \/ Missing \/ MakeTempDir \/ NoTempDir
  \/ NoSpace \/ EnoughSpace \/ Pack \/ PackFails \/ PackRaises
  \/ Announce \/ SendPart \/ AllSent \/ StatFails \/ SendingFailed

Next == Boot \/ Poll \/ PollFails \/ Bot \/ Arrive \/ StoreChanges \/ Crash

Spec == Init /\ [][Next]_vars

\* systemd restarts the bot (Restart=always), not every poll fails, and the
\* thread goes on: every call of the bot has a time limit.
FairSpec == Spec /\ WF_vars(Boot) /\ WF_vars(Poll) /\ WF_vars(Bot)

--------------------------------------------------------------------------------
(* Properties *)

PCs == {"off", "poll", "loop", "handle", "report", "answer", "run", "check",
        "room", "pack", "announce", "send", "failed", "notify", "complete", "clean"}
Notices == Failures \cup {"missing", "internal", "delivery", "split"}
Resting == pc \in {"poll", "loop"}
Stuck == {"edit", "noTempDir", "foreign", "crash"}

TypeOK ==
  /\ Len(updates) <= MaxUpdates /\ confirmed \in 0..Len(updates)
  /\ \A m \in DOMAIN chat : chat[m].keys \subseteq DOMAIN issued
  /\ there \in BOOLEAN /\ fresh \in 0..Len(issued)
  /\ offset \in 0..(Len(updates) + 1) /\ next \in 1..(Len(updates) + 1) /\ last \in 0..Len(updates)
  /\ pc \in PCs /\ total \in 0..MaxParts /\ sent \in 0..MaxParts /\ arrived \in 0..MaxParts
  /\ notice \in Notices \cup {"none"} /\ told \subseteq Notices
  /\ lapse \in {"none", "refused", "crash"}
  /\ kept \in Nat /\ temps \in 0..(MaxCrashes + 1 + kept) /\ crashes \in 0..MaxCrashes
  /\ handled \subseteq DOMAIN updates
  /\ stuck \subseteq ((DOMAIN chat) \X Stuck)

\* Telegram forgets an update only once it has been handled to the end: the
\* offset is raised before handling, but sent only with the next poll.  A kill
\* in the middle of a batch therefore repeats updates and never loses one.
NothingLostOnRestart == \A id \in 1..confirmed : id \in handled

\* The loop implements the abstract queue: an update is handled to the end only
\* while Telegram still has it and after all that came before it, and forgotten
\* only once it and they have been handled, whatever the batches, kills and lost
\* polls in between.
Queue == INSTANCE UpdateQueue WITH received <- Len(updates)
ServesTheQueue == Queue!Spec

\* A tap starts at most one delivery.  A restart makes Telegram repeat the
\* updates of a batch, but the tokens of the taps in it died with the process.
OncePerTap == \A i, j \in DOMAIN started : started[i] = started[j] => i = j

\* Comment in _send_folder(): the button is removed before anything slow begins,
\* because pressed twice it would send the folder twice.
OncePerButton ==
  \A i, j \in DOMAIN started :
    /\ issued[updates[started[i]].tok] = "zipgo"
    /\ updates[started[i]].tok = updates[started[j]].tok
    => i = j

Settled(why) ==
  Resting => \A m \in DOMAIN chat :
    chat[m].text \in InProgress => \E r \in why : <<m, r>> \in stuck

\* When the bot rests no message claims that work is under way, unless an edit
\* failed or the delivery was left in one of the ways that bypass its handlers.
ProgressSettles == Settled(Stuck)

\* What the user is told about the parts agrees with the parts in the chat.  The notice
\* how to join them comes only with all of them, the one to throw them away only when
\* the rest was given up, the one to try again only when at most a first part is there
\* whose answer came too late.  And when the bot rests after a delivery in several
\* parts, nothing of it lies in the chat without one of the first two, except such a
\* first part, or because the notice was refused, or the process killed before it.
PartsAnnounced ==
  /\ "split" \in told => arrived = total
  /\ "partial" \in told => sent \in 1..(total - 1)
  /\ "failed" \in told => sent = 0 /\ arrived <= 1
  /\ Resting /\ total > 1 /\ arrived > 0 =>
       \/ told \cap {"split", "partial"} # {}
       \/ lapse # "none"
       \/ arrived = 1 /\ "failed" \in told

\* README: temporary archives are deleted whether or not the delivery succeeds.
\* Only a kill leaves one behind, and never more than one, or a removal that fails.
NoTempLeft == Resting => temps <= crashes + kept

\* Comment in _handle_one(): no update makes the bot come back to it for ever.
\* Every update is handled, and confirmed by the poll after it, apart from entries
\* without a number, which stay until one with a number follows them.
EveryUpdateConfirmed ==
  \A id \in 1..MaxUpdates :
    Len(updates) >= id ~>
      confirmed >= id \/ \A k \in id..Len(updates) : updates[k].kind \in Unnumbered
================================================================================

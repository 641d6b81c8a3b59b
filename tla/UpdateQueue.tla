----------------------------- MODULE UpdateQueue -----------------------------
(***************************************************************************)
(* What the loop of the bot promises about the updates Telegram queues for *)
(* it: each is handled to the end, the first time in the order they came,  *)
(* possibly again after a restart, and Telegram is told to forget one only *)
(* after that.  There is no process here, no batch, no offset, no crash    *)
(* and no lost poll: SyncBot has them, and is shown to implement this.     *)
(***************************************************************************)
EXTENDS Naturals

VARIABLES
  received,   \* how many updates have come; they are numbered from 1
  handled,    \* the numbers of those handled to the end
  confirmed   \* updates up to here are forgotten

queueVars == <<received, handled, confirmed>>

Init == received = 0 /\ handled = {} /\ confirmed = 0

Receive ==
  /\ received' = received + 1
  /\ UNCHANGED <<handled, confirmed>>

\* An update can be handled, for the first time or again, while it is queued,
\* once all that came before it have been.
Serve(id) ==
  /\ id \in (confirmed + 1)..received
  /\ \A earlier \in 1..(id - 1) : earlier \in handled
  /\ handled' = handled \cup {id}
  /\ UNCHANGED <<received, confirmed>>

Forget(id) ==
  /\ id \in (confirmed + 1)..received
  /\ \A earlier \in 1..id : earlier \in handled
  /\ confirmed' = id
  /\ UNCHANGED <<received, handled>>

Next == Receive \/ \E id \in 1..received : Serve(id) \/ Forget(id)

Spec == Init /\ [][Next]_queueVars
================================================================================

----------------------------- MODULE ChangeQueue -----------------------------
(***************************************************************************)
(* What the agent promises about a changed path between the event and the  *)
(* upload: a (label, path) key waits until it has been quiet, is then      *)
(* collected as a whole with the others, and from there on is owed to the  *)
(* server.  It never leaves the debouncer in another way, short of the end *)
(* of the process.  There are no threads, clocks, commands or reloads      *)
(* here: AgentClock has the clocks, SyncAgent the rest, and both are shown *)
(* to implement this.                                                      *)
(***************************************************************************)
CONSTANT Key

VARIABLES
  waiting,  \* keys that have changed and are not quiet yet
  ready,    \* keys that have become quiet
  owed      \* keys that are to be uploaded

changeVars == <<waiting, ready, owed>>

Init == waiting = {} /\ ready = {} /\ owed = {}

\* A change makes a key wait, from the beginning if it was ready already.
Changed(S) == waiting' = waiting \cup S /\ ready' = ready \ S /\ owed' = owed

BecomeQuiet(S) ==
  S \subseteq waiting /\ waiting' = waiting \ S /\ ready' = ready \cup S /\ owed' = owed

Collect == waiting' = waiting /\ ready' = {} /\ owed' = owed \cup ready

\* The first upload after a start, a reload, or what an earlier process left.
Owe(S) == waiting' = waiting /\ ready' = ready /\ owed' = owed \cup S

\* Uploaded, or given up.
Settle(S) == waiting' = waiting /\ ready' = ready /\ owed' = owed \ S

ProcessEnds == waiting' = {} /\ ready' = {} /\ owed' = {}

Next ==
  \/ Collect \/ ProcessEnds
  \/ \E S \in SUBSET Key : Changed(S) \/ BecomeQuiet(S) \/ Owe(S) \/ Settle(S)

Spec == Init /\ [][Next]_changeVars
================================================================================

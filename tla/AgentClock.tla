------------------------------ MODULE AgentClock ------------------------------
(***************************************************************************)
(* The agent's clocks, second by second: Debouncer of watcher.py, Backoff  *)
(* and the waits of _run_loop() in agent/main.py.  SyncAgent leaves time   *)
(* out: there a deadline just expires and a wait just ends.                *)
(***************************************************************************)
EXTENDS Naturals

CONSTANTS
  Key,        \* the (label, path) keys of the debouncer
  Debounce,   \* _DEBOUNCE_SEC
  Tick,       \* _TICK_SEC
  Base, Cap,  \* Backoff's base and cap
  Saturation, \* a number of failures after which the cap is reached
  FloatLimit, \* the exponent at which 2**n no longer fits a float: 1024
  MaxDrain,   \* bound: seconds one drain() takes
  MaxFailures \* bound: failures in a row

ASSUME ClockAssumption ==
  /\ {Debounce, Tick, Base, Cap, Saturation, FloatLimit, MaxDrain, MaxFailures} \subseteq Nat
  /\ Debounce > 0 /\ Tick > 0 /\ Tick <= Base /\ Base <= Cap
  /\ Saturation <= FloatLimit
  /\ \A n \in 0..Saturation : Base * 2^n \in Nat
  /\ Base * 2^Saturation >= Cap

Idle == Debounce + 1   \* no deadline

VARIABLES
  deadline,  \* deadline[k]: seconds left, or Idle when k is not in _deadlines
  quiet,     \* history: seconds since the last event of k, up to Debounce
  pending,   \* keys in the pending list
  failures,  \* Backoff._failures
  pc,        \* "round" (about to collect), "drain", "wait", or "dead"
  busy,      \* seconds this drain() has taken
  left,      \* seconds left of the wait
  late       \* history: seconds since the loop last polled config and debouncer

vars == <<deadline, quiet, pending, failures, pc, busy, left, late>>

Init ==
  /\ deadline = [k \in Key |-> Idle] /\ quiet = [k \in Key |-> Debounce]
  /\ pending = {} /\ failures = 0
  /\ pc = "round" /\ busy = 0 /\ left = 0 /\ late = 0

--------------------------------------------------------------------------------
\* Mutant: no cap.
DelayUncapped(n) == Base * 2^n

\* Backoff.delay(): min(base * 2**failures, cap); from Saturation on the minimum
\* is the cap, so the power need not be computed.
Delay(n) == IF n < Saturation /\ Base * 2^n < Cap THEN Base * 2^n ELSE Cap

\* Mutant: an event does not postpone a deadline that is set already.
TouchOnce(k) ==
  /\ pc # "dead"
  /\ deadline' = [deadline EXCEPT ![k] = IF @ = Idle THEN Debounce ELSE @]
  /\ quiet' = [quiet EXCEPT ![k] = 0]
  /\ UNCHANGED <<pending, failures, pc, busy, left, late>>

\* Debouncer.touch(), by the observer thread; only the drain and the waits last
\* long enough for time to pass between events.
Touch(k) ==
  /\ pc # "dead"
  /\ deadline' = [deadline EXCEPT ![k] = Debounce]
  /\ quiet' = [quiet EXCEPT ![k] = 0]
  /\ UNCHANGED <<pending, failures, pc, busy, left, late>>

\* The expired keys of Debouncer.due().
Due == {k \in Key : deadline[k] = 0}

\* Mutant: due() clears the whole dictionary.
CollectClearsAll ==
  /\ pc = "round"
  /\ deadline' = [k \in Key |-> Idle]
  /\ pending' = pending \cup Due
  /\ pc' = "drain" /\ busy' = 0 /\ late' = 0
  /\ UNCHANGED <<quiet, failures, left>>

\* A round begins: the config poll, due(), enqueue() for what it returned.
Collect ==
  /\ pc = "round"
  /\ deadline' = [k \in Key |-> IF k \in Due THEN Idle ELSE deadline[k]]
  /\ pending' = pending \cup Due
  /\ pc' = "drain" /\ busy' = 0 /\ late' = 0
  /\ UNCHANGED <<quiet, failures, left>>

\* drain() returns.  It has sent some items and dropped some for good; if it was
\* deferred the rest is still pending.  Only a success resets the backoff.  Past
\* FloatLimit the multiplication in delay() raises OverflowError, which nothing
\* catches.
DrainEnds(sent, dropped) ==
  LET rest == pending \ (sent \cup dropped)
      before == IF sent = {} THEN failures ELSE 0
  IN /\ pending' = rest
     /\ failures' = IF rest = {} THEN before ELSE before + 1
     /\ failures' <= MaxFailures
     /\ IF rest # {} /\ failures' >= FloatLimit
          THEN pc' = "dead" /\ left' = 0
          ELSE pc' = "wait" /\ left' = IF rest = {} THEN Tick ELSE Delay(failures')

Drained ==
  /\ pc = "drain"
  /\ \E sent \in SUBSET pending : \E dropped \in SUBSET (pending \ sent) :
       DrainEnds(sent, dropped)
  /\ busy' = 0
  /\ UNCHANGED <<deadline, quiet, late>>

WaitOver ==
  /\ pc = "wait" /\ left = 0 /\ pc' = "round"
  /\ UNCHANGED <<deadline, quiet, pending, failures, busy, left, late>>

\* One second passes.
Second ==
  /\ \/ pc = "drain" /\ busy < MaxDrain /\ busy' = busy + 1 /\ left' = left
     \/ pc = "wait" /\ left > 0 /\ left' = left - 1 /\ busy' = busy
  /\ late' = late + 1
  /\ deadline' = [k \in Key |-> IF deadline[k] \in 1..Debounce THEN deadline[k] - 1
                                                               ELSE deadline[k]]
  /\ quiet' = [k \in Key |-> IF quiet[k] < Debounce THEN quiet[k] + 1 ELSE Debounce]
  /\ UNCHANGED <<pending, failures, pc>>

Next == Collect \/ Drained \/ WaitOver \/ Second \/ \E k \in Key : Touch(k)

Spec == Init /\ [][Next]_vars

--------------------------------------------------------------------------------
(* Properties *)

TypeOK ==
  /\ deadline \in [Key -> 0..Idle] /\ quiet \in [Key -> 0..Debounce]
  /\ pending \subseteq Key /\ failures \in 0..MaxFailures
  /\ pc \in {"round", "drain", "wait", "dead"}
  /\ busy \in 0..MaxDrain /\ left \in 0..Cap /\ late \in Nat

\* However long the agent has been failing, it looks at agent.yaml and at the
\* debouncer again within the cap of the backoff, and within a tick when nothing
\* is pending, not counting the uploads themselves (README: at most 5 minutes
\* while uploads fail, a few seconds otherwise).
LooksAgain == late <= MaxDrain + IF pc \in {"wait", "round"} /\ pending = {} THEN Tick ELSE Cap

\* An upload starts only after three seconds without an event for its key: what
\* a round adds to the pending list has been quiet for that long, although
\* events go on arriving while a drain or a wait is under way.
OnlyQuietCollected ==
  [][\A k \in pending' \ pending : quiet[k] = Debounce]_vars

\* An event is never dropped by the debouncer: a key that has changed within the
\* last three seconds has a deadline, exactly when the quiet time will be over.
DeadlineTracksQuiet ==
  \A k \in Key : quiet[k] < Debounce => deadline[k] = Debounce - quiet[k]

\* The debouncer keeps what ChangeQueue promises: whatever the clocks do, a key
\* leaves it for the pending list only, after its deadline, and all keys that are
\* due leave it together.
Changes == INSTANCE ChangeQueue WITH
  waiting <- {k \in Key : deadline[k] \in 1..Debounce}, ready <- Due, owed <- pending
KeepsChanges == Changes!Spec

\* The design: retries back off from 3 seconds to at most 5 minutes.  A failure
\* long before the loop sees a success must not end it.
NeverDies == pc # "dead"
================================================================================

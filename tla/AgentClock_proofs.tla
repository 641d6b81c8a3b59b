--------------------------- MODULE AgentClock_proofs ---------------------------
(***************************************************************************)
(* Proofs about AgentClock: the bound on the time between two polls of the *)
(* loop, for every debounce, tick, base and cap, and that the agent does   *)
(* not end as long as the run of failures stays below the float limit.     *)
(***************************************************************************)
EXTENDS AgentClock, TLAPS

\* What the longest wait is, from the pending list.
Longest == IF pending = {} THEN Tick ELSE Cap

\* The time since the last poll is the time the drain has taken, and then that
\* time together with what is left of the wait stays within one drain and wait.
PollInv ==
  /\ pc = "drain" => late = busy
  /\ pc \in {"wait", "round"} => late + left <= MaxDrain + Longest
  /\ pc = "dead" => late <= MaxDrain

ClockInv == TypeOK /\ PollInv

USE DEF Longest

\* Backoff.delay() lies between zero and the cap.
LEMMA DelayBounded == ASSUME NEW n \in Nat PROVE Delay(n) \in 0..Cap
  <1>1. CASE n < Saturation /\ Base * 2^n < Cap
    <2>1. n \in 0..Saturation
      BY <1>1, ClockAssumption
    <2>2. Base * 2^n \in Nat
      BY <2>1, ClockAssumption
    <2>3. Delay(n) = Base * 2^n
      BY <1>1 DEF Delay
    <2> QED BY <1>1, <2>2, <2>3, ClockAssumption
  <1>2. CASE ~(n < Saturation /\ Base * 2^n < Cap)
    BY <1>2, ClockAssumption DEF Delay
  <1> QED BY <1>1, <1>2

\* The invariant holds at the start.
LEMMA InitClock == Init => ClockInv
  BY ClockAssumption DEF Init, ClockInv, TypeOK, PollInv, Idle

\* Every step keeps the invariant.
LEMMA StepClock == ClockInv /\ [Next]_vars => ClockInv'
  <1> SUFFICES ASSUME ClockInv, [Next]_vars PROVE ClockInv'
    OBVIOUS
  <1> USE ClockAssumption DEF ClockInv, TypeOK, PollInv
  <1>1. CASE Collect
    BY <1>1 DEF Collect, Due, Idle
  <1>2. CASE Drained
    <2>0. PICK sent \in SUBSET pending :
            \E dropped \in SUBSET (pending \ sent) : DrainEnds(sent, dropped)
      BY <1>2 DEF Drained
    <2>1. PICK dropped \in SUBSET (pending \ sent) : DrainEnds(sent, dropped)
      BY <2>0
    <2>2. failures' \in 0..MaxFailures /\ pending' \subseteq Key
      BY <2>1 DEF DrainEnds
    <2>3. left' \in 0..Cap /\ (pc' = "wait" => left' <= Longest')
      BY <2>1, <2>2, DelayBounded DEF DrainEnds
    <2>4. pc' \in {"wait", "dead"}
      BY <2>1 DEF DrainEnds
    <2>5. late' = late /\ late = busy /\ busy' = 0 /\ UNCHANGED <<deadline, quiet>>
      BY <1>2 DEF Drained
    <2>6. TypeOK'
      BY <2>2, <2>3, <2>4, <2>5
    <2>7. PollInv'
      BY <2>3, <2>4, <2>5
    <2> QED BY <2>6, <2>7
  <1>3. CASE WaitOver
    BY <1>3 DEF WaitOver
  <1>4. CASE Second
    <2>1. deadline' \in [Key -> 0..Idle] /\ quiet' \in [Key -> 0..Debounce]
      BY <1>4 DEF Second, Idle
    <2>2. /\ pc' = pc /\ late' = late + 1
          /\ UNCHANGED <<pending, failures>>
          /\ \/ pc = "drain" /\ busy < MaxDrain /\ busy' = busy + 1 /\ left' = left
             \/ pc = "wait" /\ left > 0 /\ left' = left - 1 /\ busy' = busy
      BY <1>4 DEF Second
    <2> QED BY <2>1, <2>2
  <1>5. ASSUME NEW k \in Key, Touch(k) PROVE ClockInv'
    BY <1>5 DEF Touch, Idle
  <1>6. CASE UNCHANGED vars
    BY <1>6 DEF vars
  <1> QED BY <1>1, <1>2, <1>3, <1>4, <1>5, <1>6 DEF Next

\* Every variable of the clocks keeps its type.
THEOREM ClockTypeCorrect == Spec => []TypeOK
  <1>1. ClockInv => TypeOK
    BY DEF ClockInv
  <1> QED BY InitClock, StepClock, <1>1, PTL DEF Spec

\* The loop looks at agent.yaml and at the debouncer again within the cap, and
\* within a tick when nothing is pending, for every setting of the four times.
THEOREM LoopLooksAgain == Spec => []LooksAgain
  <1>1. ClockInv => LooksAgain
    BY ClockAssumption DEF ClockInv, TypeOK, PollInv, LooksAgain
  <1> QED BY InitClock, StepClock, <1>1, PTL DEF Spec

\* delay() raises only past the float limit: an agent whose failures in a row stay
\* below it never ends in the backoff.
THEOREM BackoffSurvives ==
  ASSUME MaxFailures < FloatLimit
  PROVE  Spec => []NeverDies
  <1> DEFINE Alive == ClockInv /\ NeverDies
  <1>1. Init => Alive
    BY InitClock DEF Init, NeverDies
  <1>2. Alive /\ [Next]_vars => Alive'
    <2> SUFFICES ASSUME Alive, [Next]_vars PROVE NeverDies'
      BY StepClock
    <2>1. CASE Drained
      <3>1. failures' <= MaxFailures /\ failures' \in Nat
        <4>1. ClockInv'
          BY StepClock
        <4> QED BY <4>1, ClockAssumption DEF ClockInv, TypeOK
      <3>2. ~(failures' >= FloatLimit)
        BY <3>1, ClockAssumption
      <3> QED BY <2>1, <3>2 DEF Drained, DrainEnds, NeverDies
    <2>2. CASE ~Drained
      BY <2>2 DEF Next, Collect, WaitOver, Second, Touch, NeverDies, vars
    <2> QED BY <2>1, <2>2
  <1>3. Alive => NeverDies
    OBVIOUS
  <1> QED BY <1>1, <1>2, <1>3, PTL DEF Spec

--------------------------------------------------------------------------------
(* The debouncer *)

QuietInv == ClockInv /\ DeadlineTracksQuiet

\* Every step keeps deadlines and quiet times together.
LEMMA QuietStep == QuietInv /\ [Next]_vars => DeadlineTracksQuiet'
  <1> SUFFICES ASSUME QuietInv, [Next]_vars, NEW k \in Key, quiet'[k] < Debounce
               PROVE  deadline'[k] = Debounce - quiet'[k]
    BY DEF DeadlineTracksQuiet
  <1>1. /\ deadline \in [Key -> 0..Idle] /\ quiet \in [Key -> 0..Debounce] /\ Debounce \in Nat
        /\ quiet[k] < Debounce => deadline[k] = Debounce - quiet[k]
    BY ClockAssumption DEF QuietInv, ClockInv, TypeOK, DeadlineTracksQuiet
  <1>2. CASE Collect
    BY <1>1, <1>2 DEF Collect, Due, Idle
  <1>3. CASE Second
    BY <1>1, <1>3 DEF Second, Idle
  <1>4. ASSUME NEW l \in Key, Touch(l) PROVE deadline'[k] = Debounce - quiet'[k]
    BY <1>1, <1>4 DEF Touch, Idle
  <1>5. CASE Drained \/ WaitOver \/ UNCHANGED vars
    BY <1>1, <1>5 DEF Drained, WaitOver, vars
  <1> QED BY <1>2, <1>3, <1>4, <1>5 DEF Next

LEMMA InitQuiet == Init => QuietInv
  BY InitClock, ClockAssumption DEF Init, QuietInv, DeadlineTracksQuiet

\* The debouncer drops no event, for any number of keys and any debounce time.
THEOREM DeadlinesKept == Spec => []DeadlineTracksQuiet
  <1>1. QuietInv /\ [Next]_vars => QuietInv'
    BY StepClock, QuietStep DEF QuietInv
  <1>2. QuietInv => DeadlineTracksQuiet
    BY DEF QuietInv
  <1> QED BY InitQuiet, <1>1, <1>2, PTL DEF Spec

\* An upload starts only after a quiet time of the full debounce.
THEOREM QuietBeforeUpload == Spec => OnlyQuietCollected
  <1>1. QuietInv /\ [Next]_vars => QuietInv'
    BY StepClock, QuietStep DEF QuietInv
  <1>2. QuietInv /\ [Next]_vars => [\A k \in pending' \ pending : quiet[k] = Debounce]_vars
    <2> SUFFICES ASSUME QuietInv, Next, NEW k \in pending' \ pending PROVE quiet[k] = Debounce
      OBVIOUS
    <2>1. /\ deadline \in [Key -> 0..Idle] /\ quiet \in [Key -> 0..Debounce] /\ Debounce \in Nat
          /\ pending \subseteq Key
      BY ClockAssumption DEF QuietInv, ClockInv, TypeOK
    <2>2. k \in Due
      BY DEF Next, Collect, Drained, DrainEnds, WaitOver, Second, Touch
    <2>3. k \in Key /\ deadline[k] = 0
      BY <2>2 DEF Due
    <2>4. quiet[k] < Debounce => deadline[k] = Debounce - quiet[k]
      BY <2>3 DEF QuietInv, DeadlineTracksQuiet
    <2> QED BY <2>1, <2>3, <2>4
  <1> QED BY InitQuiet, <1>1, <1>2, PTL DEF Spec, OnlyQuietCollected

--------------------------------------------------------------------------------
(* AgentClock implements ChangeQueue *)

\* The keys with a deadline ahead.
Ticking == {k \in Key : deadline[k] \in 1..Debounce}

\* Every step of the clocks is one of the abstract queue, or none.
LEMMA ChangeStep == ClockInv /\ [Next]_vars => [Changes!Next]_(Changes!changeVars)
  <1> SUFFICES ASSUME ClockInv, [Next]_vars PROVE [Changes!Next]_(Changes!changeVars)
    OBVIOUS
  <1>1. /\ deadline \in [Key -> 0..Idle] /\ pending \subseteq Key
        /\ Debounce \in Nat /\ Debounce > 0 /\ Idle = Debounce + 1
    BY ClockAssumption DEF ClockInv, TypeOK, Idle
  <1>2. CASE Collect
    <2>1. \A k \in Key : deadline'[k] = IF deadline[k] = 0 THEN Idle ELSE deadline[k]
      BY <1>2 DEF Collect, Due
    <2>2. Ticking' = Ticking /\ Due' = {} /\ pending' = pending \cup Due
      BY <1>1, <1>2, <2>1 DEF Collect, Due, Ticking
    <2> QED BY <2>2 DEF Ticking, Changes!Next, Changes!Collect
  <1>3. CASE Drained
    <2>1. PICK sent \in SUBSET pending :
            \E dropped \in SUBSET (pending \ sent) : DrainEnds(sent, dropped)
      BY <1>3 DEF Drained
    <2>2. PICK dropped \in SUBSET (pending \ sent) : DrainEnds(sent, dropped)
      BY <2>1
    <2> DEFINE S == sent \cup dropped
    <2>3. S \in SUBSET Key /\ pending' = pending \ S /\ deadline' = deadline
      BY <1>1, <1>3, <2>2 DEF DrainEnds, Drained
    <2>4. Ticking' = Ticking /\ Due' = Due
      BY <2>3 DEF Ticking, Due
    <2> HIDE DEF S
    <2>5. Changes!Settle(S)
      BY <2>3, <2>4 DEF Ticking, Changes!Settle
    <2>6. \E T \in SUBSET Key : Changes!Settle(T)
      BY <2>3, <2>5
    <2> QED BY <2>6 DEF Changes!Next
  <1>4. CASE Second
    <2>0. PICK S \in SUBSET Key : S = {k \in Key : deadline[k] = 1}
      OBVIOUS
    <2>1. \A k \in Key : deadline'[k] = IF deadline[k] \in 1..Debounce
                                          THEN deadline[k] - 1 ELSE deadline[k]
      BY <1>4 DEF Second
    <2>2. \A k \in Key : deadline[k] \in Nat
      BY <1>1
    <2>3. /\ S \in SUBSET Key /\ S \subseteq Ticking
          /\ Ticking' = Ticking \ S /\ Due' = Due \cup S /\ pending' = pending
      BY <1>1, <1>4, <2>0, <2>1, <2>2 DEF Second, Due, Ticking
    <2>4. Changes!BecomeQuiet(S)
      BY <2>3 DEF Ticking, Changes!BecomeQuiet
    <2>5. \E T \in SUBSET Key : Changes!BecomeQuiet(T)
      BY <2>3, <2>4
    <2> QED BY <2>5 DEF Changes!Next
  <1>5. ASSUME NEW k \in Key, Touch(k) PROVE [Changes!Next]_(Changes!changeVars)
    <2>1. deadline' = [deadline EXCEPT ![k] = Debounce] /\ pending' = pending
      BY <1>5 DEF Touch
    <2>2. /\ {k} \in SUBSET Key
          /\ Ticking' = Ticking \cup {k} /\ Due' = Due \ {k}
      BY <1>1, <2>1 DEF Due, Ticking
    <2>3. Changes!Changed({k})
      BY <2>1, <2>2 DEF Ticking, Changes!Changed
    <2>4. \E T \in SUBSET Key : Changes!Changed(T)
      BY <2>2, <2>3
    <2> QED BY <2>4 DEF Changes!Next
  <1>6. CASE WaitOver \/ UNCHANGED vars
    <2>1. deadline' = deadline /\ pending' = pending
      BY <1>6 DEF WaitOver, vars
    <2>2. Ticking' = Ticking /\ Due' = Due
      BY <2>1 DEF Ticking, Due
    <2> QED BY <2>1, <2>2 DEF Ticking, Changes!changeVars
  <1> QED BY <1>2, <1>3, <1>4, <1>5, <1>6 DEF Next

\* The clocks implement the abstract queue, for every debounce, tick and backoff: no
\* key leaves the debouncer before its time or to anywhere but the pending list.
THEOREM ClockKeepsChanges == Spec => KeepsChanges
  <1>1. Init => Changes!Init
    <2> SUFFICES ASSUME Init PROVE Changes!Init
      OBVIOUS
    <2>1. /\ \A k \in Key : deadline[k] = Debounce + 1 /\ deadline[k] # 0
          /\ Debounce \in Nat /\ pending = {}
      BY ClockAssumption DEF Init, Idle
    <2>2. Ticking = {} /\ Due = {}
      BY <2>1 DEF Ticking, Due
    <2> QED BY <2>1, <2>2 DEF Ticking, Changes!Init
  <1> QED BY InitClock, StepClock, ChangeStep, <1>1, PTL DEF Spec, KeepsChanges, Changes!Spec
================================================================================

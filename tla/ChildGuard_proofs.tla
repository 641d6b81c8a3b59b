-------------------------- MODULE ChildGuard_proofs --------------------------
(***************************************************************************)
(* Proofs about ChildGuard: wherever a stop request interrupts the main    *)
(* thread, the command it is waiting for has been sent SIGTERM before it   *)
(* settles down, and run_command() leaves nothing running behind it.       *)
(***************************************************************************)
EXTENDS ChildGuard, TLAPS

\* TypeOK, one Boolean variable at a time.
TypeInv ==
  /\ pc \in PCs /\ hpc \in {"none", "set", "terminate", "signal"}
  /\ child \in {"none", "running", "zombie", "reaped"}
  /\ signals \in 0..MaxSignals
  /\ event \in BOOLEAN /\ stopped \in BOOLEAN /\ registered \in BOOLEAN
  /\ found \in BOOLEAN /\ saw \in BOOLEAN /\ grand \in BOOLEAN
  /\ termed \in BOOLEAN /\ killed \in BOOLEAN /\ missed \in BOOLEAN

\* Where in run_command() the guard holds the child, where no child may be left, and
\* where everything that still runs has been killed, if the system let it.
Held == {"registerLocked", "owed", "communicate", "timedOut", "lastRead", "reaped",
         "broken", "raising"}
Idle == {"loop", "eventLocked", "sleep", "start", "startLocked", "spawn", "dead"}

RegisteredInv == registered <=> pc \in Held

Reaped == Idle \cup {"reaped", "clearLocked"}
Doomed == {"lastRead", "raising", "raiseLocked", "exit"}

\* A grandchild outlives its reaped parent only when it has been killed, or could not be.
GoneInv ==
  /\ pc \in Reaped => child \in {"none", "reaped"}
  /\ pc \in Doomed \/ child \in {"none", "reaped"} => (grand => killed \/ missed)

\* A stop request the command has not been told of is still on its way to it: the
\* handler has found the child, or start() has seen the flag.
OwedInv ==
  stopped /\ child = "running" /\ pc \in {"owed", "communicate"} =>
    termed \/ (hpc = "signal" /\ found) \/ (pc = "owed" /\ saw)

GuardInv == TypeInv /\ RegisteredInv /\ GoneInv /\ OwedInv

\* What a signal to the group does to the child, whatever the system.
LEMMA GroupSignalled ==
  ASSUME TypeInv, NEW sig \in {"TERM", "KILL"}, SignalGroup(sig)
  PROVE  /\ grand' = grand
         /\ child' \in {child, "reaped"}
         /\ child \in {"none", "reaped"} => child' = child
         /\ termed' \in BOOLEAN /\ killed' \in BOOLEAN /\ missed' \in BOOLEAN
         /\ termed => termed'
         /\ killed => killed'
         /\ missed => missed'
         /\ child' = "reaped" => child = "reaped" \/ missed'
         /\ sig = "KILL" => killed' \/ missed' \/ child = "reaped"
         /\ child' = "running" /\ sig = "TERM" => termed'
  BY DEF SignalGroup, TypeInv

\* Every step keeps the types.
LEMMA TypeStep == GuardInv /\ [Next]_vars => TypeInv'
  <1> SUFFICES ASSUME GuardInv, [Next]_vars PROVE TypeInv'
    OBVIOUS
  <1>1. TypeInv
    BY DEF GuardInv
  <1> USE DEF MainAt, handlerVars, guardVars, groupVars, PCs
  <1>2. CASE EnterWait \/ Sleep \/ WakeUp \/ LeaveWait \/ RunCommand \/ StartLock \/ StartRefused
             \/ StartAllowed \/ SpawnFails \/ TimeLimit \/ Return \/ ClearBroken \/ Leave
    BY <1>1, <1>2 DEF EnterWait, Sleep, WakeUp, LeaveWait, RunCommand, StartLock, StartRefused,
       StartAllowed, SpawnFails, TimeLimit, Return, ClearBroken, Leave, TypeInv
  <1>3. CASE Spawn \/ Register \/ LookAgain \/ Clear \/ Restart
    <2>1. CASE Spawn \/ Register \/ LookAgain
      <3>1. CASE Spawn
        <4>1. /\ pc' \in PCs /\ child' = "running" /\ grand' \in BOOLEAN
              /\ termed' = FALSE /\ killed' = FALSE /\ missed' = FALSE
              /\ UNCHANGED <<handlerVars, guardVars, saw>>
          BY <3>1 DEF Spawn
        <4> QED BY <1>1, <4>1 DEF TypeInv
      <3>2. CASE Register
        BY <1>1, <3>2 DEF Register, TypeInv
      <3>3. CASE LookAgain
        BY <1>1, <3>3 DEF LookAgain, TypeInv
      <3> QED BY <2>1, <3>1, <3>2, <3>3
    <2>2. CASE Clear
      <3>1. PICK from, to \in PCs : /\ MainAt(from, to)
                                     /\ registered' = FALSE /\ UNCHANGED <<stopped, saw, groupVars>>
        BY <2>2, Zenon DEF Clear
      <3>2. /\ pc' \in PCs /\ registered' = FALSE
            /\ UNCHANGED <<handlerVars, stopped, saw, groupVars>>
        BY <3>1 DEF MainAt
      <3> QED BY <1>1, <3>2 DEF TypeInv
    <2>3. CASE Restart
      <3>1. signals' \in 0..MaxSignals
        BY <2>3, GuardAssumption DEF Restart
      <3> QED BY <1>1, <2>3, <3>1 DEF Restart, TypeInv
    <2> QED BY <1>3, <2>1, <2>2, <2>3
  <1>4. CASE SignalIfOwed
    BY <1>1, <1>4, GroupSignalled DEF SignalIfOwed, TypeInv
  <1>5. CASE KillGroup \/ KillBroken
    BY <1>1, <1>5, GroupSignalled DEF KillGroup, KillBroken, TypeInv
  <1>6. CASE Communicated \/ LastRead \/ OutputBreaks \/ LastReadBreaks \/ Escape
    BY <1>1, <1>6 DEF Communicated, LastRead, OutputBreaks, LastReadBreaks, Reap, Break, Escape, TypeInv
  <1>7. CASE Arrive \/ SetEvent \/ Terminate
    <2>1. CASE Arrive
      <3>1. signals' \in 0..MaxSignals
        BY <1>1, <2>1, GuardAssumption DEF Arrive, TypeInv
      <3> QED BY <1>1, <2>1, <3>1 DEF Arrive, TypeInv
    <2>2. CASE SetEvent
      BY <1>1, <2>2 DEF SetEvent, TypeInv
    <2>3. CASE Terminate
      BY <1>1, <2>3 DEF Terminate, TypeInv
    <2> QED BY <1>7, <2>1, <2>2, <2>3
  <1>8. CASE SignalFound
    <2>1. /\ hpc' = "none" /\ found' = FALSE
          /\ UNCHANGED <<pc, signals, event, stopped, registered, saw>>
      BY <1>8 DEF SignalFound
    <2>2. CASE found
      BY <1>1, <1>8, <2>1, <2>2, GroupSignalled DEF SignalFound, TypeInv
    <2>3. CASE ~found
      BY <1>1, <1>8, <2>1, <2>3 DEF SignalFound, TypeInv
    <2> QED BY <2>2, <2>3
  <1>9. CASE ChildEnds \/ GrandEnds
    <2>1. /\ child' \in {child, "zombie"} /\ grand' \in {grand, FALSE}
          /\ UNCHANGED <<pc, handlerVars, guardVars, saw, termed, killed, missed>>
      BY <1>9 DEF ChildEnds, GrandEnds
    <2>2. grand' \in BOOLEAN
      BY <1>1, <2>1 DEF TypeInv
    <2>3. child' \in {"none", "running", "zombie", "reaped"}
      BY <1>1, <2>1 DEF TypeInv
    <2> QED BY <1>1, <2>1, <2>2, <2>3 DEF TypeInv
  <1>10. CASE UNCHANGED vars
    BY <1>1, <1>10 DEF vars, TypeInv
  <1> QED BY <1>2, <1>3, <1>4, <1>5, <1>6, <1>7, <1>8, <1>9, <1>10 DEF Next, Main, Handler

\* Every step keeps the rest.
LEMMA GuardStep ==
  GuardInv /\ [Next]_vars => RegisteredInv' /\ GoneInv' /\ OwedInv'
  <1> SUFFICES ASSUME GuardInv, [Next]_vars PROVE RegisteredInv' /\ GoneInv' /\ OwedInv'
    OBVIOUS
  <1>1. TypeInv /\ RegisteredInv /\ GoneInv /\ OwedInv
    BY DEF GuardInv
  <1> USE DEF MainAt, handlerVars, guardVars, groupVars, Held, Idle, Reaped, Doomed, RegisteredInv, GoneInv, OwedInv
  <1>2. CASE EnterWait \/ Sleep \/ WakeUp \/ LeaveWait \/ RunCommand \/ StartLock \/ StartRefused
             \/ StartAllowed \/ SpawnFails \/ TimeLimit \/ Return \/ ClearBroken \/ Leave
    BY <1>1, <1>2 DEF EnterWait, Sleep, WakeUp, LeaveWait, RunCommand, StartLock, StartRefused,
       StartAllowed, SpawnFails, TimeLimit, Return, ClearBroken, Leave
  <1>3. CASE Spawn \/ Register \/ LookAgain \/ Clear \/ Restart
    BY <1>1, <1>3 DEF Spawn, Register, LookAgain, Clear, ToClear, Restart
  <1>4. CASE SignalIfOwed
    BY <1>1, <1>4, GroupSignalled DEF SignalIfOwed
  <1>5. CASE KillGroup \/ KillBroken
    <2>1. /\ pc \in {"timedOut", "broken"} /\ pc' \in {"lastRead", "raising"}
          /\ UNCHANGED <<hpc, found, stopped, registered, saw>> /\ SignalGroup("KILL")
      BY <1>5 DEF KillGroup, KillBroken
    <2>2. /\ grand' => grand
          /\ killed' \/ missed' \/ child = "reaped"
          /\ killed => killed'
          /\ missed => missed'
      BY <1>1, <2>1, GroupSignalled
    <2>3. child = "reaped" => (grand => killed \/ missed)
      BY <1>1
    <2>4. grand' => killed' \/ missed'
      BY <2>2, <2>3, Zenon
    <2>5. GoneInv'
      <3>1. pc' \notin Reaped
        BY <2>1
      <3> QED BY <2>4, <3>1, Zenon
    <2>6. OwedInv'
      BY <2>1
    <2>7. RegisteredInv'
      BY <1>1, <2>1
    <2> QED BY <2>5, <2>6, <2>7
  <1>6. CASE Communicated \/ LastRead \/ OutputBreaks \/ LastReadBreaks \/ Escape
    <2>1. CASE Communicated \/ LastRead
      BY <1>1, <2>1 DEF Communicated, LastRead, Reap
    <2>2. CASE OutputBreaks \/ LastReadBreaks
      BY <1>1, <2>2 DEF OutputBreaks, LastReadBreaks, Break
    <2>3. CASE Escape
      BY <1>1, <2>3 DEF Escape
    <2> QED BY <1>6, <2>1, <2>2, <2>3
  <1>7. CASE Arrive \/ SetEvent \/ Terminate
    BY <1>1, <1>7 DEF Arrive, SetEvent, Terminate
  <1>8. CASE SignalFound
    <2>1. /\ hpc' = "none" /\ hpc = "signal" /\ UNCHANGED <<pc, stopped, registered, saw>>
      BY <1>8 DEF SignalFound
    <2>2. CASE found
      <3>1. SignalGroup("TERM")
        BY <1>8, <2>2 DEF SignalFound
      <3>2. /\ grand' = grand /\ child' \in {child, "reaped"}
            /\ child \in {"none", "reaped"} => child' = child
            /\ killed => killed'
            /\ missed => missed'
            /\ child' = "reaped" => child = "reaped" \/ missed'
            /\ child' = "running" => termed'
        BY <1>1, <3>1, GroupSignalled
      <3>3. RegisteredInv' /\ OwedInv'
        BY <1>1, <2>1, <3>2
      <3>4. child' \in {"none", "reaped"} => (grand' => killed' \/ missed')
        BY <1>1, <3>2
      <3>5. GoneInv'
        BY <1>1, <2>1, <3>2, <3>4
      <3> QED BY <3>3, <3>5
    <2>3. CASE ~found
      BY <1>1, <1>8, <2>3 DEF SignalFound
    <2> QED BY <2>2, <2>3
  <1>9. CASE ChildEnds \/ GrandEnds
    BY <1>1, <1>9 DEF ChildEnds, GrandEnds
  <1>10. CASE UNCHANGED vars
    BY <1>1, <1>10 DEF vars
  <1> QED BY <1>2, <1>3, <1>4, <1>5, <1>6, <1>7, <1>8, <1>9, <1>10 DEF Next, Main, Handler

\* The guard's bookkeeping, wherever the handler comes in.
THEOREM GuardInvariant == Spec => []GuardInv
  <1>1. Init => GuardInv
    <2>1. Init => TypeInv
      <3>1. Init => signals \in 0..MaxSignals
        BY GuardAssumption DEF Init
      <3> QED BY <3>1 DEF Init, TypeInv, PCs
    <2>2. Init => RegisteredInv /\ GoneInv /\ OwedInv
      BY DEF Init, RegisteredInv, GoneInv, OwedInv, Held, Idle, Reaped, Doomed
    <2> QED BY <2>1, <2>2 DEF GuardInv
  <1>2. GuardInv /\ [Next]_vars => GuardInv'
    BY TypeStep, GuardStep DEF GuardInv
  <1> QED BY <1>1, <1>2, PTL DEF Spec

\* Every variable of the guard keeps its type.
THEOREM GuardTypeCorrect == Spec => []TypeOK
  <1>1. GuardInv => TypeOK
    BY DEF GuardInv, TypeInv, TypeOK
  <1> QED BY GuardInvariant, <1>1, PTL

\* No stop request slips past the command the main thread waits for, for any number
\* of requests and on either kind of system.
THEOREM StopNeverMissed == Spec => []StopReachesChild
  <1>1. GuardInv => StopReachesChild
    BY DEF GuardInv, OwedInv, StopReachesChild
  <1> QED BY GuardInvariant, <1>1, PTL

\* run_command() leaves no child and no registration behind, and no grandchild it could
\* have killed and did not, on every way out of it: a result, the time limit, or any
\* exception, raised while the command still runs or after it has ended.
THEOREM CommandCleansUp == Spec => []NothingLeftBehind
  <1>1. GuardInv => NothingLeftBehind
    BY DEF GuardInv, RegisteredInv, GoneInv, Held, Idle, Reaped, NothingLeftBehind
  <1> QED BY GuardInvariant, <1>1, PTL
================================================================================

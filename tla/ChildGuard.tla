------------------------------ MODULE ChildGuard ------------------------------
(***************************************************************************)
(* Stopping the agent while it runs a command: _ChildGuard and             *)
(* run_command() of uploader.py, request_stop() and the stop.wait() of     *)
(* agent/main.py, at the grain at which Python lets a signal handler in.   *)
(* The handler runs on the main thread, between two of its steps, and the  *)
(* main thread stands still until it returns.  SyncAgent sees all of this  *)
(* as one step, and an exception that leaves run_command() as a Crash.     *)
(*                                                                         *)
(* The command is a child (rsync) with a grandchild (ssh) that inherits    *)
(* its pipes; communicate() ends when both have closed them.               *)
(***************************************************************************)
EXTENDS Naturals

CONSTANTS
  ZombieGroup,  \* {TRUE} where the system knows the group of a zombie (Linux),
                \* {FALSE} where it does not (macOS), BOOLEAN for either
  MaxSignals    \* bound: stop requests that arrive

ASSUME GuardAssumption ==
  ZombieGroup \subseteq BOOLEAN /\ ZombieGroup # {} /\ MaxSignals \in Nat

VARIABLES
  pc,          \* where the main thread is in _run_loop() or run_command()
  hpc,         \* where the handler is; "none" when no handler runs
  signals,     \* stop requests that have arrived
  event,       \* state.stop is set
  stopped,     \* _ChildGuard._stopped
  registered,  \* _ChildGuard._process is the current child
  found,       \* the handler's local: terminate() found a process to signal
  saw,         \* start()'s local: _stopped, as read when it registered
  child,       \* the child process
  grand,       \* the grandchild lives
  termed,      \* the child's group has been sent SIGTERM
  killed,      \* the child's group has been sent SIGKILL
  missed       \* history: a signal found a zombie whose group the system does not know

vars == <<pc, hpc, signals, event, stopped, registered, found, saw, child, grand, termed,
          killed, missed>>
guardVars == <<stopped, registered>>
groupVars == <<child, grand, termed, killed, missed>>
handlerVars == <<hpc, signals, event, found>>

PCs == {"loop", "eventLocked", "sleep", "start", "startLocked", "spawn", "spawned",
        "registerLocked", "owed", "communicate", "timedOut", "lastRead", "reaped",
        "clearLocked", "broken", "raising", "raiseLocked", "exit", "dead"}

Init ==
  /\ pc = "loop" /\ hpc = "none" /\ signals = 0 /\ event = FALSE
  /\ stopped = FALSE /\ registered = FALSE /\ found = FALSE /\ saw = FALSE
  /\ child = "none" /\ grand = FALSE /\ termed = FALSE /\ killed = FALSE
  /\ missed = FALSE

--------------------------------------------------------------------------------
(* Signals to the child's group *)

\* _signal_child_group(): getpgid() and killpg().  Where the system does not know
\* the group of a zombie, send_signal() polls, which reaps it, and signals nobody.
\* Once the child is reaped getpgid() fails and so does send_signal().
SignalGroup(sig) ==
  /\ grand' = grand
  /\ \/ /\ child = "running" \/ (child = "zombie" /\ TRUE \in ZombieGroup)
        /\ termed' = (termed \/ sig = "TERM") /\ killed' = (killed \/ sig = "KILL")
        /\ UNCHANGED <<child, missed>>
     \/ /\ child = "reaped" \/ (child = "zombie" /\ FALSE \in ZombieGroup)
        /\ child' = "reaped" /\ missed' = (missed \/ child = "zombie")
        /\ UNCHANGED <<termed, killed>>

--------------------------------------------------------------------------------
(* The main thread; it moves only while no handler runs *)

MainAt(from, to) == pc = from /\ hpc = "none" /\ pc' = to /\ UNCHANGED handlerVars

\* stop.wait(): the event's lock is held on the way in and on the way out.
EnterWait == MainAt("loop", "eventLocked") /\ UNCHANGED <<guardVars, saw, groupVars>>
Sleep == MainAt("eventLocked", "sleep") /\ ~event /\ UNCHANGED <<guardVars, saw, groupVars>>
WakeUp == MainAt("sleep", "eventLocked") /\ UNCHANGED <<guardVars, saw, groupVars>>
LeaveWait == MainAt("eventLocked", "loop") /\ UNCHANGED <<guardVars, saw, groupVars>>

RunCommand == MainAt("loop", "start") /\ UNCHANGED <<guardVars, saw, groupVars>>

\* _ChildGuard.start(): first the stop flag, under the lock.
StartLock == MainAt("start", "startLocked") /\ UNCHANGED <<guardVars, saw, groupVars>>
StartRefused == /\ stopped /\ MainAt("startLocked", "loop")
                /\ UNCHANGED <<guardVars, saw, groupVars>>
StartAllowed == /\ ~stopped /\ MainAt("startLocked", "spawn")
                /\ UNCHANGED <<guardVars, saw, groupVars>>

\* Popen(), outside the lock.  From here on the group is the new command's; what an
\* earlier one may have left of its own is not followed any further.
Spawn == /\ MainAt("spawn", "spawned")
         /\ child' = "running" /\ grand' \in BOOLEAN
         /\ termed' = FALSE /\ killed' = FALSE /\ missed' = FALSE
         /\ UNCHANGED <<guardVars, saw>>
\* Mutant: the OSError leaves run_command().
SpawnFailsHard == MainAt("spawn", "failed") /\ UNCHANGED <<guardVars, saw, groupVars>>
SpawnFails == MainAt("spawn", "loop") /\ UNCHANGED <<guardVars, saw, groupVars>>

\* Registration, and the second look at the stop flag, under the lock.
Register == /\ MainAt("spawned", "registerLocked")
            /\ registered' = TRUE /\ UNCHANGED <<stopped, saw, groupVars>>
\* Mutant: start() does not look at the stop flag a second time.
LookOnce == /\ MainAt("registerLocked", "owed")
            /\ saw' = FALSE /\ UNCHANGED <<guardVars, groupVars>>
LookAgain == /\ MainAt("registerLocked", "owed")
             /\ saw' = stopped /\ UNCHANGED <<guardVars, groupVars>>
SignalIfOwed == /\ MainAt("owed", "communicate")
                /\ IF saw THEN SignalGroup("TERM") ELSE UNCHANGED groupVars
                /\ UNCHANGED <<guardVars, saw>>

\* communicate() returns at the end of the pipes and reaps the child.
Reap(from, to) ==
  /\ MainAt(from, to)
  /\ child \in {"zombie", "reaped"} /\ ~grand
  /\ child' = "reaped" /\ UNCHANGED <<guardVars, saw, grand, termed, killed, missed>>
Communicated == Reap("communicate", "reaped")
TimeLimit == MainAt("communicate", "timedOut") /\ UNCHANGED <<guardVars, saw, groupVars>>
KillGroup == /\ MainAt("timedOut", "lastRead")
             /\ SignalGroup("KILL") /\ UNCHANGED <<guardVars, saw>>
LastRead == Reap("lastRead", "reaped")

\* Anything else communicate() raises, at any moment and whatever has become of the
\* child (no memory, an OSError), or when it has reaped the child (output that is not
\* in the locale's encoding).  Such an exception of the second communicate() passes
\* the handlers of the first one by.
Break(from, to) ==
  /\ MainAt(from, to)
  /\ child' = child \/ (child = "zombie" /\ ~grand /\ child' = "reaped")
  /\ UNCHANGED <<guardVars, saw, grand, termed, killed, missed>>
OutputBreaks == Break("communicate", "broken")
\* Mutant: only the guard is cleared.
KillNobodyBroken == MainAt("broken", "raising") /\ UNCHANGED <<guardVars, saw, groupVars>>
KillBroken == /\ MainAt("broken", "raising")
              /\ SignalGroup("KILL") /\ UNCHANGED <<guardVars, saw>>
LastReadBreaks == Break("lastRead", "raising")

\* Where clear() leads to when the command has ended, or an exception is on its way.
ToClear(from, to) ==
  <<from, to>> \in {<<"reaped", "clearLocked">>, <<"raising", "raiseLocked">>}

\* clear() in the finally clause, then the return to the loop.
Clear ==
  \E from, to \in PCs : /\ ToClear(from, to) /\ MainAt(from, to)
                        /\ registered' = FALSE /\ UNCHANGED <<stopped, saw, groupVars>>
Return == MainAt("clearLocked", "loop") /\ UNCHANGED <<guardVars, saw, groupVars>>

ClearBroken == MainAt("raiseLocked", "exit") /\ UNCHANGED <<guardVars, saw, groupVars>>

\* The with statement closes the pipes and waits for the child, without a limit and
\* when the guard no longer knows it.  upload() takes an OSError for a command that
\* cannot be run; nobody catches anything else, and it ends the daemon.
Escape == \E to \in {"loop", "dead"} :
  /\ MainAt("exit", to)
  /\ child \in {"zombie", "reaped"} /\ child' = "reaped"
  /\ UNCHANGED <<guardVars, saw, grand, termed, killed, missed>>

\* _run_loop() sees the stop event.
Leave == MainAt("loop", "dead") /\ event /\ UNCHANGED <<guardVars, saw, groupVars>>

\* launchd starts the daemon again: a new event, and main() resets the guard.
Restart ==
  /\ pc = "dead" /\ pc' = "loop"
  /\ signals' = 0 /\ event' = FALSE /\ stopped' = FALSE /\ registered' = FALSE
  /\ UNCHANGED <<hpc, found, saw, groupVars>>

--------------------------------------------------------------------------------
(* The signal handler *)

\* A signal arrives: request_stop() begins.
Arrive ==
  /\ pc # "dead" /\ hpc = "none" /\ hpc' = "set"
  /\ signals < MaxSignals /\ signals' = signals + 1
  /\ UNCHANGED <<pc, event, found, guardVars, saw, groupVars>>

\* state.stop.set() takes the event's lock, which is not reentrant.
SetEvent ==
  /\ hpc = "set" /\ pc # "eventLocked"
  /\ hpc' = "terminate" /\ event' = TRUE
  /\ UNCHANGED <<pc, signals, found, guardVars, saw, groupVars>>

\* Mutant: the guard's lock is a plain Lock.
LockFreePlain == pc \notin {"startLocked", "registerLocked", "clearLocked"}

\* terminate() can take the guard's lock also when the main thread holds it.
LockFree == TRUE

Terminate ==
  /\ hpc = "terminate" /\ LockFree
  /\ hpc' = "signal"
  /\ stopped' = TRUE /\ found' = registered
  /\ UNCHANGED <<pc, signals, event, registered, saw, groupVars>>

SignalFound ==
  /\ hpc = "signal"
  /\ hpc' = "none" /\ found' = FALSE
  /\ IF found THEN SignalGroup("TERM") ELSE UNCHANGED groupVars
  /\ UNCHANGED <<pc, signals, event, guardVars, saw>>

--------------------------------------------------------------------------------
(* The child and the grandchild *)

ChildEnds ==
  /\ child = "running" /\ child' = "zombie"
  /\ UNCHANGED <<pc, handlerVars, guardVars, saw, grand, termed, killed, missed>>

GrandEnds ==
  /\ grand /\ grand' = FALSE
  /\ UNCHANGED <<pc, handlerVars, guardVars, saw, child, termed, killed, missed>>

--------------------------------------------------------------------------------
Main ==
  \/ EnterWait \/ Sleep \/ WakeUp \/ LeaveWait \/ RunCommand
  \/ StartLock \/ StartRefused \/ StartAllowed \/ Spawn \/ SpawnFails
  \/ Register \/ LookAgain \/ SignalIfOwed
  \/ Communicated \/ TimeLimit \/ KillGroup \/ LastRead \/ Clear \/ Return
  \/ OutputBreaks \/ KillBroken \/ LastReadBreaks \/ ClearBroken \/ Escape \/ Leave
Handler == SetEvent \/ Terminate \/ SignalFound

Next == Main \/ Restart \/ Arrive \/ Handler \/ ChildEnds \/ GrandEnds

Spec == Init /\ [][Next]_vars

\* The main thread and the handler go on, which includes that the time limit of
\* communicate() is reached, and SIGKILL ends what it reaches.  No command is
\* assumed to obey SIGTERM.
FairSpec ==
  /\ Spec /\ WF_vars(Main) /\ WF_vars(Handler)
  /\ WF_vars(killed /\ ChildEnds) /\ WF_vars(killed /\ GrandEnds)

--------------------------------------------------------------------------------
(* Properties *)

TypeOK ==
  /\ pc \in PCs /\ hpc \in {"none", "set", "terminate", "signal"}
  /\ child \in {"none", "running", "zombie", "reaped"}
  /\ signals \in 0..MaxSignals
  /\ {event, stopped, registered, found, saw, grand, termed, killed, missed} \subseteq BOOLEAN

\* No stop request slips through the gap between Popen() and the registration:
\* when the main thread settles down to wait for a command and no handler is at
\* work, a command that outlives a stop request has been sent SIGTERM.
StopReachesChild ==
  pc = "communicate" /\ hpc = "none" /\ stopped /\ child = "running" => termed

\* run_command() leaves nothing running, whatever exception it is left with, also one
\* that is raised while the command still runs: outside it the child has been reaped,
\* the guard holds no process that has ended, and a grandchild that lives has been
\* sent SIGKILL.  The exception is a child that had ended before its grandchild, on a
\* system that does not know the group of a zombie.
NothingLeftBehind ==
  pc \in {"loop", "eventLocked", "sleep", "start", "startLocked", "spawn", "dead"} =>
    child \in {"none", "reaped"} /\ ~registered /\ (grand => killed \/ missed)

\* The handler waits for the event's lock, which the thread it interrupted holds
\* inside stop.wait(): that lock is not reentrant.
Hung == hpc = "set" /\ pc = "eventLocked"

\* The child was reaped while the grandchild lives, and nobody can signal it any more.
Orphaned == missed /\ grand /\ ~killed

\* _ChildGuard's comment: a handler that comes in while run_command() holds the
\* guard's lock does not hang.  It does hang when it comes in while stop.wait()
\* holds the event's lock, and only then.
HandlerReturns == hpc # "none" ~> hpc = "none" \/ Hung

================================================================================

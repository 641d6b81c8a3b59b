------------------------------- MODULE SyncAgent -------------------------------
(***************************************************************************)
(* The laptop daemon of private-sync: agent/main.py with pending.py, the   *)
(* debouncer and target matching of watcher.py, config_watch.py and the    *)
(* upload() of uploader.py.                                                *)
(*                                                                         *)
(* Four parties take steps.  The MAIN THREAD runs main(), _run_loop() and  *)
(* what they call; "pc" is the place it has reached.  The OBSERVER THREAD  *)
(* of watchdog dispatches file events to _EventHandler.  The COMMAND the   *)
(* main thread waits for (ssh, then rsync) copies files and ends in one of *)
(* several ways.  The WORLD changes files, saves agent.yaml, sends SIGTERM *)
(* and kills the process.                                                  *)
(*                                                                         *)
(* What is uploaded is abstracted to one bit per copy: <<r, i, f>> is in   *)
(* "stale" when the copy of file f kept under item i on remote r is not    *)
(* the file the laptop has now.                                            *)
(***************************************************************************)
EXTENDS Naturals, Sequences

CONSTANTS
  File,         \* files of the laptop
  Item,         \* the (label, path) pairs any configuration names
  Label, LabelOf,       \* LabelOf[i]: the label of item i
  FilesOf,      \* FilesOf[i]: the files at or below the path of item i
  Watch,        \* the (watch_dir, recursive) pairs that can be scheduled
  WatchOf,      \* WatchOf[i]: the watch build_targets() chooses for item i
  Reports,      \* Reports[w]: the files whose events watch w reports
  Rank,         \* Rank[i]: the place of i in the order of PendingItem
  Content,      \* what agent.yaml may hold; Absent is no file at all
  Absent,
  Outcome,      \* Outcome[c]: how load_agent_config() ends on content c
  Remote, RemoteOf,     \* RemoteOf[c]: the server of configuration c
  TargetsOf,    \* TargetsOf[c]: its items, in the order of build_targets()
  Excluded,     \* Excluded[c][i]: files of i its exclude rules leave out
  Endings,      \* the ways a command may end by itself
  CutEndings,   \* the ways a command may end after our SIGTERM
  Faults        \* the other faults this instance allows

\* A command ends "ok" or fails as upload() tells failures apart: ssh exit 255,
\* rsync exit 10/12/30/35, our time limit, -SIGTERM/-SIGINT/-SIGHUP, a command
\* that traps the signal and exits with a code of its own, any other exit code
\* (a crash included), or an OSError from spawning it.
Ending == {"ok", "connection", "netIo", "timeout", "ownSignal", "trapped",
           "broken", "unspawnable"}

FaultKind == {"flush", "unreadableState", "watchFails", "crash", "earlyEdit"}

Loadable == {c \in Content : Outcome[c] = "ok"}

ASSUME ConstantsAssumption ==
  /\ LabelOf \in [Item -> Label]
  /\ FilesOf \in [Item -> SUBSET File]
  /\ WatchOf \in [Item -> Watch]
  /\ Reports \in [Watch -> SUBSET File]
  /\ \A i \in Item : FilesOf[i] \subseteq Reports[WatchOf[i]]
  /\ Rank \in [Item -> Nat]
  /\ \A i, j \in Item : Rank[i] = Rank[j] => i = j
  /\ Outcome \in [Content -> {"ok", "ConfigError", "OSError", "other"}]
  /\ Absent \in Content => Outcome[Absent] = "ConfigError"
  /\ RemoteOf \in [Loadable -> Remote]
  /\ TargetsOf \in [Loadable -> Seq(Item)]
  /\ Excluded \in [Loadable -> [Item -> SUBSET File]]
  /\ Loadable # {}
  /\ "ok" \in Endings /\ Endings \subseteq Ending
  /\ CutEndings \subseteq Ending
  /\ Faults \subseteq FaultKind

VARIABLES
  stale,     \* copies on a server that are not the laptop's current file
  cfgFile,   \* content of agent.yaml
  unseen,    \* its mtime differs from the one ConfigWatcher remembers
  lastRead,  \* history: the content the last load_agent_config() read
  config,    \* configuration of the worker and of the handler
  known,     \* runtime.config, with runtime.targets built from it
  watches,   \* watches the observer has registered
  events,    \* (watch, file) events read by the observer, not yet dispatched
  matched,   \* the item an event has been matched with, not yet touch()ed
  deb,       \* deb[i]: state of i's deadline in the debouncer
  pending,   \* PendingStore._items
  disk,      \* the items pending.json holds
  pc,        \* where the main thread is
  queue,     \* items it is about to enqueue (initial, newly added or due)
  after,     \* where it goes once they are enqueued
  todo,      \* what is left of the snapshot drain() iterates over
  sending,   \* files the running rsync has yet to handle
  stop,      \* the stop event, and the guard's _stopped, are set
  cut,       \* our SIGTERM has reached the running command
  forfeit    \* history: <<i, reason>>, an update of i nobody will act on

vars == <<stale, cfgFile, unseen, lastRead, config, known, watches, events,
          matched, deb, pending, disk, pc, queue, after, todo, sending, stop, cut,
          forfeit>>

worldVars == <<stale, cfgFile, unseen>>
configVars == <<lastRead, config, known>>
watchVars == <<watches, events, matched, deb>>
outside == <<worldVars, configVars, watchVars>>  \* what drain() leaves alone
storeVars == <<pending, disk>>
loopVars == <<queue, after>>
uploadVars == <<todo, sending, cut>>

--------------------------------------------------------------------------------
(* Targets, exclude rules and order *)

Targets(c) == {TargetsOf[c][k] : k \in DOMAIN TargetsOf[c]}

WatchesOf(c) == {WatchOf[i] : i \in Targets(c)}

Wanted(c, i) == FilesOf[i] \ Excluded[c][i]

\* match_target() stops at the first target that covers the file.
Matches(c, f, i) ==
  \E k \in DOMAIN TargetsOf[c] :
    /\ TargetsOf[c][k] = i
    /\ f \in Wanted(c, i)
    /\ \A j \in 1..(k - 1) : f \notin Wanted(c, TargetsOf[c][j])

\* PendingStore.items() is sorted: i is the item drain() is at.
Current(i) == i \in todo /\ \A j \in todo : Rank[i] <= Rank[j]

KnownLabel(c, i) == \E j \in Targets(c) : LabelOf[j] = LabelOf[i]

Reasons == {"dropped", "shadowed", "unwatched", "unexcluded"}

AllFiles == {p \in Item \X File : p[2] \in FilesOf[p[1]]}

--------------------------------------------------------------------------------
Init ==
  /\ stale = {<<r, p[1], p[2]>> : r \in Remote, p \in AllFiles}
  /\ cfgFile \in Loadable /\ unseen = FALSE /\ lastRead = cfgFile
  /\ config = cfgFile /\ known = cfgFile
  /\ watches = {} /\ events = {} /\ matched = {} /\ deb = [i \in Item |-> "idle"]
  /\ pending = {} /\ disk \in SUBSET Item   \* what an earlier configuration left
  /\ pc = "off" /\ queue = {} /\ after = "off"
  /\ todo = {} /\ sending = {} /\ stop = FALSE /\ cut = FALSE
  /\ forfeit = {}

\* The process is gone, and with it everything that lives in its memory.
GoOff ==
  /\ pc' = "off" /\ after' = "off" /\ queue' = {} /\ todo' = {}
  /\ sending' = {} /\ cut' = FALSE /\ stop' = FALSE
  /\ watches' = {} /\ events' = {} /\ matched' = {} /\ deb' = [i \in Item |-> "idle"]
  /\ pending' = {} /\ forfeit' = {}
  /\ UNCHANGED <<worldVars, configVars, disk>>

\* PendingStore._flush(): the file is replaced as a whole, and an OSError is
\* swallowed, which leaves the old file.
Flush(items) == disk' = items \/ ("flush" \in Faults /\ disk' = disk)

--------------------------------------------------------------------------------
(* The main thread: main() *)

\* launchd starts the daemon.  With a file it cannot load it exits again.
Boot ==
  /\ pc = "off" /\ Outcome[cfgFile] = "ok"
  /\ config' = cfgFile /\ known' = cfgFile /\ lastRead' = cfgFile
  /\ pc' = "booted"
  /\ UNCHANGED <<worldVars, watchVars, storeVars, loopVars, uploadVars, stop,
                 forfeit>>

\* pending.load(), the mtime ConfigWatcher starts from, the signal handlers.
Arm ==
  /\ pc = "booted"
  /\ pending' = disk \/ ("unreadableState" \in Faults /\ pending' = {})
  /\ unseen' = FALSE
  /\ pc' = "armed"
  /\ UNCHANGED <<stale, cfgFile, configVars, watchVars, disk, loopVars,
                 uploadVars, stop, forfeit>>

\* Mutant: queue_initial_sync() is left out.
StartWithoutSync ==
  /\ pc = "armed"
  /\ watches' = WatchesOf(config)
  /\ queue' = {} /\ after' = "check" /\ pc' = "enqueue"
  /\ UNCHANGED <<worldVars, configVars, events, matched, deb, storeVars, uploadVars, stop,
                 forfeit>>

\* observer.start(), which registers the scheduled watches, then
\* queue_initial_sync(), which enqueues every target.
Start ==
  /\ pc = "armed"
  /\ \/ /\ watches' = WatchesOf(config)
        /\ queue' = Targets(config) /\ after' = "check" /\ pc' = "enqueue"
        /\ UNCHANGED <<worldVars, configVars, events, matched, deb, storeVars,
                       uploadVars, stop, forfeit>>
     \/ "watchFails" \in Faults /\ GoOff

\* SyncWorker.enqueue() for the next item of a for loop over "queue".
EnqueueNext ==
  /\ pc = "enqueue"
  /\ \E i \in queue :
       /\ queue' = queue \ {i}
       /\ pending' = pending \cup {i}
       /\ Flush(pending')
       /\ forfeit' = {x \in forfeit : x[1] # i}
  /\ UNCHANGED <<outside, pc, after, uploadVars, stop>>

Enqueued ==
  /\ pc = "enqueue" /\ queue = {}
  /\ pc' = after /\ after' = "off"
  /\ UNCHANGED <<outside, storeVars, queue, uploadVars, stop, forfeit>>

(* The main thread: _run_loop() and _reload_config() *)

\* Mutant: the loop goes on until nothing is pending.
StopWhenEmpty == pc = "check" /\ stop /\ pending = {} /\ GoOff

StopSeen == pc = "check" /\ stop /\ GoOff

\* Mutant: agent.yaml is polled only while nothing is pending.
CheckWhenIdle ==
  /\ pc = "check" /\ ~stop
  /\ IF unseen /\ cfgFile # Absent /\ pending = {}
       THEN unseen' = FALSE /\ pc' = "reload"
       ELSE unseen' = unseen /\ pc' = "collect"
  /\ UNCHANGED <<stale, cfgFile, configVars, watchVars, storeVars, loopVars,
                 uploadVars, stop, forfeit>>

\* ConfigWatcher.changed(): a vanished file is remembered as vanished, so any
\* file that comes back counts as changed, and is not a change itself.
Check ==
  /\ pc = "check" /\ ~stop
  /\ IF unseen /\ cfgFile # Absent
       THEN unseen' = FALSE /\ pc' = "reload"
       ELSE unseen' = unseen /\ pc' = "collect"
  /\ UNCHANGED <<stale, cfgFile, configVars, watchVars, storeVars, loopVars,
                 uploadVars, stop, forfeit>>

\* Mutant: a reload enqueues new pairs only, also for a new remote.
AddedPairsOnly(c) == Targets(c) \ Targets(known)

\* What a successful reload will enqueue: new pairs, or all after a new remote.
Added(c) == IF RemoteOf[c] = RemoteOf[known] THEN Targets(c) \ Targets(known)
                                             ELSE Targets(c)

\* load_agent_config() succeeds: replace_config() and replace_targets().
Swap ==
  /\ pc = "reload" /\ Outcome[cfgFile] = "ok"
  /\ lastRead' = cfgFile /\ config' = cfgFile
  /\ queue' = Added(cfgFile)
  /\ forfeit' = forfeit \cup
       {<<i, "unexcluded">> : i \in {j \in Targets(cfgFile) \ Added(cfgFile) :
                                       Excluded[known][j] # Excluded[cfgFile][j]}}
  /\ pc' = "swapped"
  /\ UNCHANGED <<worldVars, known, watchVars, storeVars, after, uploadVars, stop>>

\* A ConfigError keeps the settings; the OSError handler of _run_loop() stops
\* the daemon; anything else leaves _run_loop() and ends the process.
ReloadFails ==
  /\ pc = "reload" /\ Outcome[cfgFile] # "ok"
  /\ IF Outcome[cfgFile] = "ConfigError"
       THEN /\ lastRead' = cfgFile /\ pc' = "collect"
            /\ UNCHANGED <<worldVars, config, known, watchVars, storeVars,
                           loopVars, uploadVars, stop, forfeit>>
       ELSE GoOff

\* Items that wait for the event <<w, f>> to be noticed.
Waiting(w, f) == {i \in Targets(config) : WatchOf[i] = w /\ f \in Wanted(config, i)}

\* observer.unschedule_all(): events its emitters have not read go with them.
Unwatch ==
  /\ pc = "swapped"
  /\ watches' = {}
  /\ events' \in SUBSET events
  /\ forfeit' = forfeit \cup
       UNION {{<<i, "unwatched">> : i \in Waiting(e[1], e[2])} : e \in events \ events'}
  /\ pc' = "unwatched"
  /\ UNCHANGED <<worldVars, configVars, matched, deb, storeVars, loopVars, uploadVars,
                 stop>>

\* Mutant: the reload ends by remembering the file's mtime once more.
RewatchRearms ==
  /\ pc = "unwatched"
  /\ watches' = WatchesOf(config) /\ known' = config /\ unseen' = FALSE
  /\ after' = "collect" /\ pc' = "enqueue"
  /\ UNCHANGED <<stale, cfgFile, lastRead, config, events, matched, deb, storeVars, queue,
                 uploadVars, stop, forfeit>>

\* Mutant: runtime.config is not replaced.
RewatchForgetsConfig ==
  /\ pc = "unwatched"
  /\ watches' = WatchesOf(config)
  /\ after' = "collect" /\ pc' = "enqueue"
  /\ UNCHANGED <<worldVars, configVars, events, matched, deb, storeVars, queue, uploadVars,
                 stop, forfeit>>

\* observer.schedule() for every watch of the new targets, then runtime.targets
\* and runtime.config.  An OSError here stops the daemon.
Rewatch ==
  /\ pc = "unwatched"
  /\ \/ /\ watches' = WatchesOf(config)
        /\ known' = config
        /\ after' = "collect" /\ pc' = "enqueue"
        /\ UNCHANGED <<worldVars, lastRead, config, events, matched, deb, storeVars,
                       queue, uploadVars, stop, forfeit>>
     \/ "watchFails" \in Faults /\ GoOff

\* Mutant: due() empties the debouncer.
CollectClearsAll ==
  /\ pc = "collect"
  /\ queue' = {i \in Item : deb[i] = "expired"}
  /\ deb' = [i \in Item |-> "idle"]
  /\ after' = "drain" /\ pc' = "enqueue"
  /\ UNCHANGED <<worldVars, configVars, watches, events, matched, storeVars, uploadVars,
                 stop, forfeit>>

\* Mutant: one of the keys that due() has taken out is enqueued.
CollectFirst ==
  /\ pc = "collect"
  /\ \E i \in Item : queue' = {j \in {i} : deb[j] = "expired"}
  /\ deb' = [i \in Item |-> IF deb[i] = "expired" THEN "idle" ELSE deb[i]]
  /\ after' = "drain" /\ pc' = "enqueue"
  /\ UNCHANGED <<worldVars, configVars, watches, events, matched, storeVars, uploadVars,
                 stop, forfeit>>

\* debouncer.due(): the expired keys leave the debouncer for the ready list.
Collect ==
  /\ pc = "collect"
  /\ queue' = {i \in Item : deb[i] = "expired"}
  /\ deb' = [i \in Item |-> IF deb[i] = "expired" THEN "idle" ELSE deb[i]]
  /\ after' = "drain" /\ pc' = "enqueue"
  /\ UNCHANGED <<worldVars, configVars, watches, events, matched, storeVars, uploadVars,
                 stop, forfeit>>

(* The main thread: SyncWorker.drain() and upload() *)

Drain ==
  /\ pc = "drain"
  /\ todo' = pending /\ pc' = "next"
  /\ UNCHANGED <<outside, storeVars, loopVars, sending, cut, stop, forfeit>>

\* drain() returns; the wait that follows ends by its time limit or by stop.
LeaveDrain ==
  /\ pc' = "check" /\ todo' = {} /\ sending' = {} /\ cut' = FALSE
  /\ UNCHANGED <<outside, storeVars, loopVars, stop, forfeit>>

\* PendingStore.discard() and on to the next item.
Discard(i) ==
  /\ pending' = pending \ {i} /\ Flush(pending')
  /\ todo' = todo \ {i} /\ sending' = {} /\ cut' = FALSE
  /\ pc' = "next"
  /\ UNCHANGED <<outside, loopVars, stop>>

Drained == pc = "next" /\ todo = {} /\ LeaveDrain

DropUnknown(i) ==
  /\ pc = "next" /\ Current(i) /\ ~KnownLabel(config, i)
  /\ Discard(i) /\ UNCHANGED forfeit

\* run_command() starts nothing once stopped; the refusal counts as our signal.
Refused(i) ==
  /\ pc = "next" /\ Current(i) /\ KnownLabel(config, i) /\ stop
  /\ LeaveDrain

StartMkdir(i) ==
  /\ pc = "next" /\ Current(i) /\ KnownLabel(config, i) /\ ~stop
  /\ pc' = "mkdir"
  /\ UNCHANGED <<outside, storeVars, loopVars, uploadVars, stop, forfeit>>

CanEnd(e) == e \in IF cut THEN CutEndings ELSE Endings

\* ssh made the directory, rsync starts; what it leaves out is Excluded.
MkdirDone(i) ==
  /\ pc = "mkdir" /\ Current(i) /\ CanEnd("ok") /\ ~stop
  /\ sending' = Wanted(config, i) /\ pc' = "rsync"
  /\ UNCHANGED <<outside, storeVars, loopVars, todo, cut, stop, forfeit>>

\* rsync brings one file of the item up to date on the server.
RsyncCopies(i, f) ==
  /\ pc = "rsync" /\ Current(i) /\ f \in sending
  /\ sending' = sending \ {f}
  /\ stale' = stale \ {<<RemoteOf[config], i, f>>}
  /\ UNCHANGED <<cfgFile, unseen, configVars, watchVars, storeVars, pc, loopVars,
                 todo, cut, stop, forfeit>>

RsyncDone(i) ==
  /\ pc = "rsync" /\ Current(i) /\ CanEnd("ok") /\ sending = {}
  /\ Discard(i) /\ UNCHANGED forfeit

\* Mutant: a command that died of our own signal counts as a permanent error.
RsyncRetryUnlessCut == {"timeout", "connection", "netIo"}

\* RetryableUploadError: the rest of the snapshot is left for the next drain().
\* Once stopped, run_command() does not start the rsync that follows mkdir.
MkdirRetry == {"timeout", "ownSignal", "connection"}
RsyncRetry == {"timeout", "ownSignal", "connection", "netIo"}

UploadDeferred ==
  /\ \E e \in Ending :
       /\ CanEnd(e)
       /\ \/ pc = "mkdir" /\ (e \in MkdirRetry \/ (e = "ok" /\ stop))
          \/ pc = "rsync" /\ e \in RsyncRetry
  /\ LeaveDrain

\* UploadError: the item is dropped for good.
UploadDropped(i) ==
  /\ Current(i)
  /\ \E e \in Ending \ {"ok"} :
       /\ CanEnd(e)
       /\ \/ pc = "mkdir" /\ e \notin MkdirRetry
          \/ pc = "rsync" /\ e \notin RsyncRetry
  /\ Discard(i)
  /\ forfeit' = forfeit \cup {<<i, "dropped">>}

--------------------------------------------------------------------------------
(* The observer thread and the clock *)

\* _EventHandler.on_any_event() for one event, up to match_target(), which reads
\* the targets without the lock.  Watchdog drops an event whose watch has no
\* handler any more.
Dispatch(w, f) ==
  /\ matched = {} /\ <<w, f>> \in events
  /\ events' = events \ {<<w, f>>}
  /\ IF w \in watches
       THEN /\ matched' = {i \in Item : Matches(config, f, i)}
            /\ forfeit' = forfeit \cup
                 {<<i, "shadowed">> : i \in {j \in Waiting(w, f) : ~Matches(config, f, j)}}
       ELSE /\ matched' = matched
            /\ forfeit' = IF pc = "unwatched"
                            THEN forfeit \cup {<<i, "unwatched">> : i \in Waiting(w, f)}
                            ELSE forfeit
  /\ UNCHANGED <<worldVars, configVars, watches, deb, storeVars, pc, loopVars,
                 uploadVars, stop>>

\* The rest of on_any_event(), under the lock: debouncer.touch().
Touch ==
  /\ matched # {} /\ matched' = {}
  /\ deb' = [i \in Item |-> IF i \in matched THEN "waiting" ELSE deb[i]]
  /\ UNCHANGED <<worldVars, configVars, watches, events, storeVars, pc, loopVars,
                 uploadVars, stop, forfeit>>

\* Three seconds pass without an event for item i.
Expire(i) ==
  /\ deb[i] = "waiting"
  /\ deb' = [deb EXCEPT ![i] = "expired"]
  /\ UNCHANGED <<worldVars, configVars, watches, events, matched, storeVars, pc,
                 loopVars, uploadVars, stop, forfeit>>

--------------------------------------------------------------------------------
(* The world *)

\* File f is created or modified.  The watches that report it queue an event;
\* between unschedule_all() and schedule() nobody does.  A file born after rsync
\* read the directory is not part of the running transfer.
Change(f) ==
  /\ stale' = stale \cup {<<r, p[1], f>> : r \in Remote, p \in {q \in AllFiles : q[2] = f}}
  /\ events' = events \cup {<<w, f>> : w \in {v \in watches : f \in Reports[v]}}
  /\ sending' \in {sending, sending \ {f}}
  /\ forfeit' = IF pc = "unwatched"
                  THEN forfeit \cup {<<i, "unwatched">> :
                                       i \in {j \in Targets(config) : f \in Wanted(config, j)}}
                  ELSE forfeit
  /\ UNCHANGED <<cfgFile, unseen, configVars, watches, matched, deb, storeVars, pc,
                 loopVars, todo, cut, stop>>

\* The user saves agent.yaml or removes it.  "earlyEdit" lets that happen in the
\* instant between reading the file and recording its mtime.
EditConfig(c) ==
  /\ c # cfgFile
  /\ pc = "booted" => "earlyEdit" \in Faults
  /\ cfgFile' = c /\ unseen' = TRUE
  /\ UNCHANGED <<stale, configVars, watchVars, storeVars, pc, loopVars,
                 uploadVars, stop, forfeit>>

\* request_stop(): the flag, then SIGTERM to the group of the running command.
Signal ==
  /\ pc \notin {"off", "booted"} /\ ~stop
  /\ stop' = TRUE
  /\ cut' = (pc \in {"mkdir", "rsync"})
  /\ UNCHANGED <<outside, storeVars, pc, loopVars, todo, sending, forfeit>>

\* The process dies without any handler: SIGKILL, power loss.
Crash == "crash" \in Faults /\ pc # "off" /\ GoOff

--------------------------------------------------------------------------------
Main ==
  \/ Arm \/ Start \/ EnqueueNext \/ Enqueued
  \/ StopSeen \/ Check \/ Swap \/ ReloadFails \/ Unwatch \/ Rewatch
  \/ Collect \/ Drain \/ Drained \/ UploadDeferred
  \/ \E i \in Item :
       \/ DropUnknown(i) \/ Refused(i) \/ StartMkdir(i)
       \/ MkdirDone(i) \/ RsyncDone(i) \/ UploadDropped(i)
       \/ \E f \in File : RsyncCopies(i, f)

Observer == \/ \E w \in Watch, f \in File : Dispatch(w, f)
            \/ Touch
            \/ \E i \in Item : Expire(i)

World == \/ \E f \in File : Change(f)
         \/ \E c \in Content : EditConfig(c)
         \/ Signal
         \/ Crash

Next == Boot \/ Main \/ Observer \/ World

Spec == Init /\ [][Next]_vars

\* The main thread always has a next step (a command ends by its time limit at
\* the latest), watchdog dispatches what it has queued, deadlines pass, and
\* launchd restarts a daemon that ended (KeepAlive).
Fairness ==
  /\ WF_vars(Boot) /\ WF_vars(Main)
  /\ \A w \in Watch, f \in File : WF_vars(Dispatch(w, f))
  /\ WF_vars(Touch)
  /\ \A i \in Item : WF_vars(Expire(i))

FairSpec == Spec /\ Fairness

--------------------------------------------------------------------------------
(* Properties *)

PCs == {"off", "booted", "armed", "enqueue", "check", "reload", "swapped",
        "unwatched", "collect", "drain", "next", "mkdir", "rsync"}

\* Every variable keeps to the values its Python counterpart can hold.
TypeOK ==
  /\ stale \subseteq Remote \X Item \X File
  /\ cfgFile \in Content /\ unseen \in BOOLEAN /\ lastRead \in Content
  /\ config \in Loadable /\ known \in Loadable
  /\ watches \subseteq Watch /\ events \subseteq Watch \X File
  /\ matched \subseteq Item
  /\ deb \in [Item -> {"idle", "waiting", "expired"}]
  /\ pending \subseteq Item /\ disk \subseteq Item
  /\ pc \in PCs /\ queue \subseteq Item
  /\ after \in {"off", "check", "collect", "drain"}
  /\ todo \subseteq Item /\ sending \subseteq File
  /\ stop \in BOOLEAN /\ cut \in BOOLEAN
  /\ forfeit \subseteq Item \X Reasons

Running == pc \notin {"off", "booted", "armed"}

\* Item i is going to be enqueued for file f, or its update was given up for one
\* of the reasons "why".
Noticed(i, f, why) ==
  \/ <<WatchOf[i], f>> \in events
  \/ i \in matched
  \/ deb[i] # "idle"
  \/ i \in queue
  \/ \E r \in why : <<i, r>> \in forfeit

Accounted(why) ==
  Running => \A i \in Targets(config) : \A f \in Wanted(config, i) :
    <<RemoteOf[config], i, f>> \in stale => i \in pending \/ Noticed(i, f, why)

\* No update is forgotten: while the daemon runs, a file the server does not have
\* in its current form belongs to an item that is pending, or about to be, unless
\* the update was given up in one of the four ways the code has (a permanent
\* error; an earlier target matched the event; no watch was registered during a
\* reload; the exclude rules changed).  It is what the pending list, the
\* debouncer and queue_initial_sync() are for together.
NoUpdateForgotten == Accounted(Reasons)

\* README: the agent notices changes and uploads them.  During a reload there is
\* a moment without any watch, and targets that stay are not queued again.
ReloadLosesNoChange == Accounted(Reasons \ {"unwatched"})

\* A save of agent.yaml is noticed: if the file is not what the daemon last read
\* then the next poll sees a new mtime.  ConfigWatcher.changed() and the load in
\* _reload_config() are two reads of a file that may change between them.
SavedConfigSeen ==
  pc \notin {"off", "booted", "reload"} => (cfgFile = lastRead \/ unseen)

\* AgentRuntime's parts change together: outside a reload the observer watches
\* exactly the targets of the configuration the worker and the handler use, and
\* runtime.config is that configuration.
RuntimeConsistent ==
  Running /\ pc \notin {"swapped", "unwatched"} =>
    known = config /\ watches = WatchesOf(config)

\* An upload our own SIGTERM cut short stays in the pending list (comment in
\* upload(): it is uploaded again by the next run), unless every file of it had
\* been sent by then.
CutUploadSurvives ==
  [][\A i \in pending : cut /\ pc' # "off" /\ i \notin pending' =>
       pc = "rsync" /\ sending = {}]_vars

\* Threads, reloads, uploads and crashes keep what ChangeQueue promises: a changed
\* item leaves the debouncer for the queue of enqueue() or the pending list, and
\* these only when it is uploaded or given up, or with the process.
Changes == INSTANCE ChangeQueue WITH
  Key <- Item, waiting <- {i \in Item : deb[i] = "waiting"},
  ready <- {i \in Item : deb[i] = "expired"}, owed <- queue \cup pending
KeepsChanges == Changes!Spec

\* A requested stop ends the daemon, however the uploads fare.
StopEnds == stop ~> pc = "off"

\* The configuration that stays in agent.yaml ends up in force, whatever crashes,
\* stops and failed uploads come in between.
ConfigApplied == \A c \in Loadable : <>[](cfgFile = c) => <>[](known = c)

Failure == UploadDeferred \/ \E i \in Item : UploadDropped(i)

InSync == \A i \in Targets(config) : \A f \in Wanted(config, i) :
            <<RemoteOf[config], i, f>> \in stale => \E r \in Reasons : <<i, r>> \in forfeit

\* Once the world is quiet, the file in agent.yaml is loadable and commands no
\* longer fail, the server ends up with every file that was not given up.
Converges ==
  (/\ <>[][~World]_vars
   /\ <>[][~Failure]_vars
   /\ <>[](cfgFile \in Loadable)) => <>[]InSync

--------------------------------------------------------------------------------
(* The inductive invariant behind NoUpdateForgotten *)

\* What drain() still has to upload is in the pending list.
TodoPending == /\ todo \subseteq pending
               /\ pc \notin {"next", "mkdir", "rsync"} => todo = {}

\* The list of a for loop over enqueue() is used up before anything else begins.
QueueUsedUp == pc \notin {"enqueue", "swapped", "unwatched"} => queue = {}

\* RuntimeConsistent, and what holds inside the window of a reload: a target that
\* is not about to be enqueued was there before, so it is still being watched.
ReloadInv ==
  /\ pc \notin {"off", "swapped", "unwatched"} => known = config
  /\ RuntimeConsistent
  /\ pc \in {"swapped", "unwatched"} => Targets(config) \ queue \subseteq Targets(known)
  /\ pc = "swapped" => watches = WatchesOf(known)

\* A file the running rsync is done with has changed since, or is up to date.
SentInv ==
  pc = "rsync" => \A i \in Targets(config) : Current(i) =>
    \A f \in Wanted(config, i) \ sending :
      <<RemoteOf[config], i, f>> \in stale => Noticed(i, f, Reasons)

IInv == /\ TypeOK /\ TodoPending /\ QueueUsedUp /\ ReloadInv
        /\ NoUpdateForgotten /\ SentInv
================================================================================

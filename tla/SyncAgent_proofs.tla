--------------------------- MODULE SyncAgent_proofs ---------------------------
(***************************************************************************)
(* Proofs about SyncAgent for every set of files, items, configurations    *)
(* and servers: type correctness, then IInv, hence NoUpdateForgotten.      *)
(***************************************************************************)
EXTENDS SyncAgent, TLAPS

\* The targets of a configuration are items.
LEMMA TargetsAreItems == \A c \in Loadable : Targets(c) \subseteq Item
  BY ConstantsAssumption DEF Targets

\* A wanted file is reported by the watch of its item.
LEMMA WantedReported ==
  \A c \in Loadable, i \in Item :
    Wanted(c, i) \subseteq File /\ Wanted(c, i) \subseteq Reports[WatchOf[i]]
  BY ConstantsAssumption DEF Wanted

\* The watches of a configuration can be scheduled.
LEMMA WatchesAreWatches == \A c \in Loadable : WatchesOf(c) \subseteq Watch
  BY TargetsAreItems, ConstantsAssumption DEF WatchesOf

\* drain() is at one item at a time: PendingItem is totally ordered.
LEMMA CurrentUnique ==
  ASSUME TypeOK, NEW i \in Item, NEW j \in Item, Current(i), Current(j)
  PROVE  i = j
  BY ConstantsAssumption DEF Current, TypeOK

--------------------------------------------------------------------------------
(* Type correctness *)

\* The initial states are well typed.
LEMMA InitType == Init => TypeOK
<1> SUFFICES ASSUME Init PROVE TypeOK
  OBVIOUS
<1>1. stale \subseteq Remote \X Item \X File
  BY DEF Init, AllFiles
<1> QED
  BY <1>1 DEF Init, TypeOK, PCs, Loadable

\* Losing the process keeps every variable in its type.
LEMMA GoOffType == TypeOK /\ GoOff => TypeOK'
  BY DEF TypeOK, GoOff, PCs, worldVars, configVars

\* The steps of the main thread keep the types.
LEMMA MainType == TypeOK /\ (Boot \/ Main) => TypeOK'
<1> SUFFICES ASSUME TypeOK, Boot \/ Main PROVE TypeOK'
  OBVIOUS
<1> USE DEF TypeOK, PCs, outside, worldVars, configVars, watchVars, storeVars,
            loopVars, uploadVars
<1>1. CASE Boot
  BY <1>1 DEF Boot, Loadable
<1>2. CASE Arm
  BY <1>2 DEF Arm
<1>3. CASE Start
  BY <1>3, GoOffType, TargetsAreItems, WatchesAreWatches DEF Start
<1>4. CASE EnqueueNext
  BY <1>4 DEF EnqueueNext, Flush
<1>5. CASE Enqueued
  BY <1>5 DEF Enqueued
<1>6. CASE StopSeen
  BY <1>6, GoOffType DEF StopSeen
<1>7. CASE Check
  BY <1>7 DEF Check
<1>8. CASE Swap
  <2>1. Targets(cfgFile) \subseteq Item /\ cfgFile \in Loadable
    BY <1>8, TargetsAreItems DEF Swap, Loadable
  <2>2. Added(cfgFile) \subseteq Item
    BY <2>1 DEF Added
  <2> QED
    BY <1>8, <2>1, <2>2 DEF Swap, Reasons
<1>9. CASE ReloadFails
  BY <1>9, GoOffType DEF ReloadFails
<1>10. CASE Unwatch
  <2>1. \A w, f : Waiting(w, f) \subseteq Item
    BY TargetsAreItems DEF Waiting
  <2> QED
    BY <1>10, <2>1 DEF Unwatch, Reasons
<1>11. CASE Rewatch
  BY <1>11, GoOffType, WatchesAreWatches DEF Rewatch
<1>12. CASE Collect
  BY <1>12 DEF Collect
<1>13. CASE Drain
  BY <1>13 DEF Drain
<1>14. CASE Drained \/ UploadDeferred
  BY <1>14 DEF Drained, UploadDeferred, LeaveDrain
<1>15. CASE \E i \in Item : DropUnknown(i) \/ RsyncDone(i)
  BY <1>15 DEF DropUnknown, RsyncDone, Discard, Flush
<1>16. CASE \E i \in Item : UploadDropped(i)
  <2>1. PICK i \in Item : Discard(i) /\ forfeit' = forfeit \cup {<<i, "dropped">>}
    BY <1>16 DEF UploadDropped
  <2>2. forfeit' \subseteq Item \X Reasons
    BY <2>1 DEF Reasons
  <2> QED
    BY <2>1, <2>2 DEF Discard, Flush
<1>17. CASE \E i \in Item : Refused(i) \/ StartMkdir(i)
  BY <1>17 DEF Refused, StartMkdir, LeaveDrain
<1>18. CASE \E i \in Item : MkdirDone(i)
  BY <1>18, WantedReported DEF MkdirDone
<1>19. CASE \E i \in Item, f \in File : RsyncCopies(i, f)
  BY <1>19 DEF RsyncCopies
<1> QED
  BY <1>1, <1>2, <1>3, <1>4, <1>5, <1>6, <1>7, <1>8, <1>9, <1>10, <1>11, <1>12,
     <1>13, <1>14, <1>15, <1>16, <1>17, <1>18, <1>19 DEF Main

\* So do those of the observer thread, the clock and the world.
LEMMA EnvironmentType == TypeOK /\ (Observer \/ World) => TypeOK'
<1> SUFFICES ASSUME TypeOK, Observer \/ World PROVE TypeOK'
  OBVIOUS
<1> USE DEF TypeOK, PCs, outside, worldVars, configVars, watchVars, storeVars,
            loopVars, uploadVars
<1>1. CASE \E w \in Watch, f \in File : Dispatch(w, f)
  <2>1. \A w, f : Waiting(w, f) \subseteq Item
    BY TargetsAreItems DEF Waiting
  <2> QED
    BY <1>1, <2>1 DEF Dispatch, Reasons
<1>2. CASE \E i \in Item : Expire(i)
  BY <1>2 DEF Expire
<1>3. CASE \E f \in File : Change(f)
  BY <1>3, TargetsAreItems DEF Change, AllFiles, Reasons
<1>4. CASE \E c \in Content : EditConfig(c)
  BY <1>4 DEF EditConfig
<1>5. CASE Signal
  BY <1>5 DEF Signal
<1>6. CASE Crash
  BY <1>6, GoOffType DEF Crash
<1>7. CASE Touch
  BY <1>7 DEF Touch
<1> QED
  BY <1>1, <1>2, <1>3, <1>4, <1>5, <1>6, <1>7 DEF Observer, World

\* Every reachable state is well typed.
THEOREM TypeCorrect == Spec => []TypeOK
<1>1. TypeOK /\ [Next]_vars => TypeOK'
  <2>1. TypeOK /\ UNCHANGED vars => TypeOK'
    BY DEF TypeOK, vars
  <2> QED
    BY <2>1, MainType, EnvironmentType DEF Next
<1> QED
  BY InitType, <1>1, PTL DEF Spec

--------------------------------------------------------------------------------
(* No update is forgotten: IInv is inductive *)

\* The part of IInv besides the types.
Rest == /\ TodoPending /\ QueueUsedUp /\ ReloadInv /\ NoUpdateForgotten /\ SentInv

\* A process that is off owes nothing.
LEMMA InitRest == Init => Rest
  BY DEF Init, Rest, TodoPending, QueueUsedUp, ReloadInv, RuntimeConsistent,
         NoUpdateForgotten, Accounted, SentInv, Running

\* With the process gone nothing is left to keep track of: the initial sync of
\* the next start enqueues every target.
LEMMA GoOffRest == GoOff => Rest'
  BY DEF GoOff, Rest, TodoPending, QueueUsedUp, ReloadInv, RuntimeConsistent,
         NoUpdateForgotten, Accounted, SentInv, Running

\* Starting and enqueueing.
LEMMA StartRest ==
  ASSUME TypeOK, Rest, Boot \/ Arm \/ Start \/ EnqueueNext \/ Enqueued
  PROVE  Rest'
<1> USE DEF Rest, TodoPending, QueueUsedUp, ReloadInv, RuntimeConsistent,
            NoUpdateForgotten, Accounted, SentInv, Running, Noticed,
            outside, worldVars, configVars, watchVars, storeVars,
            loopVars, uploadVars
<1>1. CASE Boot
  BY <1>1 DEF Boot, TypeOK
<1>2. CASE Arm
  BY <1>2 DEF Arm, TypeOK
<1>3. CASE Start
  BY <1>3, GoOffRest DEF Start, TypeOK
<1>4. CASE EnqueueNext
  <2>1. PICK i \in queue : /\ queue' = queue \ {i}
                          /\ pending' = pending \cup {i}
                          /\ forfeit' = {x \in forfeit : x[1] # i}
    BY <1>4 DEF EnqueueNext
  <2>2. UNCHANGED <<outside, pc, after, uploadVars, stop>> /\ pc = "enqueue"
    BY <1>4 DEF EnqueueNext
  <2>3. NoUpdateForgotten'
    <3>1. SUFFICES ASSUME NEW j \in Targets(config), NEW f \in Wanted(config, j),
                          <<RemoteOf[config], j, f>> \in stale, j \notin pending'
                   PROVE  Noticed(j, f, Reasons)'
      BY <2>2
    <3>2. j # i /\ Noticed(j, f, Reasons)
      BY <2>1, <2>2, <3>1
    <3>3. ASSUME NEW r \in Reasons, <<j, r>> \in forfeit
          PROVE  <<j, r>> \in forfeit'
      BY <2>1, <3>2, <3>3
    <3> QED
      BY <2>1, <2>2, <3>2, <3>3
  <2> QED
    BY <2>1, <2>2, <2>3
<1>5. CASE Enqueued
  BY <1>5 DEF Enqueued, TypeOK
<1> QED
  BY <1>1, <1>2, <1>3, <1>4, <1>5

\* The loop's own steps.
LEMMA LoopRest ==
  ASSUME TypeOK, Rest,
         StopSeen \/ Check \/ ReloadFails \/ Collect \/ Drain \/ Drained
           \/ UploadDeferred \/ \E i \in Item : Refused(i) \/ StartMkdir(i)
  PROVE  Rest'
<1> USE DEF Rest, TodoPending, QueueUsedUp, ReloadInv, RuntimeConsistent,
            NoUpdateForgotten, Accounted, SentInv, Running, Noticed,
            outside, worldVars, configVars, watchVars, storeVars,
            loopVars, uploadVars
<1>1. CASE StopSeen
  BY <1>1, GoOffRest DEF StopSeen
<1>2. CASE Check
  BY <1>2 DEF Check
<1>3. CASE ReloadFails
  BY <1>3, GoOffRest DEF ReloadFails
<1>4. CASE Collect
  <2>1. \A i \in Item : deb[i] # "idle" => deb'[i] # "idle" \/ i \in queue'
    BY <1>4 DEF Collect, TypeOK
  <2>2. NoUpdateForgotten'
    BY <1>4, <2>1, TargetsAreItems DEF Collect, TypeOK
  <2> QED
    BY <1>4, <2>2 DEF Collect
<1>5. CASE Drain
  BY <1>5 DEF Drain
<1>6. CASE LeaveDrain /\ pc \in {"next", "mkdir", "rsync"}
  BY <1>6 DEF LeaveDrain
<1>7. CASE \E i \in Item : StartMkdir(i)
  BY <1>7 DEF StartMkdir
<1> QED
  BY <1>1, <1>2, <1>3, <1>4, <1>5, <1>6, <1>7 DEF Drained, UploadDeferred, Refused

\* A reload: every target of the new configuration is enqueued, or was a target
\* before and is accounted for as before.
LEMMA ReloadRest ==
  ASSUME TypeOK, Rest, Swap \/ Unwatch \/ Rewatch
  PROVE  Rest'
<1> USE DEF Rest, TodoPending, QueueUsedUp, ReloadInv, RuntimeConsistent,
            NoUpdateForgotten, Accounted, SentInv, Running, Noticed,
            outside, worldVars, configVars, watchVars, storeVars,
            loopVars, uploadVars
<1>1. CASE Swap
  <2>1. /\ known = config /\ queue = {} /\ Running /\ config' = cfgFile
        /\ queue' = Added(cfgFile) /\ watches = WatchesOf(known)
        /\ cfgFile \in Loadable
    BY <1>1 DEF Swap, TypeOK, Loadable
  <2>2. Targets(cfgFile) \ Added(cfgFile) \subseteq Targets(known)
    BY DEF Added
  <2>3. NoUpdateForgotten'
    <3>1. SUFFICES ASSUME NEW i \in Targets(cfgFile), NEW f \in Wanted(cfgFile, i),
                          <<RemoteOf[cfgFile], i, f>> \in stale,
                          i \notin pending, i \notin Added(cfgFile)
                   PROVE  Noticed(i, f, Reasons)'
      BY <1>1, <2>1 DEF Swap
    <3>2. RemoteOf[cfgFile] = RemoteOf[known] /\ i \in Targets(known)
      BY <3>1 DEF Added
    <3>3. CASE Excluded[known][i] # Excluded[cfgFile][i]
      <4>1. <<i, "unexcluded">> \in forfeit'
        BY <1>1, <3>1, <3>3 DEF Swap
      <4> QED
        BY <4>1 DEF Reasons
    <3>4. CASE Excluded[known][i] = Excluded[cfgFile][i]
      <4>1. f \in Wanted(config, i)
        BY <3>1, <3>4, <2>1 DEF Wanted
      <4>2. Noticed(i, f, Reasons)
        BY <2>1, <3>1, <3>2, <4>1
      <4>3. forfeit \subseteq forfeit'
        BY <1>1 DEF Swap
      <4> QED
        BY <1>1, <2>1, <4>2, <4>3 DEF Swap
    <3> QED
      BY <3>3, <3>4
  <2> QED
    BY <1>1, <2>1, <2>2, <2>3 DEF Swap
<1>2. CASE Unwatch
  <2>1. pc = "swapped" /\ pc' = "unwatched" /\ forfeit \subseteq forfeit'
    BY <1>2 DEF Unwatch
  <2>2. ASSUME NEW i \in Targets(config), NEW f \in Wanted(config, i),
               <<WatchOf[i], f>> \in events, <<WatchOf[i], f>> \notin events'
        PROVE  <<i, "unwatched">> \in forfeit'
    <3>1. i \in Waiting(WatchOf[i], f)
      BY <2>2 DEF Waiting
    <3> DEFINE e == <<WatchOf[i], f>>
    <3>2. e \in events \ events' /\ i \in Waiting(e[1], e[2])
      BY <2>2, <3>1
    <3> QED
      BY <1>2, <3>2 DEF Unwatch
  <2>3. NoUpdateForgotten'
    BY <1>2, <2>1, <2>2 DEF Unwatch, Reasons
  <2> QED
    BY <1>2, <2>1, <2>3 DEF Unwatch
<1>3. CASE Rewatch
  BY <1>3, GoOffRest DEF Rewatch
<1> QED
  BY <1>1, <1>2, <1>3

\* Settling one item of the drain.
LEMMA UploadRest ==
  ASSUME TypeOK, Rest,
         \E i \in Item : \/ DropUnknown(i) \/ MkdirDone(i) \/ RsyncDone(i)
                         \/ UploadDropped(i) \/ \E f \in File : RsyncCopies(i, f)
  PROVE  Rest'
<1> USE DEF Rest, TodoPending, QueueUsedUp, ReloadInv, RuntimeConsistent,
            NoUpdateForgotten, Accounted, SentInv, Running, Noticed,
            outside, worldVars, configVars, watchVars, storeVars,
            loopVars, uploadVars
<1>1. ASSUME NEW i \in Item, Discard(i), pc \in {"next", "mkdir", "rsync"},
             forfeit \subseteq forfeit',
             \A f \in Wanted(config, i) :
               i \in Targets(config) /\ <<RemoteOf[config], i, f>> \in stale
                 => Noticed(i, f, Reasons)'
      PROVE  Rest'
  BY <1>1 DEF Discard
<1>2. ASSUME NEW i \in Item, DropUnknown(i) PROVE Rest'
  <2>1. i \notin Targets(config)
    BY <1>2 DEF DropUnknown, KnownLabel
  <2> QED
    BY <1>1, <1>2, <2>1 DEF DropUnknown
<1>3. ASSUME NEW i \in Item, RsyncDone(i) PROVE Rest'
  BY <1>1, <1>3 DEF RsyncDone, Discard
<1>4. ASSUME NEW i \in Item, UploadDropped(i) PROVE Rest'
  <2>1. <<i, "dropped">> \in forfeit' /\ "dropped" \in Reasons
    BY <1>4 DEF UploadDropped, Reasons
  <2>2. Discard(i) /\ forfeit \subseteq forfeit' /\ pc \in {"mkdir", "rsync"}
    BY <1>4 DEF UploadDropped
  <2> QED
    BY <1>1, <2>1, <2>2
<1>5. ASSUME NEW i \in Item, MkdirDone(i) PROVE Rest'
  <2>1. \A j \in Targets(config) : Current(j)' => j = i
    BY <1>5, CurrentUnique, TargetsAreItems DEF MkdirDone, TypeOK, Current
  <2>2. SentInv'
    BY <1>5, <2>1 DEF MkdirDone
  <2> QED
    BY <1>5, <2>2 DEF MkdirDone
<1>6. ASSUME NEW i \in Item, NEW f \in File, RsyncCopies(i, f) PROVE Rest'
  <2>1. \A j \in Targets(config) : Current(j)' => j = i /\ Current(j)
    BY <1>6, CurrentUnique, TargetsAreItems DEF RsyncCopies, TypeOK, Current
  <2>2. SentInv'
    BY <1>6, <2>1 DEF RsyncCopies
  <2>3. NoUpdateForgotten'
    BY <1>6 DEF RsyncCopies
  <2> QED
    BY <1>6, <2>2, <2>3 DEF RsyncCopies
<1> QED
  BY <1>2, <1>3, <1>4, <1>5, <1>6

\* The observer thread and the clock.
LEMMA ObserverRest ==
  ASSUME TypeOK, Rest, Observer
  PROVE  Rest'
<1> USE DEF Rest, TodoPending, QueueUsedUp, ReloadInv, RuntimeConsistent,
            NoUpdateForgotten, Accounted, SentInv, Running,
            outside, worldVars, configVars, watchVars, storeVars,
            loopVars, uploadVars
<1>1. ASSUME NEW w \in Watch, NEW g \in File, Dispatch(w, g)
      PROVE  Rest'
  <2>1. matched \subseteq matched' /\ deb' = deb
    BY <1>1 DEF Dispatch
  <2>2. forfeit \subseteq forfeit'
    BY <1>1 DEF Dispatch
  \* The event is gone; its item has been matched, or given up.
  <2>3. ASSUME Running, NEW i \in Targets(config), i \notin queue,
               g \in Wanted(config, i), WatchOf[i] = w
        PROVE  Noticed(i, g, Reasons)'
    <3>1. i \in Waiting(w, g) /\ i \in Item
      BY <2>3, TargetsAreItems DEF Waiting, TypeOK
    <3>2. CASE w \in watches /\ Matches(config, g, i)
      <4>1. i \in matched'
        BY <1>1, <3>1, <3>2 DEF Dispatch
      <4> QED
        BY <4>1 DEF Noticed
    <3>3. CASE w \in watches /\ ~Matches(config, g, i)
      <4>1. <<i, "shadowed">> \in forfeit'
        BY <1>1, <3>1, <3>3 DEF Dispatch
      <4> QED
        BY <4>1 DEF Noticed, Reasons
    <3>4. CASE w \notin watches
      <4>1. pc = "unwatched"
        BY <2>3, <3>4 DEF WatchesOf
      <4>2. <<i, "unwatched">> \in forfeit'
        BY <1>1, <3>1, <3>4, <4>1 DEF Dispatch
      <4> QED
        BY <4>2 DEF Noticed, Reasons
    <3> QED
      BY <3>2, <3>3, <3>4
  <2>4. ASSUME Running, NEW i \in Targets(config), NEW f \in Wanted(config, i),
               Noticed(i, f, Reasons)
        PROVE  Noticed(i, f, Reasons)'
    <3>1. CASE <<WatchOf[i], f>> = <<w, g>> /\ i \notin queue
      BY <2>3, <2>4, <3>1
    <3>2. CASE <<WatchOf[i], f>> # <<w, g>> \/ i \in queue
      <4>1. i \in Item /\ queue' = queue /\ events' = events \ {<<w, g>>}
        BY <1>1, TargetsAreItems DEF Dispatch, TypeOK
      <4> QED
        BY <2>1, <2>2, <2>4, <3>2, <4>1 DEF Noticed
    <3> QED
      BY <3>1, <3>2
  <2>5. UNCHANGED <<worldVars, configVars, watches, deb, storeVars, pc, loopVars,
                    uploadVars, stop>>
    BY <1>1 DEF Dispatch
  <2>6. NoUpdateForgotten' /\ SentInv'
    BY <2>4, <2>5 DEF Current
  <2> QED
    BY <2>5, <2>6
<1>2. ASSUME NEW k \in Item, Expire(k)
      PROVE  Rest'
  <2>1. \A i \in Item : deb[i] # "idle" => deb'[i] # "idle"
    BY <1>2 DEF Expire, TypeOK
  <2>2. UNCHANGED <<worldVars, configVars, watches, events, matched, storeVars, pc,
                    loopVars, uploadVars, stop, forfeit>>
    BY <1>2 DEF Expire
  <2>3. NoUpdateForgotten' /\ SentInv'
    BY <2>1, <2>2, TargetsAreItems DEF Noticed, Current, TypeOK
  <2> QED
    BY <2>2, <2>3
<1>3. ASSUME Touch
      PROVE  Rest'
  <2>1. \A i \in Item : deb[i] # "idle" \/ i \in matched => deb'[i] # "idle"
    BY <1>3 DEF Touch, TypeOK
  <2>2. UNCHANGED <<worldVars, configVars, watches, events, storeVars, pc,
                    loopVars, uploadVars, stop, forfeit>>
    BY <1>3 DEF Touch
  <2>3. NoUpdateForgotten' /\ SentInv'
    BY <2>1, <2>2, TargetsAreItems DEF Noticed, Current, TypeOK
  <2> QED
    BY <2>2, <2>3
<1> QED
  BY <1>1, <1>2, <1>3 DEF Observer

\* File changes, saves of agent.yaml, signals and crashes.
LEMMA WorldRest ==
  ASSUME TypeOK, Rest, World
  PROVE  Rest'
<1> USE DEF Rest, TodoPending, QueueUsedUp, ReloadInv, RuntimeConsistent,
            NoUpdateForgotten, Accounted, SentInv, Running,
            outside, worldVars, configVars, watchVars, storeVars,
            loopVars, uploadVars
<1>1. ASSUME NEW g \in File, Change(g)
      PROVE  Rest'
  <2>1. UNCHANGED <<cfgFile, unseen, configVars, watches, matched, deb, storeVars,
                    pc, loopVars, todo, cut, stop>>
    BY <1>1 DEF Change
  <2>2. events \subseteq events' /\ forfeit \subseteq forfeit'
    BY <1>1 DEF Change
  \* A changed file has an event on its own watch, or nobody watches.
  <2>3. ASSUME Running, NEW i \in Targets(config), g \in Wanted(config, i)
        PROVE  Noticed(i, g, Reasons)'
    <3>1. CASE pc = "unwatched"
      <4>1. <<i, "unwatched">> \in forfeit'
        BY <1>1, <2>3, <3>1 DEF Change
      <4> QED
        BY <4>1 DEF Noticed, Reasons
    <3>2. CASE pc # "unwatched" /\ i \notin queue
      <4>1. WatchOf[i] \in watches /\ g \in Reports[WatchOf[i]]
        BY <2>3, <3>2, TargetsAreItems, WantedReported DEF WatchesOf, TypeOK
      <4>2. <<WatchOf[i], g>> \in events'
        BY <1>1, <4>1 DEF Change
      <4> QED
        BY <4>2 DEF Noticed
    <3>3. CASE i \in queue
      BY <2>1, <3>3 DEF Noticed
    <3> QED
      BY <3>1, <3>2, <3>3
  <2>4. \A i, f : Noticed(i, f, Reasons) => Noticed(i, f, Reasons)'
    BY <2>1, <2>2 DEF Noticed
  <2>5. \A r, i, f : f # g /\ <<r, i, f>> \in stale' => <<r, i, f>> \in stale
    BY <1>1 DEF Change
  <2>6. sending \ {g} \subseteq sending'
    BY <1>1 DEF Change
  <2>7. NoUpdateForgotten'
    BY <2>1, <2>3, <2>4, <2>5
  <2>8. SentInv'
    BY <2>1, <2>3, <2>4, <2>5, <2>6 DEF Current
  <2> QED
    BY <2>1, <2>7, <2>8
<1>2. CASE (\E c \in Content : EditConfig(c)) \/ Signal
  BY <1>2 DEF EditConfig, Signal, Noticed, Current
<1>3. CASE Crash
  BY <1>3, GoOffRest DEF Crash
<1> QED
  BY <1>1, <1>2, <1>3 DEF World

\* Stuttering keeps everything.
LEMMA StutterRest == Rest /\ UNCHANGED vars => Rest'
  BY DEF vars, Rest, TodoPending, QueueUsedUp, ReloadInv, RuntimeConsistent,
         NoUpdateForgotten, Accounted, SentInv, Running, Noticed, Current

\* IInv holds in every reachable state.
THEOREM InductiveInvariant == Spec => []IInv
<1>1. IInv <=> TypeOK /\ Rest
  BY DEF IInv, Rest
<1>2. TypeOK /\ Rest /\ [Next]_vars => Rest'
  BY StartRest, LoopRest, ReloadRest, UploadRest, ObserverRest, WorldRest,
     StutterRest DEF Next, Main
<1>3. Spec => []Rest
  BY InitRest, TypeCorrect, <1>2, PTL DEF Spec
<1> QED
  BY <1>1, <1>3, TypeCorrect, PTL

\* While the daemon runs, no update of a configured file is forgotten, whatever
\* the number of files, items, configurations and faults: it is pending, about
\* to be, or given up for one of the four reasons.
THEOREM NothingForgotten == Spec => []NoUpdateForgotten
<1>1. IInv => NoUpdateForgotten
  BY DEF IInv
<1> QED
  BY InductiveInvariant, <1>1, PTL

\* Outside a reload the observer, the worker, the handler and runtime.config
\* agree on one configuration.
THEOREM RuntimeAgrees == Spec => []RuntimeConsistent
<1>1. IInv => RuntimeConsistent
  BY DEF IInv, ReloadInv
<1> QED
  BY InductiveInvariant, <1>1, PTL

--------------------------------------------------------------------------------
(* Two properties that hold under a condition on the surroundings *)

\* Provided nobody saves agent.yaml between its being read and its mtime being
\* recorded at startup, every save is noticed by a later poll.
THEOREM SavesAreSeen ==
  ASSUME "earlyEdit" \notin Faults
  PROVE  Spec => []SavedConfigSeen
<1> DEFINE J == SavedConfigSeen /\ (pc = "booted" => cfgFile = lastRead)
<1> USE DEF SavedConfigSeen, outside, worldVars, configVars, watchVars,
            storeVars, loopVars, uploadVars
<1>1. Init => J
  BY DEF Init
<1>2. ASSUME TypeOK, J, [Next]_vars
      PROVE  J'
  <2>1. CASE GoOff
    BY <2>1 DEF GoOff
  <2>2. CASE Boot \/ Arm \/ Start \/ EnqueueNext
    BY <1>2, <2>1, <2>2 DEF Boot, Arm, Start, EnqueueNext
  <2>3. CASE Enqueued \/ StopSeen \/ Check \/ Swap \/ ReloadFails
    BY <1>2, <2>1, <2>3 DEF Enqueued, StopSeen, Check, Swap, ReloadFails, TypeOK
  <2>4. CASE Unwatch \/ Rewatch \/ Collect \/ Drain \/ Drained \/ UploadDeferred
    BY <1>2, <2>1, <2>4 DEF Unwatch, Rewatch, Collect, Drain, Drained,
                            UploadDeferred, LeaveDrain
  <2>5. CASE \E i \in Item : \/ DropUnknown(i) \/ Refused(i) \/ StartMkdir(i)
                             \/ MkdirDone(i) \/ RsyncDone(i) \/ UploadDropped(i)
                             \/ \E f \in File : RsyncCopies(i, f)
    BY <1>2, <2>5 DEF DropUnknown, Refused, StartMkdir, MkdirDone, RsyncDone,
                      UploadDropped, RsyncCopies, Discard, LeaveDrain
  <2>6. CASE Observer
    BY <1>2, <2>6 DEF Observer, Dispatch, Touch, Expire
  <2>7. CASE World
    BY <1>2, <2>1, <2>7 DEF World, Change, EditConfig, Signal, Crash
  <2>8. CASE UNCHANGED vars
    BY <1>2, <2>8 DEF vars
  <2> QED
    BY <1>2, <2>2, <2>3, <2>4, <2>5, <2>6, <2>7, <2>8 DEF Next, Main
<1>3. J => SavedConfigSeen
  OBVIOUS
<1> QED
  BY <1>1, <1>2, <1>3, TypeCorrect, PTL DEF Spec

\* Provided a command that gets our SIGTERM dies of it, fails to connect, runs
\* into its time limit or still succeeds, no upload cut short by a stop is lost
\* from the pending list.
THEOREM CutUploadsSurvive ==
  ASSUME CutEndings \subseteq MkdirRetry \cup {"ok"}
  PROVE  Spec => CutUploadSurvives
<1> DEFINE J == cut => stop /\ pc \in {"mkdir", "rsync"}
<1> DEFINE A == \A i \in pending : cut /\ pc' # "off" /\ i \notin pending' =>
                  pc = "rsync" /\ sending = {}
<1> USE DEF outside, worldVars, configVars, watchVars, storeVars, loopVars,
            uploadVars
<1>1. Init => J
  BY DEF Init
<1>2. ASSUME J, [Next]_vars
      PROVE  J' /\ [A]_vars
  <2>1. CASE GoOff
    BY <2>1 DEF GoOff
  <2>2. CASE Boot \/ Arm \/ Start \/ EnqueueNext
    BY <1>2, <2>1, <2>2 DEF Boot, Arm, Start, EnqueueNext
  <2>3. CASE Enqueued \/ StopSeen \/ Check \/ Swap \/ ReloadFails
    BY <1>2, <2>1, <2>3 DEF Enqueued, StopSeen, Check, Swap, ReloadFails
  <2>4. CASE Unwatch \/ Rewatch \/ Collect \/ Drain \/ Drained \/ UploadDeferred
    BY <1>2, <2>1, <2>4 DEF Unwatch, Rewatch, Collect, Drain, Drained,
                            UploadDeferred, LeaveDrain
  <2>5. CASE \E i \in Item : \/ DropUnknown(i) \/ Refused(i) \/ StartMkdir(i)
                             \/ MkdirDone(i) \/ RsyncDone(i)
                             \/ \E f \in File : RsyncCopies(i, f)
    BY <1>2, <2>5 DEF DropUnknown, Refused, StartMkdir, MkdirDone, RsyncDone,
                      RsyncCopies, Discard, LeaveDrain
  <2>6. CASE \E i \in Item : UploadDropped(i)
    <3>1. ~cut
      BY <2>6 DEF UploadDropped, CanEnd, MkdirRetry, RsyncRetry
    <3> QED
      BY <2>6, <3>1 DEF UploadDropped, Discard
  <2>7. CASE Observer
    <3>1. UNCHANGED <<pending, pc, cut, stop>>
      BY <2>7 DEF Observer, Dispatch, Touch, Expire
    <3> QED
      BY <1>2, <3>1
  <2>8. CASE World
    <3>1. CASE \E f \in File : Change(f)
      <4>1. UNCHANGED <<pending, pc, cut, stop>>
        BY <3>1 DEF Change
      <4> QED
        BY <1>2, <4>1
    <3>2. CASE (\E c \in Content : EditConfig(c)) \/ Signal
      <4>1. UNCHANGED <<pending, pc>>
        BY <3>2 DEF EditConfig, Signal
      <4>2. J'
        BY <1>2, <3>2 DEF EditConfig, Signal
      <4> QED
        BY <4>1, <4>2
    <3> QED
      BY <2>1, <2>8, <3>1, <3>2 DEF World, Crash
  <2>9. CASE UNCHANGED vars
    BY <1>2, <2>9 DEF vars
  <2> QED
    BY <1>2, <2>2, <2>3, <2>4, <2>5, <2>6, <2>7, <2>8, <2>9 DEF Next, Main
<1> QED
  BY <1>1, <1>2, PTL DEF Spec, CutUploadSurvives

--------------------------------------------------------------------------------
(* SyncAgent implements ChangeQueue *)

Waiters == {i \in Item : deb[i] = "waiting"}
Expired == {i \in Item : deb[i] = "expired"}
Owed == queue \cup pending

\* The process starts with nothing in memory, and no loop over enqueue() leads back there.
Blank ==
  /\ pc \in {"off", "booted"} => pending = {}
  /\ pc = "enqueue" => after \notin {"off", "booted", "enqueue"}

\* Every step keeps it so.
LEMMA BlankStep == Blank /\ [Next]_vars => Blank'
<1> SUFFICES ASSUME Blank, [Next]_vars PROVE Blank'
  OBVIOUS
<1> USE DEF Blank, outside, worldVars, configVars, watchVars, storeVars, loopVars, uploadVars
<1>1. CASE GoOff
  BY <1>1 DEF GoOff
<1>2. CASE Boot \/ Arm \/ Start \/ EnqueueNext
  BY <1>1, <1>2 DEF Boot, Arm, Start, EnqueueNext
<1>3. CASE Enqueued \/ StopSeen \/ Check \/ Swap \/ ReloadFails
  BY <1>1, <1>3 DEF Enqueued, StopSeen, Check, Swap, ReloadFails
<1>4. CASE Unwatch \/ Rewatch \/ Collect \/ Drain \/ Drained \/ UploadDeferred
  BY <1>1, <1>4 DEF Unwatch, Rewatch, Collect, Drain, Drained, UploadDeferred, LeaveDrain
<1>5. CASE \E i \in Item : \/ DropUnknown(i) \/ Refused(i) \/ StartMkdir(i)
                           \/ MkdirDone(i) \/ RsyncDone(i) \/ UploadDropped(i)
                           \/ \E f \in File : RsyncCopies(i, f)
  BY <1>5 DEF DropUnknown, Refused, StartMkdir, MkdirDone, RsyncDone,
              UploadDropped, RsyncCopies, Discard, LeaveDrain
<1>6. CASE Observer
  BY <1>6 DEF Observer, Dispatch, Touch, Expire
<1>7. CASE World
  BY <1>1, <1>7 DEF World, Change, EditConfig, Signal, Crash
<1>8. CASE UNCHANGED vars
  BY <1>8 DEF vars
<1> QED
  BY <1>2, <1>3, <1>4, <1>5, <1>6, <1>7, <1>8 DEF Next, Main

\* One step of the abstract queue, or none.
ChangeStep == [Changes!Next]_(Changes!changeVars)

\* The process is gone, and with it the debouncer and both lists.
LEMMA GoOffChanges == GoOff => ChangeStep
<1> SUFFICES ASSUME GoOff PROVE ChangeStep
  OBVIOUS
<1>1. queue' = {} /\ pending' = {} /\ deb' = [i \in Item |-> "idle"]
  BY DEF GoOff
<1>2. Waiters' = {} /\ Expired' = {} /\ Owed' = {}
  BY <1>1 DEF Waiters, Expired, Owed
<1>3. Changes!ProcessEnds
  BY <1>2 DEF Waiters, Expired, Owed, Changes!ProcessEnds
<1> QED BY <1>3 DEF ChangeStep, Changes!Next

\* A step that leaves the debouncer alone and moves items from the queue to the
\* pending list at most.
LEMMA SameChanges == UNCHANGED deb /\ Owed' = Owed => ChangeStep
<1> SUFFICES ASSUME UNCHANGED deb, Owed' = Owed PROVE ChangeStep
  OBVIOUS
<1>1. Waiters' = Waiters /\ Expired' = Expired
  BY DEF Waiters, Expired
<1> QED BY <1>1 DEF Waiters, Expired, Owed, ChangeStep, Changes!changeVars

\* A step that adds items to what is owed.
LEMMA MoreOwed ==
  ASSUME UNCHANGED deb, NEW S \in SUBSET Item, Owed' = Owed \cup S
  PROVE  ChangeStep
<1>1. Waiters' = Waiters /\ Expired' = Expired
  BY DEF Waiters, Expired
<1>2. Changes!Owe(S)
  BY <1>1 DEF Waiters, Expired, Owed, Changes!Owe
<1>3. \E T \in SUBSET Item : Changes!Owe(T)
  BY <1>2
<1> QED BY <1>3 DEF ChangeStep, Changes!Next

\* An item is uploaded or given up while nothing is queued.
LEMMA DiscardChanges ==
  ASSUME NEW i \in Item, queue = {}, Discard(i)
  PROVE  ChangeStep
<1>1. /\ UNCHANGED <<deb, queue>> /\ pending' = pending \ {i}
  BY DEF Discard, outside, watchVars, loopVars
<1>2. Waiters' = Waiters /\ Expired' = Expired /\ Owed' = Owed \ {i}
  BY <1>1 DEF Waiters, Expired, Owed
<1>3. Changes!Settle({i})
  BY <1>2 DEF Waiters, Expired, Owed, Changes!Settle
<1>4. \E T \in SUBSET Item : Changes!Settle(T)
  BY <1>3
<1> QED BY <1>4 DEF ChangeStep, Changes!Next

\* Starting and reloading add to what is owed; the main loop takes the expired
\* items from the debouncer to the queue, from which they go to the pending list.
LEMMA LoopChanges ==
  TypeOK /\ QueueUsedUp /\ Blank
    /\ (Boot \/ Arm \/ Start \/ EnqueueNext \/ Enqueued \/ StopSeen \/ Check \/ Swap
          \/ ReloadFails \/ Unwatch \/ Rewatch \/ Collect) => ChangeStep
<1> SUFFICES ASSUME TypeOK, QueueUsedUp, Blank PROVE
      Boot \/ Arm \/ Start \/ EnqueueNext \/ Enqueued \/ StopSeen \/ Check \/ Swap
        \/ ReloadFails \/ Unwatch \/ Rewatch \/ Collect => ChangeStep
  OBVIOUS
<1> USE DEF worldVars, configVars, watchVars, storeVars, loopVars, uploadVars, outside
<1>1. CASE Boot \/ Enqueued \/ Check \/ Unwatch
  <2>1. UNCHANGED <<deb, queue, pending>>
    BY <1>1 DEF Boot, Enqueued, Check, Unwatch
  <2> QED BY <2>1, SameChanges DEF Owed
<1>2. CASE EnqueueNext
  <2>1. UNCHANGED deb /\ \E i \in queue : queue' = queue \ {i} /\ pending' = pending \cup {i}
    BY <1>2 DEF EnqueueNext
  <2>2. Owed' = Owed
    BY <2>1 DEF Owed
  <2> QED BY <2>1, <2>2, SameChanges
<1>3. CASE Arm
  <2>1. UNCHANGED <<deb, queue>> /\ pending' \in SUBSET Item /\ pending = {}
    BY <1>3 DEF Arm, Blank, TypeOK
  <2>2. PICK S \in SUBSET Item : S = pending'
    BY <2>1
  <2>3. Owed' = Owed \cup S
    BY <2>1, <2>2 DEF Owed
  <2> QED BY <2>1, <2>3, MoreOwed
<1>4. CASE Start
  <2>1. CASE GoOff
    BY <2>1, GoOffChanges
  <2>2. CASE ~GoOff
    <3>1. UNCHANGED <<deb, pending>> /\ queue' = Targets(config) /\ queue = {}
      BY <1>4, <2>2 DEF Start, QueueUsedUp
    <3>2. PICK S \in SUBSET Item : S = Targets(config)
      BY TargetsAreItems DEF TypeOK
    <3>3. Owed' = Owed \cup S
      BY <3>1, <3>2 DEF Owed
    <3> QED BY <3>1, <3>3, MoreOwed
  <2> QED BY <2>1, <2>2
<1>5. CASE Swap
  <2>1. UNCHANGED <<deb, pending>> /\ queue' = Added(cfgFile) /\ queue = {}
    BY <1>5 DEF Swap, QueueUsedUp
  <2>2. cfgFile \in Loadable
    BY <1>5 DEF Swap, Loadable, TypeOK
  <2>3. Added(cfgFile) \subseteq Item
    BY <2>2, TargetsAreItems DEF Added
  <2>4. PICK S \in SUBSET Item : S = Added(cfgFile)
    BY <2>3
  <2>5. Owed' = Owed \cup S
    BY <2>1, <2>4 DEF Owed
  <2> QED BY <2>1, <2>5, MoreOwed
<1>6. CASE StopSeen
  BY <1>6, GoOffChanges DEF StopSeen
<1>7. CASE ReloadFails \/ Rewatch
  <2>1. CASE GoOff
    BY <2>1, GoOffChanges
  <2>2. CASE ~GoOff
    <3>1. UNCHANGED <<deb, queue, pending>>
      BY <1>7, <2>2 DEF ReloadFails, Rewatch
    <3> QED BY <3>1, SameChanges DEF Owed
  <2> QED BY <2>1, <2>2
<1>8. CASE Collect
  <2>1. /\ queue' = Expired /\ queue = {} /\ pending' = pending
        /\ deb' = [i \in Item |-> IF deb[i] = "expired" THEN "idle" ELSE deb[i]]
    BY <1>8 DEF Collect, QueueUsedUp, Expired
  <2>2. Waiters' = Waiters /\ Expired' = {} /\ Owed' = Owed \cup Expired
    BY <2>1 DEF Waiters, Expired, Owed
  <2>3. Changes!Collect
    BY <2>2 DEF Waiters, Expired, Owed, Changes!Collect
  <2> QED BY <2>3 DEF ChangeStep, Changes!Next
<1> QED BY <1>1, <1>2, <1>3, <1>4, <1>5, <1>6, <1>7, <1>8

\* Uploading settles what is owed, item by item.
LEMMA UploadChanges ==
  ASSUME TypeOK, QueueUsedUp,
         \/ Drain \/ Drained \/ UploadDeferred
         \/ \E i \in Item : \/ DropUnknown(i) \/ Refused(i) \/ StartMkdir(i)
                            \/ MkdirDone(i) \/ RsyncDone(i) \/ UploadDropped(i)
                            \/ \E f \in File : RsyncCopies(i, f)
  PROVE  ChangeStep
<1> USE DEF worldVars, configVars, watchVars, storeVars, loopVars, uploadVars, outside
<1>1. CASE Drain \/ Drained \/ UploadDeferred
  <2>1. UNCHANGED <<deb, queue, pending>>
    BY <1>1 DEF Drain, Drained, UploadDeferred, LeaveDrain
  <2> QED BY <2>1, SameChanges DEF Owed
<1>2. ASSUME NEW i \in Item, Refused(i) \/ StartMkdir(i) \/ MkdirDone(i)
      PROVE  ChangeStep
  <2>1. UNCHANGED <<deb, queue, pending>>
    BY <1>2 DEF Refused, StartMkdir, MkdirDone, LeaveDrain
  <2> QED BY <2>1, SameChanges DEF Owed
<1>3. ASSUME NEW i \in Item, NEW f \in File, RsyncCopies(i, f)
      PROVE  ChangeStep
  <2>1. UNCHANGED <<deb, queue, pending>>
    BY <1>3 DEF RsyncCopies
  <2> QED BY <2>1, SameChanges DEF Owed
<1>4. ASSUME NEW i \in Item, DropUnknown(i) \/ RsyncDone(i) \/ UploadDropped(i)
      PROVE  ChangeStep
  <2>1. Discard(i) /\ queue = {}
    BY <1>4 DEF DropUnknown, RsyncDone, UploadDropped, QueueUsedUp
  <2> QED BY <2>1, DiscardChanges
<1> QED BY <1>1, <1>2, <1>3, <1>4

\* Events make items wait, the clock makes them expire.
LEMMA ObserverChanges == TypeOK /\ Observer => ChangeStep
<1> SUFFICES ASSUME TypeOK, Observer PROVE ChangeStep
  OBVIOUS
<1> USE DEF worldVars, configVars, watchVars, storeVars, loopVars, uploadVars, outside
<1>1. deb \in [Item -> {"idle", "waiting", "expired"}] /\ matched \subseteq Item
  BY DEF TypeOK
<1>2. CASE \E w \in Watch, f \in File : Dispatch(w, f)
  <2>1. UNCHANGED <<deb, queue, pending>>
    BY <1>2 DEF Dispatch
  <2> QED BY <2>1, SameChanges DEF Owed
<1>3. CASE Touch
  <2>1. PICK S \in SUBSET Item : S = matched
    BY <1>1
  <2>2. /\ deb' = [i \in Item |-> IF i \in S THEN "waiting" ELSE deb[i]]
        /\ UNCHANGED <<queue, pending>>
    BY <1>3, <2>1 DEF Touch
  <2>3. Waiters' = Waiters \cup S /\ Expired' = Expired \ S /\ Owed' = Owed
    BY <2>2 DEF Waiters, Expired, Owed
  <2>4. Changes!Changed(S)
    BY <2>3 DEF Waiters, Expired, Owed, Changes!Changed
  <2>5. \E T \in SUBSET Item : Changes!Changed(T)
    BY <2>4
  <2> QED BY <2>5 DEF ChangeStep, Changes!Next
<1>4. ASSUME NEW i \in Item, Expire(i) PROVE ChangeStep
  <2>1. /\ deb[i] = "waiting" /\ deb' = [deb EXCEPT ![i] = "expired"]
        /\ UNCHANGED <<queue, pending>>
    BY <1>4 DEF Expire
  <2>2. /\ {i} \subseteq Waiters /\ Waiters' = Waiters \ {i} /\ Expired' = Expired \cup {i}
        /\ Owed' = Owed
    BY <1>1, <2>1 DEF Waiters, Expired, Owed
  <2>3. Changes!BecomeQuiet({i})
    BY <2>2 DEF Waiters, Expired, Owed, Changes!BecomeQuiet
  <2>4. \E T \in SUBSET Item : Changes!BecomeQuiet(T)
    BY <2>3
  <2> QED BY <2>4 DEF ChangeStep, Changes!Next
<1> QED BY <1>2, <1>3, <1>4 DEF Observer

\* The world ends the process or touches nothing of this.
LEMMA WorldChanges == World \/ UNCHANGED vars => ChangeStep
<1> USE DEF worldVars, configVars, watchVars, storeVars, loopVars, uploadVars, outside
<1>1. CASE Crash
  BY <1>1, GoOffChanges DEF Crash
<1>2. CASE \/ \E f \in File : Change(f)
           \/ \E c \in Content : EditConfig(c)
           \/ Signal
           \/ UNCHANGED vars
  <2>1. UNCHANGED <<deb, queue, pending>>
    BY <1>2 DEF Change, EditConfig, Signal, vars
  <2> QED BY <2>1, SameChanges DEF Owed
<1> QED BY <1>1, <1>2 DEF World

\* Whatever threads, reloads, failing uploads, crashes and restarts do, the agent
\* implements the abstract queue: a changed item does not get lost between the
\* debouncer and the upload, for any files, items, configurations and faults.
THEOREM AgentKeepsChanges == Spec => KeepsChanges
<1>1. Init => Changes!Init
  <2> SUFFICES ASSUME Init PROVE Changes!Init
    OBVIOUS
  <2>1. Waiters = {} /\ Expired = {} /\ Owed = {}
    BY DEF Init, Waiters, Expired, Owed
  <2> QED BY <2>1 DEF Waiters, Expired, Owed, Changes!Init
<1>2. Init => Blank
  BY DEF Init, Blank
<1>3. IInv => TypeOK /\ QueueUsedUp
  BY DEF IInv
<1>4. TypeOK /\ QueueUsedUp /\ Blank /\ [Next]_vars => [Changes!Next]_(Changes!changeVars)
  <2>1. TypeOK /\ QueueUsedUp /\ Blank /\ [Next]_vars => ChangeStep
    BY LoopChanges, UploadChanges, ObserverChanges, WorldChanges DEF Next, Main
  <2> QED BY <2>1 DEF ChangeStep
<1> QED
  BY <1>1, <1>2, <1>3, <1>4, BlankStep, InductiveInvariant, PTL
     DEF Spec, KeepsChanges, Changes!Spec
================================================================================

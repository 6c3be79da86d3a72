----------------------- MODULE GstPlayerPipelineProofs -----------------------
(***************************************************************************)
(* What holds of the player for every set of clients, every set of calls   *)
(* they make, right or wrong, and every backlog of the bus.                *)
(***************************************************************************)
EXTENDS GstPlayerPipeline, PlayBinProofs

-----------------------------------------------------------------------------
(* Type correctness *)

\* The end of a call, and the beginning of a wait, keep the types.
LEMMA LockType ==
  ASSUME TypeOK, NEW t \in Threads, NEW owner \in Threads \cup {Nobody},
         EndsWith(t, owner) \/ Waits(t) \/ SetsAudioSink(t)
  PROVE  /\ mActionMutex' \in Threads \cup {Nobody}
         /\ pc' \in [Threads -> {"idle", "called", "wait", "join", "dead"}]
         /\ op' \in [Threads -> AllOps \cup {"setAudioSink", "none"}]
<1>1. CASE EndsWith(t, owner)
  BY <1>1 DEF EndsWith, TypeOK
<1>2. CASE Waits(t)
  BY <1>2 DEF Waits, TypeOK
<1>3. CASE SetsAudioSink(t)
  BY <1>3 DEF SetsAudioSink, TypeOK
<1> QED BY <1>1, <1>2, <1>3

LEMMA ReturnType ==
  ASSUME TypeOK, NEW t \in Threads,
         Returns(t) \/ ReturnsLocked(t) \/ EndsWith(t, mActionMutex)
           \/ Waits(t) \/ SetsAudioSink(t)
  PROVE  /\ mActionMutex' \in Threads \cup {Nobody}
         /\ pc' \in [Threads -> {"idle", "called", "wait", "join", "dead"}]
         /\ op' \in [Threads -> AllOps \cup {"setAudioSink", "none"}]
  BY LockType DEF Returns, ReturnsLocked, TypeOK

\* A call that changes the state of playbin2 keeps the types.
LEMMA ChangeStateType ==
  ASSUME TypeOK, NEW t \in Threads, NEW s \in {PAUSED, PLAYING}, NEW ret,
         ChangeState(t, s, ret)
  PROVE  /\ PlayBinTypeOK'
         /\ mActionMutex' \in Threads \cup {Nobody}
         /\ pc' \in [Threads -> {"idle", "called", "wait", "join", "dead"}]
         /\ op' \in [Threads -> AllOps \cup {"setAudioSink", "none"}]
<1>1. PlayBinTypeOK'
  BY SetStateType DEF ChangeState, TypeOK
<1>2. Returns(t) \/ Waits(t)
  BY DEF ChangeState
<1> QED BY <1>1, <1>2, ReturnType

\* What a step that leaves a group of variables alone keeps.
LEMMA PlayBinUnchanged ==
  ASSUME PlayBinTypeOK, UNCHANGED playBinVars
  PROVE  PlayBinTypeOK'
  BY DEF PlayBinTypeOK, playBinVars

LEMMA EventTypes ==
  /\ {} \subseteq Events
  /\ \A e \in Events : {e} \subseteq Events
  /\ {"MEDIA_PREPARED", "MEDIA_SEEK_COMPLETE"} \subseteq Events
  /\ \A e \in {"MEDIA_PLAYBACK_COMPLETE", "MEDIA_ERROR", "MEDIA_BUFFERING_UPDATE"} :
       e \in Events
  BY DEF Events

\* The steps of a thread that has the mutex.
LEMMA RunsType ==
  ASSUME TypeOK, NEW t \in Threads, Runs(t)
  PROVE  TypeOK'
<1> USE EventTypes
<1>1. ASSUME SetDataSource(t) \/ SetDataSourceFd(t) \/ SetAudioSink(t)
               \/ SetVideoSurface(t)
      PROVE  TypeOK'
  <2>1. Returns(t) \/ ReturnsLocked(t) \/ EndsWith(t, mActionMutex) \/ SetsAudioSink(t)
    BY <1>1 DEF SetDataSource, SetDataSourceFd, SetAudioSink, SetVideoSurface
  <2>2. sent' = {} /\ UNCHANGED <<playBinVars, requestVars, lifeVars, mIsLooping>>
    BY <1>1 DEF SetDataSource, SetDataSourceFd, SetAudioSink, SetVideoSurface
  <2> QED BY <2>1, <2>2, ReturnType, PlayBinUnchanged DEF TypeOK, requestVars, lifeVars
<1>2. ASSUME NEW o, Refuse(t, o) PROVE TypeOK'
  BY <1>2, ReturnType, PlayBinUnchanged DEF Refuse, TypeOK, requestVars, lifeVars
<1>3. CASE Prepare(t)
  <2>1. PICK ret \in {"SUCCESS", "ASYNC", "FAILURE"} :
          /\ ChangeState(t, PAUSED, ret)
          /\ sent' = IF ret = "SUCCESS" THEN {"MEDIA_PREPARED"} ELSE {}
    BY <1>3 DEF Prepare
  <2>2. UNCHANGED <<requestVars, lifeVars, mIsLooping>>
    BY <1>3 DEF Prepare
  <2> QED BY <2>1, <2>2, ChangeStateType DEF TypeOK, requestVars, lifeVars
<1>4. CASE PrepareAsync(t)
  <2>1. PICK ret \in {"SUCCESS", "ASYNC", "FAILURE"} :
          /\ SetState(PAUSED, ret)
          /\ mAsynchPreparePending' = (mAsynchPreparePending \/ ret # "FAILURE")
    BY <1>4 DEF PrepareAsync
  <2>2. PlayBinTypeOK'
    BY <2>1, SetStateType DEF TypeOK
  <2>3. mAsynchPreparePending' \in BOOLEAN
    BY <2>1
  <2> QED BY <1>4, <2>2, <2>3, ReturnType
      DEF PrepareAsync, TypeOK, seekVars, lifeVars
<1>5. CASE Start(t)
  BY <1>5, ChangeStateType DEF Start, TypeOK, requestVars, lifeVars
<1>6. CASE Pause(t)
  <2>1. mSeekState' \in {VOID_PENDING, PAUSED, PLAYING}
    BY <1>6 DEF Pause, SeekStateOnPause, TypeOK
  <2> QED BY <1>6, <2>1, ChangeStateType DEF Pause, TypeOK, lifeVars
<1>7. CASE Stop(t)
  <2>1. PlayBinTypeOK'
    BY <1>7, SetReadyType DEF Stop, TypeOK
  <2>2. /\ mActionMutex' \in Threads \cup {Nobody}
        /\ pc' \in [Threads -> {"idle", "called", "wait", "join", "dead"}]
        /\ op' \in [Threads -> AllOps \cup {"setAudioSink", "none"}]
    BY <1>7, ReturnType DEF Stop
  <2>3. /\ mSeeking' \in BOOLEAN
        /\ mAsynchPreparePending' \in BOOLEAN
        /\ mSeekState' \in {VOID_PENDING, PAUSED, PLAYING}
        /\ sent' \subseteq Events
    BY <1>7, Zenon DEF Stop, TypeOK, requestVars
  <2> QED BY <1>7, <2>1, <2>2, <2>3 DEF Stop, TypeOK, lifeVars
<1>8. CASE WaitForStableState(t) \/ Query(t)
  BY <1>8, ReturnType, PlayBinUnchanged
  DEF WaitForStableState, Query, TypeOK, requestVars, lifeVars
<1>9. CASE SetLooping(t)
  BY <1>9, ReturnType, PlayBinUnchanged DEF SetLooping, TypeOK, requestVars, lifeVars
<1>10. CASE Delete(t)
  <2>1. PlayBinTypeOK'
    BY <1>10, MessageTypes, PostType DEF Delete, Post, PlayBinTypeOK, TypeOK, stableVars, MsgTypes
  <2> QED BY <1>10, <2>1 DEF Delete, TypeOK, requestVars, lifeVars
<1> QED BY <1>1, <1>2, <1>3, <1>4, <1>5, <1>6, <1>7, <1>8, <1>9, <1>10 DEF Runs

\* The steps after a wait.
LEMMA GoesOnType ==
  ASSUME TypeOK, NEW t \in Threads, GoesOn(t)
  PROVE  TypeOK'
<1> USE EventTypes
<1>1. CASE PrepareSettled(t) \/ CallSettled(t)
  <2>1. sent' \subseteq Events
    BY <1>1 DEF PrepareSettled, CallSettled
  <2>2. Returns(t) /\ UNCHANGED <<playBinVars, requestVars, lifeVars, mIsLooping>>
    BY <1>1 DEF PrepareSettled, CallSettled
  <2> QED BY <2>1, <2>2, ReturnType, PlayBinUnchanged DEF TypeOK, requestVars, lifeVars
<1>2. CASE SeekToSettled(t)
  <2>1. /\ PlayBinTypeOK'
        /\ mSeeking' \in BOOLEAN
        /\ mSeekState' \in {VOID_PENDING, PAUSED, PLAYING}
    <3>1. CASE FlushingSeek /\ mSeeking' = TRUE /\ mSeekState' = state
      BY <3>1, FlushingSeekType
      DEF FlushingSeek, TypeOK, PlayBinTypeOK, NULL, READY, PAUSED, PLAYING, VOID_PENDING
    <3>2. CASE UNCHANGED <<playBinVars, seekVars>>
      BY <3>2, PlayBinUnchanged DEF TypeOK, seekVars
    <3> QED BY <1>2, <3>1, <3>2 DEF SeekToSettled
  <2> QED BY <1>2, <2>1, ReturnType DEF SeekToSettled, TypeOK, lifeVars
<1> QED BY <1>1, <1>2 DEF GoesOn

\* The steps of the bus thread.
LEMMA BusStepType ==
  ASSUME TypeOK, BusStep
  PROVE  TypeOK'
<1> USE EventTypes
<1>1. PlayBinTypeOK' /\ UNCHANGED <<mPlayBin, mIsLooping>>
  <2>1. bus # <<>> /\ bus' = Tail(bus) /\ UNCHANGED <<stableVars, mPlayBin, mIsLooping>>
    BY DEF BusStep, BusCallback, HandleEos, HandleError, HandleBuffering,
           HandleStateChanged, HandleApplication, HandleOther
  <2> QED BY <2>1 DEF TypeOK, PlayBinTypeOK, stableVars
<1>2. CASE HandleEos
  <2>1. /\ mActionMutex' \in Threads \cup {Nobody}
        /\ pc' \in [Threads -> {"idle", "called", "wait", "join", "dead"}]
        /\ op' \in [Threads -> AllOps \cup {"setAudioSink", "none"}]
        /\ sent' \subseteq Events
    BY <1>2 DEF HandleEos, TypeOK, lockVars, Threads, AllOps
  <2> QED BY <1>1, <1>2, <2>1 DEF HandleEos, TypeOK, requestVars
<1>3. CASE HandleError \/ HandleBuffering \/ HandleOther
  BY <1>1, <1>3 DEF HandleError, HandleBuffering, HandleOther, TypeOK, lockVars, requestVars
<1>4. CASE HandleStateChanged
  <2>1. mAsynchPreparePending' \in BOOLEAN /\ mSeeking' \in BOOLEAN
    BY <1>4, Zenon DEF HandleStateChanged
  <2>2. mSeekState' \in {VOID_PENDING, PAUSED, PLAYING} /\ sent' \subseteq Events
    BY <1>4, Zenon DEF HandleStateChanged, TypeOK
  <2> QED BY <1>1, <1>4, <2>1, <2>2 DEF HandleStateChanged, TypeOK, lockVars
<1>5. CASE HandleApplication
  BY <1>1, <1>5 DEF HandleApplication, TypeOK, lockVars, requestVars
<1> QED BY <1>2, <1>3, <1>4, <1>5 DEF BusStep

\* TypeOK is an invariant.
THEOREM TypeCorrect == Spec => []TypeOK
<1> USE EventTypes
<1>1. Init => TypeOK
  <2> SUFFICES ASSUME Init PROVE TypeOK OBVIOUS
  <2>1. PlayBinTypeOK
    <3> USE DEF Init, PlayBinInit
    <3>1. state \in NULL..PLAYING /\ target \in {VOID_PENDING, PAUSED, PLAYING}
      BY DEF NULL, PLAYING
    <3>2. failed \in BOOLEAN /\ atEos \in BOOLEAN
      BY Zenon
    <3>3. bus \in Seq(Msg)
      OBVIOUS
    <3> QED BY <3>1, <3>2, <3>3 DEF PlayBinTypeOK
  <2>2. mPlayBin \in BOOLEAN /\ mBusMessageThread \in {"none", "running", "exited"}
    BY Zenon DEF Init
  <2> QED BY <2>1, <2>2 DEF Init, TypeOK
<1>2. TypeOK /\ [Next]_vars => TypeOK'
  <2> SUFFICES ASSUME TypeOK, [Next]_vars PROVE TypeOK' OBVIOUS
  <2>1. ASSUME NEW c \in Clients, NEW o \in Ops, Call(c, o) PROVE TypeOK'
    BY <2>1, OpsAssumption, PlayBinUnchanged
    DEF Call, TypeOK, Threads, requestVars, lifeVars
  <2>2. ASSUME NEW t \in Threads, Runs(t) \/ GoesOn(t) PROVE TypeOK'
    BY <2>2, RunsType, GoesOnType
  <2>3. ASSUME NEW c \in Clients, DeleteJoined(c) PROVE TypeOK'
    <3>1. PlayBinTypeOK'
      BY <2>3, SetNullType DEF DeleteJoined, TypeOK
    <3>2. mSeeking' \in BOOLEAN /\ mAsynchPreparePending' \in BOOLEAN /\ mPlayBin' \in BOOLEAN
      BY <2>3, Zenon DEF DeleteJoined
    <3> QED BY <2>3, <3>1, <3>2 DEF DeleteJoined, TypeOK, Threads
  <2>4. CASE BusStep
    BY <2>4, BusStepType
  <2>5. CASE PrerollEnds
    BY <2>5, StreamingType DEF PrerollEnds, TypeOK, lockVars, requestVars, lifeVars
  <2>6. CASE PlayBinPosts
    BY <2>6, StreamingType, AnnouncedAssumption
    DEF PlayBinPosts, TypeOK, lockVars, requestVars, lifeVars, MsgTypes
  <2>7. CASE UNCHANGED vars
    BY <2>7, PlayBinUnchanged DEF vars, TypeOK, lockVars, requestVars, lifeVars
  <2> QED BY <2>1, <2>2, <2>3, <2>4, <2>5, <2>6, <2>7 DEF Next, Terminated
<1> QED BY <1>1, <1>2, PTL DEF Spec

-----------------------------------------------------------------------------
(* Waiting under the mutex *)

\* A thread that waits for playbin2 owns the mutex: the strengthening that keeps
\* every other call away from the state it waits for.
WaiterOwns == \A t \in Threads : pc[t] = "wait" => mActionMutex = t

WaitInv == TypeOK /\ WaiterOwns /\ WaitersGetTheirState

\* While the mutex is free, nobody waits.
LEMMA NobodyWaits ==
  ASSUME WaiterOwns, mActionMutex = Nobody, NEW t \in Threads
  PROVE  pc[t] # "wait"
  BY ThreadsAssumption DEF WaiterOwns

\* Who gets the mutex or leaves it is the only one whose wait begins or ends.
LEMMA WaitMoves ==
  ASSUME TypeOK, WaiterOwns, NEW t \in Threads,
         mActionMutex = Nobody \/ pc[t] = "wait",
         Returns(t) \/ ReturnsLocked(t) \/ Waits(t)
  PROVE  /\ WaiterOwns'
         /\ \A u \in Threads : pc'[u] = "wait" => u = t /\ Waits(t)
<1>1. \A u \in Threads : u # t => pc[u] # "wait"
  BY NobodyWaits DEF WaiterOwns
<1>2. \A u \in Threads : u # t => pc'[u] = pc[u]
  BY DEF Returns, ReturnsLocked, EndsWith, Waits, TypeOK
<1>3. CASE Waits(t)
  BY <1>1, <1>2, <1>3 DEF Waits, WaiterOwns
<1>4. CASE EndsWith(t, Nobody) \/ EndsWith(t, t)
  <2>1. pc'[t] = "idle"
    BY <1>4 DEF EndsWith, TypeOK
  <2> QED BY <1>1, <1>2, <2>1 DEF WaiterOwns
<1> QED BY <1>3, <1>4 DEF Returns, ReturnsLocked

\* A step that neither begins nor moves a wait, and leaves the goal of playbin2
\* alone, keeps the invariant.
LEMMA NoWaitMoves ==
  ASSUME WaitInv, UNCHANGED <<state, target, failed, mActionMutex>>,
         \A t \in Threads : pc'[t] = "wait" => pc[t] = "wait" /\ op'[t] = op[t]
  PROVE  WaiterOwns' /\ WaitersGetTheirState'
<1>1. WaiterOwns'
  BY DEF WaitInv, WaiterOwns
<1>2. GoalState' = GoalState
  BY DEF GoalState, Settled
<1> QED BY <1>1, <1>2 DEF WaitInv, WaitersGetTheirState

\* A change of state that is not over at once is on its way to what was asked.
LEMMA ChangeStateGoal ==
  ASSUME TypeOK, NEW s \in {PAUSED, PLAYING}, SetState(s, "ASYNC")
  PROVE  GoalState' = s
<1>1. target' = s
  BY DEF SetState, Open, OpenFails, Retarget, StayIn, Switch, PauseAsync
<1> QED BY <1>1 DEF GoalState, Settled, VOID_PENDING, PAUSED, PLAYING

LEMMA ChangeStateWait ==
  ASSUME WaitInv, NEW t \in Threads, NEW o \in {"prepare", "pause", "start"},
         NEW s \in {PAUSED, PLAYING}, o = "start" <=> s = PLAYING,
         NEW ret, Locks(t, o), ChangeState(t, s, ret)
  PROVE  WaiterOwns' /\ WaitersGetTheirState'
<1>1. mActionMutex = Nobody /\ op[t] = o
  BY DEF Locks
<1>2. Returns(t) \/ Waits(t)
  BY DEF ChangeState
<1>3. WaiterOwns' /\ \A u \in Threads : pc'[u] = "wait" => u = t /\ Waits(t)
  BY <1>1, <1>2, WaitMoves DEF WaitInv
<1>4. ASSUME Waits(t), pc'[t] = "wait"
      PROVE  op'[t] = o /\ (ret = "ASYNC" => GoalState' = s)
  <2>1. op'[t] = o
    BY <1>1, <1>4 DEF Waits
  <2>2. ret = "ASYNC" => GoalState' = s
    BY ChangeStateGoal DEF ChangeState, WaitInv
  <2> QED BY <2>1, <2>2
<1>5. pc'[t] = "wait" => ret = "ASYNC"
  BY DEF ChangeState, Returns, EndsWith, WaitInv, TypeOK
<1>6. s = PAUSED <=> o # "start"
  BY DEF PAUSED, PLAYING
<1> QED BY <1>3, <1>4, <1>5, <1>6 DEF WaitersGetTheirState

\* A call that does not wait for a state of its own keeps the invariant.
LEMMA OtherWait ==
  ASSUME WaitInv, NEW t \in Threads,
         mActionMutex = Nobody \/ pc[t] = "wait",
         \/ Returns(t) \/ ReturnsLocked(t)
         \/ Waits(t) /\ op[t] \in {"isPlaying", "seekTo"}
  PROVE  WaiterOwns' /\ WaitersGetTheirState'
<1>1. WaiterOwns' /\ \A u \in Threads : pc'[u] = "wait" => u = t /\ Waits(t)
  BY WaitMoves DEF WaitInv
<1>2. Waits(t) => op'[t] = op[t]
  BY DEF Waits
<1>3. pc'[t] = "wait" => op[t] \in {"isPlaying", "seekTo"}
  BY DEF Returns, ReturnsLocked, EndsWith, WaitInv, TypeOK
<1> QED BY <1>1, <1>2, <1>3 DEF WaitersGetTheirState

\* The steps of a thread that has the mutex.
LEMMA RunsWait ==
  ASSUME WaitInv, NEW t \in Threads, Runs(t)
  PROVE  WaiterOwns' /\ WaitersGetTheirState'
<1>1. ASSUME SetDataSource(t) \/ SetDataSourceFd(t)
      PROVE  WaiterOwns' /\ WaitersGetTheirState'
  <2>1. pc[t] = "called" /\ UNCHANGED <<state, target, failed>>
    BY <1>1 DEF SetDataSource, SetDataSourceFd, Locks, playBinVars
  <2>2. CASE EndsWith(t, mActionMutex) \/ SetsAudioSink(t)
    <3>1. UNCHANGED mActionMutex
      BY <2>2 DEF EndsWith, SetsAudioSink
    <3>2. \A u \in Threads : pc'[u] = "wait" => pc[u] = "wait" /\ op'[u] = op[u]
      BY <2>1, <2>2 DEF EndsWith, SetsAudioSink, WaitInv, TypeOK
    <3> QED BY <2>1, <3>1, <3>2, NoWaitMoves
  <2>3. CASE SetDataSource(t) /\ ReturnsLocked(t)
    BY <2>3, OtherWait DEF SetDataSource, Locks
  <2> QED BY <1>1, <2>2, <2>3 DEF SetDataSource, SetDataSourceFd
<1>2. CASE SetAudioSink(t) \/ SetVideoSurface(t)
  BY <1>2, OtherWait DEF SetAudioSink, SetVideoSurface, Locks
<1>3. ASSUME NEW o, Refuse(t, o) PROVE WaiterOwns' /\ WaitersGetTheirState'
  BY <1>3, OtherWait DEF Refuse, Locks
<1>4. CASE Prepare(t)
  <2>1. PICK ret \in {"SUCCESS", "ASYNC", "FAILURE"} : ChangeState(t, PAUSED, ret)
    BY <1>4 DEF Prepare
  <2>2. Locks(t, "prepare")
    BY <1>4 DEF Prepare
  <2> QED BY <2>1, <2>2, ChangeStateWait DEF PAUSED, PLAYING
<1>5. CASE Start(t)
  <2>1. PICK ret \in {"SUCCESS", "ASYNC", "FAILURE"} : ChangeState(t, PLAYING, ret)
    BY <1>5 DEF Start
  <2>2. Locks(t, "start")
    BY <1>5 DEF Start
  <2> QED BY <2>1, <2>2, ChangeStateWait
<1>6. CASE Pause(t)
  <2>1. PICK ret \in {"SUCCESS", "ASYNC", "FAILURE"} : ChangeState(t, PAUSED, ret)
    BY <1>6 DEF Pause
  <2>2. Locks(t, "pause")
    BY <1>6 DEF Pause
  <2> QED BY <2>1, <2>2, ChangeStateWait DEF PAUSED, PLAYING
<1>7. CASE PrepareAsync(t) \/ Stop(t) \/ Query(t) \/ SetLooping(t)
  BY <1>7, OtherWait DEF PrepareAsync, Stop, Query, SetLooping, Locks
<1>8. CASE WaitForStableState(t)
  BY <1>8, OtherWait DEF WaitForStableState, Locks
<1>9. CASE Delete(t)
  <2>1. UNCHANGED <<state, target, failed, mActionMutex>>
    BY <1>9 DEF Delete, stableVars
  <2>2. \A u \in Threads : pc'[u] = "wait" => pc[u] = "wait" /\ op'[u] = op[u]
    BY <1>9 DEF Delete, WaitInv, TypeOK
  <2> QED BY <2>1, <2>2, NoWaitMoves
<1> QED BY <1>1, <1>2, <1>3, <1>4, <1>5, <1>6, <1>7, <1>8, <1>9 DEF Runs

\* The invariant is inductive.
LEMMA WaitInductive ==
  ASSUME WaitInv, [Next]_vars, TypeOK'
  PROVE  WaitInv'
<1> SUFFICES WaiterOwns' /\ WaitersGetTheirState' BY DEF WaitInv
<1>1. ASSUME NEW c \in Clients, NEW o \in Ops, Call(c, o)
      PROVE  WaiterOwns' /\ WaitersGetTheirState'
  <2>1. UNCHANGED <<state, target, failed, mActionMutex>>
    BY <1>1 DEF Call, playBinVars
  <2>2. \A u \in Threads : pc'[u] = "wait" => pc[u] = "wait" /\ op'[u] = op[u]
    BY <1>1 DEF Call, WaitInv, TypeOK
  <2> QED BY <2>1, <2>2, NoWaitMoves
<1>2. ASSUME NEW t \in Threads, Runs(t) PROVE WaiterOwns' /\ WaitersGetTheirState'
  BY <1>2, RunsWait
<1>3. ASSUME NEW t \in Threads, GoesOn(t) PROVE WaiterOwns' /\ WaitersGetTheirState'
  BY <1>3, OtherWait
  DEF GoesOn, PrepareSettled, CallSettled, SeekToSettled, Settles
<1>4. ASSUME NEW c \in Clients, DeleteJoined(c)
      PROVE  WaiterOwns' /\ WaitersGetTheirState'
  <2>1. \A u \in Threads : pc'[u] # "wait"
    BY <1>4, NobodyWaits DEF DeleteJoined, WaitInv, TypeOK
  <2> QED BY <2>1 DEF WaiterOwns, WaitersGetTheirState
<1>5. CASE BusStep
  <2>1. mActionMutex = Nobody
    BY <1>5 DEF BusStep, BusCallback, HandleEos, HandleError, HandleBuffering,
                HandleStateChanged, HandleApplication, HandleOther
  <2>2. \A u \in Threads : pc'[u] = pc[u] \/ pc'[u] = "called"
    BY <1>5 DEF BusStep, HandleEos, HandleError, HandleBuffering,
                HandleStateChanged, HandleApplication, HandleOther, lockVars, WaitInv, TypeOK
  <2>3. \A u \in Threads : pc'[u] # "wait"
    BY <2>1, <2>2, NobodyWaits DEF WaitInv
  <2> QED BY <2>3 DEF WaiterOwns, WaitersGetTheirState
<1>6. CASE PrerollEnds
  <2>1. WaiterOwns' /\ UNCHANGED <<pc, op>>
    BY <1>6 DEF PrerollEnds, lockVars, WaitInv, WaiterOwns
  <2>2. failed' \/ (failed' = failed /\ GoalState' = GoalState)
    BY <1>6 DEF PrerollEnds, Preroll, PrerollFails, GoalState, Settled, VOID_PENDING
  <2> QED BY <2>1, <2>2 DEF WaitInv, WaitersGetTheirState
<1>7. CASE PlayBinPosts \/ UNCHANGED vars
  <2>1. UNCHANGED <<state, target, failed, mActionMutex, pc, op>>
    BY <1>7 DEF PlayBinPosts, ChildPauses, ReachEos, Announce, lockVars, vars, playBinVars
  <2> QED BY <2>1, NoWaitMoves
<1> QED BY <1>1, <1>2, <1>3, <1>4, <1>5, <1>6, <1>7 DEF Next, Terminated

LEMMA WaitInvariant == Spec => []WaitInv
<1>1. Init => WaiterOwns /\ WaitersGetTheirState
  BY DEF Init, WaiterOwns, WaitersGetTheirState
<1>2. TypeOK /\ TypeOK' /\ WaitInv /\ [Next]_vars => WaitInv'
  BY WaitInductive
<1>3. TypeOK /\ WaiterOwns /\ WaitersGetTheirState => WaitInv
  BY DEF WaitInv
<1> QED BY <1>1, <1>2, <1>3, TypeCorrect, PTL DEF Spec

\* A client that waits in prepare(), pause() or start() waits for the state it
\* asked for, however many clients there are and whatever they get wrong.
THEOREM WaitersSafe == Spec => []WaitersGetTheirState
<1>1. WaitInv => WaitersGetTheirState
  BY DEF WaitInv
<1> QED BY <1>1, WaitInvariant, PTL


\* Nobody but its owner releases the mutex, and only after a wait.
THEOREM MutexDiscipline == Spec => OnlyTheOwnerUnlocks
<1> DEFINE Discipline ==
      mActionMutex # Nobody /\ mActionMutex' # mActionMutex =>
        /\ pc[mActionMutex] = "wait"
        /\ pc'[mActionMutex] = "idle"
        /\ mActionMutex' = Nobody
<1>1. WaitInv /\ [Next]_vars => Discipline
  <2> SUFFICES ASSUME WaitInv, [Next]_vars,
                      mActionMutex # Nobody, mActionMutex' # mActionMutex
               PROVE  /\ pc[mActionMutex] = "wait"
                      /\ pc'[mActionMutex] = "idle"
                      /\ mActionMutex' = Nobody
    OBVIOUS
  <2>1. ASSUME NEW c \in Clients, NEW o \in Ops, Call(c, o) PROVE FALSE
    BY <2>1 DEF Call
  <2>2. ASSUME NEW t \in Threads, Runs(t) PROVE FALSE
    <3>1. CASE SetDataSourceFd(t)
      BY <3>1 DEF SetDataSourceFd, EndsWith, SetsAudioSink
    <3>2. CASE ~SetDataSourceFd(t)
      <4>1. ~Locks(t, op[t])
        BY DEF Locks
      <4>2. \A o : ~Locks(t, o)
        BY DEF Locks
      <4> QED BY <2>2, <3>2, <4>2
          DEF Runs, SetDataSource, SetAudioSink, SetVideoSurface, Refuse, Prepare,
              PrepareAsync, Start, Pause, Stop, WaitForStableState, Query, SetLooping, Delete
    <3> QED BY <3>1, <3>2
  <2>3. ASSUME NEW t \in Threads, GoesOn(t)
        PROVE  pc[mActionMutex] = "wait" /\ pc'[mActionMutex] = "idle" /\ mActionMutex' = Nobody
    <3>1. pc[t] = "wait" /\ Returns(t)
      BY <2>3 DEF GoesOn, PrepareSettled, CallSettled, SeekToSettled, Settles
    <3>2. mActionMutex = t
      BY <3>1 DEF WaitInv, WaiterOwns
    <3> QED BY <3>1, <3>2 DEF Returns, EndsWith, WaitInv, TypeOK
  <2>4. ASSUME NEW c \in Clients, DeleteJoined(c) PROVE FALSE
    BY <2>4 DEF DeleteJoined
  <2>5. CASE BusStep
    BY <2>5 DEF BusStep, BusCallback, HandleEos, HandleError, HandleBuffering,
                HandleStateChanged, HandleApplication, HandleOther
  <2>6. CASE PrerollEnds \/ PlayBinPosts \/ UNCHANGED vars
    BY <2>6 DEF PrerollEnds, PlayBinPosts, lockVars, vars
  <2> QED BY <2>1, <2>2, <2>3, <2>4, <2>5, <2>6 DEF Next, Terminated
<1>2. WaitInv /\ [Next]_vars => [Discipline]_vars
  BY <1>1
<1> QED BY <1>2, WaitInvariant, PTL DEF Spec, OnlyTheOwnerUnlocks

-----------------------------------------------------------------------------
(* Deletion *)

\* A client in the destructor is alone: every other client is out of the player,
\* and will stay out, because the others dropped their references.
DeletesAlone ==
  \A c \in Clients : op[c] = "delete" => \A d \in Clients \ {c} : pc[d] = "idle"

\* Only the destructor joins the bus thread.
OnlyDeleteJoins ==
  /\ \A c \in Clients : pc[c] \in {"join", "dead"} => op[c] = "delete"
  /\ op[BusThread] \notin {"delete"}
  /\ pc[BusThread] \notin {"join", "dead"}

\* A bus thread that is in a handler has not left its main loop.
HandlerRuns == pc[BusThread] # "idle" => mBusMessageThread = "running"

\* playbin2 is down for good, and silent.
Freed ==
  /\ state = NULL
  /\ target = VOID_PENDING
  /\ mBusMessageThread = "none"
  /\ bus = <<>>
  /\ \A t \in Threads : pc[t] \in {"idle", "dead"}

LifeInv ==
  /\ TypeOK
  /\ DeletesAlone
  /\ OnlyDeleteJoins
  /\ HandlerRuns
  /\ Deleted => Freed

\* A step of one thread that does not touch the life of the bus thread, and in
\* which nobody is deleted, keeps the invariant.
LEMMA ThreadStepLife ==
  ASSUME LifeInv, NEW t \in Threads, pc[t] \in {"called", "wait"},
         UNCHANGED lifeVars,
         \A u \in Threads \ {t} : pc'[u] = pc[u] /\ op'[u] = op[u],
         pc'[t] \in {"idle", "called", "wait"},
         op'[t] = "delete" => op[t] = "delete"
  PROVE  DeletesAlone' /\ OnlyDeleteJoins' /\ HandlerRuns' /\ (Deleted' => Freed')
<1>1. ~Deleted
  BY DEF LifeInv, Freed
<1>2. ~Deleted'
  BY <1>1 DEF Deleted, Threads
<1>3. HandlerRuns'
  BY DEF LifeInv, HandlerRuns, lifeVars, Threads
<1>4. OnlyDeleteJoins'
  BY DEF LifeInv, OnlyDeleteJoins, Threads
<1>5. DeletesAlone'
  BY DEF LifeInv, DeletesAlone, Threads
<1> QED BY <1>2, <1>3, <1>4, <1>5

\* The steps of a thread in a call, the destructor's last one aside.
LEMMA RunsLife ==
  ASSUME LifeInv, NEW t \in Threads, Runs(t) \/ GoesOn(t)
  PROVE  DeletesAlone' /\ OnlyDeleteJoins' /\ HandlerRuns' /\ (Deleted' => Freed')
<1>1. CASE Delete(t)
  <2>1. t \in Clients /\ op[t] = "delete" /\ pc[t] = "called"
    BY <1>1 DEF Delete, Locks, LifeInv, OnlyDeleteJoins, Threads
  <2>2. /\ pc' = [pc EXCEPT ![t] = "join"]
        /\ UNCHANGED <<op, mBusMessageThread>>
    BY <1>1 DEF Delete, lifeVars
  <2>3. ~Deleted
    BY <2>1 DEF LifeInv, Freed
  <2> QED BY <2>1, <2>2, <2>3, ThreadsAssumption
      DEF LifeInv, TypeOK, DeletesAlone, OnlyDeleteJoins, HandlerRuns, Deleted, Threads
<1>2. CASE ~Delete(t)
  <2>1. pc[t] \in {"called", "wait"} /\ UNCHANGED lifeVars
    BY <1>2 DEF Runs, GoesOn, SetDataSource, SetDataSourceFd, SetAudioSink, SetVideoSurface,
                Refuse, Prepare, PrepareAsync, Start, Pause, Stop, WaitForStableState, Query,
                SetLooping, PrepareSettled, CallSettled, SeekToSettled, Locks, Settles
  <2>2. \/ \E owner : EndsWith(t, owner)
        \/ Waits(t)
        \/ SetsAudioSink(t)
    BY <1>2 DEF Runs, GoesOn, SetDataSource, SetDataSourceFd, SetAudioSink, SetVideoSurface,
                Refuse, Prepare, PrepareAsync, Start, Pause, Stop, WaitForStableState, Query,
                SetLooping, PrepareSettled, CallSettled, SeekToSettled, ChangeState,
                Returns, ReturnsLocked
  <2>3. /\ \A u \in Threads \ {t} : pc'[u] = pc[u] /\ op'[u] = op[u]
        /\ pc'[t] \in {"idle", "called", "wait"}
        /\ op'[t] = "delete" => op[t] = "delete"
    BY <2>1, <2>2 DEF EndsWith, Waits, SetsAudioSink, LifeInv, TypeOK
  <2> QED BY <2>1, <2>3, ThreadStepLife
<1> QED BY <1>1, <1>2

\* The invariant is inductive.
LEMMA LifeInductive ==
  ASSUME LifeInv, [Next]_vars, TypeOK'
  PROVE  LifeInv'
<1> SUFFICES DeletesAlone' /\ OnlyDeleteJoins' /\ HandlerRuns' /\ (Deleted' => Freed')
  BY DEF LifeInv
<1>1. ASSUME NEW c \in Clients, NEW o \in Ops, Call(c, o)
      PROVE  DeletesAlone' /\ OnlyDeleteJoins' /\ HandlerRuns' /\ (Deleted' => Freed')
  <2>1. /\ pc[c] = "idle"
        /\ \A d \in Clients : op[d] # "delete"
        /\ o = "delete" => \A d \in Clients : pc[d] = "idle"
        /\ pc' = [pc EXCEPT ![c] = "called"]
        /\ op' = [op EXCEPT ![c] = o]
        /\ UNCHANGED mBusMessageThread
    BY <1>1 DEF Call, lifeVars
  <2>2. ~Deleted
    BY <2>1 DEF LifeInv, OnlyDeleteJoins, Deleted
  <2> QED BY <2>1, <2>2, ThreadsAssumption
      DEF LifeInv, TypeOK, DeletesAlone, OnlyDeleteJoins, HandlerRuns, Deleted, Threads
<1>2. ASSUME NEW t \in Threads, Runs(t) \/ GoesOn(t)
      PROVE  DeletesAlone' /\ OnlyDeleteJoins' /\ HandlerRuns' /\ (Deleted' => Freed')
  BY <1>2, RunsLife
<1>3. ASSUME NEW c \in Clients, DeleteJoined(c)
      PROVE  DeletesAlone' /\ OnlyDeleteJoins' /\ HandlerRuns' /\ (Deleted' => Freed')
  <2>1. /\ pc[c] = "join"
        /\ mBusMessageThread # "running"
        /\ pc' = [pc EXCEPT ![c] = "dead"]
        /\ UNCHANGED op
        /\ state' = NULL /\ target' = VOID_PENDING /\ bus' = <<>>
        /\ mBusMessageThread' = IF mBusMessageThread = "exited" THEN "none"
                                                                ELSE mBusMessageThread
    BY <1>3 DEF DeleteJoined, BusThreadJoined, SetNull
  <2>2. op[c] = "delete" /\ pc[BusThread] = "idle"
    BY <2>1 DEF LifeInv, OnlyDeleteJoins, HandlerRuns
  <2>3. mBusMessageThread' = "none"
    BY <2>1 DEF LifeInv, TypeOK
  <2>4. \A u \in Threads : pc'[u] \in {"idle", "dead"}
    BY <2>1, <2>2 DEF LifeInv, DeletesAlone, TypeOK, Threads
  <2>5. Freed'
    BY <2>1, <2>3, <2>4 DEF Freed
  <2>6. OnlyDeleteJoins' /\ HandlerRuns'
    BY <2>1, <2>2, ThreadsAssumption
    DEF LifeInv, TypeOK, OnlyDeleteJoins, HandlerRuns, Threads
  <2>7. DeletesAlone'
    BY <2>1, <2>2 DEF LifeInv, TypeOK, DeletesAlone, Threads
  <2> QED BY <2>5, <2>6, <2>7
<1>4. CASE BusStep
  <2>1. /\ mBusMessageThread = "running"
        /\ pc[BusThread] = "idle"
    BY <1>4 DEF BusStep, BusCallback, HandleEos, HandleError, HandleBuffering,
                HandleStateChanged, HandleApplication, HandleOther
  <2>2. ~Deleted
    BY <2>1 DEF LifeInv, Freed
  <2>3. CASE HandleEos /\ mIsLooping
    BY <2>1, <2>2, <2>3, ThreadsAssumption
    DEF HandleEos, LifeInv, TypeOK, DeletesAlone, OnlyDeleteJoins, HandlerRuns, Deleted,
        Threads
  <2>4. CASE ~(HandleEos /\ mIsLooping)
    <3>1. UNCHANGED <<pc, op>>
      BY <1>4, <2>4 DEF BusStep, HandleEos, HandleError, HandleBuffering,
                        HandleStateChanged, HandleApplication, HandleOther, lockVars
    <3> QED BY <2>1, <2>2, <3>1
        DEF LifeInv, DeletesAlone, OnlyDeleteJoins, HandlerRuns, Deleted
  <2> QED BY <2>3, <2>4
<1>5. CASE PrerollEnds \/ PlayBinPosts
  <2>1. UNCHANGED <<pc, op, mBusMessageThread>>
    BY <1>5 DEF PrerollEnds, PlayBinPosts, lockVars, lifeVars
  <2>2. ~Freed
    BY <1>5 DEF PrerollEnds, PlayBinPosts, Preroll, PrerollFails, ChildPauses, ReachEos,
                Announce, Freed, VOID_PENDING, NULL, PAUSED, PLAYING
  <2> QED BY <2>1, <2>2 DEF LifeInv, DeletesAlone, OnlyDeleteJoins, HandlerRuns, Deleted
<1>6. CASE UNCHANGED vars
  BY <1>6 DEF vars, playBinVars, lockVars, lifeVars, LifeInv, DeletesAlone,
              OnlyDeleteJoins, HandlerRuns, Deleted, Freed
<1> QED BY <1>1, <1>2, <1>3, <1>4, <1>5, <1>6 DEF Next, Terminated

LEMMA LifeInvariant == Spec => []LifeInv
<1>1. Init => DeletesAlone /\ OnlyDeleteJoins /\ HandlerRuns /\ (Deleted => Freed)
  BY DEF Init, DeletesAlone, OnlyDeleteJoins, HandlerRuns, Deleted, Threads
<1>2. TypeOK /\ TypeOK' /\ LifeInv /\ [Next]_vars => LifeInv'
  BY LifeInductive
<1>3. TypeOK /\ DeletesAlone /\ OnlyDeleteJoins /\ HandlerRuns /\ (Deleted => Freed)
        => LifeInv
  BY DEF LifeInv
<1> QED BY <1>1, <1>2, <1>3, TypeCorrect, PTL DEF Spec

\* Once the destructor has freed the player nothing is left that could use it.
THEOREM DeleteSafe == Spec => []NoUseAfterFree
<1>1. LifeInv => NoUseAfterFree
  BY DEF LifeInv, Freed, NoUseAfterFree
<1> QED BY <1>1, LifeInvariant, PTL

-----------------------------------------------------------------------------
(* The mutex between two calls, and what is said of a prepared pipeline *)

\* What keeps a call from returning with the mutex: playbin2 exists until the
\* destructor has run, and handleEos never calls start().
ReleaseInv ==
  /\ ~mIsLooping
  /\ \A t \in Threads : op[t] # "setLooping"
  /\ ~Deleted => mPlayBin
  /\ MutexIsReleased

\* A thread that got the mutex, or had waited under it, gives it back or waits.
LEMMA ThreadReleases ==
  ASSUME BadInputs \subseteq {"fd"}, WaitInv, LifeInv, ReleaseInv,
         NEW t \in Threads, Runs(t) \/ GoesOn(t)
  PROVE  ReleaseInv'
<1>1. pc[t] \in {"called", "wait"} /\ mPlayBin
  <2>1. pc[t] \in {"called", "wait"}
    BY DEF Runs, GoesOn, SetDataSource, SetDataSourceFd, SetAudioSink, SetVideoSurface,
           Refuse, Prepare, PrepareAsync, Start, Pause, Stop, WaitForStableState, Query,
           SetLooping, Delete, PrepareSettled, CallSettled, SeekToSettled, Locks, Settles
  <2> QED BY <2>1 DEF LifeInv, Freed, ReleaseInv
<1>2. ~SetLooping(t)
  BY DEF SetLooping, Locks, ReleaseInv
<1>3. UNCHANGED <<mPlayBin, mIsLooping>>
  BY <1>2 DEF Runs, GoesOn, SetDataSource, SetDataSourceFd, SetAudioSink, SetVideoSurface,
              Refuse, Prepare, PrepareAsync, Start, Pause, Stop, WaitForStableState, Query,
              Delete, PrepareSettled, CallSettled, SeekToSettled, lifeVars
<1>4. CASE Returns(t) \/ Waits(t)
  <2>1. MutexIsReleased'
    BY <1>4 DEF Returns, EndsWith, Waits, MutexIsReleased, WaitInv, TypeOK
  <2>2. \A u \in Threads : op'[u] # "setLooping"
    BY <1>4 DEF Returns, EndsWith, Waits, ReleaseInv, WaitInv, TypeOK
  <2>3. Deleted => Deleted'
    BY <1>1 DEF LifeInv, Freed
  <2> QED BY <1>1, <1>3, <2>1, <2>2 DEF ReleaseInv
<1>5. CASE pc[t] = "called" /\ (SetsAudioSink(t) \/ EndsWith(t, mActionMutex))
  <2>1. mActionMutex' = mActionMutex /\ mActionMutex # t
    BY <1>5, ThreadsAssumption DEF SetsAudioSink, EndsWith, ReleaseInv, MutexIsReleased
  <2>2. \A u \in Threads : op'[u] # "setLooping" /\ (u # t => pc'[u] = pc[u])
    BY <1>5 DEF SetsAudioSink, EndsWith, ReleaseInv, WaitInv, TypeOK
  <2> QED BY <1>1, <1>3, <2>1, <2>2 DEF ReleaseInv, MutexIsReleased, WaitInv, TypeOK
<1>6. CASE Delete(t)
  <2>1. UNCHANGED <<mActionMutex, op>> /\ mActionMutex = Nobody
    BY <1>6 DEF Delete, Locks
  <2> QED BY <1>1, <1>3, <2>1 DEF ReleaseInv, MutexIsReleased
<1>7. \/ Delete(t) \/ Returns(t) \/ Waits(t)
      \/ pc[t] = "called" /\ (SetsAudioSink(t) \/ EndsWith(t, mActionMutex))
  BY <1>1, <1>2 DEF Runs, GoesOn, SetDataSource, SetDataSourceFd, SetAudioSink,
     SetVideoSurface, Refuse, Prepare, PrepareAsync, Start, Pause, Stop,
     WaitForStableState, Query, PrepareSettled, CallSettled, SeekToSettled,
     ChangeState, Locks
<1> QED BY <1>4, <1>5, <1>6, <1>7

\* A player that has a playbin2, whose clients get no URL, sink or surface wrong and
\* do not ask it to loop, never leaves its mutex locked when a call returns, be its
\* file descriptors right or wrong, with or without a bus thread: the leaks are those
\* of the early returns and of the start() in handleEos, and no others.
THEOREM MutexReleased ==
  ASSUME BadInputs \subseteq {"fd"}, "noplaybin" \notin Creations, "setLooping" \notin Ops
  PROVE  Spec => []MutexIsReleased
<1>1. Init => ReleaseInv
  BY ThreadsAssumption DEF Init, ReleaseInv, MutexIsReleased
<1>2. WaitInv /\ LifeInv /\ ReleaseInv /\ [Next]_vars => ReleaseInv'
  <2> SUFFICES ASSUME WaitInv, LifeInv, ReleaseInv, [Next]_vars PROVE ReleaseInv' OBVIOUS
  <2>1. ASSUME NEW c \in Clients, NEW o \in Ops, Call(c, o) PROVE ReleaseInv'
    <3>1. /\ UNCHANGED <<mActionMutex, mPlayBin, mIsLooping>>
          /\ pc[c] = "idle"
          /\ pc' = [pc EXCEPT ![c] = "called"]
          /\ op' = [op EXCEPT ![c] = o]
      BY <2>1 DEF Call, lifeVars
    <3>2. Deleted => Deleted'
      BY <3>1 DEF Deleted, WaitInv, TypeOK, Threads
    <3>3. MutexIsReleased'
      BY <3>1 DEF ReleaseInv, MutexIsReleased, WaitInv, TypeOK
    <3> QED BY <3>1, <3>2, <3>3 DEF ReleaseInv, WaitInv, TypeOK
  <2>2. ASSUME NEW t \in Threads, Runs(t) \/ GoesOn(t) PROVE ReleaseInv'
    BY <2>2, ThreadReleases
  <2>3. ASSUME NEW c \in Clients, DeleteJoined(c) PROVE ReleaseInv'
    <3>1. UNCHANGED <<mActionMutex, mIsLooping, op>> /\ mActionMutex = Nobody
      BY <2>3 DEF DeleteJoined
    <3>2. Deleted'
      BY <2>3 DEF DeleteJoined, Deleted, WaitInv, TypeOK, Threads
    <3> QED BY <3>1, <3>2 DEF ReleaseInv, MutexIsReleased
  <2>4. CASE BusStep
    <3>1. UNCHANGED <<mActionMutex, pc, op, mPlayBin, mIsLooping>>
      BY <2>4 DEF BusStep, BusCallback, HandleEos, HandleError, HandleBuffering,
                  HandleStateChanged, HandleApplication, HandleOther, lockVars, ReleaseInv
    <3> QED BY <3>1 DEF ReleaseInv, MutexIsReleased, Deleted
  <2>5. CASE PrerollEnds \/ PlayBinPosts \/ UNCHANGED vars
    <3>1. UNCHANGED <<mActionMutex, pc, op, mPlayBin, mIsLooping>>
      BY <2>5 DEF PrerollEnds, PlayBinPosts, lockVars, lifeVars, vars
    <3> QED BY <3>1 DEF ReleaseInv, MutexIsReleased, Deleted
  <2> QED BY <2>1, <2>2, <2>3, <2>4, <2>5 DEF Next, Terminated
<1>3. ReleaseInv => MutexIsReleased
  BY DEF ReleaseInv
<1> QED BY <1>1, <1>2, <1>3, WaitInvariant, LifeInvariant, PTL DEF Spec

\* Nobody has called prepareAsync().
SyncInv ==
  /\ ~mAsynchPreparePending
  /\ \A t \in Threads : op[t] # "prepareAsync"

\* Where every client prepares with prepare(), which looks at the state before
\* it reports, MEDIA_PREPARED is never sent about a pipeline that is not
\* prepared, however many clients stop, seek and prepare it at a time.
THEOREM PreparedTrue ==
  ASSUME "prepareAsync" \notin Ops
  PROVE  Spec => PreparedMeansPaused
<1> DEFINE Truth == "MEDIA_PREPARED" \in sent' => state' >= PAUSED
<1>1. Init => SyncInv
  BY DEF Init, SyncInv
<1>2. TypeOK /\ SyncInv /\ [Next]_vars => SyncInv' /\ [Truth]_vars
  <2> SUFFICES ASSUME TypeOK, SyncInv, [Next]_vars PROVE SyncInv' /\ (Truth \/ UNCHANGED vars)
    OBVIOUS
  <2>1. ASSUME NEW c \in Clients, NEW o \in Ops, Call(c, o) PROVE SyncInv' /\ Truth
    BY <2>1 DEF Call, SyncInv, requestVars, TypeOK, Threads
  <2>2. ASSUME NEW t \in Threads, Runs(t) \/ GoesOn(t) PROVE SyncInv' /\ Truth
    <3>1. ~PrepareAsync(t)
      BY DEF PrepareAsync, Locks, SyncInv
    <3>2. ~mAsynchPreparePending'
      BY <2>2, <3>1, Zenon
      DEF Runs, GoesOn, SetDataSource, SetDataSourceFd, SetAudioSink, SetVideoSurface,
          Refuse, Prepare, Start, Pause, Stop, WaitForStableState, Query, SetLooping, Delete,
          PrepareSettled, CallSettled, SeekToSettled, requestVars, SyncInv
    <3>3. \A u \in Threads : op'[u] # "prepareAsync"
      <4>1. \/ \E owner : EndsWith(t, owner)
            \/ Waits(t) \/ SetsAudioSink(t) \/ UNCHANGED op
        BY <2>2, <3>1
        DEF Runs, GoesOn, SetDataSource, SetDataSourceFd, SetAudioSink, SetVideoSurface,
            Refuse, Prepare, Start, Pause, Stop, WaitForStableState, Query, SetLooping,
            Delete, PrepareSettled, CallSettled, SeekToSettled, ChangeState, Returns,
            ReturnsLocked
      <4> QED BY <4>1 DEF EndsWith, Waits, SetsAudioSink, SyncInv, TypeOK
    <3>4. CASE Prepare(t)
      <4>1. PICK ret \in {"SUCCESS", "ASYNC", "FAILURE"} :
               /\ SetState(PAUSED, ret)
               /\ sent' = IF ret = "SUCCESS" THEN {"MEDIA_PREPARED"} ELSE {}
        BY <3>4 DEF Prepare, ChangeState
      <4>2. ret = "SUCCESS" => state' = PAUSED
        BY <4>1 DEF SetState, Open, OpenFails, Retarget, StayIn, Switch, PauseAsync,
                    playBinVars
      <4> QED BY <3>2, <3>3, <4>1, <4>2 DEF SyncInv, PAUSED
    <3>5. CASE PrepareSettled(t)
      BY <3>2, <3>3, <3>5 DEF PrepareSettled, SyncInv, playBinVars, PAUSED
    <3>6. CASE ~Prepare(t) /\ ~PrepareSettled(t)
      <4>1. "MEDIA_PREPARED" \notin sent'
        BY <2>2, <3>1, <3>6
        DEF Runs, GoesOn, SetDataSource, SetDataSourceFd, SetAudioSink, SetVideoSurface,
            Refuse, Start, Pause, Stop, WaitForStableState, Query, SetLooping, Delete,
            CallSettled, SeekToSettled
      <4> QED BY <3>2, <3>3, <4>1 DEF SyncInv
    <3> QED BY <3>4, <3>5, <3>6
  <2>3. ASSUME NEW c \in Clients, DeleteJoined(c) PROVE SyncInv' /\ Truth
    BY <2>3 DEF DeleteJoined, SyncInv
  <2>4. CASE BusStep
    <3>1. "MEDIA_PREPARED" \notin sent' /\ ~mAsynchPreparePending'
      <4>1. CASE HandleStateChanged
        BY <4>1 DEF HandleStateChanged, SyncInv
      <4>2. CASE ~HandleStateChanged
        BY <2>4, <4>2 DEF BusStep, HandleEos, HandleError, HandleBuffering,
                          HandleApplication, HandleOther, requestVars, SyncInv
      <4> QED BY <4>1, <4>2
    <3>2. \A u \in Threads : op'[u] # "prepareAsync"
      BY <2>4 DEF BusStep, HandleEos, HandleError, HandleBuffering, HandleStateChanged,
                  HandleApplication, HandleOther, lockVars, SyncInv, TypeOK
    <3> QED BY <3>1, <3>2 DEF SyncInv
  <2>5. CASE PrerollEnds \/ PlayBinPosts
    BY <2>5 DEF PrerollEnds, PlayBinPosts, lockVars, requestVars, SyncInv
  <2>6. CASE UNCHANGED vars
    BY <2>6 DEF vars, lockVars, requestVars, SyncInv
  <2> QED BY <2>1, <2>2, <2>3, <2>4, <2>5, <2>6 DEF Next, Terminated
<1> QED BY <1>1, <1>2, TypeCorrect, PTL DEF Spec, PreparedMeansPaused
=============================================================================

---------------------------- MODULE RequestProofs ----------------------------
(***************************************************************************)
(* The two requests the player answers through the bus, seekTo() and       *)
(* prepareAsync(): for clients that follow the protocol of Allowed, the    *)
(* message that will answer a request is always still to come.             *)
(***************************************************************************)
EXTENDS GstPlayerPipelineProofs

\* A client that follows the protocol makes one call at a time.
OneAtATime ==
  \A c, d \in Clients : pc[c] # "idle" /\ pc[d] # "idle" => c = d

\* The bus thread gets nowhere in the start() of handleEos.
BusThreadNeverWaits ==
  \/ pc[BusThread] = "idle"
  \/ pc[BusThread] = "called" /\ op[BusThread] = "start" /\ mActionMutex = BusThread

\* What the client looked at before its call still holds when the call gets the
\* mutex: the bus thread and playbin2, which run in between, do not undo it.
StillAllowed ==
  \A c \in Clients :
    pc[c] = "called" =>
      /\ op[c] \in {"prepare", "prepareAsync"} => state < PAUSED /\ Settled
      /\ op[c] = "start" => ~mSeeking

ProtocolInv == WaitInv /\ OneAtATime /\ BusThreadNeverWaits /\ StillAllowed

\* The message that ends a seek, or a prepareAsync(), is on the bus.
SeekAnswerQueued    == \E i \in 1..Len(bus) : SeekDone(bus[i])
PrepareAnswerQueued == \E i \in 1..Len(bus) : PrepareDone(bus[i])

SeekStateSet == mSeeking => mSeekState \in {PAUSED, PLAYING}

Requests ==
  /\ SeekStateSet
  /\ mSeeking /\ ~failed => GoalState = mSeekState /\ (Settled => SeekAnswerQueued)
  /\ mAsynchPreparePending /\ ~failed /\ Settled => PrepareAnswerQueued

RequestInv == ProtocolInv /\ Requests

-----------------------------------------------------------------------------
(* The bus as a queue *)

\* What is on the bus stays there when more is posted, in its place.
LEMMA PostedStays ==
  ASSUME NEW b \in Seq(Msg), NEW m \in Msg, NEW n \in Msg, NEW i \in 1..Len(b)
  PROVE  /\ i \in 1..Len(Append(b, m)) /\ Append(b, m)[i] = b[i]
         /\ i \in 1..Len(b \o <<m, n>>) /\ (b \o <<m, n>>)[i] = b[i]
  OBVIOUS

\* What has been posted is on the bus.
LEMMA PostedIsThere ==
  ASSUME NEW b \in Seq(Msg), NEW m \in Msg, NEW n \in Msg
  PROVE  /\ Len(b) + 1 \in 1..Len(Append(b, m)) /\ Append(b, m)[Len(b) + 1] = m
         /\ Len(b) + 1 \in 1..Len(b \o <<m, n>>) /\ (b \o <<m, n>>)[Len(b) + 1] = m
         /\ Len(b) + 2 \in 1..Len(b \o <<m, n>>) /\ (b \o <<m, n>>)[Len(b) + 2] = n
  OBVIOUS

\* What is on the bus behind the head is there when the head has been taken.
LEMMA TakenFromHead ==
  ASSUME NEW b \in Seq(Msg), NEW i \in 1..Len(b), i # 1
  PROVE  i - 1 \in 1..Len(Tail(b)) /\ Tail(b)[i - 1] = b[i]
  OBVIOUS

\* The bus only grows: a step that posts, if it does anything to the bus.
Grows ==
  \/ bus' = bus
  \/ \E m \in Msg : bus' = Append(bus, m)
  \/ \E m, n \in Msg : bus' = bus \o <<m, n>>

LEMMA GrowsKeeps ==
  ASSUME TypeOK, Grows
  PROVE  /\ SeekAnswerQueued /\ mSeekState' = mSeekState => SeekAnswerQueued'
         /\ PrepareAnswerQueued => PrepareAnswerQueued'
<1>1. \A i \in 1..Len(bus) : i \in 1..Len(bus') /\ bus'[i] = bus[i]
  <2>0. bus \in Seq(Msg)
    BY DEF TypeOK, PlayBinTypeOK
  <2>1. CASE bus' = bus
    BY <2>1
  <2>2. ASSUME NEW m \in Msg, bus' = Append(bus, m)
        PROVE  \A i \in 1..Len(bus) : i \in 1..Len(bus') /\ bus'[i] = bus[i]
    BY <2>0, <2>2, PostedStays
  <2>3. ASSUME NEW m \in Msg, NEW n \in Msg, bus' = bus \o <<m, n>>
        PROVE  \A i \in 1..Len(bus) : i \in 1..Len(bus') /\ bus'[i] = bus[i]
    BY <2>0, <2>3, PostedStays
  <2> QED BY <2>1, <2>2, <2>3 DEF Grows
<1>2. ASSUME SeekAnswerQueued, mSeekState' = mSeekState PROVE SeekAnswerQueued'
  <2>1. PICK i \in 1..Len(bus) : SeekDone(bus[i])
    BY <1>2 DEF SeekAnswerQueued
  <2> QED BY <1>1, <1>2, <2>1 DEF SeekAnswerQueued, SeekDone
<1>3. ASSUME PrepareAnswerQueued PROVE PrepareAnswerQueued'
  <2>1. PICK i \in 1..Len(bus) : PrepareDone(bus[i])
    BY <1>3 DEF PrepareAnswerQueued
  <2> QED BY <1>1, <2>1 DEF PrepareAnswerQueued, PrepareDone
<1> QED BY <1>2, <1>3

\* What a change of state, as prepare, start and pause ask for it, does to what
\* the requests wait for.
LEMMA SetStateEffect ==
  ASSUME TypeOK, NEW s \in {PAUSED, PLAYING}, NEW ret, SetState(s, ret)
  PROVE  /\ Grows
         /\ failed => failed'
         /\ ~failed' => GoalState' = s
         /\ ~failed' /\ Settled' =>
              /\ Settled
              /\ \/ state = s
                 \/ bus' = Append(bus, StateMsg(s, VOID_PENDING))
<1> USE DEF PAUSED, PLAYING, VOID_PENDING, READY, NULL, GoalState, Settled
<1>0. /\ StateMsg(READY, s) \in Msg
      /\ StateMsg(s, VOID_PENDING) \in Msg
      /\ PlainMsg("error") \in Msg
  BY MessageTypes DEF MsgTypes
<1>1. CASE Open(s, ret)
  <2>1. /\ target' = s /\ failed' = failed
        /\ bus' = bus \/ bus' = Append(bus, StateMsg(READY, s))
    BY <1>1 DEF Open, Post
  <2>2. Grows
    BY <1>0, <2>1 DEF Grows
  <2> QED BY <2>1, <2>2
<1>2. CASE OpenFails(ret)
  BY <1>0, <1>2 DEF OpenFails, Post, Grows
<1>3. CASE Retarget(s, ret)
  BY <1>3 DEF Retarget, Grows
<1>4. CASE StayIn(s, ret)
  BY <1>4 DEF StayIn, playBinVars, Grows
<1>5. CASE Switch(s, ret)
  <2>1. /\ Settled /\ Settled' /\ state' = s /\ failed' = failed
        /\ bus' = Append(bus, StateMsg(s, VOID_PENDING))
    BY <1>5 DEF Switch, Post
  <2>2. Grows
    BY <1>0, <2>1 DEF Grows
  <2> QED BY <2>1, <2>2
<1>6. CASE PauseAsync(s, ret)
  BY <1>6 DEF PauseAsync, Grows
<1> QED BY <1>1, <1>2, <1>3, <1>4, <1>5, <1>6 DEF SetState

-----------------------------------------------------------------------------
(* The protocol of the clients *)

LEMMA ProtocolTypes == ASSUME ProtocolInv PROVE TypeOK /\ WaiterOwns
  BY DEF ProtocolInv, WaitInv

\* Only clients get anywhere in a call.
LEMMA ClientsRun ==
  ASSUME ProtocolInv, NEW t \in Threads, Runs(t) \/ GoesOn(t)
  PROVE  t \in Clients
<1> SUFFICES ASSUME t = BusThread PROVE FALSE BY DEF Threads
<1>1. \A o : ~Locks(t, o)
  BY ThreadsAssumption DEF Locks, ProtocolInv, BusThreadNeverWaits, Threads
<1>2. pc[t] # "wait" /\ ~(pc[t] = "called" /\ op[t] = "setDataSourceFd")
  BY DEF ProtocolInv, BusThreadNeverWaits
<1> QED BY <1>1, <1>2
    DEF Runs, GoesOn, SetDataSource, SetDataSourceFd, SetAudioSink, SetVideoSurface, Refuse,
        Prepare, PrepareAsync, Start, Pause, Stop, WaitForStableState, Query, SetLooping,
        Delete, PrepareSettled, CallSettled, SeekToSettled, Settles

\* A step of the one client in a call keeps the protocol.
LEMMA ClientStepProtocol ==
  ASSUME ProtocolInv, NEW t \in Clients, pc[t] # "idle",
         \A u \in Threads \ {t} : pc'[u] = pc[u] /\ op'[u] = op[u],
         pc[BusThread] = "called" => mActionMutex' = mActionMutex,
         pc'[t] = "called" => op'[t] \notin {"prepare", "prepareAsync", "start"}
  PROVE  OneAtATime' /\ BusThreadNeverWaits' /\ StillAllowed'
<1>1. \A c \in Clients : c # t => pc[c] = "idle" /\ pc'[c] = "idle"
  BY DEF ProtocolInv, OneAtATime, Threads
<1>2. OneAtATime' /\ StillAllowed'
  BY <1>1 DEF OneAtATime, StillAllowed
<1>3. BusThread # t /\ BusThread \in Threads
  BY ThreadsAssumption DEF Threads
<1>4. BusThreadNeverWaits'
  BY <1>3 DEF ProtocolInv, BusThreadNeverWaits
<1> QED BY <1>2, <1>4

\* What every step of a call has in common.
LEMMA CallStepProtocol ==
  ASSUME ProtocolInv, NEW t \in Threads, Runs(t) \/ GoesOn(t)
  PROVE  OneAtATime' /\ BusThreadNeverWaits' /\ StillAllowed'
<1>1. t \in Clients
  BY ClientsRun
<1>2. pc[t] \in {"called", "wait"}
  BY DEF Runs, GoesOn, SetDataSource, SetDataSourceFd, SetAudioSink, SetVideoSurface, Refuse,
         Prepare, PrepareAsync, Start, Pause, Stop, WaitForStableState, Query, SetLooping,
         Delete, PrepareSettled, CallSettled, SeekToSettled, Locks, Settles
<1>3. CASE Delete(t)
  <2>1. /\ op[t] = "delete"
        /\ pc' = [pc EXCEPT ![t] = "join"]
        /\ UNCHANGED <<op, mActionMutex>>
    BY <1>3 DEF Delete, Locks
  <2> QED BY <1>1, <1>2, <2>1, ClientStepProtocol, ProtocolTypes DEF TypeOK
<1>4. CASE ~Delete(t)
  <2>1. \/ \E owner : EndsWith(t, owner)
        \/ Waits(t)
        \/ SetsAudioSink(t)
    BY <1>4 DEF Runs, GoesOn, SetDataSource, SetDataSourceFd, SetAudioSink, SetVideoSurface,
                Refuse, Prepare, PrepareAsync, Start, Pause, Stop, WaitForStableState, Query,
                SetLooping, PrepareSettled, CallSettled, SeekToSettled, ChangeState,
                Returns, ReturnsLocked
  <2>2. /\ \A u \in Threads \ {t} : pc'[u] = pc[u] /\ op'[u] = op[u]
        /\ pc'[t] = "called" => op'[t] \notin {"prepare", "prepareAsync", "start"}
    BY <1>2, <2>1, ProtocolTypes DEF EndsWith, Waits, SetsAudioSink, TypeOK
  <2>3. ASSUME pc[BusThread] = "called" PROVE mActionMutex' = mActionMutex
    <3>1. mActionMutex = BusThread /\ BusThread # t /\ BusThread # Nobody
      BY <1>1, <2>3, ThreadsAssumption DEF ProtocolInv, BusThreadNeverWaits, Threads
    <3>2. \A o : ~Locks(t, o)
      BY <3>1 DEF Locks
    <3>3. pc[t] # "wait"
      BY <3>1, ProtocolTypes DEF WaiterOwns
    <3>4. SetDataSourceFd(t)
      BY <1>4, <3>2, <3>3
      DEF Runs, GoesOn, SetDataSource, SetAudioSink, SetVideoSurface, Refuse,
          Prepare, PrepareAsync, Start, Pause, Stop, WaitForStableState, Query, SetLooping,
          PrepareSettled, CallSettled, SeekToSettled, Settles
    <3> QED BY <3>4 DEF SetDataSourceFd, EndsWith, SetsAudioSink
  <2> QED BY <1>1, <1>2, <2>2, <2>3, ClientStepProtocol
<1> QED BY <1>3, <1>4

\* A step of the bus thread or of playbin2 keeps it too: what a client has been
\* allowed to call on, they do not undo.
LEMMA OtherStepProtocol ==
  ASSUME ProtocolInv, BusStep \/ PrerollEnds \/ PlayBinPosts \/ UNCHANGED vars
  PROVE  OneAtATime' /\ BusThreadNeverWaits' /\ StillAllowed'
<1>1. ASSUME UNCHANGED <<pc, op, mActionMutex>>,
             (state' = state /\ target' = target) \/ ~Settled,
             mSeeking' => mSeeking
      PROVE  OneAtATime' /\ BusThreadNeverWaits' /\ StillAllowed'
  <2>1. OneAtATime' /\ BusThreadNeverWaits'
    BY <1>1 DEF ProtocolInv, OneAtATime, BusThreadNeverWaits
  <2> QED BY <1>1, <2>1 DEF ProtocolInv, StillAllowed, Settled
<1>2. CASE HandleEos /\ mIsLooping
  <2>1. /\ pc' = [pc EXCEPT ![BusThread] = "called"]
        /\ op' = [op EXCEPT ![BusThread] = "start"]
        /\ mActionMutex' = BusThread
        /\ UNCHANGED <<state, target, mSeeking>>
    BY <1>2 DEF HandleEos, BusCallback, stableVars, requestVars
  <2>2. /\ BusThread \in Threads
        /\ \A c \in Clients : c \in Threads /\ c # BusThread
    BY ThreadsAssumption DEF Threads
  <2>3. pc'[BusThread] = "called" /\ op'[BusThread] = "start"
    BY <2>1, <2>2, ProtocolTypes DEF TypeOK
  <2>4. \A c \in Clients : pc'[c] = pc[c] /\ op'[c] = op[c]
    BY <2>1, <2>2, ProtocolTypes DEF TypeOK
  <2> QED BY <2>1, <2>3, <2>4
      DEF ProtocolInv, OneAtATime, BusThreadNeverWaits, StillAllowed, Settled
<1>3. CASE BusStep /\ ~(HandleEos /\ mIsLooping)
  <2>1. UNCHANGED <<pc, op, mActionMutex, state, target>>
    BY <1>3 DEF BusStep, BusCallback, HandleEos, HandleError, HandleBuffering,
                HandleStateChanged, HandleApplication, HandleOther, lockVars, stableVars
  <2>2. mSeeking' => mSeeking
    BY <1>3 DEF BusStep, HandleEos, HandleError, HandleBuffering,
                HandleStateChanged, HandleApplication, HandleOther, requestVars
  <2> QED BY <1>1, <2>1, <2>2
<1>4. CASE PrerollEnds
  BY <1>1, <1>4 DEF PrerollEnds, Preroll, PrerollFails, Settled, lockVars, requestVars
<1>5. CASE PlayBinPosts \/ UNCHANGED vars
  BY <1>1, <1>5 DEF PlayBinPosts, ChildPauses, ReachEos, Announce, lockVars, requestVars,
                    vars, playBinVars
<1> QED BY <1>2, <1>3, <1>4, <1>5

\* A call begins: the only one, and one the client may make.
LEMMA CallProtocol ==
  ASSUME ProtocolInv, Careful, NEW c \in Clients, NEW o \in Ops, Call(c, o)
  PROVE  OneAtATime' /\ BusThreadNeverWaits' /\ StillAllowed'
<1>1. /\ \A d \in Clients : pc[d] = "idle"
      /\ o \in {"prepare", "prepareAsync"} => state < PAUSED /\ Settled
      /\ o = "start" => ~mSeeking
      /\ pc' = [pc EXCEPT ![c] = "called"]
      /\ op' = [op EXCEPT ![c] = o]
      /\ UNCHANGED <<state, target, mSeeking, mActionMutex>>
  BY DEF Call, Allowed, playBinVars, requestVars
<1>2. /\ c \in Threads /\ BusThread \in Threads /\ c # BusThread
      /\ \A d \in Clients : d \in Threads
  BY ThreadsAssumption DEF Threads
<1>3. /\ \A d \in Threads : pc'[d] = IF d = c THEN "called" ELSE pc[d]
      /\ \A d \in Threads : op'[d] = IF d = c THEN o ELSE op[d]
  BY <1>1, <1>2, ProtocolTypes DEF TypeOK
<1>4. OneAtATime' /\ BusThreadNeverWaits'
  BY <1>1, <1>2, <1>3 DEF ProtocolInv, OneAtATime, BusThreadNeverWaits
<1>5. StillAllowed'
  BY <1>1, <1>2, <1>3 DEF StillAllowed, Settled
<1> QED BY <1>4, <1>5

LEMMA DeleteProtocol ==
  ASSUME ProtocolInv, NEW c \in Clients, DeleteJoined(c)
  PROVE  OneAtATime' /\ BusThreadNeverWaits' /\ StillAllowed'
<1>1. /\ pc[c] = "join"
      /\ pc' = [pc EXCEPT ![c] = "dead"]
      /\ UNCHANGED <<op, mActionMutex>>
  BY DEF DeleteJoined
<1> QED BY <1>1, ClientStepProtocol, ProtocolTypes DEF TypeOK, Threads


-----------------------------------------------------------------------------
(* The requests *)

\* A step that only posts, and leaves the requests and the goal of playbin2 as
\* they are.
LEMMA PostingKeeps ==
  ASSUME TypeOK, Requests, Grows, UNCHANGED <<state, target, failed, requestVars>>
  PROVE  Requests'
<1>1. UNCHANGED <<mSeeking, mSeekState, mAsynchPreparePending>>
  BY DEF requestVars
<1>2. (SeekAnswerQueued => SeekAnswerQueued') /\ (PrepareAnswerQueued => PrepareAnswerQueued')
  BY <1>1, GrowsKeeps
<1>3. GoalState' = GoalState /\ (Settled' <=> Settled) /\ (SeekStateSet' <=> SeekStateSet)
  BY <1>1 DEF GoalState, Settled, SeekStateSet
<1> QED BY <1>1, <1>2, <1>3 DEF Requests

\* A step that leaves playbin2 alone as well.
LEMMA IdleKeeps ==
  ASSUME TypeOK, Requests, UNCHANGED <<playBinVars, requestVars>>
  PROVE  Requests'
  BY PostingKeeps DEF Grows, playBinVars

\* What has been posted, alone or with another message, is on the bus.
LEMMA PostedIsOnBus ==
  ASSUME TypeOK, NEW m \in Msg, NEW n \in Msg,
         \/ bus' = Append(bus, m)
         \/ bus' = bus \o <<m, n>>
         \/ bus' = bus \o <<n, m>>
  PROVE  \E i \in 1..Len(bus') : bus'[i] = m
<1>1. bus \in Seq(Msg)
  BY DEF TypeOK, PlayBinTypeOK
<1>2. CASE bus' = Append(bus, m)
  BY <1>1, <1>2, PostedIsThere
<1>3. CASE bus' = bus \o <<m, n>>
  BY <1>1, <1>3, PostedIsThere
<1>4. CASE bus' = bus \o <<n, m>>
  BY <1>1, <1>4, PostedIsThere
<1> QED BY <1>2, <1>3, <1>4

\* A message that ends a seek, or a prepareAsync(), has been posted.
LEMMA SeekAnswerPosted ==
  ASSUME TypeOK, NEW s \in {PAUSED, PLAYING}, mSeekState' = s,
         NEW n \in Msg,
         \/ bus' = Append(bus, StateMsg(s, VOID_PENDING))
         \/ bus' = bus \o <<n, StateMsg(s, VOID_PENDING)>>
  PROVE  SeekAnswerQueued'
<1>1. StateMsg(s, VOID_PENDING) \in Msg
  BY MessageTypes DEF VOID_PENDING, PAUSED, PLAYING
<1>2. PICK i \in 1..Len(bus') : bus'[i] = StateMsg(s, VOID_PENDING)
  BY <1>1, PostedIsOnBus
<1>3. /\ bus'[i].type = "state-changed" /\ bus'[i].fromPlayBin
      /\ bus'[i].new = mSeekState' /\ bus'[i].pending = VOID_PENDING
  BY <1>2 DEF StateMsg
<1> QED BY <1>2, <1>3 DEF SeekAnswerQueued, SeekDone

LEMMA PrepareAnswerPosted ==
  ASSUME TypeOK, NEW m \in Msg, PrepareDone(m), NEW n \in Msg,
         bus' = Append(bus, m) \/ bus' = bus \o <<m, n>>
  PROVE  PrepareAnswerQueued'
<1>1. PICK i \in 1..Len(bus') : bus'[i] = m
  BY PostedIsOnBus
<1> QED BY <1>1 DEF PrepareAnswerQueued, PrepareDone

\* The messages that announce the state a change has ended in.
LEMMA Announcements ==
  /\ \A s \in {PAUSED, PLAYING} : StateMsg(s, VOID_PENDING) \in Msg
  /\ StateMsg(PAUSED, PLAYING) \in Msg
  /\ PrepareDone(StateMsg(PAUSED, VOID_PENDING))
  /\ PrepareDone(StateMsg(PAUSED, PLAYING))
<1>1. /\ \A s \in {PAUSED, PLAYING} : StateMsg(s, VOID_PENDING) \in Msg
      /\ StateMsg(PAUSED, PLAYING) \in Msg
  BY MessageTypes DEF VOID_PENDING, PAUSED, PLAYING
<1>2. PrepareDone(StateMsg(PAUSED, VOID_PENDING)) /\ PrepareDone(StateMsg(PAUSED, PLAYING))
  BY DEF PrepareDone, StateMsg
<1> QED BY <1>1, <1>2

\* prepare() and start(): the protocol makes sure no seek is pending that they
\* would take elsewhere.
LEMMA ChangeKeepsRequests ==
  ASSUME TypeOK, Requests, NEW s \in {PAUSED, PLAYING}, NEW ret, SetState(s, ret),
         mSeeking /\ ~failed => FALSE,
         UNCHANGED requestVars
  PROVE  Requests'
<1>1. /\ Grows
      /\ failed => failed'
      /\ ~failed' /\ Settled' => Settled
  BY SetStateEffect
<1>2. UNCHANGED <<mSeeking, mSeekState, mAsynchPreparePending>>
  BY DEF requestVars
<1>3. PrepareAnswerQueued => PrepareAnswerQueued'
  BY <1>1, GrowsKeeps
<1> QED BY <1>1, <1>2, <1>3 DEF Requests, SeekStateSet

\* pause() takes the seek along.
LEMMA PauseKeepsRequests ==
  ASSUME TypeOK, Requests, NEW ret, SetState(PAUSED, ret),
         mSeekState' = SeekStateOnPause, UNCHANGED <<mSeeking, mAsynchPreparePending>>
  PROVE  Requests'
<1>1. /\ Grows
      /\ failed => failed'
      /\ ~failed' => GoalState' = PAUSED
      /\ ~failed' /\ Settled' =>
           Settled /\ (state = PAUSED \/ bus' = Append(bus, StateMsg(PAUSED, VOID_PENDING)))
  BY SetStateEffect
<1>2. PrepareAnswerQueued => PrepareAnswerQueued'
  BY <1>1, GrowsKeeps
<1>3. ASSUME mSeeking, ~failed' PROVE mSeekState' = PAUSED /\ (Settled' => SeekAnswerQueued')
  <2>1. mSeekState' = PAUSED
    BY <1>3 DEF SeekStateOnPause
  <2>2. CASE Settled' /\ bus' = Append(bus, StateMsg(PAUSED, VOID_PENDING))
    <3>1. SeekAnswerQueued'
      BY <2>1, <2>2, SeekAnswerPosted, Announcements
    <3> QED BY <2>1, <3>1
  <2>3. CASE Settled' /\ state = PAUSED
    <3>1. Settled /\ ~failed
      BY <1>1, <1>3, <2>3
    <3>2. mSeekState = PAUSED /\ SeekAnswerQueued
      BY <1>3, <2>3, <3>1 DEF Requests, GoalState
    <3> QED BY <1>1, <2>1, <3>2, GrowsKeeps
  <2> QED BY <1>1, <1>3, <2>1, <2>2, <2>3
<1>4. SeekStateSet'
  BY DEF Requests, SeekStateSet, SeekStateOnPause
<1> QED BY <1>1, <1>2, <1>3, <1>4 DEF Requests

\* The steps of a client that has the mutex.
LEMMA RunsRequests ==
  ASSUME RequestInv, NEW t \in Clients, Runs(t)
  PROVE  Requests'
<1> USE ProtocolTypes DEF RequestInv
<1>1. ASSUME SetDataSource(t) \/ SetDataSourceFd(t) \/ SetAudioSink(t) \/ SetVideoSurface(t)
               \/ WaitForStableState(t) \/ Query(t) \/ SetLooping(t)
               \/ (\E o : Refuse(t, o))
      PROVE  Requests'
  BY <1>1, IdleKeeps
  DEF SetDataSource, SetDataSourceFd, SetAudioSink, SetVideoSurface, WaitForStableState,
      Query, SetLooping, Refuse
<1>2. CASE Prepare(t)
  <2>1. /\ \E ret : SetState(PAUSED, ret)
        /\ UNCHANGED requestVars
        /\ pc[t] = "called" /\ op[t] = "prepare"
    BY <1>2 DEF Prepare, ChangeState, Locks
  <2>2. state < PAUSED /\ Settled
    BY <2>1 DEF ProtocolInv, StillAllowed
  <2>3. ~(mSeeking /\ ~failed)
    BY <2>2 DEF Requests, SeekStateSet, GoalState, PAUSED, PLAYING
  <2> QED BY <2>1, <2>3, ChangeKeepsRequests
<1>3. CASE Start(t)
  <2>1. /\ \E ret : SetState(PLAYING, ret)
        /\ UNCHANGED requestVars
        /\ pc[t] = "called" /\ op[t] = "start"
    BY <1>3 DEF Start, ChangeState, Locks
  <2>2. ~mSeeking
    BY <2>1 DEF ProtocolInv, StillAllowed
  <2> QED BY <2>1, <2>2, ChangeKeepsRequests
<1>4. CASE PrepareAsync(t)
  <2>1. PICK ret : SetState(PAUSED, ret)
    BY <1>4 DEF PrepareAsync
  <2>2. /\ UNCHANGED <<mSeeking, mSeekState>>
        /\ pc[t] = "called" /\ op[t] = "prepareAsync"
    BY <1>4 DEF PrepareAsync, Locks, seekVars
  <2>3. state < PAUSED /\ Settled
    BY <2>2 DEF ProtocolInv, StillAllowed
  <2>4. ~(mSeeking /\ ~failed)
    BY <2>3 DEF Requests, SeekStateSet, GoalState, PAUSED, PLAYING
  <2>5. failed => failed'
    BY <2>1, SetStateEffect
  <2>6. failed' \/ ~Settled'
    BY <2>1, <2>3 DEF SetState, Open, OpenFails, Retarget, StayIn, Switch, PauseAsync, Settled,
                      VOID_PENDING, PAUSED, PLAYING
  <2> QED BY <2>2, <2>4, <2>5, <2>6 DEF Requests, SeekStateSet
<1>5. CASE Pause(t)
  BY <1>5, PauseKeepsRequests DEF Pause, ChangeState
<1>6. CASE Stop(t)
  <2>1. CASE SetReady("SUCCESS") /\ mSeeking' = FALSE /\ mAsynchPreparePending' = FALSE
    BY <2>1 DEF Requests, SeekStateSet
  <2>2. CASE SetReady("FAILURE") /\ UNCHANGED requestVars
    BY <2>2 DEF SetReady, Requests, SeekStateSet, requestVars
  <2> QED BY <1>6, <2>1, <2>2 DEF Stop
<1>7. CASE Delete(t)
  <2>1. bus' = bus \/ bus' = Append(bus, PlainMsg("application"))
    BY <1>7 DEF Delete, Post
  <2>2. Grows
    BY <2>1, MessageTypes DEF Grows, MsgTypes
  <2> QED BY <1>7, <2>2, PostingKeeps DEF Delete, stableVars
<1> QED BY <1>1, <1>2, <1>3, <1>4, <1>5, <1>6, <1>7 DEF Runs

\* The steps of a client after a wait: a seek sends playbin2 back to where it was.
LEMMA GoesOnRequests ==
  ASSUME RequestInv, NEW t \in Clients, GoesOn(t)
  PROVE  Requests'
<1> USE ProtocolTypes DEF RequestInv
<1>1. CASE PrepareSettled(t) \/ CallSettled(t)
  BY <1>1, IdleKeeps DEF PrepareSettled, CallSettled
<1>2. CASE SeekToSettled(t) /\ UNCHANGED <<playBinVars, seekVars>>
  BY <1>2, IdleKeeps DEF SeekToSettled, seekVars, requestVars
<1>3. CASE SeekToSettled(t) /\ FlushingSeek /\ mSeeking' = TRUE /\ mSeekState' = state
  <2>1. state \in {PAUSED, PLAYING} /\ target' = state
    BY <1>3 DEF FlushingSeek, TypeOK, PlayBinTypeOK, NULL, PAUSED, PLAYING
  <2>2. ~Settled' /\ GoalState' = mSeekState'
    BY <1>3, <2>1 DEF Settled, GoalState, VOID_PENDING, PAUSED, PLAYING
  <2> QED BY <1>3, <2>1, <2>2 DEF Requests, SeekStateSet
<1> QED BY <1>1, <1>2, <1>3 DEF GoesOn, SeekToSettled

\* The bus thread takes a message: either it ends the request, or the one that
\* does is further back.
LEMMA BusStepRequests ==
  ASSUME RequestInv, BusStep
  PROVE  Requests'
<1> USE ProtocolTypes DEF RequestInv
<1>1. /\ bus \in Seq(Msg) /\ bus # <<>> /\ bus' = Tail(bus)
      /\ UNCHANGED <<state, target, failed>>
  BY DEF BusStep, BusCallback, HandleEos, HandleError, HandleBuffering, HandleStateChanged,
         HandleApplication, HandleOther, stableVars, TypeOK, PlayBinTypeOK
<1>2. /\ mSeeking' => mSeeking /\ mSeekState' = mSeekState /\ ~SeekDone(Head(bus))
      /\ mAsynchPreparePending' => mAsynchPreparePending /\ ~PrepareDone(Head(bus))
  <2>1. CASE HandleStateChanged
    BY <2>1 DEF HandleStateChanged
  <2>2. CASE ~HandleStateChanged
    <3>1. UNCHANGED <<mSeeking, mSeekState, mAsynchPreparePending>>
      BY <2>2 DEF BusStep, HandleEos, HandleError, HandleBuffering, HandleApplication,
                  HandleOther, requestVars
    <3>2. Head(bus).type # "state-changed"
      BY <2>2 DEF BusStep, BusCallback, HandleEos, HandleError, HandleBuffering,
                  HandleApplication, HandleOther
    <3> QED BY <3>1, <3>2 DEF SeekDone, PrepareDone
  <2> QED BY <2>1, <2>2
<1>3. Head(bus) = bus[1]
  BY <1>1
<1>4. ASSUME mSeeking', SeekAnswerQueued PROVE SeekAnswerQueued'
  <2>1. PICK i \in 1..Len(bus) : SeekDone(bus[i])
    BY <1>4 DEF SeekAnswerQueued
  <2>2. i # 1
    BY <1>2, <1>3, <1>4, <2>1
  <2>3. i - 1 \in 1..Len(bus') /\ bus'[i - 1] = bus[i]
    BY <1>1, <2>2, TakenFromHead
  <2> QED BY <1>2, <1>4, <2>1, <2>3 DEF SeekAnswerQueued, SeekDone
<1>5. ASSUME mAsynchPreparePending', PrepareAnswerQueued PROVE PrepareAnswerQueued'
  <2>1. PICK i \in 1..Len(bus) : PrepareDone(bus[i])
    BY <1>5 DEF PrepareAnswerQueued
  <2>2. i # 1
    BY <1>2, <1>3, <1>5, <2>1
  <2>3. i - 1 \in 1..Len(bus') /\ bus'[i - 1] = bus[i]
    BY <1>1, <2>2, TakenFromHead
  <2> QED BY <2>1, <2>3 DEF PrepareAnswerQueued, PrepareDone
<1>6. GoalState' = GoalState /\ (Settled' <=> Settled)
  BY <1>1 DEF GoalState, Settled
<1> QED BY <1>1, <1>2, <1>4, <1>5, <1>6 DEF Requests, SeekStateSet

\* playbin2 finishes what it has begun, and announces it; or it fails.
LEMMA PrerollRequests ==
  ASSUME RequestInv, PrerollEnds
  PROVE  Requests'
<1> USE ProtocolTypes DEF RequestInv
<1>1. UNCHANGED <<mSeeking, mSeekState, mAsynchPreparePending>>
  BY DEF PrerollEnds, requestVars
<1>2. CASE PrerollFails
  BY <1>1, <1>2 DEF PrerollFails, Requests, SeekStateSet
<1>3. CASE Preroll
  <2>1. /\ target \in {PAUSED, PLAYING}
        /\ state' = target
        /\ target' = VOID_PENDING
        /\ failed' = failed
    BY <1>3 DEF Preroll, TypeOK, PlayBinTypeOK
  <2>2. GoalState' = target /\ GoalState = target
    BY <2>1 DEF GoalState, Settled, VOID_PENDING, PAUSED, PLAYING
  <2>3. \/ target = PAUSED /\ bus' = Append(bus, StateMsg(PAUSED, VOID_PENDING))
        \/ /\ target = PLAYING
           /\ bus' = bus \o <<StateMsg(PAUSED, PLAYING), StateMsg(PLAYING, VOID_PENDING)>>
    BY <1>3, <2>1 DEF Preroll
  <2>4. PrepareAnswerQueued'
    BY <2>3, Announcements, PrepareAnswerPosted
  <2>5. ASSUME mSeekState = target PROVE SeekAnswerQueued'
    <3>1. CASE target = PAUSED
      <4>1. mSeekState' = PAUSED /\ bus' = Append(bus, StateMsg(PAUSED, VOID_PENDING))
        BY <1>1, <2>3, <2>5, <3>1 DEF PAUSED, PLAYING
      <4> QED BY <4>1, Announcements, SeekAnswerPosted
    <3>2. CASE target = PLAYING
      <4>1. /\ mSeekState' = PLAYING
            /\ bus' = bus \o <<StateMsg(PAUSED, PLAYING), StateMsg(PLAYING, VOID_PENDING)>>
        BY <1>1, <2>3, <2>5, <3>2 DEF PAUSED, PLAYING
      <4> QED BY <4>1, Announcements, SeekAnswerPosted
    <3> QED BY <2>1, <3>1, <3>2
  <2> QED BY <1>1, <2>1, <2>2, <2>4, <2>5 DEF Requests, SeekStateSet
<1> QED BY <1>2, <1>3 DEF PrerollEnds

\* The invariant is inductive, for clients that follow the protocol.
LEMMA RequestInductive ==
  ASSUME Careful, RequestInv, [Next]_vars, WaitInv'
  PROVE  RequestInv'
<1> SUFFICES (OneAtATime' /\ BusThreadNeverWaits' /\ StillAllowed') /\ Requests'
  BY DEF RequestInv, ProtocolInv
<1> USE ProtocolTypes DEF RequestInv
<1>1. ASSUME NEW c \in Clients, NEW o \in Ops, Call(c, o)
      PROVE  (OneAtATime' /\ BusThreadNeverWaits' /\ StillAllowed') /\ Requests'
  <2>1. Requests'
    BY <1>1, IdleKeeps DEF Call
  <2> QED BY <1>1, <2>1, CallProtocol
<1>2. ASSUME NEW t \in Threads, Runs(t) \/ GoesOn(t)
      PROVE  (OneAtATime' /\ BusThreadNeverWaits' /\ StillAllowed') /\ Requests'
  <2>1. t \in Clients
    BY <1>2, ClientsRun
  <2>2. Requests'
    BY <1>2, <2>1, RunsRequests, GoesOnRequests
  <2> QED BY <1>2, <2>2, CallStepProtocol
<1>3. ASSUME NEW c \in Clients, DeleteJoined(c)
      PROVE  (OneAtATime' /\ BusThreadNeverWaits' /\ StillAllowed') /\ Requests'
  <2>1. Requests'
    BY <1>3 DEF DeleteJoined, Requests, SeekStateSet
  <2> QED BY <1>3, <2>1, DeleteProtocol
<1>4. ASSUME BusStep \/ PrerollEnds
      PROVE  (OneAtATime' /\ BusThreadNeverWaits' /\ StillAllowed') /\ Requests'
  BY <1>4, BusStepRequests, PrerollRequests, OtherStepProtocol
<1>5. CASE PlayBinPosts
  <2>1. Grows /\ UNCHANGED <<state, target, failed, requestVars>>
    <3>1. /\ UNCHANGED requestVars
          /\ ChildPauses \/ ReachEos \/ (\E type \in MsgTypes : Announce(type))
      BY <1>5, AnnouncedAssumption DEF PlayBinPosts, MsgTypes
    <3> QED BY <3>1, MessageTypes DEF ChildPauses, ReachEos, Announce, Post, Grows, MsgTypes
  <2> QED BY <1>5, <2>1, PostingKeeps, OtherStepProtocol
<1>6. CASE UNCHANGED vars
  BY <1>6, IdleKeeps, OtherStepProtocol DEF vars
<1> QED BY <1>1, <1>2, <1>3, <1>4, <1>5, <1>6 DEF Next, Terminated

LEMMA RequestInvariant == ASSUME Careful PROVE Spec => []RequestInv
<1>1. Init => OneAtATime /\ BusThreadNeverWaits /\ StillAllowed /\ Requests
  BY DEF Init, OneAtATime, BusThreadNeverWaits, StillAllowed, Requests, SeekStateSet, Threads
<1>2. WaitInv /\ WaitInv' /\ RequestInv /\ [Next]_vars => RequestInv'
  BY RequestInductive
<1>3. WaitInv /\ OneAtATime /\ BusThreadNeverWaits /\ StillAllowed /\ Requests => RequestInv
  BY DEF RequestInv, ProtocolInv
<1> QED BY <1>1, <1>2, <1>3, WaitInvariant, PTL DEF Spec

\* A seek that waits to be reported will be, unless playbin2 fails.
THEOREM SeekReported == ASSUME Careful PROVE Spec => []SeekHasWitness
<1>1. RequestInv => SeekHasWitness
  BY ProtocolTypes
  DEF RequestInv, Requests, SeekHasWitness, SeekAnswerQueued, TypeOK, PlayBinTypeOK
<1> QED BY <1>1, RequestInvariant, PTL

\* So will a prepareAsync().
THEOREM PrepareReported == ASSUME Careful PROVE Spec => []PrepareHasWitness
<1>1. RequestInv => PrepareHasWitness
  BY ProtocolTypes
  DEF RequestInv, Requests, PrepareHasWitness, PrepareAnswerQueued, TypeOK, PlayBinTypeOK
<1> QED BY <1>1, RequestInvariant, PTL

\* isPlaying() tells whether the pipeline plays.
THEOREM IsPlayingTrue == ASSUME Careful PROVE Spec => []IsPlayingAgrees
<1>1. RequestInv => IsPlayingAgrees
  BY DEF RequestInv, Requests, IsPlayingAgrees, PlayingAnswer, GoalState, Settles
<1> QED BY <1>1, RequestInvariant, PTL

=============================================================================

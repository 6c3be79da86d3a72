-------------------------- MODULE PlayerMailboxProofs --------------------------
(***************************************************************************)
(* The end of a player, and its bus as a mailbox, for every set of clients *)
(* and of calls, right or wrong, and every backlog.                        *)
(***************************************************************************)
EXTENDS GstPlayerPipelineProofs

Joining == \E c \in Clients : pc[c] = "join"

QuitAt(i) == bus[i].type = "application"
OnBus == \E i \in 1..Len(bus) : QuitAt(i)

\* A handler that has not returned is in a start() that will never have the mutex.
HandlerInv ==
  pc[BusThread] # "idle" => /\ pc[BusThread] = "called" /\ op[BusThread] = "start"
                            /\ mActionMutex = BusThread /\ mIsLooping

\* There is one QUIT message, from when the destructor joins to when the bus thread
\* has handled it, and no call has the mutex that it needs for this.
JoinInv ==
  /\ \A i \in 1..Len(bus) : QuitAt(i) => bus[i] = PlainMsg("application")
  /\ \A i, j \in 1..Len(bus) : QuitAt(i) /\ QuitAt(j) => i = j
  /\ OnBus <=> Joining /\ mBusMessageThread = "running"
  /\ mBusMessageThread = "exited" => Joining
  /\ Joining => mActionMutex = Nobody \/ (mActionMutex = BusThread /\ mIsLooping)

IInv == WaitInv /\ LifeInv /\ HandlerInv /\ JoinInv

-----------------------------------------------------------------------------
(* What playbin2 posts *)

\* More messages behind those of before, none of them QUIT.
BusGrows ==
  /\ Len(bus) <= Len(bus')
  /\ \A i \in 1..Len(bus) : bus'[i] = bus[i]
  /\ \A i \in 1..Len(bus') : i > Len(bus) => bus'[i].type # "application"

LEMMA NothingPosted ==
  ASSUME PlayBinTypeOK, UNCHANGED bus
  PROVE  BusGrows
  BY DEF PlayBinTypeOK, BusGrows

LEMMA OnePosted ==
  ASSUME PlayBinTypeOK, NEW m, m.type # "application", bus' = Append(bus, m)
  PROVE  BusGrows
<1>1. bus \in Seq(Msg)
  BY DEF PlayBinTypeOK
<1>2. /\ Len(bus') = Len(bus) + 1 /\ Len(bus) \in Nat
      /\ bus'[Len(bus) + 1] = m /\ \A i \in 1..Len(bus) : bus'[i] = bus[i]
  BY <1>1
<1> QED BY <1>2 DEF BusGrows

LEMMA TwoPosted ==
  ASSUME PlayBinTypeOK, NEW m, NEW n, m.type # "application", n.type # "application",
         bus' = bus \o <<m, n>>
  PROVE  BusGrows
<1>1. bus \in Seq(Msg)
  BY DEF PlayBinTypeOK
<1>2. Len(<<m, n>>) = 2 /\ <<m, n>>[1] = m /\ <<m, n>>[2] = n
  OBVIOUS
<1>3. Len(bus') = Len(bus) + 2 /\ Len(bus) \in Nat
  BY <1>1, <1>2
<1>4. \A i \in 1..Len(bus') : bus'[i] = IF i <= Len(bus) THEN bus[i] ELSE <<m, n>>[i - Len(bus)]
  BY <1>1, <1>2, <1>3
<1>5. ASSUME NEW i \in 1..Len(bus'), i > Len(bus) PROVE bus'[i].type # "application"
  <2>1. i - Len(bus) \in {1, 2}
    BY <1>3, <1>5
  <2> QED BY <1>2, <1>4, <1>5, <2>1
<1> QED BY <1>3, <1>4, <1>5 DEF BusGrows

\* The messages playbin2 has.
LEMMA NotTheLast ==
  /\ \A s, p : StateMsg(s, p).type # "application"
  /\ ChildMsg.type # "application"
  /\ \A type : PlainMsg(type).type = type
  BY DEF StateMsg, ChildMsg, PlainMsg

LEMMA CallsPost ==
  ASSUME PlayBinTypeOK,
         \/ \E s, ret : SetState(s, ret)
         \/ \E ret : SetReady(ret)
         \/ FlushingSeek
  PROVE  BusGrows
<1> USE NotTheLast
<1>1. ASSUME NEW s, NEW ret, SetState(s, ret) PROVE BusGrows
  <2>1. UNCHANGED bus \/ \E m : m.type # "application" /\ bus' = Append(bus, m)
    BY <1>1 DEF SetState, Open, OpenFails, Retarget, StayIn, Switch, PauseAsync, Post, playBinVars
  <2> QED BY <2>1, NothingPosted, OnePosted
<1>2. ASSUME NEW ret, SetReady(ret) PROVE BusGrows
  <2>1. \/ UNCHANGED bus
        \/ bus' = Append(bus, StateMsg(READY, VOID_PENDING))
        \/ bus' = Append(bus, PlainMsg("error"))
        \/ bus' = bus \o <<StateMsg(PAUSED, READY), StateMsg(READY, VOID_PENDING)>>
    BY <1>2 DEF SetReady, Post
  <2> QED BY <2>1, NothingPosted, OnePosted, TwoPosted
<1>3. ASSUME FlushingSeek PROVE BusGrows
  BY <1>3, OnePosted DEF FlushingSeek, Post
<1> QED BY <1>1, <1>2, <1>3

LEMMA StreamingPosts ==
  ASSUME PlayBinTypeOK, PrerollEnds \/ PlayBinPosts
  PROVE  BusGrows
<1> USE NotTheLast
<1>1. CASE PrerollEnds
  <2>1. \/ bus' = Append(bus, StateMsg(PAUSED, VOID_PENDING))
        \/ bus' = Append(bus, PlainMsg("error"))
        \/ bus' = bus \o <<StateMsg(PAUSED, PLAYING), StateMsg(PLAYING, VOID_PENDING)>>
    BY <1>1 DEF PrerollEnds, Preroll, PrerollFails, Post
  <2> QED BY <2>1, OnePosted, TwoPosted
<1>2. CASE PlayBinPosts
  <2>1. \/ bus' = Append(bus, ChildMsg)
        \/ \E type \in {"eos"} \cup Announced : bus' = Append(bus, PlainMsg(type))
    BY <1>2 DEF PlayBinPosts, ChildPauses, ReachEos, Announce, Post
  <2> QED BY <2>1, OnePosted, AnnouncedAssumption
<1> QED BY <1>1, <1>2

LEMMA ThreadPosts ==
  ASSUME TypeOK, NEW t \in Threads, Runs(t) \/ GoesOn(t), ~Delete(t)
  PROVE  BusGrows
<1>1. \/ \E s, ret : SetState(s, ret)
      \/ \E ret : SetReady(ret)
      \/ FlushingSeek
      \/ UNCHANGED playBinVars
  BY DEF Runs, GoesOn, SetDataSource, SetDataSourceFd, SetAudioSink, SetVideoSurface,
         Refuse, Prepare, PrepareAsync, Start, Pause, Stop, WaitForStableState, Query,
         SetLooping, PrepareSettled, CallSettled, SeekToSettled, ChangeState
<1> QED BY <1>1, CallsPost, NothingPosted DEF TypeOK, playBinVars

-----------------------------------------------------------------------------
(* The end of a player *)

LEMMA HandlerStep ==
  ASSUME WaitInv, LifeInv, HandlerInv, [Next]_vars
  PROVE  HandlerInv'
<1> USE DEF HandlerInv
<1>1. TypeOK /\ BusThread \in Threads /\ BusThread \notin Clients /\ Nobody # BusThread
  BY ThreadsAssumption DEF WaitInv, Threads
<1>2. ASSUME NEW c \in Clients, NEW o \in Ops, Call(c, o) PROVE HandlerInv'
  BY <1>1, <1>2 DEF Call, TypeOK
<1>3. ASSUME NEW t \in Threads, Runs(t) PROVE HandlerInv'
  <2>1. CASE SetDataSourceFd(t)
    <3>1. t # BusThread \/ pc[BusThread] = "idle"
      BY <2>1 DEF SetDataSourceFd
    <3>2. t # BusThread
      BY <2>1, <3>1 DEF SetDataSourceFd
    <3>3. UNCHANGED <<mActionMutex, mIsLooping, pc[BusThread], op[BusThread]>>
      BY <1>1, <2>1, <3>2 DEF SetDataSourceFd, EndsWith, SetsAudioSink, TypeOK
    <3> QED BY <3>3
  <2>2. CASE ~SetDataSourceFd(t)
    <3>1. pc[t] = "called" /\ mActionMutex = Nobody
      BY <1>3, <2>2 DEF Runs, SetDataSource, SetAudioSink, SetVideoSurface, Refuse, Prepare,
         PrepareAsync, Start, Pause, Stop, WaitForStableState, Query, SetLooping, Delete, Locks
    <3>2. pc[BusThread] = "idle" /\ t # BusThread
      BY <1>1, <3>1
    <3>3. \/ \E owner : EndsWith(t, owner)
          \/ Waits(t) \/ SetsAudioSink(t) \/ pc' = [pc EXCEPT ![t] = "join"]
      BY <1>3 DEF Runs, SetDataSource, SetDataSourceFd, SetAudioSink, SetVideoSurface, Refuse,
         Prepare, PrepareAsync, Start, Pause, Stop, WaitForStableState, Query, SetLooping,
         Delete, ChangeState, Returns, ReturnsLocked
    <3>4. pc'[BusThread] = pc[BusThread]
      BY <1>1, <3>2, <3>3 DEF EndsWith, Waits, SetsAudioSink, TypeOK
    <3> QED BY <3>2, <3>4
  <2> QED BY <2>1, <2>2
<1>4. ASSUME NEW t \in Threads, GoesOn(t) PROVE HandlerInv'
  <2>1. pc[t] = "wait" /\ Returns(t)
    BY <1>4 DEF GoesOn, PrepareSettled, CallSettled, SeekToSettled, Settles
  <2>2. mActionMutex = t
    BY <2>1 DEF WaitInv, WaiterOwns
  <2>3. pc[BusThread] = "idle" /\ t # BusThread
    BY <2>1, <2>2
  <2> QED BY <1>1, <2>1, <2>3 DEF Returns, EndsWith, TypeOK
<1>5. ASSUME NEW c \in Clients, DeleteJoined(c) PROVE HandlerInv'
  BY <1>1, <1>5 DEF DeleteJoined, TypeOK
<1>6. CASE BusStep
  <2>1. CASE HandleEos /\ mIsLooping
    BY <1>1, <2>1 DEF HandleEos, BusCallback, TypeOK
  <2>2. CASE ~(HandleEos /\ mIsLooping)
    <3>1. pc[BusThread] = "idle" /\ UNCHANGED pc
      BY <1>6, <2>2 DEF BusStep, BusCallback, HandleEos, HandleError, HandleBuffering,
                        HandleStateChanged, HandleApplication, HandleOther, lockVars
    <3> QED BY <3>1
  <2> QED BY <2>1, <2>2
<1>7. CASE PrerollEnds \/ PlayBinPosts \/ UNCHANGED vars
  BY <1>7 DEF PrerollEnds, PlayBinPosts, lockVars, vars
<1> QED BY <1>2, <1>3, <1>4, <1>5, <1>6, <1>7 DEF Next, Terminated

\* What is posted with or without a destructor at work is not a QUIT.
LEMMA JoinKept ==
  ASSUME PlayBinTypeOK, JoinInv, BusGrows, UNCHANGED <<mBusMessageThread, mActionMutex, mIsLooping>>,
         Joining' <=> Joining
  PROVE  JoinInv'
<1>1. /\ Len(bus) \in Nat /\ Len(bus) <= Len(bus') /\ \A i \in 1..Len(bus) : bus'[i] = bus[i]
      /\ \A i \in 1..Len(bus') : i > Len(bus) => bus'[i].type # "application"
  BY DEF BusGrows, PlayBinTypeOK
<1>2. \A i \in 1..Len(bus') : QuitAt(i)' => i \in 1..Len(bus) /\ QuitAt(i)
  BY <1>1 DEF QuitAt
<1>3. \A i \in 1..Len(bus) : QuitAt(i) => i \in 1..Len(bus') /\ QuitAt(i)'
  <2> SUFFICES ASSUME NEW i \in 1..Len(bus), QuitAt(i) PROVE i \in 1..Len(bus') /\ QuitAt(i)'
    OBVIOUS
  <2>1. bus'[i] = bus[i]
    BY <1>1
  <2>2. QuitAt(i)'
    BY <2>1 DEF QuitAt
  <2> QED BY <1>1, <2>2
<1>4. OnBus' <=> OnBus
  BY <1>2, <1>3 DEF OnBus
<1>5. \A i \in 1..Len(bus') : QuitAt(i)' => bus'[i] = PlainMsg("application")
  BY <1>1, <1>2 DEF JoinInv
<1>6. \A i, j \in 1..Len(bus') : QuitAt(i)' /\ QuitAt(j)' => i = j
  BY <1>2 DEF JoinInv
<1> QED BY <1>4, <1>5, <1>6 DEF JoinInv

\* While the destructor joins, no thread is in a call that could go on.
LEMMA JoinsAlone ==
  ASSUME LifeInv, HandlerInv, NEW t \in Threads, Joining
  PROVE  ~Runs(t) /\ ~GoesOn(t)
<1>1. PICK c \in Clients : pc[c] = "join"
  BY DEF Joining
<1>2. \A d \in Clients \ {c} : pc[d] = "idle"
  BY <1>1 DEF LifeInv, OnlyDeleteJoins, DeletesAlone
<1>3. CASE t = BusThread
  <2>1. ~GoesOn(t)
    BY <1>3 DEF HandlerInv, GoesOn, PrepareSettled, CallSettled, SeekToSettled, Settles
  <2>2. \A o : ~Locks(t, o)
    BY <1>3, ThreadsAssumption DEF HandlerInv, Locks, Threads
  <2>3. ~SetDataSourceFd(t)
    BY <1>3 DEF HandlerInv, SetDataSourceFd
  <2> QED BY <2>1, <2>2, <2>3 DEF Runs, SetDataSource, SetAudioSink, SetVideoSurface, Refuse,
      Prepare, PrepareAsync, Start, Pause, Stop, WaitForStableState, Query, SetLooping, Delete
<1>4. CASE t # BusThread
  <2>1. pc[t] \in {"idle", "join"}
    BY <1>1, <1>2, <1>4 DEF Threads
  <2> QED BY <2>1 DEF Runs, GoesOn, SetDataSource, SetDataSourceFd, SetAudioSink,
      SetVideoSurface, Refuse, Prepare, PrepareAsync, Start, Pause, Stop, WaitForStableState,
      Query, SetLooping, Delete, PrepareSettled, CallSettled, SeekToSettled, Locks, Settles
<1> QED BY <1>3, <1>4

\* The destructor posts QUIT, which is then the only one.
LEMMA DeletePosts ==
  ASSUME LifeInv, JoinInv, NEW t \in Threads, Delete(t)
  PROVE  /\ ~Joining /\ Joining' /\ mActionMutex = Nobody
         /\ ~OnBus /\ mBusMessageThread # "exited"
         /\ JoinInv'
<1>1. t \in Clients /\ op[t] = "delete" /\ pc[t] = "called"
  BY DEF Delete, Locks, LifeInv, OnlyDeleteJoins, Threads
<1>2. ~Joining
  BY <1>1 DEF LifeInv, DeletesAlone, Joining
<1>3. Joining'
  BY <1>1 DEF Delete, Joining, LifeInv, TypeOK, Threads
<1>4. ~OnBus /\ mBusMessageThread # "exited"
  BY <1>2 DEF JoinInv
<1>5. /\ mActionMutex = Nobody /\ UNCHANGED <<mActionMutex, mBusMessageThread>>
      /\ bus' = IF mBusMessageThread = "running" THEN Append(bus, PlainMsg("application")) ELSE bus
  BY DEF Delete, Locks, Post, lifeVars
<1>6. bus \in Seq(Msg)
  BY DEF LifeInv, TypeOK, PlayBinTypeOK
<1>7. CASE mBusMessageThread = "running"
  <2>1. /\ Len(bus') = Len(bus) + 1 /\ Len(bus) \in Nat
        /\ bus'[Len(bus) + 1] = PlainMsg("application")
        /\ \A i \in 1..Len(bus) : bus'[i] = bus[i]
    BY <1>5, <1>6, <1>7
  <2>2. \A i \in 1..Len(bus') : QuitAt(i)' => i = Len(bus) + 1
    BY <1>4, <2>1 DEF OnBus, QuitAt
  <2>3. bus'[Len(bus) + 1].type = "application" /\ Len(bus) + 1 \in 1..Len(bus')
    BY <2>1, NotTheLast
  <2>4. OnBus'
    BY <2>1, <2>3 DEF OnBus, QuitAt
  <2>5. /\ \A i \in 1..Len(bus') : QuitAt(i)' => bus'[i] = PlainMsg("application")
        /\ \A i, j \in 1..Len(bus') : QuitAt(i)' /\ QuitAt(j)' => i = j
    BY <2>1, <2>2
  <2> QED BY <1>2, <1>3, <1>4, <1>5, <1>7, <2>4, <2>5 DEF JoinInv
<1>8. CASE mBusMessageThread # "running"
  <2>1. UNCHANGED bus
    BY <1>5, <1>8
  <2>2. (\A i : QuitAt(i)' <=> QuitAt(i)) /\ (OnBus' <=> OnBus)
    BY <2>1 DEF QuitAt, OnBus
  <2> QED BY <1>2, <1>3, <1>4, <1>5, <1>8, <2>1, <2>2 DEF JoinInv
<1> QED BY <1>2, <1>3, <1>4, <1>5, <1>7, <1>8

LEMMA JoinStep ==
  ASSUME WaitInv, LifeInv, HandlerInv, JoinInv, [Next]_vars
  PROVE  JoinInv'
<1>1. TypeOK /\ PlayBinTypeOK /\ BusThread \notin Clients
  BY ThreadsAssumption DEF LifeInv, TypeOK
<1>2. ASSUME NEW c \in Clients, NEW o \in Ops, Call(c, o) PROVE JoinInv'
  <2>1. Joining' <=> Joining
    BY <1>1, <1>2 DEF Call, Joining, TypeOK, Threads
  <2>2. UNCHANGED <<bus, mBusMessageThread, mActionMutex, mIsLooping>>
    BY <1>2 DEF Call, playBinVars, lifeVars
  <2> QED BY <1>1, <2>1, <2>2, NothingPosted, JoinKept
<1>3. ASSUME NEW t \in Threads, Runs(t) \/ GoesOn(t), ~Delete(t) PROVE JoinInv'
  <2>1. ~Joining
    BY <1>3, JoinsAlone
  <2>2. \/ \E owner : EndsWith(t, owner)
        \/ Waits(t) \/ SetsAudioSink(t)
    BY <1>3 DEF Runs, GoesOn, SetDataSource, SetDataSourceFd, SetAudioSink, SetVideoSurface,
                Refuse, Prepare, PrepareAsync, Start, Pause, Stop, WaitForStableState, Query,
                SetLooping, PrepareSettled, CallSettled, SeekToSettled, ChangeState,
                Returns, ReturnsLocked
  <2>3. ~Joining'
    BY <1>1, <2>1, <2>2 DEF EndsWith, Waits, SetsAudioSink, Joining, TypeOK, Threads
  <2>4. UNCHANGED mBusMessageThread
    BY <1>3 DEF Runs, GoesOn, SetDataSource, SetDataSourceFd, SetAudioSink, SetVideoSurface,
                Refuse, Prepare, PrepareAsync, Start, Pause, Stop, WaitForStableState, Query,
                SetLooping, PrepareSettled, CallSettled, SeekToSettled, lifeVars
  <2>5. BusGrows
    BY <1>1, <1>3, ThreadPosts
  <2>6. /\ Len(bus) \in Nat /\ Len(bus) <= Len(bus') /\ \A i \in 1..Len(bus) : bus'[i] = bus[i]
        /\ \A i \in 1..Len(bus') : i > Len(bus) => bus'[i].type # "application"
    BY <1>1, <2>5 DEF BusGrows, PlayBinTypeOK
  <2>7. \A i \in 1..Len(bus') : ~QuitAt(i)'
    BY <2>1, <2>6 DEF JoinInv, OnBus, QuitAt
  <2> QED BY <2>1, <2>3, <2>4, <2>7 DEF JoinInv, OnBus
<1>4. ASSUME NEW t \in Threads, Delete(t) PROVE JoinInv'
  BY <1>4, DeletePosts
<1>5. ASSUME NEW c \in Clients, DeleteJoined(c) PROVE JoinInv'
  <2>1. /\ pc[c] = "join" /\ pc' = [pc EXCEPT ![c] = "dead"] /\ bus' = <<>>
        /\ mBusMessageThread # "running"
        /\ mBusMessageThread' = IF mBusMessageThread = "exited" THEN "none" ELSE mBusMessageThread
    BY <1>5 DEF DeleteJoined, BusThreadJoined, SetNull
  <2>2. \A d \in Clients \ {c} : pc[d] = "idle"
    BY <2>1 DEF LifeInv, OnlyDeleteJoins, DeletesAlone
  <2>3. ~Joining'
    BY <1>1, <2>1, <2>2 DEF Joining, TypeOK, Threads
  <2>4. Len(bus') = 0 /\ \A i \in 1..0 : FALSE
    BY <2>1
  <2>5. mBusMessageThread' \notin {"running", "exited"}
    BY <2>1
  <2> QED BY <2>3, <2>4, <2>5 DEF JoinInv, OnBus
<1>6. CASE BusStep
  <2>1. /\ mBusMessageThread = "running" /\ mActionMutex = Nobody
        /\ bus # <<>> /\ bus' = Tail(bus) /\ UNCHANGED mIsLooping
        /\ HandleApplication \/ (Head(bus).type # "application" /\ UNCHANGED mBusMessageThread)
    BY <1>6 DEF BusStep, BusCallback, HandleEos, HandleError, HandleBuffering,
                HandleStateChanged, HandleApplication, HandleOther
  <2>2. /\ mActionMutex' = Nobody \/ (mActionMutex' = BusThread /\ mIsLooping)
        /\ \A c \in Clients : pc'[c] = pc[c]
    BY <1>1, <1>6, <2>1
    DEF BusStep, HandleEos, HandleError, HandleBuffering, HandleStateChanged,
        HandleApplication, HandleOther, lockVars, TypeOK, Threads
  <2>3. Joining' <=> Joining
    BY <2>2 DEF Joining
  <2>4. /\ 1 \in 1..Len(bus) /\ Len(bus) \in Nat /\ Head(bus) = bus[1]
        /\ Len(bus') = Len(bus) - 1
        /\ \A i \in 1..Len(bus') : bus'[i] = bus[i + 1] /\ i + 1 \in 1..Len(bus)
    BY <1>1, <2>1 DEF PlayBinTypeOK
  <2>5. \A i \in 1..Len(bus') : QuitAt(i)' <=> QuitAt(i + 1)
    BY <2>4 DEF QuitAt
  <2>6. \A i \in 1..Len(bus') : QuitAt(i)' => bus'[i] = PlainMsg("application")
    BY <2>4, <2>5 DEF JoinInv
  <2>7. \A i, j \in 1..Len(bus') : QuitAt(i)' /\ QuitAt(j)' => i = j
    <3> SUFFICES ASSUME NEW i \in 1..Len(bus'), NEW j \in 1..Len(bus'), QuitAt(i)', QuitAt(j)'
                 PROVE  i = j
      OBVIOUS
    <3>1. i + 1 = j + 1
      BY <2>4, <2>5 DEF JoinInv
    <3>2. i \in Nat /\ j \in Nat
      BY <2>4
    <3> QED BY <3>1, <3>2
  <2>8. CASE HandleApplication
    <3>1. QuitAt(1) /\ mBusMessageThread' = "exited"
      BY <2>4, <2>8 DEF HandleApplication, BusCallback, QuitAt
    <3>2. Joining
      BY <2>4, <3>1 DEF JoinInv, OnBus
    <3>3. ASSUME NEW i \in 1..Len(bus'), QuitAt(i)' PROVE FALSE
      <4>1. i + 1 = 1 /\ i \in 1..Len(bus')
        BY <2>4, <2>5, <3>1, <3>3 DEF JoinInv
      <4> QED BY <2>4, <4>1
    <3>4. ~OnBus'
      BY <3>3 DEF OnBus
    <3> QED BY <2>2, <2>3, <2>1, <2>6, <2>7, <3>1, <3>2, <3>4 DEF JoinInv
  <2>9. CASE ~HandleApplication
    <3>1. ~QuitAt(1) /\ UNCHANGED mBusMessageThread
      BY <2>1, <2>4, <2>9 DEF QuitAt
    <3>2. OnBus' => OnBus
      BY <2>4, <2>5 DEF OnBus
    <3>3. OnBus => OnBus'
      <4> SUFFICES ASSUME NEW i \in 1..Len(bus), QuitAt(i) PROVE OnBus'
        BY DEF OnBus
      <4>1. i # 1 /\ i - 1 \in 1..Len(bus') /\ (i - 1) + 1 = i
        BY <2>4, <3>1
      <4>2. bus'[i - 1].type = "application"
        BY <2>4, <4>1 DEF QuitAt
      <4> QED BY <4>1, <4>2 DEF OnBus, QuitAt
    <3> QED BY <2>1, <2>2, <2>3, <2>6, <2>7, <3>1, <3>2, <3>3 DEF JoinInv
  <2> QED BY <2>8, <2>9
<1>7. CASE PrerollEnds \/ PlayBinPosts
  <2>1. UNCHANGED <<pc, mBusMessageThread, mActionMutex, mIsLooping>>
    BY <1>7 DEF PrerollEnds, PlayBinPosts, lockVars, lifeVars
  <2>2. Joining' <=> Joining
    BY <2>1 DEF Joining
  <2> QED BY <1>1, <1>7, <2>1, <2>2, StreamingPosts, JoinKept
<1>8. CASE UNCHANGED vars
  <2>1. UNCHANGED <<pc, bus, mBusMessageThread, mActionMutex, mIsLooping>>
    BY <1>8 DEF vars, playBinVars, lockVars, lifeVars
  <2>2. Joining' <=> Joining
    BY <2>1 DEF Joining
  <2> QED BY <1>1, <2>1, <2>2, NothingPosted, JoinKept
<1> QED BY <1>2, <1>3, <1>4, <1>5, <1>6, <1>7, <1>8 DEF Next, Terminated

LEMMA EndInvariant == Spec => []IInv
<1>1. Init => HandlerInv /\ JoinInv
  <2> SUFFICES ASSUME Init PROVE HandlerInv /\ JoinInv
    OBVIOUS
  <2>1. Len(bus) = 0 /\ \A i \in 1..0 : FALSE
    BY DEF Init, PlayBinInit
  <2>2. ~Joining /\ pc[BusThread] = "idle" /\ mBusMessageThread # "exited"
    BY DEF Init, Joining, Threads
  <2> QED BY <2>1, <2>2 DEF HandlerInv, JoinInv, OnBus
<1>2. WaitInv /\ LifeInv /\ HandlerInv /\ JoinInv /\ [Next]_vars => HandlerInv' /\ JoinInv'
  BY HandlerStep, JoinStep
<1>3. WaitInv /\ LifeInv /\ HandlerInv /\ JoinInv => IInv
  BY DEF IInv
<1> QED BY <1>1, <1>2, <1>3, WaitInvariant, LifeInvariant, PTL DEF Spec

\* Whatever the clients did, and however the player was created, the destructor does
\* not wait in vain: QUIT is there to be handled, and no call is in its way.
THEOREM JoinEnds == Spec => []JoinCanEnd
<1>1. IInv => JoinCanEnd
  <2> SUFFICES ASSUME IInv, NEW c \in Clients, pc[c] = "join"
               PROVE  /\ mBusMessageThread = "running" =>
                           \E i \in 1..Len(bus) : bus[i] = PlainMsg("application")
                      /\ mActionMutex = Nobody \/ (mActionMutex = BusThread /\ mIsLooping)
    BY DEF JoinCanEnd
  <2> QED BY DEF IInv, JoinInv, Joining, OnBus
<1> QED BY <1>1, EndInvariant, PTL

-----------------------------------------------------------------------------
(* The mailbox of a player that was created whole *)

\* Its bus thread ends, but is not gone before the player is deleted.
ThreadInv == ~Deleted => mBusMessageThread # "none"

LEMMA DeletedStays ==
  ASSUME LifeInv, [Next]_vars, Deleted
  PROVE  Deleted' /\ UNCHANGED <<mBusMessageThread, mActionMutex, bus, pc>>
<1>1. Freed /\ \E c \in Clients : op[c] = "delete"
  BY DEF LifeInv, Deleted, OnlyDeleteJoins
<1>2. ASSUME NEW c \in Clients, NEW o \in Ops, Call(c, o) PROVE FALSE
  BY <1>1, <1>2 DEF Call
<1>3. ASSUME NEW t \in Threads, Runs(t) \/ GoesOn(t) PROVE FALSE
  <2>1. pc[t] \in {"idle", "dead"}
    BY <1>1 DEF Freed
  <2> QED BY <1>3, <2>1 DEF Runs, GoesOn, SetDataSource, SetDataSourceFd, SetAudioSink,
      SetVideoSurface, Refuse, Prepare, PrepareAsync, Start, Pause, Stop, WaitForStableState,
      Query, SetLooping, Delete, PrepareSettled, CallSettled, SeekToSettled, Locks, Settles
<1>4. ASSUME NEW c \in Clients, DeleteJoined(c) PROVE FALSE
  BY <1>1, <1>4 DEF DeleteJoined, Freed, Threads
<1>5. ~BusStep
  BY <1>1 DEF Freed, BusStep, BusCallback, HandleEos, HandleError, HandleBuffering,
              HandleStateChanged, HandleApplication, HandleOther
<1>6. ~PrerollEnds /\ ~PlayBinPosts
  BY <1>1 DEF PrerollEnds, PlayBinPosts, Preroll, PrerollFails, ChildPauses, ReachEos,
              Announce, Freed, VOID_PENDING, NULL, PAUSED, PLAYING
<1>7. UNCHANGED vars
  BY <1>2, <1>3, <1>4, <1>5, <1>6 DEF Next, Terminated
<1> QED BY <1>7 DEF vars, playBinVars, lockVars, lifeVars, Deleted

LEMMA ThreadStays ==
  ASSUME LifeInv, ThreadInv, [Next]_vars
  PROVE  ThreadInv'
<1>1. CASE Deleted
  BY <1>1, DeletedStays DEF ThreadInv
<1>2. ASSUME NEW c \in Clients, DeleteJoined(c) PROVE Deleted'
  BY <1>2 DEF DeleteJoined, Deleted, LifeInv, TypeOK, Threads
<1>3. CASE ~Deleted /\ ~\E c \in Clients : DeleteJoined(c)
  <2>1. UNCHANGED mBusMessageThread \/ mBusMessageThread' = "exited"
    <3>1. ASSUME NEW c \in Clients, NEW o \in Ops, Call(c, o) PROVE UNCHANGED mBusMessageThread
      BY <3>1 DEF Call, lifeVars
    <3>2. ASSUME NEW t \in Threads, Runs(t) \/ GoesOn(t) PROVE UNCHANGED mBusMessageThread
      BY <3>2 DEF Runs, GoesOn, SetDataSource, SetDataSourceFd, SetAudioSink, SetVideoSurface,
                  Refuse, Prepare, PrepareAsync, Start, Pause, Stop, WaitForStableState, Query,
                  SetLooping, Delete, PrepareSettled, CallSettled, SeekToSettled, lifeVars
    <3>3. CASE BusStep
      BY <3>3 DEF BusStep, HandleEos, HandleError, HandleBuffering, HandleStateChanged,
                  HandleApplication, HandleOther
    <3>4. CASE PrerollEnds \/ PlayBinPosts \/ UNCHANGED vars
      BY <3>4 DEF PrerollEnds, PlayBinPosts, lifeVars, vars
    <3> QED BY <1>3, <3>1, <3>2, <3>3, <3>4 DEF Next, Terminated
  <2> QED BY <1>3, <2>1 DEF ThreadInv
<1> QED BY <1>1, <1>2, <1>3 DEF ThreadInv

\* What the mailbox is mapped to.
phase  == [p \in {"player"} |-> Life]
held   == [p \in {"player"} |-> Held]
queue  == [p \in {"player"} |-> bus]
inHand == [p \in {"player"} |-> <<>>]
Last   == PlainMsg("application")

LEMMA LifeIs ==
  /\ Deleted => Life = "closed"
  /\ ~Deleted /\ Joining => Life = "closing"
  /\ ~Deleted /\ ~Joining => Life = "open"
  BY DEF Life, Joining

LEMMA FreeIs ==
  ASSUME mActionMutex = Nobody
  PROVE  Held = "free"
  BY ThreadsAssumption DEF Held, Threads

LEMMA MailInit == Init => Mail!Init
<1> SUFFICES ASSUME Init PROVE Mail!Init
  OBVIOUS
<1>1. ~Deleted /\ ~Joining
  BY DEF Init, Deleted, Joining, Threads
<1>2. phase \in [{"player"} -> {"new", "open"}]
  BY <1>1, LifeIs DEF phase
<1>3. held = [p \in {"player"} |-> "free"] /\ queue = [p \in {"player"} |-> <<>>]
  BY FreeIs DEF Init, PlayBinInit, held, queue
<1> QED BY <1>2, <1>3 DEF Mail!Init, phase, held, queue

\* A call takes the mutex if it is free, keeps it, or gives back its own.
MutexWorks ==
  UNCHANGED Held \/ (Held # "handler" /\ Held' \in {"free", "call"})

LEMMA CallsHold ==
  ASSUME WaitInv, HandlerInv, NEW t \in Threads, Runs(t) \/ GoesOn(t)
  PROVE  MutexWorks
<1>1. BusThread \notin Clients /\ Nobody # BusThread /\ Nobody \notin Threads
  BY ThreadsAssumption DEF Threads
<1>2. CASE SetDataSourceFd(t)
  <2>1. UNCHANGED mActionMutex
    BY <1>2 DEF SetDataSourceFd, EndsWith, SetsAudioSink
  <2> QED BY <2>1 DEF MutexWorks, Held
<1>3. CASE Runs(t) /\ ~SetDataSourceFd(t)
  <2>1. pc[t] = "called" /\ mActionMutex = Nobody
    BY <1>3 DEF Runs, SetDataSource, SetAudioSink, SetVideoSurface, Refuse, Prepare,
       PrepareAsync, Start, Pause, Stop, WaitForStableState, Query, SetLooping, Delete, Locks
  <2>2. t # BusThread
    BY <1>1, <2>1 DEF HandlerInv
  <2>3. mActionMutex' \in {Nobody, t}
    BY <1>3, <2>1 DEF Runs, SetDataSource, SetDataSourceFd, SetAudioSink, SetVideoSurface,
       Refuse, Prepare, PrepareAsync, Start, Pause, Stop, WaitForStableState, Query, SetLooping,
       Delete, ChangeState, Returns, ReturnsLocked, EndsWith, Waits, SetsAudioSink
  <2> QED BY <1>1, <2>1, <2>2, <2>3 DEF MutexWorks, Held
<1>4. CASE GoesOn(t)
  <2>1. pc[t] = "wait" /\ mActionMutex' = Nobody
    BY <1>4 DEF GoesOn, PrepareSettled, CallSettled, SeekToSettled, Settles, Returns, EndsWith
  <2>2. mActionMutex = t /\ t # BusThread
    BY <2>1 DEF WaitInv, WaiterOwns, HandlerInv
  <2> QED BY <1>1, <2>1, <2>2 DEF MutexWorks, Held
<1> QED BY <1>2, <1>3, <1>4

\* Whatever is done without the destructor, and posts no QUIT, is work.
LEMMA MailWorks ==
  ASSUME PlayBinTypeOK, BusGrows, ~Deleted, UNCHANGED Life, MutexWorks
  PROVE  Mail!Work("player")
<1>1. phase["player"] \in {"open", "closing"} /\ UNCHANGED <<phase, inHand>>
  BY LifeIs DEF phase, inHand
<1>2. queue["player"] = bus /\ queue'["player"] = bus' /\ Len(bus) \in Nat
  BY DEF queue, PlayBinTypeOK
<1>3. \A i \in 1..Len(bus') : i > Len(bus) => bus'[i] # Last
  BY NotTheLast DEF BusGrows, Last
<1>4. Mail!Longer(queue["player"], queue'["player"])
  BY <1>2, <1>3 DEF Mail!Longer, BusGrows, Last
<1>5. queue' = [queue EXCEPT !["player"] = queue'["player"]]
  BY DEF queue
<1>6. \/ UNCHANGED held
      \/ /\ held["player"] # "handler"
         /\ \E h \in {"free", "call"} : held' = [held EXCEPT !["player"] = h]
  BY DEF MutexWorks, held
<1> QED BY <1>1, <1>4, <1>5, <1>6 DEF Mail!Work, phase, held, queue, inHand

LEMMA MailStep ==
  ASSUME IInv, ThreadInv, [Next]_vars
  PROVE  [Mail!Next]_(Mail!mailVars)
<1>1. TypeOK /\ PlayBinTypeOK /\ WaitInv /\ LifeInv /\ HandlerInv /\ JoinInv
  BY DEF IInv, LifeInv, TypeOK
<1>2. ASSUME UNCHANGED <<Life, mActionMutex, bus>> PROVE UNCHANGED Mail!mailVars
  BY <1>2 DEF Mail!mailVars, Held
<1>3. CASE Deleted
  <2>1. UNCHANGED <<Life, mActionMutex, bus>>
    BY <1>1, <1>3, DeletedStays DEF Life
  <2> QED BY <1>2, <2>1
<1>4. ASSUME ~Deleted, NEW c \in Clients, NEW o \in Ops, Call(c, o) PROVE UNCHANGED Mail!mailVars
  <2>1. (Joining' <=> Joining) /\ (Deleted' <=> Deleted)
    BY <1>1, <1>4 DEF Call, Joining, Deleted, TypeOK, Threads
  <2>2. UNCHANGED Life
    BY <2>1 DEF Life, Joining
  <2>3. UNCHANGED <<mActionMutex, bus>>
    BY <1>4 DEF Call, playBinVars
  <2> QED BY <1>2, <2>2, <2>3
<1>5. ASSUME ~Deleted, NEW t \in Threads, Runs(t) \/ GoesOn(t), ~Delete(t) PROVE Mail!Work("player")
  <2>1. ~Joining
    BY <1>1, <1>5, JoinsAlone
  <2>2. \/ \E owner : EndsWith(t, owner)
        \/ Waits(t) \/ SetsAudioSink(t)
    BY <1>5 DEF Runs, GoesOn, SetDataSource, SetDataSourceFd, SetAudioSink, SetVideoSurface,
                Refuse, Prepare, PrepareAsync, Start, Pause, Stop, WaitForStableState, Query,
                SetLooping, PrepareSettled, CallSettled, SeekToSettled, ChangeState,
                Returns, ReturnsLocked
  <2>3. ~Joining' /\ ~Deleted'
    BY <1>1, <1>5, <2>1, <2>2 DEF EndsWith, Waits, SetsAudioSink, Joining, Deleted, TypeOK, Threads
  <2>4. Life = "open" /\ Life' = "open"
    BY <1>5, <2>1, <2>3 DEF Life, Joining
  <2>5. MutexWorks
    BY <1>1, <1>5, CallsHold
  <2> QED BY <1>1, <1>5, <2>4, <2>5, ThreadPosts, MailWorks
<1>6. ASSUME ~Deleted, NEW t \in Threads, Delete(t) PROVE Mail!PostLast("player")
  <2>1. /\ ~Joining /\ Joining' /\ mActionMutex = Nobody /\ mBusMessageThread = "running"
    BY <1>1, <1>6, DeletePosts DEF ThreadInv, TypeOK
  <2>2. ~Deleted'
    BY <1>1, <1>6 DEF Delete, Deleted, TypeOK, Threads
  <2>3. bus' = Append(bus, Last) /\ UNCHANGED mActionMutex
    BY <1>6, <2>1 DEF Delete, Post, Last
  <2>4. Life = "open" /\ Life' = "closing"
    BY <1>6, <2>1, <2>2 DEF Life, Joining
  <2>5. UNCHANGED Held /\ Held = "free"
    BY <2>1, <2>3, FreeIs DEF Held
  <2>6. /\ phase["player"] = "open" /\ phase' = [phase EXCEPT !["player"] = "closing"]
        /\ queue' = [queue EXCEPT !["player"] = Append(queue["player"], Last)]
        /\ held["player"] = "free" /\ UNCHANGED held
    BY <2>3, <2>4, <2>5 DEF phase, queue, held
  <2> QED BY <2>6 DEF Mail!PostLast, Mail!Turn, phase, held, queue, Last
<1>7. ASSUME ~Deleted, NEW c \in Clients, DeleteJoined(c) PROVE Mail!Close("player")
  <2>1. /\ Joining /\ mBusMessageThread # "running" /\ mActionMutex = Nobody
        /\ UNCHANGED mActionMutex /\ bus' = <<>>
    BY <1>7 DEF DeleteJoined, BusThreadJoined, SetNull, Joining
  <2>2. Deleted'
    BY <1>1, <1>7 DEF DeleteJoined, Deleted, TypeOK, Threads
  <2>3. Life = "closing" /\ Life' = "closed"
    BY <1>7, <2>1, <2>2 DEF Life, Joining
  <2>4. \A i \in 1..Len(bus) : bus[i] # Last
    BY <1>1, <2>1, NotTheLast DEF JoinInv, OnBus, QuitAt, Last
  <2>5. UNCHANGED Held /\ Held = "free"
    BY <2>1, FreeIs DEF Held
  <2>6. /\ phase["player"] = "closing" /\ phase' = [phase EXCEPT !["player"] = "closed"]
        /\ \A i \in 1..Len(queue["player"]) : queue["player"][i] # Last
        /\ queue' = [queue EXCEPT !["player"] = <<>>]
        /\ held["player"] # "handler"
        /\ held' = [held EXCEPT !["player"] = "free"]
    BY <2>1, <2>3, <2>4, <2>5 DEF phase, queue, held
  <2>7. inHand["player"] # <<Last>>
    BY DEF inHand
  <2> QED BY <2>6, <2>7 DEF Mail!Close, Mail!Turn, phase, held, queue, inHand, Last
<1>8. ASSUME ~Deleted, BusStep PROVE Mail!HandleAtOnce("player")
  <2>1. mActionMutex = Nobody /\ bus # <<>> /\ bus' = Tail(bus)
    BY <1>8 DEF BusStep, BusCallback, HandleEos, HandleError, HandleBuffering,
                HandleStateChanged, HandleApplication, HandleOther
  <2>2. \A c \in Clients : pc'[c] = pc[c]
    BY <1>1, <1>8, ThreadsAssumption
    DEF BusStep, HandleEos, HandleError, HandleBuffering, HandleStateChanged,
        HandleApplication, HandleOther, lockVars, TypeOK, Threads
  <2>3. UNCHANGED Life /\ Life # "closed"
    BY <1>8, <2>2 DEF Life, Deleted
  <2>4. /\ phase["player"] # "closed" /\ UNCHANGED phase
        /\ held["player"] = "free" /\ inHand["player"] = <<>> /\ queue["player"] # <<>>
        /\ queue' = [queue EXCEPT !["player"] = Tail(queue["player"])]
    BY <2>1, <2>3, FreeIs DEF phase, held, queue, inHand
  <2>5. mActionMutex' \in {Nobody, BusThread}
    BY <1>8, <2>1 DEF BusStep, HandleEos, HandleError, HandleBuffering, HandleStateChanged,
                      HandleApplication, HandleOther, lockVars
  <2>6. held' = [held EXCEPT !["player"] = Held'] /\ Held' \in {"free", "handler"}
    BY <2>5 DEF held, Held
  <2> QED BY <2>4, <2>6 DEF Mail!HandleAtOnce, Mail!Handles, phase, held, queue, inHand
<1>9. ASSUME ~Deleted, PrerollEnds \/ PlayBinPosts PROVE Mail!Work("player")
  <2>1. UNCHANGED pc
    BY <1>9 DEF PrerollEnds, PlayBinPosts, lockVars
  <2>2. UNCHANGED Life
    BY <2>1 DEF Life, Deleted
  <2>3. MutexWorks
    BY <1>9 DEF MutexWorks, Held, PrerollEnds, PlayBinPosts, lockVars
  <2> QED BY <1>1, <1>9, <2>2, <2>3, StreamingPosts, MailWorks
<1>10. CASE UNCHANGED vars
  <2>1. UNCHANGED <<pc, mActionMutex, bus>>
    BY <1>10 DEF vars, playBinVars, lockVars
  <2>2. UNCHANGED Life
    BY <2>1 DEF Life, Deleted
  <2> QED BY <1>2, <2>1, <2>2
<1> QED BY <1>3, <1>4, <1>5, <1>6, <1>7, <1>8, <1>9, <1>10 DEF Next, Terminated, Mail!Next

\* Every step of the player is one of a mailbox: bus_callback has the messages one
\* at a time, in order, and never in the middle of a call, and QUIT is the last it
\* has to see before the player goes, for all that clients may do, the wrong
\* arguments and the early returns included.
THEOREM PlayerImplementsMailbox ==
  ASSUME Creations = {"ok"}
  PROVE  Spec => MailSpec
<1>1. Init => ThreadInv
  BY DEF Init, ThreadInv
<1>2. IInv /\ ThreadInv /\ [Next]_vars => ThreadInv'
  BY ThreadStays DEF IInv
<1>3. IInv /\ ThreadInv /\ [Next]_vars => [Mail!Next]_(Mail!mailVars)
  BY MailStep
<1> QED BY <1>1, <1>2, <1>3, MailInit, EndInvariant, PTL DEF Spec, MailSpec, Mail!Spec
=============================================================================

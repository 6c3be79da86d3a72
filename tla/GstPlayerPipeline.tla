-------------------------- MODULE GstPlayerPipeline --------------------------
(***************************************************************************)
(* player/GstPlayerPipeline.cpp: the media player around one playbin2.     *)
(*                                                                         *)
(* Client threads call it through GstPlayer; a thread of its own, the bus  *)
(* thread, runs a main loop that hands the messages of the bus to          *)
(* bus_callback; the streaming threads of playbin2 run below both.  Every  *)
(* call, and bus_callback as a whole, runs under mActionMutex, a pthread   *)
(* mutex that is not recursive.  A call that waits for a change of state   *)
(* keeps the mutex while it waits.                                         *)
(*                                                                         *)
(* A call is up to three steps: Call (the client is in the call), the step *)
(* named for the method (it gets the mutex and runs to its return or to    *)
(* gst_element_get_state), and ...Settled (gst_element_get_state returns). *)
(***************************************************************************)
EXTENDS PlayBin

CONSTANTS Clients,    \* the threads that hold a reference to the player
          BusThread,  \* the thread that runs mMainLoop
          Nobody,     \* the owner of a free mutex
          Ops,        \* the calls the clients make
          Careful,    \* TRUE: the clients follow the protocol of Allowed
          BadInputs,  \* the arguments some client gets wrong
          Creations,  \* how create_pipeline may have ended
          Announced,  \* the messages playbin2 posts while data flows
          MaxBacklog  \* bound of the model: undelivered messages

Threads == Clients \cup {BusThread}

AllOps == {"setDataSource", "setDataSourceFd", "setVideoSurface", "prepare",
           "prepareAsync", "start", "stop", "pause", "isPlaying", "seekTo",
           "query", "setLooping", "delete"}

ASSUME ThreadsAssumption == BusThread \notin Clients /\ Nobody \notin Threads
ASSUME OpsAssumption == Ops \subseteq AllOps
ASSUME CarefulAssumption == Careful \in BOOLEAN
ASSUME BadInputsAssumption == BadInputs \subseteq {"url", "fd", "audiosink", "surface"}
ASSUME CreationsAssumption == Creations \subseteq {"ok", "noplaybin", "nothread"}
ASSUME AnnouncedAssumption == Announced \subseteq {"error", "buffering", "other"}
ASSUME MaxBacklogAssumption == MaxBacklog \in Nat

Events == {"MEDIA_PREPARED", "MEDIA_SEEK_COMPLETE", "MEDIA_PLAYBACK_COMPLETE",
           "MEDIA_ERROR", "MEDIA_BUFFERING_UPDATE"}

VARIABLES
  mActionMutex,           \* the thread that owns it, or Nobody
  pc,                     \* where each thread is; see TypeOK
  op,                     \* the method each thread is in
  mPlayBin,               \* mPlayBin != NULL
  mBusMessageThread,      \* the life of the bus thread
  mSeeking, mSeekState,   \* a seek to report, and the state that ends it
  mAsynchPreparePending,  \* a prepareAsync() to report
  mIsLooping,
  sent                    \* the events the latest step gave to sendEvent()

lockVars    == <<mActionMutex, pc, op>>
seekVars    == <<mSeeking, mSeekState>>
requestVars == <<mSeeking, mSeekState, mAsynchPreparePending>>
lifeVars    == <<mPlayBin, mBusMessageThread>>
stableVars  == <<state, target, failed, atEos>>
vars == <<playBinVars, lockVars, requestVars, lifeVars, mIsLooping, sent>>

\* idle: not in the player.  called: in a call, waiting for the mutex.
\* wait: in gst_element_get_state.  join: in g_thread_join.  dead: the player
\* has been deleted.
TypeOK ==
  /\ PlayBinTypeOK
  /\ mActionMutex \in Threads \cup {Nobody}
  /\ pc \in [Threads -> {"idle", "called", "wait", "join", "dead"}]
  /\ op \in [Threads -> AllOps \cup {"setAudioSink", "none"}]
  /\ mPlayBin \in BOOLEAN
  /\ mBusMessageThread \in {"none", "running", "exited"}
  /\ mSeeking \in BOOLEAN
  /\ mSeekState \in {VOID_PENDING, PAUSED, PLAYING}
  /\ mAsynchPreparePending \in BOOLEAN
  /\ mIsLooping \in BOOLEAN
  /\ sent \subseteq Events

\* The constructor has returned; GstPlayerPipeline() ignores what
\* create_pipeline() says, so that a player without a playbin2 or without a
\* bus thread is used like any other.
Init ==
  /\ PlayBinInit
  /\ mActionMutex = Nobody
  /\ pc = [t \in Threads |-> "idle"]
  /\ op = [t \in Threads |-> "none"]
  /\ \E created \in Creations :
       /\ mPlayBin = (created # "noplaybin")
       /\ mBusMessageThread = IF created = "ok" THEN "running" ELSE "none"
  /\ mSeeking = FALSE
  /\ mSeekState = VOID_PENDING
  /\ mAsynchPreparePending = FALSE
  /\ mIsLooping = FALSE
  /\ sent = {}

-----------------------------------------------------------------------------
(* The mutex and the calls *)

\* Mutant: the method does not take the mutex.
LocksNothing(t, o) == pc[t] = "called" /\ op[t] = o

\* LOCK(&mActionMutex), in method o.
Locks(t, o) ==
  /\ pc[t] = "called"
  /\ op[t] = o
  /\ mActionMutex = Nobody

\* The call of t is over, and owner has the mutex then.
EndsWith(t, owner) ==
  /\ mActionMutex' = owner
  /\ pc' = [pc EXCEPT ![t] = "idle"]
  /\ op' = [op EXCEPT ![t] = "none"]

\* EXIT: UNLOCK(&mActionMutex); return
Returns(t) == EndsWith(t, Nobody)

\* return false, without UNLOCK
ReturnsLocked(t) == EndsWith(t, t)

\* Mutant: the mutex is released for the wait.
WaitsUnlocked(t) ==
  /\ mActionMutex' = Nobody
  /\ pc' = [pc EXCEPT ![t] = "wait"]
  /\ UNCHANGED op

\* gst_element_get_state, under the mutex
Waits(t) ==
  /\ mActionMutex' = t
  /\ pc' = [pc EXCEPT ![t] = "wait"]
  /\ UNCHANGED op

\* gst_element_get_state returns to t, which is in method o.
Settles(t, o) ==
  /\ pc[t] = "wait"
  /\ op[t] = o
  /\ Settled

\* GstPlayer::setDataSource calls setAudioSink next.
SetsAudioSink(t) ==
  /\ op' = [op EXCEPT ![t] = "setAudioSink"]
  /\ UNCHANGED <<mActionMutex, pc>>

\* A client that follows the protocol makes one call at a time, prepares a
\* player that is stopped, and waits for a seek to end before it starts.
Allowed(o) ==
  /\ \A c \in Clients : pc[c] = "idle"
  /\ o \in {"prepare", "prepareAsync"} => state < PAUSED /\ Settled
  /\ o = "start" => ~mSeeking

\* The player is reference counted: it is deleted by its last user.
Call(c, o) ==
  /\ pc[c] = "idle"
  /\ \A d \in Clients : op[d] # "delete"
  /\ o = "delete" => \A d \in Clients : pc[d] = "idle"
  /\ o # "delete" => Len(bus) <= MaxBacklog
  /\ Careful => Allowed(o)
  /\ pc' = [pc EXCEPT ![c] = "called"]
  /\ op' = [op EXCEPT ![c] = o]
  /\ sent' = {}
  /\ UNCHANGED <<playBinVars, mActionMutex, requestVars, lifeVars, mIsLooping>>

-----------------------------------------------------------------------------
(* The sources and the sinks *)

SetDataSource(t) ==
  /\ Locks(t, "setDataSource")
  /\ \/ ~mPlayBin /\ ReturnsLocked(t)
     \/ mPlayBin /\ "url" \in BadInputs /\ ReturnsLocked(t)
     \/ mPlayBin /\ SetsAudioSink(t)
  /\ sent' = {}
  /\ UNCHANGED <<playBinVars, requestVars, lifeVars, mIsLooping>>

\* Does not take the mutex at all.
SetDataSourceFd(t) ==
  /\ pc[t] = "called"
  /\ op[t] = "setDataSourceFd"
  /\ \/ ~mPlayBin /\ EndsWith(t, mActionMutex)
     \/ mPlayBin /\ "fd" \in BadInputs /\ EndsWith(t, mActionMutex)
     \/ mPlayBin /\ SetsAudioSink(t)
  /\ sent' = {}
  /\ UNCHANGED <<playBinVars, requestVars, lifeVars, mIsLooping>>

SetAudioSink(t) ==
  /\ Locks(t, "setAudioSink")
  /\ \/ (~mPlayBin \/ "audiosink" \in BadInputs) /\ ReturnsLocked(t)
     \/ mPlayBin /\ Returns(t)
  /\ sent' = {}
  /\ UNCHANGED <<playBinVars, requestVars, lifeVars, mIsLooping>>

SetVideoSurface(t) ==
  /\ Locks(t, "setVideoSurface")
  /\ \/ (~mPlayBin \/ "surface" \in BadInputs) /\ ReturnsLocked(t)
     \/ mPlayBin /\ Returns(t)
  /\ sent' = {}
  /\ UNCHANGED <<playBinVars, requestVars, lifeVars, mIsLooping>>

-----------------------------------------------------------------------------
(* Playback.  A player without a playbin2 refuses each call. *)

Refuse(t, o) ==
  /\ Locks(t, o)
  /\ ~mPlayBin
  /\ Returns(t)
  /\ sent' = {}
  /\ UNCHANGED <<playBinVars, requestVars, lifeVars, mIsLooping>>

\* gst_element_set_state(mPlayBin, s), then gst_element_get_state if it says
\* ASYNC, as in prepare, start and pause.
ChangeState(t, s, ret) ==
  /\ mPlayBin
  /\ SetState(s, ret)
  /\ IF ret = "ASYNC" THEN Waits(t) ELSE Returns(t)

Prepare(t) ==
  /\ Locks(t, "prepare")
  /\ \E ret \in {"SUCCESS", "ASYNC", "FAILURE"} :
       /\ ChangeState(t, PAUSED, ret)
       /\ sent' = IF ret = "SUCCESS" THEN {"MEDIA_PREPARED"} ELSE {}
  /\ UNCHANGED <<requestVars, lifeVars, mIsLooping>>

\* Mutant: what gst_element_get_state says is not looked at.
PrepareSettledUnchecked(t) ==
  /\ Settles(t, "prepare")
  /\ sent' = {"MEDIA_PREPARED"}
  /\ Returns(t)
  /\ UNCHANGED <<playBinVars, requestVars, lifeVars, mIsLooping>>

\* A change that has failed makes gst_element_get_state fail as well.
PrepareSettled(t) ==
  /\ Settles(t, "prepare")
  /\ \/ failed /\ sent' = {}
     \/ sent' = IF state = PAUSED THEN {"MEDIA_PREPARED"} ELSE {}
  /\ Returns(t)
  /\ UNCHANGED <<playBinVars, requestVars, lifeVars, mIsLooping>>

PrepareAsync(t) ==
  /\ Locks(t, "prepareAsync")
  /\ mPlayBin
  /\ \E ret \in {"SUCCESS", "ASYNC", "FAILURE"} :
       /\ SetState(PAUSED, ret)
       /\ mAsynchPreparePending' = (mAsynchPreparePending \/ ret # "FAILURE")
  /\ Returns(t)
  /\ sent' = {}
  /\ UNCHANGED <<seekVars, lifeVars, mIsLooping>>

Start(t) ==
  /\ Locks(t, "start")
  /\ \E ret \in {"SUCCESS", "ASYNC", "FAILURE"} : ChangeState(t, PLAYING, ret)
  /\ sent' = {}
  /\ UNCHANGED <<requestVars, lifeVars, mIsLooping>>

\* Mutant: pause() leaves the seek alone.
SeekStateKept == mSeekState

\* "Pause in seeking, switch seek pending state to pause"
SeekStateOnPause == IF mSeeking THEN PAUSED ELSE mSeekState

Pause(t) ==
  /\ Locks(t, "pause")
  /\ \E ret \in {"SUCCESS", "ASYNC", "FAILURE"} : ChangeState(t, PAUSED, ret)
  /\ mSeekState' = SeekStateOnPause
  /\ sent' = {}
  /\ UNCHANGED <<mSeeking, mAsynchPreparePending, lifeVars, mIsLooping>>

\* Mutant: a failure returns before the UNLOCK.
CallSettledEarlyReturn(t) ==
  /\ \E o \in {"start", "pause", "isPlaying"} : Settles(t, o)
  /\ IF failed THEN ReturnsLocked(t) ELSE Returns(t)
  /\ sent' = {}
  /\ UNCHANGED <<playBinVars, requestVars, lifeVars, mIsLooping>>

\* start() and pause() return what gst_element_get_state said; isPlaying() its
\* answer.
CallSettled(t) ==
  /\ \E o \in {"start", "pause", "isPlaying"} : Settles(t, o)
  /\ Returns(t)
  /\ sent' = {}
  /\ UNCHANGED <<playBinVars, requestVars, lifeVars, mIsLooping>>

\* Also reset().  READY is reached without waiting.
Stop(t) ==
  /\ Locks(t, "stop")
  /\ mPlayBin
  /\ \/ /\ SetReady("SUCCESS")
        /\ sent' = IF mSeeking THEN {"MEDIA_SEEK_COMPLETE"} ELSE {}
        /\ mSeeking' = FALSE
        /\ mSeekState' = VOID_PENDING
        /\ mAsynchPreparePending' = FALSE
     \/ /\ SetReady("FAILURE")
        /\ sent' = {}
        /\ UNCHANGED requestVars
  /\ Returns(t)
  /\ UNCHANGED <<lifeVars, mIsLooping>>

\* isPlaying() and seekTo() first wait for the state to be stable.
WaitForStableState(t) ==
  /\ \E o \in {"isPlaying", "seekTo"} : Locks(t, o)
  /\ mPlayBin
  /\ Waits(t)
  /\ sent' = {}
  /\ UNCHANGED <<playBinVars, requestVars, lifeVars, mIsLooping>>

\* Mutant: any seek counts as playing.
PlayingAnswerInSeek == state = PLAYING \/ mSeeking

\* The answer of isPlaying() once the state is stable.
PlayingAnswer == state = PLAYING \/ (mSeeking /\ mSeekState = PLAYING)

\* Mutant: a seek that is refused is recorded like one that is not.
SeekToSettledUnchecked(t) ==
  /\ Settles(t, "seekTo")
  /\ FlushingSeek \/ UNCHANGED playBinVars
  /\ mSeeking' = TRUE
  /\ mSeekState' = state
  /\ Returns(t)
  /\ sent' = {}
  /\ UNCHANGED <<mAsynchPreparePending, lifeVars, mIsLooping>>

\* playbin2 may refuse to seek.
SeekToSettled(t) ==
  /\ Settles(t, "seekTo")
  /\ \/ /\ FlushingSeek
        /\ mSeeking' = TRUE
        /\ mSeekState' = state
     \/ UNCHANGED <<playBinVars, seekVars>>
  /\ Returns(t)
  /\ sent' = {}
  /\ UNCHANGED <<mAsynchPreparePending, lifeVars, mIsLooping>>

\* getCurrentPosition(), getDuration()
Query(t) ==
  /\ Locks(t, "query")
  /\ Returns(t)
  /\ sent' = {}
  /\ UNCHANGED <<playBinVars, requestVars, lifeVars, mIsLooping>>

SetLooping(t) ==
  /\ Locks(t, "setLooping")
  /\ mIsLooping' \in BOOLEAN
  /\ Returns(t)
  /\ sent' = {}
  /\ UNCHANGED <<playBinVars, requestVars, lifeVars>>

-----------------------------------------------------------------------------
(* ~GstPlayerPipeline() *)

\* Mutant: the mutex is kept over g_thread_join.
DeleteLocked(t) ==
  /\ Locks(t, "delete")
  /\ mActionMutex' = t
  /\ pc' = [pc EXCEPT ![t] = "join"]
  /\ IF mBusMessageThread = "running" THEN Post(PlainMsg("application"))
                                      ELSE UNCHANGED bus
  /\ sent' = {}
  /\ UNCHANGED <<stableVars, op, requestVars, lifeVars, mIsLooping>>

\* Up to g_thread_join.  The mutex is released: bus_callback needs it to
\* process the QUIT message.  (A player without a playbin2 has no bus thread
\* either, and its last user alone: it goes straight through.)
Delete(t) ==
  /\ Locks(t, "delete")
  /\ pc' = [pc EXCEPT ![t] = "join"]
  /\ IF mBusMessageThread = "running" THEN Post(PlainMsg("application"))
                                      ELSE UNCHANGED bus
  /\ sent' = {}
  /\ UNCHANGED <<stableVars, mActionMutex, op, requestVars, lifeVars, mIsLooping>>

\* Mutant: the bus thread is not waited for.
NotJoined == TRUE

BusThreadJoined == mBusMessageThread # "running"

\* From g_thread_join on: the mutex again, playbin2 to NULL, everything freed.
DeleteJoined(t) ==
  /\ pc[t] = "join"
  /\ BusThreadJoined
  /\ mActionMutex = Nobody
  /\ pc' = [pc EXCEPT ![t] = "dead"]
  /\ SetNull
  /\ mPlayBin' = FALSE
  /\ mBusMessageThread' = IF mBusMessageThread = "exited" THEN "none" ELSE mBusMessageThread
  /\ mSeeking' = FALSE
  /\ mSeekState' = VOID_PENDING
  /\ mAsynchPreparePending' = FALSE
  /\ sent' = {}
  /\ UNCHANGED <<mActionMutex, op, mIsLooping>>

-----------------------------------------------------------------------------
(* bus_callback, in the bus thread: one message, under the mutex *)

BusCallback(type) ==
  /\ mBusMessageThread = "running"
  /\ pc[BusThread] = "idle"
  /\ mActionMutex = Nobody
  /\ bus # <<>>
  /\ Head(bus).type = type
  /\ bus' = Tail(bus)
  /\ UNCHANGED <<stableVars, mPlayBin, mIsLooping>>

\* With mIsLooping the handler calls start(), which asks for the mutex that
\* bus_callback owns.
HandleEos ==
  /\ BusCallback("eos")
  /\ IF mIsLooping
       THEN /\ mActionMutex' = BusThread
            /\ pc' = [pc EXCEPT ![BusThread] = "called"]
            /\ op' = [op EXCEPT ![BusThread] = "start"]
            /\ sent' = {}
       ELSE /\ sent' = {"MEDIA_PLAYBACK_COMPLETE"}
            /\ UNCHANGED lockVars
  /\ UNCHANGED <<requestVars, mBusMessageThread>>

\* Mutant: an error ends the main loop.
HandleErrorQuits ==
  /\ BusCallback("error")
  /\ mBusMessageThread' = "exited"
  /\ sent' = {"MEDIA_ERROR"}
  /\ UNCHANGED <<lockVars, requestVars>>

HandleError ==
  /\ BusCallback("error")
  /\ sent' = {"MEDIA_ERROR"}
  /\ UNCHANGED <<lockVars, requestVars, mBusMessageThread>>

HandleBuffering ==
  /\ BusCallback("buffering")
  /\ sent' = {"MEDIA_BUFFERING_UPDATE"}
  /\ UNCHANGED <<lockVars, requestVars, mBusMessageThread>>

\* Mutant: a pipeline on its way to PLAYING does not count.
PrepareDoneIdle(m) ==
  /\ m.type = "state-changed"
  /\ m.fromPlayBin
  /\ m.new = PAUSED
  /\ m.pending = VOID_PENDING

\* Message m ends the prepareAsync() that is pending.
PrepareDone(m) ==
  /\ m.type = "state-changed"
  /\ m.fromPlayBin
  /\ m.new = PAUSED
  /\ m.pending \in {VOID_PENDING, PLAYING}

\* Mutant: every seek is taken to end in PLAYING.
SeekDonePlaying(m) ==
  /\ m.type = "state-changed"
  /\ m.fromPlayBin
  /\ m.new = PLAYING
  /\ m.pending = VOID_PENDING

\* Message m ends the seek that is pending.
SeekDone(m) ==
  /\ m.type = "state-changed"
  /\ m.fromPlayBin
  /\ m.new = mSeekState
  /\ m.pending = VOID_PENDING

HandleStateChanged ==
  /\ BusCallback("state-changed")
  /\ LET prepared == mAsynchPreparePending /\ PrepareDone(Head(bus))
         sought   == mSeeking /\ SeekDone(Head(bus))
     IN  /\ mAsynchPreparePending' = (mAsynchPreparePending /\ ~prepared)
         /\ mSeeking' = (mSeeking /\ ~sought)
         /\ mSeekState' = IF sought THEN VOID_PENDING ELSE mSeekState
         /\ sent' = {e \in {"MEDIA_PREPARED", "MEDIA_SEEK_COMPLETE"} :
                       IF e = "MEDIA_PREPARED" THEN prepared ELSE sought}
  /\ UNCHANGED <<lockVars, mBusMessageThread>>

\* MSG_QUIT_MAINLOOP: the main loop, and with it the thread, ends.
HandleApplication ==
  /\ BusCallback("application")
  /\ mBusMessageThread' = "exited"
  /\ sent' = {}
  /\ UNCHANGED <<lockVars, requestVars>>

\* handleTag, handleAsyncDone, handleSegmentDone, handleDuration and
\* handleElement only log.
HandleOther ==
  /\ BusCallback("other")
  /\ sent' = {}
  /\ UNCHANGED <<lockVars, requestVars, mBusMessageThread>>

BusStep == \/ HandleEos
           \/ HandleError
           \/ HandleBuffering
           \/ HandleStateChanged
           \/ HandleApplication
           \/ HandleOther

-----------------------------------------------------------------------------
(* playbin2 on its own *)

PrerollEnds ==
  /\ Preroll \/ PrerollFails
  /\ sent' = {}
  /\ UNCHANGED <<lockVars, requestVars, lifeVars, mIsLooping>>

\* The messages no call has to wait for stop at the bound.
PlayBinPosts ==
  /\ Len(bus) < MaxBacklog
  /\ ChildPauses \/ ReachEos \/ (\E type \in Announced : Announce(type))
  /\ sent' = {}
  /\ UNCHANGED <<lockVars, requestVars, lifeVars, mIsLooping>>

-----------------------------------------------------------------------------
Deleted == \E c \in Clients : pc[c] = "dead"

\* Nothing is left to run.
Terminated == Deleted /\ UNCHANGED vars

\* t, in a call, has the mutex and runs.
Runs(t) ==
  \/ SetDataSource(t) \/ SetDataSourceFd(t) \/ SetAudioSink(t) \/ SetVideoSurface(t)
  \/ \E o \in {"prepare", "prepareAsync", "start", "stop", "pause", "isPlaying", "seekTo"} :
       Refuse(t, o)
  \/ Prepare(t) \/ PrepareAsync(t) \/ Start(t) \/ Pause(t) \/ Stop(t)
  \/ WaitForStableState(t) \/ Query(t) \/ SetLooping(t)
  \/ Delete(t)

\* t, in a call, was waiting for playbin2 and goes on.
GoesOn(t) == PrepareSettled(t) \/ CallSettled(t) \/ SeekToSettled(t)

Next ==
  \/ \E c \in Clients, o \in Ops : Call(c, o)
  \/ \E t \in Threads : Runs(t) \/ GoesOn(t)
  \/ \E c \in Clients : DeleteJoined(c)
  \/ BusStep
  \/ PrerollEnds
  \/ PlayBinPosts
  \/ Terminated

\* playbin2 finishes or gives up what it has begun; a thread whose wait is over
\* runs; a thread that can have the mutex again and again gets it.  Nobody
\* need make a call.
Fairness ==
  /\ WF_vars(PrerollEnds)
  /\ \A t \in Threads : SF_vars(Runs(t)) /\ WF_vars(GoesOn(t))
  /\ \A c \in Clients : SF_vars(DeleteJoined(c))
  /\ SF_vars(BusStep)

Spec == Init /\ [][Next]_vars
FairSpec == Spec /\ Fairness

-----------------------------------------------------------------------------
(* Properties *)

\* The state the pipeline is in, or will be in if nothing fails.
GoalState == IF Settled THEN state ELSE target

\* A seek that waits to be reported will be: the pipeline is in, or on its way
\* to, the state that handleStateChanged waits for, and once it is there the
\* message that announces it is still on the bus.  pause() in a seek has to
\* move mSeekState along for this.
SeekHasWitness ==
  mSeeking /\ ~failed =>
    /\ GoalState = mSeekState
    /\ Settled => \E i \in DOMAIN bus : SeekDone(bus[i])

\* The same for prepareAsync(), whichever state the client asks for while it is
\* pending.
PrepareHasWitness ==
  mAsynchPreparePending /\ ~failed /\ Settled =>
    \E i \in DOMAIN bus : PrepareDone(bus[i])

\* What isPlaying() answers, which also looks at a seek that is not reported
\* yet, is whether the pipeline plays.
IsPlayingAgrees ==
  \A t \in Threads :
    Settles(t, "isPlaying") /\ ~failed => (PlayingAnswer <=> state = PLAYING)

\* A client that waits in prepare(), pause() or start() waits for the state it
\* asked for: no other call sends the pipeline elsewhere meanwhile.
WaitersGetTheirState ==
  \A t \in Threads :
    pc[t] = "wait" /\ ~failed =>
      /\ op[t] \in {"prepare", "pause"} => GoalState = PAUSED
      /\ op[t] = "start" => GoalState = PLAYING

\* Between two calls the mutex is free: only a call that waits for playbin2
\* keeps it.
MutexIsReleased == mActionMutex # Nobody => pc[mActionMutex] = "wait"

\* Once the destructor has freed the player, its bus thread is gone, nobody is
\* in a call, and no message is left to be delivered to it.
NoUseAfterFree ==
  Deleted => /\ mBusMessageThread = "none"
             /\ bus = <<>>
             /\ \A t \in Threads : pc[t] \in {"idle", "dead"}

\* What a destructor in g_thread_join waits for can happen: the QUIT message is
\* still on the bus, or has been handled, and the mutex that bus_callback needs is
\* free, unless the bus thread itself has it in a start() that plays again.
JoinCanEnd ==
  \A c \in Clients :
    pc[c] = "join" =>
      /\ mBusMessageThread = "running" => \E i \in 1..Len(bus) : bus[i] = PlainMsg("application")
      /\ mActionMutex = Nobody \/ (mActionMutex = BusThread /\ mIsLooping)

\* The bus keeps what Mailboxes promises: bus_callback gets the messages one at a
\* time, in order, and never while a call has the mutex; QUIT, and all before it,
\* are handled before the player is freed.
Life ==
  IF Deleted THEN "closed"
             ELSE IF \E c \in Clients : pc[c] = "join" THEN "closing" ELSE "open"

Held ==
  CASE mActionMutex = Nobody -> "free"
    [] mActionMutex = BusThread -> "handler"
    [] OTHER -> "call"

Mail == INSTANCE Mailboxes WITH Players <- {"player"},
                                phase   <- [p \in {"player"} |-> Life],
                                held    <- [p \in {"player"} |-> Held],
                                queue   <- [p \in {"player"} |-> bus],
                                inHand  <- [p \in {"player"} |-> <<>>],
                                broken  <- FALSE,
                                Last    <- PlainMsg("application")
MailSpec == Mail!Spec

\* Each message of a player that lives is handled, if its mutex is free again.
MailServed == Mail!Fairness

\* Nobody but its owner releases the mutex, and its owner only after waiting for
\* playbin2: the UNLOCK in delete_pipeline never takes it from a call, and a
\* mutex that a return or a nested start() has left locked stays locked.
OnlyTheOwnerUnlocks ==
  [][mActionMutex # Nobody /\ mActionMutex' # mActionMutex =>
       /\ pc[mActionMutex] = "wait"
       /\ pc'[mActionMutex] = "idle"
       /\ mActionMutex' = Nobody]_vars

\* MEDIA_PREPARED is sent about a pipeline that has been prepared.
PreparedMeansPaused ==
  [][("MEDIA_PREPARED" \in sent' => state' >= PAUSED)]_vars

\* Each seek the player has accepted is reported, unless playbin2 fails.
SeekAnswered == mSeeking ~> ~mSeeking \/ failed

\* Each prepareAsync() is reported, unless playbin2 fails or a stop(), or the
\* destructor, takes it back: a stop() before the report drops the request, which
\* its warning ("mAsynchPreparePending shall not be true!") takes for impossible.
PrepareAnswered ==
  mAsynchPreparePending ~>
    \/ "MEDIA_PREPARED" \in sent
    \/ failed
    \/ ~mAsynchPreparePending /\ state < PAUSED

\* Every call returns.
CallsReturn ==
  \A c \in Clients : pc[c] \in {"called", "wait"} ~> pc[c] \in {"idle", "join", "dead"}

\* The destructor comes to its end: the bus thread gets the mutex, works through
\* its backlog up to the QUIT message, and is joined.
DeleteTerminates == (\E c \in Clients : op[c] = "delete") ~> Deleted

\* The start() that handleEos calls to play again gets to run.
LoopStartsAgain == pc[BusThread] = "called" ~> pc[BusThread] # "called"
=============================================================================

------------------------------- MODULE PlayBin -------------------------------
(***************************************************************************)
(* The playbin2 element and its message bus, as the player uses them.      *)
(* GStreamer is not part of this repository: the operators below say what  *)
(* gst_element_set_state, gst_element_get_state and                        *)
(* gst_element_seek_simple do as far as player/GstPlayerPipeline.cpp can   *)
(* tell.  An upward change and a flushing seek finish asynchronously, when *)
(* the streaming threads have prerolled; every change of state is          *)
(* announced on the bus, in order, by a message carrying the new state and *)
(* the state still pending.                                                *)
(***************************************************************************)
EXTENDS Naturals, Sequences

\* enum GstState
VOID_PENDING == 0
NULL         == 1
READY        == 2
PAUSED       == 3
PLAYING      == 4

MsgTypes == {"state-changed", "eos", "error", "buffering", "application", "other"}

\* fromPlayBin: the source of the message is the pipeline itself and not one
\* of the elements inside it, whose messages travel on the same bus.
Msg == [type : MsgTypes, fromPlayBin : BOOLEAN,
        new : VOID_PENDING..PLAYING, pending : VOID_PENDING..PLAYING]

StateMsg(new, pending) == [type |-> "state-changed", fromPlayBin |-> TRUE,
                           new |-> new, pending |-> pending]

PlainMsg(type) == [type |-> type, fromPlayBin |-> TRUE,
                   new |-> VOID_PENDING, pending |-> VOID_PENDING]

ChildMsg == [StateMsg(PAUSED, VOID_PENDING) EXCEPT !.fromPlayBin = FALSE]

VARIABLES state,   \* the current state of the pipeline
          target,  \* where an unfinished change is going, else VOID_PENDING
          failed,  \* a change of state has failed since the pipeline was READY
          atEos,   \* the stream has run out and nothing has rewound it
          bus      \* the messages bus_callback has not been given yet

playBinVars == <<state, target, failed, atEos, bus>>

PlayBinTypeOK ==
  /\ state \in NULL..PLAYING
  /\ target \in {VOID_PENDING, PAUSED, PLAYING}
  /\ failed \in BOOLEAN
  /\ atEos \in BOOLEAN
  /\ bus \in Seq(Msg)

PlayBinInit ==
  /\ state = NULL
  /\ target = VOID_PENDING
  /\ failed = FALSE
  /\ atEos = FALSE
  /\ bus = <<>>

Post(m) == bus' = Append(bus, m)

-----------------------------------------------------------------------------
(* gst_element_set_state(mPlayBin, s), for s = PAUSED or PLAYING; ret is the
   GstStateChangeReturn the caller gets. *)

\* From NULL or READY the elements are opened, and then have to preroll.
Open(s, ret) ==
  /\ state < PAUSED
  /\ target = VOID_PENDING
  /\ ret = "ASYNC"
  /\ state' = READY
  /\ target' = s
  /\ IF state = NULL THEN Post(StateMsg(READY, s)) ELSE UNCHANGED bus
  /\ UNCHANGED <<failed, atEos>>

\* No data source, a codec or a sink that cannot be opened.
OpenFails(ret) ==
  /\ state < PAUSED
  /\ target = VOID_PENDING
  /\ ret = "FAILURE"
  /\ failed' = TRUE
  /\ Post(PlainMsg("error"))
  /\ UNCHANGED <<state, target, atEos>>

\* A change is already under way: only its destination is updated.
Retarget(s, ret) ==
  /\ target # VOID_PENDING
  /\ ret = "ASYNC"
  /\ target' = s
  /\ UNCHANGED <<state, failed, atEos, bus>>

\* Nothing to do, and then nothing is posted either.
StayIn(s, ret) ==
  /\ target = VOID_PENDING
  /\ state = s
  /\ ret = "SUCCESS"
  /\ UNCHANGED playBinVars

\* Between PAUSED and PLAYING.
Switch(s, ret) ==
  /\ target = VOID_PENDING
  /\ {state, s} = {PAUSED, PLAYING}
  /\ ret = "SUCCESS"
  /\ state' = s
  /\ Post(StateMsg(s, VOID_PENDING))
  /\ UNCHANGED <<target, failed, atEos>>

\* A sink that holds no buffer has to preroll again to be PAUSED.
PauseAsync(s, ret) ==
  /\ target = VOID_PENDING
  /\ state = PLAYING
  /\ s = PAUSED
  /\ ret = "ASYNC"
  /\ target' = PAUSED
  /\ UNCHANGED <<state, failed, atEos, bus>>

SetState(s, ret) ==
  \/ Open(s, ret)
  \/ OpenFails(ret)
  \/ Retarget(s, ret)
  \/ StayIn(s, ret)
  \/ Switch(s, ret)
  \/ PauseAsync(s, ret)

\* gst_element_set_state(mPlayBin, GST_STATE_READY): synchronous, abandons a
\* change under way.
SetReady(ret) ==
  \/ /\ ret = "SUCCESS"
     /\ state' = READY
     /\ target' = VOID_PENDING
     /\ failed' = FALSE
     /\ atEos' = FALSE
     /\ bus' = CASE state = PLAYING ->
                      bus \o <<StateMsg(PAUSED, READY), StateMsg(READY, VOID_PENDING)>>
                 [] state = READY /\ target = VOID_PENDING -> bus
                 [] OTHER -> Append(bus, StateMsg(READY, VOID_PENDING))
  \/ /\ ret = "FAILURE"
     /\ target' = VOID_PENDING
     /\ failed' = TRUE
     /\ Post(PlainMsg("error"))
     /\ UNCHANGED <<state, atEos>>

\* gst_element_set_state(mPlayBin, GST_STATE_NULL): also flushes the bus.
SetNull ==
  /\ state' = NULL
  /\ target' = VOID_PENDING
  /\ failed' = FALSE
  /\ atEos' = FALSE
  /\ bus' = <<>>

\* gst_element_get_state(.., GST_CLOCK_TIME_NONE) returns.
Settled == target = VOID_PENDING

\* gst_element_seek_simple with GST_SEEK_FLAG_FLUSH on a settled pipeline that
\* accepts it: the sinks lose their preroll, and the pipeline drops to PAUSED
\* until it is back in the state it was in.
FlushingSeek ==
  /\ state >= PAUSED
  /\ state' = PAUSED
  /\ target' = state
  /\ atEos' = FALSE
  /\ Post(StateMsg(PAUSED, PAUSED))
  /\ UNCHANGED failed

-----------------------------------------------------------------------------
(* What the streaming threads do on their own. *)

\* The sinks have data: the change completes, and is announced.
Preroll ==
  /\ target # VOID_PENDING
  /\ state' = target
  /\ target' = VOID_PENDING
  /\ bus' = IF target = PAUSED
              THEN Append(bus, StateMsg(PAUSED, VOID_PENDING))
              ELSE bus \o <<StateMsg(PAUSED, PLAYING), StateMsg(PLAYING, VOID_PENDING)>>
  /\ UNCHANGED <<failed, atEos>>

\* The data cannot be decoded: the change is given up, and an error posted.
PrerollFails ==
  /\ target # VOID_PENDING
  /\ target' = VOID_PENDING
  /\ failed' = TRUE
  /\ Post(PlainMsg("error"))
  /\ UNCHANGED <<state, atEos>>

\* An element inside the pipeline announces that it is PAUSED.
ChildPauses ==
  /\ target # VOID_PENDING
  /\ Post(ChildMsg)
  /\ UNCHANGED <<state, target, failed, atEos>>

\* The sinks have rendered the last buffer.
ReachEos ==
  /\ state = PLAYING
  /\ Settled
  /\ ~atEos
  /\ atEos' = TRUE
  /\ Post(PlainMsg("eos"))
  /\ UNCHANGED <<state, target, failed>>

\* A decoding error, or tags, buffering, duration, ... while data flows.
Announce(type) ==
  /\ state >= PAUSED
  /\ Post(PlainMsg(type))
  /\ UNCHANGED <<state, target, failed, atEos>>
=============================================================================

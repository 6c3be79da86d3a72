--------------------------- MODULE PlayBinProofs ---------------------------
(* What the operators of PlayBin preserve, for the proofs about the player. *)
EXTENDS PlayBin, TLAPS

\* The messages playbin2 and the player post are messages.
LEMMA MessageTypes ==
  /\ \A new, pending \in VOID_PENDING..PLAYING : StateMsg(new, pending) \in Msg
  /\ \A type \in MsgTypes : PlainMsg(type) \in Msg
  /\ ChildMsg \in Msg
<1> USE DEF Msg, MsgTypes, VOID_PENDING, PAUSED, PLAYING
<1>1. \A new, pending \in VOID_PENDING..PLAYING : StateMsg(new, pending) \in Msg
  BY DEF StateMsg
<1>2. \A type \in MsgTypes : PlainMsg(type) \in Msg
  BY DEF PlainMsg
<1>3. ChildMsg \in Msg
  <2>1. StateMsg(PAUSED, VOID_PENDING) \in Msg
    BY <1>1
  <2> QED BY <2>1 DEF ChildMsg
<1> QED BY <1>1, <1>2, <1>3

\* Posting one message, or two, leaves a sequence of messages.
LEMMA PostType ==
  ASSUME NEW b \in Seq(Msg), NEW m \in Msg, NEW n \in Msg
  PROVE  Append(b, m) \in Seq(Msg) /\ b \o <<m, n>> \in Seq(Msg)
  OBVIOUS

\* gst_element_set_state to PAUSED or PLAYING keeps the types.
LEMMA SetStateType ==
  ASSUME PlayBinTypeOK, NEW s \in {PAUSED, PLAYING}, NEW ret, SetState(s, ret)
  PROVE  PlayBinTypeOK'
<1> USE MessageTypes, PostType
    DEF PlayBinTypeOK, Post, NULL, READY, PAUSED, PLAYING, VOID_PENDING, MsgTypes
<1>1. CASE Open(s, ret)
  BY <1>1 DEF Open
<1>2. CASE OpenFails(ret)
  BY <1>2 DEF OpenFails
<1>3. CASE Retarget(s, ret)
  BY <1>3 DEF Retarget
<1>4. CASE StayIn(s, ret)
  BY <1>4 DEF StayIn, playBinVars
<1>5. CASE Switch(s, ret)
  BY <1>5 DEF Switch
<1>6. CASE PauseAsync(s, ret)
  BY <1>6 DEF PauseAsync
<1> QED BY <1>1, <1>2, <1>3, <1>4, <1>5, <1>6 DEF SetState

\* So do the changes to READY and NULL, and a seek.
LEMMA SetReadyType ==
  ASSUME PlayBinTypeOK, NEW ret, SetReady(ret)
  PROVE  PlayBinTypeOK'
<1> USE DEF PlayBinTypeOK, NULL, READY, PAUSED, PLAYING, VOID_PENDING
<1>1. CASE ret = "SUCCESS"
  <2>1. /\ state' = READY
        /\ target' = VOID_PENDING
        /\ failed' = FALSE
        /\ atEos' = FALSE
    BY <1>1 DEF SetReady
  <2>2. StateMsg(PAUSED, READY) \in Msg /\ StateMsg(READY, VOID_PENDING) \in Msg
    BY MessageTypes
  <2>3. \/ bus' = bus
        \/ bus' = Append(bus, StateMsg(READY, VOID_PENDING))
        \/ bus' = bus \o <<StateMsg(PAUSED, READY), StateMsg(READY, VOID_PENDING)>>
    BY <1>1 DEF SetReady
  <2>4. bus' \in Seq(Msg)
    BY <2>2, <2>3, PostType
  <2>5. state' \in NULL..PLAYING /\ target' \in {VOID_PENDING, PAUSED, PLAYING}
    BY <2>1
  <2>6. failed' \in BOOLEAN /\ atEos' \in BOOLEAN
    BY <2>1, Zenon
  <2> QED BY <2>4, <2>5, <2>6
<1>2. CASE ret # "SUCCESS"
  <2>1. PlainMsg("error") \in Msg
    BY MessageTypes DEF MsgTypes
  <2> QED BY <1>2, <2>1, PostType DEF SetReady, Post
<1> QED BY <1>1, <1>2

LEMMA SetNullType ==
  ASSUME PlayBinTypeOK, SetNull
  PROVE  PlayBinTypeOK'
<1> USE DEF SetNull, PlayBinTypeOK, NULL, READY, PAUSED, PLAYING, VOID_PENDING
<1>1. state' \in NULL..PLAYING /\ target' \in {VOID_PENDING, PAUSED, PLAYING}
  OBVIOUS
<1>2. failed' \in BOOLEAN /\ atEos' \in BOOLEAN
  BY Zenon
<1>3. bus' \in Seq(Msg)
  OBVIOUS
<1> QED BY <1>1, <1>2, <1>3

LEMMA FlushingSeekType ==
  ASSUME PlayBinTypeOK, FlushingSeek
  PROVE  PlayBinTypeOK'
<1> USE DEF FlushingSeek, PlayBinTypeOK, NULL, READY, PAUSED, PLAYING, VOID_PENDING
<1>1. state' \in NULL..PLAYING /\ target' \in {VOID_PENDING, PAUSED, PLAYING}
  OBVIOUS
<1>2. failed' \in BOOLEAN /\ atEos' \in BOOLEAN
  BY Zenon
<1>3. StateMsg(PAUSED, PAUSED) \in Msg
  BY MessageTypes
<1>4. bus' \in Seq(Msg)
  BY <1>3, PostType DEF Post
<1> QED BY <1>1, <1>2, <1>4

\* And what the streaming threads do.
LEMMA StreamingType ==
  ASSUME PlayBinTypeOK,
         Preroll \/ PrerollFails \/ ChildPauses \/ ReachEos
           \/ (\E type \in MsgTypes : Announce(type))
  PROVE  PlayBinTypeOK'
<1> USE MessageTypes, PostType
    DEF PlayBinTypeOK, Post, NULL, READY, PAUSED, PLAYING, VOID_PENDING, MsgTypes
<1>1. CASE Preroll
  BY <1>1 DEF Preroll
<1>2. CASE PrerollFails
  BY <1>2 DEF PrerollFails
<1>3. CASE ChildPauses
  BY <1>3 DEF ChildPauses
<1>4. CASE ReachEos
  BY <1>4 DEF ReachEos
<1>5. ASSUME NEW type \in MsgTypes, Announce(type) PROVE PlayBinTypeOK'
  BY <1>5 DEF Announce
<1> QED BY <1>1, <1>2, <1>3, <1>4, <1>5
=============================================================================

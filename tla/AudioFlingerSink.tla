--------------------------- MODULE AudioFlingerSink ---------------------------
(***************************************************************************)
(* The audio sink, gstaudioflingersink.c, with the device it drives,       *)
(* audioflinger_wrapper.cpp: an AudioTrack of its own, or the AudioSink of *)
(* the media player service.                                               *)
(*                                                                         *)
(* Four threads meet in it: the one that changes the state, the streaming  *)
(* thread, which negotiates, the writer, which GstAudioSink makes for each *)
(* prepare and joins before each unprepare, and whoever sets a property.   *)
(* Only properties are set under a lock, which none of the others takes.   *)
(*                                                                         *)
(* Volumes are in hundredths.  Opening fails for want of memory only, and  *)
(* then changes nothing, so it does not fail here.                         *)
(***************************************************************************)
EXTENDS Integers

CONSTANTS Volumes,        \* the volumes somebody sets
          DEFAULT_VOLUME,
          SegSize,        \* bytes in a segment of the ring buffer
          MaxGuint,       \* what -1 is as a guint
          None

ASSUME VolumesAssumption == Volumes \subseteq Nat /\ DEFAULT_VOLUME \in Volumes
ASSUME SizesAssumption == SegSize \in Nat \ {0} /\ MaxGuint \in Nat /\ MaxGuint > SegSize

DEFAULT_MUTE == FALSE

VARIABLES
  state,                \* of the element
  change,               \* the part of a change of state that is left, or "none"
  prerolled,            \* the streaming thread waits for PLAYING
  streaming,            \* the part of setcaps that is left, or "none"
  heldVolume, heldMute, \* the argument prepare has read for its next call
  acquired,             \* the ring buffer is, and has its writer
  ring,                 \* the state of the ring buffer
  left,                 \* bytes of the segment that the writer has yet to write
  audioflinger_device,
  m_init, m_volume, m_mute, m_audiosink,
  property,             \* what set_property passes on to the device, or "none"
  percent,              \* the volume that it passes on
  raced,                \* it did so during the latest prepare
  output,               \* what an AudioTrack and the AudioSink do
  lost,                 \* it plays although a flush has taken PLAYING away
  formatChanges,        \* the stream changes its format while it plays
  released,             \* a device has been released
  crashed               \* the process has

stateVars  == <<state, change, prerolled>>
capsVars   == <<streaming, heldVolume, heldMute>>
ringVars   == <<acquired, ring, left>>
outputVars == <<output, lost>>
deviceVars == <<audioflinger_device, m_init, outputVars>>
propVars   == <<m_volume, m_mute, m_audiosink, property, percent, raced>>
otherVars  == <<formatChanges, released, crashed>>
vars == <<stateVars, capsVars, ringVars, deviceVars, propVars, otherVars>>

Kinds == {"track", "sink"}
Outputs == {"closed", "stopped", "started", "paused"}

\* set_property passes a volume on in percent.
PassedOn(v) == 100 * v

AllVolumes == Volumes \cup {PassedOn(v) : v \in Volumes}

\* An AudioTrack begins with volume 1.0.
Device == [kind : Kinds, init : BOOLEAN, freed : BOOLEAN,
           volume : AllVolumes \cup {100}, mute : BOOLEAN]

ASSUME NoneAssumption == None \notin Device

TypeOK ==
  /\ state \in {"null", "ready", "paused", "playing"}
  /\ change \in {"none", "start", "pause", "join", "close"}
  /\ prerolled \in BOOLEAN
  /\ streaming \in {"none", "join", "set", "volume", "mute"}
  /\ heldVolume \in AllVolumes /\ heldMute \in BOOLEAN
  /\ acquired \in BOOLEAN
  /\ ring \in {"started", "stopped"}
  /\ left \in 0..SegSize
  /\ audioflinger_device \in Device \cup {None}
  /\ m_init \in BOOLEAN
  /\ m_volume \in AllVolumes
  /\ m_mute \in BOOLEAN
  /\ m_audiosink \in {"none", "given"}
  /\ property \in {"none", "volume", "mute"}
  /\ percent \in AllVolumes
  /\ raced \in BOOLEAN
  /\ output \in [Kinds -> Outputs]
  /\ lost \in BOOLEAN
  /\ formatChanges \in BOOLEAN
  /\ released \in BOOLEAN
  /\ crashed \in BOOLEAN

Init ==
  /\ state = "null" /\ change = "none" /\ prerolled = FALSE
  /\ streaming = "none" /\ heldVolume = DEFAULT_VOLUME /\ heldMute = DEFAULT_MUTE
  /\ acquired = FALSE /\ ring = "stopped" /\ left = 0
  /\ audioflinger_device = None /\ m_init = FALSE
  /\ output = [k \in Kinds |-> "closed"] /\ lost = FALSE
  /\ m_volume = DEFAULT_VOLUME /\ m_mute = DEFAULT_MUTE /\ m_audiosink = "none"
  /\ property = "none" /\ percent = DEFAULT_VOLUME /\ raced = FALSE
  /\ formatChanges \in BOOLEAN
  /\ released = FALSE /\ crashed = FALSE

-----------------------------------------------------------------------------
(* The device *)

\* The first line of most functions of the device.
Usable == audioflinger_device # None /\ audioflinger_device.init

\* The output of the device does as it is told.
Turned(status) ==
  IF Usable THEN [output EXCEPT ![audioflinger_device.kind] = status] ELSE output

\* Mutant: the AudioSink is left to the media service in everything.
DeviceStartTrack(device) ==
  IF Usable /\ device.kind = "track" THEN Turned("started") ELSE output

DeviceStart(device) == Turned("started")
DeviceStop(device)  == Turned("stopped")
DevicePause(device) == Turned("paused")

\* The volume of the AudioSink is set in the media service.
WithVolume(v) ==
  IF Usable /\ audioflinger_device.kind = "track"
    THEN [audioflinger_device EXCEPT !.volume = v] ELSE audioflinger_device

WithMute(b) ==
  IF Usable /\ audioflinger_device.kind = "track"
    THEN [audioflinger_device EXCEPT !.mute = b] ELSE audioflinger_device

\* audioflinger_device_create, with an AudioTrack, and audioflinger_device_open
NewDevice(kind) ==
  [kind |-> kind, init |-> FALSE, freed |-> FALSE, volume |-> 100, mute |-> FALSE]

-----------------------------------------------------------------------------
(* Changes of state: NULL, READY *)

OpenDevice ==
  /\ ~crashed /\ change = "none"
  /\ state = "null" /\ state' = "ready"
  /\ audioflinger_device' = IF audioflinger_device # None THEN audioflinger_device
                            ELSE NewDevice(IF m_audiosink = "given" THEN "sink" ELSE "track")
  /\ UNCHANGED <<change, prerolled, capsVars, ringVars, m_init, outputVars, propVars, otherVars>>

\* The device is stopped and released; an AudioTrack is deleted with it.
CloseReleases ==
  /\ ~crashed /\ change = "none"
  /\ state = "ready"
  /\ change' = "close"
  /\ audioflinger_device' = [audioflinger_device EXCEPT !.freed = TRUE]
  /\ output' = [DeviceStop(audioflinger_device) EXCEPT !["track"] = "closed"]
  /\ lost' = FALSE
  /\ released' = TRUE
  /\ UNCHANGED <<state, prerolled, capsVars, ringVars, m_init, propVars, formatChanges, crashed>>

\* Then the pointer is forgotten.
CloseEnds ==
  /\ ~crashed /\ change = "close"
  /\ change' = "none" /\ state' = "null"
  /\ audioflinger_device' = None
  /\ UNCHANGED <<prerolled, capsVars, ringVars, m_init, outputVars, propVars, otherVars>>

\* gst_audioflinger_sink_reset, and the sink begins anew as another
Finalise ==
  /\ ~crashed /\ change = "none" /\ property = "none"
  /\ state = "null"
  /\ audioflinger_device' = None
  /\ m_volume' = DEFAULT_VOLUME
  /\ m_mute' = DEFAULT_MUTE
  /\ m_init' = FALSE
  /\ m_audiosink' = "none"
  /\ UNCHANGED <<stateVars, capsVars, ringVars, outputVars, property, percent, raced, otherVars>>

-----------------------------------------------------------------------------
(* Changes of state: PAUSED, PLAYING *)

ReadyToPaused ==
  /\ ~crashed /\ change = "none"
  /\ state = "ready" /\ state' = "paused"
  /\ prerolled' = FALSE
  /\ UNCHANGED <<change, capsVars, ringVars, deviceVars, propVars, otherVars>>

\* The streaming thread has a buffer, or the end of the stream.
Preroll ==
  /\ ~crashed /\ change = "none" /\ streaming = "none"
  /\ state = "paused" /\ ~prerolled
  /\ prerolled' = TRUE
  /\ UNCHANGED <<state, change, capsVars, ringVars, deviceVars, propVars, otherVars>>

\* A flushing seek in PAUSED sends the streaming thread on.
Flush ==
  /\ ~crashed /\ change = "none"
  /\ state = "paused" /\ prerolled
  /\ prerolled' = FALSE
  /\ UNCHANGED <<state, change, capsVars, ringVars, deviceVars, propVars, otherVars>>

\* In PLAYING it also takes the state back to PAUSED and stops the ring buffer,
\* not by way of change_state: the device is not paused.
FlushPlaying ==
  /\ ~crashed /\ change = "none"
  /\ state = "playing" /\ state' = "paused"
  /\ prerolled' = FALSE
  /\ ring' = "stopped"
  /\ lost' = (\E k \in Kinds : output[k] = "started")
  /\ UNCHANGED <<change, capsVars, acquired, left, audioflinger_device, m_init, output, propVars, otherVars>>

\* The device is started before the base class knows.
StartDevice ==
  /\ ~crashed /\ change = "none"
  /\ state = "paused" /\ prerolled
  /\ change' = "start"
  /\ output' = DeviceStart(audioflinger_device)
  /\ lost' = FALSE
  /\ UNCHANGED <<state, prerolled, capsVars, ringVars, audioflinger_device, m_init, propVars, otherVars>>

StartEnds ==
  /\ ~crashed /\ change = "start"
  /\ change' = "none" /\ state' = "playing"
  /\ UNCHANGED <<prerolled, capsVars, ringVars, deviceVars, propVars, otherVars>>

\* Mutant: pausing is left to the base class.
PauseBase ==
  /\ ~crashed /\ change = "none"
  /\ state = "playing"
  /\ change' = "pause"
  /\ UNCHANGED <<state, prerolled, capsVars, ringVars, deviceVars, propVars, otherVars>>

\* The device is paused before the ring buffer.
PauseDevice ==
  /\ ~crashed /\ change = "none"
  /\ state = "playing"
  /\ change' = "pause"
  /\ output' = DevicePause(audioflinger_device)
  /\ UNCHANGED <<state, prerolled, capsVars, ringVars, audioflinger_device, m_init, lost, propVars, otherVars>>

PauseEnds ==
  /\ ~crashed /\ change = "pause"
  /\ change' = "none" /\ state' = "paused"
  /\ prerolled' = FALSE
  /\ ring' = "stopped"
  /\ UNCHANGED <<capsVars, acquired, left, deviceVars, propVars, otherVars>>

\* Streaming has stopped.
PausedToReady ==
  /\ ~crashed /\ change = "none" /\ streaming = "none"
  /\ state = "paused"
  /\ change' = "join"
  /\ ring' = "stopped"
  /\ UNCHANGED <<state, prerolled, capsVars, acquired, left, deviceVars, propVars, otherVars>>

\* Mutant: m_init stays.
UnprepareInitialised ==
  /\ output' = DeviceStop(audioflinger_device)
  /\ lost' = FALSE
  /\ UNCHANGED <<audioflinger_device, m_init>>

Unprepare ==
  /\ output' = IF audioflinger_device # None THEN DeviceStop(audioflinger_device) ELSE output
  /\ m_init' = (m_init /\ audioflinger_device = None)
  /\ lost' = (lost /\ audioflinger_device = None)
  /\ UNCHANGED audioflinger_device

\* gst_ring_buffer_release: the writer has ended its segment and is joined.
Release ==
  /\ left = 0
  /\ acquired' = FALSE
  /\ IF acquired THEN Unprepare ELSE UNCHANGED deviceVars
  /\ UNCHANGED <<ring, left>>

PausedToReadyEnds ==
  /\ ~crashed /\ change = "join"
  /\ Release
  /\ change' = "none" /\ state' = "ready"
  /\ UNCHANGED <<prerolled, capsVars, propVars, otherVars>>

-----------------------------------------------------------------------------
(* setcaps, in the streaming thread *)

SetCaps ==
  /\ ~crashed /\ streaming = "none"
  /\ \/ state = "paused" /\ ~prerolled /\ change = "none"
     \/ state = "playing" /\ formatChanges
  /\ streaming' = "join"
  /\ ring' = "stopped"
  /\ UNCHANGED <<stateVars, heldVolume, heldMute, acquired, left, deviceVars, propVars, otherVars>>

SetCapsReleases ==
  /\ ~crashed /\ streaming = "join"
  /\ Release
  /\ streaming' = "set"
  /\ UNCHANGED <<stateVars, heldVolume, heldMute, propVars, otherVars>>

\* prepare, when audioflinger_device_set fails
PrepareFails ==
  /\ ~crashed /\ streaming = "set"
  /\ streaming' = "none"
  /\ UNCHANGED <<stateVars, heldVolume, heldMute, ringVars, deviceVars, propVars, otherVars>>

\* prepare: audioflinger_device_set, and m_volume is read
PrepareDevice ==
  /\ ~crashed /\ streaming = "set"
  /\ audioflinger_device # None
  /\ audioflinger_device' = [audioflinger_device EXCEPT !.init = TRUE]
  /\ output' = [output EXCEPT ![audioflinger_device.kind] = "stopped"]
  /\ lost' = FALSE
  /\ m_init' = TRUE
  /\ heldVolume' = m_volume
  /\ streaming' = "volume"
  /\ raced' = (property # "none")
  /\ UNCHANGED <<stateVars, heldMute, ringVars, m_volume, m_mute, m_audiosink, property, percent, otherVars>>

\* prepare, of a device that has been created after another was released; the
\* FIXME has seen it crash in audioflinger_device_set.
PrepareCrashes ==
  /\ ~crashed /\ streaming = "set"
  /\ audioflinger_device # None /\ released
  /\ crashed' = TRUE
  /\ UNCHANGED <<stateVars, capsVars, ringVars, deviceVars, propVars, formatChanges, released>>

\* Mutant: prepare scales as set_property does.
PreparedPercent(v) == 100 * v

\* gst_audioflinger_sink_set_volume (audioflinger, audioflinger->m_volume)
PreparedVolume(v) == v

\* Mutant: a volume is only passed on when it is set.
PrepareNoVolume ==
  /\ ~crashed /\ streaming = "volume"
  /\ heldMute' = m_mute
  /\ streaming' = "mute"
  /\ UNCHANGED <<stateVars, heldVolume, ringVars, deviceVars, propVars, otherVars>>

PrepareVolume ==
  /\ ~crashed /\ streaming = "volume"
  /\ audioflinger_device' = WithVolume(PreparedVolume(heldVolume))
  /\ m_volume' = PreparedVolume(heldVolume)
  /\ heldMute' = m_mute
  /\ streaming' = "mute"
  /\ UNCHANGED <<stateVars, heldVolume, ringVars, m_init, outputVars, m_mute, m_audiosink, property, percent, raced, otherVars>>

\* prepare returns, and the writer is made.
PrepareMute ==
  /\ ~crashed /\ streaming = "mute"
  /\ audioflinger_device' = WithMute(heldMute)
  /\ m_mute' = heldMute
  /\ output' = DevicePause(audioflinger_device)
  /\ lost' = FALSE
  /\ acquired' = TRUE
  /\ streaming' = "none"
  /\ UNCHANGED <<stateVars, heldVolume, heldMute, ring, left, m_init, m_volume, m_audiosink, property, percent, raced, otherVars>>

\* The streaming thread has filled a segment.
StartRing ==
  /\ ~crashed /\ streaming = "none"
  /\ acquired /\ state = "playing" /\ ring = "stopped"
  /\ ring' = "started"
  /\ UNCHANGED <<stateVars, capsVars, acquired, left, deviceVars, propVars, otherVars>>

-----------------------------------------------------------------------------
(* The writer *)

PrepareRead ==
  /\ ~crashed /\ acquired /\ ring = "started" /\ left = 0
  /\ left' = SegSize
  /\ UNCHANGED <<stateVars, capsVars, acquired, ring, deviceVars, propVars, otherVars>>

\* What audioflinger_device_write returns, if the output returns r.
DeviceWrite(r) == IF Usable THEN r ELSE -1

AsGuint(r) == IF r = -1 THEN MaxGuint ELSE r

\* Mutant: nothing written is nothing written.
WrittenZero(r, length) ==
  IF audioflinger_device = None \/ ~m_init THEN length ELSE AsGuint(DeviceWrite(r))

\* gst_audioflinger_sink_write
Written(r, length) ==
  IF audioflinger_device = None \/ ~m_init \/ DeviceWrite(r) = 0
    THEN length
    ELSE AsGuint(DeviceWrite(r))

\* What it returns is taken off, or the rest of the segment skipped if that is
\* too much.
Write(r) ==
  /\ ~crashed /\ left > 0
  /\ left' = IF Written(r, left) > left THEN 0 ELSE left - Written(r, left)
  /\ UNCHANGED <<stateVars, capsVars, acquired, ring, deviceVars, propVars, otherVars>>

\* An output that plays takes something, or fails; one that does not is full.
Taken ==
  IF Usable /\ output[audioflinger_device.kind] = "started" THEN -1..left ELSE {0}

WriteSome == \E r \in Taken : Write(r)

-----------------------------------------------------------------------------
(* Properties: stored, and then passed on if the device is initialised *)

SetVolume(v) ==
  /\ ~crashed /\ property = "none"
  /\ m_volume' = v
  /\ property' = IF audioflinger_device # None /\ m_init THEN "volume" ELSE "none"
  /\ percent' = PassedOn(v)
  /\ raced' = (raced \/ streaming \in {"volume", "mute"})
  /\ UNCHANGED <<stateVars, capsVars, ringVars, deviceVars, m_mute, m_audiosink, otherVars>>

SetMute(b) ==
  /\ ~crashed /\ property = "none"
  /\ m_mute' = b
  /\ property' = IF audioflinger_device # None /\ m_init THEN "mute" ELSE "none"
  /\ raced' = (raced \/ streaming \in {"volume", "mute"})
  /\ UNCHANGED <<stateVars, capsVars, ringVars, deviceVars, m_volume, m_audiosink, percent, otherVars>>

SetAudioSink(given) ==
  /\ ~crashed /\ property = "none"
  /\ m_audiosink' = given
  /\ UNCHANGED <<stateVars, capsVars, ringVars, deviceVars, m_volume, m_mute, property, percent, raced, otherVars>>

\* gst_audioflinger_sink_set_volume and gst_audioflinger_sink_set_mute
PassOn ==
  /\ ~crashed /\ property # "none"
  /\ IF property = "volume"
       THEN /\ m_volume' = percent
            /\ audioflinger_device' = WithVolume(percent)
       ELSE /\ audioflinger_device' = WithMute(m_mute)
            /\ UNCHANGED m_volume
  /\ crashed' = (audioflinger_device # None /\ audioflinger_device.freed)
  /\ property' = "none"
  /\ UNCHANGED <<stateVars, capsVars, ringVars, m_init, outputVars, m_mute, m_audiosink, percent, raced, formatChanges, released>>

-----------------------------------------------------------------------------
ChangeEnds == CloseEnds \/ StartEnds \/ PauseEnds \/ PausedToReadyEnds

NegotiationGoesOn ==
  SetCapsReleases \/ PrepareFails \/ PrepareCrashes \/ PrepareDevice \/ PrepareVolume
  \/ PrepareMute

Next ==
  \/ OpenDevice \/ CloseReleases \/ Finalise
  \/ ReadyToPaused \/ StartDevice \/ PauseDevice \/ PausedToReady
  \/ ChangeEnds
  \/ Preroll \/ Flush \/ FlushPlaying \/ SetCaps \/ NegotiationGoesOn \/ StartRing
  \/ PrepareRead \/ WriteSome
  \/ \E v \in Volumes : SetVolume(v)
  \/ \E b \in BOOLEAN : SetMute(b)
  \/ \E given \in {"none", "given"} : SetAudioSink(given)
  \/ PassOn

\* Whoever is in a call goes on.  Nobody has to make one, and no segment has to
\* be read.
Fairness ==
  WF_vars(ChangeEnds) /\ WF_vars(NegotiationGoesOn) /\ WF_vars(WriteSome) /\ WF_vars(PassOn)

Spec == Init /\ [][Next]_vars
FairSpec == Spec /\ Fairness

-----------------------------------------------------------------------------
(* Properties *)

\* m_init says that there is a device and that it is set up; between two calls
\* it says so from prepare to unprepare, so the writer never finds it FALSE and
\* throws the sound away.
InitIsKnown ==
  /\ m_init => audioflinger_device # None /\ audioflinger_device.init
  /\ acquired => m_init
  /\ left > 0 => acquired

\* What plays is the open device, between change_state to PLAYING and change_state
\* to PAUSED, whatever is negotiated meanwhile and whatever fails: neither the other
\* kind of output nor the service's AudioSink once the sink is closed.  The only
\* exception is a flushing seek in PLAYING, which takes the state back to PAUSED and
\* does not pause the device: it plays on, also if pause() is called in that seek,
\* but not beyond the next preparation, stop or close.
SilentUnlessPlaying ==
  \A k \in Kinds : output[k] = "started" =>
    /\ Usable /\ audioflinger_device.kind = k
    /\ change = "start" \/ (state = "playing" /\ change = "none") \/ lost

\* In PLAYING the device plays, although prepare pauses it: unless the format
\* changes while it plays.
PlayingSounds ==
  ~formatChanges /\ m_init /\ state = "playing" /\ change = "none"
    => output[audioflinger_device.kind] = "started"

\* An AudioTrack that is set up has the volume and the mute that the properties
\* show, also those that were set before it was opened, or before it was opened
\* again; unless one was being set while prepare passed them on.
ControlsReachTheDevice ==
  /\ m_init /\ audioflinger_device.kind = "track"
  /\ property = "none" /\ streaming \notin {"volume", "mute"} /\ ~raced /\ ~crashed
  => /\ audioflinger_device.volume = m_volume
     /\ audioflinger_device.mute = m_mute

\* While a change to READY or a negotiation waits for the writer, it is not given
\* another segment, and each write brings it nearer to the end of the one it has,
\* also if the device is paused and takes nothing.
WriterRunsOut ==
  change = "join" \/ streaming = "join" =>
    /\ ring = "stopped"
    /\ left > 0 => acquired /\ m_init /\ \A r \in Taken : Written(r, left) > 0

\* Changes of state and negotiations come to an end: the writer they wait for ends
\* its segment also if the device is paused and takes nothing.
ChangesEnd ==
  /\ change # "none" ~> change = "none" \/ crashed
  /\ streaming # "none" ~> streaming = "none" \/ crashed
=============================================================================

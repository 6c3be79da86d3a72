----------------------- MODULE AudioFlingerSinkProofs -----------------------
(***************************************************************************)
(* The audio sink, for volumes and segments of every size.                 *)
(***************************************************************************)
EXTENDS AudioFlingerSink, TLAPS

\* Which calls may be under way in which state, and which of the three flags of
\* an open, a prepared and an acquired device go with them.
LifeInv ==
  /\ audioflinger_device = None <=> state = "null"
  /\ change = "start" => state = "paused" /\ prerolled
  /\ change = "pause" => state = "playing"
  /\ change = "join" => state = "paused" /\ streaming = "none"
  /\ change = "close" => state = "ready"
  /\ streaming # "none" => state \in {"paused", "playing"}
  /\ streaming # "none" /\ state = "paused" => ~prerolled
  /\ ~formatChanges /\ state = "playing" => streaming = "none"
  /\ acquired => state \in {"paused", "playing"} /\ streaming \in {"none", "join"} /\ m_init
  /\ m_init => acquired \/ streaming \in {"volume", "mute"}
  /\ m_init => Usable
  /\ streaming \in {"volume", "mute"} => m_init
  /\ left > 0 => acquired

\* Only the device that is open may play, and only between the two changes of
\* state or while a flush has taken the state away; it does play between the two
\* unless the format changes.
SoundInv ==
  /\ \A k \in Kinds :
       output[k] = "started" =>
         /\ Usable /\ audioflinger_device.kind = k
         /\ change = "start" \/ (state = "playing" /\ change = "none") \/ lost
  /\ change = "close" => ~lost
  /\ state = "playing" => ~lost
  /\ change = "start" => ~lost
  /\ ~formatChanges /\ m_init /\ (change = "start" \/ (state = "playing" /\ change = "none"))
       => output[audioflinger_device.kind] = "started"

\* What prepare has read is what the properties show, and what it has passed on,
\* or set_property has, is what the AudioTrack has.
ControlInv ==
  /\ property # "none" /\ streaming \in {"volume", "mute"} => raced
  /\ m_init /\ audioflinger_device.kind = "track" /\ ~raced =>
       /\ streaming = "volume" => heldVolume = m_volume
       /\ streaming = "mute" => heldMute = m_mute
       /\ streaming # "volume" /\ property # "volume" => audioflinger_device.volume = m_volume
       /\ streaming \notin {"volume", "mute"} /\ property # "mute" => audioflinger_device.mute = m_mute

-----------------------------------------------------------------------------
LEMMA DeviceFields ==
  ASSUME NEW d \in Device
  PROVE  d # None /\ d.kind \in Kinds
  BY NoneAssumption DEF Device

LEMMA DeviceReady ==
  ASSUME NEW d \in Device, NEW e, e = [d EXCEPT !.init = TRUE]
  PROVE  e \in Device /\ e # None /\ e.init /\ e.kind = d.kind
<1>1. e \in Device /\ e.init /\ e.kind = d.kind
  BY DEF Device
<1> QED BY <1>1, NoneAssumption

LEMMA DeviceFreed ==
  ASSUME NEW d \in Device, NEW e, e = [d EXCEPT !.freed = TRUE]
  PROVE  e \in Device /\ e # None /\ e.init = d.init /\ e.kind = d.kind
<1>1. e \in Device /\ e.init = d.init /\ e.kind = d.kind
  BY DEF Device
<1> QED BY <1>1, NoneAssumption

LEMMA DeviceOpened ==
  ASSUME NEW k \in Kinds
  PROVE  NewDevice(k) \in Device /\ NewDevice(k) # None
<1>1. NewDevice(k) \in Device
  BY DEF Device, NewDevice
<1> QED BY <1>1, NoneAssumption

\* What is left when a volume is passed on, and what is not.
LEMMA VolumePassedOn ==
  ASSUME TypeOK, NEW v \in AllVolumes
  PROVE  /\ WithVolume(v) \in Device \cup {None}
         /\ WithVolume(v) = None <=> audioflinger_device = None
         /\ audioflinger_device # None =>
              /\ WithVolume(v).kind = audioflinger_device.kind
              /\ WithVolume(v).init = audioflinger_device.init
              /\ WithVolume(v).mute = audioflinger_device.mute
              /\ Usable /\ audioflinger_device.kind = "track" => WithVolume(v).volume = v
<1>1. CASE audioflinger_device = None
  BY <1>1 DEF WithVolume, Usable
<1>2. CASE audioflinger_device # None
  <2>1. audioflinger_device \in Device
    BY <1>2 DEF TypeOK
  <2>2. [audioflinger_device EXCEPT !.volume = v] \in Device
    BY <2>1 DEF Device
  <2>3. WithVolume(v) \in Device
    BY <2>1, <2>2 DEF WithVolume
  <2> QED BY <1>2, <2>1, <2>3, DeviceFields DEF WithVolume, Device
<1> QED BY <1>1, <1>2

LEMMA MutePassedOn ==
  ASSUME TypeOK, NEW b \in BOOLEAN
  PROVE  /\ WithMute(b) \in Device \cup {None}
         /\ WithMute(b) = None <=> audioflinger_device = None
         /\ audioflinger_device # None =>
              /\ WithMute(b).kind = audioflinger_device.kind
              /\ WithMute(b).init = audioflinger_device.init
              /\ WithMute(b).volume = audioflinger_device.volume
              /\ Usable /\ audioflinger_device.kind = "track" => WithMute(b).mute = b
<1>1. CASE audioflinger_device = None
  BY <1>1 DEF WithMute, Usable
<1>2. CASE audioflinger_device # None
  <2>1. audioflinger_device \in Device
    BY <1>2 DEF TypeOK
  <2>2. [audioflinger_device EXCEPT !.mute = b] \in Device
    BY <2>1 DEF Device
  <2>3. WithMute(b) \in Device
    BY <2>1, <2>2 DEF WithMute
  <2> QED BY <1>2, <2>1, <2>3, DeviceFields DEF WithMute, Device
<1> QED BY <1>1, <1>2

\* Only the output of the device is turned.
LEMMA OutputTurned ==
  ASSUME TypeOK, NEW s \in Outputs
  PROVE  /\ Turned(s) \in [Kinds -> Outputs]
         /\ Usable => Turned(s)[audioflinger_device.kind] = s
         /\ \A k \in Kinds :
              ~(Usable /\ audioflinger_device.kind = k) => Turned(s)[k] = output[k]
  BY DeviceFields DEF TypeOK, Turned, Usable, Device, Kinds

LEMMA OutputClosed ==
  ASSUME NEW o \in [Kinds -> Outputs]
  PROVE  /\ [o EXCEPT !["track"] = "closed"] \in [Kinds -> Outputs]
         /\ \A k \in Kinds : k # "track" => [o EXCEPT !["track"] = "closed"][k] = o[k]
         /\ [o EXCEPT !["track"] = "closed"]["track"] = "closed"
  BY DEF Kinds, Outputs

\* What is left when the ring buffer is released, and what is not.
LEMMA Released ==
  ASSUME TypeOK, Release
  PROVE  /\ left = 0 /\ acquired' = FALSE
         /\ UNCHANGED <<ring, left, audioflinger_device>>
         /\ output' \in [Kinds -> Outputs]
         /\ \A k \in Kinds : output'[k] = "started" => output[k] = "started"
         /\ m_init' \in BOOLEAN
         /\ m_init' = IF acquired /\ audioflinger_device # None THEN FALSE ELSE m_init
         /\ lost' \in BOOLEAN /\ (lost' => lost)
         /\ acquired /\ Usable => ~lost' /\ output'[audioflinger_device.kind] = "stopped"
<1>1. "stopped" \in Outputs /\ output \in [Kinds -> Outputs] /\ m_init \in BOOLEAN /\ lost \in BOOLEAN
  BY DEF Outputs, TypeOK
<1>2. CASE acquired /\ audioflinger_device # None
  <2>1. output' = Turned("stopped") /\ m_init' = FALSE
    BY <1>2 DEF Release, Unprepare, DeviceStop
  <2>2. \A k \in Kinds : output'[k] = "stopped" \/ output'[k] = output[k]
    BY <2>1, <1>1, OutputTurned
  <2>3. Usable => output'[audioflinger_device.kind] = "stopped"
    BY <2>1, <1>1, OutputTurned
  <2>4. lost' = FALSE
    BY <1>2 DEF Release, Unprepare
  <2> QED BY <1>1, <1>2, <2>1, <2>2, <2>3, <2>4, OutputTurned DEF Release, Unprepare
<1>3. CASE ~(acquired /\ audioflinger_device # None)
  BY <1>1, <1>3 DEF Release, Unprepare, deviceVars, outputVars, Usable
<1> QED BY <1>2, <1>3

LEMMA TypeStep ==
  ASSUME TypeOK, LifeInv, [Next]_vars
  PROVE  TypeOK'
<1> USE DEF TypeOK, stateVars, capsVars, ringVars, deviceVars, outputVars, propVars, otherVars
<1>1. CASE OpenDevice
  BY <1>1, DeviceOpened DEF OpenDevice, Kinds
<1>2. CASE CloseReleases
  <2>1. audioflinger_device \in Device
    BY <1>2 DEF CloseReleases, LifeInv
  <2>2. Turned("stopped") \in [Kinds -> Outputs]
    BY OutputTurned DEF Outputs
  <2>3. lost' \in BOOLEAN /\ released' \in BOOLEAN
    BY <1>2 DEF CloseReleases
  <2> QED BY <1>2, <2>1, <2>2, <2>3, DeviceFreed, OutputClosed DEF CloseReleases, DeviceStop
<1>3. CASE CloseEnds
  BY <1>3 DEF CloseEnds
<1>4. CASE Finalise
  <2>1. m_mute' \in BOOLEAN /\ m_init' \in BOOLEAN
    BY <1>4 DEF Finalise, DEFAULT_MUTE
  <2> QED BY <1>4, <2>1, VolumesAssumption DEF Finalise, AllVolumes
<1>5. CASE ReadyToPaused
  <2>1. prerolled' \in BOOLEAN
    BY <1>5 DEF ReadyToPaused
  <2> QED BY <1>5, <2>1 DEF ReadyToPaused
<1>6. CASE StartDevice
  <2>1. lost' \in BOOLEAN
    BY <1>6 DEF StartDevice
  <2> QED BY <1>6, <2>1, OutputTurned DEF StartDevice, DeviceStart, Outputs
<1>7. CASE StartEnds
  BY <1>7 DEF StartEnds
<1>8. CASE PauseDevice
  BY <1>8, OutputTurned DEF PauseDevice, DevicePause, Outputs
<1>9. CASE PauseEnds
  <2>1. prerolled' \in BOOLEAN
    BY <1>9 DEF PauseEnds
  <2> QED BY <1>9, <2>1 DEF PauseEnds
<1>10. CASE PausedToReady
  BY <1>10 DEF PausedToReady
<1>11. CASE PausedToReadyEnds
  <2>1. Release
    BY <1>11 DEF PausedToReadyEnds
  <2>2. acquired' \in BOOLEAN /\ lost' \in BOOLEAN /\ output' \in [Kinds -> Outputs]
        /\ m_init' \in BOOLEAN /\ UNCHANGED <<ring, left, audioflinger_device>>
    BY <2>1, Released
  <2> QED BY <1>11, <2>2 DEF PausedToReadyEnds
<1>12. CASE Preroll
  BY <1>12 DEF Preroll
<1>13. CASE Flush
  <2>1. prerolled' \in BOOLEAN
    BY <1>13 DEF Flush
  <2> QED BY <1>13, <2>1 DEF Flush
<1>14. CASE SetCaps
  BY <1>14 DEF SetCaps
<1>15. CASE SetCapsReleases
  <2>1. Release
    BY <1>15 DEF SetCapsReleases
  <2>2. acquired' \in BOOLEAN
    BY <2>1, Released
  <2>3. streaming' \in {"none", "join", "set", "volume", "mute"}
    BY <1>15 DEF SetCapsReleases
  <2>4. acquired' \in BOOLEAN /\ lost' \in BOOLEAN /\ output' \in [Kinds -> Outputs] /\ m_init' \in BOOLEAN
        /\ UNCHANGED <<ring, left, audioflinger_device>>
    BY <2>1, <2>2, Released
  <2> QED BY <1>15, <2>3, <2>4 DEF SetCapsReleases
<1>16. CASE PrepareFails
  BY <1>16 DEF PrepareFails
<1>17. CASE PrepareDevice
  <2>1. audioflinger_device \in Device
    BY <1>17 DEF PrepareDevice
  <2>2. output' \in [Kinds -> Outputs]
    BY <1>17, <2>1, DeviceFields DEF PrepareDevice, Kinds, Outputs
  <2>3. lost' \in BOOLEAN /\ m_init' \in BOOLEAN /\ raced' \in BOOLEAN
    BY <1>17 DEF PrepareDevice
  <2> QED BY <1>17, <2>1, <2>2, <2>3, DeviceReady DEF PrepareDevice
<1>18. CASE PrepareVolume
  BY <1>18, VolumePassedOn DEF PrepareVolume, PreparedVolume
<1>19. CASE PrepareMute
  <2>1. lost' \in BOOLEAN /\ acquired' \in BOOLEAN
    BY <1>19 DEF PrepareMute
  <2> QED BY <1>19, <2>1, MutePassedOn, OutputTurned DEF PrepareMute, DevicePause, Outputs
<1>20. CASE StartRing
  BY <1>20 DEF StartRing
<1>21. CASE PrepareRead
  BY <1>21, SizesAssumption DEF PrepareRead
<1>22. CASE WriteSome
  <2>1. PICK r \in -1..left : Write(r)
    BY <1>22 DEF WriteSome, Taken
  <2>2. Written(r, left) \in Nat
    BY <2>1, SizesAssumption DEF Written, AsGuint, DeviceWrite, Write
  <2>3. left' \in 0..SegSize
    BY <2>1, <2>2, SizesAssumption DEF Write
  <2> QED BY <2>1, <2>3 DEF Write
<1>23. ASSUME NEW v \in Volumes, SetVolume(v) PROVE TypeOK'
  <2>1. v \in AllVolumes /\ PassedOn(v) \in AllVolumes
    BY DEF AllVolumes
  <2> QED BY <1>23, <2>1 DEF SetVolume
<1>24. ASSUME NEW b \in BOOLEAN, SetMute(b) PROVE TypeOK'
  BY <1>24 DEF SetMute
<1>25. ASSUME NEW given \in {"none", "given"}, SetAudioSink(given) PROVE TypeOK'
  BY <1>25 DEF SetAudioSink
<1>26. CASE PassOn
  BY <1>26, VolumePassedOn, MutePassedOn DEF PassOn
<1>27. CASE UNCHANGED vars
  BY <1>27 DEF vars
<1>28. CASE FlushPlaying
  <2>1. lost' \in BOOLEAN /\ prerolled' \in BOOLEAN
    BY <1>28 DEF FlushPlaying
  <2> QED BY <1>28, <2>1 DEF FlushPlaying
<1>29. CASE PrepareCrashes
  BY <1>29 DEF PrepareCrashes
<1> QED
  BY <1>1, <1>2, <1>3, <1>4, <1>5, <1>6, <1>7, <1>8, <1>9, <1>10, <1>11, <1>12,
     <1>13, <1>14, <1>15, <1>16, <1>17, <1>18, <1>19, <1>20, <1>21, <1>22, <1>23,
     <1>24, <1>25, <1>26, <1>27, <1>28, <1>29
  DEF Next, ChangeEnds, NegotiationGoesOn

LEMMA LifeStep ==
  ASSUME TypeOK, LifeInv, [Next]_vars
  PROVE  LifeInv'
<1> USE DEF LifeInv, Usable, stateVars, capsVars, ringVars, deviceVars, outputVars, propVars, otherVars
<1>1. CASE OpenDevice
  <2>1. audioflinger_device' # None /\ audioflinger_device = None
    BY <1>1, DeviceOpened DEF OpenDevice, Kinds
  <2> QED BY <1>1, <2>1 DEF OpenDevice
<1>2. CASE CloseReleases
  <2>1. audioflinger_device \in Device
    BY <1>2 DEF CloseReleases, TypeOK
  <2> QED BY <1>2, <2>1, DeviceFreed DEF CloseReleases
<1>3. CASE CloseEnds
  BY <1>3 DEF CloseEnds
<1>4. CASE Finalise
  BY <1>4 DEF Finalise
<1>5. CASE ReadyToPaused
  BY <1>5 DEF ReadyToPaused
<1>6. CASE StartDevice
  BY <1>6 DEF StartDevice, DeviceStart, Turned, Usable
<1>7. CASE StartEnds
  BY <1>7 DEF StartEnds
<1>8. CASE PauseDevice
  BY <1>8 DEF PauseDevice, DevicePause, Turned, Usable
<1>9. CASE PauseEnds
  BY <1>9 DEF PauseEnds
<1>10. CASE PausedToReady
  BY <1>10 DEF PausedToReady
<1>11. CASE PausedToReadyEnds
  <2>1. Release
    BY <1>11 DEF PausedToReadyEnds
  <2>2. ~m_init'
    BY <1>11, <2>1, Released DEF PausedToReadyEnds
  <2>3. ~acquired' /\ left' = 0 /\ UNCHANGED audioflinger_device
    BY <2>1, Released
  <2> QED BY <1>11, <2>2, <2>3 DEF PausedToReadyEnds
<1>12. CASE Preroll
  BY <1>12 DEF Preroll
<1>13. CASE Flush
  BY <1>13 DEF Flush
<1>14. CASE SetCaps
  BY <1>14 DEF SetCaps
<1>15. CASE SetCapsReleases
  <2>1. Release
    BY <1>15 DEF SetCapsReleases
  <2>2. ~m_init'
    BY <1>15, <2>1, Released DEF SetCapsReleases
  <2>3. ~acquired' /\ left' = 0 /\ UNCHANGED audioflinger_device
    BY <2>1, Released
  <2> QED BY <1>15, <2>2, <2>3 DEF SetCapsReleases
<1>16. CASE PrepareFails
  BY <1>16 DEF PrepareFails
<1>17. CASE PrepareDevice
  <2>1. audioflinger_device \in Device
    BY <1>17 DEF PrepareDevice, TypeOK
  <2> QED BY <1>17, <2>1, DeviceReady DEF PrepareDevice
<1>18. CASE PrepareVolume
  BY <1>18, VolumePassedOn DEF PrepareVolume, PreparedVolume, TypeOK
<1>19. CASE PrepareMute
  BY <1>19, MutePassedOn DEF PrepareMute, TypeOK
<1>20. CASE StartRing
  BY <1>20 DEF StartRing
<1>21. CASE PrepareRead
  BY <1>21 DEF PrepareRead
<1>22. CASE WriteSome
  BY <1>22 DEF WriteSome, Write, TypeOK
<1>23. ASSUME NEW v \in Volumes, SetVolume(v) PROVE LifeInv'
  BY <1>23 DEF SetVolume
<1>24. ASSUME NEW b \in BOOLEAN, SetMute(b) PROVE LifeInv'
  BY <1>24 DEF SetMute
<1>25. ASSUME NEW given \in {"none", "given"}, SetAudioSink(given) PROVE LifeInv'
  BY <1>25 DEF SetAudioSink
<1>26. CASE PassOn
  BY <1>26, VolumePassedOn, MutePassedOn DEF PassOn, TypeOK
<1>27. CASE UNCHANGED vars
  BY <1>27 DEF vars
<1>28. CASE FlushPlaying
  BY <1>28 DEF FlushPlaying
<1>29. CASE PrepareCrashes
  BY <1>29 DEF PrepareCrashes
<1> QED
  BY <1>1, <1>2, <1>3, <1>4, <1>5, <1>6, <1>7, <1>8, <1>9, <1>10, <1>11, <1>12,
     <1>13, <1>14, <1>15, <1>16, <1>17, <1>18, <1>19, <1>20, <1>21, <1>22, <1>23,
     <1>24, <1>25, <1>26, <1>27, <1>28, <1>29
  DEF Next, ChangeEnds, NegotiationGoesOn

LEMMA SoundStep ==
  ASSUME TypeOK, LifeInv, SoundInv, [Next]_vars
  PROVE  SoundInv'
<1> USE DEF SoundInv, Usable, stateVars, capsVars, ringVars, deviceVars, outputVars, propVars, otherVars
<1>1. CASE OpenDevice
  BY <1>1 DEF OpenDevice, LifeInv
<1>2. CASE CloseReleases
  <2>1. audioflinger_device \in Device
    BY <1>2 DEF CloseReleases, TypeOK, LifeInv
  <2>2. \A k \in Kinds : Turned("stopped")[k] # "started"
    BY <1>2, OutputTurned DEF CloseReleases, Outputs
  <2>3. Turned("stopped") \in [Kinds -> Outputs]
    BY OutputTurned DEF Outputs
  <2>4. \A k \in Kinds : output'[k] # "started"
    BY <1>2, <2>2, <2>3, OutputClosed DEF CloseReleases, DeviceStop
  <2>5. state' = "ready" /\ change' = "close" /\ ~lost'
    BY <1>2 DEF CloseReleases
  <2> QED BY <2>4, <2>5
<1>3. CASE CloseEnds
  BY <1>3 DEF CloseEnds, LifeInv
<1>4. CASE Finalise
  BY <1>4 DEF Finalise, LifeInv
<1>5. CASE ReadyToPaused
  BY <1>5 DEF ReadyToPaused
<1>6. CASE StartDevice
  BY <1>6, OutputTurned DEF StartDevice, DeviceStart, Outputs, LifeInv
<1>7. CASE StartEnds
  BY <1>7 DEF StartEnds
<1>8. CASE PauseDevice
  <2>1. \A k \in Kinds : output'[k] # "started"
    BY <1>8, OutputTurned DEF PauseDevice, DevicePause, Outputs
  <2> QED BY <1>8, <2>1 DEF PauseDevice
<1>9. CASE PauseEnds
  BY <1>9 DEF PauseEnds
<1>10. CASE PausedToReady
  BY <1>10 DEF PausedToReady
<1>11. CASE PausedToReadyEnds
  <2>1. Release
    BY <1>11 DEF PausedToReadyEnds
  <2>2. /\ \A k \in Kinds : output'[k] = "started" => output[k] = "started"
        /\ lost' => lost
        /\ acquired /\ Usable => output'[audioflinger_device.kind] = "stopped"
        /\ ~acquired => lost' = lost
        /\ m_init' => m_init /\ ~acquired
        /\ UNCHANGED audioflinger_device
    BY <1>11, <2>1, Released DEF Release, LifeInv, TypeOK
  <2>3. change = "join" /\ state = "paused" /\ change' = "none" /\ state' = "ready"
    BY <1>11 DEF PausedToReadyEnds, LifeInv
  <2>4. ASSUME NEW k \in Kinds, output'[k] = "started"
        PROVE  Usable' /\ audioflinger_device'.kind = k /\ lost'
    BY <2>2, <2>3, <2>4
  <2>5. ~(change' = "close") /\ ~(state' = "playing") /\ ~(change' = "start")
    BY <2>3
  <2> QED BY <2>4, <2>5
<1>12. CASE Preroll
  BY <1>12 DEF Preroll
<1>13. CASE Flush
  BY <1>13 DEF Flush
<1>14. CASE SetCaps
  BY <1>14 DEF SetCaps
<1>15. CASE SetCapsReleases
  <2>1. /\ \A k \in Kinds : output'[k] = "started" => output[k] = "started"
        /\ lost' => lost
        /\ acquired /\ Usable => output'[audioflinger_device.kind] = "stopped"
        /\ ~acquired => lost' = lost
    BY <1>15, Released DEF SetCapsReleases, Release, TypeOK
  <2>2. streaming = "join" /\ UNCHANGED <<audioflinger_device, stateVars, formatChanges>>
    BY <1>15, Released DEF SetCapsReleases
  <2> QED BY <2>1, <2>2 DEF LifeInv
<1>16. CASE PrepareFails
  BY <1>16 DEF PrepareFails
<1>17. CASE PrepareDevice
  <2>1. audioflinger_device \in Device
    BY <1>17 DEF PrepareDevice, TypeOK
  <2>2. \A k \in Kinds : output'[k] # "started"
    BY <1>17, <2>1, DeviceFields DEF PrepareDevice, TypeOK, Kinds
  <2>3. audioflinger_device' # None /\ audioflinger_device'.init
        /\ audioflinger_device'.kind = audioflinger_device.kind
    BY <1>17, <2>1, DeviceReady DEF PrepareDevice
  <2>4. streaming = "set" /\ ~lost' /\ UNCHANGED <<stateVars, formatChanges>>
    BY <1>17 DEF PrepareDevice
  <2> QED BY <2>2, <2>3, <2>4 DEF LifeInv
<1>18. CASE PrepareVolume
  BY <1>18, VolumePassedOn DEF PrepareVolume, PreparedVolume, TypeOK, LifeInv
<1>19. CASE PrepareMute
  <2>1. \A k \in Kinds : output'[k] # "started"
    BY <1>19, OutputTurned DEF PrepareMute, DevicePause, Outputs, LifeInv
  <2>2. streaming = "mute" /\ ~lost' /\ UNCHANGED <<stateVars, formatChanges>>
    BY <1>19 DEF PrepareMute
  <2>3. audioflinger_device # None => /\ audioflinger_device' # None
                                      /\ audioflinger_device'.kind = audioflinger_device.kind
                                      /\ audioflinger_device'.init = audioflinger_device.init
    BY <1>19, MutePassedOn DEF PrepareMute, TypeOK
  <2> QED BY <2>1, <2>2, <2>3 DEF LifeInv
<1>20. CASE StartRing
  BY <1>20 DEF StartRing
<1>21. CASE PrepareRead
  BY <1>21 DEF PrepareRead
<1>22. CASE WriteSome
  BY <1>22 DEF WriteSome, Write
<1>23. ASSUME NEW v \in Volumes, SetVolume(v) PROVE SoundInv'
  BY <1>23 DEF SetVolume
<1>24. ASSUME NEW b \in BOOLEAN, SetMute(b) PROVE SoundInv'
  BY <1>24 DEF SetMute
<1>25. ASSUME NEW given \in {"none", "given"}, SetAudioSink(given) PROVE SoundInv'
  BY <1>25 DEF SetAudioSink
<1>26. CASE PassOn
  <2>1. audioflinger_device # None => /\ audioflinger_device' # None
                                      /\ audioflinger_device'.kind = audioflinger_device.kind
                                      /\ audioflinger_device'.init = audioflinger_device.init
    BY <1>26, VolumePassedOn, MutePassedOn DEF PassOn, TypeOK
  <2> QED BY <1>26, <2>1 DEF PassOn, LifeInv
<1>27. CASE UNCHANGED vars
  BY <1>27 DEF vars
<1>28. CASE FlushPlaying
  BY <1>28 DEF FlushPlaying
<1>29. CASE PrepareCrashes
  BY <1>29 DEF PrepareCrashes
<1> QED
  BY <1>1, <1>2, <1>3, <1>4, <1>5, <1>6, <1>7, <1>8, <1>9, <1>10, <1>11, <1>12,
     <1>13, <1>14, <1>15, <1>16, <1>17, <1>18, <1>19, <1>20, <1>21, <1>22, <1>23,
     <1>24, <1>25, <1>26, <1>27, <1>28, <1>29
  DEF Next, ChangeEnds, NegotiationGoesOn

LEMMA ControlStep ==
  ASSUME TypeOK, LifeInv, ControlInv, [Next]_vars
  PROVE  ControlInv'
<1> USE DEF ControlInv, stateVars, capsVars, ringVars, deviceVars, outputVars, propVars, otherVars
<1>1. CASE OpenDevice
  BY <1>1 DEF OpenDevice, LifeInv, Usable
<1>2. CASE CloseReleases
  BY <1>2 DEF CloseReleases, LifeInv
<1>3. CASE CloseEnds
  BY <1>3 DEF CloseEnds, LifeInv
<1>4. CASE Finalise
  BY <1>4 DEF Finalise
<1>5. CASE ReadyToPaused
  BY <1>5 DEF ReadyToPaused
<1>6. CASE StartDevice
  BY <1>6 DEF StartDevice, DeviceStart, Turned, Usable
<1>7. CASE StartEnds
  BY <1>7 DEF StartEnds
<1>8. CASE PauseDevice
  BY <1>8 DEF PauseDevice, DevicePause, Turned, Usable
<1>9. CASE PauseEnds
  BY <1>9 DEF PauseEnds
<1>10. CASE PausedToReady
  BY <1>10 DEF PausedToReady
<1>11. CASE PausedToReadyEnds
  <2>1. Release
    BY <1>11 DEF PausedToReadyEnds
  <2> QED BY <1>11, <2>1, Released DEF PausedToReadyEnds, LifeInv, Usable, TypeOK
<1>12. CASE Preroll
  BY <1>12 DEF Preroll
<1>13. CASE Flush
  BY <1>13 DEF Flush
<1>14. CASE SetCaps
  BY <1>14 DEF SetCaps
<1>15. CASE SetCapsReleases
  <2>1. Release
    BY <1>15 DEF SetCapsReleases
  <2> QED BY <1>15, <2>1, Released DEF SetCapsReleases, LifeInv, Usable, TypeOK
<1>16. CASE PrepareFails
  BY <1>16 DEF PrepareFails
<1>17. CASE PrepareDevice
  BY <1>17 DEF PrepareDevice
<1>18. CASE PrepareVolume
  BY <1>18, VolumePassedOn DEF PrepareVolume, PreparedVolume, TypeOK, LifeInv, Usable
<1>19. CASE PrepareMute
  BY <1>19, MutePassedOn DEF PrepareMute, TypeOK, LifeInv, Usable
<1>20. CASE StartRing
  BY <1>20 DEF StartRing
<1>21. CASE PrepareRead
  BY <1>21 DEF PrepareRead
<1>22. CASE WriteSome
  BY <1>22 DEF WriteSome, Write
<1>23. ASSUME NEW v \in Volumes, SetVolume(v) PROVE ControlInv'
  BY <1>23 DEF SetVolume, LifeInv, Usable
<1>24. ASSUME NEW b \in BOOLEAN, SetMute(b) PROVE ControlInv'
  BY <1>24 DEF SetMute, LifeInv, Usable
<1>25. ASSUME NEW given \in {"none", "given"}, SetAudioSink(given) PROVE ControlInv'
  BY <1>25 DEF SetAudioSink
<1>26. CASE PassOn
  BY <1>26, VolumePassedOn, MutePassedOn DEF PassOn, TypeOK, LifeInv, Usable
<1>27. CASE UNCHANGED vars
  BY <1>27 DEF vars
<1>28. CASE FlushPlaying
  BY <1>28 DEF FlushPlaying
<1>29. CASE PrepareCrashes
  BY <1>29 DEF PrepareCrashes
<1> QED
  BY <1>1, <1>2, <1>3, <1>4, <1>5, <1>6, <1>7, <1>8, <1>9, <1>10, <1>11, <1>12,
     <1>13, <1>14, <1>15, <1>16, <1>17, <1>18, <1>19, <1>20, <1>21, <1>22, <1>23,
     <1>24, <1>25, <1>26, <1>27, <1>28, <1>29
  DEF Next, ChangeEnds, NegotiationGoesOn

\* The ring buffer that is being released, or acquired anew, is stopped, and cannot be
\* started before that is over.
RingInv == change = "join" \/ streaming # "none" => ring = "stopped"

LEMMA RingStep ==
  ASSUME TypeOK, LifeInv, RingInv, [Next]_vars
  PROVE  RingInv'
<1> USE DEF RingInv, stateVars, capsVars, ringVars, deviceVars, outputVars, propVars, otherVars
<1>1. CASE OpenDevice \/ CloseReleases \/ Finalise \/ ReadyToPaused \/ StartDevice \/ PauseDevice
  BY <1>1 DEF OpenDevice, CloseReleases, Finalise, ReadyToPaused, StartDevice, PauseDevice
<1>2. CASE PausedToReady \/ CloseEnds \/ StartEnds \/ PauseEnds
  BY <1>2 DEF PausedToReady, CloseEnds, StartEnds, PauseEnds
<1>3. CASE PausedToReadyEnds \/ SetCapsReleases
  <2>1. UNCHANGED ring
    BY <1>3 DEF PausedToReadyEnds, SetCapsReleases, Release
  <2> QED BY <1>3, <2>1 DEF PausedToReadyEnds, SetCapsReleases, LifeInv
<1>4. CASE SetCaps \/ PrepareFails \/ PrepareCrashes \/ PrepareDevice \/ PrepareVolume \/ PrepareMute
  BY <1>4 DEF SetCaps, PrepareFails, PrepareCrashes, PrepareDevice, PrepareVolume, PrepareMute
<1>5. CASE StartRing
  BY <1>5 DEF StartRing, LifeInv
<1>6. CASE Preroll \/ Flush \/ FlushPlaying \/ PrepareRead \/ WriteSome
  BY <1>6 DEF Preroll, Flush, FlushPlaying, PrepareRead, WriteSome, Write
<1>7. CASE \E v \in Volumes : SetVolume(v)
  BY <1>7 DEF SetVolume
<1>8. CASE \E b \in BOOLEAN : SetMute(b)
  BY <1>8 DEF SetMute
<1>9. CASE (\E given \in {"none", "given"} : SetAudioSink(given)) \/ PassOn \/ UNCHANGED vars
  BY <1>9 DEF SetAudioSink, PassOn, vars
<1> QED BY <1>1, <1>2, <1>3, <1>4, <1>5, <1>6, <1>7, <1>8, <1>9
    DEF Next, ChangeEnds, NegotiationGoesOn

-----------------------------------------------------------------------------
IInv == TypeOK /\ LifeInv /\ SoundInv /\ ControlInv /\ RingInv

LEMMA InitIInv == Init => IInv
<1> SUFFICES ASSUME Init PROVE IInv
  OBVIOUS
<1>1. DEFAULT_VOLUME \in AllVolumes /\ 0 \in 0..SegSize
  BY VolumesAssumption, SizesAssumption DEF AllVolumes
<1>2. output \in [Kinds -> Outputs] /\ \A k \in Kinds : output[k] = "closed"
  BY DEF Init, Outputs
<1>3. TypeOK
  BY <1>1, <1>2 DEF Init, TypeOK, DEFAULT_MUTE
<1>4. LifeInv
  BY DEF Init, LifeInv
<1>5. SoundInv
  BY <1>2 DEF Init, SoundInv
<1>6. ControlInv
  BY DEF Init, ControlInv
<1>7. RingInv
  BY DEF Init, RingInv
<1> QED BY <1>3, <1>4, <1>5, <1>6, <1>7 DEF IInv

LEMMA Invariance == Spec => []IInv
<1>1. IInv /\ [Next]_vars => IInv'
  BY TypeStep, LifeStep, SoundStep, ControlStep, RingStep DEF IInv
<1> QED BY InitIInv, <1>1, PTL DEF Spec

\* The types of the sink hold for volumes and segments of every size.
THEOREM TypeCorrect == Spec => []TypeOK
<1>1. IInv => TypeOK
  BY DEF IInv
<1> QED BY <1>1, Invariance, PTL

\* m_init can be trusted, in particular by the writer, through every order of
\* state changes and negotiations, also failed ones.
THEOREM InitKnown == Spec => []InitIsKnown
<1>1. IInv => InitIsKnown
  BY DEF IInv, LifeInv, InitIsKnown, Usable
<1> QED BY <1>1, Invariance, PTL

\* What plays is the open device, in PLAYING and the change to it, or in PAUSED after
\* a flush has taken PLAYING away without change_state.
THEOREM Silent == Spec => []SilentUnlessPlaying
<1>1. IInv => SilentUnlessPlaying
  BY DEF IInv, SoundInv, SilentUnlessPlaying
<1> QED BY <1>1, Invariance, PTL

\* In PLAYING the prepared device plays, if the format does not change there.
THEOREM Sounds == Spec => []PlayingSounds
<1>1. IInv => PlayingSounds
  BY DEF IInv, SoundInv, PlayingSounds
<1> QED BY <1>1, Invariance, PTL

\* The AudioTrack has the volume and the mute that the properties show, unless one
\* was set during prepare.
THEOREM ControlsArrive == Spec => []ControlsReachTheDevice
<1>1. IInv => ControlsReachTheDevice
  BY DEF IInv, ControlInv, ControlsReachTheDevice
<1> QED BY <1>1, Invariance, PTL

\* Each time the writer writes it is nearer to the end of its segment, whatever the
\* device says and whether there is one.
LEMMA SomethingWritten ==
  ASSUME TypeOK, left > 0, NEW r \in Taken
  PROVE  Written(r, left) > 0
<1>1. r \in -1..left /\ left \in Nat /\ MaxGuint > 0
  BY SizesAssumption DEF Taken, TypeOK
<1>2. DeviceWrite(r) \in -1..left
  BY <1>1 DEF DeviceWrite
<1>3. DeviceWrite(r) # 0 => AsGuint(DeviceWrite(r)) > 0
  BY <1>1, <1>2 DEF AsGuint
<1> QED BY <1>1, <1>3 DEF Written

\* A thread that joins the writer finds it with nothing new to begin, for segments of
\* every size: what is left for ChangesEnd is that the writer runs.
THEOREM WriterJoined == Spec => []WriterRunsOut
<1>1. IInv => WriterRunsOut
  BY SomethingWritten DEF IInv, RingInv, LifeInv, WriterRunsOut
<1> QED BY <1>1, Invariance, PTL
=============================================================================

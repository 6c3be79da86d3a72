----------------------- MODULE SurfaceFlingerSinkProofs -----------------------
(***************************************************************************)
(* The video sink, for pictures and surfaces of every size and number, any *)
(* number of negotiations and any failures.                                *)
(***************************************************************************)
EXTENDS SurfaceFlingerSink, TLAPS

\* A heap with memory is registered, and has two frames of the size that the
\* pictures of now need.
FramesInv ==
  /\ started => videodev # None
  /\ HasMemory(videodev) =>
       /\ videodev.isurface # None
       /\ registered[videodev.isurface] = videodev.frame_heap
       /\ caps # None
       /\ videodev.width = Aligned(caps.w) /\ videodev.height = Aligned(caps.h)
       /\ videodev.frame_heap.size = 2 * FrameSize(videodev)
       /\ videodev.frame_offset[0] = 0
       /\ videodev.frame_offset[1] = FrameSize(videodev)

\* A picture is copied to the frame that buf_index names.
CopyInv ==
  writing # None =>
    /\ started /\ HasMemory(videodev)
    /\ writing.heap = videodev.frame_heap
    /\ writing.at = videodev.frame_offset[videodev.buf_index]
    /\ writing.size = PictureSize(caps)

\* Only the device's heap is on the screen, and of that the frame last posted.
ScreenInv ==
  /\ RegistrationsAreLive
  /\ \A s \in AllSurfaces : shown[s] # None =>
       /\ registered[s] # None
       /\ HasMemory(videodev)
       /\ writing = None => shown[s] = videodev.frame_offset[videodev.buf_index]
       /\ writing # None => shown[s] = videodev.frame_offset[NextBuffer(videodev.buf_index)]

IInv == TypeOK /\ FramesInv /\ CopyInv /\ ScreenInv

-----------------------------------------------------------------------------
(* Sizes *)

LEMMA AlignedIsNat ==
  ASSUME NEW n \in Nat
  PROVE  Aligned(n) \in Nat /\ n <= Aligned(n)
  BY DEF Aligned

\* The lines of a picture are as long as those of a frame.
LEMMA LinesAgree ==
  ASSUME NEW n \in Nat
  PROVE  ((2 * n + 3) \div 4) * 4 = 2 * Aligned(n)
  BY DEF Aligned

LEMMA TimesIsMonotone ==
  ASSUME NEW a \in Nat, NEW b \in Nat, NEW c \in Nat, b <= c
  PROVE  a * b \in Nat /\ a * c \in Nat /\ a * b <= a * c
<1>1. PICK d \in Nat : c = b + d
  <2>1. c - b \in Nat /\ c = b + (c - b)
    OBVIOUS
  <2> QED BY <2>1
<1>2. a * b \in Nat /\ a * d \in Nat
  OBVIOUS
<1>3. a * c = a * b + a * d
  BY <1>1
<1> QED BY <1>2, <1>3

LEMMA FrameSizeIsNat ==
  ASSUME NEW dev \in Device
  PROVE  FrameSize(dev) \in Nat
<1>1. dev.width \in Nat /\ dev.height \in Nat
  BY DEF Device
<1>2. dev.width * dev.height \in Nat
  BY <1>1
<1> QED BY <1>2 DEF FrameSize

\* A picture needs no more than the frame that was made for it.
LEMMA PictureFits ==
  ASSUME NEW c \in Caps, NEW dev \in Device,
         dev.width = Aligned(c.w), dev.height = Aligned(c.h)
  PROVE  PictureSize(c) \in Nat /\ PictureSize(c) <= FrameSize(dev)
<1>1. c.w \in Nat /\ c.h \in Nat
  BY CapsAssumption
<1> DEFINE line == 2 * Aligned(c.w)
<1>2. line \in Nat /\ Aligned(c.w) \in Nat /\ Aligned(c.h) \in Nat /\ c.h <= Aligned(c.h)
  BY <1>1, AlignedIsNat
<1>3. PictureSize(c) = line * c.h
  BY <1>1, LinesAgree DEF PictureSize
<1>4. FrameSize(dev) = line * Aligned(c.h)
  <2>1. \A a, b \in Nat : a * b * 2 = (2 * a) * b
    OBVIOUS
  <2> QED BY <1>2, <2>1 DEF FrameSize
<1> HIDE DEF line
<1> QED BY <1>1, <1>2, <1>3, <1>4, TimesIsMonotone

-----------------------------------------------------------------------------
(* The device *)

LEMMA NewDeviceIsDevice ==
  ASSUME NEW s \in Surfaces \cup {None}
  PROVE  /\ NewDevice(s) \in Device
         /\ NewDevice(s) # None
         /\ ~HasFrames(NewDevice(s))
<1>1. NewDevice(s) \in Device
  BY DEF Device, NewDevice, NoOffsets, AllSurfaces, Buffers, MAX_FRAME_BUFFERS
<1> QED BY <1>1, NoneAssumption DEF HasFrames, NewDevice

LEMMA UnregisteredDevice ==
  ASSUME NEW dev \in Device
  PROVE  /\ Unregistered(dev) \in Device
         /\ Unregistered(dev).frame_heap = None
         /\ Unregistered(dev).isurface = dev.isurface
<1>1. NoOffsets \in [Buffers -> Nat] /\ 0 \in Buffers /\ dev # None
  BY NoneAssumption DEF NoOffsets, Buffers, MAX_FRAME_BUFFERS
<1>2. CASE HasFrames(dev)
  BY <1>1, <1>2 DEF Unregistered, Device
<1>3. CASE ~HasFrames(dev)
  BY <1>1, <1>3 DEF Unregistered, HasFrames
<1> QED BY <1>2, <1>3

LEMMA SizedDevice ==
  ASSUME NEW dev \in Device, NEW c \in Caps
  PROVE  /\ Sized(dev, c) \in Device
         /\ Sized(dev, c).frame_heap = dev.frame_heap
         /\ Sized(dev, c).isurface = dev.isurface
         /\ Sized(dev, c).width = Aligned(c.w)
         /\ Sized(dev, c).height = Aligned(c.h)
<1>1. Aligned(c.w) \in Nat /\ Aligned(c.h) \in Nat
  BY CapsAssumption, AlignedIsNat
<1> QED BY <1>1 DEF Sized, Device

\* What setcaps has made of the device when it registers the frame buffers.
LEMMA DeviceWithSurface ==
  ASSUME NEW old \in Device, NEW c \in Caps, NEW n \in 1..MaxNegotiations,
         NEW dev \in WithSurface(Sized(Unregistered(old), c), n)
  PROVE  /\ dev \in Device /\ dev # None
         /\ dev.frame_heap = None
         /\ dev.width = Aligned(c.w) /\ dev.height = Aligned(c.h)
         /\ old.isurface # None => dev.isurface = old.isurface
<1> DEFINE sized == Sized(Unregistered(old), c)
<1>1. /\ sized \in Device /\ sized.frame_heap = None /\ sized.isurface = old.isurface
      /\ sized.width = Aligned(c.w) /\ sized.height = Aligned(c.h)
  BY UnregisteredDevice, SizedDevice
<1>2. dev \in WithSurface(sized, n)
  OBVIOUS
<1> HIDE DEF sized
<1>3. CASE dev = sized
  BY <1>1, <1>3, NoneAssumption
<1>4. CASE dev = [sized EXCEPT !.isurface = n,
                                !.surface = [w |-> AtMost(320, sized.width),
                                             h |-> AtMost(320, sized.height)]]
           /\ sized.isurface = None
  <2>1. AtMost(320, sized.width) \in Nat /\ AtMost(320, sized.height) \in Nat
    BY <1>1 DEF AtMost, Device
  <2>2. n \in AllSurfaces
    BY DEF AllSurfaces
  <2> DEFINE made == [w |-> AtMost(320, sized.width), h |-> AtMost(320, sized.height)]
  <2>3. made \in [w : Nat, h : Nat] /\ dev = [sized EXCEPT !.isurface = n, !.surface = made]
    BY <1>4, <2>1
  <2> HIDE DEF made
  <2>4. /\ dev \in Device /\ dev.frame_heap = None
        /\ dev.width = sized.width /\ dev.height = sized.height
    BY <1>1, <2>2, <2>3 DEF Device
  <2> QED BY <1>1, <1>4, <2>4, NoneAssumption
<1> QED BY <1>2, <1>3, <1>4 DEF WithSurface

LEMMA NewHeapIsHeap ==
  ASSUME NEW dev \in Device, NEW n \in 1..MaxNegotiations, NEW heap \in NewHeaps(dev, n)
  PROVE  /\ heap \in Heap /\ heap # None
         /\ heap.size > 0 => heap.size = 2 * FrameSize(dev)
<1>1. FrameSize(dev) \in Nat
  BY FrameSizeIsNat
<1>2. heap \in Heap /\ (heap.size > 0 => heap.size = 2 * FrameSize(dev))
  BY <1>1 DEF NewHeaps, Heap, MAX_FRAME_BUFFERS
<1> QED BY <1>2, NoneAssumption

LEMMA FramesDevice ==
  ASSUME NEW dev \in Device, NEW heap \in Heap
  PROVE  /\ Frames(dev, heap) \in Device
         /\ Frames(dev, heap).frame_heap = heap
         /\ Frames(dev, heap).isurface = dev.isurface
         /\ Frames(dev, heap).width = dev.width
         /\ Frames(dev, heap).height = dev.height
         /\ Frames(dev, heap).frame_offset[0] = 0
         /\ Frames(dev, heap).frame_offset[1] = FrameSize(dev)
         /\ FrameSize(Frames(dev, heap)) = FrameSize(dev)
<1> DEFINE f == FrameSize(dev)
           offsets == [i \in Buffers |-> i * f]
<1>1. f \in Nat
  BY FrameSizeIsNat
<1> HIDE DEF f
<1>2. /\ offsets \in [Buffers -> Nat]
      /\ offsets[0] = 0 /\ offsets[1] = f
      /\ 0 \in Buffers
  BY <1>1 DEF Buffers, MAX_FRAME_BUFFERS
<1> HIDE DEF offsets
<1>3. Frames(dev, heap) = [dev EXCEPT !.frame_heap = heap, !.frame_offset = offsets,
                                      !.buf_index = 0]
  BY DEF Frames, offsets, f
<1>4. /\ Frames(dev, heap) \in Device
      /\ Frames(dev, heap).frame_heap = heap
      /\ Frames(dev, heap).isurface = dev.isurface
      /\ Frames(dev, heap).width = dev.width
      /\ Frames(dev, heap).height = dev.height
      /\ Frames(dev, heap).frame_offset = offsets
  BY <1>2, <1>3 DEF Device
<1>5. FrameSize(Frames(dev, heap)) = f
  BY <1>4 DEF FrameSize, f
<1> QED BY <1>2, <1>4, <1>5 DEF f

\* Once the device has unregistered, the screen is empty.
LEMMA ScreenCleared ==
  ASSUME TypeOK, ScreenInv, ScreenWithout(videodev), ~UnregisterCrashes(videodev)
  PROVE  /\ registered' \in [AllSurfaces -> Heap \cup {None}]
         /\ shown' \in [AllSurfaces -> Nat \cup {None}]
         /\ \A s \in AllSurfaces : registered'[s] = None /\ shown'[s] = None
<1>1. /\ registered \in [AllSurfaces -> Heap \cup {None}]
      /\ shown \in [AllSurfaces -> Nat \cup {None}]
  BY DEF TypeOK
<1>2. CASE HasFrames(videodev)
  <2>1. /\ registered' = [registered EXCEPT ![videodev.isurface] = None]
        /\ shown' = [shown EXCEPT ![videodev.isurface] = None]
    BY <1>2 DEF ScreenWithout
  <2>2. \A s \in AllSurfaces : s # videodev.isurface => registered[s] = None /\ shown[s] = None
    BY DEF ScreenInv, RegistrationsAreLive
  <2> QED BY <1>1, <2>1, <2>2
<1>3. CASE ~HasFrames(videodev)
  <2>1. UNCHANGED screenVars
    BY <1>3 DEF ScreenWithout
  <2>2. \A s \in AllSurfaces : registered[s] = None /\ shown[s] = None
    BY <1>1, <1>3 DEF ScreenInv, RegistrationsAreLive, HasFrames
  <2> QED BY <1>1, <2>1, <2>2 DEF screenVars
<1> QED BY <1>2, <1>3

-----------------------------------------------------------------------------
(* The steps *)

LEMMA InitIInv == Init => IInv
<1> SUFFICES ASSUME Init PROVE IInv
  OBVIOUS
<1>1. /\ registered \in [AllSurfaces -> Heap \cup {None}]
      /\ shown \in [AllSurfaces -> Nat \cup {None}]
      /\ \A s \in AllSurfaces : registered[s] = None /\ shown[s] = None
  BY DEF Init
<1>2. started \in BOOLEAN /\ crashed \in BOOLEAN
  BY DEF Init
<1>3. negotiations \in 0..MaxNegotiations
  BY MaxNegotiationsAssumption DEF Init
<1>4. TypeOK
  BY <1>1, <1>2, <1>3 DEF Init, TypeOK
<1>5. FramesInv /\ CopyInv
  BY DEF Init, FramesInv, CopyInv, HasMemory, HasFrames
<1>6. ScreenInv
  BY <1>1 DEF ScreenInv, RegistrationsAreLive
<1> QED BY <1>4, <1>5, <1>6 DEF IInv

LEMMA StartStep ==
  ASSUME IInv, Start
  PROVE  IInv'
<1>1. /\ registered' \in [AllSurfaces -> Heap \cup {None}]
      /\ shown' \in [AllSurfaces -> Nat \cup {None}]
      /\ \A s \in AllSurfaces : registered'[s] = None /\ shown'[s] = None
  BY ScreenCleared DEF IInv, Start
<1>2. videodev' \in Device /\ videodev' # None /\ ~HasFrames(videodev')
  BY NewDeviceIsDevice DEF IInv, TypeOK, Start
<1>3. writing = None /\ writing' = None
  BY DEF IInv, CopyInv, Start
<1>4. TypeOK'
  BY <1>1, <1>2, <1>3 DEF IInv, TypeOK, Start
<1>5. FramesInv' /\ CopyInv'
  BY <1>2, <1>3 DEF FramesInv, CopyInv, HasMemory, HasFrames
<1>6. ScreenInv'
  BY <1>1 DEF ScreenInv, RegistrationsAreLive
<1> QED BY <1>4, <1>5, <1>6 DEF IInv

LEMMA StopStep ==
  ASSUME IInv, Stop
  PROVE  IInv'
<1>1. /\ registered' \in [AllSurfaces -> Heap \cup {None}]
      /\ shown' \in [AllSurfaces -> Nat \cup {None}]
      /\ \A s \in AllSurfaces : registered'[s] = None /\ shown'[s] = None
  BY ScreenCleared DEF IInv, Stop
<1>2. videodev' = None /\ writing' = None /\ started' = FALSE
  BY DEF Stop
<1>3. started' \in BOOLEAN
  BY <1>2
<1>4. TypeOK'
  BY <1>1, <1>2, <1>3 DEF IInv, TypeOK, Stop
<1>5. FramesInv' /\ CopyInv'
  BY <1>2 DEF FramesInv, CopyInv, HasMemory, HasFrames
<1>6. ScreenInv'
  BY <1>1 DEF ScreenInv, RegistrationsAreLive
<1> QED BY <1>4, <1>5, <1>6 DEF IInv

\* setcaps that registers nothing
LEMMA NothingRegistered ==
  ASSUME IInv, ScreenWithout(videodev), ~UnregisterCrashes(videodev),
         videodev' \in Device, ~HasMemory(videodev)',
         UNCHANGED <<isurface, started, writing, crashed>>, writing = None,
         caps' \in Caps, negotiations' \in 0..MaxNegotiations
  PROVE  IInv'
<1>1. /\ registered' \in [AllSurfaces -> Heap \cup {None}]
      /\ shown' \in [AllSurfaces -> Nat \cup {None}]
      /\ \A s \in AllSurfaces : registered'[s] = None /\ shown'[s] = None
  BY ScreenCleared DEF IInv
<1>2. videodev' # None
  BY NoneAssumption
<1>3. TypeOK'
  BY <1>1 DEF IInv, TypeOK
<1>4. FramesInv' /\ CopyInv'
  BY <1>2 DEF FramesInv, CopyInv
<1>5. ScreenInv'
  BY <1>1 DEF ScreenInv, RegistrationsAreLive
<1> QED BY <1>3, <1>4, <1>5 DEF IInv

LEMMA SetCapsStep ==
  ASSUME IInv, NEW c \in Caps, SetCaps(c)
  PROVE  IInv'
<1>1. PICK dev \in WithSurface(Sized(Unregistered(videodev), c), negotiations') :
        \E heap \in NewHeaps(dev, negotiations') :
          NoMemory(dev, heap) \/ NotRegistered(dev, heap) \/ Registered(dev, heap)
  BY DEF SetCaps
<1>2. PICK heap \in NewHeaps(dev, negotiations') :
        NoMemory(dev, heap) \/ NotRegistered(dev, heap) \/ Registered(dev, heap)
  BY <1>1
<1>3. negotiations' \in 1..MaxNegotiations
  BY MaxNegotiationsAssumption DEF SetCaps, IInv, TypeOK
<1>4. videodev \in Device
  BY DEF SetCaps, IInv, TypeOK, FramesInv
<1>5. /\ dev \in Device /\ dev # None
      /\ dev.frame_heap = None
      /\ dev.width = Aligned(c.w) /\ dev.height = Aligned(c.h)
      /\ videodev.isurface # None => dev.isurface = videodev.isurface
  BY <1>1, <1>3, <1>4, DeviceWithSurface
<1>6. /\ heap \in Heap /\ heap # None
      /\ heap.size > 0 => heap.size = 2 * FrameSize(dev)
  BY <1>2, <1>3, <1>5, NewHeapIsHeap
<1>7. /\ UNCHANGED <<isurface, started, writing, crashed>> /\ writing = None
      /\ caps' = c /\ negotiations' \in 0..MaxNegotiations
      /\ ~UnregisterCrashes(videodev)
  BY <1>3 DEF SetCaps
<1>8. CASE NoMemory(dev, heap)
  <2>1. videodev' = [dev EXCEPT !.frame_heap = heap]
    BY <1>8 DEF NoMemory
  <2>2. videodev' \in Device /\ videodev'.frame_heap = heap
    BY <1>5, <1>6, <2>1 DEF Device
  <2>3. ~HasMemory(videodev)'
    BY <1>6, <1>8, <2>2 DEF NoMemory, HasMemory
  <2> QED BY <1>7, <1>8, <2>2, <2>3, NothingRegistered DEF NoMemory
<1>9. CASE NotRegistered(dev, heap)
  <2>1. videodev' \in Device /\ ~HasMemory(videodev)'
    BY <1>5, <1>9 DEF NotRegistered, HasMemory, HasFrames
  <2> QED BY <1>7, <1>9, <2>1, NothingRegistered DEF NotRegistered
<1>10. CASE Registered(dev, heap)
  <2>1. /\ videodev' \in Device /\ videodev' # None
        /\ videodev'.frame_heap = heap
        /\ videodev'.isurface = dev.isurface
        /\ videodev'.width = Aligned(c.w) /\ videodev'.height = Aligned(c.h)
        /\ videodev'.frame_offset[0] = 0
        /\ videodev'.frame_offset[1] = FrameSize(dev)
        /\ FrameSize(videodev') = FrameSize(dev)
    BY <1>5, <1>6, <1>10, FramesDevice, NoneAssumption DEF Registered
  <2>2. dev.isurface \in AllSurfaces /\ dev.isurface # None /\ heap.size > 0
    BY <1>5, <1>10 DEF Registered, Device
  <2>3. /\ registered' = [registered EXCEPT ![dev.isurface] = heap]
        /\ shown' = [shown EXCEPT ![dev.isurface] = None]
    BY <1>10 DEF Registered
  <2>4. /\ registered \in [AllSurfaces -> Heap \cup {None}]
        /\ shown \in [AllSurfaces -> Nat \cup {None}]
    BY DEF IInv, TypeOK
  <2>5. /\ registered' \in [AllSurfaces -> Heap \cup {None}]
        /\ shown' \in [AllSurfaces -> Nat \cup {None}]
        /\ registered'[dev.isurface] = heap
    BY <1>6, <2>2, <2>3, <2>4
  <2>6. \A s \in AllSurfaces : s # dev.isurface => registered[s] = None /\ shown[s] = None
    <3>1. \A s \in AllSurfaces : registered[s] # None => s = videodev.isurface /\ s # None
      BY SurfacesAssumption, MaxNegotiationsAssumption
      DEF IInv, ScreenInv, RegistrationsAreLive, AllSurfaces
    <3> QED BY <1>5, <3>1 DEF IInv, ScreenInv
  <2>7. \A s \in AllSurfaces : /\ shown'[s] = None
                               /\ s # dev.isurface => registered'[s] = None
    BY <2>3, <2>4, <2>6
  <2>8. TypeOK'
    BY <1>7, <2>1, <2>5 DEF IInv, TypeOK
  <2>9. c # None
    BY NoneAssumption
  <2>10. FramesInv'
    BY <1>6, <1>7, <2>1, <2>2, <2>5, <2>9 DEF FramesInv
  <2>11. CopyInv'
    BY <1>7 DEF CopyInv
  <2>12. ScreenInv'
    BY <2>1, <2>5, <2>7 DEF ScreenInv, RegistrationsAreLive
  <2> QED BY <2>8, <2>10, <2>11, <2>12 DEF IInv
<1> QED BY <1>2, <1>8, <1>9, <1>10

LEMMA NextBufferAlternates ==
  ASSUME NEW i \in Buffers
  PROVE  NextBuffer(i) \in Buffers /\ NextBuffer(NextBuffer(i)) = i /\ NextBuffer(i) # i
  BY DEF NextBuffer, Buffers, MAX_FRAME_BUFFERS

LEMMA CopyStep ==
  ASSUME IInv, Copy
  PROVE  IInv'
<1> DEFINE i == NextBuffer(videodev.buf_index)
<1>1. /\ videodev' = [videodev EXCEPT !.buf_index = i]
      /\ writing' = [heap |-> videodev.frame_heap, at |-> videodev.frame_offset[i],
                     size |-> PictureSize(caps)]
      /\ writing = None /\ started /\ HasMemory(videodev) /\ caps # None
      /\ UNCHANGED <<isurface, started, caps, screenVars, negotiations, crashed>>
  BY DEF Copy
<1>2. videodev \in Device /\ videodev.frame_heap \in Heap /\ caps \in Caps
  BY <1>1 DEF IInv, TypeOK, HasMemory, HasFrames, Device
<1>3. /\ videodev.buf_index \in Buffers /\ i \in Buffers
      /\ NextBuffer(i) = videodev.buf_index
  BY <1>2, NextBufferAlternates DEF Device
<1> HIDE DEF i
<1>4. /\ videodev' \in Device
      /\ videodev'.buf_index = i
      /\ videodev'.isurface = videodev.isurface
      /\ videodev'.frame_heap = videodev.frame_heap
      /\ videodev'.frame_offset = videodev.frame_offset
      /\ videodev'.width = videodev.width /\ videodev'.height = videodev.height
  BY <1>1, <1>2, <1>3 DEF Device
<1>5. videodev.frame_offset[i] \in Nat /\ PictureSize(caps) \in Nat
  BY <1>1, <1>2, <1>3, PictureFits DEF IInv, FramesInv, Device
<1>6. writing' \in Copies
  BY <1>1, <1>2, <1>5 DEF Copies
<1>7. videodev' # None /\ writing' # None /\ HasMemory(videodev)'
  BY <1>1, <1>4, <1>6, NoneAssumption DEF HasMemory, HasFrames
<1>8. TypeOK'
  BY <1>1, <1>4, <1>6 DEF IInv, TypeOK, screenVars
<1>9. FramesInv'
  BY <1>1, <1>4, <1>7 DEF IInv, FramesInv, FrameSize, screenVars
<1>10. CopyInv'
  BY <1>1, <1>4, <1>7 DEF CopyInv
<1>11. ScreenInv'
  BY <1>1, <1>3, <1>4, <1>7 DEF IInv, ScreenInv, RegistrationsAreLive, screenVars
<1> QED BY <1>8, <1>9, <1>10, <1>11 DEF IInv

LEMMA PostStep ==
  ASSUME IInv, Post
  PROVE  IInv'
<1>1. /\ writing # None /\ writing' = None
      /\ shown' = [shown EXCEPT ![videodev.isurface] =
                                  videodev.frame_offset[videodev.buf_index]]
      /\ UNCHANGED <<isurface, started, caps, videodev, registered, negotiations, crashed>>
  BY DEF Post
<1>2. HasMemory(videodev) /\ started
  BY <1>1 DEF IInv, CopyInv
<1>3. videodev \in Device /\ videodev # None
  BY <1>2 DEF IInv, TypeOK, HasMemory, HasFrames
<1>4. videodev.isurface \in AllSurfaces /\ registered[videodev.isurface] = videodev.frame_heap
  BY <1>2, <1>3 DEF IInv, FramesInv, Device
<1>5. videodev.frame_offset[videodev.buf_index] \in Nat
  BY <1>3 DEF Device
<1>6. shown' \in [AllSurfaces -> Nat \cup {None}]
  BY <1>1, <1>5 DEF IInv, TypeOK
<1>7. TypeOK'
  BY <1>1, <1>6 DEF IInv, TypeOK
<1>8. FramesInv' /\ CopyInv'
  BY <1>1, <1>2 DEF IInv, FramesInv, CopyInv, HasMemory, HasFrames
<1>9. \A s \in AllSurfaces : shown'[s] # None =>
        /\ registered[s] # None
        /\ shown'[s] = videodev.frame_offset[videodev.buf_index]
  <2> SUFFICES ASSUME NEW s \in AllSurfaces, shown'[s] # None
               PROVE  /\ registered[s] # None
                      /\ shown'[s] = videodev.frame_offset[videodev.buf_index]
    OBVIOUS
  <2>1. CASE s = videodev.isurface
    BY <1>1, <1>2, <1>4, <2>1 DEF IInv, TypeOK, HasMemory, HasFrames
  <2>2. CASE s # videodev.isurface
    BY <1>1, <2>2 DEF IInv, TypeOK, ScreenInv, RegistrationsAreLive
  <2> QED BY <2>1, <2>2
<1>10. ScreenInv'
  BY <1>1, <1>2, <1>9 DEF IInv, ScreenInv, RegistrationsAreLive, HasMemory, HasFrames
<1> QED BY <1>7, <1>8, <1>10 DEF IInv

\* Crashes, and set_property
LEMMA NothingTouched ==
  ASSUME IInv, isurface' \in Surfaces \cup {None}, crashed' \in BOOLEAN,
         UNCHANGED <<started, caps, deviceVars, screenVars, negotiations>>
  PROVE  IInv'
  BY DEF IInv, TypeOK, FramesInv, CopyInv, ScreenInv, RegistrationsAreLive, HasMemory,
         HasFrames, deviceVars, screenVars

LEMMA Step == IInv /\ [Next]_vars => IInv'
<1> SUFFICES ASSUME IInv, [Next]_vars PROVE IInv'
  OBVIOUS
<1>0. isurface \in Surfaces \cup {None} /\ crashed \in BOOLEAN
  BY DEF IInv, TypeOK
<1>1. ASSUME NEW s \in Surfaces \cup {None}, SetProperty(s) PROVE IInv'
  BY <1>0, <1>1, NothingTouched DEF SetProperty
<1>2. CASE Start
  BY <1>2, StartStep
<1>3. CASE Stop
  BY <1>3, StopStep
<1>4. ASSUME NEW c \in Caps, SetCaps(c) PROVE IInv'
  BY <1>4, SetCapsStep
<1>5. CASE Crash
  BY <1>0, <1>5, NothingTouched DEF Crash
<1>6. CASE Copy
  BY <1>6, CopyStep
<1>7. CASE Post
  BY <1>7, PostStep
<1>8. CASE UNCHANGED vars
  BY <1>0, <1>8, NothingTouched DEF vars
<1> QED
  BY <1>1, <1>2, <1>3, <1>4, <1>5, <1>6, <1>7, <1>8
  DEF Next, SetCapsCrashes, UnregisterNothing, CopyCrashes

LEMMA Invariance == Spec => []IInv
  BY InitIInv, Step, PTL DEF Spec

-----------------------------------------------------------------------------
\* The types of the video sink.
THEOREM TypeCorrect == Spec => []TypeOK
<1>1. IInv => TypeOK
  BY DEF IInv
<1> QED BY <1>1, Invariance, PTL

\* SurfaceFlinger never shows a heap that the device has let go.
THEOREM RegistrationsLive == Spec => []RegistrationsAreLive
<1>1. IInv => RegistrationsAreLive
  BY DEF IInv, ScreenInv
<1> QED BY <1>1, Invariance, PTL

\* Pictures are only copied to a heap that SurfaceFlinger has.
THEOREM PicturesSeen == Spec => []PicturesAreSeen
<1>1. IInv => PicturesAreSeen
  BY DEF IInv, CopyInv, FramesInv, PicturesAreSeen
<1> QED BY <1>1, Invariance, PTL

\* What is known while a picture is being copied.
LEMMA Copying ==
  ASSUME IInv, writing # None
  PROVE  /\ FrameSize(videodev) \in Nat
         /\ writing.heap.size = 2 * FrameSize(videodev)
         /\ writing.size \in Nat /\ writing.size <= FrameSize(videodev)
         /\ videodev.buf_index \in Buffers
         /\ writing.at = videodev.frame_offset[videodev.buf_index]
         /\ videodev.frame_offset[0] = 0
         /\ videodev.frame_offset[1] = FrameSize(videodev)
<1>1. HasMemory(videodev)
  BY DEF IInv, CopyInv
<1>2. videodev \in Device /\ caps \in Caps
  BY <1>1 DEF IInv, TypeOK, HasMemory, HasFrames, FramesInv
<1> QED BY <1>1, <1>2, FrameSizeIsNat, PictureFits DEF IInv, CopyInv, FramesInv, Device

\* A picture of any size stays within its frame.
THEOREM Fit == Spec => []PicturesFit
<1>1. ASSUME IInv, writing # None
      PROVE  \E i \in Buffers :
               /\ writing.at = i * (writing.heap.size \div MAX_FRAME_BUFFERS)
               /\ writing.size <= writing.heap.size \div MAX_FRAME_BUFFERS
  <2> DEFINE f == FrameSize(videodev)
  <2>1. f \in Nat /\ writing.heap.size = 2 * f
    BY <1>1, Copying
  <2> HIDE DEF f
  <2>2. writing.heap.size \div MAX_FRAME_BUFFERS = f
    BY <2>1 DEF MAX_FRAME_BUFFERS
  <2>3. videodev.buf_index \in {0, 1} /\ writing.at = videodev.buf_index * f
    BY <1>1, <2>1, Copying DEF Buffers, MAX_FRAME_BUFFERS, f
  <2>4. writing.size <= f
    BY <1>1, Copying DEF f
  <2> QED BY <2>2, <2>3, <2>4 DEF Buffers, MAX_FRAME_BUFFERS
<1>2. IInv => PicturesFit
  BY <1>1 DEF PicturesFit
<1> QED BY <1>2, Invariance, PTL

\* What is on the screen is never written to.
THEOREM DoubleBuffered == Spec => []NoTearing
<1>1. ASSUME IInv, NEW s \in AllSurfaces, writing # None, shown[s] # None
      PROVE  \/ writing.at + writing.size <= shown[s]
             \/ shown[s] + writing.heap.size \div MAX_FRAME_BUFFERS <= writing.at
  <2> DEFINE f == FrameSize(videodev)
  <2>1. f \in Nat /\ writing.heap.size = 2 * f /\ writing.size \in Nat /\ writing.size <= f
    BY <1>1, Copying
  <2>2. \/ writing.at = 0 /\ shown[s] = f
        \/ writing.at = f /\ shown[s] = 0
    BY <1>1, Copying
    DEF IInv, ScreenInv, NextBuffer, Buffers, MAX_FRAME_BUFFERS
  <2> HIDE DEF f
  <2> QED BY <2>1, <2>2 DEF MAX_FRAME_BUFFERS
<1>2. IInv => NoTearing
  BY <1>1 DEF NoTearing
<1> QED BY <1>2, Invariance, PTL
=============================================================================

-------------------------- MODULE SurfaceFlingerSink --------------------------
(***************************************************************************)
(* The video sink, gstsurfaceflingersink.c, with the device it drives,     *)
(* surfaceflinger_wrap.cpp, and what SurfaceFlinger knows of them.         *)
(*                                                                         *)
(* The device owns a heap with two frames.  It registers the heap with a   *)
(* surface, the application's or one of its own, copies each picture into  *)
(* the frame that is not on the screen, and posts that.  setcaps always    *)
(* asks for RGB 565, so the format check of the device never fails.        *)
(***************************************************************************)
EXTENDS Integers

CONSTANTS Caps,             \* the sizes of the pictures
          Surfaces,         \* the application's surfaces
          MaxNegotiations,  \* bound of the model: calls of setcaps
          Failures,         \* what may fail of "surface", "heap", "register"
          None

ASSUME CapsAssumption == Caps \subseteq [w : Nat \ {0}, h : Nat \ {0}]
ASSUME MaxNegotiationsAssumption == MaxNegotiations \in Nat
ASSUME FailuresAssumption == Failures \subseteq {"surface", "heap", "register"}
ASSUME SurfacesAssumption == Surfaces \cap Nat = {} /\ None \notin Surfaces \cup Nat

VARIABLES
  isurface,      \* the sink's property "surface"
  started,       \* between start and stop
  caps,          \* of the pictures that come, or None before the first setcaps
  videodev,      \* the VideoFlingerDevice, or None
  writing,       \* the part of the heap the streaming thread copies to, or None
  registered,    \* SurfaceFlinger: the heap of a surface, or None
  shown,         \* SurfaceFlinger: the offset it shows of that, or None
  negotiations,  \* calls of setcaps so far, which number heaps and own surfaces
  crashed        \* a null pointer was used

deviceVars == <<videodev, writing>>
screenVars == <<registered, shown>>
vars == <<isurface, started, caps, deviceVars, screenVars, negotiations, crashed>>

MAX_FRAME_BUFFERS == 2
Buffers == 0 .. MAX_FRAME_BUFFERS - 1
NoOffsets == [i \in Buffers |-> 0]

\* Own surfaces have the number of the negotiation they were made in.
AllSurfaces == Surfaces \cup 1..MaxNegotiations

\* A heap without memory has size 0.
Heap == [id : 1..MaxNegotiations, size : Nat]

Device == [isurface : AllSurfaces \cup {None},
           surface : [w : Nat, h : Nat] \cup {None},
           frame_heap : Heap \cup {None},
           frame_offset : [Buffers -> Nat],
           width : Nat, height : Nat,
           buf_index : Buffers]

\* A picture on its way into a heap.
Copies == [heap : Heap, at : Nat, size : Nat]

ASSUME NoneAssumption == None \notin Device \cup Heap \cup Copies \cup Caps

TypeOK ==
  /\ isurface \in Surfaces \cup {None}
  /\ started \in BOOLEAN
  /\ caps \in Caps \cup {None}
  /\ videodev \in Device \cup {None}
  /\ writing \in Copies \cup {None}
  /\ registered \in [AllSurfaces -> Heap \cup {None}]
  /\ shown \in [AllSurfaces -> Nat \cup {None}]
  /\ negotiations \in 0..MaxNegotiations
  /\ crashed \in BOOLEAN

Init ==
  /\ isurface = None
  /\ started = FALSE
  /\ caps = None
  /\ videodev = None
  /\ writing = None
  /\ registered = [s \in AllSurfaces |-> None]
  /\ shown = [s \in AllSurfaces |-> None]
  /\ negotiations = 0
  /\ crashed = FALSE

-----------------------------------------------------------------------------
(* Sizes *)

\* Mutant: odd sizes stay odd.
Unaligned(n) == n

\* (n + 1) & -2
Aligned(n) == ((n + 1) \div 2) * 2

\* int frameSize = videodev->width * videodev->height * 2
FrameSize(dev) == dev.width * dev.height * 2

\* A picture in RGB 16: its lines are rounded up to 4 bytes.
PictureSize(c) == (((2 * c.w + 3) \div 4) * 4) * c.h

\* Mutant: one buffer is used for everything.
SameBuffer(i) == i

\* if (++videodev->buf_index == MAX_FRAME_BUFFERS) videodev->buf_index = 0
NextBuffer(i) == IF i + 1 = MAX_FRAME_BUFFERS THEN 0 ELSE i + 1

AtMost(limit, n) == IF n > limit THEN limit ELSE n

-----------------------------------------------------------------------------
(* The device *)

HasFrames(dev) == dev # None /\ dev.frame_heap # None

HasMemory(dev) == HasFrames(dev) /\ dev.frame_heap.size > 0

\* videoflinger_device_unregister_framebuffers
Unregistered(dev) ==
  IF HasFrames(dev)
    THEN [dev EXCEPT !.frame_heap = None, !.frame_offset = NoOffsets,
                     !.width = 0, !.height = 0, !.buf_index = 0]
    ELSE dev

\* It calls the surface without looking if there is one.
UnregisterCrashes(dev) == HasFrames(dev) /\ dev.isurface = None

\* Mutant: the buffers stay registered.
ScreenUntouched(dev) == UNCHANGED screenVars

\* SurfaceFlinger takes the picture of the device off the screen.
ScreenWithout(dev) ==
  IF HasFrames(dev)
    THEN /\ registered' = [registered EXCEPT ![dev.isurface] = None]
         /\ shown' = [shown EXCEPT ![dev.isurface] = None]
    ELSE UNCHANGED screenVars

\* videoflinger_device_create
NewDevice(s) ==
  [isurface |-> s, surface |-> None, frame_heap |-> None, frame_offset |-> NoOffsets,
   width |-> 0, height |-> 0, buf_index |-> 0]

\* The device when the sizes of c are set.
Sized(dev, c) == [dev EXCEPT !.width = Aligned(c.w), !.height = Aligned(c.h)]

\* "create isurface internally, if no ISurface interface input", and
\* videoflinger_device_create_new_surface; that it failed is not looked at.
WithSurface(dev, n) ==
  IF dev.isurface # None
    THEN {dev}
    ELSE {[dev EXCEPT !.isurface = n,
                      !.surface = [w |-> AtMost(320, dev.width),
                                   h |-> AtMost(320, dev.height)]]}
         \cup {dev : f \in Failures \cap {"surface"}}

\* new MemoryHeapBase(frameSize * MAX_FRAME_BUFFERS)
NewHeaps(dev, n) ==
  {[id |-> n, size |-> FrameSize(dev) * MAX_FRAME_BUFFERS]}
    \cup {[id |-> n, size |-> 0] : f \in Failures \cap {"heap"}}

-----------------------------------------------------------------------------
(* The sink *)

Running == ~crashed

Crash ==
  /\ crashed' = TRUE
  /\ UNCHANGED <<isurface, started, caps, deviceVars, screenVars, negotiations>>

\* set_property: the next start uses it.
SetProperty(s) ==
  /\ Running
  /\ isurface' = s
  /\ UNCHANGED <<started, caps, deviceVars, screenVars, negotiations, crashed>>

\* start: "release previous video device", "create a new video device"
Start ==
  /\ Running
  /\ ~started
  /\ ~UnregisterCrashes(videodev)
  /\ started' = TRUE
  /\ ScreenWithout(videodev)
  /\ videodev' = NewDevice(isurface)
  /\ caps' = None
  /\ UNCHANGED <<isurface, writing, negotiations, crashed>>

\* stop: the device is released.  The streaming thread is out of the sink.
Stop ==
  /\ Running
  /\ started
  /\ writing = None
  /\ ~UnregisterCrashes(videodev)
  /\ started' = FALSE
  /\ ScreenWithout(videodev)
  /\ videodev' = None
  /\ UNCHANGED <<isurface, caps, writing, negotiations, crashed>>

\* register_framebuffers: the heap has no memory, setcaps says TRUE.
NoMemory(dev, heap) ==
  /\ heap.size = 0
  /\ videodev' = [dev EXCEPT !.frame_heap = heap]
  /\ ScreenWithout(videodev)

\* Mutant: the heap is kept.
NotRegisteredKept(dev, heap) ==
  /\ "register" \in Failures
  /\ heap.size > 0
  /\ dev.isurface # None
  /\ videodev' = [dev EXCEPT !.frame_heap = heap]
  /\ ScreenWithout(videodev)

\* register_framebuffers: SurfaceFlinger refuses the heap, setcaps says TRUE.
NotRegistered(dev, heap) ==
  /\ "register" \in Failures
  /\ heap.size > 0
  /\ dev.isurface # None
  /\ videodev' = dev
  /\ ScreenWithout(videodev)

\* Mutant: the first picture is to go to the first buffer.
FramesFromTheFirst(dev, heap) ==
  [dev EXCEPT !.frame_heap = heap,
              !.frame_offset = [i \in Buffers |-> i * FrameSize(dev)],
              !.buf_index = MAX_FRAME_BUFFERS]

\* "use double buffer in post"
Frames(dev, heap) ==
  [dev EXCEPT !.frame_heap = heap,
              !.frame_offset = [i \in Buffers |-> i * FrameSize(dev)],
              !.buf_index = 0]

\* register_framebuffers succeeds.
Registered(dev, heap) ==
  /\ heap.size > 0
  /\ dev.isurface # None
  /\ videodev' = Frames(dev, heap)
  /\ registered' = [registered EXCEPT ![dev.isurface] = heap]
  /\ shown' = [shown EXCEPT ![dev.isurface] = None]

\* setcaps, in the streaming thread
SetCaps(c) ==
  /\ Running
  /\ started
  /\ writing = None
  /\ negotiations < MaxNegotiations
  /\ ~UnregisterCrashes(videodev)
  /\ negotiations' = negotiations + 1
  /\ caps' = c
  /\ \E dev \in WithSurface(Sized(Unregistered(videodev), c), negotiations') :
       \E heap \in NewHeaps(dev, negotiations') :
         \/ NoMemory(dev, heap)
         \/ NotRegistered(dev, heap)
         \/ Registered(dev, heap)
  /\ UNCHANGED <<isurface, started, writing, crashed>>

\* setcaps calls the surface that could not be made.
SetCapsCrashes(c) ==
  /\ Running
  /\ started
  /\ writing = None
  /\ \E dev \in WithSurface(Sized(Unregistered(videodev), c), negotiations) :
       /\ dev.isurface = None
       /\ \E heap \in NewHeaps(dev, negotiations) : heap.size > 0
  /\ Crash

\* Stop, and setcaps, unregister buffers of a surface that is not there.
UnregisterNothing ==
  /\ Running
  /\ started
  /\ writing = None
  /\ UnregisterCrashes(videodev)
  /\ Crash

\* render, videoflinger_device_post: the picture is copied into the other frame,
\* while SurfaceFlinger may draw.
Copy ==
  /\ Running
  /\ started
  /\ caps # None
  /\ writing = None
  /\ HasMemory(videodev)
  /\ LET i == NextBuffer(videodev.buf_index)
     IN  /\ videodev' = [videodev EXCEPT !.buf_index = i]
         /\ writing' = [heap |-> videodev.frame_heap,
                        at |-> videodev.frame_offset[i],
                        size |-> PictureSize(caps)]
  /\ UNCHANGED <<isurface, started, caps, screenVars, negotiations, crashed>>

\* The device has no heap, or one without memory.
CopyCrashes ==
  /\ Running
  /\ started
  /\ caps # None
  /\ writing = None
  /\ ~HasMemory(videodev)
  /\ Crash

\* videoflinger_device_post: postBuffer
Post ==
  /\ Running
  /\ writing # None
  /\ writing' = None
  /\ shown' = [shown EXCEPT
                 ![videodev.isurface] = videodev.frame_offset[videodev.buf_index]]
  /\ UNCHANGED <<isurface, started, caps, videodev, registered, negotiations, crashed>>

Next ==
  \/ \E s \in Surfaces \cup {None} : SetProperty(s)
  \/ Start
  \/ Stop
  \/ \E c \in Caps : SetCaps(c)
  \/ \E c \in Caps : SetCapsCrashes(c)
  \/ UnregisterNothing
  \/ Copy
  \/ CopyCrashes
  \/ Post

Spec == Init /\ [][Next]_vars

-----------------------------------------------------------------------------
(* Properties *)

\* SurfaceFlinger shows nothing of a device that is gone, nor of a heap it gave
\* up: whatever is registered is the heap the device has now, with the surface it
\* draws on.  Renegotiation, stop and start unregister before they let go.
RegistrationsAreLive ==
  \A s \in AllSurfaces :
    registered[s] # None =>
      /\ videodev # None
      /\ videodev.isurface = s
      /\ videodev.frame_heap = registered[s]

\* A picture stays within the frame it is copied to, for odd sizes too: the lines
\* of the picture are as long as those of the frame.
PicturesFit ==
  writing # None =>
    \E i \in Buffers :
      /\ writing.at = i * (writing.heap.size \div MAX_FRAME_BUFFERS)
      /\ writing.size <= writing.heap.size \div MAX_FRAME_BUFFERS

\* What SurfaceFlinger shows is never written to: "use double buffer in post".
NoTearing ==
  \A s \in AllSurfaces :
    writing # None /\ registered[s] = writing.heap /\ shown[s] # None =>
      \/ writing.at + writing.size <= shown[s]
      \/ shown[s] + writing.heap.size \div MAX_FRAME_BUFFERS <= writing.at

\* A picture is copied only to where SurfaceFlinger will find it.  setcaps says TRUE
\* whether or not it could register the heap, and render goes on all the same.
PicturesAreSeen ==
  writing # None => registered[videodev.isurface] = writing.heap
=============================================================================

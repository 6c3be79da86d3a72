# A specification of gst-plugins-android2

TLA+ modules, TLC runs and TLAPS proofs for the Android media player in `src/`:
a player (`player/`) that drives one GStreamer `playbin2`, and the two sinks it
plays to (`sink/`). GStreamer, SurfaceFlinger, AudioFlinger and the media player
service are not part of the repository; they are modelled as far as this code
relies on them, and marked external in the map.

## 1. Inventory

| Part | State | Operations | Meets the others through |
|---|---|---|---|
| `GstPlayer` (`player/GstPlayer.cpp`) | the pipeline object, surface and stream type it only stores | the `MediaPlayerInterface` calls | calls `GstPlayerPipeline`; its listener gets the events |
| `GstPlayerPipeline` (`player/GstPlayerPipeline.cpp`) | `mPlayBin`, `mActionMutex`, `mBusMessageThread`, `mSeeking`, `mSeekState`, `mAsynchPreparePending`, `mIsLooping` | `setDataSource` ... `setLooping`, constructor, destructor, `bus_callback` and the `handle...` methods | clients' threads and its bus thread share it under the mutex; playbin2 posts messages to the bus |
| file descriptor source (same file) | `mLength`, `mOffset`, `mMemBase` | `setDataSource(fd)`, `playbin2_found_source`, `appsrc_need_data`, `appsrc_seek_data`, the `munmap` in `delete_pipeline` | called by the appsrc in the streaming thread, without the mutex |
| `surfaceflingersink` and `VideoFlingerDevice` (`sink/surfaceflingersink`) | device: surface, heap, two frame offsets, index; sink: property, caps | `start`, `stop`, `setcaps`, `render`, `set_property` | streaming thread; SurfaceFlinger reads the heap concurrently |
| `audioflingersink` and `AudioFlingerDevice` (`sink/audioflingersink`) | device handle, `m_init`, volume, mute; the device's `init` | `open`, `prepare`, `write`, `unprepare`, `close`, `reset`, `change_state`, properties | ring buffer thread, state changing thread, streaming thread, the service's `AudioSink` |
| initialisation (`init_gst`, `gst.conf`) | `gst_inited` | `init_gst` | every constructor |
| main loops | `mMainLoop`, a watch on the default context | `g_main_loop_run`, `g_main_loop_quit` | bus threads of all players share the context |
| logging, build files, test programs | none | | |

Hard behaviours: the mutex is held while a call waits for playbin2 and is not
recursive; state messages are handled long after they were posted; seek and
`prepareAsync()` are reported by whichever message looks right; the destructor
has to let the bus thread in to be able to join it, and the bus thread of one
player handles the messages of another; the appsrc and the callbacks each have an
idea of the read position; a heap is replaced while SurfaceFlinger draws from it;
the audio sink is touched by four threads, and only one of them takes a lock.
`PROJECT.json` lists each hazard with its line.

What makes each part correct:

* player: every call returns, the mutex is given back by its owner only, a
  waiting call gets the state it waits for, each accepted seek is reported, and each
  prepare unless a `stop()` takes it back, `isPlaying()` is right, and nothing runs
  once the destructor is done.
* file source: a pull gets the bytes it asked for, from mapped memory.
* video sink: SurfaceFlinger never has a dead heap, pictures fit, are seen, and
  are not written while they are drawn.
* audio sink: `m_init` says what the device is, the device sounds in PLAYING and,
  but for a flushing seek, at no other time, volume and mute reach it, and a change of state or a
  renegotiation does not hang on the writer.
* initialisation and main loops: nobody goes on before GStreamer is initialised;
  the messages of a player are handled in order, whoever handles them, and its
  QUIT ends its own thread.

## 2. Modules

| Module | What it is |
|---|---|
| `PlayBin` | playbin2 and its bus: `state`, `target`, `failed`, `atEos`, `bus`. External. A change of state is made at once, or begun (`SetState`) and ended by `Preroll` or `PrerollFails`; each change posts what the GStreamer documentation says it posts. A flushing seek loses the state and gets it back. |
| `GstPlayerPipeline` | the player. Extends `PlayBin`; implements `Mailboxes` for one player (`Mail == INSTANCE Mailboxes`). |
| `MCGstPlayerPipeline` | symmetry of the clients for TLC. |
| `Mailboxes` | what the buses of players promise. Abstract. |
| `MainLoops` | several players, their buses and the default context; implements `Mailboxes` (`Mail == INSTANCE Mailboxes`). |
| `SourceFile` | what a random access source promises. Abstract. |
| `AppSource` | the file descriptor source; implements `SourceFile` (`File == INSTANCE SourceFile`). |
| `SurfaceFlingerSink`, `MCSurfaceFlingerSink` | the video sink, its device, and what SurfaceFlinger has been told. |
| `AudioFlingerSink` | the audio sink, its device, the ring buffer that calls it, and what the output does. |
| `PlayBinProofs`, `GstPlayerPipelineProofs`, `RequestProofs`, `PlayerMailboxProofs`, `MainLoopsProofs`, `AppSourceProofs`, `SurfaceFlingerSinkProofs`, `AudioFlingerSinkProofs` | theorems. |

### `GstPlayerPipeline` and the code

A call is up to three steps: `Call` (a client thread is in the method), the
action named for the method (it takes `mActionMutex` and runs to its return or to
`gst_element_get_state`), and `PrepareSettled`, `CallSettled` or `SeekToSettled`
(`gst_element_get_state` returns). Between the last two the thread holds the
mutex in `pc = "wait"`. `bus_callback` is one step per message, since it runs
under the mutex from end to end, except when `handleEos` calls `start()`: the bus
thread is then in a call like any other, with the mutex already taken. Methods
that return without UNLOCK leave `mActionMutex` with a thread that is `idle`.
`Delete` and `DeleteJoined` are the destructor before and after `g_thread_join`.
`reset()` is `stop()`. Data left out: URLs (right or wrong: `BadInputs`), positions,
tags, the video size (`MEDIA_SET_VIDEO_SIZE` goes with `MEDIA_PREPARED`).
`GstPlayer::setVideoSurface` only stores its argument;
`GstPlayerPipeline::setVideoSurface` is modelled as a call of its own.

`sent` holds the events of the latest step; it exists for the properties.

### `MainLoops` and the code

Every player has its own `GMainLoop`, but on the default context (`NULL`, line
534), so one bus thread at a time owns the context and dispatches the watches of
all buses. `MainLoops` keeps of each player what the others can feel: the life of
its client's thread (`pc`), its mutex, its bus, `is_running` of its loop, and its
thread. `init_gst` is three steps, `InitGst` (the flag is looked at), `GstInitReturns`
and `InitGstEnds` (the flag is set), so that constructors overlap at each of them; what
a second `gst_init` does is not in the repository. `RunLoop`, `GetContext`, `LeaveLoop`, `Iterate` and `Dispatch` are
`g_main_loop_run`: external. `BusCallback` is the whole of `bus_callback` but for
one case, EOS of a player in `Looping`: `PlayAgain` is `handleEos` calling `start()`,
where the bus thread asks for the mutex it has, and stays. The other messages differ
only in what `GstPlayerPipeline` models. `Locks` is the LOCK of both.
`BusCallbackCrashes` is the same function on a player that has been freed, which
is possible since the watch is not removed. `GstPlayerPipeline` has one player
and one thread for its bus; there, nothing can be left in the hand of another
thread.

`Mailboxes` is what each player is promised: messages are taken and handled one at
a time, in order, never while a call has the player's mutex, and all of them while
the player is open; a player that closes posts a last message, and is not closed
before that one has been handled. What is posted behind it is lost. `MainLoops` and
`GstPlayerPipeline` both implement it. The refinement maps `pc` to a phase
(`Life`), the mutex to `held`, QUIT to the last message and, in `MainLoops`, the
call of `bus_callback` in progress to the message in hand (`InHand`): there a
message is taken and handled in two steps, in `GstPlayerPipeline` in one
(`HandleAtOnce`). A handler may keep the mutex (`held = "handler"`): it is in the
`start()` of a looping player, which is then neither served nor closed, and no other
player is promised service, because the thread may be the one they share. `Break` is there because the code may break: a message still in hand when
its player has closed. `GstPlayerPipeline` never takes that step.

### `AppSource` and the code

The appsrc calls `seek_data` when a pull is not where its last answer ended
(`position`), then `need_data`. `NeedData`, `NeedDataFlushed` and
`NeedDataOutside` are the three ways through `appsrc_need_data`. `state` is
playbin2 as far as the source sees it: sources are set when it does not stream,
and `DeletePipeline` is final.

`appsrc_need_data` moves `mOffset` also when the push is refused (349-354), so
`SourceFile` has a state for it, `astray`: answers are then later bytes of the
file than were asked for, until a pull jumps or everything is flushed.

### `SurfaceFlingerSink` and the code

`SetCaps` is `setcaps` with `register_framebuffers` and, if there is no surface,
`create_new_surface`; `NoMemory`, `NotRegistered` and `Registered` are its ends.
`render` is two steps, `Copy` (memcpy) and `Post`, because SurfaceFlinger draws
meanwhile. A call through a null pointer ends the process (`crashed`).

### `AudioFlingerSink` and the code

Four threads: the one that changes the state (`change` is the part of the change
that is left), the streaming thread in `setcaps` (`streaming`: joining the writer,
setting the device, its volume, its mute), the writer (`left` bytes of its
segment), and whoever sets a property (`property` is what has been stored and not
passed on). `prepare` is three steps, `PrepareDevice`, `PrepareVolume`,
`PrepareMute`, because it reads `m_volume` and `m_mute` and stores them again
without the lock of `set_property`. The device is one record with its kind, an
`AudioTrack` of its own (`"track"`) or the `AudioSink` of the service (`"sink"`);
`output` is what each of the two does. Volumes are in hundredths, so that the
factor 100 of `set_property` is visible. `change_state` starts and pauses the
device around the base class: `StartDevice`/`StartEnds`,
`PauseDevice`/`PauseEnds`. `Release` is `gst_ring_buffer_release` with `unprepare`;
the base class joins the writer first, which waits for the end of its segment.
A flushing seek is `Flush` in PAUSED and `FlushPlaying` in PLAYING: there the base
class goes back to PAUSED by `gst_element_lost_state`, and line 566 is not run, so the
device plays on (`lost`) until it is started, prepared or stopped again.
`PrepareCrashes` is the FIXME at 403: a device that is created after another has been
released (`released`) may crash in `audioflinger_device_set`; why is not in the source.
`formatChanges` is chosen at the start: whether this stream is renegotiated while
it plays. `raced` remembers that a property was set while `prepare` passed the
properties on.

## 3. Runs

Passing:

| Run | Question | Bounds and why they are enough |
|---|---|---|
| `Careful` | Is every request reported, for a client that keeps the protocol (one call at a time, prepares a stopped player, lets a seek end before `start()`)? | 1 client; 3 undelivered messages before a call: a stale message of an earlier request, one of the seek and one of a child element fit at once. About 23 000 states. |
| `Threads` | Do two client threads, calling as they like, deadlock, disturb each other's waits, or outlive the player, and is the bus a mailbox that is served? | 2 clients: a waiter and one who disturbs it; backlog 1 when a call begins, more while it runs. `setDataSource` is left out since it may leak the mutex; `Wedged` has it. 23 142 states. |
| `Wedged` | Does any call, with wrong arguments, failed construction and a leaked mutex, release a mutex that is not its own, or leave a destructor joining a thread that cannot end? | 2 clients, all calls, all failures, symmetric clients. Deadlock is not checked: a leaked mutex stops everyone. 672 008 states. |
| `TwoPlayers` | Do players that share a context get their messages in order, and each of them; which waits for joins, context and mutexes close a circle; does each destructor end; and which thread alone may come too late? | 2 players, one of which loops: one whose thread has the context and one that waits for it, deletes itself or is deleted at every point; 2 messages on a bus, and QUIT. 23 085 states. The bus thread of a looping player at EOS stops for ever: `Terminated`. |
| `FileSource` | Does the file source answer from mapped memory, and each pull from where it asked, but for the refused pushes? | files of 0, 1, 3 bytes; pulls of 1 and 2: before, across, at and past the end. Two sources, so that offsets of the first could survive; flushes and refused pushes at every point. 273 186 states. Deadlock is not checked, since nothing follows destruction. |
| `Display` | Does SurfaceFlinger ever see a dead, torn or overrun frame, whatever fails? | pictures 1x1, 3x2, 2x3 (odd either way); 3 negotiations over any number of restarts; the application's surface or one of the sink's own. 986 states. Deadlock is not checked: a crash ends it. |
| `Audio` | Does the device play when, and only when, it should, with the properties it should have, and does nothing wait for the writer for ever? | one volume and silence (and their percents); a segment of 2 bytes, so that a write may take none, a part, all or more; any number of restarts, negotiations and failures. 772 208 states. Deadlock is not checked: a property set in the middle of `close` uses a released device, which ends it, and so may the crash of the FIXME. |

Violations, each a disagreement between the code and what it says of itself
(`findings` quotes both):

| Run | What TLC finds |
|---|---|
| `LoopRestart` | `handleEos` of a looping player calls `start()` under the mutex of `bus_callback`; the bus thread waits for itself for ever. |
| `StalePrepared` | `prepareAsync(); stop(); prepareAsync()`: the PAUSED message of the first request reports the second, which has not begun. |
| `LeakedMutex` | a URL with an unknown scheme leaves the mutex locked; the destructor never ends. |
| `FreedCallback` | the thread of one player has taken a message of another, whose destructor joins only its own thread: `bus_callback` locks the mutex of a freed player. |
| `InitOnce` | two constructors overlap: both find `gst_inited` unset and both call `gst_init`, which line 45 says can be called only once. `InitedBeforeUse` is what the flag does give. |

### Seen while modelling, without a run

In the player:

* `start()` during a seek that began in PAUSED: the seek is never reported (902;
  1020 has the comment that `pause()` moves `mSeekState` along). `Careful = TRUE`
  in a passing run is the protocol the code needs, not one it enforces.
* The message of a `start()` that is delivered after `seekTo()` reports the seek
  while it runs (1336).
* `prepareAsync(); stop()` drops the request unreported, an ordinary sequence that
  reaches the warning "mAsynchPreparePending shall not be true!" (994).
  `PrepareAnswered` therefore has three ends of a request: reported, failed, or taken
  back; without the third TLC finds this sequence.
* A looping player at EOS (`LoopRestart`) stops the thread that has the context, and
  with it the messages and the destructors of all other players: the exception in
  `MailServed`, `QuitEndsTheThread` and `OnlyRestartsDeadlock`.
* An EOS message of before a seek is reported as the end of playback (1261).
* If another player's thread handles QUIT before the own bus thread has entered
  `g_main_loop_run`, which sets `is_running` again, the destructor never ends
  (604). `QuitEndsTheThread` starts where the thread is in its loop.
* `GstPlayer::seekTo` compares with `mDuration`, which stays -1
  (`player/GstPlayer.cpp:43, 222`); `setDataSource(fd)` ignores offset and length.
* With `MmapMayFail = TRUE`, `BuffersAreMapped` fails: the result of `mmap` is not
  looked at (745).

In the sinks:

* The video sink's own surface is cut at 320x320 where the comment says 320x240
  (`surfaceflinger_wrap.cpp:106, 122`); `setcaps` goes on without a surface or a
  registered heap, and the process crashes (`SetCapsCrashes`, `CopyCrashes`).
* A volume set while the device is initialised is passed on, and stored back, times
  100 (302, 548); the property ranges from 0.0 to 10.0 (205), and `prepare` passes it
  on as it is (420). `AllVolumes` has the percentages.
* A flushing seek in PLAYING leaves the device playing in PAUSED, and `pause()` in
  that seek does not pause it (566): the `lost` of `SilentUnlessPlaying`.
* A property that is set during `close` uses the released device
  (`gstaudioflingersink.c:385, 532`), during `prepare` it may be lost (420):
  the `raced` and `crashed` of `ControlsReachTheDevice`.
* Renegotiation in PLAYING leaves the device paused (434): the `formatChanges` of
  `PlayingSounds`.
* What is written between the pause of the device and that of the ring buffer is
  swallowed (566, 490).
* `unprepare` logs a pointer it has not set (458).

### Fairness

`GstPlayerPipeline`: playbin2 ends what it begins (`WF(PrerollEnds)`): a preroll
comes or fails. A thread in a call runs (`SF(Runs)`, `WF(GoesOn)`) and gets the
mutex if it is free again and again, as with a pthread mutex under a preemptive
scheduler; so does the destructor. The main loop delivers what is on the bus
(`SF(BusStep)`, strong since it competes for the mutex). Nothing is fair about
clients: `Call` may never happen.

`MainLoops`: threads run (weak), and whoever waits for a mutex or for the context
that is free again and again gets it (strong: `Joined`, `BusCallback` or `PlayAgain`,
`GetContext`). A call that waits for playbin2 returns, which `CallsReturn` shows
where playbin2 ends what it begins. Nobody need construct, call or delete a player,
and no message need be posted. `Mailboxes` asks for `WF(Serve)` of each
open player, as long as no handler of any player makes a call; `MailServed` says that the fairness above gives it, in `MainLoops` and
in `GstPlayerPipeline`.

`AudioFlingerSink`: whoever is in a call goes on (`ChangeEnds`,
`NegotiationGoesOn`, `PassOn`), and the writer calls `write` until its segment is
done (`WriteSome`). Nobody has to make a call.

The video sink and the file source are checked for safety only.

## 4. Proofs

All theorems are for arbitrary constants under the named assumptions of the
modules; what is assumed beyond them is said below and in the theorem.

* `GstPlayerPipelineProofs`. `TypeCorrect`, `WaitersSafe`, `MutexDiscipline` and
  `DeleteSafe` hold for careful and careless clients. A waiter is safe because the
  owner of the mutex is the only thread in `wait` (`WaitInv` pairs
  `pc[t] = "wait"` with `mActionMutex = t`), so nobody else changes `target`; only
  failure, which the property excepts, does. `DeleteSafe` rests on `LifeInv`: a
  client in the destructor is alone (no other client is in a call, now or later),
  only that client ends the bus thread, a bus thread in a handler has not left its
  main loop, and once it is gone nothing is left to run. This is about one player
  and its own thread; `FreedCallback` shows what another player's thread may still
  do. `MutexReleased` is for
  players with a playbin2, a right URL, sink and surface, and no `setLooping`; file
  descriptors may be wrong and the bus thread may be missing. `ReleaseInv` says that
  playbin2 then exists until the destructor has run, so that no early return is
  taken. `PreparedTrue` is for clients without `prepareAsync()`; `LeakedMutex` and
  `StalePrepared` show why both need their assumptions.
* `RequestProofs`. `SeekReported`, `PrepareReported` and `IsPlayingTrue` assume
  `Careful`. The witness of a pending request is a message on the bus or a change
  in progress; neither is inductive alone, because the message is posted by
  `Preroll` when the request has long been made. `Requests` ties `mSeekState` to
  `GoalState` while a seek is pending, and says that once playbin2 is settled the
  message that ends the request is on the bus. `ProtocolInv` adds what careful
  clients guarantee: one call at a time, and a bus thread that never waits for a
  state change.
* `MainLoopsProofs`. `Inited`: a constructor that found the flag set found it set
  after `gst_init` had returned (`InitInv`). `OneOwner`: the thread that dispatches
  is the one that owns the context; a thread has ended only if its loop was told to
  quit, which only a QUIT of its own player does, and a QUIT on a bus or in a
  callback means that its player is being deleted (`QuitInv`).
  `OthersLate` is what remains true beside the fault of `FreedCallback`: a late
  callback runs in another player's thread only. `NoDeadlockButRestarts` is about
  circles of threads that wait for each other (`WaitsFor`): a join leads to a bus
  thread, one that waits for the context to its owner, and the owner to the holder of
  the mutex of its message. `MutexInv` says that this holder is a client in a call or
  in the last part of a destructor, which wait for nobody, or the owner itself, which
  is then in `start()`; so the lemma `Circles` finds that thread in every circle.
  `OnePlayerSafe` proves `NoCallbackAfterFree` for a single player, the one hypothesis
  `FreedCallback` shows to be needed. `QuitKept`: while the destructor joins a thread
  that is in its loop, the QUIT of that player stays on its bus or in a hand until the
  loop has been told by it. `LoopsImplementMailboxes`: every step is a step of `Mailboxes` or none, for
  any number of players; `LastInv` says that a player has one QUIT message,
  on the bus or in a hand while its destructor joins, and that a thread that has been
  joined has exited.
* `PlayerMailboxProofs`, for every client, call, argument and construction.
  `JoinEnds` rests on `HandlerInv` (a handler that has not returned is in the
  `start()` of a looping player, with the mutex already its own) and `JoinInv` (there
  is one QUIT message, from `Delete` to `HandleApplication`, and only such a handler
  can have the mutex meanwhile). `PlayerImplementsMailbox` assumes that the player
  was created whole: without a bus thread nobody posts QUIT and nobody joins.
* `AppSourceProofs`, for files and pulls of every length. `MemorySafe` assumes that
  `mmap` does not fail and rests on `LengthIsMapped`. `SourceImplementsFile` rests on
  `OffsetIsAhead`: whenever `need_data` would use it, `mOffset` is the appsrc's
  position, or further on in the file if the source is astray. `NothingSkipped`
  assumes that no push is refused: then it is the position.
* `SurfaceFlingerSinkProofs`, for pictures of every size and any number of
  negotiations. `FramesInv` says what the device and SurfaceFlinger know of the
  same heap, `CopyInv` that a picture in the making is in the frame that is not on
  the screen, `ScreenInv` where the screen's picture is. `Fit` rests on
  `PictureFits`: GStreamer's padded lines of a picture are never longer than the
  frame made by the device's rule, for odd widths and heights as well.
* `AudioFlingerSinkProofs`, for all volumes and segments. `LifeInv` ties the state
  of the element to the device, to `m_init` and to the writer, also after a failed
  `prepare`; `SoundInv` ties it to what the output does, one case for each part of
  a change of state; `ControlInv` follows the volume and the mute through
  `prepare`, where what `prepare` has read is still what the property shows. `WriterJoined`
  rests on `RingInv` (a ring buffer that is being released or acquired anew is
  stopped) and on the lemma `SomethingWritten`: every result of `write` on an
  initialised device is progress.

`PlayBinProofs` has the lemmas on playbin2 that the others cite.

Model-checked only: everything that must eventually happen (`SeekAnswered`,
`PrepareAnswered`, `CallsReturn`, `DeleteTerminates`, `QuitEndsTheThread`,
`ChangesEnd`, and `MailServed` of both modules), which is outside the prover's reach.

## 5. Not modelled

* The text of `gst.conf` and the log handler: text processing. `init_gst` is in
  `MainLoops`, without them.
* `GstPlayer`'s stored surface and stream type, which reach nothing else, and its
  return codes.
* Listeners that call back into the player: the listener is outside the
  repository, and any such call would wait for the mutex its own thread has.
* `getcaps` of the audio sink (it caches one value), its `flush`, and the latency
  and size functions of the device, which change nothing or are never called.
* Wrong arguments and failed construction in `MainLoops`: `Wedged` has them, for
  one player.
* Logging, build files, release notes and the test programs: no protocol; the test
  programs were read for the order of calls.

## 6. What could come next

* A contract of the player (prepared, playing, paused, stopped; one event for each
  request) that careful clients see, with EOS messages of before a seek.
* The destructor's QUIT against a bus thread that has not yet entered its loop, as
  a run of its own, and `start()` in a seek, once the code says what it means to do.
* The two sinks in one pipeline with the player, for the order of their state
  changes on a flushing seek.

------------------------------ MODULE AppSource ------------------------------
(***************************************************************************)
(* The file descriptor source of player/GstPlayerPipeline.cpp:             *)
(* setDataSource(fd) maps the file, playbin2 makes an appsrc for it, and   *)
(* the callbacks appsrc_seek_data and appsrc_need_data feed that from the  *)
(* mapping, in the streaming thread.                                       *)
(*                                                                         *)
(* The appsrc is not part of this repository.  In random access mode it    *)
(* calls seek_data when a pull is not at the offset where its last answer  *)
(* ended, then need_data until it has a buffer.                            *)
(***************************************************************************)
EXTENDS Integers

CONSTANTS Lengths,      \* the lengths of the files that are played
          Sizes,        \* the sizes of the pulls
          MaxSources,   \* bound of the model: calls of setDataSource
          MmapMayFail,  \* mmap may fail on a file that is not empty
          PushMayFail,  \* a flush may come between need_data and the push
          NoPull, Eos, Nowhere

ASSUME LengthsAssumption == Lengths \subseteq Nat
ASSUME SizesAssumption == Sizes \subseteq Nat \ {0}
ASSUME MaxSourcesAssumption == MaxSources \in Nat
ASSUME FailureAssumption == MmapMayFail \in BOOLEAN /\ PushMayFail \in BOOLEAN
ASSUME MarkersAssumption ==
  /\ NoPull \notin [at : Nat, size : Sizes]
  /\ Eos \notin [at : Nat, size : Nat]
  /\ Nowhere \notin Nat

VARIABLES
  mLength, mOffset,  \* of the file, and in it
  mMemBase,          \* the mapping it points to: id 0 is NULL, or MAP_FAILED
  mapped,            \* the mappings that exist
  sources,           \* calls of setDataSource so far, which number the mappings
  state,             \* of playbin2: ready, streaming (PAUSED or PLAYING), deleted
  position,          \* where the appsrc's last answer ended, or Nowhere
  pc,                \* the streaming thread: idle, or about to seek or to read
  pull, answer,      \* what is asked of the appsrc, and its latest answer
  buffers            \* the buffers downstream, which point into mappings

sourceVars == <<mLength, mOffset, mMemBase, mapped, sources>>
streamVars == <<state, position, pc, pull, answer>>
vars == <<sourceVars, streamVars, buffers>>

Region == [id : Nat, size : Nat]
NullRegion == [id |-> 0, size |-> 0]

TypeOK ==
  /\ mLength \in Nat /\ mOffset \in Nat
  /\ mMemBase \in Region
  /\ mapped \subseteq Region
  /\ sources \in Nat
  /\ state \in {"ready", "streaming", "deleted"}
  /\ position \in Nat \cup {Nowhere}
  /\ pc \in {"idle", "seek", "read"}
  /\ pull \in [at : Nat, size : Sizes] \cup {NoPull}
  /\ answer \in [at : Nat, size : Nat] \cup {Eos}
  /\ buffers \subseteq [base : Region, at : Nat, size : Nat]

Init ==
  /\ mLength = 0 /\ mOffset = 0
  /\ mMemBase = NullRegion
  /\ mapped = {}
  /\ sources = 0
  /\ state = "ready"
  /\ position = Nowhere
  /\ pc = "idle"
  /\ pull = NoPull
  /\ answer = Eos
  /\ buffers = {}

-----------------------------------------------------------------------------
(* The player *)

\* setDataSource(fd): the mapping there was is forgotten, and what mmap says is
\* not looked at.  mmap refuses an empty file.  The media player calls it when
\* playbin2 does not stream.
SetDataSource(length) ==
  /\ state = "ready"
  /\ sources < MaxSources
  /\ sources' = sources + 1
  /\ mLength' = length
  /\ mOffset' = 0
  /\ \/ /\ length > 0
        /\ mMemBase' = [id |-> sources', size |-> length]
        /\ mapped' = mapped \cup {mMemBase'}
     \/ /\ length = 0 \/ MmapMayFail
        /\ mMemBase' = NullRegion
        /\ UNCHANGED mapped
  /\ UNCHANGED <<streamVars, buffers>>

\* Mutant: the file is unmapped while playbin2 still holds buffers of it.
DeletePipelineEarly ==
  /\ state # "deleted"
  /\ mapped' = mapped \ {mMemBase}
  /\ mMemBase' = NullRegion
  /\ mLength' = 0 /\ mOffset' = 0
  /\ UNCHANGED <<sources, streamVars, buffers>>

\* delete_pipeline(): playbin2 goes to NULL and is released, with its buffers,
\* before munmap.
DeletePipeline ==
  /\ state # "deleted"
  /\ state' = "deleted"
  /\ position' = Nowhere
  /\ pc' = "idle"
  /\ pull' = NoPull
  /\ buffers' = {}
  /\ mapped' = mapped \ {mMemBase}
  /\ mMemBase' = NullRegion
  /\ mLength' = 0 /\ mOffset' = 0
  /\ UNCHANGED <<sources, answer>>

-----------------------------------------------------------------------------
(* playbin2 and its appsrc *)

\* playbin2_found_source: a new appsrc, which has no position yet.
FoundSource ==
  /\ state = "ready"
  /\ sources > 0
  /\ state' = "streaming"
  /\ position' = Nowhere
  /\ UNCHANGED <<sourceVars, pc, pull, answer, buffers>>

\* The pipeline goes back to READY.
Stop ==
  /\ state = "streaming"
  /\ state' = "ready"
  /\ pc' = "idle"
  /\ pull' = NoPull
  /\ buffers' = {}
  /\ UNCHANGED <<sourceVars, position, answer>>

\* A demuxer pulls, at most one file length past the end.
Pull(at, size) ==
  /\ state = "streaming"
  /\ pull = NoPull
  /\ pull' = [at |-> at, size |-> size]
  /\ pc' = IF at = position THEN "read" ELSE "seek"
  /\ UNCHANGED <<sourceVars, state, position, answer, buffers>>

\* The sinks are done with a buffer.
Release(b) ==
  /\ buffers' = buffers \ {b}
  /\ UNCHANGED <<sourceVars, streamVars>>

-----------------------------------------------------------------------------
(* The callbacks *)

\* Mutant: the callback says yes and stays where it is.
SeekIgnored ==
  /\ pc = "seek"
  /\ position' = pull.at
  /\ pc' = "read"
  /\ UNCHANGED <<sourceVars, state, pull, answer, buffers>>

\* appsrc_seek_data
SeekData ==
  /\ pc = "seek"
  /\ mOffset' = pull.at
  /\ position' = pull.at
  /\ pc' = "read"
  /\ UNCHANGED <<mLength, mMemBase, mapped, sources, state, pull, answer, buffers>>

\* Mutant: the check is one byte too generous.
InsideByOne == mOffset <= mLength + 1

\* "check current offset is inside range": its end counts as inside
Inside == mOffset <= mLength

\* Mutant: the end of the file is not looked at.
Unclamped(length) == length

\* "we are allowed to return less if we are EOS"
Clamped(length) ==
  IF mOffset + length > mLength THEN mLength - mOffset ELSE length

\* appsrc_need_data: the buffer is pushed, and answers the pull.
NeedData ==
  /\ pc = "read"
  /\ Inside
  /\ LET size == Clamped(pull.size)
     IN  /\ answer' = [at |-> mOffset, size |-> size]
         /\ buffers' = buffers \cup {[base |-> mMemBase, at |-> mOffset, size |-> size]}
         /\ mOffset' = mOffset + size
         /\ position' = position + size
  /\ pull' = NoPull
  /\ pc' = "idle"
  /\ UNCHANGED <<mLength, mMemBase, mapped, sources, state>>

\* appsrc_need_data: the push is refused, since the appsrc is being flushed, and
\* drops the buffer.  mOffset moves on all the same.
NeedDataFlushed ==
  /\ PushMayFail
  /\ pc = "read"
  /\ Inside
  /\ mOffset' = mOffset + Clamped(pull.size)
  /\ pull' = NoPull
  /\ pc' = "idle"
  /\ UNCHANGED <<mLength, mMemBase, mapped, sources, state, position, answer, buffers>>

\* appsrc_need_data: "Offset is outside file. Send EOS"
NeedDataOutside ==
  /\ pc = "read"
  /\ ~Inside
  /\ answer' = Eos
  /\ pull' = NoPull
  /\ pc' = "idle"
  /\ UNCHANGED <<sourceVars, state, position, buffers>>

-----------------------------------------------------------------------------
Next ==
  \/ \E length \in Lengths : SetDataSource(length)
  \/ DeletePipeline
  \/ FoundSource
  \/ Stop
  \/ \E at \in 0..(2 * mLength + 1), size \in Sizes : Pull(at, size)
  \/ \E b \in buffers : Release(b)
  \/ SeekData
  \/ NeedData
  \/ NeedDataFlushed
  \/ NeedDataOutside

Spec == Init /\ [][Next]_vars

-----------------------------------------------------------------------------
(* Properties *)

\* Whatever is downstream can be read: a buffer that is not empty lies within
\* the file it was cut from, and that file is mapped and has not been unmapped.
\* appsrc_need_data keeps to the file, setDataSource mapped it, delete_pipeline
\* releases playbin2 first.
BuffersAreMapped ==
  \A b \in buffers :
    b.size > 0 => b.base \in mapped /\ b.at + b.size <= b.base.size

\* Where the next pull is, if it does not jump.
Place ==
  IF state # "streaming" THEN Nowhere ELSE IF pc = "seek" THEN pull.at ELSE position

\* The two ideas of where the appsrc is differ, and no jump will mend it.
Astray == state = "streaming" /\ pc # "seek" /\ position \notin {Nowhere, mOffset}

\* The source keeps what SourceFile promises.  mOffset is the callbacks' idea of
\* where the appsrc reads, the appsrc has its own (position) and mentions it only
\* when it jumps: each pull is answered from where it asked all the same, until
\* a push is refused; from then on bytes are skipped, but none is repeated, until
\* the appsrc jumps.
File == INSTANCE SourceFile WITH length <- mLength, place <- Place, astray <- Astray
FileSpec == File!Spec
=============================================================================

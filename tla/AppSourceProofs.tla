--------------------------- MODULE AppSourceProofs ---------------------------
(***************************************************************************)
(* The file source, for files and pulls of every length and every number   *)
(* of sources.                                                             *)
(***************************************************************************)
EXTENDS AppSource, TLAPS

\* The streaming thread is in the appsrc as long as a pull is not answered, which
\* only a playbin2 that streams makes, and reads once the appsrc knows where.
Asked ==
  /\ pc # "idle" <=> pull # NoPull
  /\ pc # "idle" => state = "streaming"
  /\ pc = "read" => position # Nowhere

\* As long as there is something to read it is mapped, and is the whole file.
LengthIsMapped ==
  mLength > 0 => mMemBase \in mapped /\ mMemBase.size = mLength

\* Nothing is downstream of a playbin2 that does not stream.
OnlyStreamsHaveBuffers == buffers # {} => state = "streaming"

\* Where the appsrc thinks it is and where mOffset is: a refused push leaves
\* mOffset ahead.
OffsetIsAhead ==
  /\ pc = "read" => position = pull.at
  /\ state = "streaming" /\ pc # "seek" /\ position # Nowhere => mOffset >= position

\* They are the same if no push is refused.
OffsetAgrees == ~Astray

-----------------------------------------------------------------------------
LEMMA PulledType ==
  ASSUME TypeOK, Asked, pc # "idle"
  PROVE  pull.at \in Nat /\ pull.size \in Sizes /\ pull.size \in Nat \ {0}
  BY SizesAssumption DEF TypeOK, Asked

LEMMA ClampedStaysInside ==
  ASSUME TypeOK, Inside, NEW size \in Nat \ {0}
  PROVE  /\ Clamped(size) \in Nat
         /\ mOffset + Clamped(size) \in Nat
         /\ mOffset + Clamped(size) <= mLength
  BY DEF TypeOK, Inside, Clamped

LEMMA TypeInit == Init => TypeOK /\ Asked
  BY MarkersAssumption DEF Init, TypeOK, NullRegion, Region, Asked

LEMMA TypeStep == TypeOK /\ Asked /\ [Next]_vars => TypeOK' /\ Asked'
<1> SUFFICES ASSUME TypeOK, Asked, [Next]_vars PROVE TypeOK' /\ Asked'
  OBVIOUS
<1> USE DEF Asked
<1>1. ASSUME NEW length \in Lengths, SetDataSource(length) PROVE TypeOK' /\ Asked'
  BY <1>1, LengthsAssumption
  DEF SetDataSource, TypeOK, streamVars, NullRegion, Region
<1>2. CASE DeletePipeline
  BY <1>2 DEF DeletePipeline, TypeOK, NullRegion, Region
<1>3. CASE FoundSource
  BY <1>3 DEF FoundSource, TypeOK, sourceVars
<1>4. CASE Stop
  BY <1>4 DEF Stop, TypeOK, sourceVars
<1>5. ASSUME NEW at \in 0..(2 * mLength + 1), NEW size \in Sizes, Pull(at, size)
      PROVE  TypeOK' /\ Asked'
  <2>1. at \in Nat
    BY DEF TypeOK
  <2> QED BY <1>5, <2>1, MarkersAssumption DEF Pull, TypeOK, sourceVars
<1>6. ASSUME NEW b \in buffers, Release(b) PROVE TypeOK' /\ Asked'
  BY <1>6 DEF Release, TypeOK, sourceVars, streamVars
<1>7. CASE SeekData
  BY <1>7, PulledType, MarkersAssumption DEF SeekData, TypeOK
<1>8. CASE NeedData
  <2> DEFINE size == Clamped(pull.size)
  <2>1. size \in Nat /\ mOffset + size \in Nat
    BY <1>8, PulledType, ClampedStaysInside DEF NeedData
  <2>2. position \in Nat /\ position + size \in Nat
    BY <1>8, <2>1 DEF NeedData, TypeOK
  <2> HIDE DEF size
  <2> QED BY <1>8, <2>1, <2>2 DEF NeedData, TypeOK, size
<1>9. CASE NeedDataFlushed
  <2>1. mOffset + Clamped(pull.size) \in Nat
    BY <1>9, PulledType, ClampedStaysInside DEF NeedDataFlushed
  <2> QED BY <1>9, <2>1 DEF NeedDataFlushed, TypeOK
<1>10. CASE NeedDataOutside
  BY <1>10 DEF NeedDataOutside, TypeOK, sourceVars
<1>11. CASE UNCHANGED vars
  BY <1>11 DEF TypeOK, vars, sourceVars, streamVars
<1> QED
  BY <1>1, <1>2, <1>3, <1>4, <1>5, <1>6, <1>7, <1>8, <1>9, <1>10, <1>11 DEF Next

\* The types of the source hold, whatever it is asked and whatever mmap and the
\* appsrc answer.
THEOREM SourceTypes == Spec => [](TypeOK /\ Asked)
<1>1. Init => TypeOK /\ Asked
  BY TypeInit
<1>2. TypeOK /\ Asked /\ [Next]_vars => TypeOK' /\ Asked'
  BY TypeStep
<1> QED BY <1>1, <1>2, PTL DEF Spec

-----------------------------------------------------------------------------
(* Memory *)

MemoryInv == LengthIsMapped /\ OnlyStreamsHaveBuffers /\ BuffersAreMapped

LEMMA MemoryStep ==
  ASSUME ~MmapMayFail, TypeOK, Asked, TypeOK', MemoryInv, [Next]_vars
  PROVE  MemoryInv'
<1> USE DEF MemoryInv
<1>1. ASSUME NEW length \in Lengths, SetDataSource(length) PROVE MemoryInv'
  <2>1. buffers' = {}
    BY <1>1 DEF SetDataSource, OnlyStreamsHaveBuffers
  <2>2. LengthIsMapped'
    BY <1>1, LengthsAssumption DEF SetDataSource, LengthIsMapped
  <2> QED BY <2>1, <2>2 DEF OnlyStreamsHaveBuffers, BuffersAreMapped
<1>2. CASE DeletePipeline
  BY <1>2 DEF DeletePipeline, LengthIsMapped, OnlyStreamsHaveBuffers, BuffersAreMapped
<1>3. CASE FoundSource
  BY <1>3 DEF FoundSource, sourceVars,
     LengthIsMapped, OnlyStreamsHaveBuffers, BuffersAreMapped
<1>4. CASE Stop
  BY <1>4 DEF Stop, sourceVars,
     LengthIsMapped, OnlyStreamsHaveBuffers, BuffersAreMapped
<1>5. ASSUME NEW at \in 0..(2 * mLength + 1), NEW size \in Sizes, Pull(at, size)
      PROVE  MemoryInv'
  BY <1>5 DEF Pull, sourceVars,
     LengthIsMapped, OnlyStreamsHaveBuffers, BuffersAreMapped
<1>6. ASSUME NEW b \in buffers, Release(b) PROVE MemoryInv'
  BY <1>6 DEF Release, sourceVars, streamVars,
     LengthIsMapped, OnlyStreamsHaveBuffers, BuffersAreMapped
<1>7. CASE SeekData
  BY <1>7 DEF SeekData, LengthIsMapped, OnlyStreamsHaveBuffers, BuffersAreMapped
<1>8. CASE NeedData
  <2> DEFINE size == Clamped(pull.size)
             new == [base |-> mMemBase, at |-> mOffset, size |-> size]
  <2>1. size \in Nat /\ mOffset + size <= mLength
    BY <1>8, PulledType, ClampedStaysInside DEF NeedData
  <2>2. new.size > 0 => new.base \in mapped /\ new.at + new.size <= new.base.size
    <3> HIDE DEF size
    <3> QED BY <2>1 DEF TypeOK, LengthIsMapped
  <2>3. buffers' = buffers \cup {new} /\ UNCHANGED <<mLength, mMemBase, mapped>>
    BY <1>8 DEF NeedData
  <2>4. state' = "streaming"
    BY <1>8 DEF NeedData, Asked
  <2> HIDE DEF new, size
  <2> QED BY <2>2, <2>3, <2>4
          DEF LengthIsMapped, OnlyStreamsHaveBuffers, BuffersAreMapped
<1>9. CASE NeedDataFlushed
  BY <1>9 DEF NeedDataFlushed, LengthIsMapped, OnlyStreamsHaveBuffers, BuffersAreMapped
<1>10. CASE NeedDataOutside
  BY <1>10 DEF NeedDataOutside, sourceVars,
     LengthIsMapped, OnlyStreamsHaveBuffers, BuffersAreMapped
<1>11. CASE UNCHANGED vars
  BY <1>11 DEF vars, sourceVars, streamVars,
     LengthIsMapped, OnlyStreamsHaveBuffers, BuffersAreMapped
<1> QED
  BY <1>1, <1>2, <1>3, <1>4, <1>5, <1>6, <1>7, <1>8, <1>9, <1>10, <1>11 DEF Next

\* What is downstream can be read, with files and pulls of every length, as long
\* as mmap does not fail: need_data clamps to the mapped length, and
\* delete_pipeline releases playbin2 before it unmaps.
THEOREM MemorySafe ==
  ASSUME ~MmapMayFail
  PROVE  Spec => []BuffersAreMapped
<1>1. Init => MemoryInv
  BY DEF Init, MemoryInv, LengthIsMapped, OnlyStreamsHaveBuffers, BuffersAreMapped
<1>2. TypeOK /\ Asked /\ TypeOK' /\ MemoryInv /\ [Next]_vars => MemoryInv'
  BY MemoryStep
<1>3. MemoryInv => BuffersAreMapped
  BY DEF MemoryInv
<1> QED BY <1>1, <1>2, <1>3, SourceTypes, PTL DEF Spec

-----------------------------------------------------------------------------
(* Random access *)

LEMMA OffsetStep ==
  ASSUME TypeOK, Asked, OffsetIsAhead, [Next]_vars
  PROVE  OffsetIsAhead'
<1>1. ASSUME NEW length \in Lengths, SetDataSource(length) PROVE OffsetIsAhead'
  BY <1>1 DEF SetDataSource, streamVars, OffsetIsAhead, Asked
<1>2. CASE DeletePipeline
  BY <1>2 DEF DeletePipeline, OffsetIsAhead
<1>3. CASE FoundSource
  BY <1>3 DEF FoundSource, sourceVars, OffsetIsAhead, Asked
<1>4. CASE Stop
  BY <1>4 DEF Stop, sourceVars, OffsetIsAhead
<1>5. ASSUME NEW at \in 0..(2 * mLength + 1), NEW size \in Sizes, Pull(at, size)
      PROVE  OffsetIsAhead'
  <2>1. pc = "idle" /\ at # Nowhere
    BY <1>5, MarkersAssumption DEF Pull, TypeOK, Asked
  <2> QED BY <1>5, <2>1 DEF Pull, sourceVars, OffsetIsAhead
<1>6. ASSUME NEW b \in buffers, Release(b) PROVE OffsetIsAhead'
  BY <1>6 DEF Release, sourceVars, streamVars, OffsetIsAhead
<1>7. CASE SeekData
  BY <1>7, PulledType DEF SeekData, OffsetIsAhead
<1>8. CASE NeedData
  <2>1. Clamped(pull.size) \in Nat
    BY <1>8, PulledType, ClampedStaysInside DEF NeedData
  <2>2. position \in Nat /\ mOffset \in Nat /\ mOffset >= position
    BY <1>8 DEF NeedData, OffsetIsAhead, Asked, TypeOK
  <2> QED BY <1>8, <2>1, <2>2 DEF NeedData, OffsetIsAhead
<1>9. CASE NeedDataFlushed
  <2>1. Clamped(pull.size) \in Nat
    BY <1>9, PulledType, ClampedStaysInside DEF NeedDataFlushed
  <2>2. position \in Nat /\ mOffset \in Nat /\ mOffset >= position
    BY <1>9 DEF NeedDataFlushed, OffsetIsAhead, Asked, TypeOK
  <2> QED BY <1>9, <2>1, <2>2 DEF NeedDataFlushed, OffsetIsAhead
<1>10. CASE NeedDataOutside
  BY <1>10 DEF NeedDataOutside, sourceVars, OffsetIsAhead
<1>11. CASE UNCHANGED vars
  BY <1>11 DEF vars, sourceVars, streamVars, OffsetIsAhead
<1> QED
  BY <1>1, <1>2, <1>3, <1>4, <1>5, <1>6, <1>7, <1>8, <1>9, <1>10, <1>11 DEF Next

\* A step of the source is a step of the random access file, or none.
LEMMA FileStep ==
  ASSUME TypeOK, Asked, OffsetIsAhead, [Next]_vars
  PROVE  [File!Next]_File!fileVars
<1> USE DEF File!fileVars
<1>1. ASSUME NEW length \in Lengths, SetDataSource(length) PROVE File!Open(length)
  BY <1>1 DEF SetDataSource, streamVars, File!Open, File!Idle, Asked, Place, Astray
<1>2. CASE DeletePipeline
  BY <1>2 DEF DeletePipeline, File!Open, File!Idle, File!Next, Place, Astray
<1>3. CASE FoundSource
  BY <1>3 DEF FoundSource, sourceVars, Place, Astray, Asked
<1>4. CASE Stop
  BY <1>4 DEF Stop, sourceVars, File!Flush, File!Idle, File!Next, Place, Astray
<1>5. ASSUME NEW at \in 0..(2 * mLength + 1), NEW size \in Sizes, Pull(at, size)
      PROVE  File!Pull
  <2>1. at \in Nat /\ at # Nowhere /\ pull'.at = at /\ pull'.size = size /\ pull' # NoPull
    BY <1>5, MarkersAssumption DEF Pull, TypeOK
  <2>2. pc = "idle" /\ pull = NoPull /\ state = "streaming"
    BY <1>5 DEF Pull, Asked
  <2>3. Place' = at
    BY <1>5, <2>1 DEF Pull, Place
  <2>4. Astray' = (Astray /\ at = Place)
    BY <1>5, <2>1, <2>2 DEF Pull, Place, Astray, sourceVars
  <2> QED BY <1>5, <2>1, <2>2, <2>3, <2>4 DEF Pull, sourceVars, File!Pull
<1>6. ASSUME NEW b \in buffers, Release(b) PROVE UNCHANGED File!fileVars
  BY <1>6 DEF Release, sourceVars, streamVars, Place, Astray
<1>7. CASE SeekData
  <2>1. state = "streaming"
    BY <1>7 DEF SeekData, Asked
  <2> QED BY <1>7, <2>1 DEF SeekData, Place, Astray
<1>8. CASE NeedData
  <2> DEFINE size == Clamped(pull.size)
  <2>1. /\ pull # NoPull /\ state = "streaming" /\ pull.at \in Nat
        /\ position = pull.at /\ position \in Nat /\ mOffset \in Nat /\ mOffset >= position
    BY <1>8, PulledType DEF NeedData, OffsetIsAhead, Asked, TypeOK
  <2>2. size \in Nat /\ mOffset + size <= mLength
    BY <1>8, PulledType, ClampedStaysInside DEF NeedData
  <2>3. ~Astray => /\ mOffset = pull.at /\ ~(pull.at > mLength)
                   /\ size = File!Shorter(pull.size, mLength - pull.at)
    BY <1>8, <2>1, PulledType, MarkersAssumption
    DEF NeedData, Inside, Clamped, File!Shorter, TypeOK, Astray
  <2>4. Astray => mOffset > pull.at
    BY <1>8, <2>1 DEF NeedData, Astray
  <2> HIDE DEF size
  <2>5. /\ answer' = [at |-> mOffset, size |-> size] /\ answer' # Eos
        /\ mOffset' = mOffset + size /\ position' = position + size
        /\ pull' = NoPull /\ pc = "read" /\ pc' = "idle" /\ UNCHANGED <<mLength, state>>
    BY <1>8, <2>1, <2>2, MarkersAssumption DEF NeedData, size
  <2>6. IF Astray THEN File!Skips(answer') ELSE answer' = File!Exact
    BY <2>2, <2>3, <2>4, <2>5 DEF File!Skips, File!Exact
  <2>7. Place' = pull.at + answer'.size
    BY <2>1, <2>5 DEF Place
  <2>8. Astray' = Astray
    <3>1. position' \in Nat /\ position # Nowhere /\ position' # Nowhere
      BY <2>1, <2>2, <2>5, MarkersAssumption
    <3>2. position' = mOffset' <=> position = mOffset
      <4>1. position' = position + size /\ mOffset' = mOffset + size
        BY <2>5
      <4>2. \A m, n, k \in Nat : m + k = n + k <=> m = n
        OBVIOUS
      <4> QED BY <2>1, <2>2, <4>1, <4>2
    <3> QED BY <2>1, <2>5, <3>1, <3>2 DEF Astray
  <2> QED BY <2>1, <2>5, <2>6, <2>7, <2>8 DEF File!Answer, File!Next
<1>9. CASE NeedDataFlushed
  <2>1. /\ pull # NoPull /\ state = "streaming" /\ pc = "read"
        /\ position \in Nat /\ mOffset \in Nat /\ mOffset >= position
    BY <1>9 DEF NeedDataFlushed, OffsetIsAhead, Asked, TypeOK
  <2>2. Clamped(pull.size) \in Nat
    BY <1>9, PulledType, ClampedStaysInside DEF NeedDataFlushed
  <2>3. Astray => Astray'
    BY <1>9, <2>1, <2>2 DEF NeedDataFlushed, Astray
  <2>4. Place' = Place
    BY <1>9, <2>1 DEF NeedDataFlushed, Place
  <2>5. Astray' \in BOOLEAN
    BY DEF Astray
  <2> QED BY <1>9, <2>1, <2>3, <2>4, <2>5 DEF NeedDataFlushed, File!Lose, File!Next
<1>10. CASE NeedDataOutside
  <2>1. pull # NoPull /\ state = "streaming" /\ pc = "read"
        /\ position = pull.at /\ position \in Nat /\ position # Nowhere
    BY <1>10, MarkersAssumption DEF NeedDataOutside, OffsetIsAhead, Asked, TypeOK
  <2>2. ~Astray => pull.at > mLength
    BY <1>10, <2>1 DEF NeedDataOutside, Inside, Astray, TypeOK
  <2>3. Place' = Place /\ Astray' = Astray
    BY <1>10, <2>1 DEF NeedDataOutside, sourceVars, Place, Astray
  <2> QED BY <1>10, <2>1, <2>2, <2>3
          DEF NeedDataOutside, sourceVars, File!Answer, File!Exact, File!Skips, File!Next
<1>11. CASE UNCHANGED vars
  BY <1>11 DEF vars, sourceVars, streamVars, Place, Astray
<1> QED
  BY <1>1, <1>2, <1>3, <1>4, <1>5, <1>6, <1>7, <1>8, <1>9, <1>10, <1>11
  DEF Next, File!Next

\* The source implements the random access file, for files and pulls of every
\* length: a refused push makes it skip bytes until the appsrc jumps, and nothing
\* worse.
THEOREM SourceImplementsFile == Spec => FileSpec
<1>1. Init => File!Init
  BY DEF Init, File!Init, Place, Astray
<1>2. Init => OffsetIsAhead
  BY DEF Init, OffsetIsAhead
<1>3. TypeOK /\ Asked /\ OffsetIsAhead /\ [Next]_vars => OffsetIsAhead'
  BY OffsetStep
<1>4. TypeOK /\ Asked /\ OffsetIsAhead /\ [Next]_vars => [File!Next]_File!fileVars
  BY FileStep
<1> QED
  BY <1>1, <1>2, <1>3, <1>4, SourceTypes, PTL DEF Spec, FileSpec, File!Spec

LEMMA AgreesStep ==
  ASSUME ~PushMayFail, TypeOK, Asked, OffsetAgrees, [Next]_vars
  PROVE  OffsetAgrees'
<1> USE DEF OffsetAgrees
<1>1. ASSUME NEW length \in Lengths, SetDataSource(length) PROVE OffsetAgrees'
  BY <1>1 DEF SetDataSource, streamVars, Astray
<1>2. CASE DeletePipeline
  BY <1>2 DEF DeletePipeline, Astray
<1>3. CASE FoundSource
  BY <1>3 DEF FoundSource, Astray
<1>4. CASE Stop
  BY <1>4 DEF Stop, Astray
<1>5. ASSUME NEW at \in 0..(2 * mLength + 1), NEW size \in Sizes, Pull(at, size)
      PROVE  OffsetAgrees'
  BY <1>5 DEF Pull, sourceVars, Astray, Asked
<1>6. ASSUME NEW b \in buffers, Release(b) PROVE OffsetAgrees'
  BY <1>6 DEF Release, sourceVars, streamVars, Astray
<1>7. CASE SeekData
  BY <1>7 DEF SeekData, Astray
<1>8. CASE NeedData
  BY <1>8 DEF NeedData, Astray, Asked
<1>9. CASE NeedDataFlushed
  BY <1>9 DEF NeedDataFlushed
<1>10. CASE NeedDataOutside
  BY <1>10 DEF NeedDataOutside, sourceVars, Astray
<1>11. CASE UNCHANGED vars
  BY <1>11 DEF vars, sourceVars, streamVars, Astray
<1> QED
  BY <1>1, <1>2, <1>3, <1>4, <1>5, <1>6, <1>7, <1>8, <1>9, <1>10, <1>11 DEF Next

\* If no flush comes between need_data and its push, no byte is ever skipped: the
\* two ideas of where the appsrc is are the same whenever that matters.
THEOREM NothingSkipped ==
  ASSUME ~PushMayFail
  PROVE  Spec => []OffsetAgrees
<1>1. Init => OffsetAgrees
  BY DEF Init, OffsetAgrees, Astray
<1>2. TypeOK /\ Asked /\ OffsetAgrees /\ [Next]_vars => OffsetAgrees'
  BY AgreesStep
<1> QED BY <1>1, <1>2, SourceTypes, PTL DEF Spec
=============================================================================

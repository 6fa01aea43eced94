------------------------ MODULE UsbMicStreamProofs -------------------------
(***************************************************************************)
(* Proofs about UsbMicStream: for any sizes of the queue, the FIFO and the *)
(* blocks, and however the three tasks interleave, an open stream hears    *)
(* only its own audio, in the order of its recording.                      *)
(***************************************************************************)
EXTENDS UsbMicStream, TLAPS

-----------------------------------------------------------------------------
(* The inductive invariant *)

Feeding == fpc \in {"fillCheck", "fill", "writeCheck", "put"}
Writing == fpc \in {"write", "writeLock", "writeCheck", "put"}
Emptying == epc \in {"invalidate", "drain", "clear"}
Audible == {i \in DOMAIN fifo : IsAudio(fifo[i])}

\* The transition: the stream is retired before it is invalidated, and what is
\* open has a number.
StreamInv ==
  /\ epc \in {"invalidate", "drain", "clear", "await", "publish"} => ~usbMicActive
  /\ usbMicActive \/ epc \in {"drain", "clear", "await", "publish"} => streamGeneration >= 1
  /\ epc \in {"retire", "invalidate"} => streamGeneration < MaxGeneration
  /\ usbFifoMutex = "feeder" <=> Feeding

\* A block belongs to the open stream or to an earlier one.
InTime(b) ==
  /\ b.generation <= streamGeneration
  /\ ~usbMicActive /\ epc # "invalidate" => b.generation < streamGeneration
Sound(b) ==
  InTime(b) /\ (usbMicActive /\ Current(b) => b.born = streamGeneration)

\* The blocks on their way: in the queue, with the feeder, in the FIFO.
Holds(buffer, b) == buffers[buffer].active /\ buffers[buffer].block = b
Travelling(b) ==
  \/ \E k \in DOMAIN audioQueue : audioQueue[k] = b
  \/ InHand /\ block = b
  \/ \E i \in Audible : fifo[i].block = b

BlockInv ==
  /\ \A buffer \in {0, 1}, b \in AudioBlock : Holds(buffer, b) =>
       InTime(b) /\ (buffer # nextBuffer \/ cpc \notin {"record", "dead"} => Sound(b))
  /\ cpc \in {"enqueue", "send", "evict"} => buffers[nextBuffer].active
  /\ \A b \in AudioBlock : Travelling(b) => Sound(b)

\* The FIFO
FifoInv ==
  /\ usbMicActive => \A i \in Audible : fifo[i].block.generation = streamGeneration
  /\ epc \in {"await", "publish"} => Audible = {}
  /\ fpc = "put" => (usbMicActive /\ Current(block)) \/ Emptying
  /\ fpc = "fill" =>
       \/ usbMicActive /\ generation = streamGeneration
          /\ (awaitingFresh => awaiting = streamGeneration)
       \/ Emptying

StartupInv ==
  /\ usbMicActive /\ audioPut => awaiting # streamGeneration
  /\ Writing /\ usbMicActive /\ Current(block) => awaiting # streamGeneration

\* The buffers being recorded into, the older one first
RecordingInv ==
  /\ Len(recording) <= 2
  /\ Len(recording) >= 1 => recording[Len(recording)] = Other(nextBuffer)
  /\ Len(recording) = 2 => recording[1] = nextBuffer
  /\ cpc \in {"snapshot", "record", "enqueue", "send", "evict"} => Len(recording) <= 1

\* The order of recording
Below(n) == block.serial < n /\ \A k \in DOMAIN audioQueue : audioQueue[k].serial < n
OrderInv ==
  /\ \A i, j \in Audible : i < j => Precedes(fifo[i], fifo[j])
  /\ \A i \in Audible : Precedes(fifo[i], Audio(block, BlockChunks - remaining + 1))
  /\ \A k \in DOMAIN audioQueue : block.serial < audioQueue[k].serial
  /\ \A k, l \in DOMAIN audioQueue : k < l => audioQueue[k].serial < audioQueue[l].serial
  /\ Below(serial + 1)
  /\ \A b \in {0, 1} : buffers[b].block.serial <= serial
  /\ cpc \in {"snapshot", "record"} /\ (restarting => recording # <<>>) =>
       Below(buffers[Other(nextBuffer)].block.serial)
  /\ cpc \in {"loop", "enqueue", "send", "evict"} =>
       /\ Below(buffers[nextBuffer].block.serial)
       /\ buffers[nextBuffer].block.serial < buffers[Other(nextBuffer)].block.serial

Inv == StreamInv /\ BlockInv /\ FifoInv /\ StartupInv /\ RecordingInv /\ OrderInv

-----------------------------------------------------------------------------
(* What the steps do to the FIFO and to the queue *)

\* The target is within the FIFO.
LEMMA TargetFits == Target \in Nat /\ Target <= FifoDepth
BY SizeAssumption DEF Target

\* A sequence with n elements of a set added is one of that set.
LEMMA Extended ==
  ASSUME NEW S, NEW s \in Seq(S), NEW n \in Nat, NEW t \in [1 .. n -> S]
  PROVE  /\ s \o t \in Seq(S) /\ Len(s \o t) = Len(s) + n
         /\ DOMAIN (s \o t) = 1 .. Len(s) + n
         /\ \A i \in 1 .. Len(s) : (s \o t)[i] = s[i]
         /\ \A i \in 1 .. n : (s \o t)[Len(s) + i] = t[i]
<1>1. t \in Seq(S) /\ Len(t) = n /\ DOMAIN t = 1 .. n
  OBVIOUS
<1> QED BY <1>1

\* Silence and the parts of the block in hand are chunks.
LEMMA ChunkTypes ==
  ASSUME TypeOK
  PROVE  /\ \A kind \in Silence : Silent(kind) \in Chunk /\ ~IsAudio(Silent(kind))
         /\ \A n \in 0 .. remaining : Rest(n) \in [1 .. n -> Chunk]
<1> USE SizeAssumption
<1>1. NoBlock \in AudioBlock
  BY DEF NoBlock, AudioBlock, Serials, Generations
<1>2. \A kind \in Silence : Silent(kind) \in Chunk /\ ~IsAudio(Silent(kind))
  BY <1>1 DEF Silent, Chunk, Silence, IsAudio
<1>3. ASSUME NEW n \in 0 .. remaining PROVE Rest(n) \in [1 .. n -> Chunk]
  <2>1. remaining \in 0 .. BlockChunks /\ block \in AudioBlock
    BY DEF TypeOK
  <2>2. \A i \in 1 .. n : BlockChunks - remaining + i \in 0 .. BlockChunks
    BY <2>1
  <2>3. \A i \in 1 .. n : Audio(block, BlockChunks - remaining + i) \in Chunk
    BY <2>1, <2>2 DEF Audio, Chunk
  <2> QED BY <2>3 DEF Rest
<1> QED BY <1>2, <1>3

\* No audio comes into the FIFO, no block into the queue: what is there was there.
Kept == \E d \in {0, 1} : \A i \in Audible' : i + d \in Audible /\ fifo'[i] = fifo[i + d]
QueueKept ==
  \E d \in {0, 1} : \A k \in DOMAIN audioQueue' :
    k + d \in DOMAIN audioQueue /\ audioQueue'[k] = audioQueue[k + d]

\* What is left after taking the first element.
LEMMA TailType ==
  ASSUME NEW S, NEW s \in Seq(S), s # <<>>
  PROVE  /\ Tail(s) \in Seq(S) /\ Len(Tail(s)) = Len(s) - 1 /\ Head(s) \in S
         /\ \A i \in DOMAIN Tail(s) : i + 1 \in DOMAIN s /\ Tail(s)[i] = s[i + 1]
OBVIOUS

\* FIFO and queue keep their types in every step, and all but one action of each
\* leaves only what was there.
LEMMA FifoKept ==
  ASSUME TypeOK, [Next]_vars
  PROVE  fifo' \in Seq(Chunk) /\ Len(fifo') <= FifoDepth /\ (Kept \/ Put)
<1> USE DEF TypeOK
<1>1. ASSUME UNCHANGED fifo
      PROVE  fifo' \in Seq(Chunk) /\ Len(fifo') <= FifoDepth /\ Kept
  BY <1>1 DEF Kept, Audible
<1>2. CASE HostReads
  <2>1. fifo' = Tail(fifo) /\ fifo # <<>>
    BY <1>2 DEF HostReads
  <2>2. Tail(fifo) \in Seq(Chunk) /\ Len(Tail(fifo)) = Len(fifo) - 1
        /\ \A i \in DOMAIN Tail(fifo) : i + 1 \in DOMAIN fifo /\ Tail(fifo)[i] = fifo[i + 1]
    BY <2>1, TailType
  <2>3. \A i \in Audible' : i + 1 \in Audible /\ fifo'[i] = fifo[i + 1]
    BY <2>1, <2>2 DEF Audible
  <2>4. Kept
    BY <2>3 DEF Kept
  <2>5. Len(fifo') <= FifoDepth
    BY <2>1, <2>2, SizeAssumption
  <2> QED BY <2>1, <2>2, <2>4, <2>5
<1>3. CASE ClearFifo
  <2>1. PICK n \in 0 .. Target :
           fifo' = [i \in 1 .. (IF opening THEN n ELSE 0) |-> Silent("prefill")]
    BY <1>3 DEF ClearFifo
  <2>2. PICK m \in 0 .. Target : fifo' = [i \in 1 .. m |-> Silent("prefill")]
    BY <2>1, TargetFits
  <2>3. Silent("prefill") \in Chunk /\ ~IsAudio(Silent("prefill"))
    BY ChunkTypes DEF Silence
  <2>4. fifo' \in Seq(Chunk) /\ Len(fifo') = m /\ \A i \in 1 .. m : ~IsAudio(fifo'[i])
    BY <2>2, <2>3, TargetFits
  <2>5. Audible' = {}
    BY <2>4 DEF Audible
  <2>6. Len(fifo') <= FifoDepth
    BY <2>4, TargetFits, SizeAssumption
  <2> QED BY <2>4, <2>5, <2>6 DEF Kept
<1>4. CASE Fill
  <2>0. PICK kind : kind = IF awaitingFresh THEN "startup" ELSE "underrun"
    OBVIOUS
  <2>1. PICK n \in {0, IF Len(fifo) < Target THEN Target - Len(fifo) ELSE 0} :
           fifo' = fifo \o [i \in 1 .. n |-> Silent(kind)]
    BY <1>4, <2>0 DEF Fill
  <2>2. n \in Nat /\ Len(fifo) + n <= FifoDepth
    BY <2>1, TargetFits, SizeAssumption
  <2>3. Silent(kind) \in Chunk /\ ~IsAudio(Silent(kind))
    BY <2>0, ChunkTypes DEF Silence
  <2>4. PICK t \in [1 .. n -> Chunk] : fifo' = fifo \o t /\ \A i \in 1 .. n : t[i] = Silent(kind)
    <3> DEFINE t == [i \in 1 .. n |-> Silent(kind)]
    <3>1. t \in [1 .. n -> Chunk] /\ \A i \in 1 .. n : t[i] = Silent(kind)
      BY <2>3
    <3>2. fifo' = fifo \o t
      BY <2>1
    <3> HIDE DEF t
    <3> QED BY <3>1, <3>2
  <2>5. /\ fifo' \in Seq(Chunk) /\ Len(fifo') = Len(fifo) + n
        /\ DOMAIN fifo' = 1 .. Len(fifo) + n
        /\ \A i \in 1 .. Len(fifo) : fifo'[i] = fifo[i]
        /\ \A i \in 1 .. n : fifo'[Len(fifo) + i] = Silent(kind)
    <3>1. fifo \in Seq(Chunk)
      OBVIOUS
    <3>2. /\ fifo \o t \in Seq(Chunk) /\ Len(fifo \o t) = Len(fifo) + n
          /\ DOMAIN (fifo \o t) = 1 .. Len(fifo) + n
          /\ \A i \in 1 .. Len(fifo) : (fifo \o t)[i] = fifo[i]
          /\ \A i \in 1 .. n : (fifo \o t)[Len(fifo) + i] = t[i]
      BY ONLY <2>2, <2>4, <3>1, Extended
    <3> QED BY <2>4, <3>2
  <2>6. \A i \in Audible' : i \in 1 .. Len(fifo)
    <3> SUFFICES ASSUME NEW i \in Len(fifo) + 1 .. Len(fifo) + n, IsAudio(fifo'[i]) PROVE FALSE
      BY <2>2, <2>5 DEF Audible
    <3>1. i - Len(fifo) \in 1 .. n /\ Len(fifo) + (i - Len(fifo)) = i
      BY <2>2
    <3> QED BY <2>3, <2>5, <3>1
  <2>7. \A i \in Audible' : i + 0 \in Audible /\ fifo'[i] = fifo[i + 0]
    BY <2>5, <2>6 DEF Audible
  <2> QED BY <2>2, <2>5, <2>7 DEF Kept
<1>5. CASE Put
  <2>1. PICK n \in 0 .. remaining : Len(fifo) + n <= FifoDepth /\ fifo' = fifo \o Rest(n)
    BY <1>5 DEF Put
  <2>2. n \in Nat /\ Rest(n) \in [1 .. n -> Chunk]
    BY <2>1, ChunkTypes
  <2> QED BY <1>5, <2>1, <2>2, Extended
<1>6. CASE AudioEvent \/ UsbEvent \/ UsbStopped
  BY <1>1, <1>6 DEF AudioEvent, UsbEvent, UsbStopped, Recompute
<1>7. CASE TransitionStreaming
  BY <1>1, <1>3, <1>7 DEF TransitionStreaming, Retire, Invalidate,
     ClearQueuedAudio,
     AwaitStartup, Publish
<1>8. CASE CaptureAudio \/ RecordingDone
  BY <1>1, <1>8 DEF CaptureAudio, EnqueueLatest, Snapshot, Record, RecordFails,
     TakeBlock,
     Enqueue, Send, Evict, Pause, Resume, RecordingDone, capturerUnchanged
<1>9. CASE FeedUsb
  BY <1>1, <1>4, <1>5, <1>9 DEF FeedUsb, FeedSnapshot, Receive, TakeMutex,
     TopUpSilence,
     Starved, FillCheck, BlockBelongs, Started, WriteBlock, Write, WriteCheck
<1>10. CASE UNCHANGED vars
  BY <1>1, <1>10 DEF vars
<1> QED BY <1>2, <1>6, <1>7, <1>8, <1>9, <1>10 DEF Next

\* The same of the queue.
LEMMA QueueIsKept ==
  ASSUME TypeOK, [Next]_vars
  PROVE  /\ audioQueue' \in Seq(AudioBlock) /\ Len(audioQueue') <= QueuedBlocks
         /\ QueueKept \/ Send
<1> DEFINE Goal == audioQueue' \in Seq(AudioBlock) /\ Len(audioQueue') <= QueuedBlocks
                   /\ QueueKept
<1>0. audioQueue \in Seq(AudioBlock) /\ Len(audioQueue) <= QueuedBlocks
  BY DEF TypeOK
<1>1. ASSUME UNCHANGED audioQueue PROVE Goal
  BY <1>0, <1>1 DEF QueueKept
<1>2. ASSUME audioQueue # <<>>, audioQueue' = Tail(audioQueue) PROVE Goal
  BY <1>0, <1>2, TailType, SizeAssumption DEF QueueKept
<1> HIDE DEF Goal
<1>3. CASE Send
  <2>1. \A b \in {0, 1} : buffers[b].block \in AudioBlock
    BY DEF TypeOK, Buffer
  <2>2. buffers[nextBuffer].block \in AudioBlock
    BY <2>1 DEF TypeOK
  <2>3. CASE Len(audioQueue) < QueuedBlocks
    <3>1. audioQueue' = Append(audioQueue, buffers[nextBuffer].block)
      BY <1>3, <2>3 DEF Send
    <3> QED BY <1>0, <1>3, <2>2, <2>3, <3>1, SizeAssumption
  <2>4. CASE ~(Len(audioQueue) < QueuedBlocks)
    BY <1>0, <1>3, <2>4 DEF Send
  <2> QED BY <2>3, <2>4
<1>4. CASE ClearQueuedAudio
  BY <1>1, <1>2, <1>4 DEF ClearQueuedAudio, Goal
<1>5. CASE Evict
  BY <1>1, <1>2, <1>5 DEF Evict, Goal
<1>6. CASE Receive
  BY <1>1, <1>2, <1>6 DEF Receive, Goal
<1>7. CASE AudioEvent \/ UsbEvent \/ UsbStopped
  BY <1>1, <1>7 DEF AudioEvent, UsbEvent, UsbStopped, Recompute, Goal
<1>8. CASE TransitionStreaming
  BY <1>1, <1>4, <1>8 DEF TransitionStreaming, Retire, Invalidate, ClearFifo,
     AwaitStartup, Publish, Goal
<1>9. CASE CaptureAudio \/ RecordingDone
  BY <1>1, <1>3, <1>5, <1>9 DEF CaptureAudio, EnqueueLatest, Snapshot, Record,
     RecordFails,
     TakeBlock, Enqueue, Pause, Resume, RecordingDone, capturerUnchanged, Goal
<1>10. CASE FeedUsb \/ HostReads
  BY <1>1, <1>6, <1>10 DEF FeedUsb, FeedSnapshot, TakeMutex, TopUpSilence,
     Starved, FillCheck, Fill, BlockBelongs, Started, WriteBlock, Write, WriteCheck, Put,
     HostReads, Goal
<1>11. CASE UNCHANGED vars
  BY <1>1, <1>11 DEF vars, Goal
<1> QED BY <1>7, <1>8, <1>9, <1>10, <1>11 DEF Next

-----------------------------------------------------------------------------
(* The transition *)

taskVars == <<usbMicActive, streamGeneration, epc>>

\* What a step does to the stream.
StreamStep ==
  \/ UNCHANGED taskVars
  \/ /\ epc = "idle" /\ epc' \in {"idle", "retire"} /\ streamGeneration < MaxGeneration
     /\ UNCHANGED <<usbMicActive, streamGeneration>>
  \/ /\ epc = "retire" /\ epc' = "invalidate" /\ usbMicActive' = FALSE
     /\ UNCHANGED streamGeneration
  \/ /\ epc = "invalidate" /\ epc' = "drain" /\ streamGeneration' = streamGeneration + 1
     /\ UNCHANGED usbMicActive
  \/ /\ epc = "drain" /\ epc' = "clear" /\ UNCHANGED <<usbMicActive, streamGeneration>>
  \/ /\ epc = "clear" /\ epc' = "await" /\ UNCHANGED <<usbMicActive, streamGeneration>>
     /\ usbFifoMutex = "free" /\ UNCHANGED usbFifoMutex
  \/ /\ epc = "await" /\ epc' = "publish" /\ UNCHANGED <<usbMicActive, streamGeneration>>
  \/ /\ epc = "publish" /\ epc' = "idle" /\ usbMicActive' = opening
     /\ UNCHANGED streamGeneration

\* Only the event task changes the stream.
LEMMA StreamSteps == ASSUME [Next]_vars PROVE StreamStep
<1> USE DEF StreamStep, taskVars
<1>1. CASE AudioEvent \/ UsbEvent \/ UsbStopped
  BY <1>1 DEF AudioEvent, UsbEvent, UsbStopped, Recompute, streamVars
<1>2. CASE TransitionStreaming
  BY <1>2 DEF TransitionStreaming, Retire, Invalidate, ClearQueuedAudio,
     ClearFifo,
     AwaitStartup, Publish, streamVars
<1>3. CASE CaptureAudio \/ RecordingDone
  <2>1. UNCHANGED capturerUnchanged
    BY <1>3 DEF CaptureAudio, EnqueueLatest, Snapshot, Record, RecordFails,
       TakeBlock,
       Enqueue, Send, Evict, Pause, Resume, RecordingDone
  <2> QED BY <2>1 DEF capturerUnchanged, eventVars, streamVars
<1>4. CASE FeedUsb
  <2>1. UNCHANGED feederUnchanged
    BY <1>4 DEF FeedUsb, FeedSnapshot, Receive, TakeMutex, TopUpSilence,
       Starved,
       FillCheck, Fill, BlockBelongs, Started, WriteBlock, Write, WriteCheck, Put
  <2> QED BY <2>1 DEF feederUnchanged, eventVars
<1>5. CASE HostReads
  BY <1>5 DEF HostReads, eventVars, streamVars
<1>6. CASE UNCHANGED vars
  BY <1>6 DEF vars, eventVars, streamVars
<1> QED BY <1>1, <1>2, <1>3, <1>4, <1>5, <1>6 DEF Next

\* What a step does to the mutex and to the feeder's place.
LEMMA MutexSteps ==
  ASSUME TypeOK, [Next]_vars
  PROVE  \/ UNCHANGED <<usbFifoMutex, fpc>>
         \/ FeedUsb
<1>1. CASE AudioEvent \/ UsbEvent \/ UsbStopped
  BY <1>1 DEF AudioEvent, UsbEvent, UsbStopped, Recompute, others, feederVars
<1>2. CASE TransitionStreaming
  BY <1>2 DEF TransitionStreaming, Retire, Invalidate, ClearQueuedAudio,
     ClearFifo,
     AwaitStartup, Publish, others, feederVars
<1>3. CASE CaptureAudio \/ RecordingDone
  <2>1. UNCHANGED capturerUnchanged
    BY <1>3 DEF CaptureAudio, EnqueueLatest, Snapshot, Record, RecordFails,
       TakeBlock,
       Enqueue, Send, Evict, Pause, Resume, RecordingDone
  <2> QED BY <2>1 DEF capturerUnchanged, feederVars
<1>4. CASE HostReads
  BY <1>4 DEF HostReads, feederVars
<1>5. CASE UNCHANGED vars
  BY <1>5 DEF vars, feederVars
<1> QED BY <1>1, <1>2, <1>3, <1>4, <1>5 DEF Next

\* The transition keeps its shape, and the feeder has the mutex where it writes.
LEMMA StreamKept == ASSUME TypeOK, StreamInv, [Next]_vars PROVE StreamInv'
<1>0. StreamStep
  BY StreamSteps
<1>1. streamGeneration \in Nat /\ streamGeneration' \in Nat /\ MaxGeneration \in Nat
  BY <1>0, SizeAssumption DEF StreamStep, taskVars, TypeOK, Generations
<1>2. /\ epc' \in {"invalidate", "drain", "clear", "await", "publish"} => ~usbMicActive'
      /\ usbMicActive' \/ epc' \in {"drain", "clear", "await", "publish"}
           => streamGeneration' >= 1
      /\ epc' \in {"retire", "invalidate"} => streamGeneration' < MaxGeneration
  BY <1>0, <1>1 DEF StreamStep, taskVars, StreamInv
<1>3. usbFifoMutex' = "feeder" <=> Feeding'
  <2>1. CASE UNCHANGED <<usbFifoMutex, fpc>>
    BY <2>1 DEF StreamInv, Feeding
  <2>2. CASE FeedUsb
    BY <2>2 DEF StreamInv, Feeding, FeedUsb, FeedSnapshot, Receive, TakeMutex,
       TopUpSilence,
       Starved, FillCheck, Fill, BlockBelongs, Started, WriteBlock, Write, WriteCheck, Put
  <2> QED BY <2>1, <2>2, MutexSteps
<1> QED BY <1>2, <1>3 DEF StreamInv

\* A block in time stays so, a sound one sound: the number of the stream only
\* grows, and it grows before a stream is opened.
LEMMA TimeKept ==
  ASSUME TypeOK, StreamInv, [Next]_vars, NEW b \in AudioBlock, InTime(b)
  PROVE  InTime(b)' /\ (Sound(b) => Sound(b)')
<1>1. b.generation \in Nat /\ streamGeneration \in Nat /\ b' = b
  BY SizeAssumption DEF AudioBlock, Generations, TypeOK
<1>2. StreamStep
  BY StreamSteps
<1> QED BY <1>1, <1>2 DEF StreamStep, taskVars, StreamInv, InTime, Sound,
   Current

-----------------------------------------------------------------------------
(* The tasks *)

\* Only the capture task and M5.Mic touch the buffers.
LEMMA CaptureSteps ==
  ASSUME [Next]_vars PROVE UNCHANGED captureVars \/ CaptureAudio \/ RecordingDone
<1>1. CASE AudioEvent \/ UsbEvent \/ UsbStopped
  BY <1>1 DEF AudioEvent, UsbEvent, UsbStopped, Recompute, others
<1>2. CASE TransitionStreaming
  BY <1>2 DEF TransitionStreaming, Retire, Invalidate, ClearQueuedAudio,
     ClearFifo,
     AwaitStartup, Publish, others
<1>3. CASE FeedUsb
  <2>1. UNCHANGED feederUnchanged
    BY <1>3 DEF FeedUsb, FeedSnapshot, Receive, TakeMutex, TopUpSilence,
       Starved,
       FillCheck, Fill, BlockBelongs, Started, WriteBlock, Write, WriteCheck, Put
  <2> QED BY <2>1 DEF feederUnchanged
<1>4. CASE HostReads
  BY <1>4 DEF HostReads
<1>5. CASE UNCHANGED vars
  BY <1>5 DEF vars
<1> QED BY <1>1, <1>2, <1>3, <1>4, <1>5 DEF Next

\* Only the feeder touches what is the feeder's.
LEMMA FeederSteps == ASSUME [Next]_vars PROVE UNCHANGED feederVars \/ FeedUsb
<1>1. CASE AudioEvent \/ UsbEvent \/ UsbStopped
  BY <1>1 DEF AudioEvent, UsbEvent, UsbStopped, Recompute, others
<1>2. CASE TransitionStreaming
  BY <1>2 DEF TransitionStreaming, Retire, Invalidate, ClearQueuedAudio,
     ClearFifo,
     AwaitStartup, Publish, others
<1>3. CASE CaptureAudio \/ RecordingDone
  <2>1. UNCHANGED capturerUnchanged
    BY <1>3 DEF CaptureAudio, EnqueueLatest, Snapshot, Record, RecordFails,
       TakeBlock,
       Enqueue, Send, Evict, Pause, Resume, RecordingDone
  <2> QED BY <2>1 DEF capturerUnchanged
<1>4. CASE HostReads
  BY <1>4 DEF HostReads
<1>5. CASE UNCHANGED vars
  BY <1>5 DEF vars
<1> QED BY <1>1, <1>2, <1>3, <1>4, <1>5 DEF Next

\* The buffers begun are the one that is not next and, before it, the next one;
\* where a buffer is read or begun, that one is free.
LEMMA RecordingKept ==
  ASSUME TypeOK, RecordingInv, [Next]_vars
  PROVE  RecordingInv' /\ recording' \in Seq({0, 1})
<1> USE DEF RecordingInv
<1>0. /\ nextBuffer \in {0, 1} /\ Other(nextBuffer) \in {0, 1}
      /\ Other(Other(nextBuffer)) = nextBuffer /\ recording \in Seq({0, 1})
  BY DEF TypeOK, Other
<1>1. CASE UNCHANGED captureVars
  BY <1>0, <1>1 DEF captureVars
<1>2. CASE RecordingDone
  <2>1. recording # <<>> /\ recording' = Tail(recording) /\ UNCHANGED <<cpc, nextBuffer>>
    BY <1>2 DEF RecordingDone
  <2>2. /\ recording' \in Seq({0, 1}) /\ Len(recording') = Len(recording) - 1
        /\ \A i \in 1 .. Len(recording) - 1 : recording'[i] = recording[i + 1]
        /\ Len(recording) \in Nat
    BY <1>0, <2>1
  <2> QED BY <1>0, <2>1, <2>2
<1>3. CASE Record
  <2>1. /\ recording' = Append(recording, nextBuffer) /\ nextBuffer' = Other(nextBuffer)
        /\ cpc = "record"
        /\ restarting' = (restarting /\ Len(recording) = 0)
        /\ cpc' = IF restarting' THEN "snapshot" ELSE "loop"
    BY <1>3 DEF Record
  <2>2. /\ recording' \in Seq({0, 1}) /\ Len(recording') = Len(recording) + 1
        /\ recording'[Len(recording) + 1] = nextBuffer
        /\ Len(recording) = 1 => recording'[1] = recording[1]
        /\ Len(recording) \in Nat
    BY <1>0, <2>1
  <2>3. Len(recording) = 0 \/ Len(recording) = 1
    BY <2>1, <2>2
  <2>4. CASE Len(recording) = 0
    BY <1>0, <2>1, <2>2, <2>4
  <2>5. CASE Len(recording) = 1
    <3>1. Len(recording') = 2 /\ recording'[2] = nextBuffer
      BY <2>2, <2>5
    <3>2. cpc' = "loop"
      <4>1. ~(Len(recording) = 0)
        BY <2>5
      <4>2. ~restarting'
        BY <2>1, <4>1
      <4> QED BY <2>1, <4>2
    <3>3. recording'[1] = Other(nextBuffer)
      BY <2>2, <2>5
    <3> QED BY <1>0, <2>1, <2>2, <3>1, <3>2, <3>3
  <2> QED BY <2>3, <2>4, <2>5
<1>4. CASE TakeBlock
  BY <1>0, <1>4 DEF TakeBlock
<1>5. CASE CaptureAudio /\ ~Record /\ ~TakeBlock
  BY <1>0, <1>5 DEF CaptureAudio, EnqueueLatest, Snapshot, RecordFails, Enqueue,
     Send,
     Evict, Pause, Resume, captureFrame
<1> QED BY <1>1, <1>2, <1>3, <1>4, <1>5, CaptureSteps

\* The capture task keeps the types of what is its own.
LEMMA CaptureTyped ==
  ASSUME TypeOK, RecordingInv, [Next]_vars
  PROVE  /\ cpc' \in {"snapshot", "record", "loop", "enqueue", "send", "evict", "pause", "dead"}
         /\ nextBuffer' \in {0, 1} /\ restarting' \in BOOLEAN /\ serial' \in Serials
         /\ buffers' \in [{0, 1} -> Buffer]
         /\ recording' \in Seq({0, 1}) /\ Len(recording') <= 2
<1> USE SizeAssumption DEF Serials
<1>0. UNCHANGED captureVars \/ CaptureAudio \/ RecordingDone
  BY CaptureSteps
<1>1. nextBuffer' \in {0, 1}
  BY <1>0 DEF captureVars, CaptureAudio, EnqueueLatest, Snapshot, Record,
     RecordFails, TakeBlock, Enqueue, Send, Evict, Pause, Resume, RecordingDone,
     captureFrame, TypeOK, Other
<1>2. recording' \in Seq({0, 1}) /\ Len(recording') <= 2
  BY RecordingKept DEF RecordingInv
<1>3. /\ cpc' \in {"snapshot", "record", "loop", "enqueue", "send", "evict", "pause", "dead"}
      /\ restarting' \in BOOLEAN /\ serial' \in Serials
  <2>1. /\ cpc \in {"snapshot", "record", "loop", "enqueue", "send", "evict", "pause", "dead"}
        /\ restarting \in BOOLEAN /\ serial \in Serials
    BY DEF TypeOK
  <2>2. CASE Record
    BY <2>1, <2>2 DEF Record
  <2>3. CASE Snapshot \/ RecordFails \/ TakeBlock \/ Pause \/ Resume
    BY <2>1, <2>3 DEF Snapshot, RecordFails, TakeBlock, Pause, Resume,
       captureFrame
  <2>4. CASE EnqueueLatest
    BY <2>1, <2>4 DEF EnqueueLatest, Enqueue, Send, Evict, captureFrame
  <2>5. CASE UNCHANGED captureVars \/ RecordingDone
    BY <2>1, <2>5 DEF captureVars, RecordingDone
  <2> QED BY <1>0, <2>2, <2>3, <2>4, <2>5 DEF CaptureAudio
<1>4. buffers' \in [{0, 1} -> Buffer]
  <2>0. buffers \in [{0, 1} -> Buffer] /\ nextBuffer \in {0, 1}
    BY DEF TypeOK
  <2>1. CASE Snapshot
    <3> DEFINE b == [active |-> usbMicActive,
                     block |-> [serial |-> 0, generation |-> streamGeneration, born |-> 0]]
    <3>1. b \in Buffer
      BY DEF TypeOK, Buffer, AudioBlock, Generations
    <3>2. buffers' = [buffers EXCEPT ![nextBuffer] = b]
      BY <2>1 DEF Snapshot
    <3> HIDE DEF b
    <3> QED BY <2>0, <3>1, <3>2
  <2>2. CASE Record
    <3>1. PICK n \in Serials, g \in Generations :
             buffers' = [buffers EXCEPT ![nextBuffer].block.serial = n,
                                        ![nextBuffer].block.born = g]
      <4>1. serial + 1 \in Serials
        BY <2>2 DEF Record, TypeOK
      <4>2. 0 \in Generations /\ streamGeneration \in Generations
        BY DEF TypeOK, Generations
      <4> QED BY <2>2, <4>1, <4>2 DEF Record
    <3> HIDE DEF Serials
    <3>2. PICK b \in Buffer : b = buffers[nextBuffer]
      BY <2>0
    <3> QED BY <2>0, <3>1, <3>2 DEF Buffer, AudioBlock
  <2>3. CASE UNCHANGED buffers
    BY <2>0, <2>3
  <2> QED BY <1>0, <2>1, <2>2, <2>3 DEF captureVars, CaptureAudio,
     EnqueueLatest,
          RecordFails, TakeBlock, Enqueue, Send, Evict, Pause, Resume, RecordingDone,
          captureFrame
<1> QED BY <1>1, <1>2, <1>3, <1>4

\* So does the feeder.
LEMMA FeederTyped ==
  ASSUME TypeOK, [Next]_vars
  PROVE  /\ fpc' \in {"snapshot", "receive", "empty", "fillLock", "fillCheck", "fill",
                      "belongs", "started", "write", "writeLock", "writeCheck", "put"}
         /\ usbFifoMutex' \in {"free", "feeder"} /\ awaitingFresh' \in BOOLEAN
         /\ generation' \in Generations /\ block' \in AudioBlock
         /\ remaining' \in 0 .. BlockChunks
<1> USE SizeAssumption DEF TypeOK
<1>1. CASE UNCHANGED feederVars /\ UNCHANGED usbFifoMutex
  BY <1>1 DEF feederVars
<1>2. CASE Receive
  <2>1. audioQueue # <<>> => Head(audioQueue) \in AudioBlock
    OBVIOUS
  <2> QED BY <1>2, <2>1 DEF Receive, feederUnchanged
<1>3. CASE Put
  <2>1. PICK n \in 0 .. remaining : remaining' = remaining - n
    BY <1>3 DEF Put
  <2> QED BY <1>3, <2>1 DEF Put, feederFrame
<1>4. CASE FeedUsb /\ ~Receive /\ ~Put
  BY <1>4 DEF FeedUsb, FeedSnapshot, TakeMutex, TopUpSilence, Starved,
     FillCheck, Fill,
     BlockBelongs, Started, WriteBlock, Write, WriteCheck, feederFrame
<1> QED BY <1>1, <1>2, <1>3, <1>4, MutexSteps, FeederSteps

\* Every variable keeps its type.
LEMMA TypeKept ==
  ASSUME TypeOK, StreamInv, RecordingInv, [Next]_vars
  PROVE  TypeOK'
<1>1. /\ {micInterfaceEnabled', usbLinkUsable', opening', audioPut'} \subseteq BOOLEAN
      /\ awaiting' \in Generations
      /\ epc' \in {"idle", "retire", "invalidate", "drain", "clear", "await", "publish"}
  <2> USE SizeAssumption DEF TypeOK, Generations
  <2>1. CASE AudioEvent \/ UsbEvent \/ UsbStopped
    BY <2>1 DEF AudioEvent, UsbEvent, UsbStopped, Recompute, streamVars
  <2>2. CASE TransitionStreaming
    <3>1. CASE Retire \/ Invalidate \/ ClearQueuedAudio
      BY <3>1 DEF Retire, Invalidate, ClearQueuedAudio, streamVars
    <3>2. CASE ClearFifo \/ Publish
      BY <3>2 DEF ClearFifo, Publish, streamVars
    <3>3. CASE AwaitStartup
      BY <3>3 DEF AwaitStartup
    <3> QED BY <2>2, <3>1, <3>2, <3>3 DEF TransitionStreaming
  <2>3. CASE CaptureAudio \/ RecordingDone
    <3>1. UNCHANGED capturerUnchanged
      BY <2>3 DEF CaptureAudio, EnqueueLatest, Snapshot, Record, RecordFails,
         TakeBlock,
         Enqueue, Send, Evict, Pause, Resume, RecordingDone
    <3> QED BY <3>1 DEF capturerUnchanged, eventVars, streamVars
  <2>4. CASE FeedUsb
    <3>1. UNCHANGED eventVars
      BY <2>4 DEF FeedUsb, FeedSnapshot, Receive, TakeMutex, TopUpSilence,
         Starved,
         FillCheck, Fill, BlockBelongs, Started, WriteBlock, Write, WriteCheck, Put,
         feederUnchanged
    <3>2. awaiting' \in Generations
      BY <2>4 DEF FeedUsb, FeedSnapshot, Receive, TakeMutex, TopUpSilence,
         Starved,
         FillCheck, Fill, BlockBelongs, Started, WriteBlock, Write, WriteCheck, Put
    <3>3. audioPut' \in BOOLEAN
      BY <2>4 DEF FeedUsb, FeedSnapshot, Receive, TakeMutex, TopUpSilence,
         Starved,
         FillCheck, Fill, BlockBelongs, Started, WriteBlock, Write, WriteCheck, Put
    <3> QED BY <3>1, <3>2, <3>3 DEF eventVars
  <2>5. CASE HostReads \/ UNCHANGED vars
    BY <2>5 DEF HostReads, vars, eventVars, streamVars
  <2> QED BY <2>1, <2>2, <2>3, <2>4, <2>5 DEF Next
<1>2. usbMicActive' \in BOOLEAN /\ streamGeneration' \in Generations
  <2>1. StreamStep
    BY StreamSteps
  <2>2. streamGeneration \in Nat /\ MaxGeneration \in Nat /\ streamGeneration <= MaxGeneration
        /\ usbMicActive \in BOOLEAN /\ opening \in BOOLEAN
    BY SizeAssumption DEF TypeOK, Generations
  <2>3. usbMicActive' \in BOOLEAN
    BY <2>1, <2>2 DEF StreamStep, taskVars
  <2>4. streamGeneration' \in Generations
    BY <2>1, <2>2 DEF StreamStep, taskVars, StreamInv, Generations
  <2> QED BY <2>3, <2>4
<1> QED BY <1>1, <1>2, FifoKept, QueueIsKept, CaptureTyped, FeederTyped
   DEF TypeOK

-----------------------------------------------------------------------------
(* The blocks *)

\* What Put puts behind the audio of the FIFO: the next parts of the block in hand.
LEMMA PutAdds ==
  ASSUME TypeOK, Put
  PROVE  \E n \in 0 .. remaining :
           /\ remaining' = remaining - n /\ (audioPut' <=> audioPut \/ n # 0)
           /\ \A i \in Audible' :
                \/ i \in Audible /\ fifo'[i] = fifo[i]
                \/ /\ i > Len(fifo) /\ i - Len(fifo) \in 1 .. n
                   /\ fifo'[i] = Audio(block, BlockChunks - remaining + (i - Len(fifo)))
                   /\ fifo'[i].block = block
<1>1. PICK n \in 0 .. remaining :
         /\ fifo' = fifo \o Rest(n) /\ remaining' = remaining - n
         /\ audioPut' = (audioPut \/ n # 0)
  BY DEF Put
<1>2. n \in Nat /\ remaining \in 0 .. BlockChunks /\ fifo \in Seq(Chunk) /\ Len(fifo) \in Nat
  BY SizeAssumption DEF TypeOK
<1>3. Rest(n) \in [1 .. n -> Chunk]
  BY ChunkTypes
<1>4. /\ DOMAIN (fifo \o Rest(n)) = 1 .. Len(fifo) + n
      /\ \A i \in 1 .. Len(fifo) : (fifo \o Rest(n))[i] = fifo[i]
      /\ \A i \in 1 .. n : (fifo \o Rest(n))[Len(fifo) + i] = Rest(n)[i]
  BY ONLY <1>2, <1>3, Extended, SMTT(20)
<1>5. ASSUME NEW i \in Audible'
      PROVE  \/ i \in Audible /\ fifo'[i] = fifo[i]
             \/ /\ i > Len(fifo) /\ i - Len(fifo) \in 1 .. n
                /\ fifo'[i] = Audio(block, BlockChunks - remaining + (i - Len(fifo)))
                /\ fifo'[i].block = block
  <2>1. i \in 1 .. Len(fifo) + n /\ IsAudio(fifo'[i])
    BY <1>1, <1>4 DEF Audible
  <2>2. CASE i \in 1 .. Len(fifo)
    BY <1>1, <1>2, <1>4, <2>1, <2>2 DEF Audible
  <2>3. CASE i > Len(fifo)
    <3>1. PICK k \in 1 .. n : i = Len(fifo) + k
      <4>1. i - Len(fifo) \in 1 .. n /\ i = Len(fifo) + (i - Len(fifo))
        BY <1>2, <2>1, <2>3
      <4> QED BY <4>1
    <3>2. fifo'[i] = Rest(n)[k]
      BY <1>1, <1>4, <3>1
    <3>3. Rest(n)[k] = Audio(block, BlockChunks - remaining + k)
      BY DEF Rest
    <3>4. i - Len(fifo) = k
      BY <1>2, <3>1
    <3>5. fifo'[i].block = block
      BY <3>2, <3>3 DEF Audio
    <3> QED BY <2>3, <3>2, <3>3, <3>4, <3>5
  <2> QED BY <1>2, <2>1, <2>2, <2>3
<1>6. audioPut' <=> audioPut \/ n # 0
  BY <1>1
<1> QED BY <1>1, <1>5, <1>6

\* A block on its way was so before, or is the one that is sent.
LEMMA TravelSteps ==
  ASSUME TypeOK, [Next]_vars, NEW b \in AudioBlock, Travelling(b)'
  PROVE  Travelling(b) \/ (Send /\ b = buffers[nextBuffer].block)
<1>1. ASSUME NEW k \in DOMAIN audioQueue', audioQueue'[k] = b
      PROVE  Travelling(b) \/ (Send /\ b = buffers[nextBuffer].block)
  <2>0. QueueKept \/ Send
    BY QueueIsKept
  <2>1. CASE QueueKept
    BY <1>1, <2>1 DEF QueueKept, Travelling
  <2>2. CASE Send /\ ~QueueKept
    <3>1. audioQueue \in Seq(AudioBlock)
      BY DEF TypeOK
    <3>2. ~UNCHANGED audioQueue
      BY <2>2, <3>1 DEF QueueKept
    <3>3. PICK c : c = buffers[nextBuffer].block
      OBVIOUS
    <3>4. audioQueue' = Append(audioQueue, c)
      BY <2>2, <3>2, <3>3 DEF Send
    <3>5. (k \in DOMAIN audioQueue /\ audioQueue'[k] = audioQueue[k]) \/ audioQueue'[k] = c
      BY <1>1, <3>1, <3>4
    <3> QED BY <1>1, <2>2, <3>3, <3>5 DEF Travelling
  <2> QED BY <2>0, <2>1, <2>2
<1>2. ASSUME InHand', block' = b PROVE Travelling(b)
  <2>1. CASE Receive
    <3>1. audioQueue # <<>>
      BY <1>2, <2>1 DEF Receive, InHand
    <3>2. audioQueue \in Seq(AudioBlock)
      BY DEF TypeOK
    <3>3. block' = audioQueue[1] /\ 1 \in DOMAIN audioQueue
      BY <2>1, <3>1, <3>2 DEF Receive
    <3> QED BY <1>2, <3>3 DEF Travelling
  <2>2. CASE ~Receive
    <3>1. CASE UNCHANGED feederVars
      BY <1>2, <3>1 DEF feederVars, InHand, Travelling
    <3>2. CASE FeedUsb
      <4>1. block' = block /\ (InHand' => InHand)
        BY <2>2, <3>2 DEF FeedUsb, FeedSnapshot, TakeMutex, TopUpSilence,
           Starved,
           FillCheck, Fill, BlockBelongs, Started, WriteBlock, Write, WriteCheck, Put,
           feederFrame, InHand
      <4> QED BY <1>2, <4>1 DEF Travelling
    <3> QED BY <3>1, <3>2, FeederSteps
  <2> QED BY <2>1, <2>2
<1>3. ASSUME NEW i \in Audible', fifo'[i].block = b PROVE Travelling(b)
  <2>1. CASE Kept
    BY <1>3, <2>1 DEF Kept, Travelling
  <2>2. CASE Put
    <3>1. InHand
      BY <2>2 DEF Put, InHand
    <3>2. (i \in Audible /\ fifo'[i] = fifo[i]) \/ fifo'[i].block = block
      BY <2>2, PutAdds
    <3> QED BY <1>3, <3>1, <3>2 DEF Travelling
  <2> QED BY <2>1, <2>2, FifoKept
<1> QED BY <1>1, <1>2, <1>3 DEF Travelling

\* What the buffers hold is in time, and sound where its recording has begun.
LEMMA BuffersKept ==
  ASSUME TypeOK, StreamInv, BlockInv, [Next]_vars,
         NEW buffer \in {0, 1}, NEW b \in AudioBlock, Holds(buffer, b)'
  PROVE  InTime(b)' /\ (buffer # nextBuffer' \/ cpc' \notin {"record", "dead"} => Sound(b)')
<1>0. /\ buffers \in [{0, 1} -> Buffer] /\ nextBuffer \in {0, 1}
      /\ Other(nextBuffer) \in {0, 1} /\ Other(nextBuffer) # nextBuffer
      /\ \A c \in {0, 1} : c = nextBuffer \/ c = Other(nextBuffer)
  BY DEF TypeOK, Other
<1>1. Holds(buffer, b) =>
        InTime(b)' /\ (buffer # nextBuffer \/ cpc \notin {"record", "dead"} => Sound(b)')
  BY TimeKept DEF BlockInv
<1>2. CASE UNCHANGED captureVars \/ RecordingDone
  BY <1>1, <1>2 DEF captureVars, RecordingDone, Holds
<1>3. CASE Snapshot
  <2>1. UNCHANGED taskVars /\ UNCHANGED nextBuffer /\ cpc = "snapshot" /\ cpc' = "record"
    BY <1>3 DEF Snapshot, taskVars, capturerUnchanged, eventVars, streamVars
  <2>2. CASE buffer = nextBuffer
    <3>1. usbMicActive /\ b.generation = streamGeneration
      BY <1>0, <1>3, <2>2 DEF Snapshot, Holds
    <3>2. InTime(b)'
      BY <2>1, <3>1 DEF InTime, taskVars, TypeOK, Generations
    <3> QED BY <2>1, <2>2, <3>2
  <2>3. CASE buffer # nextBuffer
    <3>1. Holds(buffer, b)
      BY <1>0, <1>3, <2>3 DEF Snapshot, Holds
    <3> QED BY <1>1, <2>1, <3>1
  <2> QED BY <2>2, <2>3
<1>4. CASE Record
  <2>1. /\ UNCHANGED taskVars /\ cpc = "record" /\ nextBuffer' = Other(nextBuffer)
        /\ cpc' \in {"snapshot", "loop"}
    BY <1>4 DEF Record, taskVars, capturerUnchanged, eventVars, streamVars
  <2>2. CASE buffer = nextBuffer
    <3>1. PICK o \in AudioBlock : o = buffers[nextBuffer].block
      BY <1>0 DEF Buffer
    <3>2. /\ buffers[nextBuffer].active /\ b.generation = o.generation
          /\ usbMicActive => b.born = streamGeneration
      <4>1. buffers[nextBuffer] = [active |-> buffers[nextBuffer].active, block |-> o]
        BY <1>0, <3>1 DEF Buffer
      <4>2. o = [serial |-> o.serial, generation |-> o.generation, born |-> o.born]
        BY <3>1 DEF AudioBlock
      <4>3. buffers'[nextBuffer] =
              [active |-> buffers[nextBuffer].active,
               block |-> [serial |-> serial + 1, generation |-> o.generation,
                          born |-> IF usbMicActive THEN streamGeneration ELSE 0]]
        <5> DEFINE begun == [buffers EXCEPT ![nextBuffer].block.serial = serial + 1]
                   now == IF usbMicActive THEN streamGeneration ELSE 0
        <5>1. /\ begun[nextBuffer] = [active |-> buffers[nextBuffer].active,
                                      block |-> [o EXCEPT !.serial = serial + 1]]
              /\ DOMAIN begun = {0, 1}
          BY <1>0, <4>1
        <5>2. [o EXCEPT !.serial = serial + 1]
                = [serial |-> serial + 1, generation |-> o.generation, born |-> o.born]
          BY <4>2
        <5>3. buffers' = [begun EXCEPT ![nextBuffer].block.born = now]
          BY <1>4 DEF Record
        <5> HIDE DEF begun, now
        <5>4. buffers'[nextBuffer] =
                [active |-> buffers[nextBuffer].active,
                 block |-> [serial |-> serial + 1, generation |-> o.generation,
                            born |-> now]]
          <6>1. buffers'[nextBuffer] = [begun[nextBuffer] EXCEPT !.block.born = now]
            BY ONLY <1>0, <5>1, <5>3
          <6> DEFINE first == [serial |-> serial + 1, generation |-> o.generation,
                               born |-> o.born]
          <6>2. begun[nextBuffer] = [active |-> buffers[nextBuffer].active, block |-> first]
            BY <5>1, <5>2
          <6>3. [first EXCEPT !.born = now]
                  = [serial |-> serial + 1, generation |-> o.generation, born |-> now]
            OBVIOUS
          <6> HIDE DEF first
          <6> QED BY ONLY <6>1, <6>2, <6>3
        <5> QED BY <5>4 DEF now
      <4>4. buffers'[buffer].active /\ buffers'[buffer].block = b
        BY <1>0 DEF Holds
      <4> QED BY <2>2, <4>3, <4>4
    <3>3. InTime(o)
      BY <1>0, <3>1, <3>2 DEF BlockInv, Holds
    <3>4. InTime(b)' /\ Sound(b)'
      BY <2>1, <3>2, <3>3 DEF InTime, Sound, Current, taskVars
    <3> QED BY <3>4
  <2>3. CASE buffer # nextBuffer
    <3>1. Holds(buffer, b)
      BY <1>0, <1>4, <2>3 DEF Record, Holds
    <3> QED BY <1>1, <2>3, <3>1
  <2> QED BY <2>2, <2>3
<1>5. CASE CaptureAudio /\ ~Snapshot /\ ~Record
  <2>1. /\ UNCHANGED buffers
        /\ cpc \in {"record", "dead"} => cpc' \in {"record", "dead"} /\ nextBuffer' = nextBuffer
    BY <1>5 DEF CaptureAudio, EnqueueLatest, RecordFails, TakeBlock, Enqueue,
       Send, Evict,
       Pause, Resume, captureFrame
  <2> QED BY <1>1, <2>1 DEF Holds
<1> QED BY <1>2, <1>3, <1>4, <1>5, CaptureSteps

\* The blocks that may still come to the FIFO stay sound.
LEMMA BlockKept ==
  ASSUME TypeOK, TypeOK', StreamInv, BlockInv, [Next]_vars
  PROVE  BlockInv'
<1>1. \A buffer \in {0, 1}, b \in AudioBlock : Holds(buffer, b)' =>
        InTime(b)' /\ (buffer # nextBuffer' \/ cpc' \notin {"record", "dead"} => Sound(b)')
  BY BuffersKept
<1>2. cpc' \in {"enqueue", "send", "evict"} => buffers'[nextBuffer'].active
  BY CaptureSteps DEF BlockInv, captureVars, CaptureAudio, EnqueueLatest,
     Snapshot, Record,
     RecordFails, TakeBlock, Enqueue, Send, Evict, Pause, Resume, RecordingDone, captureFrame
<1>3. ASSUME NEW b \in AudioBlock, Travelling(b)' PROVE Sound(b)'
  <2>1. Travelling(b) \/ (Send /\ b = buffers[nextBuffer].block)
    BY <1>3, TravelSteps
  <2>2. Sound(b)
    <3>1. CASE Send /\ b = buffers[nextBuffer].block
      BY <3>1 DEF Send, BlockInv, Holds, TypeOK
    <3> QED BY <2>1, <3>1 DEF BlockInv
  <2>3. InTime(b)
    BY <2>2 DEF Sound
  <2> QED BY <2>2, <2>3, TimeKept
<1> QED BY <1>1, <1>2, <1>3 DEF BlockInv

-----------------------------------------------------------------------------
(* The FIFO and the startup *)

\* The startup is begun by the event task, while no stream is open, and ended by
\* the feeder.
LEMMA AwaitingSteps ==
  ASSUME [Next]_vars
  PROVE  UNCHANGED awaiting \/ (AwaitStartup /\ UNCHANGED feederVars) \/ Started
<1>1. CASE AudioEvent \/ UsbEvent \/ UsbStopped
  BY <1>1 DEF AudioEvent, UsbEvent, UsbStopped, Recompute, streamVars
<1>2. CASE TransitionStreaming
  BY <1>2 DEF TransitionStreaming, Retire, Invalidate, ClearQueuedAudio,
     ClearFifo,
     AwaitStartup, Publish, streamVars, others
<1>3. CASE CaptureAudio \/ RecordingDone
  <2>1. UNCHANGED capturerUnchanged
    BY <1>3 DEF CaptureAudio, EnqueueLatest, Snapshot, Record, RecordFails,
       TakeBlock,
       Enqueue, Send, Evict, Pause, Resume, RecordingDone
  <2> QED BY <2>1 DEF capturerUnchanged, streamVars
<1>4. CASE FeedUsb
  BY <1>4 DEF FeedUsb, FeedSnapshot, Receive, TakeMutex, TopUpSilence, Starved,
     FillCheck,
     Fill, BlockBelongs, WriteBlock, Write, WriteCheck, Put
<1>5. CASE HostReads \/ UNCHANGED vars
  BY <1>5 DEF HostReads, vars, streamVars
<1> QED BY <1>1, <1>2, <1>3, <1>4, <1>5 DEF Next

\* The FIFO is cleared after the stream is retired, and nothing is written into
\* it for a stream that is not open any more.
LEMMA FifoInvKept ==
  ASSUME TypeOK, StreamInv, BlockInv, FifoInv, [Next]_vars
  PROVE  FifoInv'
<1>0. StreamStep /\ streamGeneration \in Nat
  BY StreamSteps, SizeAssumption DEF TypeOK, Generations
<1>1. /\ usbMicActive' => \A i \in Audible' : fifo'[i].block.generation = streamGeneration'
      /\ epc' \in {"await", "publish"} => Audible' = {}
  <2>1. CASE Put
    <3>1. /\ UNCHANGED taskVars /\ fpc = "put"
      BY <2>1 DEF Put, feederUnchanged, eventVars, taskVars
    <3>3. \A j \in Audible' : (j \in Audible /\ fifo'[j] = fifo[j]) \/ fifo'[j].block = block
      BY <2>1, PutAdds
    <3>4. (usbMicActive /\ Current(block)) \/ Emptying
      BY <3>1 DEF FifoInv
    <3>5. epc \notin {"await", "publish"} /\ (usbMicActive => Current(block))
      BY <3>4 DEF Emptying, StreamInv
    <3> QED BY <3>1, <3>3, <3>5 DEF FifoInv, Current, taskVars
  <2>2. CASE ClearFifo
    <3>1. PICK m \in Nat : fifo' = [i \in 1 .. m |-> Silent("prefill")]
      BY <2>2, TargetFits DEF ClearFifo
    <3>2. \A i \in DOMAIN fifo' : ~IsAudio(fifo'[i])
      BY <3>1 DEF Silent, IsAudio
    <3> QED BY <3>2 DEF Audible
  <2>3. CASE Kept /\ ~ClearFifo
    <3>1. PICK d \in {0, 1} : \A i \in Audible' : i + d \in Audible /\ fifo'[i] = fifo[i + d]
      BY <2>3 DEF Kept
    <3>2. ~(epc = "clear" /\ epc' = "await")
      BY <2>3 DEF Next, AudioEvent, UsbEvent, UsbStopped, Recompute,
         TransitionStreaming,
         Retire, Invalidate, ClearQueuedAudio, AwaitStartup, Publish, CaptureAudio,
         EnqueueLatest, Snapshot, Record, RecordFails, TakeBlock, Enqueue, Send, Evict, Pause,
         Resume, RecordingDone, FeedUsb, FeedSnapshot, Receive, TakeMutex, TopUpSilence,
         Starved, FillCheck, Fill, BlockBelongs, Started, WriteBlock, Write, WriteCheck, Put,
         HostReads, vars, eventVars, capturerUnchanged, feederUnchanged
    <3>3. epc' \in {"await", "publish"} => Audible' = {}
      BY <1>0, <3>1, <3>2 DEF FifoInv, StreamStep, taskVars
    <3>4. ASSUME usbMicActive', NEW i \in Audible'
          PROVE  fifo'[i].block.generation = streamGeneration'
      <4>1. Audible # {} /\ fifo'[i] = fifo[i + d] /\ i + d \in Audible
        BY <3>1
      <4>2. usbMicActive /\ streamGeneration' = streamGeneration
        BY <1>0, <3>4, <4>1 DEF StreamStep, taskVars, FifoInv, StreamInv
      <4>3. fifo[i + d].block.generation = streamGeneration
        BY <4>1, <4>2 DEF FifoInv
      <4> QED BY <4>1, <4>2, <4>3
    <3> QED BY <3>3, <3>4
  <2> QED BY <2>1, <2>2, <2>3, FifoKept
<1>2. ASSUME fpc' = "put" PROVE (usbMicActive' /\ Current(block)') \/ Emptying'
  <2>1. CASE WriteCheck
    <3>1. Belongs(block.generation) /\ UNCHANGED <<taskVars, block>>
      BY <1>2, <2>1 DEF WriteCheck, feederUnchanged, eventVars, taskVars,
         feederFrame
    <3> QED BY <3>1 DEF Belongs, Current, taskVars
  <2>2. CASE ~WriteCheck
    <3>1. UNCHANGED feederVars \/ FeedUsb
      BY FeederSteps
    <3>2. UNCHANGED feederVars
      BY <1>2, <2>2, <3>1 DEF FeedUsb, FeedSnapshot, Receive, TakeMutex,
         TopUpSilence,
         Starved, FillCheck, Fill, BlockBelongs, Started, WriteBlock, Write, Put, feederVars
    <3>3. fpc = "put" /\ block' = block /\ usbFifoMutex = "feeder"
      BY <1>2, <3>2 DEF feederVars, StreamInv, Feeding
    <3>4. (usbMicActive /\ Current(block)) \/ Emptying
      BY <3>3 DEF FifoInv
    <3>5. block.generation = streamGeneration /\ usbMicActive =>
            \/ usbMicActive' /\ streamGeneration' = streamGeneration
            \/ epc' = "invalidate"
      BY <1>0, <3>3 DEF StreamStep, taskVars, StreamInv
    <3>6. Emptying => Emptying'
      BY <1>0, <3>3 DEF StreamStep, taskVars, Emptying
    <3> QED BY <3>3, <3>4, <3>5, <3>6 DEF Emptying, Current
  <2> QED BY <2>1, <2>2
<1>3. ASSUME fpc' = "fill"
      PROVE  \/ usbMicActive' /\ generation' = streamGeneration'
                /\ (awaitingFresh' => awaiting' = streamGeneration')
             \/ Emptying'
  <2>1. CASE FillCheck
    <3>1. /\ Belongs(generation) /\ (awaitingFresh => awaiting = generation)
          /\ UNCHANGED <<taskVars, generation, awaitingFresh, awaiting>>
      BY <1>3, <2>1 DEF FillCheck, feederUnchanged, eventVars, taskVars,
         feederFrame
    <3> QED BY <3>1 DEF Belongs, taskVars
  <2>2. CASE ~FillCheck
    <3>1. UNCHANGED feederVars \/ FeedUsb
      BY FeederSteps
    <3>2. UNCHANGED feederVars
      BY <1>3, <2>2, <3>1 DEF FeedUsb, FeedSnapshot, Receive, TakeMutex,
         TopUpSilence,
         Starved, Fill, BlockBelongs, Started, WriteBlock, Write, WriteCheck, Put, feederVars
    <3>3. /\ fpc = "fill" /\ UNCHANGED <<generation, awaitingFresh>>
          /\ usbFifoMutex = "feeder"
      BY <1>3, <3>2 DEF feederVars, StreamInv, Feeding
    <3>4. CASE Emptying
      BY <1>0, <3>3, <3>4 DEF StreamStep, taskVars, Emptying
    <3>5. CASE /\ usbMicActive /\ generation = streamGeneration
               /\ (awaitingFresh => awaiting = streamGeneration)
      <4>1. \/ usbMicActive' /\ streamGeneration' = streamGeneration
            \/ epc' = "invalidate"
        BY <1>0, <3>3, <3>5 DEF StreamStep, taskVars, StreamInv
      <4>2. usbMicActive' => awaiting' = awaiting
        BY <3>2, <3>3, <3>5, AwaitingSteps DEF StreamInv, AwaitStartup, Started,
           feederVars
      <4> QED BY <3>3, <3>5, <4>1, <4>2 DEF Emptying
    <3> QED BY <3>3, <3>4, <3>5 DEF FifoInv
  <2> QED BY <2>1, <2>2
<1> QED BY <1>1, <1>2, <1>3 DEF FifoInv

\* Once audio of the open stream is in the FIFO, or on its way from the feeder,
\* the stream awaits no startup.
LEMMA StartupKept ==
  ASSUME TypeOK, StreamInv, BlockInv, FifoInv, StartupInv, [Next]_vars
  PROVE  StartupInv'
<1>0. StreamStep /\ streamGeneration \in Nat
  BY StreamSteps, SizeAssumption DEF TypeOK, Generations
<1>1. CASE Publish
  <2>1. /\ ~usbMicActive /\ epc = "publish" /\ ~audioPut'
        /\ UNCHANGED <<streamGeneration, awaiting, fpc, block>>
    BY <1>1 DEF Publish, StreamInv, others, feederVars
  <2>2. Writing => ~Current(block)
    <3>1. ASSUME Writing PROVE Sound(block)
      BY <3>1 DEF BlockInv, Travelling, InHand, Writing, TypeOK
    <3>2. block.generation \in Nat
      BY SizeAssumption DEF TypeOK, AudioBlock, Generations
    <3> QED BY <1>0, <2>1, <3>1, <3>2 DEF Sound, InTime, Current
  <2> QED BY <2>1, <2>2 DEF StartupInv, Writing, Current
<1>2. CASE Started
  <2>1. /\ UNCHANGED <<taskVars, block, audioPut>>
        /\ awaiting' = IF awaiting = block.generation THEN 0 ELSE awaiting
    BY <1>2 DEF Started, feederFrame, feederUnchanged, eventVars, taskVars
  <2>2. usbMicActive => streamGeneration >= 1
    BY DEF StreamInv
  <2> QED BY <1>0, <2>1, <2>2 DEF StartupInv, Current, taskVars
<1>3. CASE Put
  <2>1. /\ UNCHANGED <<taskVars, block, awaiting>> /\ fpc = "put"
        /\ fpc' \in {"snapshot", "write"}
    BY <1>3 DEF Put, feederFrame, feederUnchanged, eventVars, taskVars
  <2>2. usbMicActive => Current(block) /\ awaiting # streamGeneration
    BY <2>1 DEF FifoInv, StartupInv, StreamInv, Emptying, Writing
  <2> QED BY <2>1, <2>2 DEF StartupInv, taskVars
<1>4. CASE AwaitStartup
  BY <1>4 DEF AwaitStartup, StreamInv, StartupInv
<1>5. CASE ~Publish /\ ~Started /\ ~Put /\ ~AwaitStartup
  <2>1. UNCHANGED awaiting
    BY <1>5, AwaitingSteps
  <2>2. usbMicActive' => usbMicActive /\ streamGeneration' = streamGeneration
    <3>1. ~(epc = "publish" /\ epc' = "idle")
      BY <1>5 DEF Next, AudioEvent, UsbEvent, UsbStopped, Recompute,
         TransitionStreaming,
         Retire, Invalidate, ClearQueuedAudio, ClearFifo, CaptureAudio,
         EnqueueLatest, Snapshot, Record, RecordFails, TakeBlock, Enqueue, Send, Evict, Pause,
         Resume, RecordingDone, FeedUsb, FeedSnapshot, Receive, TakeMutex, TopUpSilence,
         Starved, FillCheck, Fill, BlockBelongs, WriteBlock, Write, WriteCheck,
         HostReads, vars, eventVars, capturerUnchanged, feederUnchanged
    <3> QED BY <1>0, <3>1 DEF StreamStep, taskVars, StreamInv
  <2>3. audioPut' = audioPut
    BY <1>5 DEF Next, AudioEvent, UsbEvent, UsbStopped, Recompute,
       TransitionStreaming,
       Retire, Invalidate, ClearQueuedAudio, ClearFifo, CaptureAudio,
       EnqueueLatest, Snapshot, Record, RecordFails, TakeBlock, Enqueue, Send, Evict, Pause,
       Resume, RecordingDone, FeedUsb, FeedSnapshot, Receive, TakeMutex, TopUpSilence,
       Starved, FillCheck, Fill, BlockBelongs, WriteBlock, Write, WriteCheck,
       HostReads, vars, capturerUnchanged
  <2>4. Writing' => Writing /\ block' = block
    <3>1. CASE UNCHANGED feederVars
      BY <3>1 DEF feederVars, Writing
    <3>2. CASE FeedUsb
      BY <1>5, <3>2 DEF FeedUsb, FeedSnapshot, Receive, TakeMutex, TopUpSilence,
         Starved,
         FillCheck, Fill, BlockBelongs, WriteBlock, Write, WriteCheck, feederFrame, Writing
    <3> QED BY <3>1, <3>2, FeederSteps
  <2> QED BY <2>1, <2>2, <2>3, <2>4 DEF StartupInv, Current
<1> QED BY <1>1, <1>2, <1>3, <1>4, <1>5

-----------------------------------------------------------------------------
(* The order *)

\* Serials and parts are numbers.
LEMMA SerialTypes ==
  ASSUME TypeOK
  PROVE  /\ block.serial \in Nat /\ serial \in Nat /\ remaining \in 0 .. BlockChunks
         /\ \A k \in DOMAIN audioQueue : audioQueue[k].serial \in Nat
         /\ \A buffer \in {0, 1} : buffers[buffer].block.serial \in Nat
         /\ \A i \in DOMAIN fifo : fifo[i].block.serial \in Nat /\ fifo[i].part \in Nat
         /\ BlockChunks \in Nat
<1> USE SizeAssumption
<1>1. \A b \in AudioBlock : b.serial \in Nat
  BY DEF AudioBlock, Serials
<1>2. \A k \in DOMAIN audioQueue : audioQueue[k] \in AudioBlock
  BY DEF TypeOK
<1>3. \A buffer \in {0, 1} : buffers[buffer].block \in AudioBlock
  BY DEF TypeOK, Buffer
<1>4. \A i \in DOMAIN fifo : fifo[i].block \in AudioBlock /\ fifo[i].part \in Nat
  <2>1. \A i \in DOMAIN fifo : fifo[i] \in Chunk
    BY DEF TypeOK
  <2> QED BY <2>1 DEF Chunk
<1> QED BY <1>1, <1>2, <1>3, <1>4 DEF TypeOK, Serials

\* The block in hand changes when the next one is received.
Received ==
  /\ audioQueue # <<>> /\ block' = audioQueue[1] /\ 1 \in DOMAIN audioQueue
  /\ remaining' = BlockChunks /\ UNCHANGED <<captureVars, fifo>>
  /\ \A k \in DOMAIN audioQueue' : k + 1 \in DOMAIN audioQueue /\ audioQueue'[k] = audioQueue[k + 1]

\* The block in hand stays, is written on, or is exchanged for the next one.
LEMMA BlockSteps ==
  ASSUME TypeOK, [Next]_vars
  PROVE  \/ UNCHANGED <<block, remaining>>
         \/ Put /\ UNCHANGED <<block, audioQueue, captureVars>>
         \/ Received
<1>1. CASE Receive
  <2>1. audioQueue \in Seq(AudioBlock)
    BY DEF TypeOK
  <2>2. CASE audioQueue = <<>>
    BY <1>1, <2>2 DEF Receive
  <2>3. CASE audioQueue # <<>>
    <3>1. /\ block' = Head(audioQueue) /\ audioQueue' = Tail(audioQueue)
          /\ remaining' = BlockChunks /\ UNCHANGED <<captureVars, fifo>>
      BY <1>1, <2>3 DEF Receive, feederUnchanged
    <3>2. Head(audioQueue) = audioQueue[1] /\ 1 \in DOMAIN audioQueue
      BY <2>1, <2>3
    <3> QED BY <2>1, <2>3, <3>1, <3>2, TailType DEF Received
  <2> QED BY <2>2, <2>3
<1>2. CASE UNCHANGED feederVars
  BY <1>2 DEF feederVars
<1>3. CASE FeedUsb /\ ~Receive
  BY <1>3 DEF FeedUsb, FeedSnapshot, TakeMutex, TopUpSilence, Starved,
     FillCheck, Fill,
     BlockBelongs, Started, WriteBlock, Write, WriteCheck, Put, feederFrame, feederUnchanged
<1> QED BY <1>1, <1>2, <1>3, FeederSteps

\* What is sent is put behind the queue.
Sent ==
  /\ cpc = "send" /\ cpc' = "snapshot"
  /\ UNCHANGED <<nextBuffer, buffers, recording, restarting, serial, block, remaining, fifo>>
  /\ DOMAIN audioQueue' = 1 .. Len(audioQueue) + 1 /\ Len(audioQueue) \in Nat
  /\ DOMAIN audioQueue = 1 .. Len(audioQueue)
  /\ \A k \in DOMAIN audioQueue : audioQueue'[k] = audioQueue[k]
  /\ audioQueue'[Len(audioQueue) + 1] = buffers[nextBuffer].block

\* The queue of blocks loses from its front or gains one at its end.
LEMMA QueueSteps == ASSUME TypeOK, [Next]_vars PROVE QueueKept \/ Sent
<1>1. ASSUME Send, ~QueueKept PROVE Sent
  <2>1. audioQueue \in Seq(AudioBlock)
    BY DEF TypeOK
  <2>2. ~UNCHANGED audioQueue
    BY <1>1, <2>1 DEF QueueKept
  <2>3. PICK c : c = buffers[nextBuffer].block
    OBVIOUS
  <2>4. /\ audioQueue' = Append(audioQueue, c) /\ cpc = "send" /\ cpc' = "snapshot"
        /\ UNCHANGED <<captureFrame, capturerUnchanged>>
    BY <1>1, <2>2, <2>3 DEF Send
  <2>5. /\ DOMAIN audioQueue' = 1 .. Len(audioQueue) + 1 /\ Len(audioQueue) \in Nat
        /\ DOMAIN audioQueue = 1 .. Len(audioQueue)
        /\ \A k \in DOMAIN audioQueue : audioQueue'[k] = audioQueue[k]
        /\ audioQueue'[Len(audioQueue) + 1] = c
    BY <2>1, <2>4
  <2> QED BY <2>3, <2>4, <2>5 DEF Sent, captureFrame, capturerUnchanged,
     feederVars
<1> QED BY <1>1, QueueIsKept

\* A number above the blocks that are behind the FIFO stays so, unless a higher
\* one is sent.
LEMMA BelowKept ==
  ASSUME TypeOK, OrderInv, [Next]_vars, NEW n \in Nat, Below(n),
         Sent => buffers[nextBuffer].block.serial < n
  PROVE  Below(n)'
<1>1. block'.serial < n
  <2>1. UNCHANGED block \/ Received
    BY BlockSteps
  <2> QED BY <2>1 DEF Below, Received
<1>2. ASSUME NEW k \in DOMAIN audioQueue' PROVE audioQueue'[k].serial < n
  <2>1. QueueKept \/ Sent
    BY QueueSteps
  <2>2. CASE QueueKept
    BY <2>2 DEF QueueKept, Below
  <2>3. CASE Sent
    <3>1. k \in DOMAIN audioQueue \/ k = Len(audioQueue) + 1
      BY <2>3 DEF Sent
    <3> QED BY <2>3, <3>1 DEF Sent, Below
  <2> QED BY <2>1, <2>2, <2>3
<1> QED BY <1>1, <1>2 DEF Below

\* What is heard and what is in hand stay in order.
LEMMA HeardInOrder ==
  ASSUME TypeOK, TypeOK', OrderInv, [Next]_vars
  PROVE  /\ \A i, j \in Audible' : i < j => Precedes(fifo'[i], fifo'[j])
         /\ \A i \in Audible' : Precedes(fifo'[i], Audio(block', BlockChunks - remaining' + 1))
<1> USE DEF Precedes
<1>0. /\ \A i \in Audible : i \in Nat /\ fifo[i].block.serial \in Nat /\ fifo[i].part \in Nat
      /\ block.serial \in Nat /\ remaining \in Nat /\ BlockChunks \in Nat
      /\ remaining <= BlockChunks
  <2>1. \A i \in DOMAIN fifo : i \in Nat
    BY DEF TypeOK
  <2>2. remaining \in 0 .. BlockChunks /\ BlockChunks \in Nat
    BY SerialTypes
  <2>3. remaining \in Nat /\ remaining <= BlockChunks
    BY <2>2
  <2> QED BY <2>1, <2>2, <2>3, SerialTypes DEF Audible
<1>1. /\ \A i, j \in Audible : i < j => Precedes(fifo[i], fifo[j])
      /\ \A i \in Audible :
           \/ fifo[i].block.serial < block.serial
           \/ fifo[i].block.serial = block.serial /\ fifo[i].part < BlockChunks - remaining + 1
  BY DEF OrderInv, Audio
<1>2. CASE Put
  <2>1. PICK n \in 0 .. remaining :
           /\ remaining' = remaining - n
           /\ \A i \in Audible' :
                \/ i \in Audible /\ fifo'[i] = fifo[i]
                \/ /\ i > Len(fifo) /\ i - Len(fifo) \in 1 .. n
                   /\ fifo'[i] = Audio(block, BlockChunks - remaining + (i - Len(fifo)))
    BY <1>2, PutAdds
  <2>2. block' = block /\ Len(fifo) \in Nat /\ DOMAIN fifo = 1 .. Len(fifo)
    BY <1>2 DEF Put, feederFrame, TypeOK
  <2>3. \A i \in Audible' :
          \/ i \in Audible /\ fifo'[i] = fifo[i] /\ i \in Nat /\ i <= Len(fifo)
          \/ /\ i \in Nat /\ i > Len(fifo) /\ i - Len(fifo) \in 1 .. n
             /\ fifo'[i].block.serial = block.serial
             /\ fifo'[i].part = BlockChunks - remaining + (i - Len(fifo))
    <3>1. \A i \in Audible' : i \in Nat
      BY DEF Audible, TypeOK
    <3>2. \A i \in Audible : i <= Len(fifo)
      BY <2>2 DEF Audible
    <3>3. ASSUME NEW i \in Audible',
                 fifo'[i] = Audio(block, BlockChunks - remaining + (i - Len(fifo)))
          PROVE  /\ fifo'[i].block.serial = block.serial
                 /\ fifo'[i].part = BlockChunks - remaining + (i - Len(fifo))
      BY <3>3 DEF Audio
    <3> QED BY <2>1, <3>1, <3>2, <3>3
  <2>4. ASSUME NEW i \in Audible', NEW j \in Audible', i < j
        PROVE  Precedes(fifo'[i], fifo'[j])
    <3>1. CASE i \in Audible /\ fifo'[i] = fifo[i] /\ j \in Audible /\ fifo'[j] = fifo[j]
      BY <1>1, <2>4, <3>1
    <3>2. CASE i \in Audible /\ fifo'[i] = fifo[i] /\ ~(j \in Audible /\ fifo'[j] = fifo[j])
      BY <1>0, <1>1, <2>1, <2>2, <2>3, <3>2
    <3>3. CASE ~(i \in Audible /\ fifo'[i] = fifo[i])
      BY <1>0, <2>1, <2>2, <2>3, <2>4, <3>3
    <3> QED BY <3>1, <3>2, <3>3
  <2>5. ASSUME NEW i \in Audible'
        PROVE  \/ fifo'[i].block.serial < block'.serial
               \/ /\ fifo'[i].block.serial = block'.serial
                  /\ fifo'[i].part < BlockChunks - remaining' + 1
    BY <1>0, <1>1, <2>1, <2>2, <2>3
  <2> QED BY <2>4, <2>5 DEF Audio
<1>3. CASE Kept /\ ~Put
  <2>1. PICK d \in {0, 1} : \A i \in Audible' : i + d \in Audible /\ fifo'[i] = fifo[i + d]
    BY <1>3 DEF Kept
  <2>2. \A i \in Audible' : i \in Nat
    BY DEF Audible, TypeOK
  <2>3. ASSUME NEW i \in Audible', NEW j \in Audible', i < j
        PROVE  Precedes(fifo'[i], fifo'[j])
    <3>1. i + d < j + d
      BY <2>2, <2>3
    <3>2. Precedes(fifo[i + d], fifo[j + d])
      BY <1>1, <2>1, <3>1
    <3> QED BY <2>1, <3>2
  <2>4. ASSUME NEW i \in Audible'
        PROVE  \/ fifo'[i].block.serial < block'.serial
               \/ /\ fifo'[i].block.serial = block'.serial
                  /\ fifo'[i].part < BlockChunks - remaining' + 1
    <3>1. \/ fifo'[i].block.serial < block.serial
          \/ /\ fifo'[i].block.serial = block.serial
             /\ fifo'[i].part < BlockChunks - remaining + 1
      BY <1>1, <2>1
    <3>2. fifo'[i].block.serial \in Nat
      BY <1>0, <2>1
    <3>3. CASE UNCHANGED <<block, remaining>>
      BY <3>1, <3>3
    <3>4. CASE Received
      <4>1. audioQueue[1] = block' /\ block.serial < audioQueue[1].serial
            /\ audioQueue[1].serial \in Nat
        BY <3>4, SerialTypes DEF Received, OrderInv
      <4> QED BY <1>0, <3>1, <3>2, <4>1
    <3> QED BY <1>3, <3>3, <3>4, BlockSteps
  <2> QED BY <2>3, <2>4 DEF Audio
<1> QED BY <1>2, <1>3, FifoKept

\* So does the queue.
LEMMA QueuedInOrder ==
  ASSUME TypeOK, TypeOK', OrderInv, [Next]_vars
  PROVE  /\ \A k \in DOMAIN audioQueue' : block'.serial < audioQueue'[k].serial
         /\ \A k, l \in DOMAIN audioQueue' : k < l => audioQueue'[k].serial < audioQueue'[l].serial
<1>0. /\ \A k \in DOMAIN audioQueue : k \in Nat /\ audioQueue[k].serial \in Nat
      /\ \A k \in DOMAIN audioQueue' : k \in Nat
      /\ \A k \in DOMAIN audioQueue : block.serial < audioQueue[k].serial
      /\ \A k, l \in DOMAIN audioQueue : k < l => audioQueue[k].serial < audioQueue[l].serial
  <2>1. audioQueue \in Seq(AudioBlock) /\ audioQueue' \in Seq(AudioBlock)
    BY DEF TypeOK
  <2>2. /\ \A k \in DOMAIN audioQueue : k \in Nat
        /\ \A k \in DOMAIN audioQueue' : k \in Nat
    BY ONLY <2>1
  <2> QED BY <2>2, SerialTypes DEF OrderInv
<1>1. CASE Sent
  <2>1. \A k \in DOMAIN audioQueue' :
          (k \in DOMAIN audioQueue /\ audioQueue'[k] = audioQueue[k]) \/ k = Len(audioQueue) + 1
    BY <1>1 DEF Sent
  <2>2. Below(buffers[nextBuffer].block.serial)
    BY <1>1 DEF Sent, OrderInv
  <2>3. \A k \in DOMAIN audioQueue : k < Len(audioQueue) + 1
    BY <1>1 DEF Sent
  <2> QED BY <1>0, <1>1, <2>1, <2>2, <2>3 DEF Sent, Below
<1>2. CASE QueueKept /\ ~Received
  <2>1. PICK d \in {0, 1} : \A k \in DOMAIN audioQueue' :
           k + d \in DOMAIN audioQueue /\ audioQueue'[k] = audioQueue[k + d]
    BY <1>2 DEF QueueKept
  <2>2. UNCHANGED block
    BY <1>2, BlockSteps
  <2>3. ASSUME NEW k \in DOMAIN audioQueue', NEW l \in DOMAIN audioQueue', k < l
        PROVE  audioQueue'[k].serial < audioQueue'[l].serial
    <3>1. k + d < l + d
      BY <1>0, <2>3
    <3> QED BY <1>0, <2>1, <3>1
  <2> QED BY <1>0, <2>1, <2>2, <2>3
<1>3. CASE Received
  <2>1. \A k \in DOMAIN audioQueue' :
          k \in Nat /\ k >= 1 /\ k + 1 \in DOMAIN audioQueue /\ audioQueue'[k] = audioQueue[k + 1]
    BY <1>3 DEF Received, TypeOK
  <2>2. block' = audioQueue[1] /\ 1 \in DOMAIN audioQueue
    BY <1>3 DEF Received
  <2>3. \A k \in DOMAIN audioQueue' : 1 < k + 1
    BY <2>1
  <2>4. ASSUME NEW k \in DOMAIN audioQueue', NEW l \in DOMAIN audioQueue', k < l
        PROVE  audioQueue'[k].serial < audioQueue'[l].serial
    <3>1. k + 1 < l + 1
      BY <1>0, <2>4
    <3> QED BY <1>0, <2>1, <3>1
  <2> QED BY <1>0, <2>1, <2>2, <2>3, <2>4
<1> QED BY <1>1, <1>2, <1>3, QueueSteps

\* The buffers' serials only change where a recording is begun.
LEMMA SerialSteps ==
  ASSUME TypeOK, [Next]_vars, ~Record
  PROVE  /\ serial' = serial
         /\ \A buffer \in {0, 1} :
              \/ buffers'[buffer].block.serial = buffers[buffer].block.serial
              \/ Snapshot /\ buffer = nextBuffer /\ buffers'[buffer].block.serial = 0
<1>0. buffers \in [{0, 1} -> Buffer] /\ nextBuffer \in {0, 1}
  BY DEF TypeOK
<1>1. CASE Snapshot
  BY <1>0, <1>1 DEF Snapshot
<1>2. CASE UNCHANGED captureVars \/ RecordingDone
  BY <1>2 DEF captureVars, RecordingDone
<1>3. CASE CaptureAudio /\ ~Snapshot
  BY <1>3 DEF CaptureAudio, EnqueueLatest, RecordFails, TakeBlock, Enqueue,
     Send, Evict,
     Pause, Resume, captureFrame
<1> QED BY <1>1, <1>2, <1>3, CaptureSteps

\* Recordings are numbered in the order in which they are begun.
LEMMA BegunInOrder ==
  ASSUME TypeOK, TypeOK', RecordingInv, OrderInv, [Next]_vars
  PROVE  /\ Below(serial + 1)'
         /\ \A buffer \in {0, 1} : buffers'[buffer].block.serial <= serial'
         /\ cpc' \in {"snapshot", "record"} /\ (restarting' => recording' # <<>>) =>
              Below(buffers[Other(nextBuffer)].block.serial)'
         /\ cpc' \in {"loop", "enqueue", "send", "evict"} =>
              /\ Below(buffers[nextBuffer].block.serial)'
              /\ buffers'[nextBuffer'].block.serial < buffers'[Other(nextBuffer')].block.serial
<1>0. /\ serial \in Nat /\ serial' \in Nat
      /\ \A b \in {0, 1} : buffers[b].block.serial \in Nat /\ buffers[b].block.serial <= serial
  BY SerialTypes, SizeAssumption DEF OrderInv, TypeOK, Serials
<1>1. PICK here \in {0, 1}, there \in {0, 1} :
         here = nextBuffer /\ there = Other(nextBuffer) /\ here # there /\ Other(there) = here
  BY DEF TypeOK, Other
<1>2. PICK m \in Nat, n \in Nat : m = buffers[here].block.serial /\ n = buffers[there].block.serial
  BY <1>0
<1>3. PICK s \in Nat : s = serial + 1
  BY <1>0
<1>4. /\ Below(s)
      /\ cpc \in {"snapshot", "record"} /\ (restarting => recording # <<>>) => Below(n)
      /\ cpc \in {"loop", "enqueue", "send", "evict"} => Below(m) /\ m < n
      /\ m < s /\ n < s
  BY <1>0, <1>1, <1>2, <1>3 DEF OrderInv
<1>5. Sent => cpc = "send" /\ buffers[nextBuffer].block.serial = m
  BY <1>1, <1>2 DEF Sent
<1>6. Below(s)'
  BY <1>4, <1>5, BelowKept
<1>7. CASE Record
  <2>1. /\ cpc = "record" /\ serial' = s /\ nextBuffer' = there /\ ~Sent
        /\ recording' = Append(recording, here)
        /\ cpc' = IF restarting' THEN "snapshot" ELSE "loop"
        /\ restarting' = (restarting /\ Len(recording) = 0)
    BY <1>1, <1>3, <1>7 DEF Record, Sent
  <2>2. /\ buffers'[here].block.serial = s /\ buffers'[there].block.serial = n
    <3>1. buffers \in [{0, 1} -> Buffer]
      BY DEF TypeOK
    <3> QED BY <1>1, <1>2, <1>3, <1>7, <3>1 DEF Record, Buffer, AudioBlock
  <2>3. Below(s + 1)'
    <3>1. block.serial \in Nat /\ \A k \in DOMAIN audioQueue : audioQueue[k].serial \in Nat
      BY SerialTypes
    <3>2. Below(s + 1) /\ s + 1 \in Nat
      BY <1>4, <3>1 DEF Below
    <3> QED BY <2>1, <3>2, BelowKept
  <2>4. CASE restarting'
    <3>1. cpc' = "snapshot"
      BY <2>1, <2>4
    <3> QED BY <1>1, <1>2, <1>4, <1>6, <2>1, <2>2, <2>3, <3>1 DEF Below
  <2>5. CASE ~restarting'
    <3>1. cpc' = "loop"
      BY <2>1, <2>5
    <3>2. restarting => recording # <<>>
      <4>1. recording = <<>> => Len(recording) = 0
        OBVIOUS
      <4> QED BY <2>1, <2>5, <4>1
    <3>3. Below(n)'
      BY <1>4, <2>1, <3>2, BelowKept
    <3> QED BY <1>1, <1>2, <1>4, <2>1, <2>2, <2>3, <3>1, <3>3 DEF Below
  <2> QED BY <2>4, <2>5
<1>8. CASE ~Record
  <2>1. /\ serial' = serial
        /\ \A buffer \in {0, 1} :
             \/ buffers'[buffer].block.serial = buffers[buffer].block.serial
             \/ Snapshot /\ buffer = nextBuffer /\ buffers'[buffer].block.serial = 0
    BY <1>8, SerialSteps
  <2>2. \A buffer \in {0, 1} : buffers'[buffer].block.serial <= serial'
    BY <1>0, <2>1
  <2>3. Below(serial + 1)'
    BY <1>3, <1>6, <2>1 DEF Below
  <2>4. CASE UNCHANGED captureVars
    <3>1. ~Sent /\ UNCHANGED <<cpc, nextBuffer, buffers, restarting, recording>>
      BY <2>4 DEF captureVars, Sent
    <3>2. (Below(m) => Below(m)') /\ (Below(n) => Below(n)')
      BY <3>1, BelowKept
    <3> QED BY <1>1, <1>2, <1>4, <2>2, <2>3, <3>1, <3>2 DEF Below
  <2>5. CASE RecordingDone
    <3>1. /\ ~Sent /\ UNCHANGED <<cpc, nextBuffer, buffers, restarting>> /\ recording # <<>>
      BY <2>5 DEF RecordingDone, Sent
    <3>2. (Below(m) => Below(m)') /\ (Below(n) => Below(n)')
      BY <3>1, BelowKept
    <3> QED BY <1>1, <1>2, <1>4, <2>2, <2>3, <3>1, <3>2 DEF Below
  <2>6. CASE Snapshot
    <3>1. /\ ~Sent /\ UNCHANGED <<nextBuffer, restarting, recording>>
          /\ cpc = "snapshot" /\ cpc' = "record"
          /\ buffers'[there].block.serial = n
      BY <1>1, <1>2, <2>1, <2>6 DEF Snapshot, Sent
    <3>2. Below(n) => Below(n)'
      BY <3>1, BelowKept
    <3> QED BY <1>1, <1>4, <2>2, <2>3, <3>1, <3>2 DEF Below
  <2>7. CASE TakeBlock \/ EnqueueLatest
    <3>1. /\ cpc \in {"loop", "enqueue", "send", "evict"} /\ UNCHANGED <<nextBuffer, buffers>>
          /\ cpc' \in {"snapshot", "enqueue", "send", "evict"}
          /\ Sent => cpc' = "snapshot"
      BY <2>7 DEF TakeBlock, EnqueueLatest, Enqueue, Send, Evict, captureFrame,
         Sent
    <3>2. Below(m) /\ m < n
      BY <1>4, <3>1
    <3>3. Below(n)
      <4>1. block.serial \in Nat /\ \A k \in DOMAIN audioQueue : audioQueue[k].serial \in Nat
        BY SerialTypes
      <4> QED BY <3>2, <4>1 DEF Below
    <3>4. Below(n)' /\ (~Sent => Below(m)')
      BY <1>5, <3>2, <3>3, BelowKept
    <3>5. cpc' = "snapshot" \/ ~Sent
      BY <3>1
    <3> QED BY <1>1, <1>2, <2>2, <2>3, <3>1, <3>2, <3>4, <3>5 DEF Below
  <2>8. CASE RecordFails \/ Pause \/ Resume
    BY <2>2, <2>3, <2>8 DEF RecordFails, Pause, Resume
  <2> QED BY <1>8, <2>4, <2>5, <2>6, <2>7, <2>8, CaptureSteps DEF CaptureAudio
<1> QED BY <1>7, <1>8

\* The order of recording is the order of the queue and of the FIFO.
LEMMA OrderKept ==
  ASSUME TypeOK, TypeOK', RecordingInv, OrderInv, [Next]_vars
  PROVE  OrderInv'
BY HeardInOrder, QueuedInOrder, BegunInOrder DEF OrderInv, Precedes, Audio

-----------------------------------------------------------------------------
(* The theorems *)

\* The invariant holds at the start.
THEOREM InitStream == Init => TypeOK /\ Inv
<1> SUFFICES ASSUME Init PROVE TypeOK /\ Inv
  OBVIOUS
<1> USE SizeAssumption DEF Init
<1>1. TypeOK
  <2>1. NoBlock \in AudioBlock
    BY DEF NoBlock, AudioBlock, Serials, Generations
  <2>2. [b \in {0, 1} |-> [active |-> FALSE, block |-> NoBlock]] \in [{0, 1} -> Buffer]
    BY <2>1 DEF Buffer
  <2>3. <<>> \in Seq(AudioBlock) /\ <<>> \in Seq(Chunk) /\ <<>> \in Seq({0, 1}) /\ Len(<<>>) = 0
    OBVIOUS
  <2>4. {0} \subseteq Generations /\ 0 \in Serials /\ 0 \in 0 .. BlockChunks
    BY DEF Generations, Serials
  <2>5. /\ audioQueue \in Seq(AudioBlock) /\ Len(audioQueue) <= QueuedBlocks
        /\ fifo \in Seq(Chunk) /\ Len(fifo) <= FifoDepth
        /\ recording \in Seq({0, 1}) /\ Len(recording) <= 2
    BY <2>3
  <2>6. buffers \in [{0, 1} -> Buffer] /\ block \in AudioBlock
    BY <2>1, <2>2
  <2>7. /\ {micInterfaceEnabled, usbLinkUsable, usbMicActive, opening, restarting,
            awaitingFresh} \subseteq BOOLEAN
        /\ {streamGeneration, awaiting, generation} \subseteq Generations
        /\ audioPut \in BOOLEAN
    BY <2>4
  <2> QED BY <2>4, <2>5, <2>6, <2>7 DEF TypeOK
<1>2. Audible = {} /\ DOMAIN audioQueue = {} /\ \A b \in {0, 1} :
        ~buffers[b].active /\ buffers[b].block = NoBlock
  BY DEF Audible
<1>3. StreamInv /\ BlockInv /\ FifoInv /\ StartupInv
  BY <1>2 DEF StreamInv, Feeding, BlockInv, Holds, Travelling, InHand, FifoInv,
     StartupInv, Writing
<1>4. RecordingInv
  BY DEF RecordingInv
<1>5. OrderInv
  BY <1>2 DEF OrderInv, Below, NoBlock
<1> QED BY <1>1, <1>3, <1>4, <1>5 DEF Inv

\* Every step keeps it.
THEOREM NextStream == TypeOK /\ Inv /\ [Next]_vars => TypeOK' /\ Inv'
<1> SUFFICES ASSUME TypeOK, Inv, [Next]_vars PROVE TypeOK' /\ Inv'
  OBVIOUS
<1> USE DEF Inv
<1>1. TypeOK'
  BY TypeKept
<1>2. StreamInv'
  BY StreamKept
<1>3. BlockInv'
  BY <1>1, BlockKept
<1>4. FifoInv'
  BY FifoInvKept
<1>5. StartupInv'
  BY StartupKept
<1>6. RecordingInv'
  BY RecordingKept
<1>7. OrderInv'
  BY <1>1, OrderKept
<1> QED BY <1>1, <1>2, <1>3, <1>4, <1>5, <1>6, <1>7

\* The invariant holds throughout.
LEMMA AlwaysStream == Spec => [](TypeOK /\ Inv)
BY InitStream, NextStream, PTL DEF Spec

\* The types of the stream, the queue, the FIFO and the two tasks.
THEOREM TypeCorrect == Spec => []TypeOK
BY AlwaysStream, PTL

\* What the host reads of an open stream was recorded while that stream was
\* open (transitionStreaming, enqueueLatest, writeBlock).
THEOREM StreamsAreKeptApart == Spec => []OnlyThisStream
<1>1. TypeOK /\ Inv => OnlyThisStream
  <2> SUFFICES ASSUME TypeOK, Inv, usbMicActive, NEW i \in DOMAIN fifo, IsAudio(fifo[i])
               PROVE  /\ fifo[i].block.generation = streamGeneration
                      /\ fifo[i].block.born = streamGeneration
    BY DEF OnlyThisStream
  <2>1. i \in Audible
    BY DEF Audible
  <2>2. PICK b \in AudioBlock : b = fifo[i].block
    <3>1. fifo[i] \in Chunk
      BY DEF TypeOK
    <3> QED BY <3>1 DEF Chunk
  <2>3. b.generation = streamGeneration
    BY <2>1, <2>2 DEF Inv, FifoInv
  <2>4. Sound(b)
    BY <2>1, <2>2 DEF Inv, BlockInv, Travelling
  <2> QED BY <2>2, <2>3, <2>4 DEF Sound, Current
<1> QED BY <1>1, AlwaysStream, PTL

\* The audio of an open stream is in the order of its recording, from the FIFO
\* back to the queue, and none is written twice (enqueueLatest, writeBlock).
THEOREM AudioIsInOrder == Spec => []InOrder
<1>1. TypeOK /\ Inv => InOrder
  <2> SUFFICES ASSUME TypeOK, Inv PROVE InOrder
    OBVIOUS
  <2>1. \A i, j \in DOMAIN fifo :
          i < j /\ IsAudio(fifo[i]) /\ IsAudio(fifo[j]) => Precedes(fifo[i], fifo[j])
    BY DEF Inv, OrderInv, Audible
  <2>2. \A i \in DOMAIN fifo :
          IsAudio(fifo[i]) => Precedes(fifo[i], Audio(block, BlockChunks - remaining + 1))
    BY DEF Inv, OrderInv, Audible
  <2>3. /\ \A k \in DOMAIN audioQueue : block.serial < audioQueue[k].serial
        /\ \A k, l \in DOMAIN audioQueue : k < l => audioQueue[k].serial < audioQueue[l].serial
    BY DEF Inv, OrderInv
  <2>4. ASSUME NEW i \in DOMAIN fifo, NEW k \in DOMAIN audioQueue, IsAudio(fifo[i])
        PROVE  fifo[i].block.serial < audioQueue[k].serial
    <3>1. /\ fifo[i].block.serial \in Nat /\ block.serial \in Nat
          /\ audioQueue[k].serial \in Nat
      BY SerialTypes
    <3>2. fifo[i].block.serial <= block.serial
      BY <2>2, <2>4, <3>1 DEF Precedes, Audio
    <3>3. block.serial < audioQueue[k].serial
      BY <2>3
    <3> QED BY <3>1, <3>2, <3>3
  <2> QED BY <2>1, <2>2, <2>3, <2>4 DEF InOrder
<1> QED BY <1>1, AlwaysStream, PTL

\* The capture task never reads or begins a buffer M5.Mic still writes to
\* (captureAudio, queueInitialCaptureBlocks).
THEOREM BuffersAreNotShared == Spec => []NotRecordedInto
<1>1. TypeOK /\ Inv => NotRecordedInto
  <2> SUFFICES ASSUME TypeOK, Inv,
                      cpc \in {"snapshot", "record", "enqueue", "send", "evict"},
                      NEW i \in DOMAIN recording
               PROVE  recording[i] # nextBuffer
    BY DEF NotRecordedInto
  <2>1. Len(recording) <= 1 /\ recording \in Seq({0, 1}) /\ Len(recording) \in Nat
    BY DEF Inv, RecordingInv, TypeOK
  <2>2. i = 1 /\ Len(recording) = 1
    <3>1. DOMAIN recording = 1 .. Len(recording)
      BY <2>1
    <3> QED BY <2>1, <3>1
  <2>3. recording[1] = Other(nextBuffer) /\ nextBuffer \in {0, 1}
    BY <2>2 DEF Inv, RecordingInv, TypeOK
  <2> QED BY <2>2, <2>3 DEF Other
<1> QED BY <1>1, AlwaysStream, PTL

\* The silence of a startup comes before the stream's audio (topUpSilence,
\* markStreamStarted).
THEOREM SilenceComesFirst == Spec => []StartupComesFirst
<1>1. TypeOK /\ Inv => StartupComesFirst
  <2> SUFFICES ASSUME TypeOK, Inv, fpc = "fill", awaitingFresh, Belongs(generation)
               PROVE  ~audioPut
    BY DEF StartupComesFirst
  <2>1. usbMicActive /\ awaiting = streamGeneration
    BY DEF Inv, FifoInv, Belongs, Emptying, StreamInv
  <2> QED BY <2>1 DEF Inv, StartupInv
<1> QED BY <1>1, AlwaysStream, PTL
=============================================================================

---------------------------- MODULE UsbMicStream ----------------------------
(***************************************************************************)
(* The microphone's way to the host (UsbMic.cpp): the capture task records *)
(* blocks into two buffers and puts them into a short queue, the feeder    *)
(* task writes them to the USB FIFO, and the host reads the FIFO.  The USB *)
(* event task opens and closes the stream (transitionStreaming) while both *)
(* others are at work.                                                     *)
(*                                                                         *)
(* Streams are told apart by streamGeneration.  A block is two chunks, so  *)
(* that the FIFO can take a part of it.  The pairs of loads in             *)
(* blockBelongsToActiveStream and snapshotActiveGeneration are one step:   *)
(* the generation never goes back, so what they return was true at the     *)
(* moment of one of their loads.  A block's serial and the stream in which *)
(* its recording began are history.                                        *)
(***************************************************************************)
EXTENDS Naturals, Sequences

CONSTANTS
  QueuedBlocks,   \* length of the queue
  FifoDepth,      \* chunks the FIFO holds
  BlockChunks,    \* chunks of a block
  MaxGeneration,  \* bound on the transitions
  MaxBlocks       \* bound on the blocks recorded

ASSUME SizeAssumption ==
  /\ {QueuedBlocks, FifoDepth, BlockChunks} \subseteq Nat \ {0}
  /\ MaxGeneration \in Nat /\ MaxBlocks \in Nat

VARIABLES
  \* the atomics
  micInterfaceEnabled, usbLinkUsable, usbMicActive, streamGeneration, awaiting,
  \* the event task: its step, and whether the stream is to be open
  epc, opening,
  \* between the tasks: the queue, the FIFO and who has usbFifoMutex
  audioQueue, fifo, usbFifoMutex,
  \* the capture task: its step, the next buffer and what is known of both
  \* buffers; the buffers M5.Mic records into, and whether both are begun anew
  cpc, nextBuffer, buffers, recording, restarting,
  \* the feeder: its step, the generation it serves, whether that one awaits its
  \* first block, the block in hand and its chunks left
  fpc, generation, awaitingFresh, block, remaining,
  \* history: blocks recorded, and whether audio of the stream was put in the FIFO
  serial, audioPut

eventVars == <<micInterfaceEnabled, usbLinkUsable, epc, opening>>
streamVars == <<usbMicActive, streamGeneration, awaiting>>
captureVars == <<cpc, nextBuffer, buffers, recording, restarting, serial>>
feederVars == <<fpc, generation, awaitingFresh, block, remaining>>
vars == <<eventVars, streamVars, audioQueue, fifo, usbFifoMutex, captureVars, feederVars,
          audioPut>>

Generations == 0 .. MaxGeneration
Serials == 0 .. MaxBlocks
AudioBlock == [serial : Serials, generation : Generations, born : Generations]
Silence == {"prefill", "startup", "underrun"}
Chunk == [kind : Silence \cup {"audio"}, block : AudioBlock, part : 0 .. BlockChunks]
Buffer == [active : BOOLEAN, block : AudioBlock]
Target == FifoDepth \div 2
Other(buffer) == 1 - buffer

TypeOK ==
  /\ {micInterfaceEnabled, usbLinkUsable, usbMicActive, opening, restarting,
      awaitingFresh} \subseteq BOOLEAN
  /\ {streamGeneration, awaiting, generation} \subseteq Generations
  /\ epc \in {"idle", "retire", "invalidate", "drain", "clear", "await", "publish"}
  /\ audioQueue \in Seq(AudioBlock) /\ Len(audioQueue) <= QueuedBlocks
  /\ fifo \in Seq(Chunk) /\ Len(fifo) <= FifoDepth
  /\ usbFifoMutex \in {"free", "feeder"}
  /\ cpc \in {"snapshot", "record", "loop", "enqueue", "send", "evict", "pause", "dead"}
  /\ nextBuffer \in {0, 1}
  /\ buffers \in [{0, 1} -> Buffer]
  /\ recording \in Seq({0, 1}) /\ Len(recording) <= 2
  /\ fpc \in {"snapshot", "receive", "empty", "fillLock", "fillCheck", "fill", "belongs",
              "started", "write", "writeLock", "writeCheck", "put"}
  /\ block \in AudioBlock
  /\ remaining \in 0 .. BlockChunks
  /\ serial \in Serials /\ audioPut \in BOOLEAN

NoBlock == [serial |-> 0, generation |-> 0, born |-> 0]
Silent(kind) == [kind |-> kind, block |-> NoBlock, part |-> 0]
Audio(b, part) == [kind |-> "audio", block |-> b, part |-> part]

Init ==
  /\ micInterfaceEnabled = FALSE /\ usbLinkUsable = FALSE
  /\ usbMicActive = FALSE /\ streamGeneration = 0 /\ awaiting = 0
  /\ epc = "idle" /\ opening = FALSE
  /\ audioQueue = <<>> /\ fifo = <<>> /\ usbFifoMutex = "free"
  /\ cpc = "snapshot" /\ nextBuffer = 0 /\ recording = <<>> /\ restarting = TRUE
  /\ buffers = [b \in {0, 1} |-> [active |-> FALSE, block |-> NoBlock]]
  /\ fpc = "snapshot" /\ generation = 0 /\ awaitingFresh = FALSE
  /\ block = NoBlock /\ remaining = 0
  /\ serial = 0 /\ audioPut = FALSE

\* blockBelongsToActiveStream
Belongs(g) == usbMicActive /\ streamGeneration = g

-----------------------------------------------------------------------------
(* The event task *)

others == <<captureVars, feederVars>>

\* recomputeStreaming: a transition begins unless nothing changes.
Recompute(interfaceTransition) ==
  /\ opening' = (micInterfaceEnabled' /\ usbLinkUsable')
  /\ epc' = IF opening' = usbMicActive /\ ~interfaceTransition THEN "idle" ELSE "retire"
  /\ UNCHANGED <<streamVars, audioQueue, fifo, usbFifoMutex, audioPut, others>>

\* audioEventCallback: the host selects or leaves the streaming setting.
AudioEvent ==
  /\ epc = "idle" /\ streamGeneration < MaxGeneration
  /\ micInterfaceEnabled' = ~micInterfaceEnabled
  /\ UNCHANGED usbLinkUsable
  /\ Recompute(TRUE)

\* usbEventCallback: started, resumed and suspended; a stop also forgets the
\* setting, which a new enumeration begins at zero.
UsbEvent ==
  /\ epc = "idle" /\ streamGeneration < MaxGeneration
  /\ usbLinkUsable' = ~usbLinkUsable
  /\ \/ UNCHANGED micInterfaceEnabled
     \/ usbLinkUsable /\ micInterfaceEnabled' = FALSE
  /\ Recompute(FALSE)

\* The stop of a connection that was suspended before.
UsbStopped ==
  /\ epc = "idle" /\ ~usbLinkUsable
  /\ micInterfaceEnabled' = FALSE
  /\ UNCHANGED <<usbLinkUsable, epc, opening, streamVars, audioQueue, fifo, usbFifoMutex,
                 audioPut, others>>

Retire ==
  /\ epc = "retire" /\ epc' = "invalidate"
  /\ usbMicActive' = FALSE
  /\ UNCHANGED <<micInterfaceEnabled, usbLinkUsable, opening, streamGeneration, awaiting,
                 audioQueue, fifo, usbFifoMutex, audioPut, others>>

Invalidate ==
  /\ epc = "invalidate" /\ epc' = "drain"
  /\ streamGeneration' = streamGeneration + 1
  /\ UNCHANGED <<micInterfaceEnabled, usbLinkUsable, opening, usbMicActive, awaiting,
                 audioQueue, fifo, usbFifoMutex, audioPut, others>>

\* clearQueuedAudio, one block at a time, while the other tasks go on.
ClearQueuedAudio ==
  /\ epc = "drain"
  /\ IF audioQueue = <<>>
     THEN epc' = "clear" /\ UNCHANGED audioQueue
     ELSE audioQueue' = Tail(audioQueue) /\ UNCHANGED epc
  /\ UNCHANGED <<micInterfaceEnabled, usbLinkUsable, opening, streamVars, fifo,
                 usbFifoMutex, audioPut, others>>

\* Mutated: the lock is not given back.
ClearFifoLocked ==
  /\ epc = "clear" /\ usbFifoMutex = "free"
  /\ epc' = "await" /\ usbFifoMutex' = "event"
  /\ \E n \in 0 .. Target : fifo' = [i \in 1 .. (IF opening THEN n ELSE 0) |-> Silent("prefill")]
  /\ UNCHANGED <<micInterfaceEnabled, usbLinkUsable, opening, streamVars, audioQueue,
                 audioPut, others>>

\* The FIFO is cleared and filled with silence up to its target, under the
\* lock; the FIFO may accept less.
ClearFifo ==
  /\ epc = "clear" /\ usbFifoMutex = "free"
  /\ epc' = "await"
  /\ \E n \in 0 .. Target : fifo' = [i \in 1 .. (IF opening THEN n ELSE 0) |-> Silent("prefill")]
  /\ UNCHANGED <<micInterfaceEnabled, usbLinkUsable, opening, streamVars, audioQueue,
                 usbFifoMutex, audioPut, others>>

AwaitStartup ==
  /\ epc = "await" /\ epc' = "publish"
  /\ awaiting' = IF opening THEN streamGeneration ELSE 0
  /\ UNCHANGED <<micInterfaceEnabled, usbLinkUsable, opening, usbMicActive,
                 streamGeneration, audioQueue, fifo, usbFifoMutex, audioPut, others>>

Publish ==
  /\ epc = "publish" /\ epc' = "idle"
  /\ usbMicActive' = opening
  /\ audioPut' = FALSE
  /\ UNCHANGED <<micInterfaceEnabled, usbLinkUsable, opening, streamGeneration, awaiting,
                 audioQueue, fifo, usbFifoMutex, others>>

TransitionStreaming ==
  Retire \/ Invalidate \/ ClearQueuedAudio \/ ClearFifo \/ AwaitStartup \/ Publish

-----------------------------------------------------------------------------
(* The capture task *)

capturerUnchanged == <<eventVars, streamVars, fifo, usbFifoMutex, feederVars, audioPut>>

\* snapshotActiveGeneration, just before the recording is begun.
Snapshot ==
  /\ cpc = "snapshot" /\ cpc' = "record"
  /\ buffers' = [buffers EXCEPT ![nextBuffer] =
       [active |-> usbMicActive,
        block |-> [serial |-> 0, generation |-> streamGeneration, born |-> 0]]]
  /\ UNCHANGED <<nextBuffer, recording, restarting, serial, audioQueue,
                 capturerUnchanged>>

\* M5.Mic.record; the other buffer is next.  Both are begun before the loop.
Record ==
  /\ cpc = "record" /\ serial < MaxBlocks
  /\ recording' = Append(recording, nextBuffer)
  /\ serial' = serial + 1
  /\ buffers' = [buffers EXCEPT ![nextBuffer].block.serial = serial + 1,
                                ![nextBuffer].block.born =
                                   IF usbMicActive THEN streamGeneration ELSE 0]
  /\ nextBuffer' = Other(nextBuffer)
  /\ restarting' = (restarting /\ Len(recording) = 0)
  /\ cpc' = IF restarting' THEN "snapshot" ELSE "loop"
  /\ UNCHANGED <<audioQueue, capturerUnchanged>>

RecordFails ==
  /\ cpc = "record" /\ cpc' = "dead"
  /\ UNCHANGED <<nextBuffer, buffers, recording, restarting, serial, audioQueue,
                 capturerUnchanged>>

\* The oldest recording is over; its block counts if the stream was open when it
\* began, is open, and is the same.
TakeBlock ==
  /\ cpc = "loop" /\ Len(recording) < 2
  /\ cpc' = IF /\ buffers[nextBuffer].active
               /\ Belongs(buffers[nextBuffer].block.generation)
            THEN "enqueue" ELSE "snapshot"
  /\ UNCHANGED <<nextBuffer, buffers, recording, restarting, serial, audioQueue,
                 capturerUnchanged>>

captureFrame == <<nextBuffer, buffers, recording, restarting, serial>>

\* enqueueLatest: the first check, then attempts to send.
Enqueue ==
  /\ cpc = "enqueue"
  /\ cpc' = IF Belongs(buffers[nextBuffer].block.generation) THEN "send" ELSE "snapshot"
  /\ UNCHANGED <<captureFrame, audioQueue, capturerUnchanged>>

Send ==
  /\ cpc = "send"
  /\ IF Len(audioQueue) < QueuedBlocks
     THEN /\ audioQueue' = Append(audioQueue, buffers[nextBuffer].block)
          /\ cpc' = "snapshot"
     ELSE /\ UNCHANGED audioQueue
          /\ cpc' = IF Belongs(buffers[nextBuffer].block.generation)
                    THEN "evict" ELSE "snapshot"
  /\ UNCHANGED <<captureFrame, capturerUnchanged>>

\* The oldest block makes room; the feeder may have been faster.
Evict ==
  /\ cpc = "evict" /\ cpc' = "send"
  /\ audioQueue' = IF audioQueue = <<>> THEN <<>> ELSE Tail(audioQueue)
  /\ UNCHANGED <<captureFrame, capturerUnchanged>>

\* A chime, which begins only while the host leaves the microphone alone, lets
\* both recordings end and begins both buffers anew.
Pause ==
  /\ cpc = "loop" /\ ~micInterfaceEnabled
  /\ cpc' = "pause"
  /\ UNCHANGED <<captureFrame, audioQueue, capturerUnchanged>>

\* Mutated: both buffers are begun anew while one is still recorded into.
ResumeEarly ==
  /\ cpc = "pause" /\ Len(recording) < 2
  /\ cpc' = "snapshot" /\ nextBuffer' = 0 /\ restarting' = TRUE
  /\ UNCHANGED <<buffers, recording, serial, audioQueue, capturerUnchanged>>

\* queueInitialCaptureBlocks after the chime
Resume ==
  /\ cpc = "pause" /\ recording = <<>>
  /\ cpc' = "snapshot" /\ nextBuffer' = 0 /\ restarting' = TRUE
  /\ UNCHANGED <<buffers, recording, serial, audioQueue, capturerUnchanged>>

EnqueueLatest == Enqueue \/ Send \/ Evict

CaptureAudio ==
  Snapshot \/ Record \/ RecordFails \/ TakeBlock \/ EnqueueLatest \/ Pause \/ Resume

\* External: M5.Mic ends the older of its recordings.
RecordingDone ==
  /\ recording # <<>>
  /\ recording' = Tail(recording)
  /\ UNCHANGED <<cpc, nextBuffer, buffers, restarting, serial, audioQueue,
                 capturerUnchanged>>

-----------------------------------------------------------------------------
(* The feeder *)

feederUnchanged == <<eventVars, usbMicActive, streamGeneration, captureVars>>

\* The feeder serves the open stream, and looks whether it awaits a block.
FeedSnapshot ==
  /\ fpc = "snapshot" /\ usbMicActive
  /\ fpc' = "receive"
  /\ generation' = streamGeneration
  /\ awaitingFresh' = (awaiting = streamGeneration)
  /\ UNCHANGED <<awaiting, audioQueue, fifo, usbFifoMutex, block, remaining, audioPut, feederUnchanged>>

Receive ==
  /\ fpc = "receive"
  /\ IF audioQueue = <<>>
     THEN fpc' = "empty" /\ UNCHANGED <<audioQueue, block, remaining>>
     ELSE /\ fpc' = "belongs"
          /\ block' = Head(audioQueue) /\ audioQueue' = Tail(audioQueue)
          /\ remaining' = BlockChunks
  /\ UNCHANGED <<awaiting, generation, awaitingFresh, fifo, usbFifoMutex, audioPut,
                 feederUnchanged>>

feederFrame == <<generation, awaitingFresh, block>>

\* No block for a while: the FIFO is topped up with silence.
Starved ==
  /\ fpc = "empty"
  /\ fpc' = IF Belongs(generation) THEN "fillLock" ELSE "snapshot"
  /\ UNCHANGED <<awaiting, feederFrame, remaining, audioQueue, fifo, usbFifoMutex, audioPut, feederUnchanged>>

\* xSemaphoreTake, for either purpose.
TakeMutex ==
  /\ fpc \in {"fillLock", "writeLock"} /\ usbFifoMutex = "free"
  /\ fpc' = IF fpc = "fillLock" THEN "fillCheck" ELSE "writeCheck"
  /\ usbFifoMutex' = "feeder"
  /\ UNCHANGED <<awaiting, feederFrame, remaining, audioQueue, fifo, audioPut,
                 feederUnchanged>>

FillCheck ==
  /\ fpc = "fillCheck"
  /\ IF Belongs(generation) /\ (awaitingFresh => awaiting = generation)
     THEN fpc' = "fill" /\ UNCHANGED usbFifoMutex
     ELSE fpc' = "snapshot" /\ usbFifoMutex' = "free"
  /\ UNCHANGED <<awaiting, feederFrame, remaining, audioQueue, fifo, audioPut,
                 feederUnchanged>>

\* Up to the target, but never beyond what the FIFO accepts.
Fill ==
  /\ fpc = "fill" /\ fpc' = "snapshot" /\ usbFifoMutex' = "free"
  /\ \E n \in {0, IF Len(fifo) < Target THEN Target - Len(fifo) ELSE 0} :
       fifo' = fifo \o [i \in 1 .. n |-> Silent(IF awaitingFresh THEN "startup" ELSE "underrun")]
  /\ UNCHANGED <<awaiting, feederFrame, remaining, audioQueue, audioPut,
                 feederUnchanged>>

TopUpSilence == Starved \/ FillCheck \/ Fill

\* A block of another stream is stale.
BlockBelongs ==
  /\ fpc = "belongs"
  /\ fpc' = IF Belongs(block.generation) THEN "started" ELSE "snapshot"
  /\ UNCHANGED <<awaiting, feederFrame, remaining, audioQueue, fifo, usbFifoMutex, audioPut, feederUnchanged>>

\* Mutated: the stream goes on awaiting its first block.
StartedNot ==
  /\ fpc = "started" /\ fpc' = "write"
  /\ UNCHANGED <<awaiting, feederFrame, remaining, audioQueue, fifo, usbFifoMutex, audioPut, feederUnchanged>>

\* The startup of the block's stream, and only of that one, is over.
Started ==
  /\ fpc = "started" /\ fpc' = "write"
  /\ awaiting' = IF awaiting = block.generation THEN 0 ELSE awaiting
  /\ UNCHANGED <<feederFrame, remaining, audioQueue, fifo, usbFifoMutex, audioPut,
                 feederUnchanged>>

\* writeBlock: each attempt looks at the stream, takes the lock and looks again.
Write ==
  /\ fpc = "write"
  /\ fpc' = IF Belongs(block.generation) THEN "writeLock" ELSE "snapshot"
  /\ UNCHANGED <<awaiting, feederFrame, remaining, audioQueue, fifo, usbFifoMutex, audioPut, feederUnchanged>>

\* Mutated: no second look under the lock.
WriteUnchecked ==
  /\ fpc = "writeCheck" /\ fpc' = "put"
  /\ UNCHANGED <<awaiting, feederFrame, remaining, audioQueue, fifo, usbFifoMutex, audioPut, feederUnchanged>>

WriteCheck ==
  /\ fpc = "writeCheck"
  /\ IF Belongs(block.generation)
     THEN fpc' = "put" /\ UNCHANGED usbFifoMutex
     ELSE fpc' = "snapshot" /\ usbFifoMutex' = "free"
  /\ UNCHANGED <<awaiting, feederFrame, remaining, audioQueue, fifo, audioPut,
                 feederUnchanged>>

\* The next n chunks of the block in hand, from the cursor on.
Rest(n) == [i \in 1 .. n |-> Audio(block, BlockChunks - remaining + i)]

\* Mutated: what is left of a block accepted in part is written from its start.
PutAgain ==
  /\ fpc = "put" /\ usbFifoMutex' = "free"
  /\ \E n \in 0 .. remaining :
       /\ Len(fifo) + n <= FifoDepth
       /\ fifo' = fifo \o [i \in 1 .. n |-> Audio(block, i)]
       /\ remaining' = remaining - n
       /\ audioPut' = (audioPut \/ n # 0)
  /\ fpc' = IF remaining' = 0 THEN "snapshot" ELSE "write"
  /\ UNCHANGED <<awaiting, feederFrame, audioQueue, feederUnchanged>>

\* The FIFO accepts some, all or nothing of the rest of the block.
Put ==
  /\ fpc = "put" /\ usbFifoMutex' = "free"
  /\ \E n \in 0 .. remaining :
       /\ Len(fifo) + n <= FifoDepth
       /\ fifo' = fifo \o Rest(n)
       /\ remaining' = remaining - n
       /\ audioPut' = (audioPut \/ n # 0)
  /\ fpc' = IF remaining' = 0 THEN "snapshot" ELSE "write"
  /\ UNCHANGED <<awaiting, feederFrame, audioQueue, feederUnchanged>>

WriteBlock == Write \/ WriteCheck \/ Put

FeedUsb ==
  FeedSnapshot \/ Receive \/ TakeMutex \/ TopUpSilence \/ BlockBelongs \/ Started \/ WriteBlock

\* External: the host reads the FIFO.
HostReads ==
  /\ fifo # <<>>
  /\ fifo' = Tail(fifo)
  /\ UNCHANGED <<eventVars, streamVars, audioQueue, usbFifoMutex, captureVars, feederVars,
                 audioPut>>

-----------------------------------------------------------------------------
Next ==
  \/ AudioEvent \/ UsbEvent \/ UsbStopped \/ TransitionStreaming
  \/ CaptureAudio \/ RecordingDone \/ FeedUsb \/ HostReads

Spec == Init /\ [][Next]_vars

\* The three tasks are scheduled; the host may stop reading.
FairSpec ==
  /\ Spec
  /\ WF_vars(TransitionStreaming) /\ WF_vars(CaptureAudio) /\ WF_vars(FeedUsb)

-----------------------------------------------------------------------------
(* Properties *)

IsAudio(chunk) == chunk.kind = "audio"

\* What the host reads of an open stream was recorded while that stream was
\* open: no block that straddles its opening, none of the stream before.
OnlyThisStream ==
  usbMicActive =>
    \A i \in DOMAIN fifo :
      IsAudio(fifo[i]) => /\ fifo[i].block.generation = streamGeneration
                          /\ fifo[i].block.born = streamGeneration

\* The feeder has a block in hand.
InHand == fpc \in {"belongs", "started", "write", "writeLock", "writeCheck", "put"}
Current(b) == b.generation = streamGeneration

Precedes(c, d) ==
  c.block.serial < d.block.serial \/ (c.block.serial = d.block.serial /\ c.part < d.part)

\* The audio of an open stream, in the FIFO and behind it, is in the order of
\* its recording, and of the block in hand just those parts are written of which
\* the feeder knows: no block is overtaken, no part is repeated.
InOrder ==
  usbMicActive =>
    /\ \A i, j \in DOMAIN fifo :
         i < j /\ IsAudio(fifo[i]) /\ IsAudio(fifo[j]) => Precedes(fifo[i], fifo[j])
    /\ \A k, l \in DOMAIN audioQueue :
         k < l /\ Current(audioQueue[k]) /\ Current(audioQueue[l])
           => audioQueue[k].serial < audioQueue[l].serial
    /\ \A i \in DOMAIN fifo, k \in DOMAIN audioQueue :
         IsAudio(fifo[i]) /\ Current(audioQueue[k])
           => fifo[i].block.serial < audioQueue[k].serial
    /\ InHand /\ Current(block) =>
         /\ \A i \in DOMAIN fifo :
              IsAudio(fifo[i]) => Precedes(fifo[i], Audio(block, BlockChunks - remaining + 1))
         /\ \A k \in DOMAIN audioQueue :
              Current(audioQueue[k]) => block.serial < audioQueue[k].serial

\* The buffer that is read or begun next is not one M5.Mic still writes to.
NotRecordedInto ==
  cpc \in {"snapshot", "record", "enqueue", "send", "evict"}
    => \A i \in DOMAIN recording : recording[i] # nextBuffer

\* The silence that tops up a startup ends with the first block: once audio of
\* the stream is in the FIFO, only an underrun puts silence there.
StartupComesFirst ==
  fpc = "fill" /\ awaitingFresh /\ Belongs(generation) => ~audioPut

\* The event task, on which all USB events run, is never held up for ever by
\* the other two, though the host may have stopped reading.
TransitionEnds == epc # "idle" ~> epc = "idle"
=============================================================================

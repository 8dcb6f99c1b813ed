----------------------------- MODULE FileSource -----------------------------
(***************************************************************************)
(* The sender of the file source (AppMediaSrc_ESP32_FileSrc.c) and the     *)
(* media sink it feeds (app_common_onMediaSinkHook).  The sender reads one *)
(* file per frame, round and round, into a buffer that only grows, and     *)
(* hands each frame to the sink, which writes it to every listed session.  *)
(* MediaControl is about when a run starts and that there is one at a      *)
(* time; StreamingSessions is about the locks of the sink's walk.  Here    *)
(* the walk is one action, and the data matter: sizes, buffers, key        *)
(* frames and time stamps.                                                 *)
(*                                                                         *)
(* Abstracted: a frame is the number of its file; a time stamp is the      *)
(* number of frames since the start of the run (presentationTs divided by  *)
(* FILESRC_VIDEO_FRAME_DURATION).  The sleep between frames and the audio  *)
(* sender, whose creation is commented out, are left out.  External:       *)
(* fileio_read, memory allocation and rtp_writeFrame, each of which may    *)
(* fail.                                                                   *)
(***************************************************************************)
EXTENDS Naturals, FiniteSets

CONSTANTS Sessions,
          NumFiles,     \* NUMBER_OF_H264_FRAME_FILES
          FileSize,     \* the size of each file
          KeyFiles,     \* the files that hold a key frame
          InitialSize,  \* the buffer a run starts with, 7*1024
          MaxFrames,    \* bound on the frames of a run
          MaxRuns       \* bound on the runs

Files == 1..NumFiles

ASSUME FilesAssumption ==
  NumFiles \in Nat \ {0} /\ FileSize \in [Files -> Nat \ {0}] /\ KeyFiles \subseteq Files
ASSUME SizeAssumption == InitialSize \in Nat \ {0}
ASSUME BoundsAssumption == MaxFrames \in Nat /\ MaxRuns \in Nat

VARIABLES
  shutdownFileSrc,
  senderPc,          \* sendVideoPackets; "off" without a sender
  fileIndex, frameSize, presentationTs,  \* its locals
  buffer,            \* the size of the block pFrameBuffer points to, 0 for NULL
  frameBufferSize,   \* what the code takes it for
  listed,            \* the sessions in streamingSessionList
  firstKeyFrame,     \* the listed ones whose flag is set
  lastTs,            \* time stamp of the last frame written to each, 0 for none
  heap,              \* the number of frame buffers allocated
  allocFailed,       \* the first allocation of the run failed
  lostBuffers,       \* the number of growths that failed and lost a buffer
  keySent,           \* the listed sessions a key frame was written to
  earlier,           \* those whose last frame is of an earlier run
  runs

srcVars == <<fileIndex, frameSize, presentationTs>>
bufVars == <<buffer, frameBufferSize, heap, allocFailed, lostBuffers>>
sinkVars == <<listed, firstKeyFrame, lastTs, keySent, earlier>>
vars == <<shutdownFileSrc, senderPc, srcVars, bufVars, sinkVars, runs>>

\* The types, and what is known of a session only while it is listed.
TypeOK ==
  /\ shutdownFileSrc \in BOOLEAN
  /\ senderPc \in {"off", "start", "loop", "size", "grow", "read", "sink", "end"}
  /\ fileIndex \in 0..NumFiles /\ frameSize \in Nat /\ presentationTs \in Nat
  /\ buffer \in Nat /\ frameBufferSize \in Nat /\ heap \in Nat
  /\ allocFailed \in BOOLEAN /\ lostBuffers \in Nat
  /\ listed \in SUBSET Sessions
  /\ firstKeyFrame \in SUBSET listed /\ keySent \in SUBSET listed
  /\ earlier \in SUBSET listed
  /\ lastTs \in [Sessions -> Nat]
  /\ runs \in Nat
  /\ senderPc \in {"size", "grow", "read", "sink"} => fileIndex \in Files

Init ==
  /\ shutdownFileSrc = FALSE /\ senderPc = "off"
  /\ fileIndex = 0 /\ frameSize = 0 /\ presentationTs = 0
  /\ buffer = 0 /\ frameBufferSize = 0 /\ heap = 0
  /\ allocFailed = FALSE /\ lostBuffers = 0
  /\ listed = {} /\ firstKeyFrame = {} /\ keySent = {} /\ earlier = {}
  /\ lastTs = [s \in Sessions |-> 0]
  /\ runs = 0

-----------------------------------------------------------------------------
(* app_media_source_run and app_media_source_shutdown.                       *)

\* A sender is created and joined; without one the run returns at once.
Run ==
  /\ senderPc = "off" /\ runs < MaxRuns
  /\ shutdownFileSrc' = FALSE
  /\ senderPc' \in {"start", "off"}
  /\ runs' = runs + 1
  /\ UNCHANGED <<srcVars, bufVars, sinkVars>>

\* From pollApp or freeApp, at any time.
Shutdown ==
  /\ shutdownFileSrc' = TRUE
  /\ UNCHANGED <<senderPc, srcVars, bufVars, sinkVars, runs>>

-----------------------------------------------------------------------------
(* sendVideoPackets                                                          *)

SenderGoes(from, to) == senderPc = from /\ senderPc' = to

\* MEMALLOC, whose result is not tested.
SenderStart ==
  /\ SenderGoes("start", "loop")
  /\ fileIndex' = 0 /\ presentationTs' = 0 /\ UNCHANGED frameSize
  /\ \/ buffer' = InitialSize /\ heap' = heap + 1 /\ allocFailed' = FALSE
     \/ buffer' = 0 /\ UNCHANGED heap /\ allocFailed' = TRUE
  /\ frameBufferSize' = InitialSize
  /\ earlier' = {s \in listed : lastTs[s] > 0}
  /\ UNCHANGED <<shutdownFileSrc, lostBuffers, listed, firstKeyFrame, lastTs, keySent, runs>>

\* The files are counted from 1.
NextFile(i) == (i % NumFiles) + 1

SenderLoop ==
  /\ ~shutdownFileSrc /\ presentationTs < MaxFrames
  /\ SenderGoes("loop", "size")
  /\ fileIndex' = NextFile(fileIndex)
  /\ UNCHANGED <<shutdownFileSrc, frameSize, presentationTs, bufVars, sinkVars, runs>>

\* SenderStops that goes on with the next frame.
SenderStops_sendsOn ==
  /\ shutdownFileSrc /\ presentationTs < MaxFrames
  /\ SenderGoes("loop", "size")
  /\ fileIndex' = NextFile(fileIndex)
  /\ UNCHANGED <<shutdownFileSrc, frameSize, presentationTs, bufVars, sinkVars, runs>>

SenderStops ==
  /\ shutdownFileSrc
  /\ SenderGoes("loop", "end")
  /\ UNCHANGED <<shutdownFileSrc, srcVars, bufVars, sinkVars, runs>>

\* The test with the roles of the sizes exchanged.
TooSmall_reversed == frameSize' < frameBufferSize
TooSmall == frameSize' > frameBufferSize

\* readFrameFromDisk without a buffer answers the size.
QuerySize ==
  /\ senderPc = "size"
  /\ frameSize' = FileSize[fileIndex]
  /\ senderPc' = IF TooSmall THEN "grow" ELSE "read"
  /\ UNCHANGED <<shutdownFileSrc, fileIndex, presentationTs, bufVars, sinkVars, runs>>

\* MEMREALLOC, which leaves the old block alone when it fails.
Grow ==
  /\ \/ /\ SenderGoes("grow", "read")
        /\ buffer' = frameSize /\ frameBufferSize' = frameSize
        /\ heap' = IF buffer = 0 THEN heap + 1 ELSE heap
        /\ UNCHANGED lostBuffers
     \/ /\ SenderGoes("grow", "end")
        /\ buffer' = 0
        /\ lostBuffers' = IF buffer = 0 THEN lostBuffers ELSE lostBuffers + 1
        /\ UNCHANGED <<frameBufferSize, heap>>
  /\ UNCHANGED <<shutdownFileSrc, srcVars, allocFailed, sinkVars, runs>>

\* readFrameFromDisk into pFrameBuffer; with NULL it answers the size again.
ReadFrame ==
  /\ SenderGoes("read", "sink")
  /\ UNCHANGED <<shutdownFileSrc, srcVars, bufVars, sinkVars, runs>>

\* One of the two calls of readFrameFromDisk fails.
ReadFails ==
  /\ senderPc \in {"size", "read"} /\ senderPc' = "end"
  /\ UNCHANGED <<shutdownFileSrc, srcVars, bufVars, sinkVars, runs>>

\* The clean-up without SAFE_MEMFREE.
SenderEnds_keepsBuffer ==
  /\ SenderGoes("end", "off")
  /\ buffer' = 0
  /\ UNCHANGED <<shutdownFileSrc, srcVars, frameBufferSize, heap, allocFailed,
                 lostBuffers, sinkVars, runs>>

SenderEnds ==
  /\ SenderGoes("end", "off")
  /\ buffer' = 0
  /\ heap' = IF buffer = 0 THEN heap ELSE heap - 1
  /\ UNCHANGED <<shutdownFileSrc, srcVars, frameBufferSize, allocFailed, lostBuffers,
                 sinkVars, runs>>

-----------------------------------------------------------------------------
(* app_common_onMediaSinkHook                                                *)

\* The flag of a frame: the sender marks them all as key frames.
FlaggedKey(file) == TRUE

\* The key frame gate; a session that passes it has its flag set, whether or
\* not the write that follows succeeds.
Passes(s) == s \in firstKeyFrame \/ FlaggedKey(fileIndex)

\* The time stamp computed from the file, and the next one.
NextTs_ofFile == fileIndex
NextTs == presentationTs + 1

\* The sink's result, an error once the application terminates, is not tested.
SinkHook ==
  /\ SenderGoes("sink", "loop")
  /\ presentationTs' = NextTs
  /\ firstKeyFrame' = {s \in listed : Passes(s)}
  /\ \E written \in SUBSET firstKeyFrame' :
       /\ lastTs' = [s \in Sessions |-> IF s \in written THEN presentationTs' ELSE lastTs[s]]
       /\ keySent' = keySent \cup (IF fileIndex \in KeyFiles THEN written ELSE {})
       /\ earlier' = earlier \ written
  /\ UNCHANGED <<shutdownFileSrc, fileIndex, frameSize, bufVars, listed, runs>>

\* A session is listed zeroed (MEMCALLOC), and unlisted by pollApp.
ListSession(s) ==
  /\ s \notin listed /\ listed' = listed \cup {s}
  /\ lastTs' = [lastTs EXCEPT ![s] = 0]
  /\ UNCHANGED <<shutdownFileSrc, senderPc, srcVars, bufVars, firstKeyFrame, keySent,
                 earlier, runs>>

UnlistSession(s) ==
  /\ s \in listed /\ listed' = listed \ {s}
  /\ firstKeyFrame' = firstKeyFrame \ {s} /\ keySent' = keySent \ {s}
  /\ earlier' = earlier \ {s}
  /\ UNCHANGED <<shutdownFileSrc, senderPc, srcVars, bufVars, lastTs, runs>>

-----------------------------------------------------------------------------
SenderNext ==
  \/ SenderStart \/ SenderLoop \/ SenderStops \/ QuerySize \/ Grow \/ ReadFrame
  \/ ReadFails \/ SinkHook \/ SenderEnds

Next ==
  \/ Run \/ Shutdown \/ SenderNext
  \/ \E s \in Sessions : ListSession(s) \/ UnlistSession(s)

Spec == Init /\ [][Next]_vars

(* The sender runs whenever it can; its calls return.                        *)
Fairness == WF_vars(SenderNext)
FairSpec == Spec /\ Fairness

-----------------------------------------------------------------------------
(* Properties                                                              *)

\* A frame is read into, and sent from, a buffer that holds it, whatever the
\* sizes of the files in a row and however many runs went before.  A frame
\* without a buffer takes a run whose first allocation failed, which nothing
\* tests (the frame has a size and no data then).
FrameFitsBuffer ==
  senderPc \in {"read", "sink"} =>
    frameSize <= buffer \/ (buffer = 0 /\ allocFailed)

\* Every way out of the sender gives its buffer back, but for a growth that
\* fails: the pointer is overwritten with NULL before it can be freed.
BuffersAreAccountedFor == heap = lostBuffers + IF buffer = 0 THEN 0 ELSE 1

\* The time stamps written to a session increase, also round the files, but for one
\* step back in each new run of the source, at the first frame it writes to a session
\* that an earlier run has served: every run starts from 0 (the source ended by itself
\* and a new offer started it).
TimeStampsIncrease ==
  [][\A s \in listed \cap listed' :
       lastTs'[s] # lastTs[s] => lastTs'[s] > lastTs[s] \/ s \in earlier \ earlier']_vars

\* A stop that no new run takes back ends the sender.
StopIsObeyed ==
  shutdownFileSrc ~> (senderPc = "off" \/ ~shutdownFileSrc)

\* AppCommon.h:97, of firstKeyFrame: "the first key frame of this session is
\* sent or not".
FirstKeyFrameIsSent == firstKeyFrame \subseteq keySent
=============================================================================

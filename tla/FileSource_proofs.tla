-------------------------- MODULE FileSource_proofs --------------------------
(***************************************************************************)
(* The sender of the file source, for every number and size of files and   *)
(* every set of sessions: its buffer and its time stamps.                  *)
(***************************************************************************)
EXTENDS FileSource, TLAPS

AtWork == {"loop", "size", "grow", "read", "sink"}

\* Within a run frameBufferSize is the size of the buffer, unless there is none.
SizeIsKnown ==
  /\ senderPc \in AtWork =>
       frameBufferSize = buffer \/ (buffer = 0 /\ allocFailed)
  /\ senderPc \in {"read", "sink"} => frameSize <= frameBufferSize
  /\ senderPc = "grow" => frameSize > frameBufferSize
  /\ senderPc \in {"off", "start"} => buffer = 0

\* No session of the present run is ahead of it.
NoneAhead ==
  senderPc \in AtWork => \A s \in listed \ earlier : lastTs[s] <= presentationTs

Inv == TypeOK /\ SizeIsKnown /\ BuffersAreAccountedFor /\ NoneAhead

-----------------------------------------------------------------------------
LEMMA InitInv == Init => Inv
<1> SUFFICES ASSUME Init PROVE Inv
  OBVIOUS
<1> USE FilesAssumption DEF Init
<1>1. TypeOK
  <2>1. 0 \in 0..NumFiles /\ lastTs \in [Sessions -> Nat]
    BY DEF Init
  <2> QED
    BY <2>1 DEF TypeOK
<1>2. SizeIsKnown /\ BuffersAreAccountedFor /\ NoneAhead
  BY DEF SizeIsKnown, BuffersAreAccountedFor, NoneAhead, AtWork
<1> QED
  BY <1>1, <1>2 DEF Inv

\* The next file is one of the files.
LEMMA NextFileIsFile ==
  ASSUME NEW i \in 0..NumFiles
  PROVE  NextFile(i) \in Files
<1>1. NumFiles \in Nat /\ NumFiles > 0 /\ i \in Nat
  BY FilesAssumption
<1>2. i % NumFiles \in 0..(NumFiles - 1)
  BY <1>1
<1> QED
  BY <1>1, <1>2 DEF NextFile, Files

\* The types, one action at a time.
LEMMA NextTypeOK == TypeOK /\ BuffersAreAccountedFor /\ [Next]_vars => TypeOK'
<1> SUFFICES ASSUME TypeOK, BuffersAreAccountedFor, [Next]_vars PROVE TypeOK'
  OBVIOUS
<1> USE DEF TypeOK, SenderGoes
<1>1. CASE Run
  <2>1. senderPc' \in {"start", "off"} /\ runs' \in Nat
    BY <1>1 DEF Run
  <2>2. shutdownFileSrc' \in BOOLEAN
    BY <1>1 DEF Run
  <2>3. UNCHANGED <<srcVars, bufVars, sinkVars>>
    BY <1>1 DEF Run
  <2> QED
    BY <2>1, <2>2, <2>3 DEF srcVars, bufVars, sinkVars
<1>2. CASE Shutdown
  BY <1>2 DEF Shutdown, srcVars, bufVars, sinkVars
<1>3. CASE SenderStart
  <2>1. 0 \in 0..NumFiles /\ InitialSize \in Nat
    BY FilesAssumption, SizeAssumption
  <2>2. earlier' \in SUBSET listed'
    BY <1>3 DEF SenderStart
  <2>3. buffer' \in Nat /\ heap' \in Nat
    <3>1. heap' = heap \/ heap' = heap + 1
      BY <1>3 DEF SenderStart
    <3>2. buffer' = InitialSize \/ buffer' = 0
      BY <1>3 DEF SenderStart
    <3> QED
      BY <2>1, <3>1, <3>2
  <2>4. allocFailed' \in BOOLEAN
    BY <1>3, Zenon DEF SenderStart
  <2> QED
    BY <1>3, <2>1, <2>2, <2>3, <2>4 DEF SenderStart
<1>4. CASE SenderLoop
  <2>1. fileIndex' \in Files
    BY <1>4, NextFileIsFile DEF SenderLoop
  <2>2. fileIndex' \in 0..NumFiles
    BY <2>1 DEF Files
  <2>3. UNCHANGED <<shutdownFileSrc, frameSize, presentationTs, bufVars, sinkVars, runs>>
    BY <1>4 DEF SenderLoop
  <2>4. senderPc' = "size"
    BY <1>4 DEF SenderLoop, SenderGoes
  <2> QED
    BY <2>1, <2>2, <2>3, <2>4 DEF bufVars, sinkVars
<1>5. CASE SenderStops \/ ReadFails \/ ReadFrame
  BY <1>5 DEF SenderStops, ReadFails, ReadFrame, srcVars, bufVars, sinkVars
<1>6. CASE QuerySize
  <2>1. FileSize[fileIndex] \in Nat
    BY <1>6, FilesAssumption DEF QuerySize
  <2> QED
    BY <1>6, <2>1 DEF QuerySize, bufVars, sinkVars
<1>7. CASE Grow
  BY <1>7 DEF Grow, srcVars, sinkVars
<1>8. CASE SinkHook
  <2>1. PICK written \in SUBSET firstKeyFrame' :
          /\ lastTs' = [s \in Sessions |-> IF s \in written THEN presentationTs' ELSE lastTs[s]]
          /\ keySent' = keySent \cup (IF fileIndex \in KeyFiles THEN written ELSE {})
          /\ earlier' = earlier \ written
    BY <1>8 DEF SinkHook
  <2>2. firstKeyFrame' = listed /\ listed' = listed /\ presentationTs' \in Nat
    BY <1>8 DEF SinkHook, Passes, FlaggedKey, NextTs
  <2>3. lastTs' \in [Sessions -> Nat]
    BY <2>1, <2>2
  <2>4. keySent' \in SUBSET listed' /\ earlier' \in SUBSET listed'
    BY <2>1, <2>2
  <2>5. /\ senderPc' = "loop"
        /\ UNCHANGED <<shutdownFileSrc, fileIndex, frameSize, bufVars, listed, runs>>
    BY <1>8 DEF SinkHook, SenderGoes
  <2> QED
    BY <2>2, <2>3, <2>4, <2>5 DEF bufVars
<1>9. CASE SenderEnds
  <2>1. heap' \in Nat
    BY <1>9 DEF SenderEnds, BuffersAreAccountedFor
  <2> QED
    BY <1>9, <2>1 DEF SenderEnds, srcVars, sinkVars
<1>10. CASE \E s \in Sessions : ListSession(s) \/ UnlistSession(s)
  BY <1>10 DEF ListSession, UnlistSession, srcVars, bufVars
<1>11. CASE UNCHANGED vars
  BY <1>11 DEF vars, srcVars, bufVars, sinkVars
<1> QED
  BY <1>1, <1>2, <1>3, <1>4, <1>5, <1>6, <1>7, <1>8, <1>9, <1>10, <1>11 DEF Next, SenderNext

\* What is known of the buffer.
LEMMA NextSizeIsKnown ==
  TypeOK /\ SizeIsKnown /\ [Next]_vars => SizeIsKnown'
<1> SUFFICES ASSUME TypeOK, SizeIsKnown, [Next]_vars PROVE SizeIsKnown'
  OBVIOUS
<1> USE FilesAssumption, SizeAssumption DEF TypeOK, SizeIsKnown, AtWork, SenderGoes, Files
<1>1. CASE Run \/ Shutdown
  BY <1>1 DEF Run, Shutdown, srcVars, bufVars
<1>2. CASE SenderStart
  BY <1>2 DEF SenderStart
<1>3. CASE SenderLoop \/ SenderStops
  BY <1>3 DEF SenderLoop, SenderStops, srcVars, bufVars
<1>4. CASE ReadFrame \/ ReadFails
  BY <1>4 DEF ReadFrame, ReadFails, srcVars, bufVars
<1>5. CASE QuerySize
  BY <1>5 DEF QuerySize, TooSmall, bufVars
<1>6. CASE Grow
  BY <1>6 DEF Grow, srcVars
<1>7. CASE SinkHook
  BY <1>7 DEF SinkHook, bufVars
<1>8. CASE SenderEnds
  BY <1>8 DEF SenderEnds, srcVars
<1>9. CASE \E s \in Sessions : ListSession(s) \/ UnlistSession(s)
  BY <1>9 DEF ListSession, UnlistSession, srcVars, bufVars
<1>10. CASE UNCHANGED vars
  BY <1>10 DEF vars, srcVars, bufVars
<1> QED
  BY <1>1, <1>2, <1>3, <1>4, <1>5, <1>6, <1>7, <1>8, <1>9, <1>10 DEF Next, SenderNext

\* Only the start, a growth and the end of the sender allocate or free.
LEMMA NextBuffers ==
  TypeOK /\ SizeIsKnown /\ BuffersAreAccountedFor /\ [Next]_vars => BuffersAreAccountedFor'
<1> SUFFICES ASSUME TypeOK, SizeIsKnown, BuffersAreAccountedFor, [Next]_vars
             PROVE  BuffersAreAccountedFor'
  OBVIOUS
<1> USE SizeAssumption DEF TypeOK, BuffersAreAccountedFor, SenderGoes
<1>1. CASE SenderStart
  BY <1>1 DEF SenderStart, SizeIsKnown
<1>2. CASE Grow
  BY <1>2 DEF Grow, SizeIsKnown
<1>3. CASE SenderEnds
  BY <1>3 DEF SenderEnds
<1>4. ASSUME ~SenderStart, ~Grow, ~SenderEnds PROVE UNCHANGED bufVars
  BY <1>4 DEF Next, SenderNext, Run, Shutdown, SenderLoop, SenderStops, QuerySize, ReadFrame,
              ReadFails, SinkHook, ListSession, UnlistSession, vars
<1>5. CASE UNCHANGED bufVars
  BY <1>5 DEF bufVars
<1> QED
  BY <1>1, <1>2, <1>3, <1>4, <1>5

\* The frames of the present run.
LEMMA NextNoneAhead == TypeOK /\ NoneAhead /\ [Next]_vars => NoneAhead'
<1> SUFFICES ASSUME TypeOK, NoneAhead, [Next]_vars PROVE NoneAhead'
  OBVIOUS
<1> USE DEF TypeOK, NoneAhead, AtWork, SenderGoes
<1>1. CASE SenderStart
  BY <1>1 DEF SenderStart
<1>2. CASE SinkHook
  <2>1. presentationTs' = presentationTs + 1 /\ listed' = listed /\ senderPc = "sink"
    BY <1>2 DEF SinkHook, NextTs
  <2>2. PICK written \in SUBSET firstKeyFrame' :
          /\ lastTs' = [s \in Sessions |-> IF s \in written THEN presentationTs' ELSE lastTs[s]]
          /\ earlier' = earlier \ written
    BY <1>2 DEF SinkHook
  <2>3. ASSUME NEW s \in listed' \ earlier' PROVE lastTs'[s] <= presentationTs'
    <3>1. CASE s \in written
      BY <2>1, <2>2, <3>1
    <3>2. CASE s \notin written
      BY <2>1, <2>2, <3>2
    <3> QED
      BY <3>1, <3>2
  <2> QED
    BY <2>3
<1>3. CASE \E s \in Sessions : ListSession(s) \/ UnlistSession(s)
  BY <1>3 DEF ListSession, UnlistSession, srcVars
<1>4. CASE Run \/ SenderStops \/ ReadFails \/ SenderEnds
  BY <1>4 DEF Run, SenderStops, ReadFails, SenderEnds
<1>5. CASE Shutdown \/ SenderLoop \/ QuerySize \/ Grow \/ ReadFrame
  BY <1>5 DEF Shutdown, SenderLoop, QuerySize, Grow, ReadFrame, srcVars, sinkVars
<1>6. CASE UNCHANGED vars
  BY <1>6 DEF vars, srcVars, sinkVars
<1> QED
  BY <1>1, <1>2, <1>3, <1>4, <1>5, <1>6 DEF Next, SenderNext

LEMMA NextInv == Inv /\ [Next]_vars => Inv'
BY NextTypeOK, NextSizeIsKnown, NextBuffers, NextNoneAhead DEF Inv

LEMMA Invariant == Spec => []Inv
BY InitInv, NextInv, PTL DEF Spec

-----------------------------------------------------------------------------
\* Types of the sender and the sink, for every number and size of files
\* (AppMediaSrc_ESP32_FileSrc.c:81, AppCommon.c:36).
THEOREM TypeCorrect == Spec => []TypeOK
BY Invariant, PTL DEF Inv

\* A frame never exceeds the buffer it is read into (sendVideoPackets's growth),
\* unless the first allocation of the run failed and there is no buffer.
THEOREM FrameFits == Spec => []FrameFitsBuffer
<1>1. Inv => FrameFitsBuffer
  BY DEF Inv, TypeOK, SizeIsKnown, FrameFitsBuffer, AtWork
<1> QED
  BY <1>1, Invariant, PTL

\* The buffers that were allocated and not freed are the present one and one for
\* each growth that failed (MEMREALLOC over its own argument).
THEOREM BuffersAccounted == Spec => []BuffersAreAccountedFor
BY Invariant, PTL DEF Inv

\* The time stamps written to a session increase, but for one step back at the first
\* frame that a new run writes to a session which an earlier run has served.
THEOREM TimeStampsGrow == Spec => TimeStampsIncrease
<1>1. ASSUME Inv, [Next]_vars, NEW s \in listed \cap listed', lastTs'[s] # lastTs[s]
      PROVE  lastTs'[s] > lastTs[s] \/ s \in earlier \ earlier'
  <2>1. CASE SinkHook
    <3>1. PICK written \in SUBSET firstKeyFrame' :
            /\ lastTs' = [r \in Sessions |-> IF r \in written THEN presentationTs' ELSE lastTs[r]]
            /\ earlier' = earlier \ written
      BY <2>1 DEF SinkHook
    <3>2. s \in written /\ s \notin earlier' /\ lastTs'[s] = presentationTs + 1
      BY <1>1, <2>1, <3>1 DEF SinkHook, NextTs, Inv, TypeOK
    <3>3. s \notin earlier => lastTs[s] <= presentationTs
      BY <1>1, <2>1 DEF SinkHook, SenderGoes, Inv, NoneAhead, AtWork
    <3> QED
      BY <1>1, <3>2, <3>3 DEF Inv, TypeOK
  <2>2. CASE \E r \in Sessions : ListSession(r) \/ UnlistSession(r)
    BY <1>1, <2>2 DEF ListSession, UnlistSession, Inv, TypeOK
  <2>3. ASSUME ~SinkHook, ~\E r \in Sessions : ListSession(r) \/ UnlistSession(r)
        PROVE  lastTs' = lastTs
    BY <1>1, <2>3 DEF Next, SenderNext, Run, Shutdown, SenderStart, SenderLoop, SenderStops,
                      QuerySize, Grow, ReadFrame, ReadFails, SenderEnds, sinkVars, vars
  <2> QED
    BY <1>1, <2>1, <2>2, <2>3
<1>2. Inv /\ [Next]_vars =>
        [\A s \in listed \cap listed' :
           lastTs'[s] # lastTs[s] => lastTs'[s] > lastTs[s] \/ s \in earlier \ earlier']_vars
  BY <1>1
<1> QED
  BY <1>2, Invariant, PTL DEF Spec, TimeStampsIncrease
=============================================================================

----------------------- MODULE StreamingSessions_proofs -----------------------
(***************************************************************************)
(* The streaming sessions, for every number of clients, sessions and slots *)
(* and every hash function: types, the safety of the list, of the hash     *)
(* table and of the media sink, and the implementation of SessionRegistry. *)
(***************************************************************************)
EXTENDS StreamingSessions, PendingMsgQ_proofs

\* Each lock has the owner its users assume.
Locks ==
  /\ configLock = "sig" <=> sigPc # "idle"
  /\ configLock = "poll" <=> pollPc \in {"scan", "free"}
  /\ readLock = "sink" <=> sinkPc # "idle"

\* What the threads hold between their steps: an offer is handled while its
\* client has no route, a session is freed after it left the list, and the sink
\* writes at an index of the list.
Holds ==
  /\ sigPc # "idle" => /\ sigSession \in Sessions \ negotiated
                       /\ rtcPeerConnections[Key(sigSession)] = NULL
  /\ sigPc = "created" => /\ sigSession \notin Listed \cup Forgotten
                          /\ streamingSessionCount < MaxSessions
  /\ sigPc \in {"listed", "handled"} => sigSession \in Listed
  /\ pollPc \in {"free", "failed"} => pollSession \in Sessions \ Listed
  /\ sinkPc = "write" => sinkIndex < streamingSessionCount

\* The shutdown flag is raised in a round and lowered at the latest after the
\* join, so that every round starts without it.
FreshRound ==
  /\ MediaStopsOnlyWhenIdle
  /\ pollPc = "top" => ~shutdownMediaSource

\* Each listed session is routed, is being handled, or had an offer of its hash
\* value fail.
RoutedOrPending ==
  \A s \in Listed :
    \/ Key(s) \in failedOffers
    \/ rtcPeerConnections[Key(s)] = s
    \/ s = sigSession /\ sigPc \in {"listed", "handled"}

\* The inductive invariant.
Inv == /\ MsgQInv /\ TypeOK /\ Locks /\ Holds /\ ListedOnceAndLive /\ NoSessionLeak
       /\ RouteIsListed /\ SinkWritesToLiveSession /\ FreshRound /\ RoutedOrPending

-----------------------------------------------------------------------------
(* The array.                                                                *)

Distinct == \A i, j \in Used : streamingSessionList[i] = streamingSessionList[j] => i = j

\* Appending a session at the count adds it to the listed ones.
LEMMA ListAfterAppend ==
  ASSUME TypeOK, Distinct, NEW s \in Sessions \ Listed, SlotFree,
         streamingSessionList' = [streamingSessionList EXCEPT ![streamingSessionCount] = s],
         streamingSessionCount' = streamingSessionCount + 1
  PROVE  /\ streamingSessionList' \in [Slots -> Sessions \cup {NULL}]
         /\ streamingSessionCount' \in 0..MaxSessions
         /\ Listed' = Listed \cup {s}
         /\ Distinct'
<1> DEFINE c == streamingSessionCount
<1>1. /\ c \in 0..(MaxSessions - 1) /\ Slots = 0..(MaxSessions - 1)
      /\ streamingSessionList \in [Slots -> Sessions \cup {NULL}]
  BY MaxSessionsAssumption DEF TypeOK, SlotFree, Slots
<1>2. streamingSessionList' \in [Slots -> Sessions \cup {NULL}] /\ c' \in 0..MaxSessions
  BY <1>1, MaxSessionsAssumption
<1>3. /\ Used = 0..(c - 1) /\ Used' = 0..c /\ Used \subseteq Slots /\ Used' = Used \cup {c}
      /\ c \notin Used
  BY <1>1, MaxSessionsAssumption DEF Used
<1>4. /\ \A i \in Used : streamingSessionList'[i] = streamingSessionList[i]
      /\ streamingSessionList'[c] = s
  BY <1>1, <1>3
<1>5. Listed' = Listed \cup {s}
  BY <1>3, <1>4 DEF Listed
<1>6. \A i \in Used : streamingSessionList[i] # s
  BY DEF Listed
<1>7. Distinct'
  BY <1>3, <1>4, <1>6 DEF Distinct
<1> QED
  BY <1>2, <1>5, <1>7

\* Removing the entry at i by moving the last one into its slot removes exactly
\* that session.
LEMMA ListAfterSwap ==
  ASSUME TypeOK, Distinct, NEW i \in Used,
         streamingSessionList' = SwapWithLast(i),
         streamingSessionCount' = streamingSessionCount - 1
  PROVE  /\ streamingSessionList' \in [Slots -> Sessions \cup {NULL}]
         /\ streamingSessionCount' \in 0..MaxSessions
         /\ Listed' = Listed \ {streamingSessionList[i]}
         /\ Distinct'
<1> DEFINE last == streamingSessionCount - 1
<1>1. /\ streamingSessionCount \in 0..MaxSessions /\ last \in Nat
      /\ Slots = 0..(MaxSessions - 1) /\ Used = 0..last /\ i \in 0..last
      /\ Used \subseteq Slots
      /\ streamingSessionList \in [Slots -> Sessions \cup {NULL}]
  BY MaxSessionsAssumption DEF TypeOK, Slots, Used
<1>2. Used' = 0..(last - 1)
  BY <1>1 DEF Used
<1>3. streamingSessionCount' \in 0..MaxSessions
  BY <1>1, MaxSessionsAssumption
<1>4. CASE last = 0
  <2>1. Used' = {} /\ Used = {i} /\ streamingSessionList' = streamingSessionList
    BY <1>1, <1>2, <1>4 DEF SwapWithLast
  <2>2. Listed' = {} /\ Listed = {streamingSessionList[i]}
    BY <2>1 DEF Listed
  <2>3. Distinct'
    BY <2>1 DEF Distinct
  <2> QED
    BY <1>1, <1>3, <2>1, <2>2, <2>3
<1>5. CASE last > 0
  <2>1. streamingSessionList' = [streamingSessionList EXCEPT ![i] = streamingSessionList[last]]
    BY <1>5 DEF SwapWithLast
  <2>2. \A j \in Used' : /\ j \in Used \ {last}
                         /\ streamingSessionList'[j]
                              = streamingSessionList[IF j = i THEN last ELSE j]
    BY <1>1, <1>2, <2>1
  <2>3. Listed' \subseteq Listed \ {streamingSessionList[i]}
    BY <1>1, <2>2 DEF Listed, Distinct
  <2>4. ASSUME NEW j \in Used, streamingSessionList[j] # streamingSessionList[i]
        PROVE  streamingSessionList[j] \in Listed'
    <3>1. CASE j = last
      <4>1. i \in Used' /\ streamingSessionList'[i] = streamingSessionList[j]
        BY <1>1, <1>2, <2>1, <2>4, <3>1
      <4> QED
        BY <4>1 DEF Listed
    <3>2. CASE j # last
      <4>1. j \in Used' /\ streamingSessionList'[j] = streamingSessionList[j]
        BY <1>1, <1>2, <2>1, <2>4, <3>2
      <4> QED
        BY <4>1 DEF Listed
    <3> QED
      BY <3>1, <3>2
  <2>5. Listed \ {streamingSessionList[i]} \subseteq Listed'
    BY <2>4 DEF Listed
  <2>6. Distinct'
    BY <1>1, <2>2 DEF Distinct
  <2>7. streamingSessionList' \in [Slots -> Sessions \cup {NULL}]
    BY <1>1, <2>1
  <2> QED
    BY <1>3, <2>3, <2>5, <2>6, <2>7
<1> QED
  BY <1>1, <1>4, <1>5

-----------------------------------------------------------------------------
(* Steps.                                                                    *)

\* The sessions call the queues only in the ways that PendingMsgQ describes.
LEMMA QueueStep ==
  ASSUME TypeOK, Holds, [Next]_vars
  PROVE  [MsgQNext]_msgQVars
<1> USE DEF MsgQNext
<1>1. ASSUME NEW p \in Peers, RecvCandidate(p) PROVE MsgQNext
  BY <1>1 DEF RecvCandidate
<1>2. ASSUME NEW p \in Peers, RefuseOffer(p) PROVE MsgQNext
  BY <1>2 DEF RefuseOffer
<1>3. CASE IndexSession
  <2>1. peerId[sigSession] \in Peers
    BY <1>3 DEF IndexSession, Holds, TypeOK
  <2> QED
    BY <1>3, <2>1 DEF IndexSession
<1>4. CASE PollSweep
  BY <1>4 DEF PollSweep
<1>5. CASE QueueExpires
  BY <1>5 DEF QueueExpires
<1>6. ASSUME NEW p \in Peers, CreateStreamingSession(p) PROVE UNCHANGED msgQVars
  BY <1>6 DEF CreateStreamingSession
<1>7. CASE AppendSession \/ HandleOffer \/ AbandonOffer
  BY <1>7 DEF AppendSession, HandleOffer, AbandonOffer
<1>8. CASE \/ PollLock \/ PollSkip \/ PollUnlist \/ PollUnlistFails \/ PollFree
           \/ PollJoined \/ PollExit
  BY <1>8 DEF PollLock, PollSkip, PollUnlist, PollUnlistFails, TakeOffList, PollFree,
     PollJoined, PollExit
<1>9. CASE SinkNext
  BY <1>9 DEF SinkNext, SinkLock, SinkPick, SinkWrite, SinkUnlock
<1>10. ASSUME NEW s \in Sessions, ConnectionLost(s) PROVE UNCHANGED msgQVars
  BY <1>10 DEF ConnectionLost
<1>11. CASE UNCHANGED vars
  BY <1>11 DEF vars
<1> QED
  BY <1>1, <1>2, <1>3, <1>4, <1>5, <1>6, <1>7, <1>8, <1>9, <1>10, <1>11
     DEF Next, SigNext, PollNext

LEMMA QueueInv ==
  ASSUME Inv, [Next]_vars
  PROVE  MsgQInv'
  BY QueueStep, MsgQNextInv DEF Inv

\* A step that changes neither the list, the hash table, nor who a session is
\* for keeps everything said about them.
LEMMA SameRegistry ==
  ASSUME UNCHANGED <<registryVars, peerId>>
  PROVE  /\ Listed' = Listed /\ Used' = Used
         /\ \A s : Key(s)' = Key(s)
         /\ Distinct => Distinct'
         /\ RouteIsListed /\ Forgotten' = Forgotten => RouteIsListed'
         /\ ListedOnceAndLive /\ live' = live => ListedOnceAndLive'
  BY DEF registryVars, Listed, Used, Key, Distinct, RouteIsListed, ListedOnceAndLive

LEMMA InitInv == Init => Inv
<1> SUFFICES ASSUME Init PROVE Inv
  OBVIOUS
<1> USE NoOwnerAssumption, MaxSessionsAssumption DEF Init
<1>1. MsgQInv /\ MsgQTypeOK
  BY MsgQInitInv DEF MsgQInv
<1>2. (CHOOSE p \in Peers : TRUE) \in Peers
  BY PeersAssumption
<1>3. Used = {} /\ Listed = {}
  BY DEF Used, Listed
<1>4. /\ streamingSessionList \in [Slots -> Sessions \cup {NULL}]
      /\ rtcPeerConnections \in [Hashes -> Sessions \cup {NULL}]
      /\ peerId \in [Sessions -> Peers]
      /\ 0 \in 0..MaxSessions
  BY <1>2
<1>5. TypeOK
  BY <1>1, <1>4 DEF TypeOK
<1> QED
  BY <1>1, <1>3, <1>5 DEF Inv, Locks, Holds, ListedOnceAndLive, NoSessionLeak, HeldSessions,
     Forgotten, RouteIsListed, SinkWritesToLiveSession, FreshRound, MediaStopsOnlyWhenIdle,
     RoutedOrPending

-----------------------------------------------------------------------------
(* The invariant is preserved.  First the steps that leave the list, the     *)
(* table and the set of allocated sessions alone.                            *)

LEMMA SameRegistryInv ==
  ASSUME Inv, MsgQInv', TypeOK', UNCHANGED <<registryVars, live, peerId>>,
         Locks', Holds', HeldSessions' = HeldSessions, Forgotten' = Forgotten,
         SinkWritesToLiveSession',
         FreshRound', RoutedOrPending'
  PROVE  Inv'
<1>1. Listed' = Listed /\ ListedOnceAndLive' /\ RouteIsListed'
  BY SameRegistry DEF Inv
<1>2. NoSessionLeak'
  BY <1>1 DEF NoSessionLeak, Inv
<1> QED
  BY <1>1, <1>2 DEF Inv

LEMMA OnlyQueuesInv ==
  ASSUME Inv, MsgQInv',
         UNCHANGED <<configLock, readLock, registryVars, live, peerId, terminateFlag,
                     sigVars, pollVars, sinkVars, auxVars>>
  PROVE  Inv'
<1>1. Listed' = Listed /\ \A s : Key(s)' = Key(s)
  BY SameRegistry
<1>2. TypeOK'
  BY DEF Inv, TypeOK, MsgQInv, registryVars, sigVars, pollVars, sinkVars, auxVars
<1>3. Locks' /\ HeldSessions' = HeldSessions /\ Forgotten' = Forgotten /\ FreshRound'
  BY DEF Inv, Locks, HeldSessions, Forgotten, FreshRound, MediaStopsOnlyWhenIdle, registryVars,
         sigVars, pollVars, sinkVars
<1>4. Holds' /\ SinkWritesToLiveSession' /\ RoutedOrPending'
  BY <1>1 DEF Inv, Holds, Forgotten, SinkWritesToLiveSession, RoutedOrPending, registryVars,
         sigVars, pollVars, sinkVars, auxVars
<1> QED
  BY <1>2, <1>3, <1>4, SameRegistryInv

LEMMA SigStepInv ==
  ASSUME Inv, MsgQInv', HandleOffer \/ AbandonOffer
  PROVE  Inv'
<1> USE NoOwnerAssumption DEF HandleOffer, AbandonOffer, registryVars, sigVars, pollVars,
        sinkVars, auxVars
<1>0. MsgQTypeOK'
  BY DEF MsgQInv
<1>1. Listed' = Listed /\ \A s : Key(s)' = Key(s)
  BY SameRegistry
<1>2. Key(sigSession) \in Hashes
  BY DEF Inv, TypeOK, Holds, Key, Hashes
<1>3. TypeOK'
  BY <1>0, <1>2 DEF Inv, TypeOK
<1>4. Locks' /\ HeldSessions' = HeldSessions /\ Forgotten' = Forgotten /\ FreshRound'
  BY DEF Inv, Locks, HeldSessions, Forgotten, FreshRound, MediaStopsOnlyWhenIdle
<1>5. Holds' /\ SinkWritesToLiveSession' /\ RoutedOrPending'
  BY <1>1 DEF Inv, Holds, SinkWritesToLiveSession, RoutedOrPending
<1> QED
  BY <1>1, <1>3, <1>4, <1>5, SameRegistryInv

LEMMA CallbackStepInv ==
  ASSUME Inv, MsgQInv', NEW s \in Sessions, ConnectionLost(s)
  PROVE  Inv'
<1> USE DEF ConnectionLost, registryVars, sigVars, pollVars, sinkVars, auxVars
<1>1. Listed' = Listed /\ \A t : Key(t)' = Key(t)
  BY SameRegistry
<1>2. TypeOK'
  BY DEF Inv, TypeOK, MsgQInv
<1>3. Locks' /\ HeldSessions' = HeldSessions /\ Forgotten' = Forgotten /\ FreshRound'
  BY DEF Inv, Locks, HeldSessions, Forgotten, FreshRound, MediaStopsOnlyWhenIdle
<1>4. Holds' /\ SinkWritesToLiveSession' /\ RoutedOrPending'
  BY <1>1 DEF Inv, Holds, Forgotten, SinkWritesToLiveSession, RoutedOrPending
<1> QED
  BY <1>2, <1>3, <1>4, SameRegistryInv

LEMMA PollStepInv ==
  ASSUME Inv, MsgQInv', PollLock \/ PollSkip \/ PollSweep \/ PollJoined \/ PollExit
  PROVE  Inv'
<1> USE NoOwnerAssumption, MaxSessionsAssumption
    DEF PollLock, PollSkip, PollSweep, PollJoined, PollExit, registryVars, sigVars,
        pollVars, sinkVars, auxVars
<1>0. MsgQTypeOK'
  BY DEF MsgQInv
<1>1. Listed' = Listed /\ \A s : Key(s)' = Key(s)
  BY SameRegistry
<1>2. pollIndex' \in 0..MaxSessions
  BY DEF Inv, TypeOK
<1>3. TypeOK'
  BY <1>0, <1>2 DEF Inv, TypeOK
<1>4. Locks' /\ HeldSessions' = HeldSessions /\ Forgotten' = Forgotten /\ FreshRound'
  BY DEF Inv, TypeOK, Locks, HeldSessions, Forgotten, FreshRound, MediaStopsOnlyWhenIdle
<1>5. Holds' /\ SinkWritesToLiveSession' /\ RoutedOrPending'
  BY <1>1 DEF Inv, Holds, Forgotten, SinkWritesToLiveSession, RoutedOrPending
<1> QED
  BY <1>3, <1>4, <1>5, SameRegistryInv

LEMMA SinkStepInv ==
  ASSUME Inv, MsgQInv', SinkNext
  PROVE  Inv'
<1> USE NoOwnerAssumption, MaxSessionsAssumption
    DEF SinkNext, SinkLock, SinkPick, SinkWrite, SinkUnlock, registryVars, sigVars,
        pollVars, auxVars
<1>0. MsgQTypeOK'
  BY DEF MsgQInv
<1>1. Listed' = Listed /\ \A s : Key(s)' = Key(s)
  BY SameRegistry
<1>2. sinkIndex' \in 0..MaxSessions /\ sinkSession' \in Sessions \cup {NULL}
      /\ SinkWritesToLiveSession'
  <2>1. CASE SinkPick
    <3>1. sinkIndex \in Used /\ sinkIndex \in Slots
      BY <2>1 DEF Inv, TypeOK, Used, Slots
    <3>2. sinkSession' \in Listed /\ Listed \subseteq live
      BY <2>1, <3>1 DEF Listed, Inv, ListedOnceAndLive
    <3> QED
      BY <1>1, <2>1, <3>2 DEF Inv, TypeOK, SinkWritesToLiveSession
  <2>2. CASE SinkWrite
    BY <2>2 DEF Inv, TypeOK, Holds, SinkWritesToLiveSession
  <2> QED
    BY <2>1, <2>2 DEF Inv, TypeOK, SinkWritesToLiveSession
<1>3. TypeOK'
  BY <1>0, <1>2 DEF Inv, TypeOK
<1>4. Locks' /\ HeldSessions' = HeldSessions /\ Forgotten' = Forgotten /\ FreshRound'
  BY DEF Inv, Locks, HeldSessions, Forgotten, FreshRound, MediaStopsOnlyWhenIdle
<1>5. Holds' /\ RoutedOrPending'
  BY <1>1 DEF Inv, Holds, Forgotten, RoutedOrPending
<1> QED
  BY <1>2, <1>3, <1>4, <1>5, SameRegistryInv

-----------------------------------------------------------------------------
(* The steps that change the list, the table or the allocated sessions.      *)

LEMMA CreateInv ==
  ASSUME Inv, MsgQInv', NEW p \in Peers, CreateStreamingSession(p)
  PROVE  Inv'
<1> USE NoOwnerAssumption
<1>0. MsgQTypeOK'
  BY DEF MsgQInv
<1>1. PICK s \in Sessions \ live :
        /\ live' = live \cup {s} /\ peerId' = [peerId EXCEPT ![s] = p]
        /\ terminateFlag' = terminateFlag \ {s} /\ negotiated' = negotiated \ {s}
        /\ sigSession' = s
  BY DEF CreateStreamingSession
<1>2. /\ sigPc = "idle" /\ configLock = NULL /\ configLock' = "sig" /\ sigPc' = "created"
      /\ rtcPeerConnections[HashOf[p]] = NULL /\ streamingSessionCount < MaxSessions
      /\ UNCHANGED <<readLock, streamingSessionList, streamingSessionCount,
                     rtcPeerConnections, pollPc, pollIndex, pollSession,
                     shutdownMediaSource, sinkPc, sinkIndex, sinkSession, failedOffers>>
  BY DEF CreateStreamingSession, PeerConnectionFound, SlotFree, registryVars, pollVars, sinkVars
<1>3. /\ Listed' = Listed /\ Used' = Used /\ s \notin Listed /\ Listed \subseteq live
      /\ Key(s)' = HashOf[p] /\ \A t \in Sessions : t # s => Key(t)' = Key(t)
  BY <1>1, <1>2 DEF Inv, TypeOK, ListedOnceAndLive, Listed, Used, Key
<1>4. TypeOK'
  BY <1>0, <1>1, <1>2 DEF Inv, TypeOK
<1>5. Locks'
  BY <1>2 DEF Inv, Locks
<1>6. Holds'
  BY <1>1, <1>2, <1>3 DEF Inv, Holds, Locks, NoSessionLeak, Forgotten
<1>7. ListedOnceAndLive' /\ NoSessionLeak'
  BY <1>1, <1>2, <1>3 DEF Inv, Locks, ListedOnceAndLive, NoSessionLeak, HeldSessions, Forgotten
<1>8. RouteIsListed'
  <2>1. Forgotten' = Forgotten /\ Forgotten \subseteq live
    BY <1>2 DEF Forgotten, Inv, NoSessionLeak
  <2> QED
    BY <1>2, <1>3, <2>1 DEF Inv, TypeOK, Holds, Forgotten, RouteIsListed
<1>9. SinkWritesToLiveSession' /\ FreshRound'
  BY <1>1, <1>2, <1>3 DEF Inv, SinkWritesToLiveSession, FreshRound, MediaStopsOnlyWhenIdle
<1>10. Listed \subseteq Sessions
  BY <1>3 DEF Inv, TypeOK
<1>11. RoutedOrPending'
  BY <1>1, <1>2, <1>3, <1>10 DEF Inv, Locks, RoutedOrPending
<1> QED
  BY <1>4, <1>5, <1>6, <1>7, <1>8, <1>9, <1>11 DEF Inv

LEMMA AppendInv ==
  ASSUME Inv, MsgQInv', AppendSession
  PROVE  Inv'
<1> USE NoOwnerAssumption
<1>0. MsgQTypeOK'
  BY DEF MsgQInv
<1>1. /\ sigPc = "created" /\ sigPc' = "listed" /\ readLock = NULL
      /\ UNCHANGED <<configLock, readLock, rtcPeerConnections, live, peerId, terminateFlag,
                     sigSession, pollPc, pollIndex, pollSession, shutdownMediaSource,
                     sinkPc, sinkIndex, sinkSession, negotiated, failedOffers>>
  BY DEF AppendSession, ReadLockFree, pollVars, sinkVars, auxVars
<1>2. sigSession \in Sessions \ Listed /\ sigSession \notin Forgotten /\ SlotFree /\ Distinct
  BY <1>1 DEF Inv, Holds, SlotFree, ListedOnceAndLive, Distinct
<1>3. /\ streamingSessionList' \in [Slots -> Sessions \cup {NULL}]
      /\ streamingSessionCount' \in 0..MaxSessions
      /\ Listed' = Listed \cup {sigSession} /\ Distinct'
  BY <1>2, ListAfterAppend DEF Inv, AppendSession
<1>4. \A t : Key(t)' = Key(t)
  BY <1>1 DEF Key
<1>5. TypeOK'
  BY <1>0, <1>1, <1>3 DEF Inv, TypeOK
<1>6. Locks' /\ FreshRound' /\ sinkPc = "idle"
  BY <1>1 DEF Inv, Locks, FreshRound, MediaStopsOnlyWhenIdle
<1>7. pollPc \notin {"scan", "free"}
  BY <1>1 DEF Inv, Locks
<1>8. Holds' /\ RouteIsListed' /\ SinkWritesToLiveSession' /\ RoutedOrPending'
  BY <1>1, <1>2, <1>3, <1>4, <1>6, <1>7
     DEF Inv, Holds, Forgotten, RouteIsListed, SinkWritesToLiveSession, RoutedOrPending
<1>9. NoSessionLeak'
  BY <1>1, <1>3, <1>7 DEF Inv, NoSessionLeak, HeldSessions, Forgotten
<1>10. ListedOnceAndLive'
  BY <1>3, <1>9 DEF ListedOnceAndLive, Distinct, NoSessionLeak
<1> QED
  BY <1>5, <1>6, <1>8, <1>9, <1>10 DEF Inv

LEMMA IndexInv ==
  ASSUME Inv, MsgQInv', IndexSession
  PROVE  Inv'
<1> USE NoOwnerAssumption
<1>0. MsgQTypeOK'
  BY DEF MsgQInv
<1>1. /\ sigPc = "handled" /\ sigPc' = "idle" /\ sigSession' = NULL /\ configLock' = NULL
      /\ rtcPeerConnections' = [rtcPeerConnections EXCEPT ![Key(sigSession)] = sigSession]
      /\ negotiated' = negotiated \cup {sigSession}
      /\ UNCHANGED <<readLock, streamingSessionList, streamingSessionCount, live, peerId,
                     terminateFlag, pollPc, pollIndex, pollSession, shutdownMediaSource,
                     sinkPc, sinkIndex, sinkSession, failedOffers>>
  BY DEF IndexSession, pollVars, sinkVars
<1>2. Listed' = Listed /\ Used' = Used /\ \A t : Key(t)' = Key(t)
  BY <1>1 DEF Listed, Used, Key
<1>3. /\ sigSession \in Sessions \cap Listed /\ Key(sigSession) \in Hashes
      /\ configLock = "sig" /\ pollPc \notin {"scan", "free"}
  BY <1>1 DEF Inv, TypeOK, Holds, Locks, Key, Hashes
<1>4. TypeOK'
  BY <1>0, <1>1, <1>3 DEF Inv, TypeOK
<1>5. Locks' /\ FreshRound'
  BY <1>1, <1>3 DEF Inv, Locks, FreshRound, MediaStopsOnlyWhenIdle
<1>6. Holds' /\ SinkWritesToLiveSession'
  BY <1>1, <1>2, <1>3 DEF Inv, Holds, SinkWritesToLiveSession
<1>7. NoSessionLeak' /\ ListedOnceAndLive'
  BY <1>1, <1>2 DEF Inv, NoSessionLeak, HeldSessions, Forgotten, ListedOnceAndLive
<1>8. RouteIsListed'
  BY <1>1, <1>2, <1>3 DEF Inv, TypeOK, Forgotten, RouteIsListed
<1>9. rtcPeerConnections[Key(sigSession)] = NULL /\ NULL \notin Listed
  BY <1>1, SessionsAssumption DEF Inv, TypeOK, Holds, ListedOnceAndLive
<1>10. RoutedOrPending'
  <2> SUFFICES ASSUME NEW s \in Listed, Key(s) \notin failedOffers
               PROVE  rtcPeerConnections'[Key(s)] = s
    BY <1>1, <1>2 DEF RoutedOrPending
  <2>1. rtcPeerConnections[Key(s)] = s \/ s = sigSession
    BY DEF Inv, RoutedOrPending
  <2>2. rtcPeerConnections[Key(s)] = s => Key(s) # Key(sigSession)
    BY <1>9
  <2> QED
    BY <1>1, <1>3, <2>1, <2>2 DEF Inv, TypeOK
<1> QED
  BY <1>4, <1>5, <1>6, <1>7, <1>8, <1>10 DEF Inv

\* What both ways to take a terminated session off the list have in common.
LEMMA TakeOffFacts ==
  ASSUME Inv, TakeOffList, NEW s, s = streamingSessionList[pollIndex]
  PROVE  /\ pollPc = "scan" /\ readLock = NULL /\ sigPc = "idle" /\ sinkPc = "idle"
         /\ pollIndex \in Used /\ pollIndex < streamingSessionCount /\ Distinct
         /\ s \in Listed \cap Sessions /\ Key(s) \in Hashes /\ pollSession' = s
         /\ s \in terminateFlag
         /\ streamingSessionList' = SwapWithLast(pollIndex)
         /\ streamingSessionList' \in [Slots -> Sessions \cup {NULL}]
         /\ streamingSessionCount' = streamingSessionCount - 1
         /\ streamingSessionCount' \in 0..MaxSessions
         /\ Listed' = Listed \ {s} /\ Distinct'
         /\ \A t : Key(t)' = Key(t)
         /\ UNCHANGED <<readLock, live, peerId, terminateFlag, sigPc, sigSession,
                        sinkPc, sinkIndex, sinkSession, negotiated, failedOffers>>
<1>1. /\ pollPc = "scan" /\ readLock = NULL /\ pollIndex < streamingSessionCount
      /\ streamingSessionCount' = streamingSessionCount - 1
      /\ streamingSessionList' = SwapWithLast(pollIndex)
      /\ pollSession' = s /\ s \in terminateFlag
      /\ UNCHANGED <<readLock, live, peerId, terminateFlag, sigPc, sigSession,
                     sinkPc, sinkIndex, sinkSession, negotiated, failedOffers>>
  BY DEF TakeOffList, Terminated, ReadLockFree, sigVars, sinkVars, auxVars
<1>2. pollIndex \in Used /\ Distinct
  BY <1>1 DEF Inv, TypeOK, Used, ListedOnceAndLive, Distinct
<1>3. /\ streamingSessionList' \in [Slots -> Sessions \cup {NULL}]
      /\ streamingSessionCount' \in 0..MaxSessions
      /\ Listed' = Listed \ {s} /\ Distinct'
  BY <1>1, <1>2, ListAfterSwap DEF Inv
<1>4. \A t : Key(t)' = Key(t)
  BY <1>1 DEF Key
<1>5. s \in Listed \cap Sessions
  BY <1>1, <1>2 DEF Listed, Inv, TypeOK
<1>6. Key(s) \in Hashes
  BY <1>5 DEF Inv, TypeOK, Key, Hashes
<1>7. sigPc = "idle" /\ sinkPc = "idle"
  BY <1>1, NoOwnerAssumption DEF Inv, Locks
<1> QED
  BY <1>1, <1>2, <1>3, <1>4, <1>5, <1>6, <1>7

LEMMA UnlistInv ==
  ASSUME Inv, MsgQInv', PollUnlist
  PROVE  Inv'
<1> USE NoOwnerAssumption
<1> DEFINE s == streamingSessionList[pollIndex]
<1>0. MsgQTypeOK' /\ TakeOffList
  BY DEF MsgQInv, PollUnlist
<1>1. /\ pollPc' = "free" /\ configLock' = configLock
      /\ rtcPeerConnections' = [rtcPeerConnections EXCEPT ![Key(s)] = NULL]
      /\ shutdownMediaSource' = (shutdownMediaSource \/ streamingSessionCount' = 0)
      /\ pollIndex' = IF streamingSessionCount' > 0 THEN pollIndex ELSE pollIndex + 1
  BY DEF PollUnlist, RouteRemoved
<1>2. /\ pollPc = "scan" /\ sigPc = "idle" /\ sinkPc = "idle"
      /\ pollIndex < streamingSessionCount
      /\ s \in Listed \cap Sessions /\ Key(s) \in Hashes /\ pollSession' = s
      /\ streamingSessionList' \in [Slots -> Sessions \cup {NULL}]
      /\ streamingSessionCount' \in 0..MaxSessions
      /\ Listed' = Listed \ {s} /\ Distinct' /\ \A t : Key(t)' = Key(t)
      /\ UNCHANGED <<readLock, live, peerId, terminateFlag, sigPc, sigSession,
                     sinkPc, sinkIndex, sinkSession, negotiated, failedOffers>>
  BY <1>0, TakeOffFacts
<1>8. pollIndex' \in 0..MaxSessions
  BY <1>1, <1>2, MaxSessionsAssumption DEF Inv, TypeOK
<1>9. TypeOK'
  BY <1>0, <1>1, <1>2, <1>8 DEF Inv, TypeOK
<1>10. Locks' /\ Holds' /\ SinkWritesToLiveSession'
  BY <1>1, <1>2 DEF Inv, Locks, Holds, SinkWritesToLiveSession
<1>11. FreshRound'
  BY <1>1, <1>2 DEF Inv, TypeOK, FreshRound, MediaStopsOnlyWhenIdle
<1>12. NoSessionLeak' /\ Forgotten = {} /\ Forgotten' = {}
  BY <1>1, <1>2 DEF Inv, NoSessionLeak, HeldSessions, Forgotten
<1>13. ListedOnceAndLive'
  BY <1>2, <1>12 DEF ListedOnceAndLive, Distinct, NoSessionLeak
<1>14. RouteIsListed'
  BY <1>1, <1>2, <1>12 DEF Inv, TypeOK, RouteIsListed
<1>15. RoutedOrPending'
  <2> SUFFICES ASSUME NEW t \in Listed \ {s}, Key(t) \notin failedOffers
               PROVE  rtcPeerConnections'[Key(t)] = t
    BY <1>1, <1>2 DEF RoutedOrPending
  <2>1. rtcPeerConnections[Key(t)] = t
    BY <1>2 DEF Inv, RoutedOrPending
  <2>2. Key(s) # Key(t)
    BY <1>2, <2>1 DEF Inv, RoutedOrPending
  <2> QED
    BY <1>1, <2>1, <2>2 DEF Inv, TypeOK
<1> QED
  BY <1>9, <1>10, <1>11, <1>12, <1>13, <1>14, <1>15 DEF Inv

\* The failing removal: the session is forgotten, with its route, if the route was
\* its own.
LEMMA UnlistFailsInv ==
  ASSUME Inv, MsgQInv', PollUnlistFails
  PROVE  Inv'
<1> USE NoOwnerAssumption
<1> DEFINE s == streamingSessionList[pollIndex]
<1>0. MsgQTypeOK' /\ TakeOffList
  BY DEF MsgQInv, PollUnlistFails
<1>1. /\ pollPc' = "failed" /\ configLock' = NULL /\ pollIndex' = 0
      /\ UNCHANGED <<rtcPeerConnections, shutdownMediaSource>>
  BY DEF PollUnlistFails
<1>2. /\ pollPc = "scan" /\ sigPc = "idle" /\ sinkPc = "idle"
      /\ s \in Listed \cap Sessions /\ pollSession' = s
      /\ streamingSessionList' \in [Slots -> Sessions \cup {NULL}]
      /\ streamingSessionCount' \in 0..MaxSessions
      /\ Listed' = Listed \ {s} /\ Distinct' /\ \A t : Key(t)' = Key(t)
      /\ UNCHANGED <<readLock, live, peerId, terminateFlag, sigPc, sigSession,
                     sinkPc, sinkIndex, sinkSession, negotiated, failedOffers>>
  BY <1>0, TakeOffFacts
<1>3. TypeOK'
  BY <1>0, <1>1, <1>2, MaxSessionsAssumption DEF Inv, TypeOK
<1>4. Locks' /\ Holds' /\ SinkWritesToLiveSession' /\ FreshRound'
  BY <1>1, <1>2 DEF Inv, Locks, Holds, SinkWritesToLiveSession, FreshRound,
     MediaStopsOnlyWhenIdle
<1>5. NoSessionLeak' /\ Forgotten = {} /\ Forgotten' = {s}
  BY <1>1, <1>2 DEF Inv, NoSessionLeak, HeldSessions, Forgotten
<1>6. ListedOnceAndLive'
  BY <1>2, <1>5 DEF ListedOnceAndLive, Distinct, NoSessionLeak
<1>7. RouteIsListed' /\ RoutedOrPending'
  BY <1>1, <1>2, <1>5 DEF Inv, RouteIsListed, RoutedOrPending
<1> QED
  BY <1>3, <1>4, <1>5, <1>6, <1>7 DEF Inv

LEMMA FreeInv ==
  ASSUME Inv, MsgQInv', PollFree
  PROVE  Inv'
<1> USE NoOwnerAssumption
<1>0. MsgQTypeOK'
  BY DEF MsgQInv
<1>1. /\ pollPc = "free" /\ pollPc' = "scan" /\ pollSession' = NULL
      /\ live' = live \ {pollSession} /\ terminateFlag' = terminateFlag \ {pollSession}
      /\ negotiated' = negotiated \ {pollSession}
      /\ UNCHANGED <<configLock, readLock, registryVars, peerId, sigPc, sigSession,
                     pollIndex, shutdownMediaSource, sinkPc, sinkIndex, sinkSession,
                     failedOffers>>
  BY DEF PollFree, FreeStreamingSession, sigVars, sinkVars
<1>2. Listed' = Listed /\ Used' = Used /\ (\A t : Key(t)' = Key(t)) /\ RouteIsListed'
      /\ Forgotten = {} /\ Forgotten' = {}
  BY <1>1, SameRegistry DEF Inv, Forgotten
<1>3. pollSession \notin Listed /\ sigPc = "idle"
  BY <1>1 DEF Inv, Holds, Locks
<1>4. TypeOK'
  BY <1>0, <1>1 DEF Inv, TypeOK, registryVars
<1>5. Locks' /\ FreshRound'
  BY <1>1 DEF Inv, Locks, FreshRound, MediaStopsOnlyWhenIdle, registryVars
<1>6. Holds' /\ SinkWritesToLiveSession' /\ RoutedOrPending'
  BY <1>1, <1>2, <1>3 DEF Inv, Holds, SinkWritesToLiveSession, RoutedOrPending, registryVars
<1>7. NoSessionLeak'
  BY <1>1, <1>2, <1>3 DEF Inv, NoSessionLeak, HeldSessions
<1>8. ListedOnceAndLive'
  BY <1>1, <1>2, <1>7 DEF Inv, ListedOnceAndLive, NoSessionLeak, registryVars
<1> QED
  BY <1>2, <1>4, <1>5, <1>6, <1>7, <1>8 DEF Inv

LEMMA NextInv == Inv /\ [Next]_vars => Inv'
<1> SUFFICES ASSUME Inv, [Next]_vars PROVE Inv'
  OBVIOUS
<1>0. MsgQInv'
  BY QueueInv
<1>1. ASSUME NEW p \in Peers, RecvCandidate(p) \/ RefuseOffer(p) PROVE Inv'
  BY <1>0, <1>1, OnlyQueuesInv DEF RecvCandidate, RefuseOffer
<1>2. CASE QueueExpires \/ UNCHANGED vars
  BY <1>0, <1>2, OnlyQueuesInv DEF QueueExpires, vars
<1>3. ASSUME NEW p \in Peers, CreateStreamingSession(p) PROVE Inv'
  BY <1>0, <1>3, CreateInv
<1>4. CASE SigNext
  BY <1>0, <1>1, <1>3, <1>4, AppendInv, SigStepInv, IndexInv DEF SigNext
<1>5. CASE PollNext
  BY <1>0, <1>5, UnlistInv, UnlistFailsInv, FreeInv, PollStepInv DEF PollNext
<1>6. CASE SinkNext
  BY <1>0, <1>6, SinkStepInv
<1>7. ASSUME NEW s \in Sessions, ConnectionLost(s) PROVE Inv'
  BY <1>0, <1>7, CallbackStepInv
<1> QED
  BY <1>2, <1>4, <1>5, <1>6, <1>7 DEF Next

LEMMA SpecInv == Spec => []Inv
  BY InitInv, NextInv, PTL DEF Spec

-----------------------------------------------------------------------------
(* The theorems.                                                             *)

\* The variables of the sessions keep their types: no index leaves the array,
\* whatever the threads interleave.
THEOREM TypeCorrect == Spec => []TypeOK
<1>1. Inv => TypeOK
  BY DEF Inv
<1> QED
  BY <1>1, SpecInv, PTL

\* The swap that removes a session from the array neither doubles nor loses one.
THEOREM ListedOnce == Spec => []ListedOnceAndLive
<1>1. Inv => ListedOnceAndLive
  BY DEF Inv
<1> QED
  BY <1>1, SpecInv, PTL

\* The hash table routes only to listed sessions of the right client hash, or to the
\* one pollApp forgot when the hash table failed it, which is still allocated.
THEOREM RoutesAreListed == Spec => []RouteIsListed
<1>1. Inv => RouteIsListed
  BY DEF Inv
<1> QED
  BY <1>1, SpecInv, PTL

\* Every allocated session is listed, in a thread's hands, or the one that pollApp
\* was removing when the hash table failed and that pollApp returned without freeing.
THEOREM SessionsAreAccountedFor == Spec => []NoSessionLeak
<1>1. Inv => NoSessionLeak
  BY DEF Inv
<1> QED
  BY <1>1, SpecInv, PTL

\* The media thread, which holds only the read lock, writes to no freed session.
THEOREM SinkIsSafe == Spec => []SinkWritesToLiveSession
<1>1. Inv => SinkWritesToLiveSession
  BY DEF Inv
<1> QED
  BY <1>1, SpecInv, PTL

\* The media source is shut down only when the last session has gone.
THEOREM MediaStopsIdle == Spec => []MediaStopsOnlyWhenIdle
<1>1. Inv => MediaStopsOnlyWhenIdle
  BY DEF Inv, FreshRound
<1> QED
  BY <1>1, SpecInv, PTL

\* A session whose offer was handled keeps its client's candidates, as long as
\* no offer of that hash value fails half-way.
THEOREM NegotiatedStaysRouted == Spec => []RoutedUnlessOfferFailed
<1>1. Inv => RoutedUnlessOfferFailed
  BY DEF Inv, RoutedOrPending, Holds, RoutedUnlessOfferFailed
<1> QED
  BY <1>1, SpecInv, PTL

\* Only an offer that fails half-way makes room for a second session of a client.
THEOREM OneSessionEach == Spec => []OneSessionPerPeerUnlessOfferFailed
<1>1. ASSUME Inv, NEW a \in Listed, NEW b \in Listed, a # b, Key(a) = Key(b)
      PROVE  Key(a) \in failedOffers
  <2>1. NULL \notin Listed
    BY <1>1, SessionsAssumption DEF Inv, TypeOK, ListedOnceAndLive
  <2> QED
    BY <1>1, <2>1 DEF Inv, RoutedOrPending, Holds
<1>2. ASSUME Inv, NEW i \in Used, NEW j \in Used, i # j,
             Key(streamingSessionList[i]) = Key(streamingSessionList[j])
      PROVE  Key(streamingSessionList[i]) \in failedOffers
  <2>1. /\ streamingSessionList[i] \in Listed /\ streamingSessionList[j] \in Listed
        /\ streamingSessionList[i] # streamingSessionList[j]
    BY <1>2 DEF Inv, ListedOnceAndLive, Listed
  <2> QED
    BY <1>1, <1>2, <2>1
<1>3. Inv => OneSessionPerPeerUnlessOfferFailed
  BY <1>2 DEF OneSessionPerPeerUnlessOfferFailed
<1> QED
  BY <1>3, SpecInv, PTL

\* A step either leaves the routes and the negotiated sessions alone, or takes
\* some away, or gives the route of an offer that nobody waits for any more.
LEMMA StrandedStep ==
  ASSUME Inv, NoStrandedCandidate, [Next]_vars
  PROVE  NoStrandedCandidate'
<1> DEFINE Stranded(p) == /\ rtcPeerConnections[HashOf[p]] # NULL
                          /\ rtcPeerConnections[HashOf[p]] \in negotiated
<1>0. MsgQInv /\ MsgQInv' /\ MsgQTypeOK /\ MsgQTypeOK' /\ TypeOK
  BY QueueInv DEF Inv, MsgQInv
<1>1. \A p \in Waiting : ~Stranded(p)
  BY DEF NoStrandedCandidate, Waiting
<1>2. SUFFICES \A p \in Waiting' : ~Stranded(p)'
  <2>1. ASSUME NEW q \in Registered' \cap allocated', NEW i \in DOMAIN messages'[q]
        PROVE  messages'[q][i] \in Waiting'
    <3>1. q \in QueueBlocks
      BY <1>0, <2>1 DEF MsgQTypeOK
    <3>2. messages'[q] \in Seq(Peers)
      BY <1>0, <3>1 DEF MsgQTypeOK
    <3>3. messages'[q][i] \in Peers
      BY <2>1, <3>2
    <3> QED
      BY <2>1, <3>3 DEF Waiting
  <2> QED
    BY <1>2, <2>1 DEF NoStrandedCandidate
<1>3. ASSUME NEW p \in Peers, RecvCandidate(p)
      PROVE  \A r \in Waiting' : ~Stranded(r)'
  <2>1. Waiting' \subseteq Waiting \cup {p}
    BY <1>0, <1>3, WaitingAfterCandidate DEF RecvCandidate
  <2>2. ~Stranded(p) /\ UNCHANGED <<rtcPeerConnections, negotiated>>
    BY <1>3 DEF RecvCandidate, PeerConnectionFound, registryVars, auxVars
  <2> QED
    BY <1>1, <2>1, <2>2
<1>4. CASE IndexSession
  <2>1. peerId[sigSession] \in Peers
    BY <1>0, <1>4 DEF IndexSession, Inv, Holds, TypeOK
  <2> QED
    BY <1>0, <1>4, <2>1, NobodyWaitsAfterOffer DEF IndexSession
<1>5. ASSUME Waiting' \subseteq Waiting, negotiated' \subseteq negotiated,
             \A h \in Hashes : rtcPeerConnections'[h] \in {rtcPeerConnections[h], NULL}
      PROVE  \A r \in Waiting' : ~Stranded(r)'
  <2>1. \A p \in Waiting : p \in Peers /\ HashOf[p] \in Hashes
    BY DEF Waiting, Hashes
  <2> QED
    BY <1>1, <1>5, <2>1
<1>6. ASSUME \/ \E p \in Peers : RefuseOffer(p)
             \/ PollSweep \/ QueueExpires
      PROVE  \A r \in Waiting' : ~Stranded(r)'
  <2>1. Waiting' \subseteq Waiting
    BY <1>0, <1>6, WaitingShrinks DEF RefuseOffer, PollSweep, QueueExpires
  <2>2. UNCHANGED <<rtcPeerConnections, negotiated>>
    BY <1>6 DEF RefuseOffer, PollSweep, QueueExpires, registryVars, auxVars
  <2> QED
    BY <1>5, <2>1, <2>2
<1>7. ASSUME UNCHANGED msgQVars, negotiated' \subseteq negotiated,
             UNCHANGED rtcPeerConnections
      PROVE  \A r \in Waiting' : ~Stranded(r)'
  BY <1>5, <1>7, WaitingUnchanged DEF msgQVars
<1>8. ASSUME NEW p \in Peers, CreateStreamingSession(p)
      PROVE  \A r \in Waiting' : ~Stranded(r)'
  BY <1>7, <1>8 DEF CreateStreamingSession, registryVars
<1>9. CASE AppendSession \/ HandleOffer \/ AbandonOffer
  BY <1>7, <1>9 DEF AppendSession, HandleOffer, AbandonOffer, registryVars, auxVars
<1>10. CASE PollUnlist
  <2>1. PICK s : rtcPeerConnections' = RouteRemoved(s)
    BY <1>10 DEF PollUnlist
  <2>2. \A h \in Hashes : rtcPeerConnections'[h] \in {rtcPeerConnections[h], NULL}
    BY <1>0, <2>1 DEF RouteRemoved, TypeOK
  <2>3. Waiting' = Waiting /\ negotiated' = negotiated
    BY <1>10, WaitingUnchanged DEF PollUnlist, TakeOffList, msgQVars, auxVars
  <2> QED
    BY <1>5, <2>2, <2>3
<1>11. CASE PollLock \/ PollSkip \/ PollUnlistFails \/ PollFree \/ PollJoined \/ PollExit
  BY <1>7, <1>11 DEF PollLock, PollSkip, PollUnlistFails, TakeOffList, PollFree,
     FreeStreamingSession, PollJoined, PollExit, registryVars, auxVars
<1>12. CASE SinkNext
  BY <1>7, <1>12 DEF SinkNext, SinkLock, SinkPick, SinkWrite, SinkUnlock, registryVars, auxVars
<1>13. ASSUME NEW s \in Sessions, ConnectionLost(s)
       PROVE  \A r \in Waiting' : ~Stranded(r)'
  BY <1>7, <1>13 DEF ConnectionLost, registryVars, auxVars
<1>14. CASE UNCHANGED vars
  BY <1>7, <1>14 DEF vars, registryVars, auxVars
<1> QED
  BY <1>3, <1>4, <1>6, <1>8, <1>9, <1>10, <1>11, <1>12, <1>13, <1>14
     DEF Next, SigNext, PollNext

\* No candidate is left behind in a queue once its client's session is indexed,
\* with any number of clients: there is one queue, and every accepted offer
\* empties it.
THEOREM NoneStranded == Spec => []NoStrandedCandidate
<1>1. Init => NoStrandedCandidate
  BY DEF Init, MsgQInit, Registered, NoStrandedCandidate
<1>2. Inv /\ NoStrandedCandidate /\ [Next]_vars => NoStrandedCandidate'
  BY StrandedStep
<1> QED
  BY <1>1, <1>2, SpecInv, PTL DEF Spec

\* The sessions use the pending queues as PendingMsgQ describes, so that what is
\* proved of MsgQSpec holds here too.
THEOREM SessionsUseTheQueues == Spec => MsgQSpec
<1>1. Init => MsgQInit
  BY DEF Init
<1>2. Inv /\ [Next]_vars => [MsgQNext]_msgQVars
  BY QueueStep DEF Inv
<1> QED
  BY <1>1, <1>2, SpecInv, PTL DEF Spec, MsgQSpec

-----------------------------------------------------------------------------
(* The implementation of SessionRegistry.                                    *)

\* The count of the array bounds the number of listed sessions.
LEMMA ListedAreCounted ==
  ASSUME TypeOK
  PROVE  Cardinality(Listed) \in Nat /\ Cardinality(Listed) <= streamingSessionCount
<1> DEFINE n == streamingSessionCount
<1>1. n \in Nat /\ Used = 0..(n - 1)
  BY DEF TypeOK, Used
<1>2. IsFiniteSet(Used) /\ Cardinality(Used) = n
  <2>1. IsFiniteSet(0..(n - 1)) /\ Cardinality(0..(n - 1)) = IF 0 > n - 1 THEN 0 ELSE n - 1 - 0 + 1
    BY <1>1, FS_Interval
  <2> QED
    BY <1>1, <2>1
<1> DEFINE f == [i \in Used |-> streamingSessionList[i]]
<1>3. f \in Surjection(Used, Listed)
  BY DEF Surjection, Listed
<1> QED
  BY <1>2, <1>3, FS_Surjection, FS_CardinalityType

\* The array, its locks and its threads implement the set of sessions with at
\* most one route per client hash that SessionRegistry specifies.
THEOREM ImplementsRegistry == Spec => RegistrySpec
<1> USE DEF Registry!vars
<1>1. Init => Registry!Init
  <2> SUFFICES ASSUME Init PROVE Registry!Init
    OBVIOUS
  <2>1. Listed = {}
    BY DEF Init, Listed, Used
  <2>2. peerId \in [Sessions -> Peers]
    BY PeersAssumption DEF Init
  <2> QED
    BY <2>1, <2>2 DEF Init, Registry!Init, Registry!Hashes, Hashes
<1>2. ASSUME Inv, Inv', Next PROVE Registry!Next \/ UNCHANGED Registry!vars
  <2>1. ASSUME NEW p \in Peers, CreateStreamingSession(p) PROVE Registry!Next
    <3>1. PICK s \in Sessions \ live :
            /\ peerId' = [peerId EXCEPT ![s] = p] /\ terminateFlag' = terminateFlag \ {s}
            /\ pollPc' = pollPc
      BY <2>1 DEF CreateStreamingSession, pollVars
    <3>2. Listed' = Listed /\ rtcPeerConnections' = rtcPeerConnections /\ s \notin Listed
      BY <1>2, <2>1 DEF CreateStreamingSession, registryVars, Listed, Used, Inv, ListedOnceAndLive
    <3> QED
      BY <3>1, <3>2 DEF Registry!Next, Registry!Assign
  <2>2. CASE AppendSession
    <3>1. /\ sigSession \in Sessions \ Listed /\ SlotFree /\ Distinct
          /\ rtcPeerConnections[Key(sigSession)] = NULL
      BY <1>2, <2>2 DEF AppendSession, Inv, Holds, SlotFree, ListedOnceAndLive, Distinct
    <3>2. Listed' = Listed \cup {sigSession}
      BY <1>2, <2>2, <3>1, ListAfterAppend DEF AppendSession, Inv
    <3>3. Cardinality(Listed) < MaxSessions
      <4>1. Cardinality(Listed) <= streamingSessionCount /\ Cardinality(Listed) \in Nat
        BY <1>2, ListedAreCounted DEF Inv
      <4> QED
        BY <1>2, <3>1, <4>1, MaxSessionsAssumption DEF Inv, TypeOK, SlotFree
    <3>4. UNCHANGED <<rtcPeerConnections, terminateFlag, peerId, pollPc>>
      BY <2>2 DEF AppendSession, pollVars
    <3>5. Registry!Cardinality(Listed) = Cardinality(Listed)
      BY DEF Cardinality, Registry!Cardinality
    <3>6. Registry!Accept(sigSession)
      BY <3>1, <3>2, <3>3, <3>4, <3>5 DEF Key, Registry!Accept
    <3> QED
      BY <3>1, <3>6 DEF Registry!Next
  <2>3. CASE IndexSession
    <3>1. sigSession \in Sessions \cap Listed /\ rtcPeerConnections[Key(sigSession)] = NULL
      BY <1>2, <2>3 DEF IndexSession, Inv, Holds
    <3>2. Listed' = Listed
      BY <2>3 DEF IndexSession, Listed, Used
    <3> QED
      BY <2>3, <3>1, <3>2 DEF IndexSession, pollVars, Key, Registry!Next, Registry!Route
  <2>4. ASSUME NEW s \in Sessions, ConnectionLost(s) PROVE Registry!Next
    BY <2>4, SameRegistry DEF ConnectionLost, registryVars, pollVars, Registry!Next, Registry!Lose
  <2>5. CASE PollUnlist \/ PollUnlistFails
    <3> DEFINE s == streamingSessionList[pollIndex]
    <3>0. TakeOffList
      BY <2>5 DEF PollUnlist, PollUnlistFails
    <3>1. /\ s \in Listed \cap Sessions /\ s \in terminateFlag /\ pollPc = "scan"
          /\ Listed' = Listed \ {s} /\ UNCHANGED <<terminateFlag, peerId>>
      BY <1>2, <3>0, TakeOffFacts
    <3>2. CASE PollUnlist
      <4>1. rtcPeerConnections' = RouteRemoved(s) /\ pollPc' = "free"
        BY <3>2 DEF PollUnlist
      <4> QED
        BY <3>1, <4>1 DEF RouteRemoved, Key, Registry!Next, Registry!Retire
    <3>3. CASE PollUnlistFails
      <4>1. rtcPeerConnections' = rtcPeerConnections /\ pollPc' = "failed"
        BY <3>3 DEF PollUnlistFails
      <4> QED
        BY <3>1, <4>1 DEF Registry!Next, Registry!RetireFails
    <3> QED
      BY <2>5, <3>2, <3>3
  <2>6. CASE PollFree
    <3>1. pollSession \in Sessions \ Listed
      BY <1>2, <2>6 DEF PollFree, Inv, Holds
    <3> QED
      BY <2>6, <3>1, SameRegistry
         DEF PollFree, FreeStreamingSession, registryVars, Registry!Next, Registry!Forget
  <2>7. CASE UNCHANGED <<registryVars, terminateFlag, peerId>> /\ (pollPc' = "failed") = (pollPc = "failed")
    BY <2>7, SameRegistry DEF registryVars
  <2>8. ASSUME NEW p \in Peers, RecvCandidate(p) \/ RefuseOffer(p)
        PROVE  UNCHANGED <<registryVars, terminateFlag, peerId, pollPc>>
    BY <2>8 DEF RecvCandidate, RefuseOffer, pollVars
  <2>9. CASE SigNext
    BY <2>1, <2>2, <2>3, <2>7, <2>8, <2>9 DEF SigNext, HandleOffer, AbandonOffer, pollVars
  <2>10. CASE PollNext
    BY <2>5, <2>6, <2>7, <2>10 DEF PollNext, PollLock, PollSkip, PollSweep, PollJoined, PollExit
  <2>11. CASE SinkNext
    BY <2>7, <2>11 DEF SinkNext, SinkLock, SinkPick, SinkWrite, SinkUnlock, pollVars
  <2> QED
    BY <1>2, <2>4, <2>7, <2>9, <2>10, <2>11 DEF Next, QueueExpires, pollVars
<1>3. UNCHANGED vars => UNCHANGED Registry!vars
  BY DEF vars, registryVars, pollVars, Listed, Used
<1>4. Inv /\ Inv' /\ [Next]_vars => [Registry!Next]_(Registry!vars)
  BY <1>2, <1>3
<1> QED
  BY <1>1, <1>4, SpecInv, PTL DEF Spec, RegistrySpec, Registry!Spec

-----------------------------------------------------------------------------
(* The contract with the media control thread.                               *)

\* The swap at the scan's index takes the removed session, and no other, out of
\* what is still to be looked at: the last entry comes to stand at the index and
\* not behind it.
LEMMA AheadAfterSwap ==
  ASSUME TypeOK, Distinct, pollIndex \in Used,
         streamingSessionList' = SwapWithLast(pollIndex),
         streamingSessionCount' = streamingSessionCount - 1,
         pollIndex' = IF streamingSessionCount - 1 > 0 THEN pollIndex ELSE pollIndex + 1
  PROVE  Ahead' = Ahead \ {streamingSessionList[pollIndex]}
<1> DEFINE last == streamingSessionCount - 1
           s == streamingSessionList[pollIndex]
<1>1. /\ streamingSessionCount \in Nat /\ last \in Nat
      /\ Used = 0..last /\ Used' = 0..(last - 1) /\ Used \subseteq Slots
      /\ pollIndex \in 0..last
      /\ streamingSessionList \in [Slots -> Sessions \cup {NULL}]
  BY MaxSessionsAssumption DEF TypeOK, Used, Slots
<1>2. CASE last = 0
  <2>1. Used = {pollIndex} /\ Used' = {}
    BY <1>1, <1>2
  <2>2. Ahead' = {} /\ Ahead \subseteq {s}
    BY <2>1 DEF Ahead
  <2> QED
    BY <2>2
<1>3. CASE last > 0
  <2>1. /\ pollIndex' = pollIndex
        /\ streamingSessionList' = [streamingSessionList EXCEPT ![pollIndex] = streamingSessionList[last]]
    BY <1>3 DEF SwapWithLast
  <2>2. ASSUME NEW j \in Used', j >= pollIndex
        PROVE  streamingSessionList'[j] \in Ahead \ {s}
    <3> DEFINE k == IF j = pollIndex THEN last ELSE j
    <3>1. k \in Used /\ k >= pollIndex /\ k # pollIndex
      BY <1>1, <2>2
    <3>2. streamingSessionList'[j] = streamingSessionList[k]
      BY <1>1, <2>1, <2>2
    <3>3. streamingSessionList[k] # s
      BY <1>1, <3>1 DEF Distinct
    <3> QED
      BY <3>1, <3>2, <3>3 DEF Ahead
  <2>3. ASSUME NEW j \in Used, j >= pollIndex, streamingSessionList[j] # s
        PROVE  streamingSessionList[j] \in Ahead'
    <3> DEFINE k == IF j = last THEN pollIndex ELSE j
    <3>1. j # pollIndex
      BY <2>3
    <3>2. k \in Used' /\ k >= pollIndex
      BY <1>1, <2>3, <3>1
    <3>3. streamingSessionList'[k] = streamingSessionList[j]
      BY <1>1, <2>1, <2>3, <3>1
    <3> QED
      BY <2>1, <3>2, <3>3 DEF Ahead
  <2>4. Ahead' \subseteq Ahead \ {s}
    BY <2>1, <2>2 DEF Ahead
  <2>5. Ahead \ {s} \subseteq Ahead'
    BY <2>3 DEF Ahead
  <2> QED
    BY <2>4, <2>5
<1>4. last = 0 \/ last > 0
  BY <1>1
<1> QED
  BY <1>2, <1>3, <1>4

\* What the phase is, place by place, and that nothing is due to the scan once it
\* is over.
PhaseFacts ==
  /\ Phase = "round" <=> pollPc \in {"scan", "free"}
  /\ Phase = "open" <=> pollPc = "top"
  /\ Phase = "join" <=> pollPc = "join"
  /\ Phase = "over" <=> pollPc \in {"exited", "failed"}
  /\ Phase \in {"round", "open", "join", "over"}
  /\ Due = IF Phase = "round" THEN Ahead \cap terminateFlag ELSE {}
  /\ Ahead \subseteq Listed
  /\ pollIndex >= streamingSessionCount => Ahead = {}

LEMMA PhaseIs == TypeOK => PhaseFacts
<1> SUFFICES ASSUME TypeOK PROVE PhaseFacts
  OBVIOUS
<1>1. pollIndex >= streamingSessionCount => Ahead = {}
  BY DEF TypeOK, Ahead, Used
<1>2. Ahead \subseteq Listed
  BY DEF Ahead, Listed
<1> QED
  BY <1>1, <1>2 DEF PhaseFacts, Phase, InRound, Due, TypeOK

LEMMA PhaseIsNext == TypeOK' => PhaseFacts'
<1> SUFFICES ASSUME TypeOK' PROVE PhaseFacts'
  OBVIOUS
<1>1. pollIndex' >= streamingSessionCount' => Ahead' = {}
  <2>1. pollIndex' \in Int /\ streamingSessionCount' \in Int
    BY DEF TypeOK
  <2>2. \A n, i \in Int : i >= n => \A j \in 0..(n - 1) : ~(j >= i)
    OBVIOUS
  <2> QED
    BY <2>1, <2>2 DEF Ahead, Used
<1>2. Ahead' \subseteq Listed'
  BY DEF Ahead, Listed
<1> QED
  BY <1>1, <1>2 DEF PhaseFacts, Phase, InRound, Due, TypeOK

\* A step that leaves alone everything the contract speaks of.
LEMMA SameRounds ==
  ASSUME PhaseFacts, PhaseFacts', Phase' = Phase,
         UNCHANGED <<streamingSessionList, streamingSessionCount, pollIndex, terminateFlag,
                     shutdownMediaSource>>
  PROVE  UNCHANGED Rounds!vars
<1>1. Listed' = Listed /\ Ahead' = Ahead
  BY DEF Listed, Ahead, Used
<1> QED
  BY <1>1 DEF PhaseFacts, Rounds!vars

\* The steps of the scan.
LEMMA ScanKeepsRounds ==
  ASSUME Inv, Inv', PhaseFacts, PhaseFacts', PollSkip \/ PollUnlist \/ PollFree
  PROVE  [Rounds!Next]_(Rounds!vars)
<1>1. Phase = "round" /\ Phase' = "round"
  BY DEF PollSkip, PollUnlist, TakeOffList, PollFree, pollVars, registryVars, PhaseFacts
<1>2. CASE PollSkip
  <2> DEFINE s == streamingSessionList[pollIndex]
  <2>1. pollIndex \in Nat /\ streamingSessionCount \in Nat /\ pollIndex' = pollIndex + 1
        /\ s \notin terminateFlag
        /\ UNCHANGED <<registryVars, terminateFlag, shutdownMediaSource>>
    BY <1>2 DEF PollSkip, Terminated, Inv, TypeOK
  <2>2. Used' = Used /\ Listed' = Listed
    BY <2>1 DEF Used, Listed, registryVars
  <2>3. \A j \in Used : j >= pollIndex <=> j = pollIndex \/ j >= pollIndex'
    BY <2>1 DEF Used
  <2>4. Ahead \ {s} \subseteq Ahead' /\ Ahead' \subseteq Ahead
    BY <2>1, <2>2, <2>3 DEF Ahead, registryVars
  <2>5. Due' = Due
    BY <1>1, <2>1, <2>4 DEF PhaseFacts
  <2> QED
    BY <1>1, <2>1, <2>2, <2>5 DEF Rounds!vars
<1>3. CASE PollUnlist
  <2> DEFINE s == streamingSessionList[pollIndex]
             last == streamingSessionCount - 1
  <2>0. TakeOffList
    BY <1>3 DEF PollUnlist
  <2>1. /\ pollIndex \in Used /\ Distinct /\ s \in terminateFlag
        /\ streamingSessionList' = SwapWithLast(pollIndex) /\ streamingSessionCount' = last
        /\ Listed' = Listed \ {s}
    BY <2>0, TakeOffFacts
  <2>2. s \in Ahead /\ s \in Listed
    BY <2>1 DEF Ahead, Listed, Used
  <2>3. Listed' = Listed \ {s}
    BY <2>1
  <2>4. Ahead' = Ahead \ {s}
    BY <1>3, <2>1, AheadAfterSwap DEF PollUnlist, Inv
  <2>5. Listed' = {} <=> last = 0
    <3>1. streamingSessionCount \in Nat /\ last \in Nat /\ Used' = 0..(last - 1)
      BY <2>1 DEF Inv, TypeOK, Used
    <3>2. last = 0 => Used' = {}
      BY <3>1
    <3>3. last # 0 => 0 \in Used'
      BY <3>1
    <3> QED
      BY <3>2, <3>3 DEF Listed
  <2>6. /\ shutdownMediaSource' = (shutdownMediaSource \/ last = 0)
        /\ terminateFlag' = terminateFlag
    BY <1>3, <2>1 DEF PollUnlist, TakeOffList
  <2>7. s \in Due /\ Due' = Due \ {s}
    BY <1>1, <2>1, <2>2, <2>4, <2>6 DEF PhaseFacts
  <2>8. shutdownMediaSource' = (shutdownMediaSource \/ Listed' = {})
    BY <2>5, <2>6
  <2>9. s \in Sessions
    BY <2>1, <2>2 DEF Inv, TypeOK
  <2> QED
    BY <1>1, <2>3, <2>6, <2>7, <2>8, <2>9 DEF Rounds!Remove, Rounds!Next
<1>4. CASE PollFree
  <2>1. pollSession \in Sessions \ Listed
    BY <1>4 DEF PollFree, Inv, Holds
  <2>2. Listed' = Listed /\ Ahead' = Ahead /\ shutdownMediaSource' = shutdownMediaSource
        /\ terminateFlag' = terminateFlag \ {pollSession}
    BY <1>4 DEF PollFree, FreeStreamingSession, registryVars, Listed, Ahead, Used
  <2>3. Due' = Due
    BY <1>1, <2>1, <2>2 DEF PhaseFacts
  <2> QED
    BY <1>1, <2>1, <2>2, <2>3 DEF Rounds!Forget, Rounds!Next
<1> QED
  BY <1>2, <1>3, <1>4

\* The removal that fails ends pollApp.
LEMMA FailureKeepsRounds ==
  ASSUME Inv, PhaseFacts, PhaseFacts', PollUnlistFails
  PROVE  Rounds!Next
<1> DEFINE s == streamingSessionList[pollIndex]
<1>0. TakeOffList
  BY DEF PollUnlistFails
<1>1. /\ pollIndex \in Used /\ s \in terminateFlag /\ s \in Sessions \cap Listed
      /\ Listed' = Listed \ {s} /\ terminateFlag' = terminateFlag /\ pollPc = "scan"
  BY <1>0, TakeOffFacts
<1>2. s \in Ahead
  BY <1>1 DEF Inv, TypeOK, Ahead, Used
<1>3. pollPc' = "failed" /\ shutdownMediaSource' = shutdownMediaSource
  BY DEF PollUnlistFails
<1>4. /\ Phase = "round" /\ Phase' = "over" /\ s \in Due /\ Due' = {}
  BY <1>1, <1>2, <1>3 DEF PhaseFacts
<1> QED
  BY <1>1, <1>3, <1>4 DEF Rounds!Break, Rounds!Next

\* The beginning and the end of a round.
LEMMA EdgesKeepRounds ==
  ASSUME Inv, Inv', PhaseFacts, PhaseFacts', PollLock \/ PollSweep \/ PollJoined \/ PollExit
  PROVE  [Rounds!Next]_(Rounds!vars)
<1>1. Listed' = Listed /\ terminateFlag' = terminateFlag
  BY DEF PollLock, PollSweep, PollJoined, PollExit, registryVars, Listed, Used
<1>2. CASE PollLock
  <2>1. Phase = "open" /\ Phase' = "round" /\ pollIndex' = 0
        /\ shutdownMediaSource' = shutdownMediaSource
    BY <1>2 DEF PollLock, PhaseFacts
  <2>2. Ahead' = Listed'
    <3>1. streamingSessionCount' \in Int
      BY DEF Inv, TypeOK
    <3>2. \A j \in Used' : j >= pollIndex'
      BY <2>1, <3>1 DEF Used
    <3> QED
      BY <3>2 DEF Ahead, Listed
  <2> QED
    BY <1>1, <2>1, <2>2 DEF PhaseFacts, Rounds!BeginRound, Rounds!Next
<1>3. CASE PollSweep
  <2>1. Phase = "round" /\ Due = {} /\ Due' = {}
    BY <1>3 DEF PollSweep, PhaseFacts
  <2>2. shutdownMediaSource => Listed = {}
    BY <1>3 DEF PollSweep, Inv, FreshRound, MediaStopsOnlyWhenIdle, Listed, Used
  <2>3. \/ Phase' = "open" /\ shutdownMediaSource' = FALSE
        \/ /\ Phase' = "join" /\ shutdownMediaSource
           /\ UNCHANGED shutdownMediaSource
    BY <1>3 DEF PollSweep, PhaseFacts
  <2> QED
    BY <1>1, <2>1, <2>2, <2>3 DEF Rounds!EndRound, Rounds!Next
<1>4. CASE PollJoined
  <2>1. Phase = "join" /\ Phase' = "open" /\ Due = {} /\ Due' = {}
    BY <1>4 DEF PollJoined, PhaseFacts
  <2> QED
    BY <1>1, <1>4, <2>1 DEF PollJoined, Rounds!Joined, Rounds!Next
<1>5. CASE PollExit
  <2>1. Phase \in {"open", "round"} /\ Phase' = "over" /\ Due = {} /\ Due' = {}
        /\ shutdownMediaSource' = shutdownMediaSource
    BY <1>5 DEF PollExit, PhaseFacts
  <2> QED
    BY <1>1, <2>1 DEF Rounds!Leave, Rounds!Next
<1> QED
  BY <1>2, <1>3, <1>4, <1>5

\* The signaling thread and the callbacks.
LEMMA OthersKeepRounds ==
  ASSUME Inv, Inv', PhaseFacts, PhaseFacts',
         SigNext \/ \E s \in Sessions : ConnectionLost(s)
  PROVE  [Rounds!Next]_(Rounds!vars)
<1> USE DEF pollVars, registryVars
<1>1. UNCHANGED <<pollPc, pollIndex, shutdownMediaSource>>
  BY DEF SigNext, RecvCandidate, RefuseOffer, CreateStreamingSession, AppendSession,
         HandleOffer, AbandonOffer, IndexSession, ConnectionLost
<1>2. Phase' = Phase
  BY <1>1 DEF PhaseFacts
<1>3. ASSUME NEW p \in Peers, CreateStreamingSession(p) PROVE [Rounds!Next]_(Rounds!vars)
  <2>1. PICK s \in Sessions \ live : terminateFlag' = terminateFlag \ {s}
    BY <1>3 DEF CreateStreamingSession
  <2>2. Listed' = Listed /\ s \notin Listed
    BY <1>3 DEF CreateStreamingSession, Listed, Used, Inv, ListedOnceAndLive
  <2>3. Phase # "round"
    BY <1>3, NoOwnerAssumption DEF CreateStreamingSession, PhaseFacts, Inv, Locks
  <2>4. Due' = Due
    BY <1>2, <2>3 DEF PhaseFacts
  <2> QED
    BY <1>1, <1>2, <2>1, <2>2, <2>4 DEF Rounds!Forget, Rounds!Next
<1>4. CASE AppendSession
  <2>1. sigSession \in Sessions \ Listed /\ SlotFree /\ Distinct
    BY <1>4 DEF AppendSession, Inv, Holds, SlotFree, ListedOnceAndLive, Distinct
  <2>2. Listed' = Listed \cup {sigSession}
    BY <1>4, <2>1, ListAfterAppend DEF AppendSession, Inv
  <2>3. Phase # "round"
    BY <1>4 DEF AppendSession, PhaseFacts, Inv, Locks
  <2>4. Due' = Due
    BY <1>2, <2>3 DEF PhaseFacts
  <2>5. terminateFlag' = terminateFlag
    BY <1>4 DEF AppendSession
  <2> QED
    BY <1>1, <1>2, <2>1, <2>2, <2>3, <2>4, <2>5 DEF Rounds!Add, Rounds!Next
<1>5. ASSUME NEW s \in Sessions, ConnectionLost(s) PROVE [Rounds!Next]_(Rounds!vars)
  <2>1. terminateFlag' = terminateFlag \cup {s} /\ Listed' = Listed /\ Ahead' = Ahead
    BY <1>1, <1>5 DEF ConnectionLost, Listed, Ahead, Used
  <2>2. CASE Phase = "round" /\ s \in Ahead
    <3>1. s \in Listed /\ Due' = Due \cup {s}
      BY <1>2, <2>1, <2>2 DEF PhaseFacts
    <3> QED
      BY <1>1, <1>2, <2>1, <2>2, <3>1 DEF Rounds!Lose, Rounds!Next
  <2>3. CASE ~(Phase = "round" /\ s \in Ahead)
    <3>1. Due' = Due
      BY <1>2, <2>1, <2>3 DEF PhaseFacts
    <3> QED
      BY <1>1, <1>2, <2>1, <3>1 DEF Rounds!Lose, Rounds!Next
  <2> QED
    BY <2>2, <2>3
<1>6. ASSUME UNCHANGED <<streamingSessionList, streamingSessionCount, terminateFlag>>
      PROVE  UNCHANGED Rounds!vars
  BY <1>1, <1>2, <1>6, SameRounds
<1>7. CASE HandleOffer \/ AbandonOffer \/ IndexSession
  BY <1>6, <1>7 DEF HandleOffer, AbandonOffer, IndexSession
<1>8. ASSUME NEW p \in Peers, RecvCandidate(p) \/ RefuseOffer(p) PROVE UNCHANGED Rounds!vars
  BY <1>6, <1>8 DEF RecvCandidate, RefuseOffer
<1> QED
  BY <1>3, <1>4, <1>5, <1>7, <1>8 DEF SigNext

\* The scan of the array keeps the contract of SessionRounds: a round misses no
\* session that was lost before it began, removes none that was not lost, and
\* leads to the join of the media thread only when it has removed the last.
THEOREM SessionsKeepTheContract == Spec => RoundsSpec
<1>1. Init => Rounds!Init
  BY DEF Init, Rounds!Init, Phase, Due, InRound, Listed, Used
<1>2. ASSUME Inv, Inv', [Next]_vars PROVE [Rounds!Next]_(Rounds!vars)
  <2>1. PhaseFacts /\ PhaseFacts'
    BY <1>2, PhaseIs, PhaseIsNext DEF Inv
  <2>2. ASSUME UNCHANGED <<registryVars, pollVars, terminateFlag>> PROVE UNCHANGED Rounds!vars
    <3>1. Phase' = Phase
      BY <2>1, <2>2 DEF PhaseFacts, pollVars
    <3> QED
      BY <2>1, <2>2, <3>1, SameRounds DEF registryVars, pollVars
  <2>3. CASE SigNext \/ \E s \in Sessions : ConnectionLost(s)
    BY <1>2, <2>1, <2>3, OthersKeepRounds
  <2>4. CASE PollNext
    BY <1>2, <2>1, <2>4, ScanKeepsRounds, FailureKeepsRounds, EdgesKeepRounds DEF PollNext
  <2>5. CASE SinkNext \/ QueueExpires
    BY <2>2, <2>5 DEF SinkNext, SinkLock, SinkPick, SinkWrite, SinkUnlock, QueueExpires
  <2>6. CASE UNCHANGED vars
    BY <2>2, <2>6 DEF vars
  <2> QED
    BY <1>2, <2>3, <2>4, <2>5, <2>6 DEF Next
<1>3. Inv /\ Inv' /\ [Next]_vars => [Rounds!Next]_(Rounds!vars)
  BY <1>2
<1> QED
  BY <1>1, <1>3, SpecInv, PTL DEF Spec, RoundsSpec, Rounds!Spec

\* The scan of a round comes to its end, whatever is lost during it.
THEOREM ScanEnds == Spec => ScanAdvances
<1>1. ASSUME Inv, [Next]_vars, pollPc = "scan", InRound',
             <<pollPc, pollIndex>>' # <<pollPc, pollIndex>>
      PROVE  /\ pollIndex < streamingSessionCount
             /\ streamingSessionCount' - pollIndex' < streamingSessionCount - pollIndex
  <2>1. pollIndex \in Nat /\ streamingSessionCount \in Nat
    BY <1>1 DEF Inv, TypeOK
  <2>2. CASE PollSkip
    BY <2>1, <2>2 DEF PollSkip, registryVars
  <2>3. CASE PollUnlist
    <3>1. /\ pollIndex < streamingSessionCount
          /\ streamingSessionCount' = streamingSessionCount - 1
          /\ pollIndex' = IF streamingSessionCount - 1 > 0 THEN pollIndex ELSE pollIndex + 1
      BY <2>3 DEF PollUnlist, TakeOffList
    <3> QED
      BY <2>1, <3>1
  <2>4. ~(PollLock \/ PollUnlistFails \/ PollFree \/ PollSweep \/ PollJoined \/ PollExit)
    BY <1>1 DEF InRound, PollLock, PollUnlistFails, PollFree, PollSweep, PollJoined, PollExit
  <2>5. ~SigNext
    BY <1>1 DEF SigNext, RecvCandidate, RefuseOffer, CreateStreamingSession, AppendSession,
       HandleOffer, AbandonOffer, IndexSession, pollVars
  <2>6. ~(SinkNext \/ QueueExpires \/ UNCHANGED vars)
    BY <1>1 DEF SinkNext, SinkLock, SinkPick, SinkWrite, SinkUnlock, QueueExpires, vars, pollVars
  <2>7. \A s \in Sessions : ~ConnectionLost(s)
    BY <1>1 DEF ConnectionLost, pollVars
  <2> QED
    BY <1>1, <2>2, <2>3, <2>4, <2>5, <2>6, <2>7 DEF Next, PollNext
<1>2. Inv /\ [Next]_vars =>
        [pollPc = "scan" /\ InRound' /\ <<pollPc, pollIndex>>' # <<pollPc, pollIndex>> =>
           /\ pollIndex < streamingSessionCount
           /\ streamingSessionCount' - pollIndex' < streamingSessionCount - pollIndex]_vars
  BY <1>1
<1> QED
  BY <1>2, SpecInv, PTL DEF Spec, ScanAdvances

\* In the whole application the pending queues are one box that all clients share.
THEOREM SessionsShareTheBox == Spec => BoxSpec
  BY SessionsUseTheQueues, ImplementsTheBox
=============================================================================

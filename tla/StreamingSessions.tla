------------------------- MODULE StreamingSessions --------------------------
(***************************************************************************)
(* The streaming sessions of AppCommon.c: the array streamingSessionList,  *)
(* the hash table pRemoteRtcPeerConnections that routes a client's         *)
(* candidates to its session, the pending queues of PendingMsgQ, and the   *)
(* two locks around them.  Three threads and the callbacks meet here:      *)
(*                                                                         *)
(*   sig   the signaling thread, in app_common_onSignalingMessageReceived  *)
(*         with appConfigurationObjLock (configLock) held from end to end; *)
(*   poll  the main thread, in pollApp, which takes configLock for a round *)
(*         and streamingSessionListReadLock (readLock) to unlink a session;*)
(*   sink  the media source's thread, in app_common_onMediaSinkHook, which *)
(*         walks the array under readLock alone;                           *)
(*   the peer connections' callbacks, which take no lock and may end a     *)
(*   session at any moment (terminateFlag).                                *)
(*                                                                         *)
(* A session is a block of the heap: it is live from its allocation to the *)
(* MEMFREE at the end of app_common_freeStreamingSession, and a freed      *)
(* block may be handed out again.                                          *)
(***************************************************************************)
EXTENDS PendingMsgQ

CONSTANTS Sessions,     \* heap blocks a StreamingSession may occupy
          MaxSessions   \* APP_MAX_CONCURRENT_STREAMING_SESSION

ASSUME MaxSessionsAssumption == MaxSessions \in Nat \ {0}
ASSUME SessionsAssumption == NULL \notin Sessions
ASSUME NoOwnerAssumption == NULL \notin {"sig", "poll", "sink"}

VARIABLES
  configLock,                 \* owner of appConfigurationObjLock, or NULL
  readLock,                   \* owner of streamingSessionListReadLock, or NULL
  streamingSessionList,       \* the array; entries from count on are stale
  streamingSessionCount,
  rtcPeerConnections,         \* pRemoteRtcPeerConnections
  live,                       \* the allocated sessions
  peerId,                     \* StreamingSession.peerId
  terminateFlag,              \* the sessions whose terminateFlag is set
  sigPc, sigSession,          \* onSignalingMessageReceived and its session
  pollPc, pollIndex, pollSession, shutdownMediaSource,   \* pollApp
  sinkPc, sinkIndex, sinkSession,                        \* onMediaSinkHook
  negotiated,                 \* sessions whose offer was handled and indexed
  failedOffers                \* hash values with an offer that failed half-way

registryVars == <<streamingSessionList, streamingSessionCount, rtcPeerConnections>>
sigVars  == <<sigPc, sigSession>>
pollVars == <<pollPc, pollIndex, pollSession, shutdownMediaSource>>
sinkVars == <<sinkPc, sinkIndex, sinkSession>>
auxVars  == <<negotiated, failedOffers>>
vars == <<msgQVars, configLock, readLock, registryVars, live, peerId, terminateFlag,
          sigVars, pollVars, sinkVars, auxVars>>

Slots == 0..(MaxSessions - 1)
Used == 0..(streamingSessionCount - 1)
Listed == {streamingSessionList[i] : i \in Used}
Key(s) == HashOf[peerId[s]]

TypeOK ==
  /\ MsgQTypeOK
  /\ configLock \in {"sig", "poll", NULL}
  /\ readLock \in {"sink", NULL}
  /\ streamingSessionList \in [Slots -> Sessions \cup {NULL}]
  /\ streamingSessionCount \in 0..MaxSessions
  /\ rtcPeerConnections \in [Hashes -> Sessions \cup {NULL}]
  /\ live \in SUBSET Sessions
  /\ peerId \in [Sessions -> Peers]
  /\ terminateFlag \in SUBSET Sessions
  /\ sigPc \in {"idle", "created", "listed", "handled"}
  /\ sigSession \in Sessions \cup {NULL}
  /\ pollPc \in {"top", "scan", "free", "join", "exited", "failed"}
  /\ pollIndex \in 0..MaxSessions
  /\ pollSession \in Sessions \cup {NULL}
  /\ shutdownMediaSource \in BOOLEAN
  /\ sinkPc \in {"idle", "loop", "write"}
  /\ sinkIndex \in 0..MaxSessions
  /\ sinkSession \in Sessions \cup {NULL}
  /\ negotiated \in SUBSET Sessions
  /\ failedOffers \in SUBSET Hashes

Init ==
  /\ MsgQInit
  /\ configLock = NULL /\ readLock = NULL
  /\ streamingSessionList = [i \in Slots |-> NULL]
  /\ streamingSessionCount = 0
  /\ rtcPeerConnections = [h \in Hashes |-> NULL]
  /\ live = {} /\ terminateFlag = {}
  /\ peerId = [s \in Sessions |-> CHOOSE p \in Peers : TRUE]
  /\ sigPc = "idle" /\ sigSession = NULL
  /\ pollPc = "top" /\ pollIndex = 0 /\ pollSession = NULL
  /\ shutdownMediaSource = FALSE
  /\ sinkPc = "idle" /\ sinkIndex = 0 /\ sinkSession = NULL
  /\ negotiated = {} /\ failedOffers = {}

-----------------------------------------------------------------------------
(* What the threads share.                                                   *)

\* peerConnectionFound
PeerConnectionFound_ignored(p) == FALSE
PeerConnectionFound(p) == rtcPeerConnections[HashOf[p]] # NULL

\* MUTEX_LOCK on streamingSessionListReadLock can return.
ReadLockFree_unguarded == TRUE
ReadLockFree == readLock = NULL

Terminated(s) == s \in terminateFlag

\* The array after the entry at i was removed: the last entry takes its slot.
SwapWithLast_kept(i) == streamingSessionList
SwapWithLast(i) ==
  LET last == streamingSessionCount - 1
  IN  IF last > 0
      THEN [streamingSessionList EXCEPT ![i] = streamingSessionList[last]]
      ELSE streamingSessionList

\* hash_table_remove on the client of s, whichever session the entry names.
RouteRemoved_kept(s) == rtcPeerConnections
RouteRemoved(s) == [rtcPeerConnections EXCEPT ![Key(s)] = NULL]

\* app_common_freeStreamingSession.
FreeStreamingSession_leaks(s) ==
  /\ terminateFlag' = terminateFlag \ {s}
  /\ negotiated' = negotiated \ {s}
  /\ UNCHANGED live

FreeStreamingSession(s) ==
  /\ live' = live \ {s}
  /\ terminateFlag' = terminateFlag \ {s}
  /\ negotiated' = negotiated \ {s}

\* The test for a free slot of the list.
SlotFree == streamingSessionCount < MaxSessions

-----------------------------------------------------------------------------
(* sig: app_common_onSignalingMessageReceived.  An offer of a client that is *)
(* already routed is dropped, and a candidate of such a client goes to its   *)
(* peer connection: neither changes the state kept here.                     *)

\* A candidate of a client without a session.  One step: the queue calls are
\* all made under configLock.
RecvCandidate(p) ==
  /\ sigPc = "idle" /\ configLock = NULL
  /\ ~PeerConnectionFound(p)
  /\ QueueCandidate(p)
  /\ UNCHANGED <<configLock, readLock, registryVars, live, peerId, terminateFlag,
                 sigVars, pollVars, sinkVars, auxVars>>

\* An offer while every slot of the list is taken.
RefuseOffer(p) ==
  /\ sigPc = "idle" /\ configLock = NULL
  /\ ~PeerConnectionFound(p)
  /\ ~SlotFree
  /\ DropOnRefusal(p)
  /\ UNCHANGED <<configLock, readLock, registryVars, live, peerId, terminateFlag,
                 sigVars, pollVars, sinkVars, auxVars>>

\* An offer: app_common_createStreamingSession allocates the session and
\* registers the callbacks.  A creation that fails frees what it made.
CreateStreamingSession(p) ==
  /\ ~fault
  /\ sigPc = "idle" /\ configLock = NULL
  /\ ~PeerConnectionFound(p)
  /\ SlotFree
  /\ \E s \in Sessions \ live :
       /\ live' = live \cup {s}
       /\ peerId' = [peerId EXCEPT ![s] = p]
       /\ terminateFlag' = terminateFlag \ {s}
       /\ negotiated' = negotiated \ {s}
       /\ sigSession' = s
  /\ configLock' = "sig"
  /\ sigPc' = "created"
  /\ UNCHANGED <<msgQVars, readLock, registryVars, pollVars, sinkVars, failedOffers>>

\* The session is appended under readLock, before the offer is looked at.
AppendSession ==
  /\ ~fault
  /\ sigPc = "created" /\ ReadLockFree
  /\ streamingSessionList' =
       [streamingSessionList EXCEPT ![streamingSessionCount] = sigSession]
  /\ streamingSessionCount' = streamingSessionCount + 1
  /\ sigPc' = "listed"
  /\ UNCHANGED <<msgQVars, configLock, readLock, rtcPeerConnections, live, peerId,
                 terminateFlag, sigSession, pollVars, sinkVars, auxVars>>

\* app_common_handleOffer succeeds.
HandleOffer ==
  /\ ~fault
  /\ sigPc = "listed"
  /\ sigPc' = "handled"
  /\ UNCHANGED <<msgQVars, configLock, readLock, registryVars, live, peerId,
                 terminateFlag, sigSession, pollVars, sinkVars, auxVars>>

\* app_common_handleOffer or hash_table_put fails: the handler unlocks and
\* returns, and the session stays in the list.
AbandonOffer ==
  /\ ~fault
  /\ sigPc \in {"listed", "handled"}
  /\ failedOffers' = failedOffers \cup {Key(sigSession)}
  /\ configLock' = NULL
  /\ sigPc' = "idle" /\ sigSession' = NULL
  /\ UNCHANGED <<msgQVars, readLock, registryVars, live, peerId, terminateFlag,
                 pollVars, sinkVars, negotiated>>

\* hash_table_put, then the candidates that waited are submitted; unlock.
IndexSession ==
  /\ sigPc = "handled"
  /\ rtcPeerConnections' = [rtcPeerConnections EXCEPT ![Key(sigSession)] = sigSession]
  /\ DrainOnOffer(peerId[sigSession])
  /\ negotiated' = negotiated \cup {sigSession}
  /\ configLock' = NULL
  /\ sigPc' = "idle" /\ sigSession' = NULL
  /\ UNCHANGED <<readLock, streamingSessionList, streamingSessionCount, live, peerId,
                 terminateFlag, pollVars, sinkVars, failedOffers>>

-----------------------------------------------------------------------------
\* app_common_onConnectionStateChange with FAILED, CLOSED or DISCONNECTED; the
\* callback of a session can come from its creation to its release.
ConnectionLost(s) ==
  /\ ~fault
  /\ s \in live
  /\ terminateFlag' = terminateFlag \cup {s}
  /\ UNCHANGED <<msgQVars, configLock, readLock, registryVars, live, peerId, sigVars,
                 pollVars, sinkVars, auxVars>>

-----------------------------------------------------------------------------
(* poll: pollApp.                                                            *)

PollLock ==
  /\ ~fault
  /\ pollPc = "top" /\ configLock = NULL
  /\ configLock' = "poll"
  /\ pollPc' = "scan" /\ pollIndex' = 0
  /\ UNCHANGED <<msgQVars, readLock, registryVars, live, peerId, terminateFlag,
                 sigVars, pollSession, shutdownMediaSource, sinkVars, auxVars>>

PollSkip ==
  /\ ~fault
  /\ pollPc = "scan" /\ pollIndex < streamingSessionCount
  /\ ~Terminated(streamingSessionList[pollIndex])
  /\ pollIndex' = pollIndex + 1
  /\ UNCHANGED <<msgQVars, configLock, readLock, registryVars, live, peerId,
                 terminateFlag, sigVars, pollPc, pollSession, shutdownMediaSource,
                 sinkVars, auxVars>>

\* A terminated session leaves the array under readLock: the last entry takes its
\* slot.
TakeOffList ==
  /\ ~fault
  /\ pollPc = "scan" /\ pollIndex < streamingSessionCount
  /\ Terminated(streamingSessionList[pollIndex])
  /\ ReadLockFree
  /\ streamingSessionCount' = streamingSessionCount - 1
  /\ streamingSessionList' = SwapWithLast(pollIndex)
  /\ pollSession' = streamingSessionList[pollIndex]
  /\ UNCHANGED <<msgQVars, readLock, live, peerId, terminateFlag, sigVars, sinkVars, auxVars>>

\* The client's entry of the hash table goes with it, whichever session it names.
PollUnlist ==
  /\ TakeOffList
  /\ rtcPeerConnections' = RouteRemoved(streamingSessionList[pollIndex])
  /\ shutdownMediaSource' = (shutdownMediaSource \/ streamingSessionCount' = 0)
  /\ pollIndex' = IF streamingSessionCount' > 0 THEN pollIndex ELSE pollIndex + 1
  /\ pollPc' = "free"
  /\ UNCHANGED configLock

\* hash_table_contains or hash_table_remove fails: pollApp unlocks and returns
\* with the session off the list, neither unrouted nor freed.
PollUnlistFails ==
  /\ TakeOffList
  /\ configLock' = NULL
  /\ pollPc' = "failed" /\ pollIndex' = 0
  /\ UNCHANGED <<rtcPeerConnections, shutdownMediaSource>>

\* app_common_freeStreamingSession, with readLock released.
PollFree ==
  /\ ~fault
  /\ pollPc = "free"
  /\ FreeStreamingSession(pollSession)
  /\ pollPc' = "scan" /\ pollSession' = NULL
  /\ UNCHANGED <<msgQVars, configLock, readLock, registryVars, peerId, sigVars,
                 pollIndex, shutdownMediaSource, sinkVars, failedOffers>>

\* The scan is over and the signaling client is in order: expired queues go,
\* then either the round ends, or the last session has just gone and the media
\* thread is joined with configLock released.
PollSweep ==
  /\ pollPc = "scan" /\ pollIndex >= streamingSessionCount
  /\ RemoveExpiredPendingMsgQ
  /\ \/ pollPc' = "top" /\ shutdownMediaSource' = FALSE
     \/ shutdownMediaSource /\ pollPc' = "join" /\ UNCHANGED shutdownMediaSource
  /\ configLock' = NULL
  /\ pollIndex' = 0
  /\ UNCHANGED <<readLock, registryVars, live, peerId, terminateFlag, sigVars,
                 pollSession, sinkVars, auxVars>>

\* PollJoined without the reset of shutdownMediaSource.
PollJoined_noReset ==
  /\ ~fault
  /\ pollPc = "join" /\ configLock = NULL
  /\ pollPc' = "top"
  /\ UNCHANGED <<msgQVars, configLock, readLock, registryVars, live, peerId,
                 terminateFlag, sigVars, pollIndex, pollSession, shutdownMediaSource,
                 sinkVars, auxVars>>

\* THREAD_JOIN has returned, configLock is taken back and given up in CVAR_WAIT.
PollJoined ==
  /\ ~fault
  /\ pollPc = "join" /\ configLock = NULL
  /\ shutdownMediaSource' = FALSE
  /\ pollPc' = "top"
  /\ UNCHANGED <<msgQVars, configLock, readLock, registryVars, live, peerId,
                 terminateFlag, sigVars, pollIndex, pollSession, sinkVars, auxVars>>

\* sigInt, or app_signaling_check failed after the scan: the loop is left.
PollExit ==
  /\ ~fault
  /\ \/ pollPc = "top" /\ UNCHANGED configLock
     \/ pollPc = "scan" /\ pollIndex >= streamingSessionCount /\ configLock' = NULL
  /\ pollPc' = "exited" /\ pollIndex' = 0
  /\ UNCHANGED <<msgQVars, readLock, registryVars, live, peerId, terminateFlag,
                 sigVars, pollSession, shutdownMediaSource, sinkVars, auxVars>>

-----------------------------------------------------------------------------
(* sink: app_common_onMediaSinkHook, called for each frame.                  *)

SinkLock ==
  /\ ~fault
  /\ sinkPc = "idle" /\ ReadLockFree
  /\ readLock' = "sink"
  /\ sinkPc' = "loop" /\ sinkIndex' = 0
  /\ UNCHANGED <<msgQVars, configLock, registryVars, live, peerId, terminateFlag,
                 sigVars, pollVars, sinkSession, auxVars>>

SinkPick ==
  /\ ~fault
  /\ sinkPc = "loop" /\ sinkIndex < streamingSessionCount
  /\ sinkSession' = streamingSessionList[sinkIndex]
  /\ sinkPc' = "write"
  /\ UNCHANGED <<msgQVars, configLock, readLock, registryVars, live, peerId,
                 terminateFlag, sigVars, pollVars, sinkIndex, auxVars>>

\* rtp_writeFrame on the session's transceiver, then the next index.
SinkWrite ==
  /\ ~fault
  /\ sinkPc = "write"
  /\ sinkIndex' = sinkIndex + 1
  /\ sinkPc' = "loop" /\ sinkSession' = NULL
  /\ UNCHANGED <<msgQVars, configLock, readLock, registryVars, live, peerId,
                 terminateFlag, sigVars, pollVars, auxVars>>

SinkUnlock ==
  /\ ~fault
  /\ sinkPc = "loop" /\ sinkIndex >= streamingSessionCount
  /\ readLock' = NULL
  /\ sinkPc' = "idle" /\ sinkIndex' = 0
  /\ UNCHANGED <<msgQVars, configLock, registryVars, live, peerId, terminateFlag,
                 sigVars, pollVars, sinkSession, auxVars>>

-----------------------------------------------------------------------------
\* A registered queue passes its expiry time.
QueueExpires ==
  /\ \E q \in QueueBlocks : Expire(q)
  /\ UNCHANGED <<configLock, readLock, registryVars, live, peerId, terminateFlag,
                 sigVars, pollVars, sinkVars, auxVars>>

SigNext ==
  \/ \E p \in Peers : RecvCandidate(p) \/ RefuseOffer(p) \/ CreateStreamingSession(p)
  \/ AppendSession \/ HandleOffer \/ AbandonOffer \/ IndexSession

PollNext ==
  \/ PollLock \/ PollSkip \/ PollUnlist \/ PollUnlistFails \/ PollFree \/ PollSweep
  \/ PollJoined \/ PollExit

SinkNext == SinkLock \/ SinkPick \/ SinkWrite \/ SinkUnlock

Next ==
  SigNext \/ PollNext \/ SinkNext \/ QueueExpires \/ \E s \in Sessions : ConnectionLost(s)

Spec == Init /\ [][Next]_vars

(* Fairness.  A thread that can run does run; a mutex is handed to a waiter  *)
(* again and again requested it (FreeRTOS queues the waiters of a mutex by   *)
(* priority and arrival), hence strong fairness where a lock is taken.       *)
(* Nothing is assumed of messages, callbacks, the return of THREAD_JOIN or   *)
(* the end of pollApp.                                                       *)
Fairness ==
  /\ WF_vars(HandleOffer \/ AbandonOffer \/ IndexSession)
  /\ SF_vars(AppendSession)
  /\ SF_vars(PollLock) /\ SF_vars(PollUnlist)
  /\ WF_vars(PollSkip) /\ WF_vars(PollFree) /\ WF_vars(PollSweep)
  /\ WF_vars(SinkPick) /\ WF_vars(SinkWrite) /\ WF_vars(SinkUnlock)

FairSpec == Spec /\ Fairness

-----------------------------------------------------------------------------
(* Properties                                                              *)

\* The sessions the array holds are distinct and allocated: the swap that
\* removes one neither loses nor doubles another, wherever the scan stands.
ListedOnceAndLive ==
  /\ \A i, j \in Used : streamingSessionList[i] = streamingSessionList[j] => i = j
  /\ Listed \subseteq live

\* The session pollApp had in hand when the hash table failed it: off the list and
\* never freed.  pollApp has returned then, so there is at most one.
Forgotten == IF pollPc = "failed" THEN {pollSession} ELSE {}

\* The hash table never routes a candidate to a session that is not listed, has
\* been freed, or belongs to a client of another hash value - although pollApp
\* removes the entry by key and not by session.  The exception is the forgotten
\* session, whose entry may have stayed: it is not freed either.
RouteIsListed ==
  \A h \in Hashes : rtcPeerConnections[h] # NULL =>
    /\ rtcPeerConnections[h] \in Listed \cup Forgotten
    /\ Key(rtcPeerConnections[h]) = h

\* A session is allocated only while it is listed, about to be listed by the
\* offer's handler, or about to be freed by pollApp.  One path forgets a session:
\* the exits of pollApp at AppCommon.c:1035 and 1037, between the session's removal
\* from the list and its release, which end pollApp and so forget no second one.
HeldSessions == (IF sigPc = "created" THEN {sigSession} ELSE {})
                  \cup (IF pollPc = "free" THEN {pollSession} ELSE {})

NoSessionLeak == live = Listed \cup HeldSessions \cup Forgotten

\* The media thread writes frames only to sessions that are listed and
\* allocated, although it does not take configLock and pollApp frees sessions
\* without readLock.
SinkWritesToLiveSession == sinkPc = "write" => sinkSession \in Listed \cap live

\* pollApp shuts the media source down only with no session listed.
MediaStopsOnlyWhenIdle ==
  pollPc \in {"scan", "free"} /\ shutdownMediaSource => streamingSessionCount = 0

\* A listed session whose offer was handled and indexed stays reachable for its
\* client's candidates, unless an offer of the same hash value failed half-way.
RoutedUnlessOfferFailed ==
  \A s \in Listed \cap negotiated :
    Key(s) \in failedOffers \/ rtcPeerConnections[Key(s)] = s

\* Two sessions of one client are listed together only after an offer of that
\* client failed between the append and hash_table_put.  AppCommon.c:428 ("Check
\* if we already have an ongoing master session with the same peer") means to
\* exclude them altogether, but asks the hash table.
OneSessionPerPeerUnlessOfferFailed ==
  \A i, j \in Used :
    LET k == Key(streamingSessionList[i])
    IN  i # j /\ k = Key(streamingSessionList[j]) => k \in failedOffers

\* Once the offer of a client is indexed no candidate of that client is left
\* behind in a queue of the list.
NoStrandedCandidate ==
  \A q \in Registered \cap allocated : \A i \in DOMAIN messages[q] :
    LET s == rtcPeerConnections[HashOf[messages[q][i]]]
    IN  s # NULL => s \notin negotiated

\* A terminated session is freed, unless pollApp has returned, waits for the
\* media thread, or memory was corrupted.
TerminatedIsFreed ==
  \A s \in Sessions :
    (s \in Listed \cap terminateFlag)
      ~> (s \notin live \/ pollPc \in {"exited", "failed", "join"} \/ fault)

-----------------------------------------------------------------------------
(* What the sessions promise their users, and that they keep it: the array,  *)
(* its count and the two locks implement a set of sessions and a map.        *)
Registry == INSTANCE SessionRegistry
              WITH accepted <- Listed,
                   route <- rtcPeerConnections,
                   ended <- terminateFlag,
                   owner <- peerId,
                   closed <- (pollPc = "failed")

RegistrySpec == Registry!Spec

(* The contract with the media control thread.                               *)

InRound == pollPc \in {"scan", "free"}

Phase == CASE InRound -> "round"
           [] pollPc = "top" -> "open"
           [] pollPc = "join" -> "join"
           [] OTHER -> "over"

\* The entries the scan has still to look at.
Ahead == {streamingSessionList[i] : i \in {j \in Used : j >= pollIndex}}

\* The sessions the round has still to remove.
Due == IF InRound THEN Ahead \cap terminateFlag ELSE {}

Rounds == INSTANCE SessionRounds
            WITH sessions <- Listed, ended <- terminateFlag, phase <- Phase, due <- Due

\* The scan of the array keeps the contract with the media control thread: it
\* misses no session that was lost before the round, although each removal moves
\* the last entry, and it stops the media only when the last session is gone.
RoundsSpec == Rounds!Spec

\* Every step of the scan leaves it fewer entries to look at, although it does not
\* move the index when it removes one, and although connections are lost meanwhile:
\* a round never takes more steps than it found sessions.
ScanAdvances ==
  [][pollPc = "scan" /\ InRound' /\ <<pollPc, pollIndex>>' # <<pollPc, pollIndex>> =>
       /\ pollIndex < streamingSessionCount
       /\ streamingSessionCount' - pollIndex' < streamingSessionCount - pollIndex]_vars
=============================================================================

---------------------------- MODULE MediaControl ----------------------------
(***************************************************************************)
(* The life of the media thread.  One control thread serves all sessions:  *)
(* the first offer creates it (app_common_handleOffer), it waits until a   *)
(* peer is connected and then runs the media source                        *)
(* (app_common_runMediaSource, app_media_source_run), and pollApp stops    *)
(* and joins it when the last session is gone; freeApp does so once more.  *)
(* The source makes a thread of its own, the sender, and joins it - a join *)
(* of which AppMediaSrc_ESP32_FileSrc.c:350 says that it does not work: it *)
(* may return while the sender is at work.                                 *)
(* The threads talk through atomic flags and the variable mediaControlTid. *)
(*                                                                         *)
(* Abstracted: the session list is a set, and the route of a client is     *)
(* left to StreamingSessions; every offer here is of a client that is not  *)
(* routed.  CVAR_WAIT is a timed wait (5 s), so a waiting thread looks     *)
(* again whether or not it was signalled, and a signal is not modelled.    *)
(***************************************************************************)
EXTENDS Naturals, FiniteSets

CONSTANTS Sessions,        \* streaming sessions
          Tids,            \* names of media control threads
          SourceMayFail,   \* the media source may end by itself (read error)
          CreateMayFail,   \* THREAD_CREATE_EX may fail; its result is not read
          SenderJoinMayFail,  \* the join of the sender may return too early
          NULL

ASSUME TidAssumption == NULL \notin Tids
ASSUME FailAssumption == /\ SourceMayFail \in BOOLEAN /\ CreateMayFail \in BOOLEAN
                         /\ SenderJoinMayFail \in BOOLEAN
ASSUME OwnerAssumption == NULL \notin {"sig", "poll"}

VARIABLES
  configLock,        \* owner of appConfigurationObjLock, or NULL
  sessions,          \* the sessions in streamingSessionList
  ended,             \* sessions whose terminateFlag is set
  answered,          \* those whose offer app_common_handleOffer accepted
  forgotten,         \* sessions pollApp took off the list and failed to free
  peerConnectionConnected, terminateApp, abortMediaControl, mediaThreadStarted,
  mediaControlTid,   \* the thread to join, or NULL (INVALID_TID_VALUE)
  shutdownFileSrc,   \* the flag that ends the media source's loop
  mediaPc,           \* where each media control thread is
  senders,           \* the control threads whose sender is at work
  orphans,           \* those among them whose join has returned all the same
  sigPc,             \* the signaling thread, in handleOffer
  sigSession,        \* and the session of the offer it handles
  pollPc,            \* the main thread, in pollApp and then in freeApp
  joinTid,           \* the thread THREAD_JOIN waits for
  shutdownMediaSource,  \* pollApp's local flag
  lateStart,         \* a thread was created after pollApp or freeApp began to stop one
  createFailed,      \* the creation of a thread has failed
  overtaking         \* a thread's start has taken back the stop that is under way

flagVars == <<peerConnectionConnected, terminateApp, abortMediaControl,
              mediaThreadStarted, shutdownFileSrc>>
sessVars == <<sessions, ended, answered, forgotten>>
sigVars == <<sigPc, sigSession>>
pollVars == <<pollPc, joinTid, shutdownMediaSource>>
historyVars == <<lateStart, createFailed, overtaking>>
senderVars == <<senders, orphans>>
threadVars == <<mediaControlTid, mediaPc, senderVars, historyVars>>
vars == <<configLock, sessVars, flagVars, sigVars, pollVars, threadVars>>

Active == {t \in Tids : mediaPc[t] \in {"started", "waiting", "leaving", "source",
                                        "running", "exit"}}

Stopping == {"shutdown", "abort", "join", "joining", "free", "freeShutdown",
             "freeAbort", "freeJoin", "freeSignaling", "freeing"}

\* pollApp, or freeApp, has set shutdownFileSrc, and abortMediaControl, and has not
\* joined yet.
ShutdownGiven == {"abort", "join", "joining", "freeAbort", "freeJoin"}
AbortGiven == {"join", "joining"}

\* The types, who holds the lock where, and that an offer has a session.
TypeOK ==
  /\ configLock \in {"sig", "poll", NULL}
  /\ sessions \in SUBSET Sessions /\ ended \in SUBSET Sessions
  /\ answered \in SUBSET Sessions /\ forgotten \in SUBSET Sessions
  /\ peerConnectionConnected \in BOOLEAN /\ terminateApp \in BOOLEAN
  /\ abortMediaControl \in BOOLEAN /\ mediaThreadStarted \in BOOLEAN
  /\ shutdownFileSrc \in BOOLEAN
  /\ mediaControlTid \in Tids \cup {NULL} /\ joinTid \in Tids \cup {NULL}
  /\ mediaPc \in [Tids -> {"none", "started", "waiting", "leaving", "source",
                           "running", "exit", "done"}]
  /\ senders \in SUBSET Tids /\ orphans \in SUBSET senders
  /\ sigPc \in {"idle", "offer", "create"}
  /\ sigSession \in Sessions \cup {NULL}
  /\ pollPc \in Stopping \cup {"top", "scan", "freed"}
  /\ shutdownMediaSource \in BOOLEAN /\ lateStart \in BOOLEAN /\ createFailed \in BOOLEAN
  /\ overtaking \in BOOLEAN
  /\ sigPc # "idle" => sigSession \in Sessions
  /\ configLock = "sig" <=> sigPc # "idle"
  /\ configLock = "poll" <=> pollPc \in {"scan", "shutdown", "abort"}

Init ==
  /\ configLock = NULL
  /\ sessions = {} /\ ended = {} /\ answered = {} /\ forgotten = {}
  /\ peerConnectionConnected = FALSE /\ terminateApp = FALSE
  /\ abortMediaControl = FALSE /\ mediaThreadStarted = FALSE
  /\ shutdownFileSrc = FALSE
  /\ mediaControlTid = NULL /\ joinTid = NULL
  /\ mediaPc = [t \in Tids |-> "none"] /\ senders = {} /\ orphans = {}
  /\ sigPc = "idle" /\ sigSession = NULL /\ pollPc = "top"
  /\ shutdownMediaSource = FALSE /\ lateStart = FALSE /\ createFailed = FALSE
  /\ overtaking = FALSE

-----------------------------------------------------------------------------
(* The signaling thread: an offer, under configLock.  An offer that waits    *)
(* for the lock may still be handled after app_signaling_free.               *)

Offer(s) ==
  /\ sigPc = "idle" /\ configLock = NULL
  /\ pollPc # "freed"
  /\ s \notin sessions \cup forgotten
  /\ sessions' = sessions \cup {s}
  /\ ended' = ended \ {s} /\ answered' = answered \ {s}
  /\ configLock' = "sig" /\ sigPc' = "offer" /\ sigSession' = s
  /\ UNCHANGED <<forgotten, flagVars, pollVars, threadVars>>

\* The session description or the answer is refused before the media is started.
OfferFails ==
  /\ sigPc = "offer"
  /\ configLock' = NULL /\ sigPc' = "idle" /\ sigSession' = NULL
  /\ UNCHANGED <<sessVars, flagVars, pollVars, threadVars>>

\* ExchangeStarted that creates a thread whatever the flag was.
ExchangeStarted_always ==
  /\ sigPc = "offer"
  /\ mediaThreadStarted' = TRUE
  /\ answered' = answered \cup {sigSession}
  /\ sigPc' = "create" /\ UNCHANGED <<sigSession, configLock>>
  /\ UNCHANGED <<sessions, ended, forgotten, peerConnectionConnected, terminateApp,
                 abortMediaControl, shutdownFileSrc, pollVars, threadVars>>

\* The exchange that claims the flag; a thread is created only by the offer
\* that found it FALSE.
ExchangeStarted ==
  /\ sigPc = "offer"
  /\ mediaThreadStarted' = TRUE
  /\ answered' = answered \cup {sigSession}
  /\ IF mediaThreadStarted
     THEN sigPc' = "idle" /\ sigSession' = NULL /\ configLock' = NULL
     ELSE sigPc' = "create" /\ UNCHANGED <<sigSession, configLock>>
  /\ UNCHANGED <<sessions, ended, forgotten, peerConnectionConnected, terminateApp,
                 abortMediaControl, shutdownFileSrc, pollVars, threadVars>>

\* The name of a thread that has ended and that nobody refers to may be reused.
Unused(t) == /\ t \notin senders
             /\ \/ mediaPc[t] = "none"
                \/ mediaPc[t] = "done" /\ t # mediaControlTid /\ t # joinTid

CreateMediaThread ==
  /\ sigPc = "create"
  /\ \E t \in Tids : /\ Unused(t)
                     /\ mediaPc' = [mediaPc EXCEPT ![t] = "started"]
                     /\ mediaControlTid' = t
  /\ lateStart' = (lateStart \/ pollPc \in Stopping)
  /\ configLock' = NULL /\ sigPc' = "idle" /\ sigSession' = NULL
  /\ UNCHANGED <<sessVars, flagVars, pollVars, senderVars, createFailed, overtaking>>

CreateMediaThreadFails ==
  /\ CreateMayFail
  /\ sigPc = "create"
  /\ configLock' = NULL /\ sigPc' = "idle" /\ sigSession' = NULL
  /\ createFailed' = TRUE
  /\ UNCHANGED <<sessVars, flagVars, pollVars, mediaControlTid, mediaPc, senderVars,
                 lateStart, overtaking>>

-----------------------------------------------------------------------------
(* app_common_onConnectionStateChange, on a peer connection's own thread.    *)

\* A session's peer connection is there until pollApp or freeApp frees it, and a
\* session pollApp forgot calls back as long as the application is there.
HasCallbacks(s) == s \in sessions \/ (s \in forgotten /\ pollPc # "freed")

\* A peer connects after the answer to its offer was sent, be it before
\* handleOffer has returned.
Connected(s) ==
  /\ HasCallbacks(s) /\ (s \in answered \/ s = sigSession)
  /\ peerConnectionConnected' = TRUE
  /\ UNCHANGED <<configLock, sessVars, terminateApp, abortMediaControl,
                 mediaThreadStarted, shutdownFileSrc, sigVars, pollVars, threadVars>>

\* NEW or CONNECTING (lost = FALSE), or FAILED, CLOSED, DISCONNECTED.
NotConnected(s, lost) ==
  /\ HasCallbacks(s)
  /\ peerConnectionConnected' = FALSE
  /\ ended' = IF lost THEN ended \cup {s} ELSE ended
  /\ UNCHANGED <<configLock, sessions, answered, forgotten, terminateApp,
                 abortMediaControl, mediaThreadStarted, shutdownFileSrc, sigVars,
                 pollVars, threadVars>>

-----------------------------------------------------------------------------
(* app_common_runMediaSource, on the media control thread t.                 *)

At(t, from, to) == mediaPc[t] = from /\ mediaPc' = [mediaPc EXCEPT ![t] = to]

MediaStart(t) ==
  /\ At(t, "started", "waiting")
  /\ abortMediaControl' = FALSE
  /\ overtaking' = (overtaking \/ pollPc \in AbortGiven)
  /\ UNCHANGED <<configLock, sessVars, peerConnectionConnected, terminateApp,
                 mediaThreadStarted, shutdownFileSrc, sigVars, pollVars,
                 mediaControlTid, senderVars, lateStart, createFailed>>

WaitIsOver_ignoresAbort == peerConnectionConnected \/ terminateApp
WaitIsOver == peerConnectionConnected \/ terminateApp \/ abortMediaControl

\* The loop around CVAR_WAIT is left with configLock held, then it is released.
MediaWaited(t) ==
  /\ At(t, "waiting", "leaving")
  /\ configLock = NULL
  /\ WaitIsOver
  /\ UNCHANGED <<configLock, sessVars, flagVars, sigVars, pollVars, mediaControlTid,
                 senderVars, historyVars>>

MediaChecked(t) ==
  /\ At(t, "leaving", IF terminateApp \/ abortMediaControl THEN "exit" ELSE "source")
  /\ UNCHANGED <<configLock, sessVars, flagVars, sigVars, pollVars, mediaControlTid,
                 senderVars, historyVars>>

\* app_media_source_run clears its stop flag and starts the sender, whose creation
\* may fail as well.
SourceRun(t) ==
  /\ At(t, "source", "running")
  /\ shutdownFileSrc' = FALSE
  /\ \/ senders' = senders \cup {t}
     \/ CreateMayFail /\ UNCHANGED senders
  /\ overtaking' = (overtaking \/ pollPc \in ShutdownGiven)
  /\ UNCHANGED <<configLock, sessVars, peerConnectionConnected, terminateApp,
                 abortMediaControl, mediaThreadStarted, sigVars, pollVars,
                 mediaControlTid, orphans, lateStart, createFailed>>

\* sendVideoPackets, on the sender's thread, leaves its loop: stopped, or by itself.
SenderEnds(t) ==
  /\ t \in senders
  /\ shutdownFileSrc \/ SourceMayFail
  /\ senders' = senders \ {t} /\ orphans' = orphans \ {t}
  /\ UNCHANGED <<configLock, sessVars, flagVars, sigVars, pollVars, mediaControlTid,
                 mediaPc, historyVars>>

\* The sender is joined, or was never there.
SourceReturns(t) ==
  /\ At(t, "running", "exit")
  /\ t \notin senders
  /\ UNCHANGED <<configLock, sessVars, flagVars, sigVars, pollVars, mediaControlTid,
                 senderVars, historyVars>>

\* The join that does not work: it returns, and the sender stays at work.
SenderJoinFails(t) ==
  /\ SenderJoinMayFail
  /\ At(t, "running", "exit")
  /\ t \in senders
  /\ orphans' = orphans \cup {t}
  /\ UNCHANGED <<configLock, sessVars, flagVars, sigVars, pollVars, mediaControlTid,
                 senders, historyVars>>

MediaExit_keepsFlag(t) ==
  /\ At(t, "exit", "done")
  /\ UNCHANGED <<configLock, sessVars, flagVars, sigVars, pollVars, mediaControlTid,
                 senderVars, historyVars>>

MediaExit(t) ==
  /\ At(t, "exit", "done")
  /\ mediaThreadStarted' = FALSE
  /\ UNCHANGED <<configLock, sessVars, peerConnectionConnected, terminateApp,
                 abortMediaControl, shutdownFileSrc, sigVars, pollVars,
                 mediaControlTid, senderVars, historyVars>>

-----------------------------------------------------------------------------
(* pollApp                                                                   *)

PollLock ==
  /\ pollPc = "top" /\ configLock = NULL
  /\ configLock' = "poll" /\ pollPc' = "scan"
  /\ UNCHANGED <<sessVars, flagVars, sigVars, joinTid, shutdownMediaSource,
                 threadVars>>

\* PollUnlist without the test for the last session.
PollUnlist_anyLast(s) ==
  /\ pollPc = "scan" /\ s \in sessions \cap ended
  /\ sessions' = sessions \ {s}
  /\ shutdownMediaSource' = TRUE
  /\ peerConnectionConnected' \in {peerConnectionConnected, FALSE}
  /\ ended' = ended \ {s} /\ answered' = answered \ {s}
  /\ UNCHANGED <<configLock, forgotten, terminateApp, abortMediaControl,
                 mediaThreadStarted, shutdownFileSrc, sigVars, pollPc, joinTid,
                 threadVars>>

\* A terminated session is unlinked and freed; pc_close may report CLOSED.
PollUnlist(s) ==
  /\ pollPc = "scan" /\ s \in sessions \cap ended
  /\ sessions' = sessions \ {s}
  /\ shutdownMediaSource' = (shutdownMediaSource \/ sessions' = {})
  /\ peerConnectionConnected' \in {peerConnectionConnected, FALSE}
  /\ ended' = ended \ {s} /\ answered' = answered \ {s}
  /\ UNCHANGED <<configLock, forgotten, terminateApp, abortMediaControl,
                 mediaThreadStarted, shutdownFileSrc, sigVars, pollPc, joinTid,
                 threadVars>>

\* The hash table fails after the session was taken off the list: pollApp returns.
PollUnlistFails(s) ==
  /\ pollPc = "scan" /\ s \in sessions \cap ended
  /\ sessions' = sessions \ {s}
  /\ forgotten' = forgotten \cup {s}
  /\ configLock' = NULL /\ pollPc' = "free" /\ shutdownMediaSource' = FALSE
  /\ UNCHANGED <<ended, answered, flagVars, sigVars, joinTid, threadVars>>

PollScanned ==
  /\ pollPc = "scan" /\ sessions \cap ended = {}
  /\ IF shutdownMediaSource THEN pollPc' = "shutdown" /\ UNCHANGED configLock
                            ELSE pollPc' = "top" /\ configLock' = NULL
  /\ UNCHANGED <<sessVars, flagVars, sigVars, joinTid, shutdownMediaSource,
                 threadVars>>

\* mediaControlTid == INVALID_TID_VALUE
NothingToJoin_notTested == FALSE
NothingToJoin == mediaControlTid = NULL

\* app_media_source_shutdown; with no thread to join the round ends.
PollShutdown ==
  /\ pollPc = "shutdown"
  /\ shutdownFileSrc' = TRUE
  /\ IF NothingToJoin
     THEN pollPc' = "top" /\ configLock' = NULL /\ shutdownMediaSource' = FALSE
     ELSE pollPc' = "abort" /\ UNCHANGED <<configLock, shutdownMediaSource>>
  /\ UNCHANGED <<sessVars, peerConnectionConnected, terminateApp, abortMediaControl,
                 mediaThreadStarted, sigVars, joinTid, threadVars>>

\* PollAbort that leaves abortMediaControl alone.
PollAbort_noAbort ==
  /\ pollPc = "abort"
  /\ configLock' = NULL /\ pollPc' = "join"
  /\ UNCHANGED <<sessVars, flagVars, sigVars, joinTid, shutdownMediaSource, threadVars>>

PollAbort ==
  /\ pollPc = "abort"
  /\ abortMediaControl' = TRUE
  /\ configLock' = NULL /\ pollPc' = "join"
  /\ UNCHANGED <<sessVars, peerConnectionConnected, terminateApp, mediaThreadStarted,
                 shutdownFileSrc, sigVars, joinTid, shutdownMediaSource, threadVars>>

\* The argument of THREAD_JOIN is read after configLock was released.
PollJoin ==
  /\ pollPc = "join"
  /\ joinTid' = mediaControlTid /\ pollPc' = "joining"
  /\ UNCHANGED <<configLock, sessVars, flagVars, sigVars, shutdownMediaSource,
                 threadVars>>

\* THREAD_JOIN has returned; configLock is taken, and released by CVAR_WAIT.
PollJoined ==
  /\ pollPc = "joining" /\ configLock = NULL
  /\ mediaPc[joinTid] = "done"
  /\ mediaPc' = [mediaPc EXCEPT ![joinTid] = "none"]
  /\ mediaControlTid' = NULL /\ joinTid' = NULL
  /\ shutdownMediaSource' = FALSE
  /\ pollPc' = "top"
  /\ overtaking' = FALSE
  /\ UNCHANGED <<configLock, sessVars, flagVars, sigVars, senderVars, lateStart,
                 createFailed>>

\* sigInt, or app_signaling_check failed: freeApp follows.
PollExit ==
  /\ \/ pollPc = "top" /\ UNCHANGED configLock
     \/ pollPc = "scan" /\ sessions \cap ended = {} /\ configLock' = NULL
  /\ pollPc' = "free" /\ shutdownMediaSource' = FALSE
  /\ UNCHANGED <<sessVars, flagVars, sigVars, joinTid, threadVars>>

-----------------------------------------------------------------------------
(* freeApp, on the same thread                                               *)

FreeTerminate ==
  /\ pollPc = "free"
  /\ terminateApp' = TRUE /\ pollPc' = "freeShutdown"
  /\ UNCHANGED <<configLock, sessVars, peerConnectionConnected, abortMediaControl,
                 mediaThreadStarted, shutdownFileSrc, sigVars, joinTid,
                 shutdownMediaSource, threadVars>>

FreeShutdown ==
  /\ pollPc = "freeShutdown"
  /\ shutdownFileSrc' = TRUE
  /\ pollPc' = IF NothingToJoin THEN "freeSignaling" ELSE "freeAbort"
  /\ UNCHANGED <<configLock, sessVars, peerConnectionConnected, terminateApp,
                 abortMediaControl, mediaThreadStarted, sigVars, joinTid,
                 shutdownMediaSource, threadVars>>

FreeAbort ==
  /\ pollPc = "freeAbort"
  /\ abortMediaControl' = TRUE
  /\ joinTid' = mediaControlTid /\ pollPc' = "freeJoin"
  /\ UNCHANGED <<configLock, sessVars, peerConnectionConnected, terminateApp,
                 mediaThreadStarted, shutdownFileSrc, sigVars, shutdownMediaSource,
                 threadVars>>

\* The join returns and the tid is forgotten; configLock is not involved.
FreeJoined_skipped ==
  /\ pollPc = "freeJoin"
  /\ mediaControlTid' = NULL /\ joinTid' = NULL
  /\ pollPc' = "freeSignaling"
  /\ overtaking' = FALSE
  /\ UNCHANGED <<configLock, sessVars, flagVars, sigVars, shutdownMediaSource,
                 mediaPc, senderVars, lateStart, createFailed>>

FreeJoined ==
  /\ pollPc = "freeJoin"
  /\ mediaPc[joinTid] = "done"
  /\ mediaPc' = [mediaPc EXCEPT ![joinTid] = "none"]
  /\ mediaControlTid' = NULL /\ joinTid' = NULL
  /\ pollPc' = "freeSignaling"
  /\ overtaking' = FALSE
  /\ UNCHANGED <<configLock, sessVars, flagVars, sigVars, shutdownMediaSource,
                 senderVars, lateStart, createFailed>>

\* app_signaling_free, which does not wait for the handler of an offer.
FreeSignaling ==
  /\ pollPc = "freeSignaling"
  /\ pollPc' = "freeing"
  /\ UNCHANGED <<configLock, sessVars, flagVars, sigVars, joinTid,
                 shutdownMediaSource, threadVars>>

\* The sessions and then everything else is freed.
FreeAll ==
  /\ pollPc = "freeing" /\ configLock = NULL
  /\ sessions' = {}
  /\ ended' = ended \ sessions /\ answered' = answered \ sessions
  /\ pollPc' = "freed"
  /\ UNCHANGED <<configLock, forgotten, flagVars, sigVars, joinTid,
                 shutdownMediaSource, threadVars>>

-----------------------------------------------------------------------------
SigNext ==
  \/ \E s \in Sessions : Offer(s)
  \/ OfferFails \/ ExchangeStarted \/ CreateMediaThread \/ CreateMediaThreadFails

CallbackNext ==
  \E s \in Sessions : Connected(s) \/ \E lost \in BOOLEAN : NotConnected(s, lost)

MediaNext(t) ==
  \/ MediaStart(t) \/ MediaWaited(t) \/ MediaChecked(t) \/ SourceRun(t)
  \/ SourceReturns(t) \/ SenderJoinFails(t) \/ MediaExit(t)

PollNext ==
  \/ PollLock \/ (\E s \in Sessions : PollUnlist(s) \/ PollUnlistFails(s)) \/ PollScanned
  \/ PollShutdown \/ PollAbort \/ PollJoin \/ PollJoined \/ PollExit

FreeNext ==
  FreeTerminate \/ FreeShutdown \/ FreeAbort \/ FreeJoined \/ FreeSignaling \/ FreeAll

Next ==
  \/ SigNext \/ CallbackNext \/ PollNext \/ FreeNext
  \/ \E t \in Tids : MediaNext(t) \/ SenderEnds(t)

Spec == Init /\ [][Next]_vars

(* Every thread that can run does, and a mutex that is free again and again  *)
(* is granted; nothing is assumed of offers, callbacks, the sender's end by  *)
(* itself or the end of pollApp.  The join of a sender that has ended does   *)
(* return, the join of one that has not need not.                            *)
SigStep == OfferFails \/ ExchangeStarted \/ CreateMediaThread

MediaStep(t) ==
  MediaStart(t) \/ MediaChecked(t) \/ SourceRun(t) \/ SourceReturns(t) \/ MediaExit(t)

\* What the main thread does without waiting for anyone.
MainStep ==
  \/ (\E s \in Sessions : PollUnlist(s)) \/ PollScanned \/ PollShutdown \/ PollAbort
  \/ PollJoin \/ FreeTerminate \/ FreeShutdown \/ FreeAbort \/ FreeJoined
  \/ FreeSignaling

Fairness ==
  /\ WF_vars(SigStep)
  /\ \A t \in Tids : /\ WF_vars(MediaStep(t)) /\ SF_vars(MediaWaited(t))
                     /\ WF_vars(SenderEnds(t) /\ shutdownFileSrc)
  /\ WF_vars(MainStep)
  /\ SF_vars(PollLock) /\ SF_vars(PollJoined) /\ SF_vars(FreeAll)

FairSpec == Spec /\ Fairness

-----------------------------------------------------------------------------
(* Properties                                                              *)

\* At most one media control thread is at work, however offers, its own exit
\* and the joins of pollApp and freeApp interleave.
AtMostOneMediaThread == \A t, u \in Active : t = u

\* The frame buffer and the source's context have one user - one sender - however
\* offers, the control thread's exit and the joins of pollApp and freeApp interleave,
\* save the senders their control thread has not waited for, because its join does
\* not work (AppMediaSrc_ESP32_FileSrc.c:350): such a sender goes on beside the one
\* that the next offer's thread starts.
SourceHasOneUser == \A t, u \in senders \ orphans : t = u

\* mediaThreadStarted tells whether a media thread is at work or is just being
\* created (AppCommon.h:48 "the flag to indicate the status of the media
\* thread"), until a creation fails: then it stays set without a thread, and no
\* offer will ever create one.
StartedTellsThread ==
  mediaThreadStarted <=> (Active # {} \/ sigPc = "create" \/ createFailed)

\* The application's memory is freed under a running media thread only if an
\* offer created that thread after the stop of its predecessor had begun, and under
\* a running sender only for that reason or because the sender's join failed.
FreedUnderMediaOnlyByLateStart ==
  pollPc = "freed" /\ Active \cup (senders \ orphans) # {} => lateStart

\* Whoever waits in THREAD_JOIN waits for a thread that exists.
JoinHasATarget ==
  pollPc \in {"joining", "freeJoin"} =>
    joinTid # NULL /\ mediaPc[joinTid] # "none"

\* Whoever waits in THREAD_JOIN has told the thread it waits for to stop, in the wait
\* for a peer and in the source, unless a thread that was just starting has taken
\* the stop back (it clears both flags without a lock): that is the only way for the
\* join to hang.
JoinHangsOnlyWhenOvertaken ==
  joinTid # NULL /\ ~overtaking =>
    /\ mediaPc[joinTid] = "waiting" => terminateApp \/ abortMediaControl
    /\ mediaPc[joinTid] = "running" => shutdownFileSrc

\* A join of the media thread, by pollApp or by freeApp, comes to its end, wherever
\* the flags caught the thread - before its wait, in it, in the source - unless a
\* starting thread takes the stop back.
JoinReturns == (joinTid # NULL) ~> (joinTid = NULL \/ overtaking)

\* AppCommon.c:1074: pollApp is to "periodically wake up and clean up terminated
\* streaming session".
TerminatedIsCleanedUp ==
  \A s \in Sessions :
    (s \in sessions \cap ended) ~> (s \notin sessions \/ s \notin ended \/ terminateApp)

\* AppCommon.c:255, when an offer finds the flag set: "The media source is
\* started".  At rest, a session whose offer was accepted and
\* that was not lost has a media thread.
SessionHasMediaThread ==
  sigPc = "idle" /\ pollPc = "top" /\ (sessions \cap answered) \ ended # {}
    => Active # {}

-----------------------------------------------------------------------------
(* The contract with the sessions, as this module keeps it.                  *)

InRound == pollPc \in {"scan", "shutdown", "abort"}

Phase == CASE InRound -> "round"
           [] pollPc = "top" -> "open"
           [] pollPc \in {"join", "joining"} -> "join"
           [] OTHER -> "over"

\* The sessions the round still has to remove.
Due == IF InRound THEN sessions \cap ended ELSE {}

Rounds == INSTANCE SessionRounds WITH phase <- Phase, due <- Due

\* What this module assumes of the sessions is what StreamingSessions does: both
\* keep the contract of SessionRounds.  In particular pollApp goes for the media
\* thread only when no session is left to need it, and while it has not let go of
\* configLock none comes.
RoundsSpec == Rounds!Spec
=============================================================================

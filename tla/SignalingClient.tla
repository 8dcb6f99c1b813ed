--------------------------- MODULE SignalingClient ---------------------------
(***************************************************************************)
(* The signaling client of AppSignaling.c and its users.  The main thread  *)
(* creates, fetches and connects it (runApp), re-creates it when it has    *)
(* reported an error (pollApp, app_signaling_restart), and frees it        *)
(* (freeApp, app_signaling_free).  Meanwhile other threads send through    *)
(* app_signaling_sendMsg: the signaling thread its answers, with           *)
(* configLock held by the offer's handler, and the ICE agents' threads     *)
(* their candidates, or the answer to a peer that cannot trickle           *)
(* (app_common_onIceCandidate), with no lock but signalingSendMessageLock. *)
(*                                                                         *)
(* External: the library behind signaling_client_*.  A client is a block   *)
(* that its create allocates and its free releases; each call may fail,    *)
(* free does not wait for the calls in progress, and the two errors that   *)
(* ask for a re-creation (the loss of a connection, or of the refresh of   *)
(* its ICE configuration) come from a client that has been connected.      *)
(***************************************************************************)
EXTENDS Naturals, FiniteSets

CONSTANTS Clients,    \* heap blocks a signaling client may occupy
          IceAgents,  \* the threads that send candidates and answers without trickle
          NULL        \* INVALID_SIGNALING_CLIENT_HANDLE_VALUE; no owner

ASSUME ClientsAssumption == NULL \notin Clients
ASSUME ThreadsAssumption ==
  NULL \notin {"sig", "main"} \cup IceAgents /\ {"sig", "main"} \cap IceAgents = {}

Senders == {"sig"} \cup IceAgents

VARIABLES
  configLock,                \* owner of appConfigurationObjLock, or NULL
  signalingSendMessageLock,  \* its owner, or NULL
  signalingClientHandle,     \* the client the handle names, or NULL
  clients,                   \* the clients that exist
  connected,                 \* those that signaling_client_connect has connected
  reported,                  \* those that have reported an error since
  restartSignalingClient,
  mainPc,                    \* runApp, pollApp, freeApp
  sendPc,                    \* each sender, in app_signaling_sendMsg
  sendClient,                \* the client it calls
  overtaken                  \* those whose message was under way as a client was freed

clientVars == <<signalingClientHandle, clients, connected, reported>>
sendVars == <<signalingSendMessageLock, sendPc, sendClient, overtaken>>
vars == <<configLock, clientVars, restartSignalingClient, mainPc, sendVars>>

\* The types, and who holds the locks where.
TypeOK ==
  /\ configLock \in {"sig", "main", NULL}
  /\ signalingSendMessageLock \in Senders \cup {NULL}
  /\ signalingClientHandle \in Clients \cup {NULL}
  /\ clients \in SUBSET Clients /\ connected \in SUBSET Clients
  /\ reported \in SUBSET Clients
  /\ restartSignalingClient \in BOOLEAN
  /\ mainPc \in {"create", "fetch", "connect", "top", "test", "restart", "recreate",
                 "clear", "check", "join", "relock", "exit", "freed"}
  /\ sendPc \in [Senders -> {"idle", "test", "lock", "call", "sending"}]
  /\ sendClient \in [Senders -> Clients \cup {NULL}]
  /\ overtaken \in SUBSET Senders
  /\ configLock = "main" <=> mainPc \in {"test", "restart", "recreate", "clear", "check"}
  /\ configLock = "sig" <=> sendPc["sig"] # "idle"
  /\ \A t \in Senders : sendPc[t] \in {"call", "sending"} <=> signalingSendMessageLock = t

Init ==
  /\ configLock = NULL /\ signalingSendMessageLock = NULL
  /\ signalingClientHandle = NULL
  /\ clients = {} /\ connected = {} /\ reported = {}
  /\ restartSignalingClient = FALSE
  /\ mainPc = "create"
  /\ sendPc = [t \in Senders |-> "idle"]
  /\ sendClient = [t \in Senders |-> NULL]
  /\ overtaken = {}

-----------------------------------------------------------------------------
(* The library.                                                              *)

\* signaling_client_create, which sets the handle only when it succeeds.
ClientCreated ==
  \E c \in Clients \ clients :
    /\ clients' = clients \cup {c}
    /\ connected' = connected \ {c} /\ reported' = reported \ {c}
    /\ signalingClientHandle' = c

\* The senders that have tested the handle and are not done.
UnderWay == {t \in Senders : sendPc[t] \in {"lock", "call", "sending"}}

\* signaling_client_free.
ClientFreed ==
  /\ clients' = clients \ {signalingClientHandle}
  /\ connected' = connected \ {signalingClientHandle}
  /\ reported' = reported \ {signalingClientHandle}
  /\ signalingClientHandle' = NULL
  /\ overtaken' = overtaken \cup UnderWay
  /\ UNCHANGED <<signalingSendMessageLock, sendPc, sendClient>>

ClientConnected ==
  /\ connected' = connected \cup {signalingClientHandle}
  /\ UNCHANGED <<signalingClientHandle, clients, reported>>

\* app_common_onSignalingClientError with an error that asks for a re-creation.
ClientError(c) ==
  /\ c \in connected
  /\ reported' = reported \cup {c}
  /\ restartSignalingClient' = TRUE
  /\ UNCHANGED <<configLock, signalingClientHandle, clients, connected, mainPc, sendVars>>

-----------------------------------------------------------------------------
(* runApp, which goes on whatever its calls return.                          *)

MainGoes(from, to) == mainPc = from /\ mainPc' = to

RunCreate ==
  /\ MainGoes("create", "fetch")
  /\ ClientCreated \/ UNCHANGED clientVars
  /\ UNCHANGED <<configLock, restartSignalingClient, sendVars>>

RunFetch ==
  /\ MainGoes("fetch", "connect")
  /\ UNCHANGED <<configLock, clientVars, restartSignalingClient, sendVars>>

RunConnect ==
  /\ MainGoes("connect", "top")
  /\ \/ signalingClientHandle # NULL /\ ClientConnected
     \/ UNCHANGED clientVars
  /\ UNCHANGED <<configLock, restartSignalingClient, sendVars>>

-----------------------------------------------------------------------------
(* pollApp, between the scan of the sessions and the pending queues.         *)

PollLock_unlocked ==
  /\ MainGoes("top", "test")
  /\ UNCHANGED <<configLock, clientVars, restartSignalingClient, sendVars>>

PollLock ==
  /\ MainGoes("top", "test")
  /\ configLock = NULL /\ configLock' = "main"
  /\ UNCHANGED <<clientVars, restartSignalingClient, sendVars>>

RestartTest ==
  /\ MainGoes("test", IF restartSignalingClient THEN "restart" ELSE "check")
  /\ UNCHANGED <<configLock, clientVars, restartSignalingClient, sendVars>>

RestartFree ==
  /\ MainGoes("restart", "recreate")
  /\ ClientFreed
  /\ UNCHANGED <<configLock, restartSignalingClient>>

\* RestartFreeFails, with the flag cleared although nothing was re-created.
RestartFreeFails_cleared ==
  /\ MainGoes("restart", "check")
  /\ restartSignalingClient' = FALSE
  /\ UNCHANGED <<configLock, clientVars, sendVars>>

\* RestartFreeFails, with the return value of the free ignored.
RestartFreeFails_goesOn ==
  /\ MainGoes("restart", "recreate")
  /\ UNCHANGED <<configLock, clientVars, restartSignalingClient, sendVars>>

RestartFreeFails ==
  /\ MainGoes("restart", "check")
  /\ UNCHANGED <<configLock, clientVars, restartSignalingClient, sendVars>>

RestartCreate ==
  /\ mainPc = "recreate"
  /\ \/ ClientCreated /\ mainPc' = "clear"
     \/ UNCHANGED clientVars /\ mainPc' = "check"
  /\ UNCHANGED <<configLock, restartSignalingClient, sendVars>>

RestartDone_notCleared ==
  /\ MainGoes("clear", "check")
  /\ UNCHANGED <<configLock, clientVars, restartSignalingClient, sendVars>>

RestartDone ==
  /\ MainGoes("clear", "check")
  /\ restartSignalingClient' = FALSE
  /\ UNCHANGED <<configLock, clientVars, sendVars>>

\* app_signaling_check: a valid handle, a state that can be read, and a client
\* that is ready is connected.  With an error pollApp returns.  The round ends here,
\* or with the join of the media thread, when its last session is gone.
Check ==
  /\ mainPc = "check"
  /\ \/ /\ signalingClientHandle # NULL /\ mainPc' \in {"top", "join"}
        /\ ClientConnected \/ UNCHANGED clientVars
     \/ mainPc' = "exit" /\ UNCHANGED clientVars
  /\ configLock' = NULL
  /\ UNCHANGED <<restartSignalingClient, sendVars>>

\* THREAD_JOIN returns, which it need not (MediaControl), and configLock is taken
\* again, for CVAR_WAIT to release it.
ThreadJoined ==
  /\ MainGoes("join", "relock")
  /\ UNCHANGED <<configLock, clientVars, restartSignalingClient, sendVars>>

PollRelock ==
  /\ MainGoes("relock", "top")
  /\ configLock = NULL
  /\ UNCHANGED <<configLock, clientVars, restartSignalingClient, sendVars>>

PollExit ==
  /\ MainGoes("top", "exit")
  /\ UNCHANGED <<configLock, clientVars, restartSignalingClient, sendVars>>

\* freeApp: app_signaling_free, without configLock and whatever is being sent.
\* The mutex is freed with the client, so no call can begin any more.
SignalingFree ==
  /\ MainGoes("exit", "freed")
  /\ \/ signalingClientHandle # NULL /\ ClientFreed
     \/ UNCHANGED <<clientVars, sendVars>>
  /\ UNCHANGED <<configLock, restartSignalingClient>>

-----------------------------------------------------------------------------
(* app_signaling_sendMsg, on thread t.                                       *)

SendGoes(t, from, to) == sendPc[t] = from /\ sendPc' = [sendPc EXCEPT ![t] = to]

\* The thread is done: the signaling thread's handler gives configLock back.
SendEnds(t) == configLock' = IF t = "sig" THEN NULL ELSE configLock

\* An offer's handler has an answer to send, or an ICE agent a candidate or, when the
\* peer cannot trickle, the answer.  The handler took configLock, and may belong to a
\* client that was freed since; the agent has no lock.
SendBegins(t) ==
  /\ mainPc \notin {"create", "freed"}
  /\ SendGoes(t, "idle", "test")
  /\ IF t = "sig" THEN configLock = NULL /\ configLock' = "sig" ELSE UNCHANGED configLock
  /\ UNCHANGED <<clientVars, restartSignalingClient, mainPc, signalingSendMessageLock,
                 sendClient, overtaken>>

\* Validate the input params
SendTest(t) ==
  /\ IF signalingClientHandle # NULL
     THEN SendGoes(t, "test", "lock") /\ UNCHANGED configLock
     ELSE SendGoes(t, "test", "idle") /\ SendEnds(t)
  /\ UNCHANGED <<clientVars, restartSignalingClient, mainPc, signalingSendMessageLock,
                 sendClient, overtaken>>

SendLock(t) ==
  /\ SendGoes(t, "lock", "call")
  /\ mainPc # "freed"
  /\ signalingSendMessageLock = NULL /\ signalingSendMessageLock' = t
  /\ UNCHANGED <<configLock, clientVars, restartSignalingClient, mainPc, sendClient,
                 overtaken>>

\* The handle is read again for the call of signaling_client_sendMsg.
SendCall(t) ==
  /\ SendGoes(t, "call", "sending")
  /\ sendClient' = [sendClient EXCEPT ![t] = signalingClientHandle]
  /\ UNCHANGED <<configLock, clientVars, restartSignalingClient, mainPc,
                 signalingSendMessageLock, overtaken>>

\* The handler of an offer fails before it has an answer, and gives configLock back.
OfferFails ==
  /\ SendGoes("sig", "test", "idle")
  /\ SendEnds("sig")
  /\ UNCHANGED <<clientVars, restartSignalingClient, mainPc, signalingSendMessageLock,
                 sendClient, overtaken>>

SendReturn(t) ==
  /\ SendGoes(t, "sending", "idle")
  /\ SendEnds(t)
  /\ signalingSendMessageLock' = NULL
  /\ sendClient' = [sendClient EXCEPT ![t] = NULL]
  /\ overtaken' = overtaken \ {t}
  /\ UNCHANGED <<clientVars, restartSignalingClient, mainPc>>

-----------------------------------------------------------------------------
MainNext ==
  \/ RunCreate \/ RunFetch \/ RunConnect \/ PollLock \/ RestartTest \/ RestartFree
  \/ RestartFreeFails \/ RestartCreate \/ RestartDone \/ Check \/ ThreadJoined
  \/ PollRelock \/ PollExit \/ SignalingFree

SendNext(t) == SendBegins(t) \/ SendTest(t) \/ SendLock(t) \/ SendCall(t) \/ SendReturn(t)

Next ==
  \/ MainNext \/ OfferFails
  \/ \E t \in Senders : SendNext(t)
  \/ \E c \in Clients : ClientError(c)

Spec == Init /\ [][Next]_vars

(* The main thread and the senders run whenever they can, and a              *)
(* mutex that is free again and again is granted; the library's calls        *)
(* return, but for the join of the media thread.  Nothing is assumed of the  *)
(* ICE agents' wish to send, of errors, or of the results of the library.    *)
MainFairness ==
  /\ SF_vars(PollLock) /\ SF_vars(PollRelock)
  /\ WF_vars(RunCreate \/ RunFetch \/ RunConnect)
  /\ WF_vars(RestartTest \/ RestartDone \/ Check)
  /\ WF_vars(RestartFree \/ RestartFreeFails \/ RestartCreate)

SendFairness(t) == /\ WF_vars(SendCall(t) \/ SendReturn(t))
                   /\ SF_vars(SendLock(t))

-----------------------------------------------------------------------------
(* Properties                                                              *)

\* The application never loses hold of a client: the only one that exists is the
\* one the handle names, also when a step of the re-creation fails.
NoOrphanedClient == clients = {signalingClientHandle} \ {NULL}

\* A message goes through a client that exists, whoever sends it, unless a client was
\* freed after its sender had tested the handle.  For the handler of an offer only
\* freeApp can do that: configLock keeps a re-creation away from its answer.  An ICE
\* agent has no such protection, neither for its candidates nor for the answer to a
\* peer that cannot trickle: app_signaling_restart may free the client under it.
MessageUsesLiveClient ==
  \A t \in Senders :
    sendPc[t] = "sending" /\ sendClient[t] \notin clients =>
      t \in overtaken /\ (t = "sig" => mainPc = "freed")

\* A restart frees only a client that has reported an error itself: an error is
\* not charged to the successor of the client that reported it.
OnlyFailedClientsAreRestarted ==
  [][RestartFree => signalingClientHandle \in reported]_vars

\* AppCommon.c:147 "We will force re-create the signaling client on the
\* following errors": as long as a client that reported one is in use, pollApp
\* tries to re-create it again and again, or returns - unless the join of the media
\* thread between two rounds does not return (JoinHangsOnlyWhenOvertaken).
FailedClientIsRestarted ==
  \/ \A c \in Clients :
       (c \in reported /\ signalingClientHandle = c)
         ~> (mainPc \in {"restart", "exit", "freed"})
  \/ <>[](mainPc = "join")
=============================================================================

----------------------------- MODULE IceServers -----------------------------
(***************************************************************************)
(* The ICE servers of a new connection.  With configLock held, the handler *)
(* of an offer asks for them (app_signaling_queryServer, from              *)
(* app_common_initializePeerConnection) before it has an answer to send:   *)
(* the STUN server first and, if useTurn is set, the URIs of the client's  *)
(* first TURN configuration after it.  The configuration is read in place, *)
(* in the client's own memory, while other threads use, lose and re-create *)
(* the client as SignalingClient describes.                                *)
(*                                                                         *)
(* External: signaling_client_getIceConfigInfoCount and                    *)
(* signaling_client_getIceConfigInfo, which may fail and which give a      *)
(* configuration of at most MaxUris URIs, and the size of iceServers,      *)
(* which has room for one configuration.                                   *)
(***************************************************************************)
EXTENDS SignalingClient

CONSTANTS MaxServers,  \* MAX_ICE_SERVERS_COUNT
          MaxUris      \* MAX_ICE_CONFIG_URI_COUNT

ASSUME RoomAssumption == MaxServers \in Nat /\ MaxUris \in Nat /\ MaxUris + 1 <= MaxServers
ASSUME StunAssumption == "stun" \notin Clients

VARIABLES
  useTurn,
  queryPc,      \* the handler in app_common_initializePeerConnection
  iceServers,   \* the slots that are filled, with the client whose TURN server it is
  uriCount,
  infoClient,   \* the client that pIceConfigInfo points into, or NULL
  infoUris,     \* pIceConfigInfo->uriCount
  iceUriCount

queryVars == <<queryPc, iceServers, uriCount, infoClient, infoUris>>
iceVars == <<useTurn, queryVars, iceUriCount>>
allVars == <<vars, iceVars>>

\* The types, and that the handler is in the query where SignalingClient's handler
\* has configLock and no answer yet.
IceTypeOK ==
  /\ useTurn \in BOOLEAN
  /\ queryPc \in {"idle", "count", "info", "copy", "done"}
  /\ DOMAIN iceServers \subseteq Nat
  /\ uriCount \in 0..MaxUris
  /\ infoClient \in Clients \cup {NULL}
  /\ infoUris \in 0..MaxUris
  /\ iceUriCount \in 0..(MaxServers + 1)
  /\ queryPc # "idle" <=> sendPc["sig"] = "test"

IceInit ==
  /\ Init
  /\ useTurn \in BOOLEAN
  /\ queryPc = "idle"
  /\ iceServers = <<>> /\ uriCount = 0
  /\ infoClient = NULL /\ infoUris = 0
  /\ iceUriCount = 0

-----------------------------------------------------------------------------
\* The STUN server takes the first slot; without TURN that is all.
QueryBegins ==
  /\ SendBegins("sig")
  /\ queryPc' = IF useTurn THEN "count" ELSE "done"
  /\ iceServers' = [i \in {0} |-> "stun"]
  /\ uriCount' = 0
  /\ iceUriCount' = IF useTurn THEN iceUriCount ELSE 2
  /\ UNCHANGED <<useTurn, infoClient, infoUris>>

\* The count is asked for and only its failure matters: maxTurnServer is 1.
QueryCount ==
  /\ queryPc = "count" /\ signalingClientHandle # NULL
  /\ queryPc' = "info"
  /\ UNCHANGED <<vars, useTurn, iceServers, uriCount, infoClient, infoUris, iceUriCount>>

\* The handle is read again.
QueryInfo ==
  /\ queryPc = "info" /\ signalingClientHandle # NULL
  /\ infoClient' = signalingClientHandle
  /\ infoUris' \in 0..MaxUris
  /\ queryPc' = "copy"
  /\ UNCHANGED <<vars, useTurn, iceServers, uriCount, iceUriCount>>

\* With the TURN servers put in from the first slot on.
CopyUri_overStun ==
  /\ queryPc = "copy" /\ uriCount < infoUris
  /\ iceServers' = [i \in DOMAIN iceServers \cup {uriCount} |->
                      IF i = uriCount THEN infoClient ELSE iceServers[i]]
  /\ uriCount' = uriCount + 1
  /\ UNCHANGED <<vars, useTurn, queryPc, infoClient, infoUris, iceUriCount>>

CopyUri ==
  /\ queryPc = "copy" /\ uriCount < infoUris
  /\ iceServers' = [i \in DOMAIN iceServers \cup {uriCount + 1} |->
                      IF i = uriCount + 1 THEN infoClient ELSE iceServers[i]]
  /\ uriCount' = uriCount + 1
  /\ UNCHANGED <<vars, useTurn, queryPc, infoClient, infoUris, iceUriCount>>

\* One is added for the STUN server, and another one by the caller.
QueryEnds ==
  /\ queryPc = "copy" /\ uriCount >= infoUris
  /\ queryPc' = "done" /\ infoClient' = NULL
  /\ iceUriCount' = (uriCount + 1) + 1
  /\ UNCHANGED <<vars, useTurn, iceServers, uriCount, infoUris>>

\* The RtcConfiguration is freed.
ConfigurationFreed ==
  /\ queryPc' = "idle"
  /\ iceServers' = <<>> /\ uriCount' = 0 /\ infoClient' = NULL /\ infoUris' = 0
  /\ UNCHANGED <<useTurn, iceUriCount>>

\* A call of the library fails, or something later; iceUriCount keeps its value.
QueryFails ==
  /\ queryPc \in {"count", "info", "done"}
  /\ ConfigurationFreed
  /\ OfferFails

\* The connection is made, the descriptions are exchanged, and the answer is ready.
ConnectionCreated ==
  /\ queryPc = "done"
  /\ ConfigurationFreed
  /\ SendTest("sig")

-----------------------------------------------------------------------------
QueryNext == QueryCount \/ QueryInfo \/ CopyUri \/ QueryEnds \/ QueryFails \/ ConnectionCreated

AnswerNext == SendLock("sig") \/ SendCall("sig") \/ SendReturn("sig")

\* What does not touch the query.
OthersNext ==
  \/ MainNext \/ AnswerNext
  \/ \E t \in IceAgents : SendNext(t)
  \/ \E c \in Clients : ClientError(c)

OthersStep == OthersNext /\ UNCHANGED iceVars

IceNext == QueryBegins \/ QueryNext \/ OthersStep

IceSpec == IceInit /\ [][IceNext]_allVars

\* SignalingClient's fairness; and the handler's calls of the library return.
IceFairSpec ==
  /\ IceSpec
  /\ MainFairness
  /\ \A t \in Senders : SendFairness(t)
  /\ \A t \in IceAgents : WF_vars(SendTest(t))
  /\ WF_allVars(QueryNext)

-----------------------------------------------------------------------------
(* Properties                                                              *)

\* Until freeApp, the configuration that is being copied is that of a client that
\* exists, and the TURN servers of a connection are those of the client in use
\* when the connection is made: no re-creation comes in between.
TurnServersAreCurrent ==
  mainPc # "freed" =>
    /\ queryPc = "copy" => infoClient \in clients
    /\ \A i \in DOMAIN iceServers \ {0} : iceServers[i] = signalingClientHandle

\* The slots are filled from the first, which stays the STUN server's, without a
\* gap and within the array; *pServerNum is their number, and iceUriCount, to which
\* the caller adds one again, is one more (AppCommon.c:589).
IceServersAreDense ==
  queryPc # "idle" =>
    /\ queryPc = "done" => iceUriCount = (uriCount + 1) + 1
    /\ DOMAIN iceServers = 0..uriCount /\ uriCount < MaxServers
    /\ \A i \in 0..uriCount : iceServers[i] = "stun" <=> i = 0

\* A connection is made with the STUN server and the TURN servers of the client
\* in use, each in its slot.
IceServersAreSound == TurnServersAreCurrent /\ IceServersAreDense
=============================================================================

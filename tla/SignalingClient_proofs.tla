------------------------ MODULE SignalingClient_proofs ------------------------
(***************************************************************************)
(* The signaling client, for any number of heap blocks and ICE agents:     *)
(* none is orphaned or restarted for the error of another, and a message   *)
(* is sent through a client that exists unless one was freed meanwhile,    *)
(* which can befall the ICE agents but not the handler of an offer.  Then  *)
(* the ICE servers, for any size of a configuration that fits.             *)
(***************************************************************************)
EXTENDS IceServers, TLAPS

\* Only the client in use has been connected or has reported an error.
OnlyClientsReport == reported \subseteq connected /\ connected \subseteq clients

\* The main thread creates a client only when it has none.
CreatesWithoutClient == mainPc \in {"create", "recreate"} => signalingClientHandle = NULL

\* A flag that pollApp is going to act on was raised by the client in use.
FlagIsCharged ==
  /\ mainPc = "restart" => restartSignalingClient
  /\ restartSignalingClient /\ mainPc \in {"create", "fetch", "connect", "top", "join",
                                          "relock", "test", "restart"}
       => signalingClientHandle \in reported
  /\ restartSignalingClient /\ mainPc = "check"
       => signalingClientHandle \in reported \cup {NULL}

\* The handle that a sender has validated stays valid up to its use unless the sender
\* is overtaken, and until freeApp the signaling thread is not.
SendersKeepHandle ==
  /\ sendPc["sig"] # "idle" => mainPc # "create"
  /\ sendPc["sig"] \in {"lock", "call", "sending"} /\ mainPc # "freed"
       => "sig" \notin overtaken
  /\ \A t \in Senders \ overtaken :
       /\ sendPc[t] \in {"lock", "call"} => signalingClientHandle # NULL
       /\ sendPc[t] = "sending" => sendClient[t] \in clients
  /\ overtaken \subseteq UnderWay

\* The inductive invariant.
Inv == /\ TypeOK /\ NoOrphanedClient /\ OnlyClientsReport /\ CreatesWithoutClient
       /\ FlagIsCharged /\ SendersKeepHandle

-----------------------------------------------------------------------------
LEMMA InitInv == Init => Inv
<1> SUFFICES ASSUME Init PROVE Inv
  OBVIOUS
<1>1. TypeOK
  BY ThreadsAssumption DEF Init, TypeOK, Senders
<1> QED
  BY <1>1 DEF Init, Inv, Senders, NoOrphanedClient, OnlyClientsReport, CreatesWithoutClient,
     FlagIsCharged, SendersKeepHandle

\* What the library's calls do to the clients.
LEMMA ClientCalls ==
  ASSUME Inv
  PROVE  /\ ClientCreated /\ signalingClientHandle = NULL =>
              /\ NoOrphanedClient' /\ OnlyClientsReport'
              /\ signalingClientHandle' \in Clients
              /\ clients' \in SUBSET Clients
         /\ ClientFreed =>
              /\ NoOrphanedClient' /\ OnlyClientsReport'
              /\ signalingClientHandle' = NULL /\ clients' \in SUBSET Clients
         /\ ClientConnected /\ signalingClientHandle # NULL =>
              /\ NoOrphanedClient' /\ OnlyClientsReport'
BY ClientsAssumption DEF Inv, TypeOK, NoOrphanedClient, OnlyClientsReport, ClientCreated,
   ClientFreed, ClientConnected

\* The main thread, step by step.
LEMMA MainInv ==
  ASSUME Inv, MainNext
  PROVE  /\ TypeOK' /\ NoOrphanedClient' /\ OnlyClientsReport'
         /\ CreatesWithoutClient' /\ FlagIsCharged'
<1> USE ThreadsAssumption, ClientsAssumption
    DEF MainGoes, clientVars, sendVars, Senders, CreatesWithoutClient, FlagIsCharged
<1>1. CASE RunCreate
  <2>1. CASE ClientCreated
    <3>1. NoOrphanedClient' /\ OnlyClientsReport' /\ clients' \in SUBSET Clients
          /\ signalingClientHandle' \in Clients
      BY <1>1, <2>1, ClientCalls DEF RunCreate, Inv
    <3>2. TypeOK' /\ restartSignalingClient = FALSE
      BY <1>1, <3>1 DEF RunCreate, Inv, TypeOK, OnlyClientsReport, NoOrphanedClient
    <3> QED
      BY <1>1, <3>1, <3>2 DEF RunCreate, Inv
  <2>2. CASE UNCHANGED clientVars
    BY <1>1, <2>2 DEF RunCreate, Inv, TypeOK, NoOrphanedClient, OnlyClientsReport
  <2> QED
    BY <1>1, <2>1, <2>2 DEF RunCreate
<1>2. CASE RunFetch
  BY <1>2 DEF RunFetch, Inv, TypeOK, NoOrphanedClient, OnlyClientsReport
<1>3. CASE RunConnect
  <2>1. /\ NoOrphanedClient' /\ OnlyClientsReport' /\ connected' \in SUBSET Clients
        /\ UNCHANGED <<signalingClientHandle, clients, reported>>
    BY <1>3, ClientCalls
       DEF RunConnect, ClientConnected, Inv, TypeOK, NoOrphanedClient, OnlyClientsReport
  <2> QED
    BY <1>3, <2>1 DEF RunConnect, Inv, TypeOK
<1>4. CASE PollLock
  BY <1>4 DEF PollLock, Inv, TypeOK, NoOrphanedClient, OnlyClientsReport
<1>5. CASE RestartTest
  BY <1>5 DEF RestartTest, Inv, TypeOK, NoOrphanedClient, OnlyClientsReport
<1>6. CASE RestartFree
  <2>1. /\ NoOrphanedClient' /\ OnlyClientsReport'
        /\ signalingClientHandle' = NULL /\ clients' \in SUBSET Clients
    BY <1>6, ClientCalls DEF RestartFree
  <2>2. sendPc["sig"] = "idle"
    BY <1>6 DEF RestartFree, Inv, TypeOK
  <2>3. TypeOK'
    <3>1. overtaken' \in SUBSET Senders
      BY <1>6 DEF RestartFree, ClientFreed, UnderWay, Inv, TypeOK
    <3>2. UNCHANGED <<signalingSendMessageLock, sendPc, sendClient>>
          /\ {connected', reported'} \subseteq SUBSET Clients
      BY <1>6 DEF RestartFree, ClientFreed, Inv, TypeOK
    <3> QED
      BY <1>6, <2>1, <3>1, <3>2 DEF RestartFree, Inv, TypeOK
  <2> QED
    BY <1>6, <2>1, <2>2, <2>3 DEF RestartFree, Inv
<1>7. CASE RestartFreeFails
  BY <1>7 DEF RestartFreeFails, Inv, TypeOK, NoOrphanedClient, OnlyClientsReport
<1>8. CASE RestartCreate
  <2>1. sendPc["sig"] = "idle" /\ signalingClientHandle = NULL
    BY <1>8 DEF RestartCreate, Inv, TypeOK
  <2>2. CASE ClientCreated /\ mainPc' = "clear"
    <3>1. NoOrphanedClient' /\ OnlyClientsReport' /\ clients' \in SUBSET Clients
          /\ signalingClientHandle' \in Clients
      BY <2>1, <2>2, ClientCalls
    <3>2. TypeOK'
      BY <1>8, <2>2, <3>1 DEF RestartCreate, Inv, TypeOK, OnlyClientsReport
    <3> QED
      BY <1>8, <2>1, <2>2, <3>1, <3>2 DEF RestartCreate, Inv
  <2>3. CASE UNCHANGED clientVars /\ mainPc' = "check"
    BY <1>8, <2>1, <2>3 DEF RestartCreate, Inv, TypeOK, NoOrphanedClient, OnlyClientsReport
  <2> QED
    BY <1>8, <2>2, <2>3 DEF RestartCreate
<1>9. CASE RestartDone
  BY <1>9 DEF RestartDone, Inv, TypeOK, NoOrphanedClient, OnlyClientsReport
<1>10. CASE Check
  <2>1. /\ NoOrphanedClient' /\ OnlyClientsReport' /\ connected' \in SUBSET Clients
        /\ UNCHANGED <<signalingClientHandle, clients, reported>>
    BY <1>10, ClientCalls
       DEF Check, ClientConnected, Inv, TypeOK, NoOrphanedClient, OnlyClientsReport
  <2>2. sendPc["sig"] = "idle"
    BY <1>10 DEF Check, Inv, TypeOK
  <2> QED
    BY <1>10, <2>1, <2>2 DEF Check, Inv, TypeOK
<1>11. CASE PollExit
  BY <1>11 DEF PollExit, Inv, TypeOK, NoOrphanedClient, OnlyClientsReport
<1>12. CASE SignalingFree
  <2>1. /\ NoOrphanedClient' /\ OnlyClientsReport' /\ clients' \in SUBSET Clients
        /\ signalingClientHandle' \in Clients \cup {NULL}
    BY <1>12, ClientCalls DEF SignalingFree, Inv, TypeOK, NoOrphanedClient, OnlyClientsReport
  <2>2. TypeOK'
    <3>1. overtaken' \in SUBSET Senders
      BY <1>12 DEF SignalingFree, ClientFreed, UnderWay, Inv, TypeOK
    <3>2. UNCHANGED <<signalingSendMessageLock, sendPc, sendClient>>
          /\ {connected', reported'} \subseteq SUBSET Clients
      BY <1>12 DEF SignalingFree, ClientFreed, Inv, TypeOK
    <3> QED
      BY <1>12, <2>1, <3>1, <3>2 DEF SignalingFree, Inv, TypeOK
  <2>3. mainPc' = "freed"
    BY <1>12 DEF SignalingFree
  <2> QED
    BY <2>1, <2>2, <2>3
<1>13. CASE ThreadJoined
  BY <1>13 DEF ThreadJoined, Inv, TypeOK, NoOrphanedClient, OnlyClientsReport
<1>14. CASE PollRelock
  BY <1>14 DEF PollRelock, Inv, TypeOK, NoOrphanedClient, OnlyClientsReport
<1> QED
  BY <1>1, <1>2, <1>3, <1>4, <1>5, <1>6, <1>7, <1>8, <1>9, <1>10, <1>11, <1>12, <1>13,
     <1>14 DEF MainNext

\* A free of the client overtakes whoever has tested the handle; it is not the
\* handler of an offer but in freeApp.
LEMMA MainKeepsSenders ==
  ASSUME Inv, MainNext
  PROVE  SendersKeepHandle'
<1> USE ThreadsAssumption, ClientsAssumption DEF MainGoes, clientVars, sendVars, Senders
<1>1. UNCHANGED <<sendPc, sendClient>>
  BY DEF MainNext, RunCreate, RunFetch, RunConnect, PollLock, RestartTest, RestartFree,
     RestartFreeFails, RestartCreate, RestartDone, Check, ThreadJoined, PollRelock, PollExit,
     SignalingFree, ClientFreed
<1>2. CASE RestartFree \/ (SignalingFree /\ ClientFreed)
  <2>1. /\ overtaken' = overtaken \cup UnderWay
        /\ mainPc' = "recreate" => sendPc["sig"] = "idle"
        /\ mainPc' \in {"recreate", "freed"}
    BY <1>2 DEF RestartFree, SignalingFree, ClientFreed, Inv, TypeOK
  <2>2. \A t \in Senders \ overtaken' : sendPc[t] \notin {"lock", "call", "sending"}
    BY <2>1 DEF UnderWay
  <2> QED
    BY <1>1, <2>1, <2>2 DEF SendersKeepHandle, UnderWay, Inv
<1>3. CASE RunCreate \/ RestartCreate
  <2>1. /\ overtaken' = overtaken /\ clients \subseteq clients'
        /\ signalingClientHandle # NULL => signalingClientHandle' # NULL
        /\ mainPc # "freed" /\ mainPc' # "create"
    BY <1>3 DEF RunCreate, RestartCreate, ClientCreated
  <2> QED
    BY <1>1, <2>1 DEF SendersKeepHandle, UnderWay, Inv
<1>4. CASE ~(RunCreate \/ RestartCreate \/ RestartFree \/ (SignalingFree /\ ClientFreed))
  <2>1. /\ UNCHANGED <<overtaken, clients, signalingClientHandle>>
        /\ mainPc # "freed" /\ mainPc' # "create"
    BY <1>4 DEF MainNext, RunFetch, RunConnect, PollLock, RestartTest, RestartFreeFails,
       RestartDone, Check, ThreadJoined, PollRelock, PollExit, SignalingFree, ClientConnected
  <2> QED
    BY <1>1, <2>1 DEF SendersKeepHandle, UnderWay, Inv
<1> QED
  BY <1>2, <1>3, <1>4

\* app_signaling_sendMsg changes no client; only the answer's handle matters.
LEMMA SendInv ==
  ASSUME Inv, NEW t \in Senders, SendNext(t)
  PROVE  Inv'
<1> USE ThreadsAssumption, ClientsAssumption
    DEF SendGoes, SendEnds, clientVars, Senders
<1>1. UNCHANGED <<clientVars, restartSignalingClient, mainPc>>
  BY DEF SendNext, SendBegins, SendTest, SendLock, SendCall, SendReturn
<1>2. /\ NoOrphanedClient' /\ OnlyClientsReport' /\ CreatesWithoutClient' /\ FlagIsCharged'
  BY <1>1 DEF Inv, NoOrphanedClient, OnlyClientsReport, CreatesWithoutClient, FlagIsCharged
<1>3. TypeOK'
  <2>1. CASE SendBegins(t)
    <3>1. /\ sendPc' \in [Senders -> {"idle", "test", "lock", "call", "sending"}]
          /\ \A u \in Senders : sendPc'[u] = IF u = t THEN "test" ELSE sendPc[u]
          /\ sendPc[t] = "idle"
      BY <2>1 DEF SendBegins, Inv, TypeOK
    <3>2. CASE t = "sig"
      BY <2>1, <3>1, <3>2 DEF SendBegins, Inv, TypeOK
    <3>3. CASE t # "sig"
      BY <2>1, <3>1, <3>3 DEF SendBegins, Inv, TypeOK
    <3> QED
      BY <3>2, <3>3
  <2>2. CASE SendTest(t)
    <3>1. /\ sendPc' \in [Senders -> {"idle", "test", "lock", "call", "sending"}]
          /\ \A u \in Senders : u # t => sendPc'[u] = sendPc[u]
          /\ sendPc[t] = "test" /\ sendPc'[t] \in {"lock", "idle"}
          /\ UNCHANGED <<sendClient, overtaken, signalingSendMessageLock>>
          /\ sendPc'[t] = "lock" => configLock' = configLock
          /\ sendPc'[t] = "idle" => configLock' = IF t = "sig" THEN NULL ELSE configLock
      <4>1. /\ sendPc[t] = "test"
            /\ UNCHANGED <<sendClient, overtaken, signalingSendMessageLock>>
            /\ \/ sendPc' = [sendPc EXCEPT ![t] = "lock"] /\ configLock' = configLock
               \/ /\ sendPc' = [sendPc EXCEPT ![t] = "idle"]
                  /\ configLock' = IF t = "sig" THEN NULL ELSE configLock
        BY <2>2 DEF SendTest
      <4>2. sendPc \in [Senders -> {"idle", "test", "lock", "call", "sending"}]
        BY DEF Inv, TypeOK
      <4>3. CASE sendPc' = [sendPc EXCEPT ![t] = "lock"] /\ configLock' = configLock
        BY <4>1, <4>2, <4>3
      <4>4. CASE /\ sendPc' = [sendPc EXCEPT ![t] = "idle"]
                 /\ configLock' = IF t = "sig" THEN NULL ELSE configLock
        BY <4>1, <4>2, <4>4
      <4> QED
        BY <4>1, <4>3, <4>4
    <3>2. ASSUME NEW u \in Senders
          PROVE  sendPc'[u] \in {"call", "sending"} <=> sendPc[u] \in {"call", "sending"}
      <4>1. CASE u = t
        BY <3>1, <4>1
      <4>2. CASE u # t
        BY <3>1, <4>2
      <4> QED
        BY <4>1, <4>2
    <3>3. configLock' \in {"sig", "main", NULL} /\ (configLock' = "main" <=> configLock = "main")
      <4>1. CASE sendPc'[t] = "idle" /\ t = "sig"
        <5>1. configLock = "sig"
          BY <3>1, <4>1 DEF Inv, TypeOK
        <5> QED
          BY <3>1, <4>1, <5>1
      <4>2. CASE ~(sendPc'[t] = "idle" /\ t = "sig")
        BY <3>1, <4>2 DEF Inv, TypeOK
      <4> QED
        BY <4>1, <4>2
    <3>4. configLock' = "sig" <=> sendPc'["sig"] # "idle"
      BY <3>1 DEF Inv, TypeOK
    <3> QED
      BY <1>1, <3>1, <3>2, <3>3, <3>4 DEF Inv, TypeOK
  <2>3. CASE SendLock(t)
    BY <2>3 DEF SendLock, Inv, TypeOK
  <2>4. CASE SendCall(t)
    BY <2>4 DEF SendCall, Inv, TypeOK
  <2>5. CASE SendReturn(t)
    <3>1. overtaken' \in SUBSET Senders
      BY <2>5 DEF SendReturn, Inv, TypeOK
    <3> QED
      BY <2>5, <3>1 DEF SendReturn, Inv, TypeOK
  <2> QED
    BY <2>1, <2>2, <2>3, <2>4, <2>5 DEF SendNext
<1>4. SendersKeepHandle'
  <2>1. \A u \in Senders : u # t =>
          /\ sendPc'[u] = sendPc[u] /\ sendClient'[u] = sendClient[u]
          /\ u \in overtaken' <=> u \in overtaken
    BY DEF SendNext, SendBegins, SendTest, SendLock, SendCall, SendReturn, Inv, TypeOK
  <2>2. /\ sendPc'[t] \in {"lock", "call"} /\ t \notin overtaken' => signalingClientHandle # NULL
        /\ sendPc'[t] = "sending" /\ t \notin overtaken' => sendClient'[t] \in clients
    BY DEF SendNext, SendBegins, SendTest, SendLock, SendCall, SendReturn, Inv, TypeOK,
       NoOrphanedClient, SendersKeepHandle
  <2>3. /\ sendPc'["sig"] # "idle" => mainPc # "create"
        /\ sendPc'["sig"] \in {"lock", "call", "sending"} /\ mainPc # "freed"
             => "sig" \notin overtaken'
    <3>1. CASE t = "sig"
      <4>1. sendPc'["sig"] # "idle" => mainPc # "create"
        BY <3>1 DEF SendNext, SendBegins, SendTest, SendLock, SendCall, SendReturn, Inv,
           TypeOK, SendersKeepHandle
      <4>2. /\ sendPc["sig"] \in {"idle", "test"} => "sig" \notin overtaken
            /\ overtaken' \subseteq overtaken
        BY DEF SendNext, SendBegins, SendTest, SendLock, SendCall, SendReturn, Inv,
           SendersKeepHandle, UnderWay
      <4> QED
        BY <3>1, <4>1, <4>2 DEF SendNext, SendBegins, SendTest, SendLock, SendCall,
           SendReturn, Inv, TypeOK, SendersKeepHandle
    <3>2. CASE t # "sig"
      BY <2>1, <3>2 DEF Inv, SendersKeepHandle
    <3> QED
      BY <3>1, <3>2
  <2>4. overtaken' \subseteq UnderWay'
    <3>1. overtaken \subseteq UnderWay
      BY DEF Inv, SendersKeepHandle
    <3>2. ASSUME NEW u \in Senders, u \in overtaken' PROVE sendPc'[u] \in {"lock", "call", "sending"}
      BY <2>1, <3>1, <3>2 DEF UnderWay, SendNext, SendBegins, SendTest, SendLock, SendCall,
         SendReturn, Inv, TypeOK
    <3>3. overtaken' \subseteq Senders
      BY <1>3 DEF TypeOK
    <3> QED
      BY <3>2, <3>3 DEF UnderWay
  <2>5. ASSUME NEW u \in Senders, u \notin overtaken'
        PROVE  /\ sendPc'[u] \in {"lock", "call"} => signalingClientHandle' # NULL
               /\ sendPc'[u] = "sending" => sendClient'[u] \in clients'
    BY <1>1, <2>1, <2>2, <2>5 DEF Inv, SendersKeepHandle
  <2> QED
    BY <1>1, <2>3, <2>4, <2>5 DEF SendersKeepHandle
<1> QED
  BY <1>2, <1>3, <1>4 DEF Inv

LEMMA MainStepInv == Inv /\ MainNext => Inv'
BY MainInv, MainKeepsSenders DEF Inv

LEMMA NextInv == Inv /\ [Next]_vars => Inv'
<1> SUFFICES ASSUME Inv, [Next]_vars PROVE Inv'
  OBVIOUS
<1> USE DEF Inv, TypeOK, NoOrphanedClient, OnlyClientsReport, CreatesWithoutClient,
        FlagIsCharged, SendersKeepHandle, UnderWay
<1>1. ASSUME NEW c \in Clients, ClientError(c) PROVE Inv'
  BY <1>1, ClientsAssumption DEF ClientError, sendVars
<1>2. CASE OfferFails
  BY <1>2, ThreadsAssumption DEF OfferFails, SendGoes, SendEnds, clientVars, Senders
<1>3. CASE UNCHANGED vars
  BY <1>3 DEF vars, clientVars, sendVars
<1> QED
  BY <1>1, <1>2, <1>3, MainStepInv, SendInv DEF Next

LEMMA SpecInv == Spec => []Inv
BY InitInv, NextInv, PTL DEF Spec

-----------------------------------------------------------------------------
\* The types hold, and the locks are held where the code holds them.
THEOREM TypeCorrect == Spec => []TypeOK
<1>1. Inv => TypeOK
  BY DEF Inv
<1> QED
  BY <1>1, SpecInv, PTL

\* The only client that exists is the one the handle names.
THEOREM NoneOrphaned == Spec => []NoOrphanedClient
<1>1. Inv => NoOrphanedClient
  BY DEF Inv
<1> QED
  BY <1>1, SpecInv, PTL

\* A message goes through a client that exists unless a client was freed while it was
\* under way, which for the handler of an offer takes freeApp.
THEOREM MessagesAreSafe == Spec => []MessageUsesLiveClient
<1>1. Inv => MessageUsesLiveClient
  BY DEF Inv, SendersKeepHandle, MessageUsesLiveClient, Senders
<1> QED
  BY <1>1, SpecInv, PTL

\* Only a client that has reported an error itself is freed by a restart.
THEOREM RestartIsDeserved == Spec => OnlyFailedClientsAreRestarted
<1>1. Inv /\ [Next]_vars => [RestartFree => signalingClientHandle \in reported]_vars
  BY DEF Inv, FlagIsCharged, RestartFree, MainGoes
<1> QED
  BY <1>1, SpecInv, PTL DEF Spec, OnlyFailedClientsAreRestarted

-----------------------------------------------------------------------------
(* The ICE servers.                                                          *)

\* Every step of the whole is one of the signaling client, or leaves it alone.
LEMMA ClientStep == [IceNext]_allVars => [Next]_vars
<1> SUFFICES ASSUME [IceNext]_allVars PROVE [Next]_vars
  OBVIOUS
<1>1. CASE QueryBegins
  BY <1>1 DEF QueryBegins, Next, SendNext, Senders
<1>2. CASE QueryNext
  BY <1>2 DEF QueryNext, QueryCount, QueryInfo, CopyUri, QueryEnds, QueryFails,
     ConnectionCreated, Next, SendNext, Senders
<1>3. CASE OthersStep
  BY <1>3 DEF OthersStep, OthersNext, AnswerNext, Next, SendNext, Senders
<1> QED
  BY <1>1, <1>2, <1>3 DEF IceNext, allVars

\* The queries leave the specification of the signaling client intact, so that
\* what is proved of it holds while connections are made.
THEOREM QueriesKeepTheClient == IceSpec => Spec
<1>1. IceInit => Init
  BY DEF IceInit
<1> QED
  BY <1>1, ClientStep, PTL DEF IceSpec, Spec

\* While a client is asked it exists, and only its servers are in the array.
QueryKeepsClient ==
  /\ queryPc = "copy" => infoClient \in Clients /\ uriCount <= infoUris
  /\ queryPc = "copy" /\ mainPc # "freed" => infoClient = signalingClientHandle
  /\ queryPc \in {"count", "info"} => uriCount = 0
  /\ queryPc = "idle" => DOMAIN iceServers = {}
  /\ \A i \in DOMAIN iceServers : i # 0 => iceServers[i] \in Clients

IceInv == IceTypeOK /\ TurnServersAreCurrent /\ IceServersAreDense /\ QueryKeepsClient

LEMMA IceInitInv == IceInit => IceInv
<1> SUFFICES ASSUME IceInit PROVE IceInv
  OBVIOUS
<1>1. DOMAIN iceServers = {} /\ sendPc["sig"] = "idle"
  BY DEF IceInit, Init, Senders
<1> QED
  BY <1>1, RoomAssumption DEF IceInit, IceInv, IceTypeOK, TurnServersAreCurrent,
     IceServersAreDense, QueryKeepsClient

\* While the handler is in the query, the handle is that of an existing client,
\* or of none, and does not change before freeApp.
LEMMA HandleKept ==
  ASSUME Inv, OthersNext, sendPc["sig"] = "test", mainPc' # "freed"
  PROVE  mainPc # "freed" /\ signalingClientHandle' = signalingClientHandle
<1> USE ThreadsAssumption DEF MainGoes, clientVars
<1>1. CASE MainNext
  <2>1. mainPc \notin {"restart", "recreate", "create"}
    BY DEF Inv, TypeOK, SendersKeepHandle
  <2> QED
    BY <1>1, <2>1 DEF MainNext, RunCreate, RunFetch, RunConnect, PollLock, RestartTest,
       RestartFree, RestartFreeFails, RestartCreate, RestartDone, Check, ThreadJoined,
       PollRelock, PollExit, SignalingFree, ClientFreed, ClientConnected
<1>2. CASE AnswerNext \/ \E t \in IceAgents : SendNext(t)
  BY <1>2 DEF AnswerNext, SendNext, SendBegins, SendTest, SendLock, SendCall, SendReturn
<1>3. CASE \E c \in Clients : ClientError(c)
  BY <1>3 DEF ClientError
<1> QED
  BY <1>1, <1>2, <1>3 DEF OthersNext

\* The other threads do not move the handler within the query.
LEMMA HandlerKept ==
  ASSUME Inv, OthersNext
  PROVE  sendPc'["sig"] = "test" <=> sendPc["sig"] = "test"
<1> USE ThreadsAssumption DEF Senders, Inv, TypeOK
<1>1. CASE MainNext
  BY <1>1 DEF MainNext, RunCreate, RunFetch, RunConnect, PollLock, RestartTest, RestartFree,
     RestartFreeFails, RestartCreate, RestartDone, Check, ThreadJoined, PollRelock, PollExit,
     SignalingFree, ClientFreed, sendVars
<1>2. CASE AnswerNext
  BY <1>2 DEF AnswerNext, SendLock, SendCall, SendReturn, SendGoes
<1>3. CASE \E t \in IceAgents : SendNext(t)
  BY <1>3 DEF SendNext, SendBegins, SendTest, SendLock, SendCall, SendReturn, SendGoes
<1>4. CASE \E c \in Clients : ClientError(c)
  BY <1>4 DEF ClientError, sendVars
<1> QED
  BY <1>1, <1>2, <1>3, <1>4 DEF OthersNext

LEMMA IceNextInv == IceInv /\ Inv /\ Inv' /\ [IceNext]_allVars => IceInv'
<1> SUFFICES ASSUME IceInv, Inv, Inv', [IceNext]_allVars PROVE IceInv'
  OBVIOUS
<1> USE RoomAssumption, StunAssumption, ClientsAssumption, ThreadsAssumption DEF IceInv
<1>1. CASE QueryBegins
  <2>1. sendPc["sig"] = "idle" /\ sendPc'["sig"] = "test"
    BY <1>1 DEF QueryBegins, SendBegins, SendGoes, Inv, TypeOK, Senders
  <2>2. DOMAIN iceServers' = {0} /\ iceServers'[0] = "stun" /\ uriCount' = 0
    BY <1>1 DEF QueryBegins
  <2> QED
    BY <1>1, <2>1, <2>2 DEF QueryBegins, IceTypeOK, TurnServersAreCurrent, IceServersAreDense,
       QueryKeepsClient
<1>2. CASE QueryCount \/ QueryInfo
  BY <1>2 DEF QueryCount, QueryInfo, vars, clientVars, sendVars, Inv, TypeOK,
     NoOrphanedClient, IceTypeOK, TurnServersAreCurrent, IceServersAreDense, QueryKeepsClient
<1>3. CASE CopyUri
  <2>1. /\ DOMAIN iceServers' = DOMAIN iceServers \cup {uriCount + 1}
        /\ iceServers'[uriCount + 1] = infoClient
        /\ \A i \in DOMAIN iceServers : i # uriCount + 1 => iceServers'[i] = iceServers[i]
    BY <1>3 DEF CopyUri
  <2>2. /\ DOMAIN iceServers = 0..uriCount /\ uriCount \in Nat /\ uriCount' = uriCount + 1
        /\ uriCount' <= infoUris /\ infoUris \in 0..MaxUris /\ infoClient \in Clients
        /\ UNCHANGED <<vars, useTurn, queryPc, infoClient, infoUris, iceUriCount>>
        /\ queryPc = "copy"
    BY <1>3 DEF CopyUri, IceTypeOK, IceServersAreDense, QueryKeepsClient
  <2>3. DOMAIN iceServers' = 0..uriCount'
    BY <2>1, <2>2
  <2>4. IceTypeOK' /\ QueryKeepsClient'
    BY <2>1, <2>2, <2>3 DEF vars, clientVars, sendVars, IceTypeOK, QueryKeepsClient
  <2>5. TurnServersAreCurrent'
    BY <2>1, <2>2 DEF vars, clientVars, sendVars, TurnServersAreCurrent, QueryKeepsClient
  <2>6. IceServersAreDense'
    BY <2>1, <2>2, <2>3 DEF IceServersAreDense
  <2> QED
    BY <2>4, <2>5, <2>6
<1>4. CASE QueryEnds
  BY <1>4 DEF QueryEnds, vars, clientVars, sendVars, IceTypeOK, TurnServersAreCurrent,
     IceServersAreDense, QueryKeepsClient
<1>5. CASE QueryFails \/ ConnectionCreated
  <2>1. sendPc'["sig"] # "test"
    BY <1>5 DEF QueryFails, OfferFails, ConnectionCreated, SendTest, SendGoes, Inv, TypeOK,
       Senders
  <2>2. DOMAIN iceServers' = {} /\ queryPc' = "idle" /\ uriCount' = 0
        /\ infoUris' = 0 /\ infoClient' = NULL /\ UNCHANGED <<useTurn, iceUriCount>>
    BY <1>5 DEF QueryFails, ConnectionCreated, ConfigurationFreed
  <2> QED
    BY <2>1, <2>2 DEF IceTypeOK, TurnServersAreCurrent, IceServersAreDense, QueryKeepsClient
<1>6. CASE OthersStep
  <2>1. OthersNext /\ UNCHANGED <<useTurn, queryPc, iceServers, uriCount, infoClient, infoUris,
                                  iceUriCount>>
    BY <1>6 DEF OthersStep, iceVars, queryVars
  <2>2. IceTypeOK' /\ IceServersAreDense'
    BY <2>1, HandlerKept DEF IceTypeOK, IceServersAreDense
  <2>3. ASSUME queryPc # "idle", mainPc' # "freed"
        PROVE  mainPc # "freed" /\ signalingClientHandle' = signalingClientHandle
    BY <2>1, <2>3, HandleKept DEF IceTypeOK
  <2>4. QueryKeepsClient'
    BY <2>1, <2>3 DEF QueryKeepsClient
  <2>5. TurnServersAreCurrent'
    <3>1. CASE queryPc = "idle"
      BY <2>1, <3>1 DEF TurnServersAreCurrent, QueryKeepsClient
    <3>2. CASE queryPc # "idle" /\ mainPc' # "freed"
      BY <2>1, <2>3, <3>2 DEF TurnServersAreCurrent, QueryKeepsClient, Inv, NoOrphanedClient
    <3> QED
      BY <3>1, <3>2 DEF TurnServersAreCurrent
  <2> QED
    BY <2>2, <2>4, <2>5
<1>7. CASE UNCHANGED allVars
  BY <1>7 DEF allVars, vars, clientVars, sendVars, iceVars, queryVars, IceTypeOK,
     TurnServersAreCurrent, IceServersAreDense, QueryKeepsClient
<1> QED
  BY <1>1, <1>2, <1>3, <1>4, <1>5, <1>6, <1>7 DEF IceNext, QueryNext

LEMMA IceAlways == IceSpec => []IceInv
<1>1. IceSpec => []Inv
  BY QueriesKeepTheClient, SpecInv, PTL
<1> QED
  BY <1>1, IceInitInv, IceNextInv, PTL DEF IceSpec

\* The types of the query, and that it is within the handler's lock.
THEOREM IceTypeCorrect == IceSpec => []IceTypeOK
<1>1. IceInv => IceTypeOK
  BY DEF IceInv
<1> QED
  BY <1>1, IceAlways, PTL

\* No re-creation of the client comes between the query for its TURN servers and
\* the connection that uses them.
THEOREM TurnServersCurrent == IceSpec => []TurnServersAreCurrent
<1>1. IceInv => TurnServersAreCurrent
  BY DEF IceInv
<1> QED
  BY <1>1, IceAlways, PTL

\* The servers fill the array from its start and fit it, for every number of URIs.
THEOREM IceServersDense == IceSpec => []IceServersAreDense
<1>1. IceInv => IceServersAreDense
  BY DEF IceInv
<1> QED
  BY <1>1, IceAlways, PTL

\* Both together, for the servers of a connection (AppSignaling.c:42).
THEOREM IceServersSound == IceSpec => []IceServersAreSound
  BY TurnServersCurrent, IceServersDense, PTL DEF IceServersAreSound
=============================================================================

----------------------------- MODULE Negotiation -----------------------------
(***************************************************************************)
(* The answer to an offer, and the local candidates (AppCommon.c).  Two    *)
(* threads can answer: the signaling thread in app_common_handleOffer, if  *)
(* the peer can trickle candidates, and the session's ICE agent in         *)
(* app_common_onIceCandidate when it has gathered them all, if it cannot.  *)
(* They agree through remoteCanTrickleIce, a field without a lock that the *)
(* first writes and both read.                                             *)
(*                                                                         *)
(* External: pc_* of the library.  pc_setLocalDescription starts the       *)
(* gathering; the ICE agent then calls back once per candidate and once,   *)
(* at the end, without one, on one thread per session; pc_createAnswer     *)
(* writes into the answer the candidates gathered so far.  Every call may  *)
(* fail.  A message is sent or its loss is reported by                     *)
(* app_signaling_sendMsg.                                                  *)
(*                                                                         *)
(* Abstracted: a session is negotiated once and is not freed meanwhile     *)
(* (StreamingSessions is about that); the handler holds configLock, so one *)
(* offer is handled at a time.  peerIdReceived is TRUE from the creation   *)
(* of a session and the role is always master: neither is a variable.      *)
(***************************************************************************)
EXTENDS Naturals, FiniteSets

CONSTANTS Sessions,
          Candidates,  \* the candidates an ICE agent may gather
          NULL

ASSUME NullAssumption == NULL \notin Sessions \cup Candidates

VARIABLES
  sigPc, sigSession,    \* app_common_handleOffer and its session
  peerTrickles,         \* what the offer of each session says
  remoteCanTrickleIce,  \* what the session says of it
  gathering,            \* the ICE agent: "off", "running", "done"
  gathered,             \* its candidates so far
  icePc, iceCandidate,  \* app_common_onIceCandidate, per session
  trickled,             \* candidates sent one by one
  answers,              \* the number of answers sent
  inAnswer,             \* the candidates in the last one
  accepted,             \* sessions whose offer was handled without error
  lost                  \* sessions with a message that could not be made or sent

sigVars == <<sigPc, sigSession>>
iceVars == <<gathering, gathered, icePc, iceCandidate>>
sentVars == <<trickled, answers, inAnswer>>
vars == <<sigVars, peerTrickles, remoteCanTrickleIce, iceVars, sentVars, accepted, lost>>

\* The types, and that only a gathering agent has candidates or calls back.
TypeOK ==
  /\ sigPc \in {"idle", "remote", "local", "answer", "media"}
  /\ sigSession \in Sessions \cup {NULL}
  /\ peerTrickles \in [Sessions -> BOOLEAN]
  /\ remoteCanTrickleIce \in [Sessions -> BOOLEAN]
  /\ gathering \in [Sessions -> {"off", "running", "done"}]
  /\ gathered \in [Sessions -> SUBSET Candidates]
  /\ icePc \in [Sessions -> {"idle", "send", "answer"}]
  /\ iceCandidate \in [Sessions -> Candidates \cup {NULL}]
  /\ trickled \in [Sessions -> SUBSET Candidates]
  /\ answers \in [Sessions -> Nat]
  /\ inAnswer \in [Sessions -> SUBSET Candidates]
  /\ accepted \in SUBSET Sessions /\ lost \in SUBSET Sessions
  /\ sigPc # "idle" => sigSession \in Sessions
  /\ \A s \in Sessions : /\ gathering[s] = "off" => gathered[s] = {}
                         /\ icePc[s] = "send" => iceCandidate[s] \in gathered[s]
                         /\ icePc[s] = "answer" => gathering[s] = "done"

Init ==
  /\ sigPc = "idle" /\ sigSession = NULL
  /\ peerTrickles \in [Sessions -> BOOLEAN]
  /\ remoteCanTrickleIce = [s \in Sessions |-> FALSE]
  /\ gathering = [s \in Sessions |-> "off"]
  /\ gathered = [s \in Sessions |-> {}]
  /\ icePc = [s \in Sessions |-> "idle"]
  /\ iceCandidate = [s \in Sessions |-> NULL]
  /\ trickled = [s \in Sessions |-> {}]
  /\ answers = [s \in Sessions |-> 0]
  /\ inAnswer = [s \in Sessions |-> {}]
  /\ accepted = {} /\ lost = {}

\* app_common_respondWithAnswer after pc_createAnswer.
Answered(s) ==
  /\ answers' = [answers EXCEPT ![s] = @ + 1]
  /\ inAnswer' = [inAnswer EXCEPT ![s] = gathered[s]]
  /\ UNCHANGED <<trickled, lost>>

\* pc_createAnswer, the serialisation or app_signaling_sendMsg fails.
NotSent(s) == lost' = lost \cup {s} /\ UNCHANGED sentVars

-----------------------------------------------------------------------------
(* app_common_handleOffer                                                    *)

SigGoes(from, to) == sigPc = from /\ sigPc' = to

\* A new session, and the offer set as its remote description.
SetRemoteDescription(s) ==
  /\ SigGoes("idle", "remote")
  /\ gathering[s] = "off" /\ s \notin accepted \cup lost
  /\ sigSession' = s
  /\ UNCHANGED <<peerTrickles, remoteCanTrickleIce, iceVars, sentVars, accepted, lost>>

StoreCanTrickle ==
  /\ SigGoes("remote", "local")
  /\ remoteCanTrickleIce' =
       [remoteCanTrickleIce EXCEPT ![sigSession] = peerTrickles[sigSession]]
  /\ UNCHANGED <<sigSession, peerTrickles, iceVars, sentVars, accepted, lost>>

\* pc_setLocalDescription: candidates may come from now on.
SetLocalDescription ==
  /\ SigGoes("local", "answer")
  /\ gathering' = [gathering EXCEPT ![sigSession] = "running"]
  /\ UNCHANGED <<sigSession, peerTrickles, remoteCanTrickleIce, gathered, icePc,
                 iceCandidate, sentVars, accepted, lost>>

\* RespondNow, whatever the peer can do.
RespondNow_always ==
  /\ SigGoes("answer", "media")
  /\ Answered(sigSession)
  /\ UNCHANGED <<sigSession, peerTrickles, remoteCanTrickleIce, iceVars, accepted>>

\* A peer that can trickle is answered now, and an answer that cannot be made
\* or sent fails the offer.
RespondNow ==
  /\ sigPc = "answer"
  /\ \/ ~remoteCanTrickleIce[sigSession] /\ sigPc' = "media" /\ UNCHANGED <<sentVars, lost>>
     \/ remoteCanTrickleIce[sigSession] /\ sigPc' = "media" /\ Answered(sigSession)
     \/ remoteCanTrickleIce[sigSession] /\ sigPc' = "idle" /\ NotSent(sigSession)
  /\ UNCHANGED <<sigSession, peerTrickles, remoteCanTrickleIce, iceVars, accepted>>

\* One of the other calls fails.
OfferFails ==
  /\ sigPc \in {"remote", "local"} /\ sigPc' = "idle"
  /\ lost' = lost \cup {sigSession}
  /\ UNCHANGED <<sigSession, peerTrickles, remoteCanTrickleIce, iceVars, sentVars,
                 accepted>>

OfferHandled ==
  /\ SigGoes("media", "idle")
  /\ accepted' = accepted \cup {sigSession}
  /\ UNCHANGED <<sigSession, peerTrickles, remoteCanTrickleIce, iceVars, sentVars, lost>>

-----------------------------------------------------------------------------
(* app_common_onIceCandidate, on the ICE agent of s.                         *)

\* IceCandidate, with nothing sent before the answer.
IceCandidate_onlyAfterAnswer(s, c) ==
  /\ gathering[s] = "running" /\ icePc[s] = "idle" /\ c \notin gathered[s]
  /\ gathered' = [gathered EXCEPT ![s] = @ \cup {c}]
  /\ IF remoteCanTrickleIce[s] /\ answers[s] > 0
     THEN icePc' = [icePc EXCEPT ![s] = "send"]
          /\ iceCandidate' = [iceCandidate EXCEPT ![s] = c]
     ELSE UNCHANGED <<icePc, iceCandidate>>
  /\ UNCHANGED <<sigVars, peerTrickles, remoteCanTrickleIce, gathering, sentVars,
                 accepted, lost>>

\* A callback with candidate c: if the peer can trickle it is to be sent, and if
\* it cannot it waits for the answer.
IceCandidate(s, c) ==
  /\ gathering[s] = "running" /\ icePc[s] = "idle" /\ c \notin gathered[s]
  /\ gathered' = [gathered EXCEPT ![s] = @ \cup {c}]
  /\ IF remoteCanTrickleIce[s]
     THEN icePc' = [icePc EXCEPT ![s] = "send"]
          /\ iceCandidate' = [iceCandidate EXCEPT ![s] = c]
     ELSE UNCHANGED <<icePc, iceCandidate>>
  /\ UNCHANGED <<sigVars, peerTrickles, remoteCanTrickleIce, gathering, sentVars,
                 accepted, lost>>

IceSend(s) ==
  /\ icePc[s] = "send" /\ icePc' = [icePc EXCEPT ![s] = "idle"]
  /\ \/ /\ trickled' = [trickled EXCEPT ![s] = @ \cup {iceCandidate[s]}]
        /\ UNCHANGED <<answers, inAnswer, lost>>
     \/ NotSent(s)
  /\ UNCHANGED <<sigVars, peerTrickles, remoteCanTrickleIce, gathering, gathered,
                 iceCandidate, accepted>>

\* GatheringFinished with an answer in any case, and with none.
GatheringFinished_always(s) ==
  /\ gathering[s] = "running" /\ icePc[s] = "idle"
  /\ gathering' = [gathering EXCEPT ![s] = "done"]
  /\ icePc' = [icePc EXCEPT ![s] = "answer"]
  /\ UNCHANGED <<sigVars, peerTrickles, remoteCanTrickleIce, gathered, iceCandidate,
                 sentVars, accepted, lost>>

GatheringFinished_never(s) ==
  /\ gathering[s] = "running" /\ icePc[s] = "idle"
  /\ gathering' = [gathering EXCEPT ![s] = "done"]
  /\ UNCHANGED <<sigVars, peerTrickles, remoteCanTrickleIce, gathered, icePc,
                 iceCandidate, sentVars, accepted, lost>>

\* The last callback: without trickle it is time for the answer.
GatheringFinished(s) ==
  /\ gathering[s] = "running" /\ icePc[s] = "idle"
  /\ gathering' = [gathering EXCEPT ![s] = "done"]
  /\ icePc' = [icePc EXCEPT ![s] = IF remoteCanTrickleIce[s] THEN "idle" ELSE "answer"]
  /\ UNCHANGED <<sigVars, peerTrickles, remoteCanTrickleIce, gathered, iceCandidate,
                 sentVars, accepted, lost>>

\* An answer that cannot be made or sent is only logged.
IceAnswer(s) ==
  /\ icePc[s] = "answer" /\ icePc' = [icePc EXCEPT ![s] = "idle"]
  /\ Answered(s) \/ NotSent(s)
  /\ UNCHANGED <<sigVars, peerTrickles, remoteCanTrickleIce, gathering, gathered,
                 iceCandidate, accepted>>

-----------------------------------------------------------------------------
OfferNext ==
  \/ \E s \in Sessions : SetRemoteDescription(s)
  \/ StoreCanTrickle \/ SetLocalDescription \/ RespondNow \/ OfferFails \/ OfferHandled

IceNext(s) ==
  \/ \E c \in Candidates : IceCandidate(s, c)
  \/ IceSend(s) \/ GatheringFinished(s) \/ IceAnswer(s)

Next == OfferNext \/ \E s \in Sessions : IceNext(s)

Spec == Init /\ [][Next]_vars

(* The handler and the callbacks run to their end, and a gathering comes to  *)
(* its end (the ICE agent of the library bounds it in time).  Nothing is     *)
(* assumed of offers and of the results of calls.                            *)
Fairness ==
  /\ WF_vars(StoreCanTrickle \/ OfferFails \/ SetLocalDescription)
  /\ WF_vars(RespondNow \/ OfferHandled)
  /\ \A s \in Sessions : WF_vars(IceSend(s) \/ GatheringFinished(s) \/ IceAnswer(s))

FairSpec == Spec /\ Fairness

-----------------------------------------------------------------------------
(* Properties                                                              *)

\* No offer is answered by both threads: the signaling thread stores what the
\* peer can do before the gathering that the ICE agent reports on can start.
AnsweredAtMostOnce == \A s \in Sessions : answers[s] <= 1

\* AppCommon.c:243: without trickle, the "answer will be sent once ice candidate
\* gathering is complete": a peer that cannot be sent candidates one by one finds
\* them all in its answer.
AnswerIsComplete ==
  \A s \in Sessions :
    answers[s] > 0 /\ ~peerTrickles[s] => gathering[s] = "done" /\ inAnswer[s] = gathered[s]

\* A peer that can trickle is sent every local candidate, also those that came
\* before its answer was sent: no callback finds remoteCanTrickleIce not yet set.
NoCandidateForgotten ==
  \A s \in Sessions \ lost :
    peerTrickles[s] /\ icePc[s] = "idle" => gathered[s] \subseteq trickled[s]

\* The candidate that the ICE agent has in its hands.
Owed == [s \in Sessions |-> IF icePc[s] = "send" THEN {iceCandidate[s]} ELSE {}]

Exchange == INSTANCE OfferExchange WITH owed <- Owed

\* The two threads, and the field between them, come to one exchange: the handler's
\* answer and the ICE agent's exclude each other, whichever is first, neither comes
\* before its time, and an offer that is answered loses at most candidates.
ExchangeSpec == Exchange!Spec

\* An offer that was accepted is answered, by one thread or the other, unless
\* the answer could not be sent.
AcceptedOfferIsAnswered ==
  \A s \in Sessions : s \in accepted ~> (answers[s] > 0 \/ s \in lost)
=============================================================================

-------------------------- MODULE Negotiation_proofs --------------------------
(***************************************************************************)
(* The answers, for any number of sessions and candidates: one thread      *)
(* answers an offer and not the other, and no candidate gets lost between  *)
(* the offer's handler and the callbacks of the ICE agent.                 *)
(***************************************************************************)
EXTENDS Negotiation, TLAPS

\* Where the handler is tells whether the gathering of its session has started.
HandlerStartsGathering ==
  /\ sigPc \in {"remote", "local"} => gathering[sigSession] = "off"
  /\ sigPc \in {"answer", "media"} => gathering[sigSession] # "off"

\* remoteCanTrickleIce was stored before anything can read it.
TrickleIsKnown ==
  /\ sigPc = "local" => remoteCanTrickleIce[sigSession] = peerTrickles[sigSession]
  /\ \A s \in Sessions :
       gathering[s] # "off" => remoteCanTrickleIce[s] = peerTrickles[s]

\* Who may still answer a session: the handler a peer that can trickle, the ICE
\* agent one that cannot.
AnswerIsPending ==
  /\ sigPc = "answer" /\ peerTrickles[sigSession] => answers[sigSession] = 0
  /\ \A s \in Sessions :
       /\ gathering[s] = "off" => answers[s] = 0 /\ icePc[s] = "idle"
       /\ icePc[s] = "answer" => ~peerTrickles[s] /\ answers[s] = 0

\* A candidate for a peer that can trickle was sent, or is about to be.
CandidateIsUnderWay ==
  \A s \in Sessions \ lost :
    peerTrickles[s] =>
      gathered[s] \subseteq trickled[s] \cup
        {c \in Candidates : icePc[s] = "send" /\ c = iceCandidate[s]}

\* The inductive invariant.
Inv == /\ TypeOK /\ HandlerStartsGathering /\ TrickleIsKnown /\ AnswerIsPending
       /\ CandidateIsUnderWay /\ AnsweredAtMostOnce /\ AnswerIsComplete

-----------------------------------------------------------------------------
LEMMA InitInv == Init => Inv
<1> SUFFICES ASSUME Init PROVE Inv
  OBVIOUS
<1>1. TypeOK
  BY DEF Init, TypeOK
<1> QED
  BY <1>1 DEF Init, Inv, HandlerStartsGathering, TrickleIsKnown, AnswerIsPending,
     CandidateIsUnderWay, AnsweredAtMostOnce, AnswerIsComplete

\* The offer's handler, step by step.
LEMMA OfferInv ==
  ASSUME Inv, OfferNext
  PROVE  Inv'
<1> USE DEF sigVars, iceVars, sentVars
<1>1. ASSUME NEW s \in Sessions, SetRemoteDescription(s) PROVE Inv'
  <2>1. TypeOK'
    BY <1>1 DEF SetRemoteDescription, SigGoes, Inv, TypeOK
  <2> QED
    BY <1>1, <2>1 DEF SetRemoteDescription, SigGoes, Inv, HandlerStartsGathering,
       TrickleIsKnown, AnswerIsPending, CandidateIsUnderWay, AnsweredAtMostOnce,
       AnswerIsComplete
<1>2. CASE StoreCanTrickle
  <2>1. TypeOK'
    BY <1>2 DEF StoreCanTrickle, SigGoes, Inv, TypeOK
  <2>2. HandlerStartsGathering' /\ TrickleIsKnown'
    BY <1>2 DEF StoreCanTrickle, SigGoes, Inv, TypeOK, HandlerStartsGathering, TrickleIsKnown
  <2> QED
    BY <1>2, <2>1, <2>2 DEF StoreCanTrickle, SigGoes, Inv, AnswerIsPending,
       CandidateIsUnderWay, AnsweredAtMostOnce, AnswerIsComplete
<1>3. CASE SetLocalDescription
  <2>1. TypeOK'
    BY <1>3 DEF SetLocalDescription, SigGoes, Inv, TypeOK, HandlerStartsGathering,
       AnswerIsPending
  <2>2. HandlerStartsGathering' /\ TrickleIsKnown' /\ AnswerIsPending'
    BY <1>3 DEF SetLocalDescription, SigGoes, Inv, TypeOK, HandlerStartsGathering,
       TrickleIsKnown, AnswerIsPending
  <2>3. AnsweredAtMostOnce' /\ AnswerIsComplete' /\ CandidateIsUnderWay'
    BY <1>3 DEF SetLocalDescription, SigGoes, Inv, TypeOK, HandlerStartsGathering,
       AnsweredAtMostOnce, AnswerIsComplete, AnswerIsPending, CandidateIsUnderWay
  <2> QED
    BY <2>1, <2>2, <2>3 DEF Inv
<1>4. CASE RespondNow
  <2>1. CASE remoteCanTrickleIce[sigSession] /\ sigPc' = "media" /\ Answered(sigSession)
    <3> DEFINE s == sigSession
    <3>1. s \in Sessions /\ peerTrickles[s] /\ answers[s] = 0
      BY <1>4, <2>1 DEF RespondNow, Inv, TypeOK, HandlerStartsGathering, TrickleIsKnown,
         AnswerIsPending
    <3>2. /\ answers' = [answers EXCEPT ![s] = 1]
          /\ \A u \in Sessions : u # s => answers'[u] = answers[u] /\ inAnswer'[u] = inAnswer[u]
      BY <2>1, <3>1 DEF Answered, Inv, TypeOK
    <3>3. TypeOK'
      BY <1>4, <2>1, <3>1, <3>2 DEF RespondNow, Answered, Inv, TypeOK
    <3>4. HandlerStartsGathering' /\ TrickleIsKnown' /\ CandidateIsUnderWay'
      BY <1>4, <2>1 DEF RespondNow, Answered, Inv, HandlerStartsGathering, TrickleIsKnown,
         CandidateIsUnderWay
    <3>5. AnswerIsPending'
      BY <1>4, <2>1, <3>1, <3>2 DEF RespondNow, Answered, Inv, TypeOK, AnswerIsPending,
         HandlerStartsGathering
    <3>6. AnsweredAtMostOnce' /\ AnswerIsComplete'
      BY <1>4, <3>1, <3>2 DEF RespondNow, Inv, TypeOK, AnsweredAtMostOnce, AnswerIsComplete
    <3> QED
      BY <3>3, <3>4, <3>5, <3>6 DEF Inv
  <2>2. CASE UNCHANGED <<sentVars, lost>> \/ NotSent(sigSession)
    <3>1. lost \subseteq lost' /\ lost' \subseteq Sessions
          /\ UNCHANGED <<trickled, answers, inAnswer>>
          /\ sigPc' \in {"media", "idle"}
      BY <1>4, <2>2 DEF RespondNow, NotSent, Inv, TypeOK
    <3> QED
      BY <1>4, <3>1 DEF RespondNow, Inv, TypeOK, HandlerStartsGathering, TrickleIsKnown,
         AnswerIsPending, CandidateIsUnderWay, AnsweredAtMostOnce, AnswerIsComplete
  <2> QED
    BY <1>4, <2>1, <2>2 DEF RespondNow
<1>5. CASE OfferFails
  BY <1>5 DEF OfferFails, Inv, TypeOK, HandlerStartsGathering, TrickleIsKnown,
     AnswerIsPending, CandidateIsUnderWay, AnsweredAtMostOnce, AnswerIsComplete
<1>6. CASE OfferHandled
  BY <1>6 DEF OfferHandled, SigGoes, Inv, TypeOK, HandlerStartsGathering, TrickleIsKnown,
     AnswerIsPending, CandidateIsUnderWay, AnsweredAtMostOnce, AnswerIsComplete
<1> QED
  BY <1>1, <1>2, <1>3, <1>4, <1>5, <1>6 DEF OfferNext

\* The callbacks of the ICE agent of session s.
LEMMA IceInv ==
  ASSUME Inv, NEW s \in Sessions, IceNext(s)
  PROVE  Inv'
<1> USE DEF sigVars, iceVars, sentVars
<1>1. ASSUME NEW c \in Candidates, IceCandidate(s, c) PROVE Inv'
  <2>1. /\ gathering[s] = "running" /\ icePc[s] = "idle"
        /\ gathered' = [gathered EXCEPT ![s] = @ \cup {c}]
        /\ remoteCanTrickleIce[s] = peerTrickles[s]
    BY <1>1 DEF IceCandidate, Inv, TrickleIsKnown
  <2>2. \A u \in Sessions \ {s} :
          gathered'[u] = gathered[u] /\ icePc'[u] = icePc[u] /\ iceCandidate'[u] = iceCandidate[u]
    BY <1>1 DEF IceCandidate, Inv, TypeOK
  <2>3. IF peerTrickles[s] THEN icePc'[s] = "send" /\ iceCandidate'[s] = c
                           ELSE icePc'[s] = "idle"
    BY <1>1, <2>1 DEF IceCandidate, Inv, TypeOK
  <2>4. TypeOK'
    BY <1>1, <2>1, <2>2, <2>3 DEF IceCandidate, Inv, TypeOK
  <2>5. HandlerStartsGathering' /\ TrickleIsKnown' /\ AnswerIsPending'
    BY <1>1, <2>1, <2>2, <2>3 DEF IceCandidate, Inv, HandlerStartsGathering, TrickleIsKnown,
       AnswerIsPending
  <2>6. CandidateIsUnderWay'
    BY <1>1, <2>1, <2>2, <2>3 DEF IceCandidate, Inv, TypeOK, CandidateIsUnderWay
  <2>7. AnsweredAtMostOnce' /\ AnswerIsComplete'
    BY <1>1, <2>1, <2>2 DEF IceCandidate, Inv, AnsweredAtMostOnce, AnswerIsComplete
  <2> QED
    BY <2>4, <2>5, <2>6, <2>7 DEF Inv
<1>2. CASE IceSend(s)
  <2>1. /\ gathered[s] # {} /\ gathering[s] # "off" /\ iceCandidate[s] \in gathered[s]
        /\ icePc' = [icePc EXCEPT ![s] = "idle"]
    BY <1>2 DEF IceSend, Inv, TypeOK
  <2>2. /\ lost \subseteq lost' /\ lost' \subseteq Sessions
        /\ UNCHANGED <<answers, inAnswer>>
        /\ trickled' \in [Sessions -> SUBSET Candidates]
        /\ \A u \in Sessions : trickled[u] \subseteq trickled'[u]
        /\ s \in lost' \/ trickled'[s] = trickled[s] \cup {iceCandidate[s]}
    BY <1>2, <2>1 DEF IceSend, NotSent, Inv, TypeOK
  <2>3. TypeOK'
    <3>1. /\ icePc' \in [Sessions -> {"idle", "send", "answer"}]
          /\ \A u \in Sessions : icePc'[u] # "idle" => icePc'[u] = icePc[u]
      BY <2>1 DEF Inv, TypeOK
    <3> QED
      BY <1>2, <2>2, <3>1 DEF IceSend, Inv, TypeOK
  <2>4. CandidateIsUnderWay'
    BY <1>2, <2>1, <2>2 DEF IceSend, Inv, TypeOK, CandidateIsUnderWay
  <2> QED
    BY <1>2, <2>1, <2>2, <2>3, <2>4 DEF IceSend, Inv, TypeOK, HandlerStartsGathering,
       TrickleIsKnown, AnswerIsPending, AnsweredAtMostOnce, AnswerIsComplete
<1>3. CASE GatheringFinished(s)
  <2>0. gathering[s] = "running" /\ remoteCanTrickleIce[s] = peerTrickles[s]
    BY <1>3 DEF GatheringFinished, Inv, TrickleIsKnown
  <2>1. /\ icePc[s] = "idle"
        /\ gathering' = [gathering EXCEPT ![s] = "done"]
        /\ icePc' = [icePc EXCEPT ![s] = IF peerTrickles[s] THEN "idle" ELSE "answer"]
        /\ ~peerTrickles[s] => answers[s] = 0
    BY <1>3, <2>0 DEF GatheringFinished, Inv, TypeOK, AnswerIsComplete
  <2>2. TypeOK'
    BY <1>3, <2>0, <2>1 DEF GatheringFinished, Inv, TypeOK
  <2>3. HandlerStartsGathering' /\ TrickleIsKnown' /\ AnswerIsPending'
    BY <1>3, <2>0, <2>1 DEF GatheringFinished, Inv, TypeOK, HandlerStartsGathering, TrickleIsKnown,
       AnswerIsPending
  <2> QED
    BY <1>3, <2>0, <2>1, <2>2, <2>3 DEF GatheringFinished, Inv, TypeOK, CandidateIsUnderWay,
       AnsweredAtMostOnce, AnswerIsComplete
<1>4. CASE IceAnswer(s)
  <2>1. /\ gathering[s] = "done" /\ ~peerTrickles[s] /\ answers[s] = 0
        /\ icePc' = [icePc EXCEPT ![s] = "idle"]
    BY <1>4 DEF IceAnswer, Inv, TypeOK, AnswerIsPending
  <2>2. CASE Answered(s)
    <3>1. /\ answers' = [answers EXCEPT ![s] = 1]
          /\ inAnswer' = [inAnswer EXCEPT ![s] = gathered[s]]
      BY <2>1, <2>2 DEF Answered, Inv, TypeOK
    <3>2. TypeOK'
      BY <1>4, <2>1, <2>2, <3>1 DEF IceAnswer, Answered, Inv, TypeOK
    <3>3. HandlerStartsGathering' /\ TrickleIsKnown' /\ AnswerIsPending'
      BY <1>4, <2>1, <2>2, <3>1 DEF IceAnswer, Answered, Inv, TypeOK,
         HandlerStartsGathering, TrickleIsKnown, AnswerIsPending
    <3>4. CandidateIsUnderWay' /\ AnsweredAtMostOnce' /\ AnswerIsComplete'
      BY <1>4, <2>1, <2>2, <3>1 DEF IceAnswer, Answered, Inv, TypeOK,
         CandidateIsUnderWay, AnsweredAtMostOnce, AnswerIsComplete
    <3> QED
      BY <3>2, <3>3, <3>4 DEF Inv
  <2>3. CASE NotSent(s)
    BY <1>4, <2>1, <2>3 DEF IceAnswer, NotSent, Inv, TypeOK, HandlerStartsGathering,
       TrickleIsKnown, AnswerIsPending, CandidateIsUnderWay, AnsweredAtMostOnce,
       AnswerIsComplete
  <2> QED
    BY <1>4, <2>2, <2>3 DEF IceAnswer
<1> QED
  BY <1>1, <1>2, <1>3, <1>4 DEF IceNext

LEMMA NextInv == Inv /\ [Next]_vars => Inv'
<1> SUFFICES ASSUME Inv, [Next]_vars PROVE Inv'
  OBVIOUS
<1>1. CASE UNCHANGED vars
  BY <1>1 DEF vars, sigVars, iceVars, sentVars, Inv, TypeOK, HandlerStartsGathering,
     TrickleIsKnown, AnswerIsPending, CandidateIsUnderWay, AnsweredAtMostOnce,
     AnswerIsComplete
<1> QED
  BY <1>1, OfferInv, IceInv DEF Next

LEMMA SpecInv == Spec => []Inv
BY InitInv, NextInv, PTL DEF Spec

-----------------------------------------------------------------------------
\* The types hold in every reachable state.
THEOREM TypeCorrect == Spec => []TypeOK
<1>1. Inv => TypeOK
  BY DEF Inv
<1> QED
  BY <1>1, SpecInv, PTL

\* No offer is answered by the handler and again by the ICE agent.
THEOREM OneAnswer == Spec => []AnsweredAtMostOnce
<1>1. Inv => AnsweredAtMostOnce
  BY DEF Inv
<1> QED
  BY <1>1, SpecInv, PTL

\* A peer that cannot trickle is answered with all candidates.
THEOREM CompleteAnswer == Spec => []AnswerIsComplete
<1>1. Inv => AnswerIsComplete
  BY DEF Inv
<1> QED
  BY <1>1, SpecInv, PTL

\* A peer that can trickle is sent every candidate that was gathered.
THEOREM AllCandidatesSent == Spec => []NoCandidateForgotten
<1>1. Inv => NoCandidateForgotten
  BY NullAssumption DEF Inv, TypeOK, CandidateIsUnderWay, NoCandidateForgotten
<1> QED
  BY <1>1, SpecInv, PTL
-----------------------------------------------------------------------------
(* The refinement of OfferExchange.                                        *)

\* What an ICE agent has in its hands is a candidate, and only if the peer can trickle.
OwedIsForTrickle == \A s \in Sessions : icePc[s] = "send" => peerTrickles[s]

XInv == Inv /\ OwedIsForTrickle

LEMMA XInvHolds == Spec => []XInv
<1>1. Init => OwedIsForTrickle
  BY DEF Init, OwedIsForTrickle
<1>2. Inv /\ OwedIsForTrickle /\ [Next]_vars => OwedIsForTrickle'
  <2> SUFFICES ASSUME Inv, OwedIsForTrickle, [Next]_vars PROVE OwedIsForTrickle'
    OBVIOUS
  <2> USE DEF sigVars, iceVars, sentVars
  <2>1. CASE UNCHANGED vars
    BY <2>1 DEF vars, OwedIsForTrickle
  <2>2. CASE OfferNext
    BY <2>2 DEF OfferNext, SetRemoteDescription, StoreCanTrickle, SetLocalDescription,
       RespondNow, OfferFails, OfferHandled, OwedIsForTrickle
  <2>3. ASSUME NEW s \in Sessions, IceNext(s) PROVE OwedIsForTrickle'
    <3>1. ASSUME NEW c \in Candidates, IceCandidate(s, c) PROVE OwedIsForTrickle'
      <4>1. remoteCanTrickleIce[s] = peerTrickles[s]
        BY <3>1 DEF IceCandidate, Inv, TrickleIsKnown
      <4> QED
        BY <3>1, <4>1 DEF IceCandidate, Inv, TypeOK, OwedIsForTrickle
    <3>2. CASE IceSend(s) \/ GatheringFinished(s) \/ IceAnswer(s)
      <4>1. \A u \in Sessions : icePc'[u] = "send" => icePc[u] = "send"
        BY <3>2 DEF IceSend, GatheringFinished, IceAnswer, Inv, TypeOK
      <4> QED
        BY <3>2, <4>1 DEF IceSend, GatheringFinished, IceAnswer, OwedIsForTrickle
    <3> QED
      BY <2>3, <3>1, <3>2 DEF IceNext
  <2> QED
    BY <2>1, <2>2, <2>3 DEF Next
<1> QED
  BY <1>1, <1>2, SpecInv, PTL DEF Spec, XInv

LEMMA InitExchange == Init => Exchange!Init
<1> SUFFICES ASSUME Init PROVE Exchange!Init
  OBVIOUS
<1>1. Owed = [s \in Sessions |-> {}]
  BY DEF Init, Owed
<1> QED
  BY <1>1 DEF Init, Exchange!Init, Exchange!None

\* Nobody's debt changes while the ICE agents stay where they are.
LEMMA OwedStays ==
  ASSUME UNCHANGED <<icePc, iceCandidate>>
  PROVE  UNCHANGED Owed
BY DEF Owed

\* A debt changes only in the session whose ICE agent moves.
LEMMA OwedMoves ==
  ASSUME Inv, NEW s \in Sessions,
         \A u \in Sessions \ {s} : icePc'[u] = icePc[u] /\ iceCandidate'[u] = iceCandidate[u]
  PROVE  Owed' = [Owed EXCEPT ![s] = IF icePc'[s] = "send" THEN {iceCandidate'[s]} ELSE {}]
BY DEF Owed

\* An answer of the handler or of the ICE agent, before there was any.
LEMMA AnswerInExchange ==
  ASSUME Inv, NEW s \in Sessions, Answered(s), answers[s] = 0,
         gathering[s] \in IF peerTrickles[s] THEN {"running", "done"} ELSE {"done"},
         UNCHANGED <<peerTrickles, gathering, gathered, Owed>>
  PROVE  Exchange!Answer(s)
BY DEF Answered, Inv, TypeOK, Exchange!Answer

LEMMA FailInExchange ==
  ASSUME NEW s \in Sessions, answers[s] = 0, lost' = lost \cup {s},
         UNCHANGED <<peerTrickles, gathering, gathered, Owed, trickled, answers, inAnswer>>
  PROVE  Exchange!Fail(s)
BY DEF Exchange!Fail, Exchange!sentVars

\* The handler starts the gathering, answers a peer that can trickle, or fails.
LEMMA OfferExchanges ==
  ASSUME Inv, OfferNext
  PROVE  [Exchange!Next]_Exchange!vars
<1> USE DEF sigVars, iceVars, sentVars
<1>0. icePc' = icePc /\ iceCandidate' = iceCandidate /\ Owed' = Owed
  <2>1. UNCHANGED <<icePc, iceCandidate>>
    BY DEF OfferNext, SetRemoteDescription, StoreCanTrickle, SetLocalDescription,
       RespondNow, OfferFails, OfferHandled
  <2> QED
    BY <2>1, OwedStays
<1>1. CASE StoreCanTrickle \/ OfferHandled \/ \E s \in Sessions : SetRemoteDescription(s)
  BY <1>0, <1>1 DEF StoreCanTrickle, OfferHandled, SetRemoteDescription, Exchange!vars,
     Exchange!sentVars
<1>2. CASE SetLocalDescription
  <2>1. sigSession \in Sessions /\ gathering[sigSession] = "off"
    BY <1>2 DEF SetLocalDescription, SigGoes, Inv, TypeOK, HandlerStartsGathering
  <2>2. Exchange!Start(sigSession)
    BY <1>0, <1>2, <2>1 DEF SetLocalDescription, Exchange!Start, Exchange!sentVars
  <2> QED
    BY <2>1, <2>2 DEF Exchange!Next
<1>3. CASE RespondNow
  <2> DEFINE s == sigSession
  <2>1. /\ s \in Sessions /\ gathering[s] \in {"running", "done"}
        /\ remoteCanTrickleIce[s] = peerTrickles[s]
        /\ peerTrickles[s] => answers[s] = 0
    BY <1>3 DEF RespondNow, Inv, TypeOK, HandlerStartsGathering, TrickleIsKnown, AnswerIsPending
  <2>2. UNCHANGED <<peerTrickles, gathering, gathered, Owed>>
    BY <1>0, <1>3 DEF RespondNow
  <2>3. CASE UNCHANGED <<sentVars, lost>>
    BY <2>2, <2>3 DEF Exchange!vars, Exchange!sentVars
  <2>4. CASE remoteCanTrickleIce[s] /\ Answered(s)
    <3>1. Exchange!Answer(s)
      BY <2>1, <2>2, <2>4, AnswerInExchange
    <3> QED
      BY <2>1, <3>1 DEF Exchange!Next
  <2>5. CASE remoteCanTrickleIce[s] /\ NotSent(s)
    <3>1. Exchange!Fail(s)
      BY <2>1, <2>2, <2>5, FailInExchange DEF NotSent
    <3> QED
      BY <2>1, <3>1 DEF Exchange!Next
  <2> QED
    BY <1>3, <2>3, <2>4, <2>5 DEF RespondNow
<1>4. CASE OfferFails
  <2>1. sigSession \in Sessions /\ answers[sigSession] = 0
    BY <1>4 DEF OfferFails, Inv, TypeOK, HandlerStartsGathering, AnswerIsPending
  <2>2. Exchange!Fail(sigSession)
    BY <1>0, <1>4, <2>1, FailInExchange DEF OfferFails
  <2> QED
    BY <2>1, <2>2 DEF Exchange!Next
<1> QED
  BY <1>1, <1>2, <1>3, <1>4 DEF OfferNext

\* The ICE agent finds a candidate, delivers it, finishes, answers or fails.
LEMMA IceExchanges ==
  ASSUME XInv, NEW s \in Sessions, IceNext(s)
  PROVE  \/ UNCHANGED Exchange!vars
         \/ Exchange!Start(s) \/ Exchange!Finish(s) \/ Exchange!Deliver(s)
         \/ Exchange!Answer(s) \/ Exchange!Fail(s)
         \/ \E c \in Candidates : Exchange!Find(s, c)
<1> USE DEF XInv, sigVars, iceVars, sentVars
<1>0. /\ Owed[s] = (IF icePc[s] = "send" THEN {iceCandidate[s]} ELSE {})
      /\ Owed = [Owed EXCEPT ![s] = Owed[s]]
  BY DEF Owed
<1>1. ASSUME NEW c \in Candidates, IceCandidate(s, c) PROVE Exchange!Find(s, c)
  <2>1. /\ gathering[s] = "running" /\ icePc[s] = "idle"
        /\ remoteCanTrickleIce[s] = peerTrickles[s]
    BY <1>1 DEF IceCandidate, Inv, TrickleIsKnown
  <2>2. CASE peerTrickles[s]
    <3>1. /\ icePc'[s] = "send" /\ iceCandidate'[s] = c
          /\ \A u \in Sessions \ {s} :
               icePc'[u] = icePc[u] /\ iceCandidate'[u] = iceCandidate[u]
      BY <1>1, <2>1, <2>2 DEF IceCandidate, Inv, TypeOK
    <3>2. Owed' = [Owed EXCEPT ![s] = IF icePc'[s] = "send" THEN {iceCandidate'[s]} ELSE {}]
      BY <3>1, OwedMoves
    <3>3. Owed' = [Owed EXCEPT ![s] = {c}] /\ Owed[s] = {}
      BY <1>0, <2>1, <3>1, <3>2
    <3> QED
      BY <1>1, <2>1, <2>2, <3>3 DEF IceCandidate, Exchange!Find, Exchange!sentVars
  <2>3. CASE ~peerTrickles[s]
    <3>1. UNCHANGED <<icePc, iceCandidate>>
      BY <1>1, <2>1, <2>3 DEF IceCandidate
    <3>2. Owed' = Owed /\ Owed[s] = {}
      BY <1>0, <2>1, <3>1, OwedStays
    <3>3. Owed' = [Owed EXCEPT ![s] = {}]
      BY <1>0, <3>2
    <3> QED
      BY <1>1, <2>1, <2>3, <3>2, <3>3 DEF IceCandidate, Exchange!Find, Exchange!sentVars
  <2> QED
    BY <2>2, <2>3
<1>2. CASE IceSend(s)
  <2>1. /\ icePc[s] = "send" /\ icePc'[s] = "idle"
        /\ \A u \in Sessions \ {s} :
             icePc'[u] = icePc[u] /\ iceCandidate'[u] = iceCandidate[u]
    BY <1>2 DEF IceSend, Inv, TypeOK
  <2>moved. Owed' = [Owed EXCEPT ![s] = IF icePc'[s] = "send" THEN {iceCandidate'[s]} ELSE {}]
    BY <2>1, OwedMoves
  <2>2. Owed' = [Owed EXCEPT ![s] = {}]
    BY <2>moved, <2>1
  <2>3. Owed[s] = {iceCandidate[s]}
    BY <1>0, <2>1
  <2>4. Exchange!Deliver(s)
    BY <1>2, <2>2, <2>3 DEF IceSend, NotSent, Exchange!Deliver
  <2> QED
    BY <2>4
<1>3. CASE GatheringFinished(s)
  <2>1. /\ icePc[s] = "idle" /\ icePc'[s] # "send"
        /\ \A u \in Sessions \ {s} :
             icePc'[u] = icePc[u] /\ iceCandidate'[u] = iceCandidate[u]
    BY <1>3 DEF GatheringFinished, Inv, TypeOK
  <2>moved. Owed' = [Owed EXCEPT ![s] = IF icePc'[s] = "send" THEN {iceCandidate'[s]} ELSE {}]
    BY <2>1, OwedMoves
  <2>2. Owed' = [Owed EXCEPT ![s] = {}]
    BY <2>moved, <2>1
  <2>3. Owed[s] = {} /\ Owed' = Owed
    BY <1>0, <2>1, <2>2
  <2>4. Exchange!Finish(s)
    BY <1>3, <2>3 DEF GatheringFinished, Exchange!Finish, Exchange!sentVars
  <2> QED
    BY <2>4
<1>4. CASE IceAnswer(s)
  <2>1. /\ gathering[s] = "done" /\ ~peerTrickles[s] /\ answers[s] = 0
        /\ icePc[s] = "answer" /\ icePc'[s] = "idle"
        /\ \A u \in Sessions \ {s} :
             icePc'[u] = icePc[u] /\ iceCandidate'[u] = iceCandidate[u]
    BY <1>4 DEF IceAnswer, Inv, TypeOK, AnswerIsPending
  <2>moved. Owed' = [Owed EXCEPT ![s] = IF icePc'[s] = "send" THEN {iceCandidate'[s]} ELSE {}]
    BY <2>1, OwedMoves
  <2>2. Owed' = [Owed EXCEPT ![s] = {}]
    BY <2>moved, <2>1
  <2>3. Owed' = Owed
    BY <1>0, <2>1, <2>2
  <2>4. UNCHANGED <<peerTrickles, gathering, gathered, Owed>>
    BY <1>4, <2>3 DEF IceAnswer
  <2>5. CASE Answered(s)
    BY <2>1, <2>4, <2>5, AnswerInExchange
  <2>6. CASE NotSent(s)
    BY <2>1, <2>4, <2>6, FailInExchange DEF NotSent
  <2> QED
    BY <1>4, <2>5, <2>6 DEF IceAnswer
<1> QED
  BY <1>1, <1>2, <1>3, <1>4 DEF IceNext

\* The handler and the ICE agents, with remoteCanTrickleIce between them, are one
\* exchange: one answer, in its time, and every candidate by the one way or the other.
THEOREM ImplementsTheExchange == Spec => ExchangeSpec
<1>1. XInv /\ [Next]_vars => [Exchange!Next]_Exchange!vars
  <2> SUFFICES ASSUME XInv, [Next]_vars PROVE [Exchange!Next]_Exchange!vars
    OBVIOUS
  <2>1. CASE UNCHANGED vars
    <3>1. UNCHANGED Owed
      BY <2>1, OwedStays DEF vars, iceVars
    <3> QED
      BY <2>1, <3>1 DEF vars, iceVars, sentVars, Exchange!vars, Exchange!sentVars
  <2>2. CASE OfferNext
    BY <2>2, OfferExchanges DEF XInv
  <2>3. ASSUME NEW s \in Sessions, IceNext(s) PROVE [Exchange!Next]_Exchange!vars
    BY <2>3, IceExchanges DEF Exchange!Next
  <2> QED
    BY <2>1, <2>2, <2>3 DEF Next
<1> QED
  BY <1>1, InitExchange, XInvHolds, PTL DEF Spec, ExchangeSpec, Exchange!Spec
=============================================================================

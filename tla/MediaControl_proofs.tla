-------------------------- MODULE MediaControl_proofs --------------------------
(***************************************************************************)
(* The media thread, for every number of sessions and threads: there is at *)
(* most one, and one sender but for those whose join failed, whoever joins *)
(* waits for a thread that exists, and memory is freed under a running     *)
(* thread only if it was started late.                                     *)
(***************************************************************************)
EXTENDS MediaControl, TLAPS

\* The flag is raised as long as a thread is at work or being created, and while
\* one is being created none is at work.
FlagGuardsCreation ==
  /\ Active # {} \/ sigPc = "create" => mediaThreadStarted
  /\ sigPc = "create" => Active = {}

\* The tid that pollApp and freeApp go for names a thread that was created and
\* not joined yet.
TidIsJoinable ==
  /\ mediaControlTid # NULL => mediaPc[mediaControlTid] # "none"
  /\ pollPc \in {"abort", "join", "freeAbort"} => mediaControlTid # NULL

\* Without a late start the tid names the only thread at work, and that thread
\* has ended when freeApp is past the join.
EarlyThreadsAreJoined ==
  /\ pollPc = "freed" => sigPc = "idle"
  /\ ~lateStart =>
       /\ Active \subseteq {mediaControlTid}
       /\ pollPc \in {"joining", "freeJoin"} => joinTid = mediaControlTid
       /\ pollPc \in {"freeSignaling", "freeing", "freed"} => Active = {}

\* The inductive invariant.
Inv == /\ TypeOK /\ AtMostOneMediaThread /\ FlagGuardsCreation
       /\ TidIsJoinable /\ JoinHasATarget /\ EarlyThreadsAreJoined

-----------------------------------------------------------------------------
LEMMA InitInv == Init => Inv
<1> SUFFICES ASSUME Init PROVE Inv
  OBVIOUS
<1>1. Active = {}
  BY DEF Init, Active
<1>2. TypeOK
  BY OwnerAssumption DEF Init, TypeOK, Stopping
<1> QED
  BY <1>1, <1>2 DEF Init, Inv, AtMostOneMediaThread, FlagGuardsCreation, TidIsJoinable,
     JoinHasATarget, EarlyThreadsAreJoined

\* The types, action by action.
LEMMA TypeStep == TypeOK /\ [Next]_vars => TypeOK'
<1> SUFFICES ASSUME TypeOK, [Next]_vars PROVE TypeOK'
  OBVIOUS
<1> USE OwnerAssumption, TidAssumption
    DEF TypeOK, Stopping, flagVars, sessVars, sigVars, pollVars, threadVars, senderVars, historyVars
<1>1. ASSUME NEW s \in Sessions, Offer(s) PROVE TypeOK'
  BY <1>1 DEF Offer
<1>2. CASE OfferFails
  BY <1>2 DEF OfferFails
<1>3. CASE ExchangeStarted
  BY <1>3 DEF ExchangeStarted
<1>4. CASE CreateMediaThread
  BY <1>4 DEF CreateMediaThread
<1>5. CASE CreateMediaThreadFails
  BY <1>5 DEF CreateMediaThreadFails
<1>6. ASSUME NEW s \in Sessions, Connected(s) PROVE TypeOK'
  BY <1>6 DEF Connected
<1>7. ASSUME NEW s \in Sessions, NEW lost \in BOOLEAN, NotConnected(s, lost) PROVE TypeOK'
  <2>1. ended' \in SUBSET Sessions
    BY <1>7 DEF NotConnected
  <2>2. peerConnectionConnected' \in BOOLEAN
    BY <1>7 DEF NotConnected
  <2> QED
    BY <1>7, <2>1, <2>2 DEF NotConnected
<1>8. ASSUME NEW t \in Tids, MediaNext(t) PROVE TypeOK'
  <2>1. \A pc \in {"waiting", "leaving", "source", "running", "exit", "done"} :
          [mediaPc EXCEPT ![t] = pc] \in [Tids -> {"none", "started", "waiting", "leaving",
                                                 "source", "running", "exit", "done"}]
    OBVIOUS
  <2>2. CASE MediaStart(t)
    <3>1. abortMediaControl' \in BOOLEAN /\ overtaking' \in BOOLEAN
      BY <2>2 DEF MediaStart
    <3> QED
      BY <2>1, <2>2, <3>1 DEF MediaStart, At
  <2>3. CASE MediaWaited(t) \/ MediaChecked(t) \/ SourceReturns(t)
    BY <2>1, <2>3 DEF MediaWaited, MediaChecked, SourceReturns, At
  <2>6. CASE SenderJoinFails(t)
    <3>1. orphans' \in SUBSET senders'
      BY <2>6 DEF SenderJoinFails
    <3> QED
      BY <2>1, <2>6, <3>1 DEF SenderJoinFails, At
  <2>4. CASE SourceRun(t)
    <3>1. /\ shutdownFileSrc' \in BOOLEAN /\ overtaking' \in BOOLEAN
          /\ senders' \in SUBSET Tids /\ orphans' \in SUBSET senders'
      BY <2>4 DEF SourceRun
    <3> QED
      BY <2>1, <2>4, <3>1 DEF SourceRun, At
  <2>5. CASE MediaExit(t)
    <3>1. mediaThreadStarted' \in BOOLEAN
      BY <2>5 DEF MediaExit
    <3> QED
      BY <2>1, <2>5, <3>1 DEF MediaExit, At
  <2> QED
    BY <1>8, <2>2, <2>3, <2>4, <2>5, <2>6 DEF MediaNext
<1>9. CASE PollLock
  BY <1>9 DEF PollLock
<1>10. ASSUME NEW s \in Sessions, PollUnlist(s) PROVE TypeOK'
  <2>1. {sessions', ended', answered'} \subseteq SUBSET Sessions
    BY <1>10 DEF PollUnlist
  <2>2. shutdownMediaSource' \in BOOLEAN /\ peerConnectionConnected' \in BOOLEAN
    BY <1>10 DEF PollUnlist
  <2> QED
    BY <1>10, <2>1, <2>2 DEF PollUnlist
<1>24. ASSUME NEW s \in Sessions, PollUnlistFails(s) PROVE TypeOK'
  <2>1. sessions' \in SUBSET Sessions /\ forgotten' \in SUBSET Sessions
    BY <1>24 DEF PollUnlistFails
  <2> QED
    BY <1>24, <2>1 DEF PollUnlistFails
<1>25. ASSUME NEW t \in Tids, SenderEnds(t) PROVE TypeOK'
  <2>1. senders' \in SUBSET Tids /\ orphans' \in SUBSET senders'
    BY <1>25 DEF SenderEnds
  <2> QED
    BY <1>25, <2>1 DEF SenderEnds
<1>11. CASE PollScanned
  BY <1>11 DEF PollScanned
<1>12. CASE PollShutdown
  BY <1>12 DEF PollShutdown
<1>13. CASE PollAbort
  BY <1>13 DEF PollAbort
<1>14. CASE PollJoin
  BY <1>14 DEF PollJoin
<1>15. CASE PollJoined
  BY <1>15 DEF PollJoined
<1>16. CASE PollExit
  <2>1. /\ configLock' \in {"sig", "poll", NULL} /\ pollPc' = "free"
        /\ configLock' = "sig" <=> sigPc # "idle"
        /\ configLock' # "poll"
    BY <1>16 DEF PollExit
  <2>2. UNCHANGED <<sessVars, flagVars, sigVars, joinTid, threadVars>>
        /\ shutdownMediaSource' = FALSE
    BY <1>16 DEF PollExit
  <2> QED
    BY <2>1, <2>2
<1>17. CASE FreeTerminate
  BY <1>17 DEF FreeTerminate
<1>18. CASE FreeShutdown
  BY <1>18 DEF FreeShutdown
<1>19. CASE FreeAbort
  BY <1>19 DEF FreeAbort
<1>20. CASE FreeJoined
  BY <1>20 DEF FreeJoined
<1>21. CASE FreeSignaling
  BY <1>21 DEF FreeSignaling
<1>22. CASE FreeAll
  <2>1. {sessions', ended', answered'} \subseteq SUBSET Sessions
    BY <1>22 DEF FreeAll
  <2> QED
    BY <1>22, <2>1 DEF FreeAll
<1>23. CASE UNCHANGED vars
  BY <1>23 DEF vars
<1> QED
  BY <1>1, <1>2, <1>3, <1>4, <1>5, <1>6, <1>7, <1>8, <1>9, <1>10, <1>11, <1>12,
     <1>13, <1>14, <1>15, <1>16, <1>17, <1>18, <1>19, <1>20, <1>21, <1>22, <1>23, <1>24, <1>25
     DEF Next, SigNext, CallbackNext, PollNext, FreeNext

-----------------------------------------------------------------------------
(* The steps of the threads, by what they change.                            *)

\* A step that moves no media thread and names none.
LEMMA SameThreadsInv ==
  ASSUME Inv, TypeOK',
         UNCHANGED <<mediaPc, mediaThreadStarted, mediaControlTid, joinTid, lateStart>>,
         sigPc' \in {sigPc, "idle", "offer"},
         pollPc' \in {"abort", "join", "freeAbort"} => mediaControlTid # NULL,
         pollPc' \in {"joining", "freeJoin"} => pollPc' = pollPc,
         pollPc' = "freed" => sigPc' = "idle",
         pollPc' \in {"freeSignaling", "freeing", "freed"}
           => pollPc \in {"freeSignaling", "freeing", "freed"} \/ mediaControlTid = NULL
  PROVE  Inv'
<1>1. Active' = Active /\ Active \subseteq Tids
  BY DEF Active
<1>2. AtMostOneMediaThread' /\ FlagGuardsCreation'
  BY <1>1 DEF Inv, AtMostOneMediaThread, FlagGuardsCreation
<1>3. TidIsJoinable' /\ JoinHasATarget'
  BY DEF Inv, TidIsJoinable, JoinHasATarget
<1>4. EarlyThreadsAreJoined'
  BY <1>1, TidAssumption DEF Inv, EarlyThreadsAreJoined
<1> QED
  BY <1>2, <1>3, <1>4 DEF Inv

LEMMA SigInv ==
  ASSUME Inv, TypeOK', SigNext
  PROVE  Inv'
<1> USE DEF SigNext, flagVars, sessVars, sigVars, pollVars, threadVars, senderVars, historyVars
<1>1. ASSUME NEW s \in Sessions, Offer(s) PROVE Inv'
  BY <1>1, SameThreadsInv DEF Offer, Inv, TidIsJoinable, EarlyThreadsAreJoined
<1>2. CASE OfferFails \/ CreateMediaThreadFails
  BY <1>2, SameThreadsInv DEF OfferFails, CreateMediaThreadFails, Inv, TidIsJoinable
<1>3. CASE ExchangeStarted
  <2>1. /\ sigPc = "offer" /\ sigPc' = (IF mediaThreadStarted THEN "idle" ELSE "create")
        /\ mediaThreadStarted' = TRUE
        /\ UNCHANGED <<mediaPc, mediaControlTid, joinTid, lateStart, pollPc>>
    BY <1>3 DEF ExchangeStarted
  <2>2. Active' = Active
    BY <2>1 DEF Active
  <2>3. AtMostOneMediaThread' /\ FlagGuardsCreation'
    BY <2>1, <2>2 DEF Inv, AtMostOneMediaThread, FlagGuardsCreation
  <2>4. TidIsJoinable' /\ JoinHasATarget' /\ EarlyThreadsAreJoined'
    BY <2>1, <2>2 DEF Inv, TidIsJoinable, JoinHasATarget, EarlyThreadsAreJoined
  <2> QED
    BY <2>3, <2>4 DEF Inv
<1>4. CASE CreateMediaThread
  <2>1. PICK t \in Tids : /\ Unused(t) /\ mediaPc' = [mediaPc EXCEPT ![t] = "started"]
                          /\ mediaControlTid' = t
    BY <1>4 DEF CreateMediaThread
  <2>2. /\ sigPc = "create" /\ sigPc' = "idle"
        /\ lateStart' = (lateStart \/ pollPc \in Stopping)
        /\ UNCHANGED <<mediaThreadStarted, joinTid, pollPc>>
    BY <1>4 DEF CreateMediaThread
  <2>3. Active = {} /\ mediaThreadStarted
    BY <2>2 DEF Inv, FlagGuardsCreation
  <2>4. mediaPc \in [Tids -> {"none", "started", "waiting", "leaving", "source", "running",
                              "exit", "done"}]
    BY DEF Inv, TypeOK
  <2>5. Active' = {t}
    BY <2>1, <2>3, <2>4 DEF Active
  <2>6. AtMostOneMediaThread' /\ FlagGuardsCreation'
    BY <2>2, <2>3, <2>5 DEF AtMostOneMediaThread, FlagGuardsCreation
  <2>7. mediaPc'[t] = "started" /\ \A u \in Tids : u # t => mediaPc'[u] = mediaPc[u]
    BY <2>1, <2>4
  <2>8. TidIsJoinable'
    BY <2>1, <2>7, TidAssumption DEF TidIsJoinable
  <2>9. JoinHasATarget'
    BY <2>1, <2>2, <2>7 DEF Inv, TypeOK, JoinHasATarget
  <2>10. EarlyThreadsAreJoined'
    BY <2>1, <2>2, <2>5 DEF Inv, EarlyThreadsAreJoined, Stopping
  <2> QED
    BY <2>6, <2>8, <2>9, <2>10 DEF Inv
<1> QED
  BY <1>1, <1>2, <1>3, <1>4

LEMMA CallbackInv ==
  ASSUME Inv, TypeOK', CallbackNext
  PROVE  Inv'
  BY SameThreadsInv DEF CallbackNext, Connected, NotConnected, sigVars, pollVars, threadVars, senderVars, historyVars,
     Inv, TidIsJoinable, EarlyThreadsAreJoined

LEMMA MediaInv ==
  ASSUME Inv, TypeOK', NEW t \in Tids, MediaNext(t)
  PROVE  Inv'
<1> USE DEF flagVars, sessVars, sigVars, pollVars, threadVars, senderVars, historyVars
<1>1. /\ mediaPc \in [Tids -> {"none", "started", "waiting", "leaving", "source", "running",
                               "exit", "done"}]
      /\ UNCHANGED <<sigPc, pollPc, mediaControlTid, joinTid, lateStart>>
  BY DEF Inv, TypeOK, MediaNext, MediaStart, MediaWaited, MediaChecked, SourceRun,
         SourceReturns, SenderJoinFails, MediaExit
<1>2. CASE MediaExit(t)
  <2>1. /\ mediaPc[t] = "exit" /\ mediaPc' = [mediaPc EXCEPT ![t] = "done"]
    BY <1>2 DEF MediaExit, At
  <2>2. t \in Active /\ Active' = Active \ {t}
    BY <1>1, <2>1 DEF Active
  <2>3. Active' = {} /\ sigPc # "create"
    BY <2>2 DEF Inv, AtMostOneMediaThread, FlagGuardsCreation
  <2>4. \A u : u # NULL /\ mediaPc[u] # "none" /\ u \in Tids \cup {NULL} => mediaPc'[u] # "none"
    BY <1>1, <2>1
  <2>5. AtMostOneMediaThread' /\ FlagGuardsCreation'
    BY <1>1, <2>3 DEF AtMostOneMediaThread, FlagGuardsCreation
  <2>6. TidIsJoinable' /\ JoinHasATarget'
    BY <1>1, <2>4 DEF Inv, TypeOK, TidIsJoinable, JoinHasATarget
  <2>7. EarlyThreadsAreJoined'
    BY <1>1, <2>3 DEF Inv, EarlyThreadsAreJoined
  <2> QED
    BY <2>5, <2>6, <2>7 DEF Inv
<1>3. CASE ~MediaExit(t)
  <2>1. PICK pc \in {"waiting", "leaving", "source", "running", "exit"} :
          mediaPc' = [mediaPc EXCEPT ![t] = pc]
    BY <1>3 DEF MediaNext, At, MediaStart, MediaWaited, MediaChecked, SourceRun, SourceReturns, SenderJoinFails
  <2>2. mediaPc[t] \in {"started", "waiting", "leaving", "source", "running"}
    BY <1>3 DEF MediaNext, At, MediaStart, MediaWaited, MediaChecked, SourceRun, SourceReturns, SenderJoinFails
  <2>3. mediaThreadStarted' = mediaThreadStarted
    BY <1>3 DEF MediaNext, MediaStart, MediaWaited, MediaChecked, SourceRun, SourceReturns, SenderJoinFails
  <2>4. Active' = Active
    BY <1>1, <2>1, <2>2 DEF Active
  <2>5. \A u : u # NULL /\ mediaPc[u] # "none" /\ u \in Tids \cup {NULL} => mediaPc'[u] # "none"
    BY <1>1, <2>1
  <2>6. AtMostOneMediaThread' /\ FlagGuardsCreation'
    BY <1>1, <2>3, <2>4 DEF Inv, AtMostOneMediaThread, FlagGuardsCreation
  <2>7. TidIsJoinable' /\ JoinHasATarget'
    BY <1>1, <2>5 DEF Inv, TypeOK, TidIsJoinable, JoinHasATarget
  <2>8. EarlyThreadsAreJoined'
    BY <1>1, <2>4 DEF Inv, EarlyThreadsAreJoined
  <2> QED
    BY <2>6, <2>7, <2>8 DEF Inv
<1> QED
  BY <1>2, <1>3

\* The join of a thread that has ended, in pollApp or in freeApp.
LEMMA JoinedInv ==
  ASSUME Inv, TypeOK', pollPc \in {"joining", "freeJoin"},
         pollPc' = IF pollPc = "joining" THEN "top" ELSE "freeSignaling",
         mediaPc[joinTid] = "done", mediaPc' = [mediaPc EXCEPT ![joinTid] = "none"],
         mediaControlTid' = NULL, joinTid' = NULL,
         UNCHANGED <<sigPc, mediaThreadStarted, lateStart>>
  PROVE  Inv'
<1>1. /\ mediaPc \in [Tids -> {"none", "started", "waiting", "leaving", "source", "running",
                               "exit", "done"}]
      /\ joinTid \in Tids
  BY DEF Inv, TypeOK, JoinHasATarget
<1>2. Active' = Active /\ joinTid \notin Active
  BY <1>1 DEF Active
<1>3. ~lateStart => Active = {}
  BY <1>2 DEF Inv, EarlyThreadsAreJoined
<1>4. AtMostOneMediaThread' /\ FlagGuardsCreation' /\ EarlyThreadsAreJoined'
  BY <1>2, <1>3 DEF Inv, AtMostOneMediaThread, FlagGuardsCreation, EarlyThreadsAreJoined
<1>5. TidIsJoinable' /\ JoinHasATarget'
  BY DEF TidIsJoinable, JoinHasATarget
<1> QED
  BY <1>4, <1>5 DEF Inv

\* The tid is taken for the join.
LEMMA JoiningInv ==
  ASSUME Inv, TypeOK', pollPc \in {"join", "freeAbort"},
         pollPc' \in {"joining", "freeJoin"}, joinTid' = mediaControlTid,
         UNCHANGED <<sigPc, mediaThreadStarted, lateStart, mediaPc, mediaControlTid>>
  PROVE  Inv'
<1>1. Active' = Active
  BY DEF Active
<1> QED
  BY <1>1 DEF Inv, AtMostOneMediaThread, FlagGuardsCreation, TidIsJoinable, JoinHasATarget,
     EarlyThreadsAreJoined

LEMMA PollInv ==
  ASSUME Inv, TypeOK', PollNext
  PROVE  Inv'
<1> USE DEF flagVars, sessVars, sigVars, pollVars, threadVars, senderVars, historyVars
<1>1. CASE PollLock \/ PollScanned \/ PollShutdown \/ PollAbort \/ PollExit
  BY <1>1, SameThreadsInv DEF PollLock, PollScanned, PollShutdown, NothingToJoin, PollAbort,
     PollExit, Inv, TidIsJoinable
<1>2. ASSUME NEW s \in Sessions, PollUnlist(s) \/ PollUnlistFails(s) PROVE Inv'
  BY <1>2, SameThreadsInv DEF PollUnlist, PollUnlistFails, Inv, TidIsJoinable
<1>3. CASE PollJoin
  BY <1>3, JoiningInv DEF PollJoin
<1>4. CASE PollJoined
  BY <1>4, JoinedInv DEF PollJoined
<1> QED
  BY <1>1, <1>2, <1>3, <1>4 DEF PollNext

LEMMA FreeInv ==
  ASSUME Inv, TypeOK', FreeNext
  PROVE  Inv'
<1> USE DEF flagVars, sessVars, sigVars, pollVars, threadVars, senderVars, historyVars
<1>0. configLock = NULL => sigPc = "idle"
  BY OwnerAssumption DEF Inv, TypeOK
<1>1. CASE FreeTerminate \/ FreeShutdown \/ FreeSignaling \/ FreeAll
  BY <1>0, <1>1, SameThreadsInv DEF FreeTerminate, FreeShutdown, NothingToJoin,
     FreeSignaling, FreeAll, Inv, EarlyThreadsAreJoined
<1>2. CASE FreeAbort
  BY <1>2, JoiningInv DEF FreeAbort
<1>3. CASE FreeJoined
  BY <1>3, JoinedInv DEF FreeJoined
<1> QED
  BY <1>1, <1>2, <1>3 DEF FreeNext

LEMMA NextInv == Inv /\ [Next]_vars => Inv'
<1> SUFFICES ASSUME Inv, [Next]_vars PROVE Inv'
  OBVIOUS
<1>1. TypeOK'
  BY TypeStep DEF Inv
<1>2. CASE UNCHANGED vars
  BY <1>1, <1>2, SameThreadsInv DEF vars, flagVars, sessVars, sigVars, pollVars, threadVars, senderVars, historyVars,
     Inv, TidIsJoinable, EarlyThreadsAreJoined
<1>4. ASSUME NEW t \in Tids, SenderEnds(t) PROVE Inv'
  BY <1>1, <1>4, SameThreadsInv DEF SenderEnds, sigVars, pollVars, historyVars, flagVars, Inv,
     TidIsJoinable, EarlyThreadsAreJoined
<1>3. CASE Next
  BY <1>1, <1>3, <1>4, SigInv, CallbackInv, MediaInv, PollInv, FreeInv DEF Next
<1> QED
  BY <1>2, <1>3

LEMMA SpecInv == Spec => []Inv
  BY InitInv, NextInv, PTL DEF Spec

-----------------------------------------------------------------------------
(* The theorems.                                                             *)

\* The variables keep their types, and configLock has the owner its users assume.
THEOREM TypeCorrect == Spec => []TypeOK
<1>1. Inv => TypeOK
  BY DEF Inv
<1> QED
  BY <1>1, SpecInv, PTL

\* At most one media control thread is at work, whether or not a thread can be
\* created and whether or not the source ends by itself.
THEOREM OneMediaThread == Spec => []AtMostOneMediaThread
<1>1. Inv => AtMostOneMediaThread
  BY DEF Inv
<1> QED
  BY <1>1, SpecInv, PTL

\* A sender whose join has not failed has a control thread that waits for it.
SendersAreAwaited == \A t \in senders \ orphans : mediaPc[t] = "running"

LEMMA SenderStep ==
  ASSUME Inv, SendersAreAwaited, [Next]_vars
  PROVE  SendersAreAwaited'
<1> USE DEF SendersAreAwaited, flagVars, sessVars, sigVars, pollVars, threadVars, senderVars,
            historyVars
<1>1. /\ mediaPc \in [Tids -> {"none", "started", "waiting", "leaving", "source", "running",
                               "exit", "done"}]
      /\ senders \subseteq Tids /\ orphans \subseteq senders
  BY DEF Inv, TypeOK
<1>2. ASSUME UNCHANGED <<mediaPc, senderVars>> PROVE SendersAreAwaited'
  BY <1>2
<1>3. ASSUME NEW t \in Tids, MediaNext(t) PROVE SendersAreAwaited'
  <2>1. \A u \in Tids : u # t => mediaPc'[u] = mediaPc[u]
    BY <1>1, <1>3 DEF MediaNext, At, MediaStart, MediaWaited, MediaChecked, SourceRun,
       SourceReturns, SenderJoinFails, MediaExit
  <2>2. CASE SourceRun(t)
    <3>1. mediaPc'[t] = "running" /\ senders' \subseteq senders \cup {t} /\ orphans' = orphans
      BY <1>1, <2>2 DEF SourceRun, At
    <3> QED
      BY <1>1, <2>1, <3>1
  <2>3. CASE SourceReturns(t)
    BY <1>1, <2>1, <2>3 DEF SourceReturns
  <2>4. CASE SenderJoinFails(t)
    BY <1>1, <2>1, <2>4 DEF SenderJoinFails
  <2>5. CASE MediaStart(t) \/ MediaWaited(t) \/ MediaChecked(t) \/ MediaExit(t)
    <3>1. mediaPc[t] # "running" /\ UNCHANGED senderVars
      BY <2>5 DEF At, MediaStart, MediaWaited, MediaChecked, MediaExit
    <3> QED
      BY <1>1, <2>1, <3>1
  <2> QED
    BY <1>3, <2>2, <2>3, <2>4, <2>5 DEF MediaNext
<1>4. ASSUME NEW t \in Tids, SenderEnds(t) PROVE SendersAreAwaited'
  BY <1>4 DEF SenderEnds
<1>5. CASE CreateMediaThread
  <2>1. PICK t \in Tids : t \notin senders /\ mediaPc' = [mediaPc EXCEPT ![t] = "started"]
    BY <1>5 DEF CreateMediaThread, Unused
  <2>2. UNCHANGED senderVars
    BY <1>5 DEF CreateMediaThread
  <2> QED
    BY <1>1, <2>1, <2>2
<1>6. CASE SigNext /\ ~CreateMediaThread
  BY <1>2, <1>6 DEF SigNext, Offer, OfferFails, ExchangeStarted, CreateMediaThreadFails
<1>7. CASE CallbackNext
  BY <1>2, <1>7 DEF CallbackNext, Connected, NotConnected
<1>8. CASE PollJoined \/ FreeJoined
  <2>1. mediaPc[joinTid] = "done" /\ mediaPc' = [mediaPc EXCEPT ![joinTid] = "none"]
        /\ UNCHANGED senderVars
    BY <1>8 DEF PollJoined, FreeJoined
  <2> QED
    BY <1>1, <2>1
<1>9. CASE PollNext /\ ~PollJoined
  BY <1>2, <1>9 DEF PollNext, PollLock, PollUnlist, PollUnlistFails, PollScanned,
     PollShutdown, PollAbort, PollJoin, PollExit
<1>10. CASE FreeNext /\ ~FreeJoined
  BY <1>2, <1>10 DEF FreeNext, FreeTerminate, FreeShutdown, FreeAbort, FreeSignaling, FreeAll
<1>11. CASE UNCHANGED vars
  BY <1>2, <1>11 DEF vars
<1> QED
  BY <1>3, <1>4, <1>5, <1>6, <1>7, <1>8, <1>9, <1>10, <1>11 DEF Next

LEMMA SpecSenders == Spec => []SendersAreAwaited
<1>1. Init => SendersAreAwaited
  BY DEF Init, SendersAreAwaited
<1>2. Inv /\ SendersAreAwaited /\ [Next]_vars => SendersAreAwaited'
  BY SenderStep
<1> QED
  BY <1>1, <1>2, SpecInv, PTL DEF Spec

\* A control thread that waits for a sender is at work.
LEMMA AwaitedIsActive ==
  ASSUME Inv, SendersAreAwaited
  PROVE  senders \ orphans \subseteq Active
  BY DEF Inv, TypeOK, SendersAreAwaited, Active

\* The source's context has one sender, besides those whose join returned although
\* they were at work.
THEOREM OneSender == Spec => []SourceHasOneUser
<1>1. Inv /\ SendersAreAwaited => SourceHasOneUser
  BY AwaitedIsActive DEF Inv, AtMostOneMediaThread, SourceHasOneUser
<1> QED
  BY <1>1, SpecInv, SpecSenders, PTL

\* THREAD_JOIN is only called for a thread that exists.
THEOREM JoinsAreSound == Spec => []JoinHasATarget
<1>1. Inv => JoinHasATarget
  BY DEF Inv
<1> QED
  BY <1>1, SpecInv, PTL

\* freeApp frees the application under a running media thread only if an offer
\* started that thread while the stop of its predecessor was under way, and under a
\* sender only for that reason or because its join failed.
THEOREM OnlyLateStartsSurvive == Spec => []FreedUnderMediaOnlyByLateStart
<1>1. Inv /\ SendersAreAwaited => FreedUnderMediaOnlyByLateStart
  BY AwaitedIsActive DEF Inv, EarlyThreadsAreJoined, FreedUnderMediaOnlyByLateStart
<1> QED
  BY <1>1, SpecInv, SpecSenders, PTL

\* A creation that failed was the last one: no thread is at work any more, and no
\* offer creates one.
FailureIsFinal == createFailed => Active = {} /\ sigPc # "create"

\* How a step moves the flag, the threads and the creation.
LEMMA FlagStep ==
  ASSUME Inv, Inv', StartedTellsThread, FailureIsFinal, [Next]_vars
  PROVE  StartedTellsThread' /\ FailureIsFinal'
<1> USE DEF flagVars, sessVars, sigVars, pollVars, threadVars, senderVars, historyVars
<1>1. mediaPc \in [Tids -> {"none", "started", "waiting", "leaving", "source", "running",
                           "exit", "done"}]
  BY DEF Inv, TypeOK
<1>2. ASSUME UNCHANGED <<mediaPc, mediaThreadStarted, createFailed>>,
             sigPc' = sigPc \/ {sigPc, sigPc'} \subseteq {"idle", "offer"}
      PROVE  StartedTellsThread' /\ FailureIsFinal'
  BY <1>2 DEF StartedTellsThread, FailureIsFinal, Active
<1>3. CASE SigNext
  <2>1. CASE ExchangeStarted
    BY <2>1 DEF ExchangeStarted, StartedTellsThread, FailureIsFinal, Active
  <2>2. CASE CreateMediaThread
    <3>1. Active' # {} /\ mediaThreadStarted' /\ ~createFailed'
      BY <1>1, <2>2 DEF CreateMediaThread, Active, FailureIsFinal, Inv, FlagGuardsCreation
    <3> QED
      BY <3>1 DEF StartedTellsThread, FailureIsFinal
  <2>3. CASE CreateMediaThreadFails
    <3>1. Active' = {} /\ mediaThreadStarted' /\ createFailed' /\ sigPc' = "idle"
      BY <2>3 DEF CreateMediaThreadFails, Active, Inv, FlagGuardsCreation
    <3> QED
      BY <3>1 DEF StartedTellsThread, FailureIsFinal
  <2>4. ASSUME NEW s \in Sessions, Offer(s) PROVE StartedTellsThread' /\ FailureIsFinal'
    BY <1>2, <2>4 DEF Offer
  <2>5. CASE OfferFails
    BY <1>2, <2>5 DEF OfferFails
  <2> QED
    BY <1>3, <2>1, <2>2, <2>3, <2>4, <2>5 DEF SigNext
<1>4. ASSUME NEW t \in Tids, MediaNext(t) PROVE StartedTellsThread' /\ FailureIsFinal'
  <2>1. t \in Active /\ UNCHANGED <<sigPc, createFailed>>
    BY <1>4 DEF MediaNext, At, MediaStart, MediaWaited, MediaChecked, SourceRun, SourceReturns, SenderJoinFails,
       MediaExit, Active
  <2>2. ~createFailed /\ sigPc # "create"
    BY <2>1 DEF FailureIsFinal, Inv, FlagGuardsCreation
  <2>3. CASE MediaExit(t)
    <3>1. Active' = Active \ {t} /\ ~mediaThreadStarted'
      BY <1>1, <2>3 DEF MediaExit, At, Active
    <3>2. Active' = {}
      BY <2>1, <3>1 DEF Inv, AtMostOneMediaThread
    <3> QED
      BY <2>1, <2>2, <3>1, <3>2 DEF StartedTellsThread, FailureIsFinal
  <2>4. CASE ~MediaExit(t)
    <3>1. PICK pc \in {"waiting", "leaving", "source", "running", "exit"} :
            mediaPc' = [mediaPc EXCEPT ![t] = pc]
      BY <1>4, <2>4 DEF MediaNext, At, MediaStart, MediaWaited, MediaChecked, SourceRun,
         SourceReturns, SenderJoinFails
    <3>2. Active' # {}
      BY <1>1, <3>1 DEF Active
    <3>3. mediaThreadStarted' = mediaThreadStarted
      BY <1>4, <2>4 DEF MediaNext, MediaStart, MediaWaited, MediaChecked, SourceRun, SourceReturns, SenderJoinFails
    <3> QED
      BY <2>1, <2>2, <3>2, <3>3 DEF StartedTellsThread, FailureIsFinal
  <2> QED
    BY <2>3, <2>4
<1>5. CASE PollJoined \/ FreeJoined
  <2>1. joinTid \in Tids /\ mediaPc[joinTid] = "done"
    BY <1>5 DEF PollJoined, FreeJoined, Inv, TypeOK, JoinHasATarget
  <2>2. mediaPc' = [mediaPc EXCEPT ![joinTid] = "none"]
        /\ UNCHANGED <<sigPc, mediaThreadStarted, createFailed>>
    BY <1>5 DEF PollJoined, FreeJoined
  <2>3. Active' = Active
    BY <1>1, <2>1, <2>2 DEF Active
  <2> QED
    BY <2>2, <2>3 DEF StartedTellsThread, FailureIsFinal
<1>6. CASE CallbackNext
  BY <1>2, <1>6 DEF CallbackNext, Connected, NotConnected
<1>7. CASE PollNext /\ ~PollJoined
  BY <1>2, <1>7 DEF PollNext, PollLock, PollUnlist, PollUnlistFails, PollScanned, PollShutdown, PollAbort,
     PollJoin, PollExit
<1>8. CASE FreeNext /\ ~FreeJoined
  BY <1>2, <1>8 DEF FreeNext, FreeTerminate, FreeShutdown, FreeAbort, FreeSignaling, FreeAll
<1>9. CASE UNCHANGED vars
  BY <1>2, <1>9 DEF vars
<1>10. ASSUME NEW t \in Tids, SenderEnds(t) PROVE StartedTellsThread' /\ FailureIsFinal'
  BY <1>2, <1>10 DEF SenderEnds
<1> QED
  BY <1>3, <1>4, <1>5, <1>6, <1>7, <1>8, <1>9, <1>10 DEF Next, PollNext, FreeNext

\* mediaThreadStarted tells the truth, until a creation fails.
THEOREM FlagTellsThread == Spec => []StartedTellsThread
<1>1. Init => StartedTellsThread /\ FailureIsFinal
  BY DEF Init, StartedTellsThread, FailureIsFinal, Active
<1>2. Inv /\ Inv' /\ StartedTellsThread /\ FailureIsFinal /\ [Next]_vars
        => StartedTellsThread' /\ FailureIsFinal'
  BY FlagStep
<1> QED
  BY <1>1, <1>2, SpecInv, PTL DEF Spec

-----------------------------------------------------------------------------
(* What a join can hang on.                                                  *)

\* As long as no starting thread took the stop back, its flags stand, and whoever
\* joins has set them.
StopStands ==
  /\ joinTid # NULL => pollPc \in {"joining", "freeJoin"}
  /\ pollPc \in {"freeShutdown", "freeAbort", "freeJoin"} => terminateApp
  /\ ~overtaking =>
       /\ pollPc \in AbortGiven => abortMediaControl
       /\ pollPc \in ShutdownGiven => shutdownFileSrc

LEMMA StopStep ==
  ASSUME Inv, StopStands, [Next]_vars
  PROVE  StopStands'
<1> USE DEF StopStands, AbortGiven, ShutdownGiven, flagVars, sessVars, sigVars, pollVars,
            threadVars, senderVars, historyVars
<1>1. CASE SigNext
  BY <1>1 DEF SigNext, Offer, OfferFails, ExchangeStarted, CreateMediaThread,
     CreateMediaThreadFails
<1>2. CASE CallbackNext
  BY <1>2 DEF CallbackNext, Connected, NotConnected
<1>3. ASSUME NEW t \in Tids, MediaNext(t) PROVE StopStands'
  <2>1. CASE MediaStart(t)
    BY <2>1 DEF MediaStart
  <2>2. CASE SourceRun(t)
    BY <2>2 DEF SourceRun
  <2>3. CASE \/ MediaWaited(t) \/ MediaChecked(t) \/ SourceReturns(t) \/ SenderJoinFails(t)
             \/ MediaExit(t)
    BY <2>3 DEF MediaWaited, MediaChecked, SourceReturns, SenderJoinFails, MediaExit
  <2> QED
    BY <1>3, <2>1, <2>2, <2>3 DEF MediaNext
<1>4. CASE PollNext
  <2>1. CASE \/ PollLock \/ (\E s \in Sessions : PollUnlist(s) \/ PollUnlistFails(s))
             \/ PollScanned \/ PollExit
    BY <2>1 DEF PollLock, PollUnlist, PollUnlistFails, PollScanned, PollExit
  <2>2. CASE PollShutdown \/ PollAbort
    BY <2>2 DEF PollShutdown, PollAbort
  <2>3. CASE PollJoin \/ PollJoined
    BY <2>3 DEF PollJoin, PollJoined
  <2> QED
    BY <1>4, <2>1, <2>2, <2>3 DEF PollNext
<1>5. CASE FreeNext
  BY <1>5 DEF FreeNext, FreeTerminate, FreeShutdown, FreeAbort, FreeJoined, FreeSignaling,
     FreeAll
<1>6. CASE UNCHANGED vars
  BY <1>6 DEF vars
<1>7. ASSUME NEW t \in Tids, SenderEnds(t) PROVE StopStands'
  BY <1>7 DEF SenderEnds
<1> QED
  BY <1>1, <1>2, <1>3, <1>4, <1>5, <1>6, <1>7 DEF Next

\* A join that nobody has overtaken waits for a thread that was told to stop: both
\* stops, of pollApp and of freeApp, set every flag their target may wait on.
THEOREM OnlyOvertakenJoinsHang == Spec => []JoinHangsOnlyWhenOvertaken
<1>1. Init => StopStands
  BY DEF Init, StopStands, AbortGiven, ShutdownGiven
<1>2. Inv /\ StopStands /\ [Next]_vars => StopStands'
  BY StopStep
<1>3. StopStands => JoinHangsOnlyWhenOvertaken
  BY DEF StopStands, JoinHangsOnlyWhenOvertaken, AbortGiven, ShutdownGiven
<1> QED
  BY <1>1, <1>2, <1>3, SpecInv, PTL DEF Spec

-----------------------------------------------------------------------------
(* The contract with the sessions.                                           *)

\* The local flag of pollApp is up only in a round that has removed the last
\* session, and while it is being acted upon.
RoundInv ==
  /\ InRound /\ shutdownMediaSource => sessions = {}
  /\ pollPc \in {"shutdown", "abort"} => shutdownMediaSource
  /\ pollPc = "top" => ~shutdownMediaSource

LEMMA RoundStep ==
  ASSUME Inv, RoundInv, [Next]_vars
  PROVE  RoundInv'
<1> USE DEF RoundInv, InRound, flagVars, sessVars, sigVars, pollVars, threadVars,
            senderVars, historyVars
<1>1. configLock = NULL => ~InRound
  BY OwnerAssumption DEF Inv, TypeOK
<1>2. CASE SigNext
  BY <1>1, <1>2 DEF SigNext, Offer, OfferFails, ExchangeStarted, CreateMediaThread,
     CreateMediaThreadFails
<1>3. CASE CallbackNext
  BY <1>3 DEF CallbackNext, Connected, NotConnected
<1>4. ASSUME NEW t \in Tids, MediaNext(t) PROVE RoundInv'
  BY <1>4 DEF MediaNext, MediaStart, MediaWaited, MediaChecked, SourceRun, SourceReturns, SenderJoinFails,
     MediaExit
<1>5. CASE PollNext
  <2>1. ASSUME NEW s \in Sessions, PollUnlist(s) \/ PollUnlistFails(s) PROVE RoundInv'
    BY <2>1 DEF PollUnlist, PollUnlistFails
  <2>2. CASE PollLock \/ PollScanned \/ PollExit
    BY <2>2 DEF PollLock, PollScanned, PollExit
  <2>3. CASE PollShutdown \/ PollAbort
    BY <2>3 DEF PollShutdown, PollAbort
  <2>4. CASE PollJoin \/ PollJoined
    BY <2>4 DEF PollJoin, PollJoined
  <2> QED
    BY <1>5, <2>1, <2>2, <2>3, <2>4 DEF PollNext
<1>6. CASE FreeNext
  BY <1>6 DEF FreeNext, FreeTerminate, FreeShutdown, FreeAbort, FreeJoined, FreeSignaling,
     FreeAll
<1>7. CASE UNCHANGED vars
  BY <1>7 DEF vars
<1>8. ASSUME NEW t \in Tids, SenderEnds(t) PROVE RoundInv'
  BY <1>8 DEF SenderEnds
<1> QED
  BY <1>2, <1>3, <1>4, <1>5, <1>6, <1>7, <1>8 DEF Next

LEMMA SpecRoundInv == Spec => []RoundInv
<1>1. Init => RoundInv
  BY DEF Init, RoundInv, InRound
<1>2. Inv /\ RoundInv /\ [Next]_vars => RoundInv'
  BY RoundStep
<1> QED
  BY <1>1, <1>2, SpecInv, PTL DEF Spec

\* What the phase is, place by place.
PhaseFacts ==
  /\ Phase = "round" <=> pollPc \in {"scan", "shutdown", "abort"}
  /\ Phase = "open" <=> pollPc = "top"
  /\ Phase = "join" <=> pollPc \in {"join", "joining"}
  /\ Phase = "over" <=> pollPc \in {"free", "freeShutdown", "freeAbort", "freeJoin",
                                    "freeSignaling", "freeing", "freed"}
  /\ Phase \in {"round", "open", "join", "over"}
  /\ Due = IF Phase = "round" THEN sessions \cap ended ELSE {}

\* Each step is one of the contract, or none.
LEMMA RoundsNextOrNone ==
  ASSUME Inv, Inv', RoundInv, [Next]_vars
  PROVE  [Rounds!Next]_(Rounds!vars)
<1>1. PhaseFacts
  BY DEF PhaseFacts, Phase, InRound, Due, Inv, TypeOK, Stopping
<1>2. PhaseFacts'
  BY DEF PhaseFacts, Phase, InRound, Due, Inv, TypeOK, Stopping
<1>3. configLock = NULL => Phase # "round"
  BY <1>1, OwnerAssumption DEF PhaseFacts, Inv, TypeOK
<1> USE <1>1, <1>2 DEF PhaseFacts, flagVars, sessVars, sigVars, pollVars, threadVars, senderVars, historyVars
<1>4. ASSUME UNCHANGED <<sessions, ended, shutdownMediaSource>>, Phase' = Phase
      PROVE  UNCHANGED Rounds!vars
  BY <1>4 DEF Rounds!vars
<1>5. CASE SigNext
  <2>1. ASSUME NEW s \in Sessions, Offer(s) PROVE Rounds!Add(s)
    BY <1>3, <2>1 DEF Offer, Rounds!Add
  <2>2. CASE OfferFails \/ ExchangeStarted \/ CreateMediaThread \/ CreateMediaThreadFails
    <3>1. UNCHANGED <<sessions, ended, shutdownMediaSource, pollPc>>
      BY <2>2 DEF OfferFails, ExchangeStarted, CreateMediaThread, CreateMediaThreadFails
    <3> QED
      BY <1>4, <3>1
  <2> QED
    BY <1>5, <2>1, <2>2 DEF SigNext, Rounds!Next
<1>6. CASE CallbackNext
  <2>1. ASSUME NEW s \in Sessions, Connected(s) PROVE UNCHANGED Rounds!vars
    BY <1>4, <2>1 DEF Connected
  <2>2. ASSUME NEW s \in Sessions, NotConnected(s, FALSE) PROVE UNCHANGED Rounds!vars
    BY <1>4, <2>2 DEF NotConnected
  <2>3. ASSUME NEW s \in Sessions, NotConnected(s, TRUE) PROVE Rounds!Lose(s)
    <3>1. /\ ended' = ended \cup {s}
          /\ UNCHANGED <<sessions, shutdownMediaSource, pollPc>>
      BY <2>3 DEF NotConnected
    <3>2. Phase' = Phase
      BY <3>1
    <3>3. Phase = "round" /\ s \in sessions => Due' = Due \cup {s}
      BY <3>1, <3>2
    <3>4. Phase # "round" \/ s \notin sessions => Due' = Due
      BY <3>1, <3>2
    <3> QED
      BY <3>1, <3>2, <3>3, <3>4 DEF Rounds!Lose
  <2> QED
    BY <1>6, <2>1, <2>2, <2>3 DEF CallbackNext, Rounds!Next
<1>7. ASSUME NEW t \in Tids, MediaNext(t) \/ SenderEnds(t) PROVE UNCHANGED Rounds!vars
  <2>1. UNCHANGED <<sessions, ended, shutdownMediaSource, pollPc>>
    BY <1>7 DEF SenderEnds, MediaNext, MediaStart, MediaWaited, MediaChecked, SourceRun, SourceReturns, SenderJoinFails,
       MediaExit
  <2> QED
    BY <1>4, <2>1
<1>8. CASE PollNext
  <2>1. CASE PollLock
    BY <2>1 DEF PollLock, Rounds!BeginRound, Rounds!Next
  <2>2. ASSUME NEW s \in Sessions, PollUnlist(s) PROVE Rounds!Remove(s)
    BY <2>2 DEF PollUnlist, Rounds!Remove
  <2>9. ASSUME NEW s \in Sessions, PollUnlistFails(s) PROVE Rounds!Break(s)
    BY <2>9 DEF PollUnlistFails, Rounds!Break
  <2>3. CASE PollScanned
    <3>1. CASE shutdownMediaSource
      BY <1>4, <2>3, <3>1 DEF PollScanned
    <3>2. CASE ~shutdownMediaSource
      BY <2>3, <3>2 DEF PollScanned, Inv, TypeOK, Rounds!EndRound, Rounds!Next
    <3> QED
      BY <3>1, <3>2
  <2>4. CASE PollShutdown
    <3>1. CASE NothingToJoin
      BY <2>4, <3>1 DEF PollShutdown, RoundInv, InRound, Rounds!EndRound, Rounds!Next
    <3>2. CASE ~NothingToJoin
      BY <1>4, <2>4, <3>2 DEF PollShutdown
    <3> QED
      BY <3>1, <3>2
  <2>5. CASE PollAbort
    BY <2>5 DEF PollAbort, RoundInv, InRound, Rounds!EndRound, Rounds!Next
  <2>6. CASE PollJoin
    BY <1>4, <2>6 DEF PollJoin
  <2>7. CASE PollJoined
    BY <2>7 DEF PollJoined, Rounds!Joined, Rounds!Next
  <2>8. CASE PollExit
    BY <2>8 DEF PollExit, Rounds!Leave, Rounds!Next
  <2> QED
    BY <1>8, <2>1, <2>2, <2>3, <2>4, <2>5, <2>6, <2>7, <2>8, <2>9 DEF PollNext, Rounds!Next
<1>9. CASE FreeNext
  <2>1. CASE FreeAll
    BY <2>1 DEF FreeAll, Rounds!FreeAll, Rounds!Next
  <2>2. CASE FreeTerminate \/ FreeShutdown \/ FreeAbort \/ FreeJoined \/ FreeSignaling
    <3>1. UNCHANGED <<sessions, ended, shutdownMediaSource>> /\ Phase' = Phase
      BY <2>2 DEF FreeTerminate, FreeShutdown, FreeAbort, FreeJoined, FreeSignaling
    <3> QED
      BY <1>4, <3>1
  <2> QED
    BY <1>9, <2>1, <2>2 DEF FreeNext
<1>10. CASE UNCHANGED vars
  BY <1>4, <1>10 DEF vars
<1> QED
  BY <1>5, <1>6, <1>7, <1>8, <1>9, <1>10 DEF Next

\* The module keeps the contract of SessionRounds: a round begins and ends under
\* configLock, removes only sessions that were lost, and leads to a join only after
\* it has removed the last one.
THEOREM ThreadKeepsTheContract == Spec => RoundsSpec
<1>1. Init => Rounds!Init
  BY DEF Init, Rounds!Init, Phase, Due, InRound
<1>2. Inv /\ Inv' /\ RoundInv /\ [Next]_vars => [Rounds!Next]_(Rounds!vars)
  BY RoundsNextOrNone
<1> QED
  BY <1>1, <1>2, SpecInv, SpecRoundInv, PTL DEF Spec, RoundsSpec, Rounds!Spec
=============================================================================

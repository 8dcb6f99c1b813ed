-------------------------- MODULE AppLifecycle_proofs --------------------------
(***************************************************************************)
(* The life of the application's parts, for every size of the pool and     *)
(* every number of retries: the whole runs the pool as CertPool specifies  *)
(* and the start-up as BoardStart does; users have their parts, and        *)
(* nothing is left in the end.                                             *)
(***************************************************************************)
EXTENDS AppLifecycle, CertPool_proofs

-----------------------------------------------------------------------------
(* The two specifications the whole is made of.                              *)

\* Every step is a step of the pool, or leaves it alone.
LEMMA CertStep == [LifeNext]_allVars => [Next]_vars
<1> SUFFICES ASSUME [LifeNext]_allVars PROVE [Next]_vars
  OBVIOUS
<1>1. CASE MainStep
  BY <1>1 DEF MainStep, MainNext, Next
<1>2. CASE TimerStep \/ CallbackStep
  BY <1>2 DEF TimerStep, CallbackStep, TimerFires, CallbackNext, Next
<1>3. CASE MessageStep \/ HandlerStep
  BY <1>3 DEF MessageStep, HandlerStep, MessageNext, HandlerNext, Next
<1>4. CASE BoardStep \/ QuitStep \/ FaultStep \/ UNCHANGED allVars
  BY <1>4 DEF BoardStep, QuitStep, FaultStep, allVars
<1> QED
  BY <1>1, <1>2, <1>3, <1>4 DEF LifeNext

\* In whatever order initApp fails and freeApp releases, the certificates follow
\* CertPool, so that what is proved of it holds here.
THEOREM CertificatesAsInCertPool == LifeSpec => Spec
<1>1. LifeInit => Init
  BY DEF LifeInit
<1> QED
  BY <1>1, CertStep, PTL DEF LifeSpec, Spec

LEMMA BoardStepOrNone == [LifeNext]_allVars => [BoardNext]_boardVars
<1> SUFFICES ASSUME [LifeNext]_allVars PROVE [BoardNext]_boardVars
  OBVIOUS
<1>1. CASE BoardStep
  BY <1>1 DEF BoardStep
<1>2. CASE MainStep \/ QuitStep \/ TimerStep \/ CallbackStep
  BY <1>2 DEF MainStep, QuitStep, TimerStep, CallbackStep
<1>3. CASE MessageStep \/ HandlerStep \/ FaultStep \/ UNCHANGED allVars
  BY <1>3 DEF MessageStep, HandlerStep, FaultStep, allVars
<1> QED
  BY <1>1, <1>2, <1>3 DEF LifeNext

-----------------------------------------------------------------------------
(* The board's start.                                                        *)

\* The failure bit is the end of the station's attempts.
RetriesCounted ==
  /\ s_retry_num <= failures
  /\ "FAIL" \in bits => link = "down" /\ event = "none" /\ failures > MaxRetry
  /\ event = "gotIp" => link = "up"
  /\ event = "disconnected" => link = "down"

\* Bits and handlers come and go with the event group.
WithGroup ==
  /\ ~group => bits = {} /\ handlers = {}
  /\ bootPc = "noIpHandler" => "IP" \notin handlers
  /\ bootPc = "noHandler" => handlers = {}

BoardInv == BoardTypeOK /\ RetriesCounted /\ WithGroup

LEMMA BoardInitInv == BoardInit => BoardInv
<1> SUFFICES ASSUME BoardInit PROVE BoardInv
  OBVIOUS
<1>1. ~group /\ group \in BOOLEAN
  BY DEF BoardInit
<1>2. BoardTypeOK
  BY <1>1, RetryAssumption DEF BoardInit, BoardTypeOK
<1> QED
  BY <1>1, <1>2 DEF BoardInit, BoardInv, RetriesCounted, WithGroup

LEMMA BoardNextInv == BoardInv /\ [BoardNext]_boardVars => BoardInv'
<1> SUFFICES ASSUME BoardInv, [BoardNext]_boardVars PROVE BoardInv'
  OBVIOUS
<1> USE RetryAssumption DEF BoardInv
<1>1. CASE InitNvs
  <2>1. BoardTypeOK'
    BY <1>1 DEF InitNvs, Goes, wifiVars, BoardTypeOK
  <2>2. RetriesCounted'
    BY <1>1 DEF InitNvs, Goes, wifiVars, BoardTypeOK, RetriesCounted, WithGroup
  <2>3. WithGroup'
    BY <1>1 DEF InitNvs, Goes, wifiVars, BoardTypeOK, WithGroup
  <2> QED
    BY <2>1, <2>2, <2>3
<1>2. CASE StartWifi
  <2>1. BoardTypeOK'
    BY <1>2 DEF StartWifi, Goes, BoardTypeOK
  <2>2. RetriesCounted'
    BY <1>2 DEF StartWifi, Goes, BoardTypeOK, RetriesCounted, WithGroup
  <2>3. WithGroup'
    BY <1>2 DEF StartWifi, Goes, BoardTypeOK, WithGroup
  <2> QED
    BY <2>1, <2>2, <2>3
<1>3. CASE WaitEnds
  <2>1. BoardTypeOK'
    BY <1>3 DEF WaitEnds, Goes, BoardTypeOK
  <2>2. RetriesCounted'
    BY <1>3 DEF WaitEnds, Goes, BoardTypeOK, RetriesCounted, WithGroup
  <2>3. WithGroup'
    BY <1>3 DEF WaitEnds, Goes, BoardTypeOK, WithGroup
  <2> QED
    BY <2>1, <2>2, <2>3
<1>4. CASE Unregister
  <2>1. BoardTypeOK'
    BY <1>4 DEF Unregister, Goes, BoardTypeOK
  <2>2. RetriesCounted'
    BY <1>4 DEF Unregister, Goes, BoardTypeOK, RetriesCounted, WithGroup
  <2>3. WithGroup'
    BY <1>4 DEF Unregister, Goes, BoardTypeOK, WithGroup
  <2> QED
    BY <2>1, <2>2, <2>3
<1>5. CASE DeleteGroup
  <2>1. BoardTypeOK'
    <3>1. ~group' /\ group' \in BOOLEAN
      BY <1>5 DEF DeleteGroup
    <3> QED
      BY <1>5, <3>1 DEF DeleteGroup, Goes, BoardTypeOK
  <2>2. RetriesCounted'
    BY <1>5 DEF DeleteGroup, Goes, BoardTypeOK, RetriesCounted, WithGroup
  <2>3. WithGroup'
    BY <1>5 DEF DeleteGroup, Goes, BoardTypeOK, WithGroup
  <2> QED
    BY <2>1, <2>2, <2>3
<1>6. CASE Mount
  <2>1. BoardTypeOK'
    BY <1>6 DEF Mount, Goes, wifiVars, BoardTypeOK
  <2>2. RetriesCounted'
    BY <1>6 DEF Mount, Goes, wifiVars, BoardTypeOK, RetriesCounted, WithGroup
  <2>3. WithGroup'
    BY <1>6 DEF Mount, Goes, wifiVars, BoardTypeOK, WithGroup
  <2> QED
    BY <2>1, <2>2, <2>3
<1>7. CASE SntpWait
  <2>1. BoardTypeOK'
    BY <1>7 DEF SntpWait, wifiVars, BoardTypeOK
  <2>2. RetriesCounted'
    BY <1>7 DEF SntpWait, wifiVars, BoardTypeOK, RetriesCounted, WithGroup
  <2>3. WithGroup'
    BY <1>7 DEF SntpWait, wifiVars, BoardTypeOK, WithGroup
  <2> QED
    BY <2>1, <2>2, <2>3
<1>8. CASE SntpEnds
  <2>1. BoardTypeOK'
    BY <1>8 DEF SntpEnds, Goes, wifiVars, BoardTypeOK
  <2>2. RetriesCounted'
    BY <1>8 DEF SntpEnds, Goes, wifiVars, BoardTypeOK, RetriesCounted, WithGroup
  <2>3. WithGroup'
    BY <1>8 DEF SntpEnds, Goes, wifiVars, BoardTypeOK, WithGroup
  <2> QED
    BY <2>1, <2>2, <2>3
<1>9. CASE Restart
  <2>1. BoardTypeOK'
    <3>1. ~group' /\ group' \in BOOLEAN
      BY <1>9 DEF Restart
    <3> QED
      BY <1>9, <3>1 DEF Restart, BoardTypeOK
  <2>2. RetriesCounted'
    BY <1>9 DEF Restart, BoardTypeOK, RetriesCounted, WithGroup
  <2>3. WithGroup'
    BY <1>9 DEF Restart, BoardTypeOK, WithGroup
  <2> QED
    BY <2>1, <2>2, <2>3
<1>10. CASE LinkFails
  <2>1. BoardTypeOK'
    BY <1>10 DEF LinkFails, BoardTypeOK
  <2>2. RetriesCounted'
    BY <1>10 DEF LinkFails, BoardTypeOK, RetriesCounted, WithGroup
  <2>3. WithGroup'
    BY <1>10 DEF LinkFails, BoardTypeOK, WithGroup
  <2> QED
    BY <2>1, <2>2, <2>3
<1>11. CASE LinkComesUp
  <2>1. BoardTypeOK'
    BY <1>11 DEF LinkComesUp, BoardTypeOK
  <2>2. RetriesCounted'
    BY <1>11 DEF LinkComesUp, BoardTypeOK, RetriesCounted, WithGroup
  <2>3. WithGroup'
    BY <1>11 DEF LinkComesUp, BoardTypeOK, WithGroup
  <2> QED
    BY <2>1, <2>2, <2>3
<1>12. CASE StaStart
  <2>1. BoardTypeOK'
    BY <1>12 DEF StaStart, WifiConnect, BoardTypeOK
  <2>2. RetriesCounted'
    BY <1>12 DEF StaStart, WifiConnect, BoardTypeOK, RetriesCounted, WithGroup
  <2>3. WithGroup'
    BY <1>12 DEF StaStart, BoardTypeOK, WithGroup
  <2> QED
    BY <2>1, <2>2, <2>3
<1>13. CASE StaDisconnected
  <2>0. /\ event = "disconnected" /\ event' = "none"
        /\ failures' = failures + 1 /\ handlers' = handlers
        /\ UNCHANGED <<bootPc, group, retry>>
        /\ failures \in Nat /\ s_retry_num \in 0..MaxRetry
    BY <1>13 DEF StaDisconnected, BoardTypeOK
  <2>1. CASE TriesAgain
    <3>1. link' \in {"trying", "silent"} /\ s_retry_num' = s_retry_num + 1 /\ bits' = bits
      BY <1>13, <2>1 DEF StaDisconnected, WifiConnect
    <3>2. s_retry_num' \in 0..MaxRetry /\ "FAIL" \notin bits
      BY <2>0, <2>1, <3>1 DEF TriesAgain, RetriesCounted
    <3>3. BoardTypeOK'
      BY <2>0, <3>1, <3>2 DEF BoardTypeOK
    <3>4. RetriesCounted'
      BY <2>0, <3>1, <3>2 DEF RetriesCounted
    <3> QED
      BY <2>0, <3>1, <3>3, <3>4 DEF WithGroup
  <2>2. CASE ~TriesAgain
    <3>1. UNCHANGED <<link, s_retry_num>> /\ bits' = bits \cup {"FAIL"}
      BY <1>13, <2>2 DEF StaDisconnected
    <3>2. failures' > MaxRetry
      BY <1>13, <2>0, <2>2 DEF TriesAgain, RetriesCounted
    <3>3. BoardTypeOK'
      BY <2>0, <3>1 DEF BoardTypeOK
    <3>4. RetriesCounted'
      BY <2>0, <3>1, <3>2 DEF RetriesCounted
    <3>5. group
      BY <1>13 DEF StaDisconnected, WithGroup
    <3> QED
      BY <2>0, <3>1, <3>3, <3>4, <3>5 DEF WithGroup
  <2> QED
    BY <2>1, <2>2
<1>14. CASE GotIp
  <2>1. BoardTypeOK'
    BY <1>14 DEF GotIp, BoardTypeOK
  <2>2. RetriesCounted'
    BY <1>14 DEF GotIp, BoardTypeOK, RetriesCounted, WithGroup
  <2>3. WithGroup'
    BY <1>14 DEF GotIp, BoardTypeOK, WithGroup
  <2> QED
    BY <2>1, <2>2, <2>3
<1>15. CASE DropEvent
  <2>1. BoardTypeOK'
    BY <1>15 DEF DropEvent, BoardTypeOK
  <2>2. RetriesCounted'
    BY <1>15 DEF DropEvent, BoardTypeOK, RetriesCounted, WithGroup
  <2>3. WithGroup'
    BY <1>15 DEF DropEvent, BoardTypeOK, WithGroup
  <2> QED
    BY <2>1, <2>2, <2>3
<1>16. CASE UNCHANGED boardVars
  <2>1. BoardTypeOK'
    BY <1>16 DEF boardVars, wifiVars, BoardTypeOK
  <2>2. RetriesCounted'
    BY <1>16 DEF boardVars, wifiVars, BoardTypeOK, RetriesCounted, WithGroup
  <2>3. WithGroup'
    BY <1>16 DEF boardVars, wifiVars, BoardTypeOK, WithGroup
  <2> QED
    BY <2>1, <2>2, <2>3
<1> QED
  BY <1>1, <1>2, <1>3, <1>4, <1>5, <1>6, <1>7, <1>8, <1>9,
     <1>10, <1>11, <1>12, <1>13, <1>14, <1>15, <1>16
     DEF BoardNext, AppMainNext, StationNext, LinkNext, EventNext

LEMMA BoardAlways == LifeSpec => []BoardInv
<1>1. LifeInit => BoardInv
  BY BoardInitInv DEF LifeInit
<1> QED
  BY <1>1, BoardStepOrNone, BoardNextInv, PTL DEF LifeSpec

\* The application brings the board up as BoardStart describes and does nothing else
\* to it, so that what is proved of BoardStart holds in the application.
THEOREM BoardAsInBoardStart == LifeSpec => BoardSpec
<1>1. LifeInit => BoardInit
  BY DEF LifeInit
<1> QED
  BY <1>1, BoardStepOrNone, PTL DEF LifeSpec, BoardSpec

\* Whenever the failure bit is set, the station has used up its retries.
THEOREM FailBitIsEarned == LifeSpec => []FailBitMeansExhausted
<1>1. BoardInv => FailBitMeansExhausted
  BY DEF BoardInv, RetriesCounted, FailBitMeansExhausted
<1> QED
  BY <1>1, BoardAlways, PTL

\* No handler is registered when the event group is gone.
THEOREM GroupIsNotLost == LifeSpec => []GroupOutlivesHandlers
<1>1. BoardInv => GroupOutlivesHandlers
  BY DEF BoardInv, WithGroup, GroupOutlivesHandlers
<1> QED
  BY <1>1, BoardAlways, PTL

-----------------------------------------------------------------------------
(* The parts.                                                                *)

Running == {"run", "poll", "wait", "join"}

Core == {"config", "provider", "certLock", "certQueue", "configLock", "readLock",
         "timerQueue", "sendLock", "msgQ", "hashTable", "mediaContext", "webrtc"}

\* initApp has made what comes before its step, but for what may fail unnoticed.
MadeSoFar ==
  mainPc = "init" =>
    /\ {"client", "sessions", "certTimer"} \cap owned = {}
    /\ step = 1 => owned = {}
    /\ step > 1 => "config" \in owned
    /\ step > 3 => "provider" \in owned
    /\ step > 4 => "certLock" \in owned
    /\ step > 5 => "certQueue" \in owned
    /\ step > 6 => "configLock" \in owned
    /\ step > 8 => "readLock" \in owned
    /\ step > 9 => "timerQueue" \in owned
    /\ step > 10 => "sendLock" \in owned
    /\ step > 11 => "msgQ" \in owned
    /\ step > 12 => "hashTable" \in owned
    /\ step > 13 => "mediaContext" \in owned
    /\ step > 14 => "webrtc" \in owned
    /\ gAppConfiguration <=> step > 14

\* freeApp has released what comes before its step, but for what is lost.
FreedSoFar ==
  mainPc = "free" =>
    /\ step > 2 => {"client", "sendLock"} \cap owned \subseteq lost
    /\ step > 3 => {"msgQ", "hashTable", "sessions"} \cap owned \subseteq lost
    /\ step > 4 => "webrtc" \notin owned
    /\ step > 5 => "mediaContext" \notin owned \ lost
    /\ step > 7 => "configLock" \notin owned
    /\ step > 8 => "readLock" \notin owned
    /\ step > 9 => "cvar" \notin owned
    /\ step > 11 => {"certTimer", "timerQueue"} \cap owned = {}
    /\ step > 12 => /\ {"provider", "certQueue"} \cap owned \subseteq lost
                    /\ "certLock" \in owned => "provider" \in lost
    /\ step > 13 => "logger" \notin owned
    /\ step > 14 => "config" \notin owned

LostOnlyLater ==
  /\ lost \subseteq {"provider", "client", "mediaContext", "sessions"}
  /\ mainPc \notin {"free", "end"} => lost = {}
  /\ mainPc = "free" /\ step <= 2 => "client" \notin lost

\* What exists where the main thread is.
OwnedInv ==
  /\ mainPc = "boot" => owned = {}
  /\ mainPc \in Running => Core \subseteq owned
  /\ mainPc \notin {"init", "free"} => step = 1
  /\ MadeSoFar /\ FreedSoFar /\ LostOnlyLater
  /\ NothingLeft

\* The timer outlives the lock, but nothing else that it needs.
TimerHasParts ==
  "certTimer" \in owned =>
    /\ mainPc \in Running \/ (mainPc = "free" /\ step <= 11)
    /\ {"timerQueue", "certLock", "certQueue", "config"} \subseteq owned
    /\ mainPc = "free" /\ step <= 7 => "configLock" \in owned

\* Where there is a client, a message, a handler or a session, initApp was done;
\* and while freeApp is still at the client, or the sessions, their parts are there.
Served == message \/ sigPc # "idle" \/ {"client", "sessions"} \cap owned # {}

ServedHasParts ==
  Served =>
    /\ mainPc \notin {"boot", "init"}
    /\ mainPc = "free" /\ step <= 3 =>
         {"webrtc", "mediaContext", "readLock", "config", "configLock"} \subseteq owned
    /\ mainPc = "free" /\ step <= 2 => {"provider", "msgQ", "hashTable"} \subseteq owned

\* freeApp waits for whoever holds the lock when it releases the sessions and the
\* lock itself.
LockUsersLeft ==
  /\ sigPc # "idle" => mainPc \in Running \/ (mainPc = "free" /\ step <= 3)
  /\ timerPc # "idle" => mainPc \in Running \/ (mainPc = "free" /\ step <= 7)

QuitIsTold ==
  /\ quitPc \in {"shutdown", "signal"} => gAppConfiguration
  /\ gAppConfiguration => mainPc # "boot"
  /\ quitPc = "waiting" => quitWaited
  /\ quitWaited => gInitialized \/ mainPc = "end"
  /\ quitPc = "returned" /\ quitWaited => ~gInitialized

\* What the users of the parts rely on.
UsersInv ==
  /\ TimerHasParts /\ ServedHasParts /\ LockUsersLeft /\ QuitIsTold
  /\ FaultsAreKnown

LifeInv == LifeTypeOK /\ OwnedInv /\ UsersInv

\* Which part is made at which step.
LEMMA MakingIs ==
  ASSUME NEW part, Making(part)
  PROVE  /\ mainPc = "init" /\ step \in 1..15
         /\ step = 1 <=> part = "config"
         /\ step = 2 <=> part = "logger"
         /\ step = 3 <=> part = "provider"
         /\ step = 4 <=> part = "certLock"
         /\ step = 5 <=> part = "certQueue"
         /\ step = 6 <=> part = "configLock"
         /\ step = 7 <=> part = "cvar"
         /\ step = 8 <=> part = "readLock"
         /\ step = 9 <=> part = "timerQueue"
         /\ step = 10 <=> part = "sendLock"
         /\ step = 11 <=> part = "msgQ"
         /\ step = 12 <=> part = "hashTable"
         /\ step = 13 <=> part = "mediaContext"
         /\ step = 14 <=> part = "webrtc"
         /\ step = 15 <=> part = "certTimer"
  BY DEF Making, InitOrder

\* Which part is released at which step.
LEMMA FreeingIs ==
  ASSUME NEW part, Freeing(part)
  PROVE  /\ mainPc = "free" /\ step \in 1..15
         /\ step = 1 <=> part = "join"
         /\ step = 2 <=> part = "client"
         /\ step = 3 <=> part = "sessions"
         /\ step = 4 <=> part = "webrtc"
         /\ step = 5 <=> part = "mediaContext"
         /\ step = 6 <=> part = "broadcast"
         /\ step = 7 <=> part = "configLock"
         /\ step = 8 <=> part = "readLock"
         /\ step = 9 <=> part = "cvar"
         /\ step = 10 <=> part = "certTimer"
         /\ step = 11 <=> part = "timerQueue"
         /\ step = 12 <=> part = "credential"
         /\ step = 13 <=> part = "logger"
         /\ step = 14 <=> part = "config"
         /\ step = 15 <=> part = "done"
  BY DEF Freeing, FreeOrder

\* The parts, one by one.
LEMMA PartsAre ==
  Parts = {"config", "logger", "provider", "certLock", "certQueue", "configLock", "cvar",
           "readLock", "timerQueue", "sendLock", "msgQ", "hashTable", "mediaContext",
           "webrtc", "certTimer", "client", "sessions"}
<1>1. DOMAIN InitOrder = 1..15
  BY DEF InitOrder
<1>2. ASSUME NEW p \in Parts
      PROVE  p \in {"config", "logger", "provider", "certLock", "certQueue", "configLock",
                    "cvar", "readLock", "timerQueue", "sendLock", "msgQ", "hashTable",
                    "mediaContext", "webrtc", "certTimer", "client", "sessions"}
  BY <1>1, <1>2 DEF InitOrder, Parts
<1>3. /\ InitOrder[1] = "config" /\ InitOrder[2] = "logger" /\ InitOrder[3] = "provider"
      /\ InitOrder[4] = "certLock" /\ InitOrder[5] = "certQueue"
      /\ InitOrder[6] = "configLock" /\ InitOrder[7] = "cvar" /\ InitOrder[8] = "readLock"
      /\ InitOrder[9] = "timerQueue" /\ InitOrder[10] = "sendLock"
      /\ InitOrder[11] = "msgQ" /\ InitOrder[12] = "hashTable"
      /\ InitOrder[13] = "mediaContext" /\ InitOrder[14] = "webrtc"
      /\ InitOrder[15] = "certTimer"
  BY DEF InitOrder
<1>4. \A i \in 1..15 : InitOrder[i] \in Parts
  BY <1>1 DEF Parts
<1> QED
  BY <1>2, <1>3, <1>4 DEF Parts

\* With the lock free, neither of its users is inside.
LEMMA LockIsFree == TypeOK /\ configLock = NULL => timerPc = "idle" /\ sigPc = "idle"
  BY CertsAssumption DEF TypeOK

\* initApp.
LEMMA InitKeeps ==
  ASSUME LifeInv, TypeOK, BoardTypeOK', faults = {},
         Boot \/ Make \/ MakeGoesOn \/ MakeFails \/ AddCertTimer,
         UNCHANGED <<vars, boardVars, faults>>
  PROVE  LifeInv'
<1> USE MakingIs, FreeingIs, PartsAre, LockIsFree DEF LifeInv, LifeTypeOK, quitVars
<1>0. UNCHANGED <<configLock, timerPc, sigPc>>
  BY DEF vars
<1>1. CASE Boot
  <2>1. LifeTypeOK'
    BY <1>0, <1>1 DEF Boot, OwnedInv, MadeSoFar, LostOnlyLater
  <2>2. OwnedInv'
    <3>1. ~gAppConfiguration
      BY <1>1 DEF Boot, UsersInv, QuitIsTold
    <3>2. MadeSoFar'
      BY <1>1, <3>1 DEF Boot, OwnedInv, MadeSoFar
    <3> QED
      BY <1>1, <2>1, <3>2 DEF Boot, OwnedInv, FreedSoFar, LostOnlyLater, NothingLeft, Running
  <2>3. UsersInv'
    BY <1>0, <1>1, <2>1 DEF Boot,
       UsersInv, OwnedInv, TimerHasParts, ServedHasParts, Served, LockUsersLeft,
       QuitIsTold, FaultsAreKnown, MadeSoFar, FreedSoFar, LostOnlyLater, NothingLeft,
       Running, Core
  <2> QED
    BY <2>1, <2>2, <2>3
<1>2. CASE Make
  <2>1. LifeTypeOK'
    BY <1>0, <1>2 DEF Make, OwnedInv, MadeSoFar, LostOnlyLater
  <2>2. OwnedInv'
    <3>1. /\ mainPc = "init" /\ mainPc' = "init" /\ step' = step + 1
          /\ lost' = lost /\ "certTimer" \notin owned'
      BY <1>2 DEF Make, OwnedInv, MadeSoFar
    <3>2. gAppConfiguration' <=> step' > 14
      <4>1. PICK part \in Parts \ {"certTimer"} :
              Making(part) /\ gAppConfiguration' = (gAppConfiguration \/ part = "webrtc")
        BY <1>2 DEF Make
      <4>2. part = "webrtc" <=> step = 14
        BY <4>1
      <4>3. gAppConfiguration <=> step > 14
        BY <3>1 DEF OwnedInv, MadeSoFar
      <4>4. gAppConfiguration' <=> (step > 14 \/ step = 14)
        BY <4>1, <4>2, <4>3, Zenon
      <4> QED
        BY <3>1, <4>4
    <3>3. MadeSoFar'
      BY <1>2, <3>1, <3>2 DEF Make, OwnedInv, MadeSoFar
    <3> QED
      BY <3>1, <3>3 DEF OwnedInv, FreedSoFar, LostOnlyLater, NothingLeft, Running
  <2>3. UsersInv'
    BY <1>0, <1>2, <2>1 DEF Make,
       UsersInv, OwnedInv, TimerHasParts, ServedHasParts, Served, LockUsersLeft,
       QuitIsTold, FaultsAreKnown, MadeSoFar, FreedSoFar, LostOnlyLater, NothingLeft,
       Running, Core
  <2> QED
    BY <2>1, <2>2, <2>3
<1>3. CASE MakeGoesOn
  <2>1. LifeTypeOK'
    BY <1>0, <1>3 DEF MakeGoesOn, OwnedInv, MadeSoFar, LostOnlyLater
  <2>2. OwnedInv'
    BY <1>0, <1>3, <2>1 DEF MakeGoesOn,
       OwnedInv, MadeSoFar, FreedSoFar, LostOnlyLater, NothingLeft, Running, Core
  <2>3. UsersInv'
    BY <1>0, <1>3, <2>1 DEF MakeGoesOn,
       UsersInv, OwnedInv, TimerHasParts, ServedHasParts, Served, LockUsersLeft,
       QuitIsTold, FaultsAreKnown, MadeSoFar, FreedSoFar, LostOnlyLater, NothingLeft,
       Running, Core
  <2> QED
    BY <2>1, <2>2, <2>3
<1>4. CASE MakeFails
  <2>1. LifeTypeOK'
    <3>1. owned' \in SUBSET Parts /\ lost' \in SUBSET owned'
      BY <1>0, <1>4 DEF MakeFails, CredentialDestroyed, OwnedInv, MadeSoFar, LostOnlyLater
    <3>2. gAppConfiguration' \in BOOLEAN /\ gInitialized' \in BOOLEAN
      BY <1>4 DEF MakeFails, CredentialDestroyed
    <3>3. gInitialized' => gAppConfiguration' /\ mainPc' \notin {"boot", "init", "end"}
      BY <1>4 DEF MakeFails, CredentialDestroyed, OwnedInv, MadeSoFar
    <3> QED
      BY <1>0, <1>4, <3>1, <3>2, <3>3 DEF MakeFails, CredentialDestroyed
  <2>2. OwnedInv'
    <3>1. /\ mainPc = "init" /\ step' = 1 /\ mainPc' \in {"free", "end"}
          /\ mainPc' = "end" => owned' = {} /\ lost' = {}
      BY <1>4 DEF MakeFails, OwnedInv, MadeSoFar, LostOnlyLater
    <3>2. lost' \subseteq {"provider", "mediaContext"}
      BY <1>4, <3>1 DEF MakeFails, CredentialDestroyed, OwnedInv, LostOnlyLater
    <3> QED
      BY <3>1, <3>2 DEF OwnedInv, MadeSoFar, FreedSoFar, LostOnlyLater, NothingLeft, Running
  <2>3. UsersInv'
    BY <1>0, <1>4, <2>1 DEF MakeFails, CredentialDestroyed,
       UsersInv, OwnedInv, TimerHasParts, ServedHasParts, Served, LockUsersLeft,
       QuitIsTold, FaultsAreKnown, MadeSoFar, FreedSoFar, LostOnlyLater, NothingLeft,
       Running, Core
  <2> QED
    BY <2>1, <2>2, <2>3
<1>5. CASE AddCertTimer
  <2>1. LifeTypeOK'
    <3>1. owned' \in SUBSET Parts /\ lost' \in SUBSET owned'
      BY <1>0, <1>5 DEF AddCertTimer, OwnedInv, MadeSoFar, LostOnlyLater
    <3>2. gAppConfiguration' \in BOOLEAN /\ gInitialized' \in BOOLEAN
      BY <1>5 DEF AddCertTimer
    <3>3. gInitialized' => gAppConfiguration' /\ mainPc' \notin {"boot", "init", "end"}
      BY <1>5 DEF AddCertTimer, OwnedInv, MadeSoFar
    <3> QED
      BY <1>0, <1>5, <3>1, <3>2, <3>3 DEF AddCertTimer
  <2>2. OwnedInv'
    BY <1>0, <1>5, <2>1 DEF AddCertTimer,
       OwnedInv, MadeSoFar, FreedSoFar, LostOnlyLater, NothingLeft, Running, Core
  <2>3. UsersInv'
    BY <1>0, <1>5, <2>1 DEF AddCertTimer,
       UsersInv, OwnedInv, TimerHasParts, ServedHasParts, Served, LockUsersLeft,
       QuitIsTold, FaultsAreKnown, MadeSoFar, FreedSoFar, LostOnlyLater, NothingLeft,
       Running, Core
  <2> QED
    BY <2>1, <2>2, <2>3
<1> QED
  BY <1>1, <1>2, <1>3, <1>4, <1>5

\* runApp and pollApp.
LEMMA PollKeeps ==
  ASSUME LifeInv, TypeOK, BoardTypeOK', faults = {},
         RunApp \/ PollRound \/ PollJoined \/ PollWakes \/ PollExit,
         UNCHANGED <<vars, boardVars, faults>>
  PROVE  LifeInv'
<1> USE MakingIs, FreeingIs, PartsAre, LockIsFree DEF LifeInv, LifeTypeOK, quitVars
<1>0. UNCHANGED <<configLock, timerPc, sigPc>>
  BY DEF vars
<1>1. CASE RunApp
  <2>1. LifeTypeOK'
    BY <1>0, <1>1 DEF RunApp, OwnedInv, MadeSoFar, LostOnlyLater
  <2>2. OwnedInv'
    BY <1>0, <1>1, <2>1 DEF RunApp,
       OwnedInv, MadeSoFar, FreedSoFar, LostOnlyLater, NothingLeft, Running, Core
  <2>3. UsersInv'
    BY <1>0, <1>1, <2>1 DEF RunApp,
       UsersInv, OwnedInv, TimerHasParts, ServedHasParts, Served, LockUsersLeft,
       QuitIsTold, FaultsAreKnown, MadeSoFar, FreedSoFar, LostOnlyLater, NothingLeft,
       Running, Core
  <2> QED
    BY <2>1, <2>2, <2>3
<1>2. CASE PollRound
  <2>1. LifeTypeOK'
    BY <1>0, <1>2 DEF PollRound, OwnedInv, MadeSoFar, LostOnlyLater
  <2>2. OwnedInv'
    BY <1>0, <1>2, <2>1 DEF PollRound,
       OwnedInv, MadeSoFar, FreedSoFar, LostOnlyLater, NothingLeft, Running, Core
  <2>3. UsersInv'
    BY <1>0, <1>2, <2>1 DEF PollRound,
       UsersInv, OwnedInv, TimerHasParts, ServedHasParts, Served, LockUsersLeft,
       QuitIsTold, FaultsAreKnown, MadeSoFar, FreedSoFar, LostOnlyLater, NothingLeft,
       Running, Core
  <2> QED
    BY <2>1, <2>2, <2>3
<1>3. CASE PollJoined \/ PollWakes
  <2>1. LifeTypeOK'
    <3>1. /\ UNCHANGED <<step, owned, lost, message, gAppConfiguration, gInitialized, sigInt,
                         quitPc, quitWaited>>
          /\ mainPc \in {"join", "wait"} /\ mainPc' \in {"wait", "poll"}
      BY <1>3 DEF PollJoined, PollWakes
    <3> QED
      BY <3>1
  <2>2. OwnedInv'
    BY <1>0, <1>3, <2>1 DEF PollJoined, PollWakes,
       OwnedInv, MadeSoFar, FreedSoFar, LostOnlyLater, NothingLeft, Running, Core
  <2>3. UsersInv'
    BY <1>0, <1>3, <2>1 DEF PollJoined, PollWakes,
       UsersInv, OwnedInv, TimerHasParts, ServedHasParts, Served, LockUsersLeft,
       QuitIsTold, FaultsAreKnown, MadeSoFar, FreedSoFar, LostOnlyLater, NothingLeft,
       Running, Core
  <2> QED
    BY <2>1, <2>2, <2>3
<1>4. CASE PollExit
  <2>1. LifeTypeOK'
    BY <1>0, <1>4 DEF PollExit, OwnedInv, MadeSoFar, LostOnlyLater
  <2>2. OwnedInv'
    BY <1>0, <1>4, <2>1 DEF PollExit,
       OwnedInv, MadeSoFar, FreedSoFar, LostOnlyLater, NothingLeft, Running, Core
  <2>3. UsersInv'
    BY <1>0, <1>4, <2>1 DEF PollExit,
       UsersInv, OwnedInv, TimerHasParts, ServedHasParts, Served, LockUsersLeft,
       QuitIsTold, FaultsAreKnown, MadeSoFar, FreedSoFar, LostOnlyLater, NothingLeft,
       Running, Core
  <2> QED
    BY <2>1, <2>2, <2>3
<1> QED
  BY <1>1, <1>2, <1>3, <1>4

\* freeApp, but for the credential.
LEMMA FreeKeeps ==
  ASSUME LifeInv, TypeOK, BoardTypeOK', faults = {},
         \/ FreeJoin \/ FreeBroadcast \/ FreeClient \/ FreeSessions \/ FreeConfigLock
         \/ FreePart \/ FreeTimer \/ FreeDone,
         UNCHANGED <<vars, boardVars, faults>>
  PROVE  LifeInv'
<1> USE MakingIs, FreeingIs, PartsAre, LockIsFree DEF LifeInv, LifeTypeOK, quitVars
<1>0. UNCHANGED <<configLock, timerPc, sigPc>>
  BY DEF vars
<1>1. CASE FreeJoin \/ FreeBroadcast
  <2>1. LifeTypeOK'
    <3>1. /\ UNCHANGED <<mainPc, owned, lost, message, gAppConfiguration, gInitialized, sigInt,
                         quitPc, quitWaited>>
          /\ step' \in 1..15
      BY <1>1 DEF FreeJoin, FreeBroadcast, FreeGoesOn
    <3> QED
      BY <3>1
  <2>2. OwnedInv'
    BY <1>0, <1>1, <2>1 DEF FreeJoin, FreeBroadcast, FreeGoesOn,
       OwnedInv, MadeSoFar, FreedSoFar, LostOnlyLater, NothingLeft, Running, Core
  <2>3. UsersInv'
    BY <1>0, <1>1, <2>1 DEF FreeJoin, FreeBroadcast, FreeGoesOn,
       UsersInv, OwnedInv, TimerHasParts, ServedHasParts, Served, LockUsersLeft,
       QuitIsTold, FaultsAreKnown, MadeSoFar, FreedSoFar, LostOnlyLater, NothingLeft,
       Running, Core
  <2> QED
    BY <2>1, <2>2, <2>3
<1>2. CASE FreeClient
  <2>1. LifeTypeOK'
    <3>1. owned' \in SUBSET Parts /\ lost' \in SUBSET owned'
      <4>1. "client" \notin lost /\ "sendLock" \notin lost
        BY <1>2 DEF FreeClient, OwnedInv, LostOnlyLater
      <4>2. CASE owned' = owned \ {"client", "sendLock"} /\ lost' = lost
        BY <4>1, <4>2
      <4>3. CASE "client" \in owned /\ owned' = owned \ {"sendLock"} /\ lost' = lost \cup {"client"}
        BY <4>1, <4>3
      <4> QED
        BY <1>2, <4>2, <4>3 DEF FreeClient
    <3>2. gAppConfiguration' \in BOOLEAN /\ gInitialized' \in BOOLEAN
      BY <1>2 DEF FreeClient, FreeGoesOn
    <3>3. gInitialized' => gAppConfiguration' /\ mainPc' \notin {"boot", "init", "end"}
      BY <1>2 DEF FreeClient, FreeGoesOn, OwnedInv, MadeSoFar
    <3> QED
      BY <1>0, <1>2, <3>1, <3>2, <3>3 DEF FreeClient, FreeGoesOn
  <2>2. OwnedInv'
    <3>1. step = 2 /\ step' = 3 /\ mainPc = "free" /\ mainPc' = "free"
      BY <1>2 DEF FreeClient, FreeGoesOn
    <3>2. /\ owned' \subseteq owned \ {"sendLock"} /\ lost' \subseteq lost \cup {"client"}
          /\ "client" \in owned' => "client" \in lost'
      BY <1>2, <3>1 DEF FreeClient
    <3> QED
      BY <3>1, <3>2 DEF OwnedInv, MadeSoFar, FreedSoFar, LostOnlyLater, NothingLeft, Running
  <2>3. UsersInv'
    BY <1>0, <1>2, <2>1 DEF FreeClient, FreeGoesOn,
       UsersInv, OwnedInv, TimerHasParts, ServedHasParts, Served, LockUsersLeft,
       QuitIsTold, FaultsAreKnown, MadeSoFar, FreedSoFar, LostOnlyLater, NothingLeft,
       Running, Core
  <2> QED
    BY <2>1, <2>2, <2>3
<1>3. CASE FreeSessions
  <2>1. LifeTypeOK'
    BY <1>0, <1>3 DEF FreeSessions, FreeGoesOn, OwnedInv, MadeSoFar, LostOnlyLater
  <2>2. OwnedInv'
    BY <1>0, <1>3, <2>1 DEF FreeSessions, FreeGoesOn,
       OwnedInv, MadeSoFar, FreedSoFar, LostOnlyLater, NothingLeft, Running, Core
  <2>3. UsersInv'
    BY <1>0, <1>3, <2>1 DEF FreeSessions, FreeGoesOn,
       UsersInv, OwnedInv, TimerHasParts, ServedHasParts, Served, LockUsersLeft,
       QuitIsTold, FaultsAreKnown, MadeSoFar, FreedSoFar, LostOnlyLater, NothingLeft,
       Running, Core
  <2> QED
    BY <2>1, <2>2, <2>3
<1>4. CASE FreeConfigLock
  <2>1. LifeTypeOK'
    BY <1>0, <1>4 DEF FreeConfigLock, FreeGoesOn, OwnedInv, MadeSoFar, LostOnlyLater
  <2>2. OwnedInv'
    BY <1>0, <1>4, <2>1 DEF FreeConfigLock, FreeGoesOn,
       OwnedInv, MadeSoFar, FreedSoFar, LostOnlyLater, NothingLeft, Running, Core
  <2>3. UsersInv'
    BY <1>0, <1>4, <2>1 DEF FreeConfigLock, FreeGoesOn,
       UsersInv, OwnedInv, TimerHasParts, ServedHasParts, Served, LockUsersLeft,
       QuitIsTold, FaultsAreKnown, MadeSoFar, FreedSoFar, LostOnlyLater, NothingLeft,
       Running, Core
  <2> QED
    BY <2>1, <2>2, <2>3
<1>5. CASE FreePart
  <2>1. LifeTypeOK'
    BY <1>0, <1>5 DEF FreePart, FreeGoesOn, OwnedInv, MadeSoFar, LostOnlyLater
  <2>2. OwnedInv'
    BY <1>0, <1>5, <2>1 DEF FreePart, FreeGoesOn,
       OwnedInv, MadeSoFar, FreedSoFar, LostOnlyLater, NothingLeft, Running, Core
  <2>3. UsersInv'
    BY <1>0, <1>5, <2>1 DEF FreePart, FreeGoesOn,
       UsersInv, OwnedInv, TimerHasParts, ServedHasParts, Served, LockUsersLeft,
       QuitIsTold, FaultsAreKnown, MadeSoFar, FreedSoFar, LostOnlyLater, NothingLeft,
       Running, Core
  <2> QED
    BY <2>1, <2>2, <2>3
<1>6. CASE FreeTimer
  <2>1. LifeTypeOK'
    <3>1. owned' \in SUBSET Parts /\ lost' \in SUBSET owned'
      BY <1>0, <1>6 DEF FreeTimer, FreeGoesOn, OwnedInv, MadeSoFar, LostOnlyLater
    <3>2. gAppConfiguration' \in BOOLEAN /\ gInitialized' \in BOOLEAN
      BY <1>6 DEF FreeTimer, FreeGoesOn
    <3>3. gInitialized' => gAppConfiguration' /\ mainPc' \notin {"boot", "init", "end"}
      BY <1>6 DEF FreeTimer, FreeGoesOn, OwnedInv, MadeSoFar
    <3> QED
      BY <1>0, <1>6, <3>1, <3>2, <3>3 DEF FreeTimer, FreeGoesOn
  <2>2. OwnedInv'
    BY <1>0, <1>6, <2>1 DEF FreeTimer, FreeGoesOn,
       OwnedInv, MadeSoFar, FreedSoFar, LostOnlyLater, NothingLeft, Running, Core
  <2>3. UsersInv'
    BY <1>0, <1>6, <2>1 DEF FreeTimer, FreeGoesOn,
       UsersInv, OwnedInv, TimerHasParts, ServedHasParts, Served, LockUsersLeft,
       QuitIsTold, FaultsAreKnown, MadeSoFar, FreedSoFar, LostOnlyLater, NothingLeft,
       Running, Core
  <2> QED
    BY <2>1, <2>2, <2>3
<1>7. CASE FreeDone
  <2>1. LifeTypeOK'
    <3>1. owned' \in SUBSET Parts /\ lost' \in SUBSET owned'
      BY <1>0, <1>7 DEF FreeDone, OwnedInv, MadeSoFar, LostOnlyLater
    <3>2. gAppConfiguration' \in BOOLEAN /\ gInitialized' \in BOOLEAN
      BY <1>7 DEF FreeDone
    <3>3. gInitialized' => gAppConfiguration' /\ mainPc' \notin {"boot", "init", "end"}
      BY <1>7 DEF FreeDone, OwnedInv, MadeSoFar
    <3> QED
      BY <1>0, <1>7, <3>1, <3>2, <3>3 DEF FreeDone
  <2>2. OwnedInv'
    BY <1>0, <1>7, <2>1 DEF FreeDone,
       OwnedInv, MadeSoFar, FreedSoFar, LostOnlyLater, NothingLeft, Running, Core
  <2>3. UsersInv'
    BY <1>0, <1>7, <2>1 DEF FreeDone,
       UsersInv, OwnedInv, TimerHasParts, ServedHasParts, Served, LockUsersLeft,
       QuitIsTold, FaultsAreKnown, MadeSoFar, FreedSoFar, LostOnlyLater, NothingLeft,
       Running, Core
  <2> QED
    BY <2>1, <2>2, <2>3
<1> QED
  BY <1>1, <1>2, <1>3, <1>4, <1>5, <1>6, <1>7

\* freeApp's release of the credential: only here can the provider be lost.
LEMMA FreeCredentialKeeps ==
  ASSUME LifeInv, TypeOK, BoardTypeOK', faults = {},
         FreeCredential, Destroy, UNCHANGED <<boardVars, faults>>
  PROVE  LifeInv'
<1> USE FreeingIs, PartsAre DEF LifeInv, LifeTypeOK, quitVars
<1>0. UNCHANGED <<timerPc, sigPc>>
  BY DEF Destroy
<1>1. /\ mainPc = "free" /\ mainPc' = "free" /\ step = 12 /\ step' = 13
      /\ UNCHANGED <<message, gAppConfiguration, gInitialized, sigInt, quitPc, quitWaited>>
  BY DEF FreeCredential, FreeGoesOn
<1>2. /\ owned' \subseteq owned /\ owned \ owned' \subseteq {"provider", "certLock", "certQueue"}
      /\ lost \subseteq lost' /\ lost' \subseteq lost \cup {"provider"}
      /\ lost' \subseteq owned'
      /\ "certQueue" \notin owned'
      /\ "provider" \in owned' => "provider" \in lost'
      /\ "certLock" \in owned' => "provider" \in lost'
  <2>1. CASE /\ owned' = owned \ {"provider", "certLock", "certQueue"}
             /\ "provider" \in owned \ lost /\ lost' = lost
    BY <2>1 DEF OwnedInv, LostOnlyLater
  <2>2. CASE /\ owned' = owned \ {"certQueue"}
             /\ "provider" \in owned \ lost /\ lost' = lost \cup {"provider"}
    BY <2>2 DEF OwnedInv, LostOnlyLater
  <2>3. CASE /\ owned' = owned \ {"certLock", "certQueue"}
             /\ "provider" \notin owned \ lost /\ lost' = lost
    BY <2>3 DEF OwnedInv, LostOnlyLater
  <2> QED
    BY <2>1, <2>2, <2>3 DEF FreeCredential, CredentialDestroyed
<1>3. LifeTypeOK'
  BY <1>1, <1>2
<1>4. OwnedInv'
  BY <1>1, <1>2 DEF OwnedInv, MadeSoFar, FreedSoFar, LostOnlyLater, NothingLeft, Running
<1>5. UsersInv'
  BY <1>0, <1>1, <1>2 DEF UsersInv, OwnedInv, TimerHasParts, ServedHasParts, Served,
     LockUsersLeft, QuitIsTold, FaultsAreKnown, FreedSoFar, Running
<1> QED
  BY <1>3, <1>4, <1>5

\* quitApp: it changes nothing but its own variables and sigInt.
LEMMA QuitKeeps ==
  ASSUME LifeInv, BoardTypeOK', faults = {}, QuitNext, UNCHANGED <<vars, boardVars, faults>>
  PROVE  LifeInv'
<1> USE DEF LifeInv, LifeTypeOK
<1>0. UNCHANGED <<configLock, timerPc, sigPc>>
  BY DEF vars
<1>1. UNCHANGED <<mainPc, step, owned, lost, message, gAppConfiguration, gInitialized>>
  BY DEF QuitNext, QuitApp, QuitShutdown, QuitSignal, QuitLoop, QuitReturns, QuitGoes
<1>2. OwnedInv'
  BY <1>1 DEF OwnedInv, MadeSoFar, FreedSoFar, LostOnlyLater, NothingLeft
<1>3. /\ quitPc' \in {"idle", "shutdown", "signal", "loop", "waiting", "returned", "failed"}
      /\ quitWaited' \in BOOLEAN /\ sigInt' \in BOOLEAN
      /\ QuitIsTold'
  <2>1. CASE QuitApp \/ QuitShutdown \/ QuitSignal
    <3>1. /\ quitPc \in {"idle", "shutdown", "signal"} /\ quitPc' \in {"shutdown", "signal", "loop"}
          /\ quitPc' # "loop" => gAppConfiguration
          /\ UNCHANGED quitWaited
      BY <2>1 DEF QuitApp, QuitShutdown, QuitSignal, QuitGoes, UsersInv, QuitIsTold
    <3>2. sigInt' \in BOOLEAN
      BY <2>1 DEF QuitApp, QuitShutdown, QuitSignal
    <3> QED
      BY <1>1, <3>1, <3>2 DEF UsersInv, QuitIsTold
  <2>2. CASE QuitLoop
    BY <1>1, <2>2 DEF QuitLoop, QuitGoes, UsersInv, QuitIsTold
  <2>3. CASE QuitReturns
    <3>1. /\ quitPc = "waiting" /\ quitPc' \in {"returned", "failed"}
          /\ quitPc' = "returned" => ~gInitialized
          /\ UNCHANGED <<sigInt, quitWaited>>
      BY <2>3 DEF QuitReturns, QuitGoes
    <3> QED
      BY <1>1, <3>1 DEF UsersInv, QuitIsTold
  <2> QED
    BY <2>1, <2>2, <2>3 DEF QuitNext
<1>4. UsersInv'
  BY <1>0, <1>1, <1>3 DEF UsersInv, TimerHasParts, ServedHasParts, Served, LockUsersLeft,
     FaultsAreKnown
<1>5. LifeTypeOK'
  BY <1>1, <1>3
<1> QED
  BY <1>2, <1>4, <1>5

\* The timer and its callback, which only touch the lock and the certificates.
LEMMA TimerKeeps ==
  ASSUME LifeInv, TypeOK, BoardTypeOK', faults = {}, TimerFires \/ CallbackNext,
         UNCHANGED <<boardVars, lifeVars>>
  PROVE  LifeInv'
<1> USE DEF LifeInv, lifeVars, quitVars
<1>1. LifeTypeOK' /\ OwnedInv'
  BY DEF LifeTypeOK, OwnedInv, MadeSoFar, FreedSoFar, LostOnlyLater, NothingLeft
<1>2. sigPc' = sigPc /\ LockUsersLeft'
  <2>1. CASE TimerFires
    <3>1. mainPc \in Running \/ (mainPc = "free" /\ step <= 7)
      BY <2>1 DEF TimerFires, LifeTypeOK, UsersInv, TimerHasParts, OwnedInv, FreedSoFar
    <3> QED
      BY <2>1, <3>1 DEF TimerFires, CheckCount, UsersInv, LockUsersLeft
  <2>2. CASE CallbackNext
    BY <2>2 DEF CallbackNext, CreateCert, CreateCertFails, EnqueueCert, EnqueueCertFails,
       UsersInv, LockUsersLeft
  <2> QED
    BY <2>1, <2>2
<1>3. UsersInv'
  BY <1>2 DEF UsersInv, TimerHasParts, ServedHasParts, Served, QuitIsTold, FaultsAreKnown
<1> QED
  BY <1>1, <1>3

\* Messages and their handlers.
LEMMA MessageKeeps ==
  ASSUME LifeInv, TypeOK, BoardTypeOK', faults = {}, MessageNext,
         UNCHANGED <<boardVars, faults>>
  PROVE  LifeInv'
<1> USE DEF LifeInv, LifeTypeOK, quitVars
<1>1. UNCHANGED <<mainPc, step, owned, lost, gAppConfiguration, gInitialized, sigInt, quitVars>>
      /\ message' \in BOOLEAN
  BY DEF MessageNext, MessageArrives, HandlerBegins
<1>2. LifeTypeOK' /\ OwnedInv'
  BY <1>1 DEF OwnedInv, MadeSoFar, FreedSoFar, LostOnlyLater, NothingLeft
<1>3. UNCHANGED timerPc /\ (Served' => Served)
  <2>1. CASE MessageArrives /\ UNCHANGED vars
    BY <1>1, <2>1 DEF MessageArrives, vars, Served
  <2>2. CASE HandlerBegins /\ UNCHANGED vars
    BY <1>1, <2>2 DEF HandlerBegins, vars, Served
  <2>3. CASE HandlerBegins /\ PopCert
    BY <1>1, <2>3 DEF HandlerBegins, PopCert, Served
  <2> QED
    BY <2>1, <2>2, <2>3 DEF MessageNext
<1>4. LockUsersLeft'
  <2>1. CASE UNCHANGED vars
    BY <1>1, <2>1 DEF vars, UsersInv, LockUsersLeft
  <2>2. CASE HandlerBegins /\ PopCert
    <3>1. mainPc \notin {"boot", "init"} /\ "hashTable" \in owned
      BY <2>2 DEF HandlerBegins, HandlerParts, UsersInv, ServedHasParts, Served
    <3>2. mainPc \in Running \/ (mainPc = "free" /\ step <= 3)
      BY <3>1 DEF OwnedInv, FreedSoFar, LostOnlyLater, NothingLeft, Running
    <3> QED
      BY <1>1, <1>3, <3>2 DEF UsersInv, LockUsersLeft
  <2> QED
    BY <2>1, <2>2 DEF MessageNext
<1>5. UsersInv'
  BY <1>1, <1>3, <1>4 DEF UsersInv, TimerHasParts, ServedHasParts, QuitIsTold, FaultsAreKnown
<1> QED
  BY <1>2, <1>5

\* The end of an offer's handler may add sessions.
LEMMA HandlerKeeps ==
  ASSUME LifeInv, TypeOK, BoardTypeOK', faults = {}, HandlerEnds, CreatePeerConnection,
         UNCHANGED <<boardVars, faults>>
  PROVE  LifeInv'
<1> USE DEF LifeInv, LifeTypeOK, quitVars
<1>1. /\ UNCHANGED <<mainPc, step, lost, message, gAppConfiguration, gInitialized, sigInt,
                     quitPc, quitWaited, timerPc>>
      /\ sigPc = "popped" /\ sigPc' = "idle"
      /\ owned \subseteq owned' /\ owned' \subseteq owned \cup {"sessions"}
  BY DEF HandlerEnds, CreatePeerConnection
<1>2. mainPc \in Running \/ (mainPc = "free" /\ step <= 3)
  BY <1>1 DEF UsersInv, LockUsersLeft
<1>3. LifeTypeOK'
  BY <1>1, PartsAre
<1>4. OwnedInv'
  <2>1. MadeSoFar' /\ LostOnlyLater' /\ NothingLeft'
    BY <1>1, <1>2 DEF OwnedInv, MadeSoFar, LostOnlyLater, NothingLeft, Running
  <2>2. FreedSoFar'
    BY <1>1, <1>2 DEF OwnedInv, FreedSoFar, Running
  <2> QED
    BY <1>1, <1>2, <2>1, <2>2 DEF OwnedInv, Running
<1>5. Served /\ (Served' => Served) /\ LockUsersLeft'
  BY <1>1, <1>2 DEF Served, UsersInv, LockUsersLeft
<1>6. UsersInv'
  BY <1>1, <1>5 DEF UsersInv, TimerHasParts, ServedHasParts, QuitIsTold, FaultsAreKnown
<1> QED
  BY <1>3, <1>4, <1>6

\* A use of something released happens only where FaultsAreKnown says.
LEMMA FaultKeeps ==
  ASSUME LifeInv, TypeOK, BoardTypeOK', faults = {}, UseReleased, UNCHANGED <<vars, boardVars>>
  PROVE  LifeInv'
<1> USE DEF LifeInv, LifeTypeOK, quitVars
<1>1. PICK who \in {"timer", "handler", "quit", "poll", "free"} : Fault(who) /\ faults' = {who}
  BY DEF UseReleased
<1>2. UNCHANGED <<mainPc, step, owned, lost, message, gAppConfiguration, gInitialized,
                  sigInt, quitPc, quitWaited, configLock, timerPc, sigPc>>
  BY DEF UseReleased, vars
<1>3. FaultsAreKnown'
  <2>1. CASE who = "timer"
    <3>1. "certTimer" \in owned /\ "configLock" \notin owned
      BY <1>1, <2>1 DEF Fault
    <3>2. mainPc = "free" /\ step \in 8..11
      BY <3>1 DEF UsersInv, TimerHasParts, OwnedInv, Core
    <3>3. FreeOrder[step] \in {"readLock", "cvar", "certTimer", "timerQueue"}
      BY <3>2 DEF FreeOrder
    <3> QED
      BY <1>1, <1>2, <2>1, <3>2, <3>3 DEF FaultsAreKnown
  <2>2. CASE who = "handler"
    <3>1. message /\ ~(HandlerParts \subseteq owned)
      BY <1>1, <2>2 DEF Fault
    <3>2. "client" \notin owned \ lost
      BY <3>1 DEF HandlerParts, UsersInv, ServedHasParts, Served, OwnedInv, FreedSoFar,
         NothingLeft, Running, Core
    <3> QED
      BY <1>1, <1>2, <2>2, <3>2 DEF FaultsAreKnown
  <2>3. CASE who = "quit"
    <3>1. quitPc \in {"shutdown", "signal"} /\ ~({"config", "cvar"} \subseteq owned)
      BY <1>1, <2>3 DEF Fault
    <3>2. mainPc \in {"free", "end"} \/ "cvar" \notin owned
      BY <3>1 DEF UsersInv, QuitIsTold, OwnedInv, MadeSoFar, Running, Core
    <3> QED
      BY <1>1, <1>2, <2>3, <3>2 DEF FaultsAreKnown
  <2>4. CASE who = "free"
    <3>1. Freeing("configLock") /\ configLock # NULL
      BY <1>1, <2>4 DEF Fault
    <3>2. mainPc = "free" /\ step = 7
      BY <3>1, FreeingIs
    <3>3. configLock = "timer"
      BY <3>1, <3>2 DEF UsersInv, LockUsersLeft, TypeOK, Running
    <3> QED
      BY <1>1, <1>2, <2>4, <3>3 DEF FaultsAreKnown
  <2>5. CASE who = "poll"
    BY <1>1, <2>5 DEF FaultsAreKnown
  <2> QED
    BY <2>1, <2>2, <2>3, <2>4, <2>5
<1>4. LifeTypeOK'
  BY <1>1, <1>2
<1>5. OwnedInv'
  BY <1>2 DEF OwnedInv, MadeSoFar, FreedSoFar, LostOnlyLater, NothingLeft
<1>6. UsersInv'
  BY <1>2, <1>3 DEF UsersInv, TimerHasParts, ServedHasParts, Served, LockUsersLeft, QuitIsTold
<1> QED
  BY <1>4, <1>5, <1>6

\* The board's steps, and stuttering.
LEMMA OthersKeep ==
  ASSUME LifeInv, BoardTypeOK', UNCHANGED <<vars, lifeVars>>
  PROVE  LifeInv'
<1> USE DEF LifeInv, vars, lifeVars, quitVars
<1>1. LifeTypeOK' /\ OwnedInv'
  BY DEF LifeTypeOK, OwnedInv, MadeSoFar, FreedSoFar, LostOnlyLater, NothingLeft
<1>2. UsersInv'
  BY DEF UsersInv, TimerHasParts, ServedHasParts, Served, LockUsersLeft, QuitIsTold,
     FaultsAreKnown
<1> QED
  BY <1>1, <1>2

-----------------------------------------------------------------------------
LEMMA LifeInitInv == LifeInit => LifeInv
<1> SUFFICES ASSUME LifeInit PROVE LifeInv
  OBVIOUS
<1> USE DEF LifeInit
<1>1. /\ ~message /\ ~gAppConfiguration /\ ~gInitialized /\ ~sigInt /\ ~quitWaited
      /\ {message, gAppConfiguration, gInitialized, sigInt, quitWaited} \subseteq BOOLEAN
      /\ timerPc = "idle" /\ sigPc = "idle"
  BY DEF Init
<1>2. BoardTypeOK
  BY BoardInitInv DEF BoardInv
<1>3. LifeTypeOK
  BY <1>1, <1>2 DEF LifeTypeOK
<1>4. OwnedInv
  BY <1>1 DEF OwnedInv, MadeSoFar, FreedSoFar, LostOnlyLater, NothingLeft, Running
<1>5. UsersInv
  BY <1>1 DEF UsersInv, TimerHasParts, ServedHasParts, Served, LockUsersLeft, QuitIsTold,
     FaultsAreKnown
<1> QED
  BY <1>3, <1>4, <1>5 DEF LifeInv

LEMMA LifeNextInv ==
  LifeInv /\ TypeOK /\ BoardTypeOK' /\ [LifeNext]_allVars => LifeInv'
<1> SUFFICES ASSUME LifeInv, TypeOK, BoardTypeOK', [LifeNext]_allVars PROVE LifeInv'
  OBVIOUS
<1>1. CASE BoardStep \/ UNCHANGED allVars
  BY <1>1, OthersKeep DEF BoardStep, allVars
<1>2. CASE MainStep
  <2> USE <1>2 DEF MainStep
  <2>1. CASE /\ Boot \/ Make \/ MakeGoesOn \/ MakeFails \/ AddCertTimer
             /\ UNCHANGED vars
    BY <2>1, InitKeeps
  <2>2. CASE /\ RunApp \/ PollRound \/ PollJoined \/ PollWakes \/ PollExit
             /\ UNCHANGED vars
    BY <2>2, PollKeeps
  <2>3. CASE /\ \/ FreeJoin \/ FreeBroadcast \/ FreeClient \/ FreeSessions \/ FreeConfigLock
                \/ FreePart \/ FreeTimer \/ FreeDone
             /\ UNCHANGED vars
    BY <2>3, FreeKeeps
  <2>4. CASE Destroy /\ FreeCredential
    BY <2>4, FreeCredentialKeeps
  <2> QED
    BY <2>1, <2>2, <2>3, <2>4 DEF MainNext
<1>3. CASE QuitStep
  BY <1>3, QuitKeeps DEF QuitStep
<1>4. CASE TimerStep \/ CallbackStep
  BY <1>4, TimerKeeps DEF TimerStep, CallbackStep
<1>5. CASE MessageStep
  BY <1>5, MessageKeeps DEF MessageStep
<1>6. CASE HandlerStep
  BY <1>6, HandlerKeeps DEF HandlerStep, HandlerNext
<1>7. CASE FaultStep
  BY <1>7, FaultKeeps DEF FaultStep
<1> QED
  BY <1>1, <1>2, <1>3, <1>4, <1>5, <1>6, <1>7 DEF LifeNext

LEMMA LifeAlways == LifeSpec => [](LifeInv /\ TypeOK)
<1>1. LifeSpec => []TypeOK
  BY CertificatesAsInCertPool, TypeCorrect, PTL
<1>2. BoardInv => BoardTypeOK
  BY DEF BoardInv
<1> QED
  BY <1>1, <1>2, BoardAlways, LifeInitInv, LifeNextInv, PTL DEF LifeSpec

-----------------------------------------------------------------------------
\* The types, and that gInitialized is set only between the end of initApp and
\* that of freeApp.
THEOREM LifeTypeCorrect == LifeSpec => []LifeTypeOK
<1>1. LifeInv => LifeTypeOK
  BY DEF LifeInv
<1> QED
  BY <1>1, LifeAlways, PTL

\* Wherever initApp fails, freeApp releases everything that a library lets go.
THEOREM NothingIsLeft == LifeSpec => []NothingLeft
<1>1. LifeInv => NothingLeft
  BY DEF LifeInv, OwnedInv
<1> QED
  BY <1>1, LifeAlways, PTL

\* The order of freeApp takes no part away from the timer, the client or the sessions.
THEOREM UsersAreSafe == LifeSpec => []UsersHaveTheirParts
<1>1. LifeInv => UsersHaveTheirParts
  <2> SUFFICES ASSUME LifeInv PROVE UsersHaveTheirParts
    OBVIOUS
  <2> USE DEF LifeInv
  <2>1. "certTimer" \in owned => {"timerQueue", "certLock", "certQueue", "config"} \subseteq owned
    BY DEF UsersInv, TimerHasParts
  <2>2. "client" \in owned \ lost =>
          {"provider", "configLock", "readLock", "msgQ", "hashTable", "config"} \subseteq owned
    BY DEF LifeTypeOK, UsersInv, ServedHasParts, Served, OwnedInv, FreedSoFar, NothingLeft,
       Running, Core
  <2>3. "sessions" \in owned \ lost => {"webrtc", "mediaContext", "readLock", "config"} \subseteq owned
    BY DEF LifeTypeOK, UsersInv, ServedHasParts, Served, OwnedInv, FreedSoFar, LostOnlyLater,
       NothingLeft, Running, Core
  <2> QED
    BY <2>1, <2>2, <2>3 DEF UsersHaveTheirParts
<1> QED
  BY <1>1, LifeAlways, PTL

\* There is no other use of a released part than the known ones.
THEOREM NoOtherFaults == LifeSpec => []FaultsAreKnown
<1>1. LifeInv => FaultsAreKnown
  BY DEF LifeInv, UsersInv
<1> QED
  BY <1>1, LifeAlways, PTL

\* A quitApp that waited and returned without an error has seen the end.
THEOREM QuitIsTruthful == LifeSpec => []QuitTellsTruth
<1>1. LifeInv => QuitTellsTruth
  BY DEF LifeInv, UsersInv, QuitIsTold, QuitTellsTruth
<1> QED
  BY <1>1, LifeAlways, PTL

\* The certificates are released with neither of their users inside.
THEOREM DestroyUndisturbed == LifeSpec => []DestroyIsUndisturbed
<1>1. LifeInv => DestroyIsUndisturbed
  BY FreeingIs DEF LifeInv, UsersInv, LockUsersLeft, DestroyIsUndisturbed, Running
<1> QED
  BY <1>1, LifeAlways, PTL

\* And what CertPool promises of them holds in the whole.
THEOREM CertificatesAreSafe == LifeSpec => []CertificatesAreSound
<1>1. Spec => []CertificatesAreSound
  BY PoolBounded, CertUsedOnce, CertsAccounted, PTL DEF CertificatesAreSound
<1> QED
  BY <1>1, CertificatesAsInCertPool, PTL
=============================================================================

---------------------------- MODULE AppLifecycle ----------------------------
(***************************************************************************)
(* The life of the application's parts: initApp makes them one by one and  *)
(* may fail at each, freeApp releases what there is in an order of its     *)
(* own, and meanwhile the certificate timer, the handlers of signaling     *)
(* messages and a caller of quitApp use them.  The certificates themselves *)
(* are those of CertPool, and BoardStart leads here.                       *)
(*                                                                         *)
(* A part is known by its name; owned is the set of those that exist.  A   *)
(* use of a released part is recorded in faults and ends the behaviour.    *)
(* How the media thread is joined is the matter of MediaControl, and what  *)
(* a round of pollApp does that of StreamingSessions and SignalingClient:  *)
(* here the join may or may not return and a round is one action.          *)
(*                                                                         *)
(* External: the libraries' create and free functions, which may fail;     *)
(* signaling_client_free does not wait for a message handler, and          *)
(* timer_queue_free waits for a callback.                                  *)
(***************************************************************************)
EXTENDS CertPool, BoardStart

VARIABLES
  mainPc,    \* "poll", "wait" and "join" are in pollApp
  step,      \* in "init" and "free", the index of the part to make or release
  owned,     \* the parts that exist
  lost,      \* those that nobody can release any more
  faults,    \* who used a released part
  message,   \* a handler of a message has been called and has no lock yet
  gAppConfiguration, gInitialized,  \* the former: whether it is set
  sigInt,
  quitPc,    \* the thread that calls quitApp
  quitWaited \* it found gInitialized set and waited for its reset

quitVars == <<quitPc, quitWaited>>
lifeVars == <<mainPc, step, owned, lost, faults, message, gAppConfiguration, gInitialized,
              sigInt, quitVars>>

\* What initApp makes, in its order; app_credential_create makes the provider,
\* the lock and the queue of certificates.
InitOrder == <<"config", "logger", "provider", "certLock", "certQueue", "configLock", "cvar",
               "readLock", "timerQueue", "sendLock", "msgQ", "hashTable", "mediaContext",
               "webrtc", "certTimer">>

Parts == {InitOrder[i] : i \in DOMAIN InitOrder} \cup {"client", "sessions"}

\* What freeApp releases, in its order; the mistaken forms move the credential and
\* the client, and forget streamingSessionListReadLock.
FreeOrder_credentialFirst ==
  <<"join", "client", "credential", "sessions", "webrtc", "mediaContext", "broadcast",
    "configLock", "readLock", "cvar", "certTimer", "timerQueue", "logger", "config", "done">>
FreeOrder_clientLate ==
  <<"join", "sessions", "client", "webrtc", "mediaContext", "broadcast", "configLock",
    "readLock", "cvar", "certTimer", "timerQueue", "credential", "logger", "config", "done">>
FreeOrder_noReadLock ==
  <<"join", "client", "sessions", "webrtc", "mediaContext", "broadcast", "configLock",
    "broadcast", "cvar", "certTimer", "timerQueue", "credential", "logger", "config", "done">>
FreeOrder ==
  <<"join", "client", "sessions", "webrtc", "mediaContext", "broadcast", "configLock",
    "readLock", "cvar", "certTimer", "timerQueue", "credential", "logger", "config", "done">>

LifeInit ==
  /\ Init /\ BoardInit
  /\ mainPc = "boot" /\ step = 1
  /\ owned = {} /\ lost = {} /\ faults = {}
  /\ message = FALSE
  /\ gAppConfiguration = FALSE /\ gInitialized = FALSE /\ sigInt = FALSE
  /\ quitPc = "idle" /\ quitWaited = FALSE

-----------------------------------------------------------------------------
(* initApp                                                                   *)

\* WebRTCAppMain is called.
Boot ==
  /\ mainPc = "boot" /\ bootPc = "app"
  /\ mainPc' = "init"
  /\ UNCHANGED <<step, owned, lost, message, gAppConfiguration, gInitialized, sigInt, quitVars>>

\* The part that comes next.
Making(part) == mainPc = "init" /\ step \in DOMAIN InitOrder /\ InitOrder[step] = part

Make ==
  /\ \E part \in Parts \ {"certTimer"} :
       /\ Making(part)
       /\ owned' = owned \cup {part}
       /\ gAppConfiguration' = (gAppConfiguration \/ part = "webrtc")
  /\ step' = step + 1
  /\ UNCHANGED <<mainPc, lost, message, gInitialized, sigInt, quitVars>>

\* File logging is an option and may fail (app_metrics_setupFileLogging); the
\* result of CVAR_CREATE is not tested.
MakeGoesOn ==
  /\ Making("logger") \/ Making("cvar")
  /\ step' = step + 1
  /\ UNCHANGED <<mainPc, owned, lost, message, gAppConfiguration, gInitialized, sigInt,
                 quitVars>>

\* app_credential_destroy, but for the certificates.  A provider that cannot be
\* freed is forgotten, and the lock is then left for a second call.
CredentialDestroyed ==
  LET provider == "provider" \in owned \ lost
  IN \/ /\ owned' = owned \ {"provider", "certLock", "certQueue"}
        /\ provider /\ UNCHANGED lost
     \/ /\ owned' = owned \ {"certQueue"}
        /\ provider /\ lost' = lost \cup {"provider"}
     \/ /\ owned' = owned \ {"certLock", "certQueue"}
        /\ ~provider /\ UNCHANGED lost

\* A part that fails leads to freeApp, but for the configuration itself.  A media
\* source without its lock hands the wrong pointer to its destructor, which then
\* frees nothing (AppMediaSrc_ESP32_FileSrc.c:260).
MakeFails ==
  /\ \E part \in Parts \ {"logger", "cvar", "certTimer"} :
       /\ Making(part)
       /\ mainPc' = IF part = "config" THEN "end" ELSE "free"
       /\ \/ part \in {"provider", "certLock", "certQueue"} /\ CredentialDestroyed
          \/ part = "mediaContext" /\ owned' = owned \cup {part} /\ lost' = lost \cup {part}
          \/ part \notin {"provider", "certLock", "certQueue"} /\ UNCHANGED <<owned, lost>>
  /\ step' = 1
  /\ UNCHANGED <<message, gAppConfiguration, gInitialized, sigInt, quitVars>>

\* The last step; without the timer the initialisation fails but has been noted.
AddCertTimer ==
  /\ Making("certTimer")
  /\ \/ mainPc' = "run" /\ owned' = owned \cup {"certTimer"}
     \/ mainPc' = "free" /\ UNCHANGED owned
  /\ gInitialized' = TRUE /\ step' = 1
  /\ UNCHANGED <<lost, message, gAppConfiguration, sigInt, quitVars>>

-----------------------------------------------------------------------------
(* runApp and pollApp, on the main thread.                                   *)

RunApp ==
  /\ mainPc = "run" /\ mainPc' = "poll"
  /\ owned' \in {owned, owned \cup {"client"}}
  /\ UNCHANGED <<step, lost, message, gAppConfiguration, gInitialized, sigInt, quitVars>>

\* A round under appConfigurationObjLock: the last session may go, and a client
\* that could not be created again, or anything else that fails, ends the loop; when
\* the hash table fails, with a session that is off the list and was not freed.
PollRound ==
  /\ mainPc = "poll" /\ ~sigInt /\ configLock = NULL
  /\ \E gone \in SUBSET {"client", "sessions"} : owned' = owned \ gone
  /\ mainPc' \in {"wait", "join", "free"}
  /\ mainPc' = "join" => "sessions" \in owned \ owned'
  /\ mainPc' # "free" => {"client", "cvar"} \subseteq owned'
  /\ \/ UNCHANGED lost
     \/ mainPc' = "free" /\ "sessions" \in owned' /\ lost' = lost \cup {"sessions"}
  /\ UNCHANGED <<step, message, gAppConfiguration, gInitialized, sigInt, quitVars>>

PollJoined ==
  /\ mainPc = "join" /\ configLock = NULL
  /\ mainPc' = "wait"
  /\ UNCHANGED <<step, owned, lost, message, gAppConfiguration, gInitialized, sigInt,
                 quitVars>>

\* The end of CVAR_WAIT, by a signal or after APP_CLEANUP_WAIT_PERIOD.
PollWakes ==
  /\ mainPc = "wait" /\ configLock = NULL
  /\ mainPc' = "poll"
  /\ UNCHANGED <<step, owned, lost, message, gAppConfiguration, gInitialized, sigInt,
                 quitVars>>

PollExit ==
  /\ mainPc = "poll" /\ sigInt
  /\ mainPc' = "free"
  /\ UNCHANGED <<step, owned, lost, message, gAppConfiguration, gInitialized, sigInt,
                 quitVars>>

-----------------------------------------------------------------------------
(* freeApp                                                                   *)

Freeing(part) == mainPc = "free" /\ step \in DOMAIN FreeOrder /\ FreeOrder[step] = part
FreeGoesOn == step' = step + 1 /\ UNCHANGED <<mainPc, message, gAppConfiguration, sigInt, quitVars>>

\* With the flag reset at the kick-off of the termination.
FreeJoin_resets ==
  /\ Freeing("join") /\ FreeGoesOn
  /\ gInitialized' = FALSE
  /\ UNCHANGED <<owned, lost>>

\* terminateApp is set, the source shut down and the media thread joined.
FreeJoin ==
  /\ Freeing("join") /\ FreeGoesOn
  /\ UNCHANGED <<owned, lost, gInitialized>>

\* app_signaling_free; the client may refuse.
FreeClient ==
  /\ Freeing("client") /\ FreeGoesOn
  /\ \/ owned' = owned \ {"client", "sendLock"} /\ UNCHANGED lost
     \/ /\ "client" \in owned
        /\ owned' = owned \ {"sendLock"} /\ lost' = lost \cup {"client"}
  /\ UNCHANGED gInitialized

\* The queues, the table and the listed sessions, under the lock if there is one.
FreeSessions ==
  /\ Freeing("sessions") /\ FreeGoesOn
  /\ configLock = NULL
  /\ owned' = owned \ ({"msgQ", "hashTable", "sessions"} \ lost)
  /\ UNCHANGED <<lost, gInitialized>>

\* The lock is taken once more after the broadcast.
FreeBroadcast ==
  /\ Freeing("broadcast") /\ FreeGoesOn
  /\ {"cvar", "configLock"} \subseteq owned => configLock = NULL
  /\ UNCHANGED <<owned, lost, gInitialized>>

FreeConfigLock ==
  /\ Freeing("configLock") /\ FreeGoesOn
  /\ configLock = NULL
  /\ owned' = owned \ {"configLock"}
  /\ UNCHANGED <<lost, gInitialized>>

\* The parts whose release does nothing else; one that is lost stays.  The WebRTC
\* library is left also when it was never entered.
FreePart ==
  /\ \E part \in {"webrtc", "mediaContext", "readLock", "cvar", "logger", "config"} :
       Freeing(part) /\ owned' = owned \ ({part} \ lost)
  /\ FreeGoesOn
  /\ UNCHANGED <<lost, gInitialized>>

\* A failure to cancel the timer is logged; its queue goes all the same.
FreeTimer ==
  /\ \/ Freeing("certTimer") /\ owned' \in {owned, owned \ {"certTimer"}}
     \/ Freeing("timerQueue") /\ owned' = owned \ {"certTimer", "timerQueue"}
  /\ FreeGoesOn
  /\ UNCHANGED <<lost, gInitialized>>

\* With the certificates (CertPool's Destroy).
FreeCredential ==
  /\ Freeing("credential") /\ FreeGoesOn
  /\ CredentialDestroyed
  /\ UNCHANGED gInitialized

\* gAppConfiguration is not reset.
FreeDone ==
  /\ Freeing("done")
  /\ mainPc' = "end" /\ step' = 1
  /\ gInitialized' = FALSE
  /\ UNCHANGED <<owned, lost, message, gAppConfiguration, sigInt, quitVars>>

-----------------------------------------------------------------------------
(* The users of the parts: messages, the timer, and quitApp.                 *)

MessageArrives ==
  /\ "client" \in owned /\ ~message /\ sigPc = "idle"
  /\ message' = TRUE
  /\ UNCHANGED <<mainPc, step, owned, lost, gAppConfiguration, gInitialized, sigInt, quitVars>>

HandlerParts == {"configLock", "hashTable"}

\* The handler of an offer takes the lock; any other message ends with nothing
\* of interest here.
HandlerBegins ==
  /\ message /\ HandlerParts \subseteq owned
  /\ message' = FALSE
  /\ UNCHANGED <<mainPc, step, owned, lost, gAppConfiguration, gInitialized, sigInt, quitVars>>

\* It lists a session or fails.
HandlerEnds ==
  /\ owned' \in {owned, owned \cup {"sessions"}}
  /\ UNCHANGED <<mainPc, step, lost, message, gAppConfiguration, gInitialized, sigInt, quitVars>>

QuitGoes(from, to) ==
  /\ quitPc = from /\ quitPc' = to
  /\ UNCHANGED <<mainPc, step, owned, lost, message, gAppConfiguration, gInitialized>>

QuitApp ==
  /\ QuitGoes("idle", IF gAppConfiguration THEN "shutdown" ELSE "loop")
  /\ UNCHANGED <<sigInt, quitWaited>>

\* app_signaling_shutdown, whose failure is logged.
QuitShutdown ==
  /\ "config" \in owned
  /\ QuitGoes("shutdown", "signal")
  /\ UNCHANGED <<sigInt, quitWaited>>

QuitSignal ==
  /\ {"config", "cvar"} \subseteq owned
  /\ QuitGoes("signal", "loop")
  /\ sigInt' = TRUE /\ UNCHANGED quitWaited

\* The loop is over at once, or waits.
QuitLoop ==
  /\ QuitGoes("loop", IF gInitialized THEN "waiting" ELSE "returned")
  /\ quitWaited' = gInitialized /\ UNCHANGED sigInt

\* gInitialized is reset, or 5 s have passed.
QuitReturns ==
  /\ \/ ~gInitialized /\ QuitGoes("waiting", "returned")
     \/ QuitGoes("waiting", "failed")
  /\ UNCHANGED <<sigInt, quitWaited>>

\* Each user that may meet a released part, and when it does.  The lock freed in
\* someone's hands is one of freeApp's own.
Fault(who) ==
  CASE who = "timer" -> "certTimer" \in owned /\ timerPc = "idle" /\ "configLock" \notin owned
    [] who = "handler" -> message /\ ~(HandlerParts \subseteq owned)
    [] who = "quit" -> \/ quitPc = "shutdown" /\ "config" \notin owned
                       \/ quitPc = "signal" /\ ~({"config", "cvar"} \subseteq owned)
    [] who = "poll" -> /\ mainPc = "poll" /\ ~sigInt /\ configLock = NULL
                       /\ "client" \in owned /\ "cvar" \notin owned
    [] who = "free" -> Freeing("configLock") /\ configLock # NULL

UseReleased ==
  /\ \E who \in {"timer", "handler", "quit", "poll", "free"} : Fault(who) /\ faults' = {who}
  /\ UNCHANGED <<mainPc, step, owned, lost, message, gAppConfiguration, gInitialized, sigInt,
                 quitVars>>

-----------------------------------------------------------------------------
allVars == <<vars, boardVars, lifeVars>>

\* The main thread; only freeApp's last but few steps touch the certificates.
MainNext ==
  \/ /\ \/ Boot \/ Make \/ MakeGoesOn \/ MakeFails \/ AddCertTimer
        \/ RunApp \/ PollRound \/ PollJoined \/ PollWakes \/ PollExit
        \/ FreeJoin \/ FreeClient \/ FreeSessions \/ FreeBroadcast \/ FreeConfigLock
        \/ FreePart \/ FreeTimer \/ FreeDone
     /\ UNCHANGED vars
  \/ Destroy /\ FreeCredential

QuitNext == QuitApp \/ QuitShutdown \/ QuitSignal \/ QuitLoop \/ QuitReturns

\* The timer fires while it is registered and the lock exists; its callback.
TimerFires == CheckCount /\ {"certTimer", "configLock"} \subseteq owned
CallbackNext == CreateCert \/ CreateCertFails \/ EnqueueCert \/ EnqueueCertFails

\* A message, its handler's way to the lock, and the handler of an offer.
MessageNext ==
  \/ MessageArrives /\ UNCHANGED vars
  \/ HandlerBegins /\ configLock = NULL /\ UNCHANGED vars
  \/ HandlerBegins /\ PopCert
HandlerNext == HandlerEnds /\ CreatePeerConnection

BoardStep == faults = {} /\ BoardNext /\ UNCHANGED <<vars, lifeVars>>
MainStep == faults = {} /\ MainNext /\ UNCHANGED <<boardVars, faults>>
QuitStep == faults = {} /\ QuitNext /\ UNCHANGED <<vars, boardVars, faults>>
TimerStep == faults = {} /\ TimerFires /\ UNCHANGED <<boardVars, lifeVars>>
CallbackStep == faults = {} /\ CallbackNext /\ UNCHANGED <<boardVars, lifeVars>>
MessageStep == faults = {} /\ MessageNext /\ UNCHANGED <<boardVars, faults>>
HandlerStep == faults = {} /\ HandlerNext /\ UNCHANGED <<boardVars, faults>>
FaultStep == faults = {} /\ UseReleased /\ UNCHANGED <<vars, boardVars>>

LifeNext ==
  \/ BoardStep \/ MainStep \/ QuitStep \/ TimerStep \/ CallbackStep \/ MessageStep
  \/ HandlerStep \/ FaultStep

LifeSpec == LifeInit /\ [][LifeNext]_allVars

(* The main thread runs whenever it can, and a lock that is free again and   *)
(* again is granted to it; but a join need not return.  A callback or a      *)
(* handler that has the lock goes on, app_main too, and an event that is     *)
(* there is delivered.  Nothing is assumed of the station's attempts to      *)
(* connect, of messages, of the timer's firing or of quitApp.                *)
AtJoin == mainPc = "join" \/ (mainPc = "free" /\ FreeOrder[step] = "join")

LifeFairness ==
  /\ SF_allVars(~AtJoin /\ MainStep)
  /\ WF_allVars(CallbackStep) /\ WF_allVars(HandlerStep)
  /\ WF_allVars(BoardStep /\ AppMainNext) /\ WF_allVars(BoardStep /\ EventNext)

LifeFairSpec == LifeSpec /\ LifeFairness

-----------------------------------------------------------------------------
(* Properties                                                              *)

\* The types, and where gInitialized is set.
LifeTypeOK ==
  /\ BoardTypeOK
  /\ mainPc \in {"boot", "init", "run", "poll", "wait", "join", "free", "end"}
  /\ step \in 1..15
  /\ owned \in SUBSET Parts /\ lost \in SUBSET owned
  /\ faults \in SUBSET {"timer", "handler", "quit", "poll", "free"}
  /\ message \in BOOLEAN
  /\ gAppConfiguration \in BOOLEAN /\ gInitialized \in BOOLEAN /\ sigInt \in BOOLEAN
  /\ quitPc \in {"idle", "shutdown", "signal", "loop", "waiting", "returned", "failed"}
  /\ quitWaited \in BOOLEAN
  /\ gInitialized => gAppConfiguration /\ mainPc \notin {"boot", "init", "end"}

\* Whatever initApp got to and in whatever state the application was, nothing is
\* left of it but what a library refused to free, the block of a media source
\* whose lock could not be created, and a session that pollApp forgot because the
\* hash table failed.
NothingLeft ==
  mainPc = "end" =>
    /\ lost \subseteq {"provider", "client", "mediaContext", "sessions"}
    /\ owned \subseteq lost \cup (IF "provider" \in lost THEN {"certLock"} ELSE {})

\* Who is alive has what it uses: the timer its queue and the pool, the signaling
\* client what its handlers and the server need, and the sessions the library and
\* the configuration.  A client that refuses to be freed is an exception, and so is
\* a session that pollApp forgot: its peer connection outlives all it uses.
UsersHaveTheirParts ==
  /\ "certTimer" \in owned => {"timerQueue", "certLock", "certQueue", "config"} \subseteq owned
  /\ "client" \in owned \ lost =>
       {"provider", "configLock", "readLock", "msgQ", "hashTable", "config"} \subseteq owned
  /\ "sessions" \in owned \ lost => {"webrtc", "mediaContext", "readLock", "config"} \subseteq owned

\* The only uses of something released: the timer's callback may take the freed
\* lock until the timer goes; the lock may be freed in the callback's hands; a
\* message that the client had delivered, or delivers since it refused to be
\* freed, may meet what is gone; quitApp may come while freeApp is at work, or
\* after it; and a condition variable that never was may be waited on or signalled.
FaultsAreKnown ==
  /\ "timer" \in faults =>
       mainPc = "free" /\ FreeOrder[step] \in {"readLock", "cvar", "certTimer", "timerQueue"}
  /\ "free" \in faults => configLock = "timer"
  /\ "handler" \in faults => "client" \notin owned \ lost
  /\ "quit" \in faults => mainPc \in {"free", "end"} \/ "cvar" \notin owned

\* A quitApp that had to wait and says the application ended tells the truth:
\* all of freeApp is done.
QuitTellsTruth == quitPc = "returned" /\ quitWaited => mainPc = "end"

\* CertPool's Destroy finds neither the timer nor a handler in the pool.
DestroyIsUndisturbed ==
  Freeing("credential") /\ faults = {} => timerPc = "idle" /\ sigPc = "idle"

\* Once told to quit, and once freeApp has passed its join, the application ends,
\* unless a join does not return or something released was used.
QuitEndsApp ==
  sigInt \/ (mainPc = "free" /\ ~AtJoin) ~> mainPc = "end" \/ AtJoin \/ faults # {}
=============================================================================

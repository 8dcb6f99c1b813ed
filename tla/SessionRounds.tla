---------------------------- MODULE SessionRounds ----------------------------
(***************************************************************************)
(* The contract between the sessions and the media control thread.  pollApp*)
(* works in rounds under appConfigurationObjLock: a round removes every    *)
(* session that was lost before the round began, none that was not lost,   *)
(* and leaves for the join of the media thread only if it has removed the  *)
(* last session.  A round that fails half-way ends pollApp.  Meanwhile     *)
(* connections may be lost, and between rounds and during a join sessions  *)
(* come.                                                                   *)
(*                                                                         *)
(* StreamingSessions has the array, its scan and its locks, and leaves the *)
(* media thread open; MediaControl has the thread and keeps the sessions   *)
(* in a set.  Both keep this contract, so each may rely on it for what it  *)
(* leaves open.                                                            *)
(***************************************************************************)
CONSTANTS Sessions

VARIABLES sessions,             \* the sessions in streamingSessionList
          ended,                \* those whose terminateFlag is set
          phase,                \* "open", "round", "join", "over"
          due,                  \* the sessions this round still has to remove
          shutdownMediaSource   \* this round has removed the last session

vars == <<sessions, ended, phase, due, shutdownMediaSource>>

Init ==
  /\ sessions = {} /\ ended = {} /\ due = {}
  /\ phase = "open" /\ shutdownMediaSource = FALSE

\* An offer adds a session, at any time but in a round.
Add(s) ==
  /\ phase # "round" /\ s \notin sessions
  /\ sessions' = sessions \cup {s}
  /\ ended' \in {ended, ended \ {s}}
  /\ UNCHANGED <<phase, due, shutdownMediaSource>>

\* The block of a session that is not listed is freed, or taken for a new one.
Forget(s) ==
  /\ s \notin sessions
  /\ ended' = ended \ {s}
  /\ UNCHANGED <<sessions, phase, due, shutdownMediaSource>>

\* A connection is lost; the round may have passed by that session already.
Lose(s) ==
  /\ ended' = ended \cup {s}
  /\ \/ UNCHANGED due
     \/ phase = "round" /\ s \in sessions /\ due' = due \cup {s}
  /\ UNCHANGED <<sessions, phase, shutdownMediaSource>>

BeginRound ==
  /\ phase = "open" /\ phase' = "round"
  /\ due' = sessions \cap ended
  /\ UNCHANGED <<sessions, ended, shutdownMediaSource>>

Remove(s) ==
  /\ phase = "round" /\ s \in due
  /\ sessions' = sessions \ {s} /\ due' = due \ {s}
  /\ ended' \in {ended, ended \ {s}}
  /\ shutdownMediaSource' = (shutdownMediaSource \/ sessions' = {})
  /\ UNCHANGED phase

\* pollApp fails on its way to remove a session, and returns: the session is off
\* the list, what else was due stays, and nobody stops the media.
Break(s) ==
  /\ phase = "round" /\ s \in due
  /\ sessions' = sessions \ {s} /\ due' = {}
  /\ phase' = "over" /\ shutdownMediaSource' \in {shutdownMediaSource, FALSE}
  /\ UNCHANGED ended

\* Nothing is left to remove: the round ends, and the media thread is joined only
\* if nobody is left to watch.
EndRound ==
  /\ phase = "round" /\ due = {}
  /\ \/ phase' = "open" /\ shutdownMediaSource' = FALSE
     \/ phase' = "join" /\ shutdownMediaSource /\ sessions = {}
        /\ UNCHANGED shutdownMediaSource
  /\ UNCHANGED <<sessions, ended, due>>

Joined ==
  /\ phase = "join" /\ phase' = "open" /\ shutdownMediaSource' = FALSE
  /\ UNCHANGED <<sessions, ended, due>>

\* pollApp returns; freeApp may then free the sessions all at once.
Leave ==
  /\ phase = "open" \/ (phase = "round" /\ due = {})
  /\ phase' = "over" /\ shutdownMediaSource' \in {shutdownMediaSource, FALSE}
  /\ UNCHANGED <<sessions, ended, due>>

FreeAll ==
  /\ phase = "over" /\ sessions' = {}
  /\ ended' \in {ended, ended \ sessions}
  /\ UNCHANGED <<phase, due, shutdownMediaSource>>

Next ==
  \/ \E s \in Sessions : Add(s) \/ Forget(s) \/ Lose(s) \/ Remove(s) \/ Break(s)
  \/ BeginRound \/ EndRound \/ Joined \/ Leave \/ FreeAll

Spec == Init /\ [][Next]_vars
=============================================================================

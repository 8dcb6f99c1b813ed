---------------------------- MODULE OfferExchange ----------------------------
(***************************************************************************)
(* What an offer is promised, whichever thread keeps the promise.  The     *)
(* local candidates of a session are gathered one after another.  A peer   *)
(* that can trickle is owed each of them as soon as it is found, and the   *)
(* next one is not looked for before; a peer that cannot gets them with    *)
(* its answer.  An offer is answered once, when the gathering has started  *)
(* or, for a peer that cannot trickle, when it is done.                    *)
(***************************************************************************)
EXTENDS Naturals

CONSTANTS Sessions, Candidates

VARIABLES peerTrickles,  \* what the offer of each session says
          gathering,     \* "off", "running", "done"
          gathered,      \* the candidates found so far
          owed,          \* the one that the peer is about to be sent
          trickled,      \* those it was sent
          answers,       \* the number of answers
          inAnswer,      \* the candidates in it
          lost           \* sessions with a message that could not be made or sent

sentVars == <<trickled, answers, inAnswer>>
vars == <<peerTrickles, gathering, gathered, owed, sentVars, lost>>

None == [s \in Sessions |-> {}]

Init ==
  /\ peerTrickles \in [Sessions -> BOOLEAN]
  /\ gathering = [s \in Sessions |-> "off"]
  /\ gathered = None /\ owed = None /\ trickled = None /\ inAnswer = None
  /\ answers = [s \in Sessions |-> 0]
  /\ lost = {}

Start(s) ==
  /\ gathering[s] = "off" /\ gathering' = [gathering EXCEPT ![s] = "running"]
  /\ UNCHANGED <<peerTrickles, gathered, owed, sentVars, lost>>

Find(s, c) ==
  /\ gathering[s] = "running" /\ owed[s] = {} /\ c \notin gathered[s]
  /\ gathered' = [gathered EXCEPT ![s] = @ \cup {c}]
  /\ owed' = [owed EXCEPT ![s] = IF peerTrickles[s] THEN {c} ELSE {}]
  /\ UNCHANGED <<peerTrickles, gathering, sentVars, lost>>

Finish(s) ==
  /\ gathering[s] = "running" /\ owed[s] = {}
  /\ gathering' = [gathering EXCEPT ![s] = "done"]
  /\ UNCHANGED <<peerTrickles, gathered, owed, sentVars, lost>>

\* The peer is sent what it is owed, or the message is lost.
Deliver(s) ==
  /\ owed[s] # {} /\ owed' = [owed EXCEPT ![s] = {}]
  /\ \/ trickled' = [trickled EXCEPT ![s] = @ \cup owed[s]] /\ UNCHANGED lost
     \/ lost' = lost \cup {s} /\ UNCHANGED trickled
  /\ UNCHANGED <<peerTrickles, gathering, gathered, answers, inAnswer>>

Answer(s) ==
  /\ answers[s] = 0
  /\ gathering[s] \in IF peerTrickles[s] THEN {"running", "done"} ELSE {"done"}
  /\ answers' = [answers EXCEPT ![s] = 1]
  /\ inAnswer' = [inAnswer EXCEPT ![s] = gathered[s]]
  /\ UNCHANGED <<peerTrickles, gathering, gathered, owed, trickled, lost>>

\* The offer is refused, or its answer is lost: in either case it had none.
Fail(s) ==
  /\ answers[s] = 0 /\ lost' = lost \cup {s}
  /\ UNCHANGED <<peerTrickles, gathering, gathered, owed, sentVars>>

Next ==
  \E s \in Sessions : \/ Start(s) \/ Finish(s) \/ Deliver(s) \/ Answer(s) \/ Fail(s)
                      \/ \E c \in Candidates : Find(s, c)

Spec == Init /\ [][Next]_vars
=============================================================================

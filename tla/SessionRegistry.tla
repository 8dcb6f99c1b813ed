--------------------------- MODULE SessionRegistry --------------------------
(***************************************************************************)
(* What the session list and its hash table promise, without the array,    *)
(* the locks and the threads: a bounded set of accepted sessions, and at   *)
(* most one route per client hash, made only for an accepted session of    *)
(* that hash.  A session leaves only after its connection was lost, and    *)
(* takes the route of its client with it in the same step - unless the     *)
(* map of routes fails, and then no session leaves any more.               *)
(***************************************************************************)
EXTENDS Naturals, FiniteSets

CONSTANTS Sessions, Peers, HashOf, MaxSessions, NULL

VARIABLES accepted,  \* the sessions that are being served
          route,     \* client hash -> the session its candidates go to
          ended,     \* sessions whose connection was lost
          owner,     \* the client a session was made for
  closed     \* the map of routes has failed: nobody removes sessions any more

vars == <<accepted, route, ended, owner, closed>>

Hashes == {HashOf[p] : p \in Peers}

Init ==
  /\ accepted = {}
  /\ route = [h \in Hashes |-> NULL]
  /\ ended = {}
  /\ owner \in [Sessions -> Peers]
  /\ closed = FALSE

\* A block that is not in use becomes a session of p.
Assign(s, p) ==
  /\ s \notin accepted
  /\ owner' = [owner EXCEPT ![s] = p]
  /\ ended' = ended \ {s}
  /\ UNCHANGED <<accepted, route, closed>>

\* A new session is served, provided its client has no route.
Accept(s) ==
  /\ s \notin accepted
  /\ Cardinality(accepted) < MaxSessions
  /\ route[HashOf[owner[s]]] = NULL
  /\ accepted' = accepted \cup {s}
  /\ UNCHANGED <<route, ended, owner, closed>>

Route(s) ==
  /\ s \in accepted
  /\ route[HashOf[owner[s]]] = NULL
  /\ route' = [route EXCEPT ![HashOf[owner[s]]] = s]
  /\ UNCHANGED <<accepted, ended, owner, closed>>

Lose(s) ==
  /\ ended' = ended \cup {s}
  /\ UNCHANGED <<accepted, route, owner, closed>>

Retire(s) ==
  /\ ~closed /\ s \in accepted \cap ended
  /\ accepted' = accepted \ {s}
  /\ route' = [route EXCEPT ![HashOf[owner[s]]] = NULL]
  /\ UNCHANGED <<ended, owner, closed>>

\* The map of routes fails when a session leaves: the route stays.
RetireFails(s) ==
  /\ ~closed /\ s \in accepted \cap ended
  /\ accepted' = accepted \ {s}
  /\ closed' = TRUE
  /\ UNCHANGED <<route, ended, owner>>

\* The mark of a session that left is cleared when its block is freed.
Forget(s) ==
  /\ s \notin accepted
  /\ ended' = ended \ {s}
  /\ UNCHANGED <<accepted, route, owner, closed>>

Next ==
  \E s \in Sessions :
    \/ \E p \in Peers : Assign(s, p)
    \/ Accept(s) \/ Route(s) \/ Lose(s) \/ Retire(s) \/ RetireFails(s) \/ Forget(s)

Spec == Init /\ [][Next]_vars
=============================================================================

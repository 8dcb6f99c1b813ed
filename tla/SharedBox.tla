------------------------------ MODULE SharedBox ------------------------------
(***************************************************************************)
(* What the pending queues of PendingMsgQ amount to.  They are meant as    *)
(* one mailbox per client; as coded they are a single box that all clients *)
(* share, labelled with the hash of the client whose candidate opened it.  *)
(* A candidate of any client goes into the box, and the first offer, of    *)
(* whichever client, takes what is in it.  If that client is not the one   *)
(* on the label, the box is freed but stays linked, and whoever looks for  *)
(* a box next meets it.                                                    *)
(***************************************************************************)
EXTENDS Naturals, Sequences

CONSTANTS Peers, HashOf, NULL

VARIABLES box,    \* "none", "open", "freed" (but linked), "closed" by freeApp
          label,  \* the hash on an open box, or NULL
          held,   \* the senders of the candidates in it
          given,  \* <<sender, taker>>
          fault   \* a freed box was used

vars == <<box, label, held, given, fault>>

Init ==
  /\ box = "none" /\ label = NULL /\ held = <<>>
  /\ given = {} /\ fault = FALSE

\* The box is gone, and what was in it with it.
Emptied(after) == box' = after /\ label' = NULL /\ held' = <<>> /\ UNCHANGED fault

\* A candidate of p opens a box, into which it may fail to go, or joins the others.
Put(p) ==
  /\ \/ box = "none" /\ box' = "open" /\ label' = HashOf[p] /\ held' \in {<<p>>, <<>>}
     \/ box = "open" /\ held' = Append(held, p) /\ UNCHANGED <<box, label>>
  /\ UNCHANGED <<given, fault>>

\* An offer of p is given the first n candidates, whoever sent them.
Take(p) ==
  /\ box = "open"
  /\ \E n \in 0..Len(held) : given' = given \cup {<<held[i], p>> : i \in 1..n}
  /\ Emptied(IF label = HashOf[p] THEN "none" ELSE "freed")

\* The box expires, or an offer of the client on the label is refused.
Drop == box = "open" /\ Emptied("none") /\ UNCHANGED given

Close == box \in {"none", "open"} /\ Emptied("closed") /\ UNCHANGED given

\* Any call after that, but not before.
UseFreed ==
  /\ box = "freed" /\ ~fault
  /\ fault' = TRUE
  /\ UNCHANGED <<box, label, held, given>>

Next == (\E p \in Peers : Put(p) \/ Take(p)) \/ Drop \/ Close \/ UseFreed

Spec == Init /\ [][Next]_vars
=============================================================================

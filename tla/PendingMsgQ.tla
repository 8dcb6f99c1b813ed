---------------------------- MODULE PendingMsgQ ----------------------------
(***************************************************************************)
(* The pending-message queues of AppMessageQueue.c.                        *)
(*                                                                         *)
(* An ICE candidate may arrive before the offer of the peer that sent it.  *)
(* It is then stored in a PendingMessageQueue, and all the queues of the   *)
(* application hang off one ConnectionMsgQ.  The actions below are the     *)
(* calls that app_common_onSignalingMessageReceived, pollApp and freeApp   *)
(* make, each with everything the call does to the queues; every one runs  *)
(* to its end under appConfigurationObjLock, so it is one step.            *)
(*                                                                         *)
(* A PendingMessageQueue lives in a block of the heap.  A pointer to it    *)
(* may outlive the block; what the program does once it reads or frees     *)
(* such a block is undefined, every outcome is possible, and the model     *)
(* records it in `fault' and takes no further step.                        *)
(*                                                                         *)
(* Abstracted: a message is the peer that sent it; createTime is reduced   *)
(* to whether createTime + interval < now.                                 *)
(***************************************************************************)
EXTENDS Naturals, Sequences, FiniteSets

CONSTANTS Peers,        \* remote clients (peerClientId)
          HashOf,       \* COMPUTE_CRC32 of a peerClientId, Peers -> hash values
          QueueBlocks,  \* heap blocks a PendingMessageQueue may occupy
          MaxPending,   \* bound on the messages of one queue (the code has none)
          NULL

ASSUME PeersAssumption == Peers # {} /\ HashOf \in [Peers -> {HashOf[p] : p \in Peers}]
ASSUME NullAssumption == NULL \notin QueueBlocks
ASSUME BoundAssumption == MaxPending \in Nat \ {0}

Hashes == {HashOf[p] : p \in Peers}

VARIABLES connQ,      \* pMsqQueue: the ConnectionMsgQ's list of queue pointers
          allocated,  \* the blocks that are allocated
          hashValue,  \* PendingMessageQueue.hashValue of each block
          messages,   \* PendingMessageQueue.messageQueue of each block
          expired,    \* the blocks whose createTime + interval has passed
          open,       \* FALSE once freeApp has freed the ConnectionMsgQ
          delivered,  \* <<sender, owner of the session it was given to>>
          abandoned,  \* blocks unlinked and forgotten without being freed
          fault       \* a freed block was read or freed

msgQVars == <<connQ, allocated, hashValue, messages, expired, open, delivered,
              abandoned, fault>>

MsgQTypeOK ==
  /\ connQ \in Seq(QueueBlocks)
  /\ allocated \in SUBSET QueueBlocks
  /\ hashValue \in [QueueBlocks -> Hashes]
  /\ messages \in [QueueBlocks -> Seq(Peers)]
  /\ expired \in SUBSET QueueBlocks
  /\ open \in BOOLEAN
  /\ delivered \in SUBSET (Peers \X Peers)
  /\ abandoned \in SUBSET QueueBlocks
  /\ fault \in BOOLEAN

MsgQInit ==
  /\ connQ = <<>>
  /\ allocated = {}
  /\ hashValue = [q \in QueueBlocks |-> CHOOSE h \in Hashes : TRUE]
  /\ messages = [q \in QueueBlocks |-> <<>>]
  /\ expired = {}
  /\ open = TRUE
  /\ delivered = {}
  /\ abandoned = {}
  /\ fault = FALSE

-----------------------------------------------------------------------------
(* app_msg_q_getPendingMsgQByHashVal.  The loop stops at the first queue of  *)
(* the client; the clean-up code then stores the queue visited last into the *)
(* result, so that without a match the result is the last queue of the list. *)

Registered == {connQ[i] : i \in DOMAIN connQ}

Matches(h) == {i \in DOMAIN connQ : hashValue[connQ[i]] = h}

LastVisited(h) ==
  IF Matches(h) = {} THEN Len(connQ)
  ELSE CHOOSE i \in Matches(h) : \A j \in Matches(h) : i <= j

GetPendingMsgQ(h) == IF connQ = <<>> THEN NULL ELSE connQ[LastVisited(h)]

\* The list after the call with remove = TRUE: only a match is unlinked.
RemoveMatch(h) ==
  LET at == LastVisited(h) IN
  IF Matches(h) = {} THEN connQ
  ELSE SubSeq(connQ, 1, at - 1) \o SubSeq(connQ, at + 1, Len(connQ))

ReadsFreed(h) == \E i \in 1..LastVisited(h) : connQ[i] \notin allocated

Undefined ==
  /\ fault' = TRUE
  /\ UNCHANGED <<connQ, allocated, hashValue, messages, expired, open,
                 delivered, abandoned>>

-----------------------------------------------------------------------------
\* app_msg_q_createPendingMsgQ followed by the push of the first message; the
\* push may run out of memory and leave the new queue empty.
CreatePendingMsgQ(p) ==
  \E q \in QueueBlocks \ allocated, content \in {<<p>>, <<>>} :
    /\ allocated' = allocated \cup {q}
    /\ hashValue' = [hashValue EXCEPT ![q] = HashOf[p]]
    /\ messages' = [messages EXCEPT ![q] = content]
    /\ connQ' = Append(connQ, q)
    /\ UNCHANGED <<expired, open, delivered, abandoned, fault>>

\* app_msg_q_pushMsqIntoPendingMsgQ on an existing queue.
PushMsg(q, p) ==
  /\ Len(messages[q]) < MaxPending
  /\ messages' = [messages EXCEPT ![q] = Append(@, p)]
  /\ UNCHANGED <<connQ, allocated, hashValue, expired, open, delivered,
                 abandoned, fault>>

\* QueueCandidate without the test for an existing queue.
QueueCandidate_noTest(p) ==
  /\ open /\ ~fault
  /\ CreatePendingMsgQ(p)

\* A candidate of p when p has no session.
QueueCandidate(p) ==
  /\ open /\ ~fault
  /\ LET h == HashOf[p]
         q == GetPendingMsgQ(h)
     IN  \/ ReadsFreed(h) /\ Undefined
         \/ ~ReadsFreed(h) /\ q = NULL /\ CreatePendingMsgQ(p)
         \/ ~ReadsFreed(h) /\ q # NULL /\ PushMsg(q, p)

\* HandlePendingMsgQ that returns without freeing the queue.
HandlePendingMsgQ_notFreed(q, p) ==
  /\ delivered' = delivered \cup {<<messages[q][i], p>> : i \in DOMAIN messages[q]}
  /\ messages' = [messages EXCEPT ![q] = <<>>]
  /\ UNCHANGED <<allocated, hashValue, expired, open, abandoned, fault>>

\* app_msg_q_handlePendingMsgQ on queue q for a session of peer p.  The hook
\* takes the first n messages; if it fails on the next one the rest is freed
\* with the queue.
HandlePendingMsgQ(q, p) ==
  \E n \in 0..Len(messages[q]) :
    /\ delivered' = delivered \cup {<<messages[q][i], p>> : i \in 1..n}
    /\ allocated' = allocated \ {q}
    /\ messages' = [messages EXCEPT ![q] = <<>>]
    /\ expired' = expired \ {q}
    /\ UNCHANGED <<hashValue, open, abandoned, fault>>

\* An offer of p was accepted: its queue is unlinked, submitted and freed.
\* With no queue at all the handler is given NULL and does nothing.
DrainOnOffer(p) ==
  /\ open /\ ~fault
  /\ LET h == HashOf[p]
         q == GetPendingMsgQ(h)
     IN  \/ ReadsFreed(h) /\ Undefined
         \/ ~ReadsFreed(h) /\ q = NULL /\ UNCHANGED msgQVars
         \/ /\ ~ReadsFreed(h) /\ q # NULL
            /\ connQ' = RemoveMatch(h)
            /\ HandlePendingMsgQ(q, p)

\* An offer of p was refused because every session is in use: the queue of p
\* is unlinked and the pointer to it is dropped.
DropOnRefusal(p) ==
  /\ open /\ ~fault
  /\ LET h == HashOf[p]
     IN  \/ ReadsFreed(h) /\ Undefined
         \/ /\ ~ReadsFreed(h)
            /\ connQ' = RemoveMatch(h)
            /\ abandoned' = IF Matches(h) = {} THEN abandoned
                            ELSE abandoned \cup {GetPendingMsgQ(h)}
            /\ UNCHANGED <<allocated, hashValue, messages, expired, open,
                           delivered, fault>>

\* The removal of expired queues, with an expired queue freed and put back.
RemoveExpiredPendingMsgQ_putBack ==
  /\ open /\ ~fault
  /\ Registered \subseteq allocated
  /\ allocated' = allocated \ (Registered \cap expired)
  /\ UNCHANGED <<connQ, hashValue, messages, expired, open, delivered, abandoned,
                 fault>>

\* The positions of the list whose queue is still in time.
Unexpired == {i \in DOMAIN connQ : connQ[i] \notin expired}

\* The increasing enumerations of a set of positions: there is exactly one.
InOrder(P) == {m \in [1..Cardinality(P) -> P] :
                 /\ \A i, j \in DOMAIN m : i < j => m[i] < m[j]
                 /\ {m[i] : i \in DOMAIN m} = P}

\* app_msg_q_removeExpiredPendingMsgQ: each pointer is taken from the front and
\* either freed or put back at the end, so the survivors keep their order.
RemoveExpiredPendingMsgQ ==
  /\ open /\ ~fault
  /\ \/ ~(Registered \subseteq allocated) /\ Undefined
     \/ /\ Registered \subseteq allocated
        /\ \E m \in InOrder(Unexpired) : connQ' = [i \in DOMAIN m |-> connQ[m[i]]]
        /\ allocated' = allocated \ (Registered \cap expired)
        /\ messages' = [q \in QueueBlocks |->
                          IF q \in Registered \cap expired THEN <<>> ELSE messages[q]]
        /\ expired' = expired \ Registered
        /\ UNCHANGED <<hashValue, open, delivered, abandoned, fault>>

\* APP_PENDING_MESSAGE_CLEANUP_DURATION passes since the queue was created.
Expire(q) ==
  /\ open /\ ~fault
  /\ q \in (allocated \cap Registered) \ expired
  /\ expired' = expired \cup {q}
  /\ UNCHANGED <<connQ, allocated, hashValue, messages, open, delivered,
                 abandoned, fault>>

\* app_msg_q_freeConnectionMsgQ, from freeApp.
FreeConnectionMsgQ ==
  /\ open /\ ~fault
  /\ \/ ~(Registered \subseteq allocated) /\ Undefined
     \/ /\ Registered \subseteq allocated
        /\ allocated' = allocated \ Registered
        /\ messages' = [q \in QueueBlocks |->
                          IF q \in Registered THEN <<>> ELSE messages[q]]
        /\ expired' = expired \ Registered
        /\ connQ' = <<>>
        /\ open' = FALSE
        /\ UNCHANGED <<hashValue, delivered, abandoned, fault>>

MsgQNext ==
  \/ \E p \in Peers : QueueCandidate(p) \/ DrainOnOffer(p) \/ DropOnRefusal(p)
  \/ RemoveExpiredPendingMsgQ
  \/ \E q \in QueueBlocks : Expire(q)
  \/ FreeConnectionMsgQ

MsgQSpec == MsgQInit /\ [][MsgQNext]_msgQVars

-----------------------------------------------------------------------------
(* Properties                                                              *)

\* At most one pending queue is ever registered: because the search never
\* answers "none" while the list has an element, the second queue is never
\* created (AppCommon.c:474 tests the answer for NULL).
AtMostOneQueue == Len(connQ) <= 1

\* A queue is allocated only while the list holds it, except for the queues
\* forgotten when an offer was refused (AppCommon.c:440 expects "the session
\* cleanup" to find them, but nothing refers to them): nothing else leaks,
\* neither a partly handled queue nor one that expires or is left at freeApp.
AllocatedIsRegistered == allocated \ abandoned \subseteq Registered

\* Every pointer in the list is to an allocated queue, so that none is read or
\* freed after it was freed.  AppMessageQueue.h:69 asks for it of the caller of
\* app_msg_q_handlePendingMsgQ: "you need to pop pending message queue from
\* connection message queue".  It holds while the waiting clients have one hash
\* value and fails with two.
NoDanglingPointer == Registered \subseteq allocated

\* A freed queue stays linked only through one door: an offer of a client that
\* has no queue, which is handed the last queue of the list.
DanglesOnlyByForeignOffer ==
  [][\A q \in QueueBlocks :
       (q \in allocated /\ q \notin allocated' /\ \E i \in DOMAIN connQ' : connQ'[i] = q)
         => \E p \in Peers : DrainOnOffer(p) /\ hashValue[q] # HashOf[p]]_msgQVars

\* AppMessageQueue.h: the search returns "the target pending message queue
\* according to the clientHash", so a session is given its own peer's messages.
OwnDelivery == \A d \in delivered : HashOf[d[1]] = HashOf[d[2]]

-----------------------------------------------------------------------------
(* The abstraction: the list of queues is one box that all clients share.    *)

\* The queue a search ends at while there is at most one.
FirstQueue == connQ[1]

BoxState ==
  IF connQ = <<>> THEN (IF open THEN "none" ELSE "closed")
  ELSE IF FirstQueue \in allocated THEN "open" ELSE "freed"

BoxLabel == IF BoxState = "open" THEN hashValue[FirstQueue] ELSE NULL
BoxContent == IF BoxState = "open" THEN messages[FirstQueue] ELSE <<>>

Box == INSTANCE SharedBox WITH box <- BoxState, label <- BoxLabel, held <- BoxContent,
                               given <- delivered

\* The queues are one box: no client has a mailbox of its own, an offer takes
\* what others sent, and a freed queue is met by whoever comes next
\* (AppMessageQueue.c:184 is the cause).
BoxSpec == Box!Spec
=============================================================================

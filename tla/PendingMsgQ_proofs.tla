-------------------------- MODULE PendingMsgQ_proofs --------------------------
(***************************************************************************)
(* The pending queues, for every set of clients, hash function and heap:   *)
(* the types, the one queue that is ever registered, and that a queue is   *)
(* lost only when an offer is refused.  The lemmas have one action each,   *)
(* so that StreamingSessions_proofs can cite them where its own actions    *)
(* make the same calls.                                                    *)
(***************************************************************************)
EXTENDS PendingMsgQ, FiniteSetTheorems, SequenceTheorems, TLAPS

MsgQInv == MsgQTypeOK /\ AtMostOneQueue /\ AllocatedIsRegistered

-----------------------------------------------------------------------------
\* With at most one queue, the search visits that queue or nothing, and a call
\* that removes leaves the list as it is or empty.
LEMMA Search ==
  ASSUME MsgQTypeOK, AtMostOneQueue, NEW h
  PROVE  /\ connQ = <<>> => Registered = {} /\ Matches(h) = {}
         /\ connQ # <<>> => /\ GetPendingMsgQ(h) \in QueueBlocks
                            /\ Registered = {GetPendingMsgQ(h)}
                            /\ Matches(h) = {} => hashValue[GetPendingMsgQ(h)] # h
         /\ \A i \in 1..LastVisited(h) : connQ[i] \in Registered
         /\ RemoveMatch(h) = IF Matches(h) = {} THEN connQ ELSE <<>>
<1>1. connQ \in Seq(QueueBlocks) /\ Len(connQ) \in 0..1 /\ DOMAIN connQ = 1..Len(connQ)
  <2>1. connQ \in Seq(QueueBlocks)
    BY DEF MsgQTypeOK
  <2>2. Len(connQ) \in Nat /\ DOMAIN connQ = 1..Len(connQ)
    BY <2>1, LenProperties
  <2> QED
    BY <2>1, <2>2 DEF AtMostOneQueue
<1>2. CASE connQ = <<>>
  <2>1. Registered = {} /\ Matches(h) = {}
    BY <1>2 DEF Registered, Matches
  <2>2. LastVisited(h) = 0
    BY <1>2, <2>1 DEF LastVisited
  <2> QED
    BY <1>2, <2>1, <2>2 DEF RemoveMatch
<1>3. CASE connQ # <<>>
  <2>1. DOMAIN connQ = {1} /\ Len(connQ) = 1 /\ connQ[1] \in QueueBlocks
    BY <1>1, <1>3
  <2>2. Matches(h) \subseteq {1}
    BY <2>1 DEF Matches
  <2>3. Matches(h) # {} => LastVisited(h) = 1
    BY <2>2 DEF LastVisited
  <2>4. LastVisited(h) = 1
    BY <2>1, <2>3 DEF LastVisited
  <2>5. GetPendingMsgQ(h) = connQ[1] /\ Registered = {connQ[1]}
    BY <1>3, <2>1, <2>4 DEF GetPendingMsgQ, Registered
  <2>6. SubSeq(connQ, 1, 0) = <<>> /\ SubSeq(connQ, 2, 1) = <<>>
    BY <1>1, SubSeqEmpty
  <2>7. Matches(h) # {} => RemoveMatch(h) = <<>>
    BY <2>1, <2>4, <2>6 DEF RemoveMatch
  <2>8. Matches(h) = {} => hashValue[connQ[1]] # h
    BY <2>1 DEF Matches
  <2>9. RemoveMatch(h) = IF Matches(h) = {} THEN connQ ELSE <<>>
    BY <2>7 DEF RemoveMatch
  <2>10. \A i \in 1..LastVisited(h) : connQ[i] \in Registered
    BY <2>4, <2>5
  <2> QED
    BY <1>3, <2>1, <2>5, <2>8, <2>9, <2>10
<1> QED
  BY <1>2, <1>3

\* A step that changes none of the variables the invariant is about.
LEMMA Unchanged ==
  ASSUME MsgQInv, UNCHANGED <<connQ, allocated, hashValue, messages, expired, open,
                              delivered, abandoned>>, fault' \in BOOLEAN
  PROVE  MsgQInv'
  BY DEF MsgQInv, MsgQTypeOK, AtMostOneQueue, AllocatedIsRegistered, Registered

LEMMA QueueCandidateInv ==
  ASSUME MsgQInv, NEW p \in Peers, QueueCandidate(p)
  PROVE  MsgQInv'
<1> DEFINE q == GetPendingMsgQ(HashOf[p])
<1>0. MsgQTypeOK /\ AtMostOneQueue /\ AllocatedIsRegistered
  BY DEF MsgQInv
<1>1. CASE Undefined
  BY <1>1, Unchanged DEF Undefined
<1>2. CASE q = NULL /\ CreatePendingMsgQ(p)
  <2>1. connQ = <<>> /\ Registered = {}
    BY <1>0, <1>2, Search, NullAssumption
  <2>2. PICK b \in QueueBlocks \ allocated, content \in {<<p>>, <<>>} :
          /\ allocated' = allocated \cup {b}
          /\ hashValue' = [hashValue EXCEPT ![b] = HashOf[p]]
          /\ messages' = [messages EXCEPT ![b] = content]
          /\ connQ' = Append(connQ, b)
          /\ UNCHANGED <<expired, open, delivered, abandoned, fault>>
    BY <1>2 DEF CreatePendingMsgQ
  <2>3. content \in Seq(Peers) /\ HashOf[p] \in Hashes
    <3>1. <<p>> \in Seq(Peers) /\ <<>> \in Seq(Peers)
      OBVIOUS
    <3> QED
      BY <3>1 DEF Hashes
  <2>4. connQ' \in Seq(QueueBlocks) /\ Len(connQ') = 1 /\ DOMAIN connQ' = {1} /\ connQ'[1] = b
    BY <2>1, <2>2
  <2>5. MsgQTypeOK'
    BY <1>0, <2>2, <2>3, <2>4 DEF MsgQTypeOK
  <2>6. Registered' = {b}
    BY <2>4 DEF Registered
  <2> QED
    BY <1>0, <2>1, <2>2, <2>4, <2>5, <2>6
       DEF MsgQInv, AtMostOneQueue, AllocatedIsRegistered
<1>3. CASE q # NULL /\ PushMsg(q, p)
  <2>1. q \in QueueBlocks
    BY <1>0, <1>3, Search DEF GetPendingMsgQ
  <2>2. messages' \in [QueueBlocks -> Seq(Peers)]
    BY <1>0, <1>3, <2>1 DEF PushMsg, MsgQTypeOK
  <2> QED
    BY <1>0, <1>3, <2>2 DEF PushMsg, MsgQInv, MsgQTypeOK, AtMostOneQueue,
       AllocatedIsRegistered, Registered
<1> QED
  BY <1>1, <1>2, <1>3 DEF QueueCandidate

LEMMA DrainOnOfferInv ==
  ASSUME MsgQInv, NEW p \in Peers, DrainOnOffer(p)
  PROVE  MsgQInv'
<1> DEFINE h == HashOf[p]
           q == GetPendingMsgQ(h)
<1>0. MsgQTypeOK /\ AtMostOneQueue /\ AllocatedIsRegistered
  BY DEF MsgQInv
<1>1. CASE Undefined
  BY <1>1, Unchanged DEF Undefined
<1>2. CASE UNCHANGED msgQVars
  BY <1>0, <1>2, Unchanged DEF msgQVars, MsgQTypeOK
<1>3. CASE q # NULL /\ connQ' = RemoveMatch(h) /\ HandlePendingMsgQ(q, p)
  <2>1. q \in QueueBlocks /\ Registered = {q}
    BY <1>0, <1>3, Search DEF GetPendingMsgQ
  <2>2. PICK n \in 0..Len(messages[q]) :
          /\ delivered' = delivered \cup {<<messages[q][i], p>> : i \in 1..n}
          /\ allocated' = allocated \ {q}
          /\ messages' = [messages EXCEPT ![q] = <<>>]
          /\ expired' = expired \ {q}
          /\ UNCHANGED <<hashValue, open, abandoned, fault>>
    BY <1>3 DEF HandlePendingMsgQ
  <2>3. messages[q] \in Seq(Peers)
    BY <1>0, <2>1 DEF MsgQTypeOK
  <2>4. \A i \in 1..n : messages[q][i] \in Peers
    BY <2>3
  <2>5. delivered' \subseteq Peers \X Peers
    BY <1>0, <2>2, <2>4 DEF MsgQTypeOK
  <2>6. messages' \in [QueueBlocks -> Seq(Peers)]
    BY <1>0, <2>2, EmptySeq DEF MsgQTypeOK
  <2>7. connQ' \in Seq(QueueBlocks) /\ Len(connQ') <= 1
    <3>1. connQ' = connQ \/ connQ' = <<>>
      BY <1>0, <1>3, Search
    <3>2. <<>> \in Seq(QueueBlocks) /\ Len(<<>>) = 0
      BY EmptySeq
    <3>3. connQ \in Seq(QueueBlocks) /\ Len(connQ) <= 1
      BY <1>0 DEF MsgQTypeOK, AtMostOneQueue
    <3>4. CASE connQ' = connQ
      BY <3>3, <3>4
    <3>5. CASE connQ' = <<>>
      <4>1. Len(connQ') = 0 /\ connQ' \in Seq(QueueBlocks)
        BY <3>2, <3>5
      <4> QED
        BY <4>1
    <3> QED
      BY <3>1, <3>4, <3>5
  <2>8. MsgQTypeOK'
    BY <1>0, <2>2, <2>5, <2>6, <2>7 DEF MsgQTypeOK
  <2>9. allocated' \ abandoned' = {}
    BY <1>0, <2>1, <2>2 DEF AllocatedIsRegistered
  <2> QED
    BY <2>7, <2>8, <2>9 DEF MsgQInv, AtMostOneQueue, AllocatedIsRegistered
<1> QED
  BY <1>1, <1>2, <1>3 DEF DrainOnOffer

LEMMA DropOnRefusalInv ==
  ASSUME MsgQInv, NEW p \in Peers, DropOnRefusal(p)
  PROVE  MsgQInv'
<1> DEFINE h == HashOf[p]
<1>0. MsgQTypeOK /\ AtMostOneQueue /\ AllocatedIsRegistered
  BY DEF MsgQInv
<1>1. CASE Undefined
  BY <1>1, Unchanged DEF Undefined
<1>2. CASE /\ connQ' = RemoveMatch(h)
           /\ abandoned' = IF Matches(h) = {} THEN abandoned
                           ELSE abandoned \cup {GetPendingMsgQ(h)}
           /\ UNCHANGED <<allocated, hashValue, messages, expired, open, delivered, fault>>
  <2>1. CASE Matches(h) = {}
    BY <1>0, <1>2, <2>1, Search, Unchanged DEF MsgQTypeOK
  <2>2. CASE Matches(h) # {}
    <3>1. GetPendingMsgQ(h) \in QueueBlocks /\ Registered = {GetPendingMsgQ(h)}
      BY <1>0, <2>2, Search
    <3>2. connQ' = <<>>
      BY <1>0, <1>2, <2>2, Search
    <3> QED
      BY <1>0, <1>2, <2>2, <3>1, <3>2
         DEF MsgQInv, MsgQTypeOK, AtMostOneQueue, AllocatedIsRegistered
  <2> QED
    BY <2>1, <2>2
<1> QED
  BY <1>1, <1>2 DEF DropOnRefusal

\* The survivors of the clean-up are the registered queues that are in time, no
\* more of them than before.
LEMMA Survivors ==
  ASSUME MsgQTypeOK, NEW m \in InOrder(Unexpired),
         connQ' = [i \in DOMAIN m |-> connQ[m[i]]]
  PROVE  /\ connQ' \in Seq(QueueBlocks) /\ Len(connQ') <= Len(connQ)
         /\ Registered' = Registered \ expired
<1>1. connQ \in Seq(QueueBlocks) /\ Len(connQ) \in Nat /\ DOMAIN connQ = 1..Len(connQ)
  BY DEF MsgQTypeOK
<1>2. Unexpired \subseteq 1..Len(connQ)
  BY <1>1 DEF Unexpired
<1>3. IsFiniteSet(1..Len(connQ)) /\ Cardinality(1..Len(connQ)) = Len(connQ)
  <2> DEFINE n == Len(connQ)
  <2> HIDE DEF n
  <2>1. n \in Nat
    BY <1>1 DEF n
  <2>2. IsFiniteSet(1..n) /\ Cardinality(1..n) = IF 1 > n THEN 0 ELSE n - 1 + 1
    BY <2>1, FS_Interval
  <2>3. IsFiniteSet(1..n) /\ Cardinality(1..n) = n
    BY <2>1, <2>2
  <2> QED
    BY <2>3 DEF n
<1>4. Cardinality(Unexpired) \in Nat /\ Cardinality(Unexpired) <= Len(connQ)
  BY <1>2, <1>3, FS_Subset, FS_CardinalityType
<1>5. /\ DOMAIN m = 1..Cardinality(Unexpired)
      /\ \A i \in DOMAIN m : m[i] \in Unexpired
      /\ {m[i] : i \in DOMAIN m} = Unexpired
  BY DEF InOrder
<1>6. \A i \in DOMAIN m : m[i] \in 1..Len(connQ) /\ connQ[m[i]] \in QueueBlocks \ expired
  BY <1>1, <1>2, <1>5 DEF Unexpired
<1>7. connQ' \in [1..Cardinality(Unexpired) -> QueueBlocks]
  BY <1>5, <1>6
<1>8. connQ' \in Seq(QueueBlocks) /\ Len(connQ') = Cardinality(Unexpired)
  BY <1>4, <1>7, IsASeq
<1>9. Registered' = {connQ[i] : i \in Unexpired}
  BY <1>5, <1>7 DEF Registered
<1>10. {connQ[i] : i \in Unexpired} = Registered \ expired
  BY DEF Registered, Unexpired
<1> QED
  BY <1>4, <1>8, <1>9, <1>10

LEMMA RemoveExpiredInv ==
  ASSUME MsgQInv, RemoveExpiredPendingMsgQ
  PROVE  MsgQInv'
<1>0. MsgQTypeOK /\ AtMostOneQueue /\ AllocatedIsRegistered
  BY DEF MsgQInv
<1>1. CASE Undefined
  BY <1>1, Unchanged DEF Undefined
<1>2. CASE ~Undefined
  <2>1. PICK m \in InOrder(Unexpired) : connQ' = [i \in DOMAIN m |-> connQ[m[i]]]
    BY <1>2 DEF RemoveExpiredPendingMsgQ
  <2>2. /\ connQ' \in Seq(QueueBlocks) /\ Len(connQ') <= Len(connQ)
        /\ Registered' = Registered \ expired
    BY <1>0, <2>1, Survivors
  <2>3. /\ allocated' = allocated \ (Registered \cap expired)
        /\ messages' = [q \in QueueBlocks |->
                          IF q \in Registered \cap expired THEN <<>> ELSE messages[q]]
        /\ expired' = expired \ Registered
        /\ UNCHANGED <<hashValue, open, delivered, abandoned, fault>>
    BY <1>2 DEF RemoveExpiredPendingMsgQ
  <2>4. MsgQTypeOK'
    BY <1>0, <2>2, <2>3 DEF MsgQTypeOK
  <2>5. Len(connQ') <= 1
    BY <1>0, <2>2 DEF AtMostOneQueue, MsgQTypeOK
  <2> QED
    BY <1>0, <2>2, <2>3, <2>4, <2>5 DEF MsgQInv, AtMostOneQueue, AllocatedIsRegistered
<1> QED
  BY <1>1, <1>2

LEMMA ExpireInv ==
  ASSUME MsgQInv, NEW q \in QueueBlocks, Expire(q)
  PROVE  MsgQInv'
  BY DEF Expire, MsgQInv, MsgQTypeOK, AtMostOneQueue, AllocatedIsRegistered, Registered

LEMMA FreeConnectionMsgQInv ==
  ASSUME MsgQInv, FreeConnectionMsgQ
  PROVE  MsgQInv'
<1>1. CASE Undefined
  BY <1>1, Unchanged DEF Undefined
<1>2. CASE ~Undefined
  <2>1. messages' \in [QueueBlocks -> Seq(Peers)]
    BY <1>2, EmptySeq DEF FreeConnectionMsgQ, MsgQInv, MsgQTypeOK
  <2>2. MsgQTypeOK'
    BY <1>2, <2>1, EmptySeq DEF FreeConnectionMsgQ, MsgQInv, MsgQTypeOK
  <2> QED
    BY <1>2, <2>2 DEF FreeConnectionMsgQ, MsgQInv, AtMostOneQueue, AllocatedIsRegistered
<1> QED
  BY <1>1, <1>2

-----------------------------------------------------------------------------
(* Whose candidates wait in a queue that can still be drained.               *)

Waiting ==
  {p \in Peers : \E q \in Registered \cap allocated :
                   \E i \in DOMAIN messages[q] : messages[q][i] = p}

LEMMA WaitingUnchanged ==
  ASSUME UNCHANGED <<connQ, allocated, messages>>
  PROVE  Waiting' = Waiting
  BY DEF Waiting, Registered

\* A candidate adds its sender and nobody else.
LEMMA WaitingAfterCandidate ==
  ASSUME MsgQInv, NEW p \in Peers, QueueCandidate(p)
  PROVE  Waiting' \subseteq Waiting \cup {p}
<1> DEFINE q == GetPendingMsgQ(HashOf[p])
<1>0. MsgQTypeOK /\ AtMostOneQueue
  BY DEF MsgQInv
<1>1. CASE Undefined
  BY <1>1, WaitingUnchanged DEF Undefined
<1>2. CASE q = NULL /\ CreatePendingMsgQ(p)
  <2>1. connQ = <<>>
    BY <1>0, <1>2, Search, NullAssumption
  <2>2. PICK b \in QueueBlocks \ allocated, content \in {<<p>>, <<>>} :
          messages' = [messages EXCEPT ![b] = content] /\ connQ' = Append(connQ, b)
    BY <1>2 DEF CreatePendingMsgQ
  <2>3. Registered' = {b}
    BY <2>1, <2>2 DEF Registered
  <2>4. messages'[b] = content
    BY <1>0, <2>2 DEF MsgQTypeOK
  <2>5. \A i \in DOMAIN content : content[i] = p
    OBVIOUS
  <2> QED
    BY <2>3, <2>4, <2>5 DEF Waiting
<1>3. CASE q # NULL /\ PushMsg(q, p)
  <2>1. /\ messages' = [messages EXCEPT ![q] = Append(messages[q], p)]
        /\ UNCHANGED <<connQ, allocated>>
    BY <1>3 DEF PushMsg
  <2>2. Registered' = Registered
    BY <2>1 DEF Registered
  <2>3. ASSUME NEW b \in Registered \cap allocated, NEW i \in DOMAIN messages'[b]
        PROVE  messages'[b][i] = p \/ \E j \in DOMAIN messages[b] : messages[b][j] = messages'[b][i]
    <3>1. b \in QueueBlocks /\ messages[b] \in Seq(Peers)
      BY <1>0, <2>3 DEF MsgQTypeOK
    <3>2. CASE b = q
      <4>1. messages'[b] = Append(messages[b], p)
        BY <1>0, <2>1, <3>1, <3>2 DEF MsgQTypeOK
      <4> QED
        BY <2>3, <3>1, <4>1
    <3>3. CASE b # q
      BY <1>0, <2>1, <2>3, <3>1, <3>3 DEF MsgQTypeOK
    <3> QED
      BY <3>2, <3>3
  <2> QED
    BY <2>1, <2>2, <2>3 DEF Waiting
<1> QED
  BY <1>1, <1>2, <1>3 DEF QueueCandidate

\* Whoever's offer it is, nobody waits after it: the one queue is drained, or it
\* had been freed before.
LEMMA NobodyWaitsAfterOffer ==
  ASSUME MsgQInv, NEW p \in Peers, DrainOnOffer(p)
  PROVE  Waiting' = {}
<1> DEFINE h == HashOf[p]
           q == GetPendingMsgQ(h)
<1>0. MsgQTypeOK /\ AtMostOneQueue
  BY DEF MsgQInv
<1>1. CASE ReadsFreed(h) /\ Undefined
  <2>1. connQ # <<>>
    BY <1>0, <1>1, Search DEF ReadsFreed
  <2>2. Registered \cap allocated = {}
    BY <1>0, <1>1, <2>1, Search DEF ReadsFreed
  <2>3. Waiting = {}
    BY <2>2 DEF Waiting
  <2> QED
    BY <1>1, <2>3, WaitingUnchanged DEF Undefined
<1>2. CASE q = NULL /\ UNCHANGED msgQVars
  <2>1. connQ = <<>> /\ Registered = {}
    BY <1>0, <1>2, Search, NullAssumption
  <2>2. Registered' = {}
    BY <1>2, <2>1 DEF msgQVars, Registered
  <2> QED
    BY <2>2 DEF Waiting
<1>3. CASE q # NULL /\ connQ' = RemoveMatch(h) /\ HandlePendingMsgQ(q, p)
  <2>1. Registered = {q}
    BY <1>0, <1>3, Search DEF GetPendingMsgQ
  <2>2. allocated' = allocated \ {q}
    BY <1>3 DEF HandlePendingMsgQ
  <2>3. connQ' = connQ \/ connQ' = <<>>
    BY <1>0, <1>3, Search
  <2>4. Registered' \subseteq {q}
    BY <2>1, <2>3 DEF Registered
  <2> QED
    BY <2>2, <2>4 DEF Waiting
<1> QED
  BY <1>1, <1>2, <1>3 DEF DrainOnOffer

\* A refusal and an expiry only take senders away.
LEMMA WaitingShrinks ==
  ASSUME MsgQInv,
         \/ \E p \in Peers : DropOnRefusal(p)
         \/ RemoveExpiredPendingMsgQ
         \/ \E q \in QueueBlocks : Expire(q)
  PROVE  Waiting' \subseteq Waiting
<1>0. MsgQTypeOK /\ AtMostOneQueue
  BY DEF MsgQInv
<1>1. CASE Undefined
  BY <1>1, WaitingUnchanged DEF Undefined
<1>2. ASSUME NEW p \in Peers, connQ' = RemoveMatch(HashOf[p]), UNCHANGED <<allocated, messages>>
      PROVE  Waiting' \subseteq Waiting
  <2>1. connQ' = connQ \/ connQ' = <<>>
    BY <1>0, <1>2, Search
  <2>2. Registered' \subseteq Registered
    BY <2>1 DEF Registered
  <2> QED
    BY <1>2, <2>2 DEF Waiting
<1>3. CASE RemoveExpiredPendingMsgQ /\ ~Undefined
  <2>1. PICK m \in InOrder(Unexpired) : connQ' = [i \in DOMAIN m |-> connQ[m[i]]]
    BY <1>3 DEF RemoveExpiredPendingMsgQ
  <2>2. Registered' = Registered \ expired /\ Registered \subseteq QueueBlocks
    <3>1. connQ \in Seq(QueueBlocks)
      BY <1>0 DEF MsgQTypeOK
    <3>2. Registered \subseteq QueueBlocks
      BY <3>1 DEF Registered
    <3> QED
      BY <1>0, <2>1, <3>2, Survivors
  <2>3. /\ allocated' = allocated \ (Registered \cap expired)
        /\ messages' = [q \in QueueBlocks |->
                          IF q \in Registered \cap expired THEN <<>> ELSE messages[q]]
    BY <1>3 DEF RemoveExpiredPendingMsgQ
  <2>4. \A q \in Registered' : messages'[q] = messages[q]
    BY <2>2, <2>3
  <2> QED
    BY <2>2, <2>3, <2>4 DEF Waiting
<1>4. ASSUME NEW q \in QueueBlocks, Expire(q) PROVE Waiting' = Waiting
  BY <1>4, WaitingUnchanged DEF Expire
<1> QED
  BY <1>1, <1>2, <1>3, <1>4 DEF DropOnRefusal

-----------------------------------------------------------------------------
(* The invariant, and what follows from it.                                  *)

LEMMA MsgQInitInv == MsgQInit => MsgQInv
<1> SUFFICES ASSUME MsgQInit PROVE MsgQInv
  OBVIOUS
<1>1. Hashes # {} /\ (CHOOSE h \in Hashes : TRUE) \in Hashes
  BY PeersAssumption DEF Hashes
<1>2. MsgQTypeOK
  BY <1>1, EmptySeq DEF MsgQInit, MsgQTypeOK
<1> QED
  BY <1>2 DEF MsgQInit, MsgQInv, AtMostOneQueue, AllocatedIsRegistered

LEMMA MsgQNextInv == MsgQInv /\ [MsgQNext]_msgQVars => MsgQInv'
<1> SUFFICES ASSUME MsgQInv, [MsgQNext]_msgQVars PROVE MsgQInv'
  OBVIOUS
<1>1. CASE UNCHANGED msgQVars
  BY <1>1, Unchanged DEF msgQVars, MsgQInv, MsgQTypeOK
<1>2. CASE MsgQNext
  BY <1>2, QueueCandidateInv, DrainOnOfferInv, DropOnRefusalInv, RemoveExpiredInv,
     ExpireInv, FreeConnectionMsgQInv DEF MsgQNext
<1> QED
  BY <1>1, <1>2

-----------------------------------------------------------------------------
LEMMA MsgQSpecInv == MsgQSpec => []MsgQInv
  BY MsgQInitInv, MsgQNextInv, PTL DEF MsgQSpec

\* The queues keep their types.
THEOREM MsgQTypeCorrect == MsgQSpec => []MsgQTypeOK
<1>1. MsgQInv => MsgQTypeOK
  BY DEF MsgQInv
<1> QED
  BY <1>1, MsgQSpecInv, PTL

\* Whatever clients send, at most one queue is registered at a time.
THEOREM OneQueueAtMost == MsgQSpec => []AtMostOneQueue
<1>1. MsgQInv => AtMostOneQueue
  BY DEF MsgQInv
<1> QED
  BY <1>1, MsgQSpecInv, PTL

\* A queue that is neither registered nor dropped by a refused offer is freed.
THEOREM QueuesAreAccountedFor == MsgQSpec => []AllocatedIsRegistered
<1>1. MsgQInv => AllocatedIsRegistered
  BY DEF MsgQInv
<1> QED
  BY <1>1, MsgQSpecInv, PTL

-----------------------------------------------------------------------------
(* When do freed queues stay in the list?                                    *)

\* A search in a list without a dangling pointer reads no freed queue.
LEMMA SearchReadsNoFreedQueue ==
  ASSUME MsgQInv, NoDanglingPointer, NEW h
  PROVE  ~ReadsFreed(h)
  BY Search DEF MsgQInv, NoDanglingPointer, ReadsFreed

\* With one hash value the search always finds its own client's queue.
LEMMA OneHashNext ==
  ASSUME NEW h, \A p \in Peers : HashOf[p] = h,
         MsgQInv, NoDanglingPointer, [MsgQNext]_msgQVars
  PROVE  NoDanglingPointer'
<1>0. MsgQTypeOK /\ AtMostOneQueue
  BY DEF MsgQInv
<1>1. ASSUME NEW p \in Peers, QueueCandidate(p) PROVE NoDanglingPointer'
  <2>1. CASE CreatePendingMsgQ(p)
    <3>1. PICK b \in QueueBlocks : connQ' = Append(connQ, b) /\ allocated' = allocated \cup {b}
      BY <2>1 DEF CreatePendingMsgQ
    <3>2. Registered' \subseteq Registered \cup {b}
      BY <1>0, <3>1 DEF Registered, MsgQTypeOK
    <3> QED
      BY <3>1, <3>2 DEF NoDanglingPointer
  <2>2. CASE UNCHANGED <<connQ, allocated>>
    BY <2>2 DEF NoDanglingPointer, Registered
  <2> QED
    BY <1>1, <2>1, <2>2, SearchReadsNoFreedQueue DEF QueueCandidate, PushMsg
<1>2. ASSUME NEW p \in Peers, DrainOnOffer(p) PROVE NoDanglingPointer'
  <2>1. CASE UNCHANGED <<connQ, allocated>>
    BY <2>1 DEF NoDanglingPointer, Registered
  <2>2. CASE GetPendingMsgQ(h) # NULL /\ connQ' = RemoveMatch(h)
    <3>1. connQ # <<>>
      BY <2>2 DEF GetPendingMsgQ
    <3>2. GetPendingMsgQ(h) \in QueueBlocks /\ (Matches(h) = {} => hashValue[GetPendingMsgQ(h)] # h)
      BY <1>0, <3>1, Search
    <3>3. Hashes = {h}
      BY PeersAssumption DEF Hashes
    <3>4. hashValue[GetPendingMsgQ(h)] = h
      BY <1>0, <3>2, <3>3 DEF MsgQTypeOK
    <3>5. connQ' = <<>>
      BY <1>0, <2>2, <3>2, <3>4, Search
    <3> QED
      BY <3>5 DEF NoDanglingPointer, Registered
  <2> QED
    BY <1>2, <2>1, <2>2, SearchReadsNoFreedQueue DEF DrainOnOffer, msgQVars
<1>3. ASSUME NEW p \in Peers, DropOnRefusal(p) PROVE NoDanglingPointer'
  <2>1. (connQ' = connQ \/ connQ' = <<>>) /\ allocated' = allocated
    BY <1>0, <1>3, Search DEF DropOnRefusal, Undefined
  <2> QED
    BY <2>1 DEF NoDanglingPointer, Registered
<1>4. CASE RemoveExpiredPendingMsgQ
  <2>1. PICK m \in InOrder(Unexpired) : connQ' = [i \in DOMAIN m |-> connQ[m[i]]]
    BY <1>4 DEF RemoveExpiredPendingMsgQ, NoDanglingPointer
  <2>2. Registered' = Registered \ expired
    BY <1>0, <2>1, Survivors
  <2> QED
    BY <1>4, <2>2 DEF RemoveExpiredPendingMsgQ, NoDanglingPointer
<1>5. CASE FreeConnectionMsgQ
  BY <1>5 DEF FreeConnectionMsgQ, NoDanglingPointer, Registered
<1>6. CASE UNCHANGED <<connQ, allocated>>
  BY <1>6 DEF NoDanglingPointer, Registered
<1> QED
  BY <1>1, <1>2, <1>3, <1>4, <1>5, <1>6 DEF MsgQNext, Expire, msgQVars

\* While all waiting clients have one hash value the list never keeps a pointer
\* to a freed queue: the clean-up bug needs two of them.
THEOREM NoDanglingWithOneHash ==
  ASSUME NEW h, \A p \in Peers : HashOf[p] = h
  PROVE  MsgQSpec => []NoDanglingPointer
<1>1. MsgQInit => NoDanglingPointer
  BY DEF MsgQInit, NoDanglingPointer, Registered
<1>2. MsgQInv /\ NoDanglingPointer /\ [MsgQNext]_msgQVars => NoDanglingPointer'
  BY OneHashNext
<1> QED
  BY <1>1, <1>2, MsgQSpecInv, PTL DEF MsgQSpec

\* A pointer starts to dangle only when the offer of a client without a queue
\* is answered with another client's.
THEOREM DanglesOnlyThere == MsgQSpec => DanglesOnlyByForeignOffer
<1> DEFINE Dangles(q) == /\ q \in allocated /\ q \notin allocated'
                         /\ \E i \in DOMAIN connQ' : connQ'[i] = q
           ByForeignOffer(q) == \E p \in Peers : DrainOnOffer(p) /\ hashValue[q] # HashOf[p]
<1>1. ASSUME MsgQInv, MsgQNext, NEW q \in QueueBlocks, Dangles(q)
      PROVE  ByForeignOffer(q)
  <2>0. MsgQTypeOK /\ AtMostOneQueue
    BY <1>1 DEF MsgQInv
  <2>1. CASE RemoveExpiredPendingMsgQ
    <3>1. ~Undefined
      BY <1>1 DEF Undefined
    <3>2. PICK m \in InOrder(Unexpired) : connQ' = [i \in DOMAIN m |-> connQ[m[i]]]
      BY <2>1, <3>1 DEF RemoveExpiredPendingMsgQ
    <3>3. q \in Registered \ expired
      BY <1>1, <2>0, <3>2, Survivors DEF Registered
    <3> QED
      BY <1>1, <2>1, <3>1, <3>3 DEF RemoveExpiredPendingMsgQ
  <2>2. CASE FreeConnectionMsgQ
    <3>1. connQ' = <<>>
      BY <1>1, <2>2 DEF FreeConnectionMsgQ, Undefined
    <3> QED
      BY <1>1, <3>1
  <2>3. ASSUME NEW p \in Peers, DrainOnOffer(p) PROVE hashValue[q] # HashOf[p]
    <3> DEFINE h == HashOf[p]
    <3>1. /\ GetPendingMsgQ(h) # NULL /\ connQ' = RemoveMatch(h)
          /\ allocated' = allocated \ {GetPendingMsgQ(h)}
      BY <1>1, <2>3 DEF DrainOnOffer, Undefined, msgQVars, HandlePendingMsgQ
    <3>2. q = GetPendingMsgQ(h) /\ connQ # <<>>
      BY <1>1, <3>1 DEF GetPendingMsgQ
    <3>3. Matches(h) = {}
      BY <1>1, <2>0, <3>1, Search
    <3> QED
      BY <2>0, <3>2, <3>3, Search
  <2>4. \A p \in Peers : ~QueueCandidate(p) /\ ~DropOnRefusal(p)
    BY <1>1 DEF QueueCandidate, DropOnRefusal, Undefined, CreatePendingMsgQ, PushMsg
  <2>5. \A b \in QueueBlocks : ~Expire(b)
    BY <1>1 DEF Expire
  <2> QED
    BY <1>1, <2>1, <2>2, <2>3, <2>4, <2>5 DEF MsgQNext
<1>2. MsgQInv /\ [MsgQNext]_msgQVars
        => [\A q \in QueueBlocks :
              (q \in allocated /\ q \notin allocated' /\ \E i \in DOMAIN connQ' : connQ'[i] = q)
                => \E p \in Peers : DrainOnOffer(p) /\ hashValue[q] # HashOf[p]]_msgQVars
  BY <1>1
<1> QED
  BY <1>2, MsgQSpecInv, PTL DEF MsgQSpec, DanglesOnlyByForeignOffer

-----------------------------------------------------------------------------
(* The queues implement one shared box.                                      *)

\* What the box is, and what a search meets: the first queue, if there is one.
LEMMA BoxIs ==
  ASSUME MsgQInv
  PROVE  /\ connQ = <<>> => /\ BoxState = (IF open THEN "none" ELSE "closed")
                            /\ BoxLabel = NULL /\ BoxContent = <<>> /\ Registered = {}
         /\ connQ # <<>> /\ FirstQueue \in allocated =>
              /\ BoxState = "open" /\ BoxLabel = hashValue[FirstQueue]
              /\ BoxContent = messages[FirstQueue]
         /\ connQ # <<>> /\ FirstQueue \notin allocated =>
              BoxState = "freed" /\ BoxLabel = NULL /\ BoxContent = <<>>
         /\ connQ # <<>> => /\ FirstQueue \in QueueBlocks /\ Registered = {FirstQueue}
                            /\ connQ = <<FirstQueue>>
<1>1. connQ \in Seq(QueueBlocks) /\ Len(connQ) \in 0..1 /\ DOMAIN connQ = 1..Len(connQ)
  <2>1. connQ \in Seq(QueueBlocks)
    BY DEF MsgQInv, MsgQTypeOK
  <2>2. Len(connQ) \in Nat /\ DOMAIN connQ = 1..Len(connQ)
    BY <2>1, LenProperties
  <2> QED
    BY <2>1, <2>2 DEF MsgQInv, AtMostOneQueue
<1>2. connQ = <<>> => Registered = {}
  BY DEF Registered
<1>3. connQ # <<>> => DOMAIN connQ = {1} /\ connQ[1] \in QueueBlocks /\ connQ = <<connQ[1]>>
  BY <1>1
<1> QED
  BY <1>2, <1>3 DEF BoxState, BoxLabel, BoxContent, FirstQueue, Registered

LEMMA SearchMeetsTheBox ==
  ASSUME MsgQInv, NEW h
  PROVE  /\ connQ = <<>> => ~ReadsFreed(h) /\ GetPendingMsgQ(h) = NULL
         /\ connQ # <<>> => /\ ReadsFreed(h) <=> FirstQueue \notin allocated
                            /\ GetPendingMsgQ(h) = FirstQueue /\ FirstQueue # NULL
                            /\ Matches(h) = {} <=> hashValue[FirstQueue] # h
         /\ RemoveMatch(h) = IF Matches(h) = {} THEN connQ ELSE <<>>
<1>1. CASE connQ = <<>>
  <2>1. Matches(h) = {} /\ LastVisited(h) = 0
    BY <1>1 DEF Matches, LastVisited
  <2> QED
    BY <1>1, <2>1 DEF ReadsFreed, GetPendingMsgQ, RemoveMatch
<1>2. CASE connQ # <<>>
  <2>1. FirstQueue \in QueueBlocks /\ connQ = <<FirstQueue>> /\ FirstQueue # NULL
    BY <1>2, BoxIs, NullAssumption
  <2>2. DOMAIN connQ = {1} /\ Len(connQ) = 1 /\ connQ[1] = FirstQueue
    BY <2>1
  <2>3. /\ Matches(h) \subseteq {1}
        /\ Matches(h) = {} <=> hashValue[FirstQueue] # h
    BY <2>2 DEF Matches
  <2>4. LastVisited(h) = 1
    <3>1. CASE Matches(h) = {}
      BY <2>2, <3>1 DEF LastVisited
    <3>2. CASE Matches(h) # {}
      <4>1. Matches(h) = {1}
        BY <2>3, <3>2
      <4> QED
        BY <4>1 DEF LastVisited
    <3> QED
      BY <3>1, <3>2
  <2>5. \A i \in 1..LastVisited(h) : i = 1
    BY <2>4
  <2>6. ReadsFreed(h) <=> FirstQueue \notin allocated
    BY <2>2, <2>4, <2>5 DEF ReadsFreed
  <2> QED
    BY <1>2, <2>1, <2>2, <2>3, <2>4, <2>6, Search DEF GetPendingMsgQ, MsgQInv
<1> QED
  BY <1>1, <1>2

\* A step that leaves the list, its queue and their use alone does not touch the box.
LEMMA SameBox ==
  ASSUME UNCHANGED <<connQ, allocated, hashValue, messages, open, delivered, fault>>
  PROVE  UNCHANGED Box!vars
  BY DEF Box!vars, BoxState, BoxLabel, BoxContent, FirstQueue

\* A freed box is used.
LEMMA UndefinedUsesFreed ==
  ASSUME MsgQInv, ~fault, Undefined, ~(Registered \subseteq allocated)
  PROVE  Box!UseFreed
<1>1. connQ # <<>> /\ FirstQueue \notin allocated
  BY BoxIs
<1>2. BoxState = "freed"
  BY <1>1, BoxIs
<1> QED
  BY <1>2 DEF Undefined, Box!UseFreed, BoxState, BoxLabel, BoxContent, FirstQueue

\* The search reads freed memory only in a freed box.
LEMMA ReadsFreedIsFreed ==
  ASSUME MsgQInv, NEW h, ReadsFreed(h)
  PROVE  ~(Registered \subseteq allocated)
<1>1. connQ # <<>> /\ FirstQueue \notin allocated
  BY SearchMeetsTheBox
<1> QED
  BY <1>1, BoxIs

LEMMA CandidatePuts ==
  ASSUME MsgQInv, MsgQInv', NEW p \in Peers, QueueCandidate(p)
  PROVE  Box!Put(p) \/ Box!UseFreed
<1> DEFINE h == HashOf[p]
           q == GetPendingMsgQ(h)
<1>0. open /\ ~fault /\ MsgQTypeOK
  BY DEF QueueCandidate, MsgQInv
<1>1. CASE ReadsFreed(h) /\ Undefined
  BY <1>0, <1>1, UndefinedUsesFreed, ReadsFreedIsFreed
<1>2. CASE q = NULL /\ CreatePendingMsgQ(p)
  <2>1. connQ = <<>>
    BY <1>2, SearchMeetsTheBox
  <2>2. PICK b \in QueueBlocks \ allocated, content \in {<<p>>, <<>>} :
          /\ allocated' = allocated \cup {b}
          /\ hashValue' = [hashValue EXCEPT ![b] = HashOf[p]]
          /\ messages' = [messages EXCEPT ![b] = content]
          /\ connQ' = Append(connQ, b)
          /\ UNCHANGED <<expired, open, delivered, abandoned, fault>>
    BY <1>2 DEF CreatePendingMsgQ
  <2>3. connQ' = <<b>> /\ connQ'[1] = b /\ connQ' # <<>>
    BY <2>1, <2>2
  <2>4. hashValue'[b] = HashOf[p] /\ messages'[b] = content
    BY <1>0, <2>2 DEF MsgQTypeOK
  <2>5. BoxState = "none"
    BY <1>0, <2>1 DEF BoxState
  <2>6. BoxState' = "open" /\ BoxLabel' = HashOf[p] /\ BoxContent' = content
    BY <2>2, <2>3, <2>4 DEF BoxState, BoxLabel, BoxContent, FirstQueue
  <2> QED
    BY <2>2, <2>5, <2>6 DEF Box!Put
<1>3. CASE ~ReadsFreed(h) /\ q # NULL /\ PushMsg(q, p)
  <2>1. connQ # <<>> /\ FirstQueue \in allocated /\ q = FirstQueue /\ q \in QueueBlocks
    BY <1>3, SearchMeetsTheBox, BoxIs
  <2>2. BoxState = "open" /\ BoxContent = messages[q]
    BY <2>1, BoxIs
  <2>3. /\ messages' = [messages EXCEPT ![q] = Append(messages[q], p)]
        /\ UNCHANGED <<connQ, allocated, hashValue, open, delivered, fault>>
    BY <1>3 DEF PushMsg
  <2>4. messages'[q] = Append(messages[q], p)
    BY <1>0, <2>1, <2>3 DEF MsgQTypeOK
  <2>5. BoxState' = BoxState /\ BoxLabel' = BoxLabel
    BY <2>3 DEF BoxState, BoxLabel, FirstQueue
  <2>6. FirstQueue' = FirstQueue
    BY <2>3 DEF FirstQueue
  <2>7. BoxContent' = messages'[q]
    BY <2>1, <2>2, <2>5, <2>6 DEF BoxContent
  <2> QED
    BY <2>2, <2>3, <2>4, <2>5, <2>7 DEF Box!Put
<1> QED
  BY <1>1, <1>2, <1>3 DEF QueueCandidate

LEMMA OfferTakes ==
  ASSUME MsgQInv, MsgQInv', NEW p \in Peers, DrainOnOffer(p)
  PROVE  Box!Take(p) \/ Box!UseFreed \/ UNCHANGED Box!vars
<1> DEFINE h == HashOf[p]
           q == GetPendingMsgQ(h)
<1>0. open /\ ~fault /\ MsgQTypeOK
  BY DEF DrainOnOffer, MsgQInv
<1>1. CASE ReadsFreed(h) /\ Undefined
  BY <1>0, <1>1, UndefinedUsesFreed, ReadsFreedIsFreed
<1>2. CASE UNCHANGED msgQVars
  BY <1>2, SameBox DEF msgQVars
<1>3. CASE ~ReadsFreed(h) /\ q # NULL /\ connQ' = RemoveMatch(h) /\ HandlePendingMsgQ(q, p)
  <2>1. connQ # <<>> /\ FirstQueue \in allocated /\ q = FirstQueue
    BY <1>3, SearchMeetsTheBox
  <2>2. BoxState = "open" /\ BoxContent = messages[q] /\ BoxLabel = hashValue[q]
    BY <2>1, BoxIs
  <2>3. PICK n \in 0..Len(messages[q]) :
          /\ delivered' = delivered \cup {<<messages[q][i], p>> : i \in 1..n}
          /\ allocated' = allocated \ {q}
          /\ UNCHANGED <<hashValue, open, fault>>
    BY <1>3 DEF HandlePendingMsgQ
  <2>4. CASE hashValue[q] = h
    <3>1. connQ' = <<>>
      BY <1>3, <2>1, <2>4, SearchMeetsTheBox
    <3>2. BoxState' = "none" /\ BoxLabel' = NULL /\ BoxContent' = <<>>
      BY <1>0, <2>3, <3>1 DEF BoxState, BoxLabel, BoxContent
    <3> QED
      BY <2>2, <2>3, <2>4, <3>2 DEF Box!Take, Box!Emptied
  <2>5. CASE hashValue[q] # h
    <3>1. connQ' = connQ
      BY <1>3, <2>1, <2>5, SearchMeetsTheBox
    <3>2. FirstQueue' = q /\ q \notin allocated'
      BY <2>1, <2>3, <3>1 DEF FirstQueue
    <3>3. BoxState' = "freed" /\ BoxLabel' = NULL /\ BoxContent' = <<>>
      BY <2>1, <3>1, <3>2 DEF BoxState, BoxLabel, BoxContent
    <3> QED
      BY <2>2, <2>3, <2>5, <3>3 DEF Box!Take, Box!Emptied
  <2> QED
    BY <2>4, <2>5
<1> QED
  BY <1>1, <1>2, <1>3 DEF DrainOnOffer

LEMMA RefusalDrops ==
  ASSUME MsgQInv, MsgQInv', NEW p \in Peers, DropOnRefusal(p)
  PROVE  Box!Drop \/ Box!UseFreed \/ UNCHANGED Box!vars
<1> DEFINE h == HashOf[p]
<1>0. open /\ ~fault
  BY DEF DropOnRefusal
<1>1. CASE ReadsFreed(h) /\ Undefined
  BY <1>0, <1>1, UndefinedUsesFreed, ReadsFreedIsFreed
<1>2. CASE /\ ~ReadsFreed(h) /\ connQ' = RemoveMatch(h)
           /\ UNCHANGED <<allocated, hashValue, messages, open, delivered, fault>>
  <2>1. CASE Matches(h) = {}
    BY <1>2, <2>1, SearchMeetsTheBox, SameBox
  <2>2. CASE Matches(h) # {}
    <3>1. connQ # <<>> /\ FirstQueue \in allocated /\ connQ' = <<>>
      BY <1>2, <2>2, SearchMeetsTheBox DEF Matches
    <3>2. BoxState = "open"
      BY <3>1, BoxIs
    <3>3. BoxState' = "none" /\ BoxLabel' = NULL /\ BoxContent' = <<>>
      BY <1>0, <1>2, <3>1 DEF BoxState, BoxLabel, BoxContent
    <3> QED
      BY <1>2, <3>2, <3>3 DEF Box!Drop, Box!Emptied
  <2> QED
    BY <2>1, <2>2
<1> QED
  BY <1>1, <1>2 DEF DropOnRefusal

LEMMA ExpiryDrops ==
  ASSUME MsgQInv, MsgQInv', RemoveExpiredPendingMsgQ
  PROVE  Box!Drop \/ Box!UseFreed \/ UNCHANGED Box!vars
<1>0. open /\ ~fault /\ MsgQTypeOK
  BY DEF RemoveExpiredPendingMsgQ, MsgQInv
<1>1. CASE ~(Registered \subseteq allocated)
  <2>1. Undefined
    BY <1>1 DEF RemoveExpiredPendingMsgQ
  <2> QED
    BY <1>0, <1>1, <2>1, UndefinedUsesFreed
<1>2. CASE Registered \subseteq allocated
  <2>1. connQ' \in Seq(QueueBlocks) /\ Len(connQ') <= 1
    BY DEF MsgQInv, MsgQTypeOK, AtMostOneQueue
  <2>2. PICK m \in InOrder(Unexpired) : connQ' = [i \in DOMAIN m |-> connQ[m[i]]]
    BY <1>2 DEF RemoveExpiredPendingMsgQ
  <2>3. Registered' = Registered \ expired
    BY <1>0, <2>2, Survivors
  <2>4. /\ allocated' = allocated \ (Registered \cap expired)
        /\ messages' = [q \in QueueBlocks |->
                          IF q \in Registered \cap expired THEN <<>> ELSE messages[q]]
        /\ UNCHANGED <<hashValue, open, delivered, fault>>
    BY <1>2 DEF RemoveExpiredPendingMsgQ
  <2>5. connQ' # <<>> => connQ # <<>> /\ FirstQueue \notin expired /\ FirstQueue' = FirstQueue
    <3>1. connQ' # <<>> => Registered' = {FirstQueue'}
      <4>1. Len(connQ') \in Nat /\ DOMAIN connQ' = 1..Len(connQ')
        BY <2>1, LenProperties
      <4>2. connQ' # <<>> => DOMAIN connQ' = {1}
        BY <2>1, <4>1
      <4> QED
        BY <4>2 DEF Registered, FirstQueue
    <3>2. connQ = <<>> => Registered = {}
      BY BoxIs
    <3>3. connQ # <<>> => Registered = {FirstQueue}
      BY BoxIs
    <3> QED
      BY <2>3, <3>1, <3>2, <3>3
  <2>6. CASE connQ' # <<>>
    <3>1. connQ # <<>> /\ FirstQueue \in QueueBlocks /\ FirstQueue \in Registered
      BY <2>5, <2>6, BoxIs
    <3>2. FirstQueue \in allocated /\ FirstQueue \in allocated'
          /\ messages'[FirstQueue] = messages[FirstQueue]
      BY <1>2, <2>4, <2>5, <2>6, <3>1
    <3>3. BoxState = "open" /\ BoxState' = "open"
      BY <2>5, <2>6, <3>1, <3>2 DEF BoxState
    <3>4. BoxLabel' = BoxLabel /\ BoxContent' = BoxContent
      BY <2>4, <2>5, <2>6, <3>2, <3>3 DEF BoxLabel, BoxContent
    <3> QED
      BY <2>4, <3>3, <3>4 DEF Box!vars
  <2>7. CASE connQ' = <<>> /\ connQ = <<>>
    <3>1. BoxState = "none" /\ BoxState' = "none"
      BY <1>0, <2>4, <2>7 DEF BoxState
    <3> QED
      BY <2>4, <3>1 DEF Box!vars, BoxLabel, BoxContent
  <2>8. CASE connQ' = <<>> /\ connQ # <<>>
    <3>1. FirstQueue \in allocated /\ BoxState = "open"
      BY <1>2, <2>8, BoxIs
    <3>2. BoxState' = "none" /\ BoxLabel' = NULL /\ BoxContent' = <<>>
      BY <1>0, <2>4, <2>8 DEF BoxState, BoxLabel, BoxContent
    <3> QED
      BY <2>4, <3>1, <3>2 DEF Box!Drop, Box!Emptied
  <2> QED
    BY <2>6, <2>7, <2>8
<1> QED
  BY <1>1, <1>2

LEMMA FreeCloses ==
  ASSUME MsgQInv, MsgQInv', FreeConnectionMsgQ
  PROVE  Box!Close \/ Box!UseFreed
<1>0. open /\ ~fault
  BY DEF FreeConnectionMsgQ
<1>1. CASE ~(Registered \subseteq allocated)
  <2>1. Undefined
    BY <1>1 DEF FreeConnectionMsgQ
  <2> QED
    BY <1>0, <1>1, <2>1, UndefinedUsesFreed
<1>2. CASE Registered \subseteq allocated
  <2>1. connQ' = <<>> /\ open' = FALSE /\ UNCHANGED <<delivered, fault>>
    BY <1>2 DEF FreeConnectionMsgQ
  <2>2. BoxState \in {"none", "open"}
    BY <1>0, <1>2, BoxIs
  <2>3. BoxState' = "closed" /\ BoxLabel' = NULL /\ BoxContent' = <<>>
    BY <2>1 DEF BoxState, BoxLabel, BoxContent
  <2> QED
    BY <2>1, <2>2, <2>3 DEF Box!Close, Box!Emptied
<1> QED
  BY <1>1, <1>2

\* The list of queues implements one box that all clients share, whatever the
\* number of clients and their hash values: this is the whole effect of
\* GetPendingMsgQ's last assignment.
THEOREM ImplementsTheBox == MsgQSpec => BoxSpec
<1>1. MsgQInit => Box!Init
  BY DEF MsgQInit, Box!Init, BoxState, BoxLabel, BoxContent
<1>2. ASSUME MsgQInv, MsgQInv', [MsgQNext]_msgQVars PROVE [Box!Next]_(Box!vars)
  <2> USE DEF Box!Next
  <2>1. ASSUME NEW p \in Peers, QueueCandidate(p) PROVE Box!Next
    BY <1>2, <2>1, CandidatePuts
  <2>2. ASSUME NEW p \in Peers, DrainOnOffer(p) PROVE [Box!Next]_(Box!vars)
    BY <1>2, <2>2, OfferTakes
  <2>3. ASSUME NEW p \in Peers, DropOnRefusal(p) PROVE [Box!Next]_(Box!vars)
    BY <1>2, <2>3, RefusalDrops
  <2>4. CASE RemoveExpiredPendingMsgQ
    BY <1>2, <2>4, ExpiryDrops
  <2>5. ASSUME NEW q \in QueueBlocks, Expire(q) PROVE UNCHANGED Box!vars
    BY <2>5, SameBox DEF Expire
  <2>6. CASE FreeConnectionMsgQ
    BY <1>2, <2>6, FreeCloses
  <2>7. CASE UNCHANGED msgQVars
    BY <2>7, SameBox DEF msgQVars
  <2> QED
    BY <1>2, <2>1, <2>2, <2>3, <2>4, <2>5, <2>6, <2>7 DEF MsgQNext
<1>3. MsgQInv /\ MsgQInv' /\ [MsgQNext]_msgQVars => [Box!Next]_(Box!vars)
  BY <1>2
<1> QED
  BY <1>1, <1>3, MsgQSpecInv, PTL DEF MsgQSpec, BoxSpec, Box!Spec
=============================================================================

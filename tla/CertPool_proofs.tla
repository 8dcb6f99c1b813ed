--------------------------- MODULE CertPool_proofs ---------------------------
(***************************************************************************)
(* The certificate pool, for every limit and every set of heap blocks:     *)
(* its types, its bound, and where each certificate is.                    *)
(***************************************************************************)
EXTENDS CertPool, TLAPS

\* While the timer generates a certificate there is room for it, because the
\* test and the enqueue are under the same lock.
RoomWhileGenerating == timerPc # "idle" => Len(generatedCertificates) <= MaxCerts

\* A certificate is in one place: the timer's, the queue, the handler's, or it
\* was used.
OnePlaceEach ==
  /\ timerCert # NULL <=> timerPc = "enqueue"
  /\ sigCert # NULL => sigPc = "popped"
  /\ timerCert \notin Pool \cup used
  /\ sigCert # NULL => sigCert # timerCert
  /\ used \in SUBSET Certs

Inv == /\ TypeOK
       /\ PoolIsBounded /\ RoomWhileGenerating
       /\ CertIsUsedOnce /\ CertsAreAccountedFor /\ OnePlaceEach

-----------------------------------------------------------------------------
\* The pool after a certificate was appended.
LEMMA PoolAfterAppend ==
  ASSUME NEW q \in Seq(Certs), NEW c \in Certs
  PROVE  /\ {Append(q, c)[i] : i \in DOMAIN Append(q, c)}
              = {q[i] : i \in DOMAIN q} \cup {c}
         /\ (\A i, j \in DOMAIN q : q[i] = q[j] => i = j) /\ c \notin {q[i] : i \in DOMAIN q}
            => \A i, j \in DOMAIN Append(q, c) : Append(q, c)[i] = Append(q, c)[j] => i = j
<1> DEFINE r == Append(q, c)
<1>1. DOMAIN q = 1..Len(q) /\ DOMAIN r = 1..(Len(q) + 1) /\ Len(q) \in Nat
  OBVIOUS
<1>2. /\ \A i \in 1..Len(q) : r[i] = q[i]
      /\ r[Len(q) + 1] = c
  OBVIOUS
<1>3. {r[i] : i \in DOMAIN r} = {q[i] : i \in DOMAIN q} \cup {c}
  BY <1>1, <1>2
<1>4. ASSUME \A i, j \in DOMAIN q : q[i] = q[j] => i = j, c \notin {q[i] : i \in DOMAIN q},
             NEW i \in DOMAIN r, NEW j \in DOMAIN r, r[i] = r[j]
      PROVE  i = j
  BY <1>1, <1>2, <1>4
<1> QED
  BY <1>3, <1>4

\* The pool after its front certificate was taken, with no certificate twice.
LEMMA PoolAfterTail ==
  ASSUME NEW q \in Seq(Certs), q # <<>>,
         \A i, j \in DOMAIN q : q[i] = q[j] => i = j
  PROVE  /\ Head(q) \in Certs /\ Tail(q) \in Seq(Certs) /\ Len(Tail(q)) = Len(q) - 1
         /\ {Tail(q)[i] : i \in DOMAIN Tail(q)} = {q[i] : i \in DOMAIN q} \ {Head(q)}
         /\ Head(q) \in {q[i] : i \in DOMAIN q}
         /\ \A i, j \in DOMAIN Tail(q) : Tail(q)[i] = Tail(q)[j] => i = j
<1> DEFINE r == Tail(q)
<1>1. /\ Len(q) \in Nat \ {0} /\ DOMAIN q = 1..Len(q) /\ Head(q) = q[1]
      /\ r \in Seq(Certs) /\ Len(r) = Len(q) - 1 /\ DOMAIN r = 1..(Len(q) - 1)
  OBVIOUS
<1>2. \A i \in 1..(Len(q) - 1) : r[i] = q[i + 1]
  OBVIOUS
<1>3. Head(q) \in Certs /\ Head(q) \in {q[i] : i \in DOMAIN q}
  BY <1>1
<1>4. {r[i] : i \in DOMAIN r} \subseteq {q[i] : i \in DOMAIN q} \ {Head(q)}
  BY <1>1, <1>2
<1>5. ASSUME NEW c \in {q[i] : i \in DOMAIN q} \ {Head(q)}
      PROVE  c \in {r[i] : i \in DOMAIN r}
  <2>1. PICK i \in DOMAIN q : q[i] = c
    OBVIOUS
  <2>2. i - 1 \in DOMAIN r /\ r[i - 1] = c
    BY <1>1, <1>2, <2>1
  <2> QED
    BY <2>2
<1>6. \A i, j \in DOMAIN r : r[i] = r[j] => i = j
  BY <1>1, <1>2
<1> QED
  BY <1>1, <1>3, <1>4, <1>5, <1>6

-----------------------------------------------------------------------------
LEMMA InitInv == Init => Inv
<1> SUFFICES ASSUME Init PROVE Inv
  OBVIOUS
<1> USE CertsAssumption, MaxCertsAssumption DEF Init
<1>1. Pool = {} /\ Len(generatedCertificates) = 0 /\ generatedCertificates \in Seq(Certs)
  BY DEF Pool
<1>2. TypeOK
  BY <1>1 DEF TypeOK
<1>3. PoolIsBounded /\ RoomWhileGenerating
  BY <1>1 DEF PoolIsBounded, RoomWhileGenerating
<1>4. CertIsUsedOnce
  BY <1>1 DEF CertIsUsedOnce
<1>5. CertsAreAccountedFor /\ OnePlaceEach
  BY <1>1 DEF CertsAreAccountedFor, OnePlaceEach
<1> QED
  BY <1>2, <1>3, <1>4, <1>5 DEF Inv

LEMMA NextInv == Inv /\ [Next]_vars => Inv'
<1> SUFFICES ASSUME Inv, [Next]_vars PROVE Inv'
  OBVIOUS
<1> USE CertsAssumption, MaxCertsAssumption
<1>0. Len(generatedCertificates) \in Nat /\ NULL \notin Pool
  BY DEF Inv, TypeOK, Pool
<1>1. CASE CheckCount
  <2>1. Pool' = Pool
    BY <1>1 DEF CheckCount, Pool
  <2> QED
    BY <1>0, <1>1, <2>1 DEF CheckCount, RoomForCert, Inv, TypeOK, PoolIsBounded,
       RoomWhileGenerating, CertIsUsedOnce, CertsAreAccountedFor, OnePlaceEach
<1>2. CASE CreateCert
  <2>1. Pool' = Pool
    BY <1>2 DEF CreateCert, Pool
  <2> QED
    BY <1>0, <1>2, <2>1 DEF CreateCert, Inv, TypeOK, PoolIsBounded,
       RoomWhileGenerating, CertIsUsedOnce, CertsAreAccountedFor, OnePlaceEach
<1>3. CASE CreateCertFails
  <2>1. Pool' = Pool
    BY <1>3 DEF CreateCertFails, Pool
  <2> QED
    BY <1>0, <1>3, <2>1 DEF CreateCertFails, Inv, TypeOK, PoolIsBounded,
       RoomWhileGenerating, CertIsUsedOnce, CertsAreAccountedFor, OnePlaceEach
<1>4. CASE EnqueueCert
  <2>1. timerCert \in Certs /\ timerCert \notin Pool
    BY <1>4 DEF EnqueueCert, Inv, TypeOK, OnePlaceEach
  <2>2. /\ generatedCertificates' \in Seq(Certs)
        /\ Len(generatedCertificates') = Len(generatedCertificates) + 1
    BY <1>4, <2>1 DEF EnqueueCert, Inv, TypeOK
  <2>3. /\ Pool' = Pool \cup {timerCert}
        /\ (\A i, j \in DOMAIN generatedCertificates :
              generatedCertificates[i] = generatedCertificates[j] => i = j)'
    BY <1>4, <2>1, PoolAfterAppend DEF EnqueueCert, Pool, Inv, TypeOK, CertIsUsedOnce
  <2>4. TypeOK' /\ PoolIsBounded' /\ RoomWhileGenerating'
    BY <1>0, <1>4, <2>2 DEF EnqueueCert, Inv, TypeOK, PoolIsBounded, RoomWhileGenerating
  <2>5. CertIsUsedOnce' /\ CertsAreAccountedFor' /\ OnePlaceEach'
    BY <1>0, <1>4, <2>1, <2>3 DEF EnqueueCert, Inv, TypeOK, CertIsUsedOnce,
       CertsAreAccountedFor, OnePlaceEach
  <2> QED
    BY <2>4, <2>5 DEF Inv
<1>5. CASE EnqueueCertFails
  <2>1. Pool' = Pool
    BY <1>5 DEF EnqueueCertFails, Pool
  <2> QED
    BY <1>0, <1>5, <2>1 DEF EnqueueCertFails, Inv, TypeOK, PoolIsBounded,
       RoomWhileGenerating, CertIsUsedOnce, CertsAreAccountedFor, OnePlaceEach
<1>6. CASE PopCert /\ generatedCertificates = <<>>
  <2>1. Pool' = Pool /\ sigCert' = NULL /\ generatedCertificates' = generatedCertificates
    BY <1>6 DEF PopCert, Dequeued, Pool
  <2> QED
    BY <1>0, <1>6, <2>1 DEF PopCert, Inv, TypeOK, PoolIsBounded,
       RoomWhileGenerating, CertIsUsedOnce, CertsAreAccountedFor, OnePlaceEach
<1>7. CASE PopCert /\ generatedCertificates # <<>>
  <2>1. sigCert' = Head(generatedCertificates) /\ generatedCertificates' = Tail(generatedCertificates)
    BY <1>7 DEF PopCert, Dequeued
  <2>2. /\ sigCert' \in Pool /\ sigCert' \in Certs
        /\ generatedCertificates' \in Seq(Certs)
        /\ Len(generatedCertificates') = Len(generatedCertificates) - 1
        /\ Pool' = Pool \ {sigCert'}
        /\ (\A i, j \in DOMAIN generatedCertificates :
              generatedCertificates[i] = generatedCertificates[j] => i = j)'
    <3>1. /\ generatedCertificates \in Seq(Certs)
          /\ \A i, j \in DOMAIN generatedCertificates :
               generatedCertificates[i] = generatedCertificates[j] => i = j
      BY DEF Inv, TypeOK, CertIsUsedOnce
    <3> DEFINE q == generatedCertificates
    <3>2. /\ Head(q) \in Certs /\ Tail(q) \in Seq(Certs) /\ Len(Tail(q)) = Len(q) - 1
          /\ {Tail(q)[i] : i \in DOMAIN Tail(q)} = {q[i] : i \in DOMAIN q} \ {Head(q)}
          /\ Head(q) \in {q[i] : i \in DOMAIN q}
          /\ \A i, j \in DOMAIN Tail(q) : Tail(q)[i] = Tail(q)[j] => i = j
      BY <1>7, <3>1, PoolAfterTail, Zenon
    <3> QED
      BY <2>1, <3>2 DEF Pool
  <2>3. TypeOK' /\ PoolIsBounded' /\ RoomWhileGenerating'
    BY <1>0, <1>7, <2>2 DEF PopCert, Inv, TypeOK, PoolIsBounded, RoomWhileGenerating
  <2>4. CertIsUsedOnce'
    BY <1>0, <1>7, <2>2 DEF PopCert, Inv, CertIsUsedOnce
  <2>5. sigCert = NULL
    BY <1>7 DEF PopCert, Inv, OnePlaceEach
  <2>6. CertsAreAccountedFor'
    <3>1. allocated = Pool \cup used \cup ({timerCert} \ {NULL})
      BY <2>5 DEF Inv, CertsAreAccountedFor
    <3>2. allocated' = allocated /\ used' = used /\ timerCert' = timerCert
      BY <1>7 DEF PopCert
    <3>3. sigCert' # NULL
      BY <2>2
    <3> QED
      BY <2>2, <3>1, <3>2, <3>3 DEF CertsAreAccountedFor
  <2>7. OnePlaceEach'
    BY <1>0, <1>7, <2>2 DEF PopCert, Inv, TypeOK, CertIsUsedOnce, OnePlaceEach
  <2> QED
    BY <2>3, <2>4, <2>6, <2>7 DEF Inv
<1>8. CASE CreatePeerConnection
  <2>1. Pool' = Pool
    BY <1>8 DEF CreatePeerConnection, Pool
  <2> QED
    BY <1>0, <1>8, <2>1 DEF CreatePeerConnection, Inv, TypeOK, PoolIsBounded,
       RoomWhileGenerating, CertIsUsedOnce, CertsAreAccountedFor, OnePlaceEach
<1>9. CASE Destroy
  <2>1. Pool' = {} /\ generatedCertificates' \in Seq(Certs) /\ Len(generatedCertificates') = 0
    BY <1>9 DEF Destroy, Pool
  <2> QED
    BY <1>0, <1>9, <2>1 DEF Destroy, Inv, TypeOK, PoolIsBounded,
       RoomWhileGenerating, CertIsUsedOnce, CertsAreAccountedFor, OnePlaceEach
<1>10. CASE UNCHANGED vars
  <2>1. Pool' = Pool
    BY <1>10 DEF vars, Pool
  <2> QED
    BY <1>10, <2>1 DEF vars, Inv, TypeOK, PoolIsBounded,
       RoomWhileGenerating, CertIsUsedOnce, CertsAreAccountedFor, OnePlaceEach
<1> QED
  BY <1>1, <1>2, <1>3, <1>4, <1>5, <1>6, <1>7, <1>8, <1>9, <1>10 DEF Next

LEMMA SpecInv == Spec => []Inv
  BY InitInv, NextInv, PTL DEF Spec

-----------------------------------------------------------------------------
\* The variables keep their types, and the lock has the owner its users assume.
THEOREM TypeCorrect == Spec => []TypeOK
<1>1. Inv => TypeOK
  BY DEF Inv
<1> QED
  BY <1>1, SpecInv, PTL

\* However the timer and the handlers interleave, the queue never holds more
\* than one certificate above MAX_RTCCONFIGURATION_CERTIFICATES.
THEOREM PoolBounded == Spec => []PoolIsBounded
<1>1. Inv => PoolIsBounded
  BY DEF Inv
<1> QED
  BY <1>1, SpecInv, PTL

\* No certificate is given to two connections.
THEOREM CertUsedOnce == Spec => []CertIsUsedOnce
<1>1. Inv => CertIsUsedOnce
  BY DEF Inv
<1> QED
  BY <1>1, SpecInv, PTL

\* No certificate is lost on the way from the timer to a connection.
THEOREM CertsAccounted == Spec => []CertsAreAccountedFor
<1>1. Inv => CertsAreAccountedFor
  BY DEF Inv
<1> QED
  BY <1>1, SpecInv, PTL
=============================================================================

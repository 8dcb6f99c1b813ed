------------------------------ MODULE CertPool ------------------------------
(***************************************************************************)
(* The pre-generated certificates of AppCredential.c.  A periodic timer    *)
(* generates one certificate at a time into a queue                        *)
(* (app_credential_generateCertRoutine), each new peer connection pops one *)
(* (popGeneratedCert), and app_credential_destroy frees what is left.      *)
(*                                                                         *)
(* Both users hold appConfigurationObjLock (configLock) around their call, *)
(* so generateCertLock is never contended and is not modelled.  The timer  *)
(* gives up after 50 ms without configLock; it then does nothing until its *)
(* next period, which is the same as not firing.                           *)
(***************************************************************************)
EXTENDS Naturals, Sequences, FiniteSets

CONSTANTS Certs,     \* heap blocks a certificate may occupy
          MaxCerts,  \* MAX_RTCCONFIGURATION_CERTIFICATES
          NULL

ASSUME MaxCertsAssumption == MaxCerts \in Nat
ASSUME CertsAssumption == NULL \notin Certs \cup {"timer", "sig"}

VARIABLES configLock,
          generatedCertificates,  \* the queue of certificates
          allocated,              \* the blocks that hold a certificate
          timerPc, timerCert,     \* the timer thread in generateCertRoutine
          sigPc, sigCert,         \* the signaling thread in initializePeerConnection
          used,                   \* certificates whose content a connection was given
          destroyed               \* app_credential_destroy was called

vars == <<configLock, generatedCertificates, allocated, timerPc, timerCert, sigPc,
          sigCert, used, destroyed>>

Pool == {generatedCertificates[i] : i \in DOMAIN generatedCertificates}

\* The types, and who holds the lock where.
TypeOK ==
  /\ configLock \in {"timer", "sig", NULL}
  /\ generatedCertificates \in Seq(Certs)
  /\ allocated \in SUBSET Certs
  /\ timerPc \in {"idle", "create", "enqueue"}
  /\ timerCert \in Certs \cup {NULL}
  /\ sigPc \in {"idle", "popped"}
  /\ sigCert \in Certs \cup {NULL}
  /\ used \in SUBSET Certs
  /\ destroyed \in BOOLEAN
  /\ configLock = "timer" <=> timerPc # "idle"
  /\ configLock = "sig" <=> sigPc # "idle"

Init ==
  /\ configLock = NULL
  /\ generatedCertificates = <<>>
  /\ allocated = {}
  /\ timerPc = "idle" /\ timerCert = NULL
  /\ sigPc = "idle" /\ sigCert = NULL
  /\ used = {}
  /\ destroyed = FALSE

-----------------------------------------------------------------------------
(* The timer: app_common_pregenerateCertTimerCallback.                       *)

\* The test that leaves the routine when the queue is full.
RoomForCert == Len(generatedCertificates) <= MaxCerts

CheckCount ==
  /\ ~destroyed
  /\ timerPc = "idle" /\ configLock = NULL
  /\ RoomForCert
  /\ configLock' = "timer" /\ timerPc' = "create"
  /\ UNCHANGED <<generatedCertificates, allocated, timerCert, sigPc, sigCert, used,
                 destroyed>>

\* rtc_certificate_create
CreateCert ==
  /\ timerPc = "create"
  /\ \E c \in Certs \ allocated : allocated' = allocated \cup {c} /\ timerCert' = c
  /\ timerPc' = "enqueue"
  /\ UNCHANGED <<configLock, generatedCertificates, sigPc, sigCert, used, destroyed>>

CreateCertFails ==
  /\ timerPc = "create"
  /\ configLock' = NULL /\ timerPc' = "idle"
  /\ UNCHANGED <<generatedCertificates, allocated, timerCert, sigPc, sigCert, used,
                 destroyed>>

EnqueueCert ==
  /\ timerPc = "enqueue"
  /\ generatedCertificates' = Append(generatedCertificates, timerCert)
  /\ configLock' = NULL /\ timerPc' = "idle" /\ timerCert' = NULL
  /\ UNCHANGED <<allocated, sigPc, sigCert, used, destroyed>>

EnqueueCertFails ==
  /\ timerPc = "enqueue"
  /\ allocated' = allocated \ {timerCert}
  /\ configLock' = NULL /\ timerPc' = "idle" /\ timerCert' = NULL
  /\ UNCHANGED <<generatedCertificates, sigPc, sigCert, used, destroyed>>

-----------------------------------------------------------------------------
(* A new peer connection: app_common_initializePeerConnection.               *)

\* stack_queue_dequeue, and its mistaken form that only looks at the front.
Dequeued_peeks == generatedCertificates
Dequeued == IF generatedCertificates = <<>> THEN <<>> ELSE Tail(generatedCertificates)

\* popGeneratedCert; an empty queue gives NULL.
PopCert ==
  /\ ~destroyed
  /\ sigPc = "idle" /\ configLock = NULL
  /\ sigCert' = IF generatedCertificates = <<>> THEN NULL ELSE Head(generatedCertificates)
  /\ generatedCertificates' = Dequeued
  /\ configLock' = "sig" /\ sigPc' = "popped"
  /\ UNCHANGED <<allocated, timerPc, timerCert, used, destroyed>>

\* The return without the unlock.
CreatePeerConnection_keepsLock ==
  /\ sigPc = "popped"
  /\ used' = used \cup ({sigCert} \ {NULL})
  /\ sigPc' = "idle" /\ sigCert' = NULL
  /\ UNCHANGED <<configLock, generatedCertificates, allocated, timerPc, timerCert,
                 destroyed>>

\* The certificate is copied into the connection's configuration and the
\* pointer is cleared, so the rtc_certificate_free at the end is given NULL.
CreatePeerConnection ==
  /\ sigPc = "popped"
  /\ used' = used \cup ({sigCert} \ {NULL})
  /\ configLock' = NULL /\ sigPc' = "idle" /\ sigCert' = NULL
  /\ UNCHANGED <<generatedCertificates, allocated, timerPc, timerCert, destroyed>>

-----------------------------------------------------------------------------
\* app_credential_destroy, from freeApp after the signaling client and the
\* timer queue were freed, so that neither user is inside.
Destroy ==
  /\ ~destroyed
  /\ timerPc = "idle" /\ sigPc = "idle"
  /\ allocated' = allocated \ Pool
  /\ generatedCertificates' = <<>>
  /\ destroyed' = TRUE
  /\ UNCHANGED <<configLock, timerPc, timerCert, sigPc, sigCert, used>>

Next ==
  \/ CheckCount \/ CreateCert \/ CreateCertFails \/ EnqueueCert \/ EnqueueCertFails
  \/ PopCert \/ CreatePeerConnection \/ Destroy

Spec == Init /\ [][Next]_vars

-----------------------------------------------------------------------------
(* Properties                                                              *)

\* The queue holds at most one certificate more than the maximum that
\* AppCredential.h:32 states: the routine tests the count before it adds one.
PoolIsBounded == Len(generatedCertificates) <= MaxCerts + 1

\* AppCredential.c:142 "get rid of it to not reuse again": a certificate that a
\* connection was given, or is about to be, is not in the queue, and the queue
\* holds none twice; so no two connections share a certificate.
CertIsUsedOnce ==
  /\ (used \cup {sigCert}) \cap Pool = {}
  /\ sigCert \notin used
  /\ \A i, j \in DOMAIN generatedCertificates :
       generatedCertificates[i] = generatedCertificates[j] => i = j

\* Every allocated certificate is in the queue, in the hands of one of the two
\* threads, or was used: a failed step loses none, and destroy leaves only used
\* ones.  (A used one stays allocated for good: AppCommon.c:595 clears the
\* pointer that 607 means to free.)
CertsAreAccountedFor ==
  allocated = Pool \cup used \cup ({timerCert, sigCert} \ {NULL})

\* The pool as the timer and the connections share it: bounded, no certificate
\* used twice and none lost.
CertificatesAreSound == PoolIsBounded /\ CertIsUsedOnce /\ CertsAreAccountedFor
=============================================================================

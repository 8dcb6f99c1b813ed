# Verification of the KVS WebRTC sample for FreeRTOS

This directory models the concurrent core of the application in `src/main/` in
TLA+, checks the models with TLC on small instances and proves the main safety
properties with TLAPS for every value of the constants.

## 1. The system

The application is a WebRTC *master*: a Kinesis Video signaling channel brings
offers of viewers, each offer becomes a streaming session with a peer
connection, and one media source feeds all sessions.

| Part (source) | State | Operations | Meets |
|---|---|---|---|
| Pending queues (`AppMessageQueue.c`) | `ConnectionMsgQ`, a list of `PendingMessageQueue` with hash value, creation time, messages | create, push, find (and unlink) by hash, hand to a session, expire, free | signaling thread, main thread |
| Streaming sessions (`AppCommon.c`) | `streamingSessionList[]`, `streamingSessionCount`, `pRemoteRtcPeerConnections`, `terminateFlag` of each session | create, list, route, mark as terminated, unlink, free, walk for each frame | all threads |
| Media control thread (`AppCommon.c`, `AppMediaSrc_ESP32_FileSrc.c`) | `mediaThreadStarted`, `mediaControlTid`, `abortMediaControl`, `terminateApp`, `peerConnectionConnected`, `shutdownFileSrc` | start, wait for a peer, run the source, stop, join | offers, callbacks, `pollApp`, `freeApp` |
| Certificate pool (`AppCredential.c`) | `generatedCertificates` | generate (timer), pop (new connection), destroy | timer thread, signaling thread |
| Signaling client (`AppSignaling.c`) | `signalingClientHandle`, `restartSignalingClient`, `signalingSendMessageLock` | create, fetch, connect, check, restart, send, free | main thread, signaling thread, ICE agents |
| Negotiation (`AppCommon.c`) | `remoteCanTrickleIce`, `candidateGatheringDone` of each session | handle offer, answer, trickle candidates | signaling thread, ICE agent |
| Life cycle (`AppCommon.c`, `AppMain.c`) | `AppConfiguration`, `gAppConfiguration` | `initApp`, `runApp`, `pollApp`, `freeApp`, `quitApp` | everything |
| File source, media sink (`AppMediaSrc_ESP32_FileSrc.c`, `AppCommon.c`) | frame buffer and its size, file index, time stamp, `firstKeyFrame` | run, stop, read a frame, write it to the sessions | sessions |
| Board start-up (`kvswebrtc_example_main.c`) | Wi-Fi event group, `s_retry_num`, registered handlers | start the station, retry, wait, mount, wait for the time | event loop, life cycle |
| Data channel, metrics, WebRTC set-up | none shared | callbacks, logs, set-up | library |

Threads: the **main** thread (`initApp`, `runApp`, `pollApp`, `freeApp`), the
**signaling** thread (`app_common_onSignalingMessageReceived`), the **media
control** thread with its sender, one **ICE agent** per connection (connection
state and candidate callbacks), and the **timer** thread (certificates).
`appConfigurationObjLock` (`configLock` in the models) covers whole message
handlers and whole rounds of `pollApp`; `streamingSessionListReadLock`
(`readLock`) covers the array against the media thread;
`signalingSendMessageLock` covers a send. The callbacks of the library take no
lock and write atomic flags.

What is hard: the media thread, the join in `pollApp` and a new offer interleave
while `configLock` is released; sessions are unlinked under one lock and freed
under none; an offer can fail half-way after its session became visible;
candidates overtake offers; the signaling client is replaced under threads that
use it; certificates go from a timer to a connection; an initialisation that fails
anywhere is undone by the function that ends a running application, while timer,
handlers and `quitApp` may still be at work. `PROJECT.json` lists these hazards
line by line.

What makes each part correct:

- *pending queues*: nothing leaks, no pointer dangles, a session gets its own
  client's messages;
- *sessions*: array, table and heap agree in every interleaving; a terminated
  session is freed; media is stopped only when nobody watches;
- *media control*: one control thread at most and one user of the source, the flag
  tells the truth, joins and frees meet the thread they expect, a stop stops;
- *certificates*: bounded, used once, none lost;
- *signaling client*: no orphan, no call on a dead client but where no lock prevents
  it, failed clients are replaced and sound ones are not;
- *negotiation*: one answer per accepted offer, complete; no candidate lost;
- *ICE servers*: those of the client in use, without a gap, within the array;
- *life cycle*: nothing left, nothing used after its release, `quitApp` ends the
  application and says so truthfully;
- *file source*: a frame fits its buffer, no buffer is lost, time goes forward, a
  stop stops;
- *board start-up*: no failure is reported early, no event meets a deleted group,
  the wait ends.

## 2. Modules

| Module | Models | Notes |
|---|---|---|
| `PendingMsgQ` | `AppMessageQueue.c` as its callers use it | each call runs to its end under `configLock`, so it is one action |
| `SharedBox` | *abstract*: one box of candidates that all clients share | what the pending queues amount to; implemented by `PendingMsgQ` and, with the sessions around it, by `StreamingSessions` |
| `StreamingSessions` (extends `PendingMsgQ`) | sessions, routing, the scan of `pollApp`, the media sink's walk | four kinds of threads, two locks |
| `SessionRegistry` | *abstract*: a bounded set of accepted sessions and a map from client hashes to them | implemented by `StreamingSessions` |
| `SessionRounds` | *abstract*: the contract between sessions and media thread: what a round of `pollApp` removes, and when it may join | implemented by `StreamingSessions` and by `MediaControl` |
| `MediaControl` | the media control thread, with `pollApp` and `freeApp` | keeps the sessions in a set |
| `CertPool` | the pool of certificates | |
| `SignalingClient` | `runApp`, restart and check in `pollApp`, `app_signaling_sendMsg`, `app_signaling_free` | |
| `IceServers` (extends `SignalingClient`) | `app_signaling_queryServer` within the creation of a connection | refines the handler's way to its answer |
| `Negotiation` | `app_common_handleOffer`, `app_common_respondWithAnswer`, `app_common_onIceCandidate` | |
| `OfferExchange` | *abstract*: one answer in its time and each candidate by one way, without threads | implemented by `Negotiation` |
| `FileSource` | the file source's video sender and the frames in the media sink | sizes, buffers, key frames and time stamps are the data; the walk's locks are in `StreamingSessions` |
| `BoardStart` | `app_main` up to `WebRTCAppMain`, `event_handler`, `wifi_init_sta` | |
| `AppLifecycle` (extends `CertPool`, `BoardStart`) | `WebRTCAppMain`, `initApp`, `freeApp`, `quitApp`, the timer and the handlers as users of the parts | `InitOrder` and `FreeOrder` are the code's sequences of makes and releases |
| `MC_*` | instances for TLC | |
| `*_proofs` | theorems | |

Variables carry the names of the source's fields; a `...Pc` variable says where
a thread is in its function, and steps are cut where a lock is taken or released
or shared state is read or written. Correspondences that are not by name:

- `live` (sessions) and `allocated` (queues, certificates), `clients`: the heap
  blocks in use. A freed block may be handed out again.
- `Key(s)` is `COMPUTE_CRC32` of the session's `peerId`; two clients may share it.
- `joinTid` is the argument of a `THREAD_JOIN` that has not returned.
- `owned` (life cycle) are the parts that exist, `lost` those a library refused to
  free or nobody can name any more; `AppConfiguration`'s fields are known by name.
- `lastTs` and `presentationTs` count frames; `buffer` is the real and
  `frameBufferSize` the recorded size of the block.
- `senders` (media control) are the control threads whose sender is at work, `orphans`
  those whose join of the sender has returned all the same. `forgotten` are the sessions
  that `pollApp` took off the list and did not free: they only keep their callbacks.
- `link = "silent"` (board) is a station whose `esp_wifi_connect` failed.
- `negotiated`, `failedOffers`, `abandoned`, `delivered`, `lateStart`, `overtaking`,
  `overtaken`, `orphans`, `createFailed`, `used`, `reported`, `answered`, `accepted`, `lost` (in
  `Negotiation`), `lostBuffers`, `keySent`, `earlier`, `failures`, `quitWaited` are
  history variables: no guard of the modelled code depends on them, except that a
  *callback of the library* is limited to a connection that was `answered`, and
  that a session is negotiated once.
- Operators with a suffix, such as `SwapWithLast_kept`, are wrong variants of the
  operator before the underscore. They stand next to it, the specifications do
  not use them, and each breaks a property: they show that the property can fail.

**Undefined behaviour.** `PendingMsgQ` can read or free a freed queue. From there
on any outcome is possible; the model sets `fault` and every action that touches
this state is disabled, so an invariant says what holds up to that moment. That
it can happen at all is shown by `DanglesOnlyByForeignOffer` being the exact
condition, and by `PendingMsgQ_OwnDelivery`. In the same way `AppLifecycle` notes
who used a released part in `faults` and stops; `FaultsAreKnown` says exactly which
uses there are and when.

**External code.** The libraries (the KVS WebRTC SDK with its signaling client, FreeRTOS)
are not under `src/`. What the models assume of them: calls may fail; connection
and candidate callbacks may come at any time while their object exists; one ICE
agent does not run two callbacks at once; gathering ends with a call without
candidate; `hash_table_contains` and `hash_table_remove` may fail; the Wi-Fi station may
answer an attempt to connect or stay silent; `signaling_client_free` does not wait for handlers and may fail; `timer_queue_free`
waits for a callback; the event loop delivers one event at a time; a mutex that is
free again and again is granted; `CVAR_WAIT` is timed.

`THREAD_JOIN` is taken to wait for its thread, except the one that the source code itself
doubts: `AppMediaSrc_ESP32_FileSrc.c:350` says of the sender's join "#TBD, the
thread_join does not work." The repository does not tell how it fails. `MediaControl`
has the join both ways, as one that waits and as one that returns while the sender
is at work (`SenderJoinFails`).

## 3. Runs

| Run | Question | Instance |
|---|---|---|
| `PendingMsgQ_TwoClients` | Never a second queue; no leak but for refused offers; a freed queue stays linked only by an offer of a client without a queue; the queues are one `SharedBox` | 2 clients with different hashes, 2 blocks, 2 messages per queue |
| `PendingMsgQ_OwnDelivery` (violation) | Is a session given only its own client's candidates? | the same, 3 messages |
| `Sessions_TwoClients` | Array, table, heap and locks in every interleaving | 2 clients, 2 sessions, 1 queue block; 8.2 million states |
| `Sessions_OneClient` | Liveness, absence of deadlock, stranded candidates, refinement of `SessionRegistry`, the contract `SessionRounds` | 1 client that returns, 3 session blocks for 2 slots |
| `Media_Threads` | Media threads and their senders against offers, `pollApp`, `freeApp`, failing sources, failing thread creation and a sender's join that does not wait; a join returns unless a stop was overtaken; the contract `SessionRounds` | 2 sessions, 2 thread names; 551 thousand states |
| `Media_StuckJoin` (violation) | Are terminated sessions always cleaned up? | 2 sessions, 2 thread names |
| `Media_NoThread` (violation) | Does an accepted session have a media thread? | 2 sessions, 3 thread names |
| `Lifecycle` | Every way through `initApp` and `freeApp`, with timer, handlers and `quitApp`; the pool of certificates; the wait for Wi-Fi | 4 certificates for a limit of 1, 2 retries, 3 rounds of the wait for the time; 1.18 million states |
| `Signaling_Restart` | Orphans, messages on a freed client, ICE servers, restarts, liveness of the restart | 2 clients, 2 ICE agents, up to 2 URIs in 3 slots |
| `Negotiation_Answers` | One complete answer per accepted offer, all candidates, refinement of `OfferExchange` | 2 sessions, 2 candidates |
| `FileSource_Frames` | Buffers, time stamps and the stop over several runs, with failing reads and allocations | 3 files, of which one does not fit, 4 frames, 2 runs, 2 sessions |
| `FileSource_KeyFrame` (violation) | Does `firstKeyFrame` tell that a key frame was sent? | the same |

*Why the bounds are enough.* A search or an expiry of queues differs by "own
queue", "another's queue" and "none": two clients give all three. The swap of the
array needs a removed entry that is not the last one, hence two slots, and a
third block in `Sessions_OneClient` lets a new session meet two old ones. A media
thread can be at its end while its successor starts, and a tid can name the one
or the other: two names (a third only lets a third thread start before the first
join returns; the theorems cover any number). One client of the signaling service
and its successor are all that exist at a time. A message queue of the code has no
length limit: `MaxPending` bounds it in the guard of `PushMsg`; nothing tests a
length. Files need a size below, above and between buffer sizes, and a run must wrap round
them: three files and four frames; a second run starts with what the first left
(`MaxFrames`, `MaxRuns` in the guards of `SenderLoop` and `Run`). A pool with a limit
of 1 holds two certificates while a third is used and a fourth generated. One
thread calls `quitApp`, once, at any time; one message at a time is under way.
`MaxRetry = 2` separates the first, a middle and the last attempt. Two URIs in three
slots fill the array exactly. The heap blocks (`Sessions`, `QueueBlocks`, `Certs`,
`Clients`) bound what
is allocated at once; leaked blocks use them up, and an allocation without a free
block is not taken, as one that fails.

*Types.* The type invariants of all modules are theorems (section 5); with them the
bounds of the array's indices. No run repeats them. Some other invariants are theorems too
that no run repeats, since a property of the run is stronger: `AtMostOneQueue` (`BoxSpec`:
there is one box), `RouteIsListed` (`RegistrySpec`: only accepted sessions have a route),
`AnsweredAtMostOnce` (`ExchangeSpec`), `MediaStopsOnlyWhenIdle` (`RoundsSpec`: only a
round that removed the last session joins), and `NoDanglingPointer` and
`OneSessionPerPeerUnlessOfferFailed`, which with one hash value and with negotiated
sessions follow from `DanglesOnlyByForeignOffer` and `RoutedUnlessOfferFailed`. Three are
theorems only: `ScanAdvances`, the variant of the scan, `AtMostOneMediaThread`, which says
of the control threads what `SourceHasOneUser` says of the senders, and
`GroupOutlivesHandlers` (no event of the station meets the deleted event group).
`CertificatesAreSound` and `IceServersAreSound` are the conjunctions of the named parts
before them.

*Deadlock* is checked in `Sessions_OneClient`, where the main loop never stops by
itself other than by `PollExit`. The other configurations switch it off: there
the system stops after `freeApp`, at a `fault`, without an SD card, when bounded
blocks, frames or runs are used up, or after every session was negotiated.

*Symmetry*: session blocks in `Sessions_TwoClients`, which checks invariants only.

### What the violations show

1. **`PendingMsgQ_OwnDelivery`**: `app_msg_q_getPendingMsgQByHashVal` stores the
   queue it visited last into its result also when nothing matched
   (`AppMessageQueue.c:184`). An offer of a client without a queue is handed
   another's candidates. The queue is freed and stays linked, because only a match
   is unlinked; this is the exact condition in `DanglesOnlyByForeignOffer`. For
   the same reason a second queue is never created: what was meant as one mailbox per
   client is one box for all (`SharedBox`, `BoxSpec`).
2. **`Media_StuckJoin`**: a thread that has just been created clears
   `abortMediaControl` (and a source that starts clears `shutdownFileSrc`) after
   `pollApp` has set it. `THREAD_JOIN` at `AppCommon.c:1068` then waits for a
   thread that waits, and no session is cleaned up any more. This is the only
   way: `JoinHangsOnlyWhenOvertaken` says that a join waits for a thread that nobody
   told to stop only if a thread wiped out a stop given before.
3. **`Media_NoThread`**: an offer that meets a media thread on its way out takes it
   for a running one.
4. **`FileSource_KeyFrame`**: the media sink sets `firstKeyFrame` before it writes the
   frame and whether or not the write succeeds (SRTP may not be ready yet), and the
   file source flags every frame as a key frame: the flag says less than its comment
   (`AppCommon.h:97`).

Seen while modelling, and stated in the comments of the properties that hold
instead:

- the pool holds one certificate more than `MAX_RTCCONFIGURATION_CERTIFICATES`
  (`PoolIsBounded`); a used certificate is never freed (`AppCommon.c:595` before `607`,
  `CertsAreAccountedFor`);
- a refused offer loses its queue (`AppCommon.c:443`, `AllocatedIsRegistered`);
- a session is listed before its offer is handled, and an offer that fails leaves it
  listed without a route. The client's next offer gets a second session, and cleaning
  up the first removes the route of the second (`AppCommon.c:1037` removes by client).
  `OneSessionPerPeerUnlessOfferFailed` and `RoutedUnlessOfferFailed` say that it takes
  such an offer;
- `pollApp` takes a session off the list at `AppCommon.c:1027` and frees it at 1044. In
  between, a failing call of the hash table (1035, 1037) makes it return: the session is
  neither listed nor freed, `freeApp` does not find it either, and its peer connection
  calls back into an application that is gone. `NoSessionLeak` and `NothingLeft` have this
  one exception; since `pollApp` has returned it happens at most once (`Forgotten`);
- if the sender's join returns at once, the control thread resets `mediaThreadStarted`
  with its sender at work, and the next offer starts a second sender on the same buffer
  and context. `SourceHasOneUser` says that this is the only way to two of them, and
  `FreedUnderMediaOnlyByLateStart` has the same exception;
- a failed `THREAD_CREATE_EX` disables the media for good (`StartedTellsThread`);
  `peerConnectionConnected` is one flag for all sessions (`AppCommon.c:119`);
- `app_signaling_restart` does not take `signalingSendMessageLock`: whoever has tested
  the handle may send through an invalid one or a freed client. `MessageUsesLiveClient` says
  whom this can hit and when. The handler of an offer holds `configLock`, so its answer is
  safe until `freeApp`. An ICE agent holds no lock: its candidates are not safe,
  and neither is the answer to a peer that cannot trickle, which it sends from
  `app_common_onIceCandidate` (`AppCommon.c:287`);
- `iceUriCount` becomes the number of servers plus one (`AppCommon.c:589`; the field's
  comment says "the number of ice server including stun and turn"); its only reader is
  compiled out. The array itself is filled densely (`IceServersAreDense`);
- `freeApp` frees `appConfigurationObjLock` before it cancels the timer, and does not
  reset `gAppConfiguration`; `CVAR_CREATE` is not tested (`FaultsAreKnown` names each
  user that may meet a released part, and when);
- a media source whose lock cannot be created leaks its block
  (`AppMediaSrc_ESP32_FileSrc.c:260`, `NothingLeft`); `pc_deinitWebRtc` is called also
  when `pc_initWebRtc` never was;
- a frame buffer that cannot grow is lost (`BuffersAreAccountedFor`); one that could not
  be allocated at all is not noticed (`FrameFitsBuffer`); the time stamps start again at
  each run, which a session sees as one step back per run (`TimeStampsIncrease`);
- the result of `esp_wifi_connect` is not read (`kvswebrtc_example_main.c:61`, `64`) and an
  association may stay without a lease: without an event the wait at 130, whose timeout is
  `portMAX_DELAY`, does not end (the exception in `WifiWaitEnds`);
- both Wi-Fi bits can be set, and an IP that was lost again still counts as connected
  (`FailBitMeansExhausted`).

## 4. Fairness

Fairness is assumed of threads, never of the environment: no offer, callback,
error, failure or exit has to happen.

- Weak fairness of a thread's next step: FreeRTOS schedules a ready thread, and the
  functions between two locks are finite.
- Strong fairness where a mutex is taken: its waiters are queued.
- Weak fairness of the end of the sender once `shutdownFileSrc` is set: its loop tests
  it after every frame. In `MediaControl` the join of a thread that has ended returns;
  the join of a sender that has not ended need not.
- In `AppLifecycle` the main thread is assumed to run except at a join
  (`LifeFairness`), since whether a join returns is the matter of `MediaControl`;
  strong fairness, since it waits for `configLock`. Callbacks and handlers that hold the
  lock go on. An event of the Wi-Fi station that is there is delivered; that there is one is
  not assumed, and `WifiWaitEnds` exempts an attempt without an answer. No message, timer or call of `quitApp` has to come, and the 5 s of
  `quitApp` may end at any time.
- In `FileSource` the sender runs and its calls return.
- Weak fairness of the library's calls and of the end of a gathering (which the
  library bounds in time); their results are free.

The return of the media thread's `THREAD_JOIN` is not assumed in `StreamingSessions`
(`TerminatedIsFreed` excludes that wait), in `AppLifecycle` (`QuitEndsApp`) and in
`SignalingClient`, where a round of `pollApp` passes through it (`FailedClientIsRestarted`
exempts a `mainPc` that stays at "join"). `MediaControl` shows when it may hang.

## 5. Proofs

All theorems hold for any number of clients, sessions, threads, blocks and limits
under the named assumptions, which only separate `NULL` from the other names and
give the limits their types. Each module proves `Init => Inv`,
`Inv /\ [Next]_vars => Inv'` and `Inv => property`.

- `PendingMsgQ_proofs`: the invariant adds what the search answers and that the
  list has at most one element (the reason why so much else holds). It gives
  `AtMostOneQueue`, `AllocatedIsRegistered`, the action property
  `DanglesOnlyByForeignOffer`, and `NoDanglingPointer` when all clients have one
  hash value. With it the list reads as a box: absent, open under the hash of its
  only queue, or freed (`BoxState`, `BoxLabel`, `BoxContent`). `SearchMeetsTheBox` says
  that a search of any hash ends in that box, from which each action is a step of
  `SharedBox` or none (`ImplementsTheBox`).
- `StreamingSessions_proofs`: the invariant relates the array's used part, the
  heap, what the handler and `pollApp` have in their hands, the table, the holders
  of both locks and the indices, and names the session that was forgotten, if there is one. It gives the invariants of
  `Sessions_TwoClients`, `RouteIsListed`, `MediaStopsOnlyWhenIdle` and
  `OneSessionPerPeerUnlessOfferFailed`, `NoStrandedCandidate` (candidates wait in one queue only, and
  each accepted offer empties it, so nobody waits whose session is negotiated and
  routed), that every step is a step of the queues' specification or
  leaves them alone, and therefore of `SharedBox` (`SessionsShareTheBox`), and that
  `StreamingSessions` implements `SessionRegistry`
  (the mapping takes the used part of the array to the accepted set) and keeps the
  contract `SessionRounds` (`SessionsKeepTheContract`). There `due` is what lies ahead of
  the scan's index and is terminated. The lemma about the swap says that the entry
  moved into a hole is still ahead, because the index stays where it is after a removal:
  the scan skips nobody, and a session lost behind the index waits for the next round.
  `ScanEnds` is the scan's variant: each step lowers the number of entries ahead, and
  no session is added meanwhile.
- `MediaControl_proofs`: the flag is set whenever a thread is at work or about to be
  created, and no thread is at work while one is created (`FlagGuardsCreation`); the
  tid names a thread that was not joined; without a late start it names the only
  active one. `FlagTellsThread` adds that a failed creation is final.
  `OneSender` adds that a sender
  that was not given up belongs to a control thread in its join, so there is one as there is
  one control thread (`SendersAreAwaited`).
  For `OnlyOvertakenJoinsHang` the invariant says that from the moment `pollApp` has
  given its two stops until the join returns they stand, unless a thread has cleared
  one (`overtaking`), and that only a thread at its start clears any.
  `ThreadKeepsTheContract` is the other half of `SessionRounds`: `pollApp` and `freeApp`
  as this module has them remove, join and leave as the contract says.
- `CertPool_proofs`: a certificate is in exactly one place, and there is room while
  one is generated; two lemmas say what append and tail do to a queue without
  duplicates.
- `SignalingClient_proofs`: a set flag that the main thread will act on was raised
  by the client in use (`FlagIsCharged`), and a sender is told apart whose tested handle
  is still valid from one that a release of the client has overtaken; the signaling thread
  is overtaken by `freeApp` only, since it holds `configLock` (`SendersKeepHandle`). The
  query of ICE servers only adds variables (`QueriesKeepTheClient`), and its invariant
  says that while the handler is in the query, the client it reads is the one in use
  and the slots from 0 to `uriCount` are filled.
- `Negotiation_proofs`: what the peer can do is stored before the gathering starts
  (`TrickleIsKnown`), so that exactly one thread may answer (`AnswerIsPending`), and
  each candidate for a peer that can trickle was sent or is about to be. With that the
  two threads implement `OfferExchange` (`ImplementsTheExchange`), where an answer is one
  step with a guard; the mapping hides where the threads are and the field they share.

- `AppLifecycle_proofs`: the life cycle implements the specification of the pool
  (`CertificatesAsInCertPool`) and that of the board (`BoardAsInBoardStart`), so that
  what holds of these carries over. The invariant
  says for each step of `initApp` and of `freeApp` which parts may exist (what is past
  in `FreeOrder` does not, what is ahead in `InitOrder` does not yet), that a callback
  runs only with a timer and a handler only with a client or before the sessions are
  released, and what `quitApp` has seen; a session that `pollApp` forgot is `lost` from then on. It gives `NothingLeft`, `UsersHaveTheirParts`,
  `FaultsAreKnown`, `QuitTellsTruth` and `DestroyIsUndisturbed`; the board's own
  invariant counts `failures` along with `s_retry_num`.
- `FileSource_proofs`: the recorded size is the real one while there is a buffer, and
  the last time stamp written to a session is not ahead of the run unless it is of an
  earlier one.

Only model-checked: liveness (`TerminatedIsFreed`, `JoinReturns`,
`FailedClientIsRestarted`, `AcceptedOfferIsAnswered`, `QuitEndsApp`, `WifiWaitEnds`,
`StopIsObeyed`), since TLAPS does not reason about `ENABLED` and fairness here. No
module declares a recursive operator, and nothing is proved by induction over data.

## 6. Not modelled

- Wording of messages, JSON, SDP, RTP, time stamps and all logging.
- An offer of a client that is already routed, and a candidate of such a client:
  they go to the library and change nothing here.
- `createStreamingSession` failing before `pAppConfiguration` is set (630-631):
  `freeStreamingSession` would return early and leak the block, but the media
  source latches its codec before the first offer, so those lines do not fail.
- The metrics timer, the statistics and `app_common_gatherIceServerStats`, which are
  compiled out; the data channel, two stateless callbacks in an optional build; the
  audio sender, whose creation is commented out; codec queries and the reading of the
  certificate directory and of environment variables, which change nothing.
- Frame numbers (`frameIndex`), which nobody reads here.
- Signals of `cvar`: the waits are timed and test their conditions again, so a signal only
  shortens a wait.
- In `AppLifecycle`, ICE agents that send, `app_signaling_shutdown` of `quitApp` on a client
  that is being freed, and the callbacks of a forgotten session are no users of a part.
  `MessageUsesLiveClient` has the first; the others are plain from the code.
- That a failed answer without trickle is only logged (`AppCommon.c:287`): `Negotiation` has
  the failure (`lost`), and `AcceptedOfferIsAnswered` exempts it.
- `StreamingSessions` with `MediaControl` as one system: the two share `configLock`, the
  list and the join, and their product is out of reach of TLC with two slots and two
  threads. Each models the other's part as free choices instead: a join that may or may
  not return; sessions that come and go. `SessionRounds` states what they may expect of
  each other, and both are proved to keep it. The contract leaves open whether a round
  meets a session that is lost while the round is under way. In `StreamingSessions`
  this depends on the index. `MediaControl` has no index: there a round ends only when
  it has removed every lost session, also those lost meanwhile. A round that passed by
  such a session is, for the media thread, a round that ended before the loss.
- What the libraries do in cases that the code leaves to them, also where the outcome
  matters: whether the connection of a left-over session ever reports a failure, so that
  its slot is given back (`AppCommon.c:451`); whether `signaling_client_free` waits for a
  handler that waits for `configLock` (`AppSignaling.c:184`; assumed not to); whether a
  client re-created without a fetch becomes ready (`AppSignaling.c:185`); what remains of
  a media thread that nobody joins because its successor's tid took its place
  (`AppCommon.c:252`); what certificates are worth when SNTP did not answer in time
  (`kvswebrtc_example_main.c:256`); whether an empty text message reaches the echo, which
  would write the byte before it (`AppDataChannel.c:39`).
- Plain from the code, and no property: a `quitApp` before `gAppConfiguration` is set is
  lost (`AppCommon.c:1101`); a Wi-Fi connection that is lost later is never made again
  (`kvswebrtc_example_main.c:145`); `searchSslCert` appends to the string that `getenv`
  returned (`AppCredential.c:69`).
- A second start after `freeApp`: `app_main` starts the application once.

## 7. Order of the work

In the order of importance, models first: sessions with their queues, media control, certificates,
signaling client, negotiation; then the life cycle with the board's start, ICE servers
and the file source. Then the proofs, module by module, and the abstract specifications:
the registry, the pool in the life cycle, the box, the contract of the rounds, the
exchange, the board. What is left is under "Not modelled", with the reasons.

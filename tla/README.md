# Verification of the NFC Forum DTA application

This directory holds TLA+ models of the NFC Forum Device Test Application in
`src/nfcdta`, the configurations with which TLC checks them, and theorems that
TLAPS checks. The application turns an Android device into the "implementation
under test" of the NFC Forum: a tester puts tags, peers and readers in front of
its antenna and the application answers as the test patterns demand.

    tlc -workers 2 -config MCDtaLib_reader.cfg MCDtaLib     (any run below)
    tlapm OsalQueue_proofs.tla          (and the other modules named *_proofs)

Paths below are relative to `src/nfcdta/src/comps/`; `DTST`, `MWIF` and `OSAL`
stand for `phDTALib/src/comps/phDTATst`, `.../phMwIf` and `.../phDTAOSAL`.

## 1. The system

| Part | Where | State it keeps | Operations |
|---|---|---|---|
| OSAL queue | `OSAL/src/comps/src/phOsal_Queue.c` | two counting semaphores, a mutex, a linked list, overwrite mode | create, push, pull, flush, destroy |
| OSAL linked list | `OSAL/src/comps/src/phOsal_LinkList.c` | head, tail, node count, nodes | create, insert and remove at head or tail, flush, destroy |
| OSAL semaphores, mutexes, threads | `OSAL/src/comps/Android/src/phDTAOSALAndroid.c` | those of pthread | create, wait with timeout, post, lock, unlock, delay |
| Middleware interface | `MWIF/src/comps/Android/src/phMwIfAndroid.c` | `eDeviceState`, `sDiscCfg`, `blDiscAnalogMode`, globals `gx_status`, `Pgu_event`, `gb_discovery_notify`, event queue `pvQueueHdl`, integration thread | one function per command; callbacks of the NFC stack |
| NFC stack | not in the repository | the radio, a contact, an unanswered command, the connections of an LLCP link | the `NFA_*` calls; events to the callbacks |
| DTA library | `phDTALib/src/phDTALib.c` | event queue, `bDtaInitialized`, `sPrevdiscCfgParams`, test profile, the LLCP handles it keeps, message handler thread | init, deinit, enable and disable discovery, set profile; event callback |
| Test operations | `phDTALib/src/phDTA_*Test.c` | frame buffers | one function per kind of contact, called by the handler |
| JNI bridge | `phDTAGUI/src/comps/JNI` | `dtalibState` | one function per Java native |
| TCP server | `.../tcpserver/PhNioServer.java` under `phDTAGUI/src/comps/Android` | selector keys, `pendingChanges`, `pendingData`, `ltType` | accept, read and answer, write |
| TCP client, GUI, SNEP server | `phDTAGUI/src/comps/Android` | widgets, a selector loop of the simulated tester | start, stop, send, receive |

How they interact:

* Every command of the middleware interface calls the stack, tests the global
  `gx_status`, and pulls from `pvQueueHdl` until the event it expects comes
  (macros `PH_ON_ERROR_EXIT` and `PH_WAIT_FOR_CBACK_EVT`, `phMwIfAndroid.h`).
* The stack's one thread runs `phMwIfi_NfaConnCallback`. It overwrites the
  globals, pushes the event to `pvQueueHdl` and, for activations,
  deactivations and data of a card emulation, calls the DTA library's
  callback, which pushes to the library's own queue. Both pushes wait for room
  without a timeout.
* The message handler thread of the library pulls one event after the other.
  On an activation it runs the operations of the test pattern and then stops
  and starts discovery.
* The integration thread of the middleware interface is woken when several
  targets answered a poll: it selects one and restarts discovery.
* The application calls in at any time: enable and disable discovery.
* Over LLCP the stack calls three more callbacks of the middleware interface
  (server, connectionless server, client). Requests of the peer and its data go
  to the library's queue, answers to our own calls to `pvQueueHdl`.
* Starting the library creates its queue and handler thread, then the queue,
  semaphore and integration thread of the middleware interface, and enables the
  stack; stopping undoes the middleware part and keeps the library's. Both give
  up half way when the stack does not answer, and the flags of the JNI bridge
  and of the library decide what the next call does.
* The tester commands the GUI over TCP. One thread of the server selects,
  reads, answers and writes for all connections.

So up to four threads (application, handler, integration, stack) write the same
globals and wait in the same queue. That is where the behaviour is hard:
answers taken by the wrong wait, late answers, aborted waits, a state that lags
behind the radio, a callback that blocks on a queue whose reader waits for the
callback. Nothing is stored on disk, so there is no crash recovery.

What makes each part correct:

* queue: bounded FIFO; no slot or object lost or duplicated; a consumer with a
  token finds an object; no thread left waiting; mutex released on every path;
* list: an ordered collection; no node leaked or used after it was freed;
* middleware interface and library together: when everything has settled the
  library's view of the radio is right, no contact is left open and unserved,
  the waits have emptied the queue for answers, callbacks return, and discovery
  is off after it was disabled; a connection the library opened in answer to one
  of the peer's is closed with it;
* life cycle: the flags agree with what there is; nothing is freed while a thread
  or a callback uses it; a stop ends;
* TCP server: every answer is written or its connection has failed, no tester
  keeps another from being served, and what is queued stays bounded.

`PROJECT.json` lists the hazards line by line under "hazards".

## 2. Modules

    BoundedFifo      what a queue without overwriting promises
    OsalQueue        phOsal_Queue.c, thread by thread         implements BoundedFifo
      OsalQueue_proofs   theorems about it
      MCOsalQueue        instances
    Deque            what the list promises
    OsalLinkList     phOsal_LinkList.c, pointer by pointer    implements Deque
      OsalLinkList_proofs  theorems about it
      MCOsalLinkList     instance
    NfcStack         the NFC stack and the tester (external)
    MwIf             phMwIfAndroid.c, EXTENDS NfcStack
    DtaLib           phDTALib.c and the tests, EXTENDS MwIf
      DtaLib_proofs      its types, and what calls a thread can be in
      DtaContacts_proofs theorems about contacts, EXTENDS DtaLib_proofs
      DtaDiscovery_proofs  theorems about discovery, EXTENDS DtaContacts_proofs
      MCDtaLib           instances
    MwIfData         the receive path of phMwIfAndroid.c
      MwIfData_proofs    theorems about it
      MCMwIfData         instance
    DtaLifeCycle     phDTALibJNI.cpp, Init and DeInit of library and middleware
      DtaLifeCycle_proofs  theorems about it
      MCDtaLifeCycle     instance
    NioServer        PhNioServer.java
      NioServer_proofs   theorems about it
      MCNioServer        instance

### OsalQueue

`list`, `semPush`, `semPull` and `mutex` are the fields of
`phOsal_QueueCtxt_t`; `mode` is `eOverwriteMode`. A thread has a label `pc`, the
status of its semaphore wait `st`, the timeout of its call `ms`, and its object
`obj`. A step ends at each operation on a semaphore or on the mutex, for there
another thread can get in; what happens between lock and the next semaphore
operation is one action. `PushTakeSlot`, `PushGiveUp` and `PushWaitFailed` are
the three ways out of `phOsal_SemaphoreWait`; `PushInsert`, `PushOverflow`,
`PushOverwrite` and `PushInterrupted` are the branches after the lock; the pull
has the same shape. A flush is a pull with a timeout of 1 ms in a loop.
`BlockedWaitStatuses` is the timeout arithmetic of `phDTAOSALAndroid.c`: the
milliseconds are added to `tv_nsec` without a carry, so a timeout that is not
a whole number of seconds may fail with `EINVAL`; a `sem_wait` that a signal
interrupts is reported as `OSALSTATUS_INVALID_PARAMS`. `Junk` is the value of
the flush's uninitialised local. `live` tells allocated objects from freed ones.

### OsalLinkList

Nodes are elements of a finite set, `ps_next` and `pvData` are their fields,
`alloc` tells allocated nodes from freed ones. Each function is one action,
because all calls are made with the queue's mutex held. Removing the tail leaves
the link of the new last node pointing at the freed node; the one caller inserts
at the tail next, under the same lock, and `repair` is set in between. `Abstract`
follows the links from `psHead`: the refinement mapping to `Deque`.

### NfcStack

External. It is modelled from the `NFA_*` calls of `phMwIfAndroid.c` and from
the events its callbacks handle. Commands are answered in order (`Reply`);
commands to a tag are owed an answer (`owed`) that the tag gives or fails to
give. The tester presents tags, peers and readers, answers, takes them away and
ends emulations at any time. A device may be of a protocol other than the five the
middleware tells the library of (`TagProtocols` adds "UNKNOWN", which stands for
`NFC_PROTOCOL_UNKNOWN` and every value `phMwIfi_HandleActivatedEvent` has no case
for). The data of an answer may be empty or too long for the callback ("bad").

With a peer in LLCP mode a link comes up. `links` tells of each connection
handle whether it is free, asked for by the peer, the peer's (`in`), being called
by us, or ours (`out`); the peer asks, answers our call, refuses or closes, finds
a service or not (`sdp`), and sends data with and without a connection. When the
link goes down each connection is reported closed before the deactivation.

### MwIf

A thread is in a stack of calls (`calls`), each the sequence of steps it has
left. A step that fails returns from the innermost call (`Return`), which is
what `PH_ON_ERROR_EXIT` and the wait macro do; the caller goes on, since the
callers on these paths ignore the status. Where a caller does not ignore it, the
two functions are kept as one call. `Issue` is `gx_status = NFA_...()`, `Check`
reads the global again (the callback may have written it in between),
`WaitPull` and `WaitTimeout` are the loop of the wait macro. `Callback` is the
switch of the connection callback (globals, then the pushes it makes in
order), `CallbackPush` one blocking push. The two queues are taken as
`BoundedFifo`s, which is what `OsalQueue` implements when it is created
`NO_OVERWRITE`.

The LLCP commands have the same form (`IssueLlcp`; the calls that return before
they reach the stack are `NotForLink`). `LlcpServerPushes`,
`ConnLessServerPushes` and `LlcpClientPushes` say to which of the two queues
each of the three callbacks hands an event.

`gx_status`: the callback reads the first byte of whatever union member the
event carries as a status. Of a deactivation that byte is the deactivation
type, so only a deactivation to idle counts as success (`StatusOf`); of an LLCP
link it is the role or the reason, hence either. An activation of an unknown
protocol sets the device state and nothing else: no event is pushed and nobody is
called (`ActivatedPushes`, lines 3788 to 3793), while its deactivation is reported
to both queues like any other. Data that is empty or too long fails without a push
(`PushesOf`, lines 1411 to 1428).

`setting` is chosen once at the start and names what may differ within an instance:
what the tester presents and how often, the lengths of the two queues, whether
answers may be late, the configurations of card emulation, whether LLCP is on,
whether the application disables discovery, the length of a loop back. So one run
covers settings that would be too much at once. `Pgu_event` is kept as far as
anything reads it: whether it is DATA.

### DtaLib

`HandlerPull` takes an event and chooses a round (`Rounds`): the operations of
a test pattern, followed by `StopAndStart` or, for Type 2 tags, by
`StartAgain` alone. The operations are the sequences of middleware calls of
`phDTA_T1TTest.c` ... `phDTA_UICCTest.c`; what frames contain is reduced to
what the code decides by it: the end of the test, an unknown command, a tag
without NDEF. `AppEnable` and `AppDisable` are the application's calls with the
set-up of LLCP, host emulation or secure elements before, and their removal.

`phDTA_LLCPTest.c` is three rounds: `LlcpOperations` accepts the peer's
connection and opens one to the peer, after a service search or without;
`LlcpHandleCoClientDisconnect` closes ours when the peer closed its own;
`LlcpConnLessOperations` searches for the service on the start of test command
and echoes everything else. The handles and the SAP the library keeps are
variables, which the code never resets: `SaveConn`, `SaveClSap`.

### DtaLifeCycle

Each start creates a queue, a semaphore and threads; they are numbered, and a
handle is the number of what it refers to. One action is one step of
`phDtaLib_Init` or `phDtaLib_DeInit` down to the creation of a resource, the
command to the stack or the wait for it. The GUI's calls come one after the other.
Handler and integration threads are in a round or wait for one; a round may take any
event out of `pvQueueHdl`, which is one way they can disturb a start or a stop.
Rounds themselves are in `DtaLib`.

`Await` is the wait macro: it goes on at the event it waits for, throws others away,
and gives up when nothing comes in time or when it pulls the end of a contact
(`phMwIfAndroid.h:113`; the model's one event, "DEACTIVATED", also stands for
`NFA_RW_INTF_ERROR_EVT`, which does the same). `ContactEnds` puts that event there
whenever the stack is on and the library's callback registered. Whether discovery
runs and whether there is a contact is not in this module, so it comes more freely
than in the program.

`MayFail` says which of four things may happen. "EnableRefused", "DisableRefused":
the stack refuses the command. "EnableAbandoned", "DisableAbandoned": the wait for the
answer is given up while the stack still has the command to serve, whichever of the
two ways it is given up. A wait whose command was served or refused may always be
given up: its answer was taken by another thread, or the end of a contact comes before
it in the queue. So a run without "DisableAbandoned" is one in which no stop leaves
an unserved `NFA_Disable` behind; it is not just one with a punctual stack, for the
end of a contact cuts off a wait within any time.

### MwIfData

The data that `MwIf` leaves out. A fragment is a record that says which contact
sent it, in which answer and at which place; `Pgs_cbTempBuffer` is the sequence
of fragments up to `Pgui_cbTempBufferLength`. `Callback` is one event of
`phMwIfi_NfaConnCallback`: it writes `Pgu_event`, `gx_status`, the device state
and the buffer, and then pushes (`CallbackPush`), one push a step. The handler's
calls are sequences of steps as in `MwIf`; a receiving call goes through "sent",
"wait", "check", "copy", "length" and "clear", and the callback may run between
any two: the code has no lock there. `CheckData` reads the globals again,
`Copy`, `GiveLength` and `Clear` are the last three statements of
`phMwIf_Transceive` and `phMwIf_ReceiveP2PData`, and of the reading of a block.
`out` is what the caller was given, `asked` a history variable: the contact the frame
of the present call reached. The rounds are those in which data is used: the loop back
with a tag or target, with an initiator, the reading of blocks of a Type 2 tag,
which alone restarts without stopping. `chaining` is the compile time switch
`APP_HANDLE_DATA_CHAINING`. The commands of a restart between stop and start are
one step, "Configure".

### NioServer

`pc` is the place in the loop of `PhNioServer.run`: apply the changes, select,
handle the selected keys. `key` is a connection's key with its interest; a
cancelled key is with the selector until the next select. `send` is only called
from inside a read, hence by the loop's own thread. A message is its kind, with
one kind for everything that fails the check of the CRC, also a message that
arrived in pieces or together with the next. `ApplyChanges` and `ChangesThrow`
are the two outcomes of the first part of the loop: `interestOps` on a cancelled
key throws, and so does a key that is gone. The testers and the sockets between
(`sndbuf` answers fit in) are external.

## 3. What is checked

A run of TLC each; the cfg of `osal_safety` is `MCOsalQueue_safety.cfg`, and so on.

| Run | Properties | What it shows |
|---|---|---|
| `osal_safety` | `TypeOK` `MutualExclusion` `TokenConservation` `TokensBackedByObjects` | two producers and a consumer that also flushes, one slot, three modes, waits that time out, fail or are interrupted: tokens, list and mutex stay consistent |
| `osal_live` | `SingleOwner` `LockHeldOnlyInside` `EveryObjectPulled` `EveryPushReturns` `FifoSpec` | the queue as the library uses it is a bounded FIFO, and nobody waits for ever |
| `linklist` | `TypeOK` `ChainSound` `DequeSpec` | the pointers implement the ordered collection; no leak, no use after free |
| `dta_reader` | `TypeOK` `StoppedIsKnown` `NoForgottenContact` | every reader test, with answers that come after their wait gave up, and devices of unknown protocols; in a setting of its own, selection by the integration thread while the application disables discovery |
| `dta_peers` | `DiscoveryResumes` `NothingLeftInQueue` `NoLeakedConnection` `LlcpResumes` | readers: card emulation on the host, the UICC and the secure element, in analog mode too; peers over LLCP that connect, search, send, refuse, close and leave at any time, or take turns with a device of an unknown protocol |
| `data` | `TypeOK` `NeverMixed` `EndIsNoticed` | contacts of every kind that send twice, tags and targets when asked, initiators unasked, in fragments that break off anywhere: what is given out is of one contact, and the end of a contact is noticed |
| `life_cycle` | `TypeOK` `SessionOpen` `NothingAfterTearDown` `OwnSemaphoreLives` `JoinReturns` | two lives of the library, whatever is refused or abandoned |
| `life_stops` | `SessionOpen` `NothingAfterTearDown` | three lives in which stops are abandoned, and starts and stops refused |
| `nio_server` | `TypeOK` `NoAnswerForgotten` `BacklogBounded` `OnlyStopBlocks` `AnswersLeave` `PeersAccepted` | two testers that send, read, shut, close and reset as they like |
| `osal_flush` | `FlushFreesFlushedObject` **violated** | a failed wait makes the flush free a pointer nobody stored |
| `dta_hce` | `CallbackReturns` **violated** | the queue for answers fills up during a card emulation |
| `dta_disable` | `StoppedAfterDisable` **violated** | the handler restarts discovery after it was disabled |

The properties of the queue:

* `TokenConservation`: the two semaphores and the threads between a wait and
  the matching post add up to the length of the queue, whatever failed.
* `TokensBackedByObjects`: whoever passed the wait on `semPull` finds an object,
  also while producers overwrite.
* `FifoSpec`: refinement of `BoundedFifo`; insertions and removals take effect
  at one instant, in order.
* `LockHeldOnlyInside`: every path out of push, pull and flush unlocks. This is
  checked and proved for waits that no signal interrupts. With
  `Interruptible = TRUE` it fails: `phOsal_QueuePush` returns at line 279
  without unlocking when a signal handler without `SA_RESTART` interrupted the
  wait for a slot, and every later user of the queue waits for ever. The
  repository installs no such handler.

Those of the library (all about settled states: `Quiet`):

* `StoppedIsKnown`: a stopped radio is not taken for a running one.
  `phMwIfi_DiscoveryStop` talks to the NFCC or not by `eDeviceState`, and
  several events, lost answers and the last line of `phMwIf_EnableDiscovery`
  write it in whatever order they come.
* `NoForgottenContact`: the radio is not left in a contact nobody serves, except
  in those the code leaves to themselves (`Unattended`): a peer's over LLCP, which
  callbacks serve, and that of a device of an unknown protocol. Nobody is told of
  the latter and nothing ends it; it holds the radio as long as it stays. What the
  property says of such contacts is that those before and after them are served all
  the same, although each leaves the event of its end in `pvQueueHdl`, where it cuts
  off a later wait.
* `DiscoveryResumes`: after card emulation was enabled, the settled radio is in
  discovery; with it neither a stopped radio nor a forgotten reader is possible.
* `NothingLeftInQueue`: events of an emulation on the host go to `pvQueueHdl`, where
  `phDtaLibi_HceOperations` awaits none of them, and the callback blocks when the
  queue is full (`dta_hce`). The property says that they do not add up over the
  emulations: once everything has settled the queue is empty, although stops may be
  skipped or break off at the status of another event. So the length of the queue limits
  the APDUs of one emulation, not the number of emulations. Of the set-up of a secure
  element or the UICC events stay for good, which is why it is stated for the host.
  The run keeps below the limit, which is the subject of `dta_hce`: with enough APDUs
  the handler waits for the end of the emulation and the callback, which would report
  it, for room, in the program's ten slots as in the run's three.
* `NoLeakedConnection`: once everything has settled, a connection of ours is
  only there while one of the peer's is, although either may be closed while ours
  is being made and the handle that is kept may be that of a connection closed
  long ago.
* `LlcpResumes`: after contacts over LLCP the radio looks for the next peer or is
  linked with one, unless a device of an unknown protocol came instead and stays.

Those of the receive path:

* `NeverMixed`: data of two contacts is never handed out as one answer, although
  the callback appends to whatever the buffer holds. That the buffer is reset at
  every deactivation is what holds it: stops may be skipped or fail, and the
  Type 2 round has none.
* `EndIsNoticed`: the checks of a receiving call may all pass just before the
  contact ends, so it can return success with data of the next contact, with data
  and the length zero, or for a block with nothing. It is then the last of its
  test: the event of the end is still to be pulled and ends the next wait. The
  queue may not lose it, and no earlier wait may have taken it.

Stronger statements do not hold. Success does not mean that there is data,
although `phMwIf.h:875` has MWIFSTATUS_SUCCESS stand for "Sending/receiving of data
is successful": a contact that ends after the last check of `phMwIf_Transceive`
(line 2791) resets the buffer's length, and the call returns success with nothing,
or with what was copied and the length zero; the loop back with a Type 4 tag
(`phDTA_T4TTest.c:98`) then goes on with the length less two.
What is handed out need not be one whole answer: `Clear` may throw away the first
fragment of an answer that arrives between `GiveLength` and it, and the length may
be that of more than was copied. Two answers of one contact may come as one, when
the handler serves an activation that is over while an initiator, which sends
without being asked, is in front of the antenna.

Nor does `EndIsNoticed` extend to a call in a loop back that returns success with no
data. Rounds of a Type 2 tag may leave ends in the queue. They end the waits of
later rounds too early, up to the point where a new contact is asked while the
event that sets the device state to IDLE is still to be handled; discovery is then
not stopped, both answers of this contact come as one, and the next call succeeds
with nothing while the contact is still there. It takes six contacts and a queue
of ten, so no smaller run shows it; the attempt to prove the wider statement did.

Those of the life cycle:

* `SessionOpen`: between calls the flags of bridge and library agree with each
  other, with the stack, and with the queue and semaphore the callbacks use.
* `NothingAfterTearDown`: once queue or semaphore are freed the stack is off and
  has nothing to report.
* Both hold in two lives whatever is abandoned, and in any number when starts are
  abandoned and stops are not, or stops and not starts (section 4). With both
  `SessionOpen` fails in the third life: the first start is given up with
  `NFA_Enable` unserved; the second life opens on its answer, with its own
  `NFA_Enable` still to come; the stop of the second is given up behind that; the third
  start takes the answer of the second for its own and opens, and the old
  `NFA_Disable` then turns the stack off under it.
* A stop that gives up reports success all the same, since `phDtaLib_DeInit` ignores
  the result of `phMwIf_DeInit`; integration thread, semaphore and queue stay. The
  properties allow that (`SessionOpen` asks nothing of a library that counts as
  stopped but its flag), although `phDTALib.h:138` says that the call deinitializes
  the underlying layers. It takes a refusal, a late
  answer, or a contact that ends during the stop.
* `OwnSemaphoreLives`: no integration thread is left with a deleted semaphore.
* `JoinReturns`: the stop, which joins the integration thread without a timeout,
  ends. `Intruder` is the exception: a thread that a failed start or stop left
  behind reads the handle anew and may take the post meant for the present one;
  then the stop hangs.

Those of the TCP server:

* `NoAnswerForgotten`: what is queued for a channel that waits for data is
  covered by a pending change.
* `BacklogBounded`: a tester that sends on without reading cannot make the
  server queue without bound.
* `OnlyStopBlocks`: a change that throws is repeated in every round, for the list
  is cleared only after the last. Only the answer to `$%STOP` leads there. It is
  queued, and asks for a change of interest, for the channel that the same read
  closes (lines 307 to 310): from then on the thread spins and serves nobody.
  So after a regular end of a session the server has to be started anew.
* `AnswersLeave`, `PeersAccepted`: until that happens, every answer is written or
  its connection was reset, and every tester that connects is accepted. At the
  end of a stream the channel is not closed (the two lines are comments): the
  empty read is answered with a NACK again and again, which costs time but, as
  these two show, keeps nobody else from being served.

### What the three violations say

* `osal_flush`: the carry missing in `phDTAOSALAndroid.c:250` makes
  `phOsal_QueueFlush`, and through it `phMwIfi_DiscoveryStop`, free an
  uninitialised or already freed pointer, when the flush runs in the last
  millisecond of a second and the queue is empty.
* `dta_hce`: `phDtaLibi_HceOperations` never pulls from `pvQueueHdl`. The run
  has three slots; the program has ten.
* `dta_disable`: `phDtaLib_DisableDiscovery` does not tell the handler thread,
  whose round ends by starting discovery.

### Bounds

| Bound | Value | Why it is enough |
|---|---|---|
| `QLength` | 1 or 2 (code: 10) | with one slot each push meets the limit, with two there is an order |
| threads of the queue | 2 producers + 1 consumer; 1 + 2 | each pair of operations meets in each order |
| `Objs` | 3 or 4 | one more than slots and producers hold |
| nodes of the list | 4 | head, tail, the node before the tail and one between; the theorems hold for any number |
| `MwQLength`, `DtaQLength` | 1 to 4 (code: 10) | small, so that queues fill; in `dta_reader` one setting lets stale answers queue up (2 and 1), the other contacts (1 and 2); in `dta_peers` both are 4, which holds the events of one emulation (with 6 for LLCP, where a queue of 4 may fill, the properties were checked too); the theorems hold for any lengths |
| `Handles` | 2 in `dta_peers`, else none | one connection of each side, so a handle that is closed is given to the next |
| `MaxConnReqs`, `MaxUi` | 2 and 0, and 1 and 1, in two settings of `dta_peers` | a second connection meets what the first left behind; a second data unit only repeats the round |
| `MaxLives` | 2 in `life_cycle`, 3 in `life_stops` | a life meets what the one before left behind, and a third what two did, without which the failure described above would not show; the theorems hold for any number |
| ends of contacts in the queue of `DtaLifeCycle` | one at a time | one ends the wait; a second ends the next one, where it may come as well after the first is pulled; the theorems are about the module with this bound |
| results for the integration thread | one at a time | a second post only repeats the round |
| `MaxContacts` | 3 | one contact leaves something behind, the next is served late, the third meets both |
| `answers`, `MaxFragments` | 2 and 2 | an answer has a beginning and an end; a second one meets what the first left |
| testers, `MaxMessages`, `SndBuf` | 2, 2 and 1 | one tester can disturb the other; three answers to one message do not fit the socket; the theorems hold for any number |
| `MaxOut` | 1 (2 in `data`) | the tester acts only when the last of its events was handed over, or all but one; the stack's answers are not bounded by it |
| `MaxCeData` | 1 (3 in `dta_hce`) | with 1 the events of one emulation on the host fit in the queue of four, and would not if those of two added up; with 3 they do not fit in that of three |
| `MaxSeveral` | 1 | one selection at a time is what the tester can cause; a second one only repeats it |
| `MaxLoopBack` | 2 for the reader tests, else 1 | with 2 the test ends at the first frame or goes on to another; one more repeats the same steps |
| `MayRefuse` | see below | commands the stack may refuse |

Assumptions of the instances, found by relaxing them:

* `MayRefuse` holds `Select` in `dta_reader`, and `RegisterAid`, `DeregisterAid`,
  `ConfigureUiccListen` and `Connect` in `dta_peers`.
  With `StartRfDiscovery`, `StopRfDiscovery` or `Deactivate` refused, the
  library gives up silently, and `StoppedIsKnown` and `NoForgottenContact` do
  not hold.
* `EarlyTester` is FALSE: the tester waits until discovery is enabled. With
  TRUE, a contact that is made and ended while `phMwIf_EnableDiscovery` still
  waits writes IDLE before its last line writes DISCOVERY_STARTED, and
  `StoppedIsKnown` fails.
* `LateAnswers` is TRUE for the reader tests only. With LLCP it would make
  `NoLeakedConnection` fail: a connection whose answer comes after the wait gave
  up is open, and nobody keeps its handle.
* `MayFail` is everything in `life_cycle`, and everything but "EnableAbandoned" in
  `life_stops`, see above.
* `nio_server` sends no HELLO of another type than PRO and no message with a bad
  CRC but those cut or joined by the read.
* A completion event reports success; a command fails by being refused, by an
  interface error, or by silence.
* The waits of the library's two queues without timeout are not interrupted by
  signals, so the handler thread never leaves its loop.
* A tester that begins new contacts while its old events wait is cut by
  `MaxOut`.

### Fairness

`OsalQueue!FairSpec`: threads are scheduled once inside a call, and consumers
pull in an endless loop, as `phDtaLibi_CbMsgHandleThrd` does; nobody has to push
or flush. `DtaLib!Spec`: handler, application, stack and integration threads
are scheduled (weak fairness of each one's steps); since the timeout of a wait
is one of these steps, time passes. A tag answers or fails when a command
reached it, and a peer answers a call or a search (weak fairness of both), and a
reader that began an emulation
ends it (strong fairness of `EndEmulation`, because delivering its other events
disables it time and again). The application need not call and the tester need
not present anything. `DtaLifeCycle`: the GUI's call goes on, the stack serves
what it accepted, and rounds end, since their waits have timeouts (weak
fairness of each); the GUI need not call again. `NioServer`: the loop runs, and a
tester that keeps its socket open reads its answers; it need not connect, send
or end. Deadlock is not checked where the system may stop: when
the application is done, when objects run out, when a queue's users are done,
when the lives are used up, when no tester has anything to say.


## 4. What is proved

`OsalQueue_proofs`, for every set of threads and objects, every length, set of
modes, timeouts and both values of `Interruptible`, from `ConstantsAssumption`
alone (threads are finitely many, the length is at least 1, `NULL`, `Junk` and
`NoThread` are not objects or threads):

| Theorem | States | Argument |
|---|---|---|
| `TypeCorrect` | `Spec => [](TypeOK /\ PushesObject)` | `TypeOK` alone is not inductive: a push writes `obj[t]` into the list, so it has to be an object while the thread waits (`PushesObject`) |
| `MutexSafe` | `Spec => []MutualExclusion` | `InsideHolds`: who is inside holds the mutex; two insiders are both the holder |
| `SlotsConserved` | `Spec => []TokenConservation` | each action moves one thread into or out of one of four disjoint sets of threads; cardinality lemmas for adding and removing one member |
| `TokensBacked` | `Spec => []TokensBackedByObjects` | `Accounts`: the list is at least as long as the tokens announced; removing a node under an overwrite puts one back in the same step, and without overwriting both sides are equal |
| `QueueIsFifo` | `Modes = {"NO_OVERWRITE"}` implies `Spec => FifoSpec` | with `SlotsConserved` the list is shorter than the length when a push inserts; every other action is a put, a get or a stutter |
| `LockReleased` | `Interruptible = FALSE` implies `Spec => []LockHeldOnlyInside` | `LockInv` adds that no thread has the status that leads to line 279 |
| `OneOwner` | `Flushers = {}` implies `Spec => []SingleOwner` | `Ownership`: the objects of the list are distinct and allocated, and what a thread holds is in neither the list nor another's hands; the list lemmas say what append, tail and the removals of the overwrite modes do to the set of queued objects |

`OsalLinkList_proofs`, for every set of nodes and of data, from `NullAssumption`:

| Theorem | States | Argument |
|---|---|---|
| `TypeCorrect` | `Spec => []TypeOK` | from `Inv`: that the count never goes below zero needs the chain |
| `ChainIsSound` | `Spec => []ChainSound` | `Inv`: there is a sequence of distinct nodes, exactly the allocated ones, that the pointers list (`Chain`); each operation turns it into the sequence with a node more or less at the end it names, or the empty one |
| `ListIsDeque` | `Spec => DequeSpec` | the data along the chain before and after are related as `Deque` says (`StepEffect`), and they are what the refinement mapping reads |

`ChainSound` and `Abstract` follow the links by the recursive function `NodeAt`.
Lemma `Visited` says that it visits the chain in order, by induction over the
position: the least position where the two differ leads to a contradiction.
That there is a least one (`LeastOf`) follows from the library's theorem that
finite sets are well-founded under inclusion, for the intervals `1 .. k`.

`DtaLifeCycle_proofs`, for every number of lives, from `LifeCycleAssumption`:

| Theorem | States | Argument |
|---|---|---|
| `TypeCorrect` | `Spec => []TypeOK` | `Typed` adds that the handles go up together (`Handles`), or a start could number a resource beyond the bound |
| `SemaphoreOutlivesThread` | `Spec => []OwnSemaphoreLives` | `Threads`: the semaphore a thread is created with is there, and the thread is gone when the join returned, whatever the stack does |
| `SessionIsOpen` | not both "EnableAbandoned" and "DisableAbandoned" in `MayFail` implies `Spec => []SessionOpen` | `Sessions`, below |
| `TornDownIsSilent` | the same implies `Spec => []NothingAfterTearDown` | from `Sessions` |

`Sessions` has four parts: the flags, what is built at each step, the session, and
the order of the tear down; each needs the others. It is inductive together with
what the answers in the queue mean (`Answered`): who pulls the ENABLED it waits for
finds the stack on, who pulls DISABLED finds it off for good, and no NFA_Disable is
next while the library is open. That depends on the commands and events earlier
lives left, for which there are two invariants, one for each way the hypothesis can
hold. `StopsInOrder`, for stops that are never abandoned: an NFA_Disable is the last
of the commands and on its way only while its stop waits for it (`StopCommands`),
and a DISABLED that can still be pulled by a stop is the last event (`StopEvents`);
any number of NFA_Enable may be left over. `StartsInOrder`, for starts that are
never abandoned: an NFA_Enable is the last of the commands, so its answer comes
after every NFA_Disable left over was served, and an open library has no command on
its way (`StartCommands`); behind an ENABLED there are only ends of contacts
(`StartEvents`). The hypothesis is needed, see the counterexample above. It says
nothing of how often contacts end, what is refused, which answers other threads
take, or of waits given up after the command was served.

`NioServer_proofs`, for every set of connections, messages and sizes, from
`ServerAssumption`:

| Theorem | States | Argument |
|---|---|---|
| `TypeCorrect` | `Spec => []TypeOK` | inductive as it stands; `SendTyped` says what `send` does to the list of changes |
| `AnswersRemembered` | `Spec => []NoAnswerForgotten` | `Inv`, which adds to the three properties that a channel not yet accepted has no answers (`Fresh`) and that no selected channel has a pending change while keys are handled (`Phase`): so whatever is read is read with an empty queue |
| `BacklogStaysBounded` | `Spec => []BacklogBounded` | from `Inv` |
| `StopAloneBlocks` | `Spec => []OnlyStopBlocks` | from `Inv` |

`MwIfData_proofs`, for all testers, both builds and all bounds, from
`DataAssumption`:

| Theorem | States | Argument |
|---|---|---|
| `TypeCorrect` | `Spec => []TypeOK` | `Shaped`, which spells out the types; each step of the handler leaves control between steps, in the step it was in, or where it was (`ControlAfter`) |
| `DataNeverMixed` | `Spec => []NeverMixed` | `Inv`: between data of two contacts, in the buffer or on its way to the callback, there is the end of the first, and behind data of a contact that is not in the field too (`InOrder`). One lemma for each way the events change: some without data come behind (`OrderExtend`), data of the present contact does (`OrderData`), the callback takes the first one (`OrderEnd`, `OrderDrop`, `OrderGather`). That contacts end in the handler's commands as well as by themselves is all that is used of the rest |
| `EndNoticed` | `Spec => []EndIsNoticed` | `Noticing`, below |

`EndIsNoticed` speaks of one state, the return of a call. `Noticing` says what
makes it true there. The contact a frame reached, and the one whose data was
given, is still in front of the antenna, or its end is on its way to the waits
(`AskedHere`, `GivenHere`), and the end is on its way when data was copied and the
length is zero (`GivenWhole`). The news of an end is sent on (`Pushes`) and never
put back among what the stack still owes (`OwedKinds`). A block is harder, for its
event (`READ_CPLT`) carries no data, and one left over from an earlier contact would
pass for an answer: behind every such event there is an end, except behind that
of the tag being read (`ReadsEnd`, `Followed`), and while a block is read its data
comes before this one event, unless an end comes (`ReadsReady`, `OneRead`,
`Unread`). That the code that waits for blocks is the round of a Type 2 tag, which
begins with a sleep and an activation, is `Rounds`. The proof has one lemma for
each way the events on their line move (`Cut`, `Closed`, `Take`, `Queued`, `Pulled`
and so on) and one for each kind of round (`PlainNoticed`, `BackNoticed`,
`SleepingNoticed`, `ReadingNoticed`).

The lemmas are one per group of actions (`PushTyped`, `ReadInv`, `BuiltStep` and
so on), each with one step per action.

`DtaLib_proofs`, `DtaContacts_proofs` and `DtaDiscovery_proofs`, about stack,
middleware, library and application together, from the assumptions of the four
modules: any protocols, settings, bounds, connection handles, integration threads
and queue lengths, late answers or not, an early tester or not:

| Theorem | States | Argument |
|---|---|---|
| `TypeCorrect` | `Spec => []TypeOK` | `Typed` and `AppIdle`. That the variables stay in their sets needs to know what is in them: which calls a thread can be in (`StepsOf`; a call is never empty below the top, and its first step says where `at` may be), which events come from the stack and which go to which queue, that the integration thread and the application use only their own steps, and that a wait which ends a test (`Eot`) is followed by nothing of the test |
| `ContactsServed` | `EndsAccepted` implies `Spec => []NoForgottenContact` | `ContactsKept`, below |
| `StopsAreKnown` | `EndsAccepted`, `StartAccepted`, `~EarlyTester` and `OneTarget` imply `Spec => []StoppedIsKnown` | `ContactsKept`, `Sleeper`, `AppCalls`, `Starting` and `StoppedSeen`, below |
| `EmulationResumes` | `EndsAccepted`, `StartAccepted`, `OneTarget` and `OnlyReaders` imply `Spec => []DiscoveryResumes` | `ContactsKept`, `Sleeper`, `AppCalls`, `CeOnly` and `Resumes`, below |
| `PeersResume` | `EndsAccepted`, `StartAccepted`, `SetUpAccepted`, `OnHost`, `OnTime` and `OneTarget` imply `Spec => []LlcpResumes` | `ContactsKept`, `Sleeper`, `AppCalls`, `Chosen`, `Asleep` and `WillRestart`, below |

`NoForgottenContact` speaks of states where everything has settled; the inductive
invariant `ContactsKept` has to say what keeps a contact from being forgotten until
then, and does so in three parts. `Off`: before the application enables discovery
there is nothing. `Known`: while the radio is in a contact, the library either takes
it for not idle with no event on its way that would change that, or the event of
this contact is still to come and no such event after it. Without it nothing says
that the stop at the end of a round reaches the radio, since `phMwIfi_DiscoveryStop`
skips the command when the state is idle. `Served`: with a reader in front of the
antenna, `CE_ACTIVATED` is on its way to the handler, or the handler has a stop of
discovery ahead that no end of test can cut off (`NoEot`); with a tag, its
activation is on its way, or a stop or a deactivation is ahead, in whatever call of
the stack of calls. The proof has one lemma for each way the events to the handler
change (`ComingReported`, `ComingCalledBack`, `ComingPushed`, `ComingPulled`) and
one for each way the calls do (`MovedWill`, `PoppedWill`, `CallWill`, `GoesWill`,
`PullStops`).

`EndsAccepted` says that the stack refuses neither `StopRfDiscovery` nor
`Deactivate`. It is needed: with the first refused TLC finds the property
violated, with the second too, because nothing repeats a refused
command. Every run's `MayRefuse` satisfies it.

The other three theorems of the library are about a radio that is stopped, until the
application disables discovery. `Restarts` says that it is to be started again: the
handler has `StartRfDiscovery` ahead and no end of test before it, or the event of a
card emulation is on its way to the handler. `StoppedSeen` says that else the
library learns of the stop: `eDeviceState` is idle or becomes so by an event behind
which no other wakes it (`WillBeIdle`), and neither the handler nor the application
is between the command that starts discovery and the line that writes
DISCOVERY_STARTED (`Started`). That is inductive only with the order of the steps of
a call (`InOrder`: nothing starts in the middle of a start) and with what the
application does while it enables discovery: its calls are of `AppSteps`
(`AppCalls`), and, if the tester waits, the stack has nothing but answers to tell
(`Starting`). `Resumes` is the same for the configuration the handler restarts with:
where nothing is to start the radio, card emulation was not enabled. A radio that
stops is traced to who stopped it: a deactivation, a reader's end of its emulation,
or the handler, which has a start behind each of its stops (`NewlyStopped`).

The hypotheses of `StopsAreKnown` and `EmulationResumes`: `StartAccepted`, the stack
does not refuse `StartRfDiscovery`; `OneTarget`, several targets never answer the
poll together, so that the integration thread is never woken (`Sleeper`);
`OnlyReaders`, the tester presents readers only, for after a test with a tag or peer
the code may deactivate and not restart. `~EarlyTester` and `StartAccepted` are
needed for `StopsAreKnown`, see "Assumptions of the instances"; with several targets
`StoppedIsKnown` stays model-checked, in the setting `select` of `dta_reader`. An
instance with the settings `answers` and `contacts` alone satisfies those of
`StopsAreKnown`, one with `listen` alone those of `EmulationResumes`.

`LlcpResumes` asks for more than `StoppedIsKnown`: a radio in LLCP mode must not
only be known to have stopped, it must be started again, the first time included. In
this mode a round with a peer has no stop of its own: the link comes up by itself,
and only the report of its end makes the handler stop and start discovery.
`WillRestart` lists what starts a stopped radio: the application before it enables
discovery (`off`), while it sets LLCP up (`SettingUp`), or with the start itself
ahead (`AppStarts`); the handler (`Restarts`, as above); or the end of the contact
on its way to the handler (`EndReported`: in what the stack tells, in the callback,
or in the queue). That an end in the queue reaches the handler, and that it then has
the start ahead, needs `AppCalls` and `Served`. `SettingUp` has to say that every
call of the set-up succeeds, for `phDtaLib_EnableDiscovery` returns before the start
when one fails: the one answer a step waits for comes, and nothing else is in its
queue or on the way (`Answered`, with `Expected` and `Sole`). A tag may come in this
mode too; the Type 2 round puts it to sleep, and `Asleep` says that the handler then
has a deactivation ahead that no end of the test cuts off, so that a settled radio
is not asleep. `Chosen` says that LLCP mode was one the setting allows.

The hypotheses of `PeersResume` beyond those of the others: `SetUpAccepted`, of the
commands of the set-up only those may be refused whose refusal the code does not
look at; `OnHost`, card emulation, where it is configured, is on the host (the
set-up for the UICC and the secure element may fail for want of one); `OnTime`, no
answer is late in a setting that has LLCP. TLC finds the property violated without
any one of the six: with `StopRfDiscovery` or `Deactivate` refused (and a tag in the
field), with `StartRfDiscovery` or `RegisterServer` refused, with the UICC, with a
late answer, and with several targets. An early tester does no harm. An instance
with the settings `connect`, `data` and `other` alone satisfies them; in `dta_peers`
the setting `listen`, in which no link comes up, has the UICC.

In both `ContactsServed` and `PeersResume` contacts of an unknown protocol come
among the others, without bound, and only the state of being in one is excepted
(`Unattended`).

Only model-checked: liveness (outside what the prover does); of the library,
`NothingLeftInQueue`, which depends on the slots of the queues (see above), and
`NoLeakedConnection`, which depends on the bounds and settings of `dta_peers`; and
`StoppedIsKnown` where several targets answer together.

## 5. What is abstracted, and what is not modelled

In the modules:

* A series of `NFA_SetConfig` or NXP commands is one step.
* Frames, blocks and NDEF contents are left out; the number of blocks and
  frames of a test is a small choice.
* `llcpMode` is one flag for two conditions that the code tests separately (the
  peer-to-peer type LLCP, and the test patterns of LLCP and SNEP); in its mode
  contacts with a peer are left to LLCP callbacks, and `NoForgottenContact`
  exempts them.
* A pull by the wait macro and the comparisons of `g_dwEvtType` after it are one
  step. In the code the variable is global, and two threads in the macro at once
  may see each other's event; the model shows them taking each other's events
  from the queue.
* The assignments `gx_status = phMwIf_Transceive(...)` of callers are left out:
  the status they write is the one the callee ended with.
* A pull from a queue that was destroyed is left out of `DtaLifeCycle`, and so is
  the status of `NFA_DM_ENABLE_EVT`, which the code does not look at.
* In `NioServer` a read and its answers are one action, `LOG_*` files and status
  texts are left out, and so are exceptions of the JNI calls and of the number
  conversions inside a read; an `IOException` of a write is a `SocketException`.
  The branch of `write` that closes the channel after the answer to `$%STOP` is
  never reached, since the channel was closed before.
* In `MwIfData` an event of the callback changes the globals and the buffer in one
  step, bytes and lengths are counted in fragments, and the stack refuses a
  deactivation without a contact, where `NfcStack` also lets it report
  `NFA_DEACTIVATE_FAIL_EVT`. What an empty answer does to the loop back with a
  Type 4 tag (a copy of minus two bytes) is undefined; the model goes on, and an
  end of the program there is a prefix of what it does.
* `Copy`, the `memcpy` of lines 2799 and 3828, is one step of `MwIfData`. A thread
  that is suspended inside it while the contact ends and the next one sends could
  copy the beginning of one answer and the end of another, which `NeverMixed` does
  not see; nor does it see data of a card emulation (line 1554), which uses the same
  buffer and which `MwIfData` has no contact for. Fragments of chained data are in
  `MwIfData` only; `MwIf` has an answer whole.
* Asynchronous EE events (`NFA_EE_NEW_EE_EVT`, `NFA_EE_DISCOVER_REQ_EVT`) and the
  device management callback's RF field event are not modelled.
* An object that a failed push did not queue, or that an overwriting push
  replaced, leaves `live`: no reference is left, which in C is a leak.
* The removal of host emulation and of the secure element on disabling
  (`HceDeInit`, `EeDeInit`) is in the model; the one passing run in which the
  application disables discovery has no card emulation.

Not modelled, although it could be:

* lengths in bytes on the receive path: the 400 byte test looks at a fragment
  and not at the sum;
* a change of configuration or test profile while discovery runs;
* GUI calls that overlap: the Java side makes them from several tasks;
* the TCP client, which plays the tester and opens a connection per answer.

Not modelled because there is nothing to say: `phMwIf_LlcpRecvData` and
`phMwIf_LlcpSendData` (no caller in the repository), `phMwIf_VersionInfo`,
`phDtaLib_EeInit` and `phDtaLib_GetIUTInfo` (no state), NDEF reads through the
NDEF callback, logging, the adaptation wrapper (forwards to the stack's class),
the GUI's widgets, `PhEchoWorker` (what it is handed is dropped), SNEP record
formatting, build files. The RF field event is left out because it writes
`gx_status` before any check it likes, so nothing would hold.

## 6. Plan

Done: the queue and the list (checked and proved), the middleware interface with
the discovery loop and all tag, peer, LLCP and emulation operations, the receive
path (checked and proved), types, contacts and discovery of the library
proved, the life cycle (checked and proved), the TCP server (checked and proved).

Left, in this order:

1. Proofs: `StoppedIsKnown` with an integration thread that selects; that the
   queues of `MwIf` are `BoundedFifo`s.
2. Overlapping calls of the GUI in `DtaLifeCycle`.
3. The TCP client against `NioServer`.

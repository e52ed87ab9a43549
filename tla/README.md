# Verification of the embedded provisioning SDK

TLA+ models of the SDK's C code, the TLC configurations that check them on small
instances, and proofs checked by TLAPS. Sources are named relative to the root of
the repository; `PROJECT.json` maps each definition to the lines it models.

## 1. Inventory

| Component | State | Operations | Correct when |
|---|---|---|---|
| `pal_queue` (`platform/posix/pal_queue`) | a ring buffer, its indices and length, a mutex, two condition variables | create, send, receive, delete | FIFO, bounded, no item lost or doubled, no waiter sleeps over what it waits for |
| `pal_event` (`platform/posix/pal_event`) | a flag, a mutex, a condition variable | create, wait, set, delete | one set ends at most one wait, none is lost |
| `clock_posix` | none | `Clock_GetTimeMs`, sleep | differences of its 32-bit milliseconds are right |
| `mbedtls_pkcs11_posix` (transport) | a TLS context per caller, with the handle of its key in the PKCS #11 module | connect, disconnect, send, receive, sign | what connect allocates is released before the context is used again; a connection is made with the credentials asked for |
| command pool, agent messages (`freertos_command_pool.c`, `freertos_agent_message.c`) | a queue of free command structures; the command queue | get, release; send, receive | commands conserved, the release always finds room |
| `subscription_manager.c` | an array of 10 subscriptions | add, remove, handle an incoming publish | a set of subscriptions, each delivered once |
| `mqtt_agent.c` | agent context, global subscription list, per-thread user contexts (event, status, two queues of items) | init, thread loop, publish, add/remove subscription, with queue or callback; dequeue and free incoming publishes; create/delete user context | every call reports its own operation, list and broker agree, items and commands conserved |
| `mqtt_operations.c` | MQTT context, 3 global packet identifiers, the array of outgoing QoS1 publishes | establish and close a session, subscribe, unsubscribe, publish, process loop, `mqttCallback` | an answer is matched to its request, an accepted publish is delivered |
| `fleet_provisioning_keys_cert_demo.c` | status of the flow, payload buffer, response status | `ProvisionDevicePKCS11WithFP`, `provisioningPublishCallback` | success means the device can connect with what it stored |
| `fleet_provisioning_serializer.c` | none | generate and parse CBOR payloads | a payload of the wrong kind is not taken for another |
| `pkcs11_operations.c` | PKCS #11 objects | load claim credentials, key, certificate | key and certificate belong together |
| `main.c` | `messageReceiveFlag` of the handler | load the claim credentials, provision, then the agent in the main thread and a data model handler thread | the agent comes online whatever provisioning returned; the handler receives what it published while subscribed and nothing else |
| coreMQTT, coreMQTT-Agent, corePKCS11, mbedTLS, tinycbor, backoffAlgorithm, Fleet Provisioning | — | — | submodules without code here: external |

How they interact. An application thread calls `mqtt_agent.c`, which takes a
command from the pool, fills it through coreMQTT-Agent, sends it through the
command queue (a `pal_queue`), and waits on the event (a `pal_event`) of its user
context. The agent thread runs `MQTTAgent_CommandLoop`, which receives the command,
sends its packet and, at the acknowledgement, runs the completion callback in the
agent thread: it stores the status in the user context, changes the subscription
list and sets the event; then the command is released. An incoming publish goes to
`handleIncomingPublishes`, which runs the callbacks of the matching list entries;
the built-in one copies the publish into an item of the user context's queues.
Provisioning is a single thread without the agent: the flow calls
`mqtt_operations.c`, which calls `mqttCallback` and the flow's publish callback
from inside its waits. The flow and then the agent connect in the main thread, one
after the other, over one network context that each points to a static TLS context
of its own. The data model handler is the only application thread; it uses one user
context for all its calls.

What is hard here: the condition variables are signalled after the unlock; calls
time out while their commands are still pending and the callbacks run later on
shared state (and on stack frames); a lost connection gives up or resends what is
pending; packet identifiers restart with each connection; one buffer is shared by
responses and requests; a device may lose power between the steps that write its
credentials; connecting may fail at every stage, with other parts of the context
allocated, and the callers handle such failures each in their own way.

## 2. Modules

| Module | Models | Composes / implements |
|---|---|---|
| `BoundedQueue` | what a queue promises: a bounded FIFO of which each call takes effect once | abstract |
| `PalQueue` | `iotshdPal_syncQueueSend`, `...Receive`, a step per statement group between which another thread can run | implements `BoundedQueue` |
| `PalQueue_proofs` | proofs | |
| `BinaryEvent` | what an event promises | abstract |
| `PalEvent`, `PalEvent_proofs` | `iotshdPal_syncEventWait`, `...Set`; proofs | implements `BinaryEvent` |
| `SubscriptionSet` | a bounded set of (filter, receiver) | abstract |
| `SubscriptionList` | the functions of `subscription_manager.c` on the array, as pure operators | used by the next and by `MqttAgent` |
| `SubscriptionManager`, `..._proofs` | the list under every sequence of calls; proofs | implements `SubscriptionSet` |
| `MqttAgent`, `MqttAgent_proofs` | users, pool, command queue, command loop, callbacks, subscription list, reconnection, broker; proofs, which include those of `DataModelHandler` | `SubscriptionList`; queue and events at the level of `BoundedQueue` and `BinaryEvent` |
| `Mailbox` | a lossy bounded FIFO with borrowed items | abstract |
| `IncomingPublish`, `..._proofs` | the two item queues of a user context, agent thread and readers; proofs | implements `Mailbox` |
| `MqttOperations`, `..._proofs` | `mqtt_operations.c` with the network and a broker; proofs | |
| `FleetProvisioning`, `..._proofs` | `ProvisionDevicePKCS11WithFP`, its callback, the store, the cloud, restarts; proofs | EXTENDS `MqttOperations`; the proofs EXTEND `MqttOperations_proofs` |
| `DataModelHandler` | the loop of `prvDataModelHandlerThread`, over the agent, a user context's items and a broker that sends publishes back | EXTENDS `MqttAgent`, uses `Mailbox`; its proofs are in `MqttAgent_proofs` |
| `TlsTransport` | the functions of `mbedtls_pkcs11_posix.c` as actions on a context, one per function or stage of connecting | used by the next |
| `Connections`, `Connections_proofs` | `main()` as far as its connections go: claim credentials, the flow's iterations, the agent's thread loop; proofs | EXTENDS `TlsTransport` |
| `MC*` | values of constants that a cfg cannot write, symmetry | |

State and actions. The variables carry the names of the C variables where there is
one; what only the properties read is declared under `ghost` or said to be. In
`PalQueue` and `PalEvent` `pc` is the statement a thread is at, and actions are
the stretches between two points where the mutex is taken or released, with the
copy of an element and the update of the length apart from each other. In
`MqttAgent` a call is `Begin`, `GetCommand`, `SendCommand`, for subscribe and
unsubscribe `ClearEvent`, then `Wake` or `WaitTimesOut`; `Callback` is the whole
completion callback, used by the four ways a command can complete. A callback whose
caller has returned reads a dead stack frame: it may read the old filter, the
filter of the same user's next call, or kill the process. `connection` is `failed`
from an error of the command loop to the end of the attempt to connect that follows,
which is `Reconnected` or, back in the loop without a connection, `NotReconnected`. In `MqttOperations` an
action is a function's work up to its wait; `ReceivePacket` is one turn of
`MQTT_ProcessLoop` with `mqttCallback`; a failing `assert` ends the program
(`call = "aborted"`). `FleetProvisioning` runs a `Script` of the flow's steps; a
failed step skips the others, as `status` does in the code; every step may fail, the
parsing of a response too. `stage` of `TlsTransport`
is the function of a connect that runs next; `held` is what the context then owns, and
`leaked` (ghost) what an initialisation overwrites. `at` of `Connections` is the
statement of the main thread; what the flow and the agent do over a connection is left
to `FleetProvisioning` and `MqttAgent`, here it is only how it ends. `line` of
`DataModelHandler` runs through `Script`, the body of the handler's loop; a call of it
is the call of `MqttAgent`, a dequeue takes from the `Mailbox` that `IncomingPublish`
implements.

Definitions whose names say a defect (`AfterUnwrapped`, `UnlockForgotten`,
`OtherSame`, `PushShort`, ...) are not part of any specification. They are the
faults each property was tried against: with the definition they follow replaced by
them, TLC finds that property violated. `PROJECT.json` lists the pairs.

## 3. Runs

`tlc -config <cfg> <module>` in this directory; sizes are distinct states.

| Run (cfg) | Instance | Shows |
|---|---|---|
| queue (`MCPalQueue`) | 3 threads, 2 items, capacity 2, spurious wake-ups; symmetry of threads and of items; 294,784 | types, ring, no lost wake-up, FIFO |
| queue_woken (`MCPalQueueWoken`) | 3 threads, 1 item, capacity 1; 8,633 | a waiter is woken for what it waits for |
| event (`MCPalEvent`) | 2 waiters, 2 setters (one thread is both), spurious wake-ups; 2,407 | no lost wake-up, a set ends one wait, liveness of a waiter |
| subscriptions (`MCSubscriptionManager`) | 3 filters (a wildcard), 2 receivers, list of 3; 877 | no duplicates, the array is a set |
| agent (`MCMqttAgent`) | 2 users with a call each, 2 commands, queue of 1, 1 lost connection; 288,794 | commands conserved, completed once, coming back unless stranded |
| agent_patient (`MCMqttAgentPatient`) | 2 users with 2 calls each, no time-out of the last wait, no loss; 739,160 | list and broker agree, own statuses, publishes woken, no dead frame |
| agent_notify (`MCMqttAgentNotify`) | 1 user, 1 call | violated, see 6 |
| incoming (`MCIncomingPublish`) | 3 items, 2 readers, a short and a long message; 19,482 | items conserved, buffers fit, lossy FIFO |
| operations (`MCMqttOperations`) | 2 slots, 3 requests, 2 connections; 316,682 | identifiers unique, publishes kept, answers own |
| provisioning (`MCFleetProvisioning`) | 2 iterations, 2 connections, 2 key pairs, 1 restart, 1 repeated response; 2,333,875 | success is usable, only what is stored is registered, buffer and callback |
| connections (`MCConnections`) | 3 key pairs, 2 retries of an attempt, 3 iterations; 79,468 | contexts released before reuse, all or nothing, credentials as named, the agent comes online |
| handler (`MCDataModelHandler`) | 2 item places, 2 commands, 9 calls, 1 lost connection; symmetry of commands; 4,160,955 | the handler's checks pass, its items come back |

Why the bounds are enough. Capacity 2 is the least at which the ring wraps while it
holds an element; 3 threads let a third come between the unlock and the wake-up of
another. In `agent` the queue is shorter than the pool so that a caller blocks on it
while holding a command; in `agent_patient` two commands and a second call reach an
empty pool, because a command is released only after its owner was woken. One lost
connection already meets a command in each place (queue, hand, broker, wire).
`operations` needs a stored publish of one connection, and two requests of the next.
`provisioning` needs an iteration's connection and the device's, a key pair of the
run before the restart and one of the run after it, and 10 requests for the script.
`connections` has the claim pair and two device pairs, so that an iteration can leave a
key without its certificate, or another pair than an earlier run's. `handler` has as
many items as a round has publishes to its queue, and 9 calls: a whole round and the
first calls of the next.
Bounds that are not of the code (`MaxCalls`, `MaxLosses`, `MaxRequests`,
`MaxConnections`, `MaxOnWire`, `MaxKeys`, `MaxRepeats`, `MaxRestarts`) are constants,
each marked so. Where a model stops at such a bound, or where the program itself
ends (a flow that returned, an assertion, a dead process), deadlock is not checked;
it is for queue, event, subscriptions, incoming and connections.

Fairness. A pthread that can run is run, and one that keeps asking for a mutex gets
it (`SF` for taking it, which others can take in between). Nothing is assumed to
pass a deadline in `queue_woken` and `event`: only a broadcast is sure to end a
wait. In `agent`, waits end (each has a deadline), the agent thread runs, whatever an
attempt to connect then comes to, and the broker answers. That a connection is made is
not assumed: `iotshdDev_MQTTAgentThreadLoop` makes one attempt with a bounded back-off
when the command loop has failed, and goes back into the loop whatever came of it, so a
command that is pending then is `Stranded` until another one fails. `CommandsComeBack`
allows for that. Losing a connection is never required. In `connections` the main
thread runs; memory, the file of the root certificate and the PKCS #11 module fail
finitely often; the TCP connection, the
handshake and the CONNECT, tried again and again, succeed again and again, the last
because the peer does not always leave before it: back-off and the agent's loop try
them without end. There commands are assumed to go on coming, as the handler's do in its
endless loop; a handler that has died of a null item (section 6) sends none, and then a
lost connection may stay lost.

Conditional properties say so: `AnswerIsOwn` is about the first connection,
`RequestIntact` and `ResponseIsAnswer` about a device that has not restarted,
`PublishReportsOwn`, `FrameNotUsed` and `RoutesAgree` are checked where waits do not
time out, the last where the list has room as well; `ChecksPass` and `ItemsComeBack`
are about a handler that is not `disturbed`: none of its calls failed or returned
before its command completed, no sleep was shorter than the broker took, and no
connection was lost. Outside these conditions the code does not have the property
(section 6). The second part of `ItemsComeBack` has a weaker condition, `complained`:
an item can be kept for good only by a dequeue that the handler complains of.

## 4. Proofs

All for every value of the constants, checked by `tlapm`, which also rechecks the
lemmas they rest on.

* `PalQueue_proofs`: from `LengthAssumption`, `ThreadAssumption` and the item
  assumptions of `PalQueue`, `IndInv` is inductive (`Invariance`), whence `TypeOK`,
  `MutualExclusion`, `RingConsistent`, `NoLostWakeup`. None of these is inductive
  alone: that the index stays in the ring needs mutual exclusion, because a send
  reads the index under the mutex and copies with it later; that no wake-up is lost
  needs to know which calls have changed the queue and not yet broadcast
  (`StepsOrdered`). `Spec => ImplementsFifo`: the contents are read off the ring by
  `Contents`, which leaves out the slot that is being written and the one that has
  been read and not yet freed. Each action maps to a step of `BoundedQueue` or to
  none; the lemmas are about positions modulo the capacity.
* `PalEvent_proofs`: types, no lost wake-up, `Spec => ImplementsEvent`, by the same
  plan.
* `SubscriptionManager_proofs`: `NoDuplicates` and `Spec => ImplementsSet`: adding to
  the first free slot of an array without duplicates is adding to a set.

* `MqttAgent_proofs`: `TypeOK`, `PoolConserved` and `CompletedOnce`, for any users,
  commands, queue length, numbers of calls and of lost connections, with or without
  time-outs. `NotEmptyAssumption` says that there is a user, a filter and a receiver;
  the others are in `MqttAgent`. That a command is in exactly one place (`Placed`,
  `Apart`) is not inductive alone: a caller that sends needs to hold what it sends
  (`Holding`), and a reconnection clears pending commands only (`toClear`). That a call
  completes once needs the numbers of commands in flight to differ (`Numbered`), since
  a callback knows its call by what the command holds. `FrameNotUsed`,
  `PublishReportsOwn` and `PublishIsWoken` are proved under `~Impatient` (no wait for a
  completion reaches its deadline), as in `agent_patient`; with time-outs the code does
  not have them (section 6). The invariant then adds that a user with a command in
  flight still waits for that very call (`Awaited`), and that an event that is set is
  the own call's (`OwnEvent`): one proof for the three, because a frame that has been
  left and an event that is left over both come from a caller that went on too early.
  `RoutesAgree` is proved under the same hypothesis, no lost connection
  (`MaxLosses = 0`) and a list with room for every pair of a filter and a receiver
  (`ListSuffices`): all three hold in `agent_patient`, and without any of them the code
  does not have it. List and session differ while answers are on the wire; `Follows`
  says by how much: the last answer about a filter tells whether the session has it,
  and where there is none, list and session agree. Answers are handled in the order in
  which the broker gave them, and each belongs to a pending command (`OnWire`).
* `IncomingPublish_proofs`: `TypeOK`, `ItemsConserved`, `BuffersFit`, and
  `Spec => ImplementsMailbox`. The places an item can be are disjoint because neither
  queue repeats an item. With that, an item taken from the free queue, filled and queued
  by the agent thread is one accepted message of `Mailbox`; a message that finds no item
  is one it drops.
* `MqttOperations_proofs`: `TypeOK`, `StoredOnce`, `NeverForgotten` and `AnswerIsOwn`,
  for any array length and number of requests and connections. The invariant says that
  the identifier of a publish or PUBACK on the wire is recorded and belongs to no other
  stored publish (`Known`), that no two such packets share one (`OneEach`), and, for the
  first connection, that the packets of the request waited for are its own (`First`).
  `Known` is needed through the resend loop: the records are rebuilt one slot at a time,
  and only what has been resent may be on the wire.
* `FleetProvisioning_proofs` takes over that invariant, for the steps in which the flow
  calls `mqtt_operations.c`, and proves `FPTypeOK`, `SuccessIsUsable`,
  `RegisteredIsStored`, `ResponseIsAnswer`, `AssertionsHold` and `RequestIntact`, for any
  numbers of key pairs, iterations, repeated responses and restarts
  (`LimitsAssumption`). `Shape` and `Reached` follow the script up to success. `Asked`:
  whatever the cloud can be asked to register, in the buffer or on the wire, is in the
  store. It needs `KeysGoing`: once the flow has its key it unsubscribes, and because
  packets stay in order an UNSUBACK that has come is behind every response to the first
  request, so none of them can change the certificate that is stored next.
  `Controlled`: one subscribe or unsubscribe is outstanding at most, and the flow waits
  for it, which is why the assertions of `mqttCallback` hold here, though not in every
  use of `mqtt_operations.c`. `Fresh` is about a device that has not restarted,
  `Past` about the numbers of requests.
* `Connections_proofs`: `TypeOK`, `NothingLeaks`, `AllOrNothing`, `SessionIsSecured`,
  for any key pairs and any bound on retries and iterations (`LoopsAssumption`).
  `Building` says what the context owns at each stage of a connect, `Resting` what the
  two contexts own otherwise. That nothing leaks rests on the flow: it connects only
  with `status` true, and then its context has been released, because each path that
  leaves a connection open has set `status` to false (`Control`, `Resting`).
* `MqttAgent_proofs` takes its invariant over to `DataModelHandler`, whose steps are
  steps of `MqttAgent` or leave its variables alone, and proves `DMTypeOK`, `ChecksPass`
  and `ItemsComeBack` under `Alone`: the handler is the one user, with two different
  receivers and a topic without a wildcard, as in `main.c`; TLC evaluates `Alone` on the
  instance of `handler`. Time-outs and lost connections are allowed, and so is any number
  of rounds; `QueueSizeAssumption` asks for the two items that a round can fill (the code
  has ten). `ChecksPass` says only that `complained` implies `disturbed`, so the
  invariant has to say what an undisturbed handler can rely on at each line
  (`Expectations`). `InStep`: what is in flight is its current call, the one that the
  statement before `line` made. `Subscribed`: the broker's session is that of the
  statement being done, once the broker has answered, and the list is, once the callback
  has run. `Messaging`: what is on its way and what lies in the item queue are together
  the publishes of the round that have not been read, in their order. These need one
  another: a publish is routed to whoever the list names when it comes, a call
  completes once since it alone is in flight, and the sleep sees the flag set because the
  broker sent the publish before it acknowledged it. That items are given back unless a
  check has complained needs none of this (`AccountedStep`): it holds of disturbed
  rounds too. `Wires`, shared with `RoutesAgree`, says that requests and answers on the wire belong to pending commands; here it holds
  through lost connections too.

Before they were proved, the parts of each inductive invariant were checked by TLC on
the instances of section 3.

Only model-checked:

* liveness and fairness (`SetWakesWaiters`, `WaitersAreWoken`, `CommandsComeBack`,
  `ComesOnline`): ENABLED is out of the prover's reach.

Every safety property and every refinement that a passing run checks is proved.

No definition is recursive, so no proof needs an induction over data.

## 5. Not modelled

* `clock_posix.c` and the deadlines of `mqtt_operations.c`: a wait there may end at
  any moment, which includes every effect of the clock; the wrap of its 32 bits is
  not told apart.
* `iotshdDev_MQTTAgentDeleteUserContext`: nothing calls it, and its first call is
  already undefined: it receives from the queue it has just deleted
  (`mqtt_agent.c:438`, `:439`), then from a null pointer (`:451`).
* The parameters `Mbedtls_Pkcs11_Connect` refuses (both callers pass all of them), the
  bytes read and written, `generateRandomBytes` (its failure is a failing handshake).
* The PKCS #11 session and the conversion of keys: taken to succeed. Failure of
  `malloc` as well, except in the transport.
* The wrap of the 16-bit packet identifiers within one connection: the flow makes ten
  requests, and `IdentifiersAssumption` (`MaxRequests < 65535`) keeps the models below it.
* The lengths of delays: a back-off is a retry, `sleep(3)` of the handler may be
  shorter than the broker takes (then it is `disturbed`).
* CBOR: `FleetProvisioning` models what the parsers do with a response of the right
  and of the wrong kind (nothing, and success), not the encoding.
* Logging, the build and `tools/`.

## 6. What disagrees with the comments

Kept as a run with a counterexample:

* `agent_notify`: `mqtt_agent.c:616` clears the event after the command is queued; if
  the callback came first, "Notify the thread waiting for the response" (`:568`) is
  undone and the caller waits out its block time. The same for unsubscribe.

Met while modelling, and the reason why some properties are conditional or absent. For
the first three, TLC shows the counterexample on the instance that is named:

* A publish that timed out leaves an event behind that ends the wait of the next
  publish, which returns the earlier status (`mqtt_agent.c:473`, `:505`); the wait is
  1000 ms whatever `blockTimeMs` is. `PublishReportsOwn` fails with the constants of
  `agent_notify` and `MaxCalls = 2`.
  The handler meets this without a lost connection. A wait that reaches its deadline
  just as the completion comes leaves the event set; the next publish returns before it
  is acknowledged, and its completion ends the wait of the call after it, and so on into
  the next round, where the publish can come back before the SUBACK has been handled and
  find no subscription (`main.c:126`). In `DataModelHandler` a call that returns before
  its completion counts as a disturbance.
* After a subscribe timed out its callback reads the dead frame, which "should not be
  used in the callback" (`mqtt_agent.c:621`). `FrameNotUsed` fails with the constants of
  `agent_notify`.
* A PUBACK of a resent publish can end a wait for a SUBACK of a later connection, since
  identifiers restart while the identifier "used to match an expected ACK"
  (`mqtt_operations.c:195`) serves every kind of request (`:708`). `AckMatchesRequest`
  fails with the constants of `operations`.
* `iotshdDev_MQTTAgentAddSubscription` returns MQTTSuccess "to indicate success"
  (`mqtt_agent.h:110`) once the command is queued, also when the broker refused, the
  packet could not be sent or the list is full.
* After a connection without a session nothing is subscribed again (`mqtt_agent.c:228`,
  the call is commented out at `:231`).
* A SUBACK that refuses counts as success (`mqtt_operations.h:74`; its return codes are
  not read at `mqtt_operations.c:590`).
* The data model handler reads what a dequeue returned without looking for NULL
  (`main.c:172`, `:176`), though it may "return NULL to indicate error"
  (`mqtt_agent.h:174`) and a call before it may not be done in time.
* It never frees an item that comes when none is expected (`main.c:185`-`:196`), which a
  late publish can bring about: one that the agent handles only after the queue was
  subscribed, beside the round's own two.
* The waits of `pal_queue.c:88`, `:145` and `pal_event.c:52` compute their deadline
  anew on each turn; "Maximum block time" (`pal_queue.h:38`, `pal_event.h:31`) is no
  maximum for a thread that loses races.
* The agent attempts one connection after an error of its command loop, and does not
  look at what came of it (`mqtt_agent.c:357`-`:369`): a pending command is then stranded
  until another command fails.
* A stored publish is resent with what its buffer holds by then
  (`mqtt_operations.c:1079`).
* A SUBACK that comes when its wait has ended and another subscribe is under way has
  the earlier identifier, and `assert` at `mqtt_operations.c:588` ends the program. The
  provisioning flow stops at the first failed subscribe and does not reach this
  (`AssertionsHold` in `provisioning`).
* `status` stays false after a failed iteration, so the iterations that
  `fleet_provisioning_keys_cert_demo.c:733` announces skip every step.
* When the CONNECT is refused, or resending fails, the connection stays open
  (`mqtt_operations.c:867` says it will be closed). `NothingLeaks` holds all the same,
  because the failed `status` keeps the flow from connecting again: with `status` set
  back to true by the retry, TLC finds the open context overwritten.
* The deadlines of `mqtt_operations.c:704` and `:1123` are compared as absolute 32-bit
  milliseconds: near the wrap a wait ends at once, or not before the next wrap, while
  `clock_posix.c` says that the libraries handle the overflow.
* `privateKeySigningCallback` returns zero when signing failed
  (`mbedtls_pkcs11_posix.c:745`, "Zero on success").
* A read from a peer that left without a close-notify returns zero, like a time-out;
  the agent finds out at the next unanswered ping or failing command.
* A failed load of the claim credentials is only logged (`main.c:255`).
* After a restart with the broker's session kept, a late response can overwrite the
  generated request before it is published, or be taken for the answer to the
  registration (`fleet_provisioning_keys_cert_demo.c:265`, `:233`).

## 7. Plan

1. Done: the platform layer, the subscription list, the agent, incoming publishes,
   `mqtt_operations` and the flow; then the transport with the connections of `main()`,
   and the data model handler as a composition of the agent, the mailbox and a broker.
2. Left to model: `ProcessDeadline`, the waits of `mqtt_operations` with a clock modulo
   2^w, as operators with lemmas.
3. Proofs: every safety property and refinement of the passing runs is done. Left: the
   arithmetic of the clock, with its lemmas; and that the mailbox within
   `DataModelHandler` is `Mailbox`, which is now used there by instantiation only.

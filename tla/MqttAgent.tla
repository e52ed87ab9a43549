------------------------------ MODULE MqttAgent ------------------------------
(***************************************************************************)
(* libraries/mqtt_agent: application threads ("users") publish, subscribe  *)
(* and unsubscribe by handing commands to the agent thread and waiting for *)
(* their completion callback to set their event.                           *)
(*                                                                         *)
(* Each user has a user context of its own.  The command pool, the command *)
(* queue and the events are those of CommandPool, pal_queue and pal_event,  *)
(* taken at the level of BoundedQueue and BinaryEvent.  coreMQTT-Agent,     *)
(* coreMQTT and the broker are external: they are modelled from how the    *)
(* code of this repository calls them.                                     *)
(***************************************************************************)
EXTENDS SubscriptionList, Sequences

CONSTANTS
    Users,          \* application threads, each with its user context
    Commands,       \* commandStructurePool
    QueueLength,    \* MQTT_AGENT_COMMAND_QUEUE_LENGTH
    None,           \* no command
    ReceiversOf,    \* the receivers each user subscribes with: callbacks, its queue
    MaxCalls,       \* bound: calls a user makes
    MaxLosses,      \* bound: connections lost
    Impatient       \* whether a wait for a completion may reach its deadline

ASSUME NotEmptyAssumption == Users # {} /\ Filters # {} /\ Receivers # {}
ASSUME QueueAssumption == QueueLength \in Nat \ {0}
ASSUME ReceiversAssumption == ReceiversOf \in [Users -> (SUBSET Receivers) \ {{}}]
ASSUME NoneAssumption == None \notin Commands
ASSUME BoundAssumption == MaxCalls \in Nat /\ MaxLosses \in Nat
ASSUME PatienceAssumption == Impatient \in BOOLEAN

VARIABLES
    pc,             \* where each user is in its call
    call,           \* the call's kind, filter, receiver and number
    held,           \* the command a user took from the pool and not yet queued
    event,          \* pSyncEvent of each user context
    xReturnStatus,  \* of each user context, with the number of the call it is of
    result          \* how the user's last call ended

user == <<pc, call, held, event, xReturnStatus, result>>

VARIABLES
    pool,           \* commands in the pool's queue
    contents,       \* the call each command was filled for
    queue,          \* xCommandQueue
    inHand,         \* the command the agent has received and not yet processed
    pending,        \* commands sent to the broker and not acknowledged
    releasing,      \* the command whose callback has returned
    list            \* xGlobalSubscriptionList

agent == <<pool, contents, queue, inHand, pending, releasing, list>>

VARIABLES
    connection,     \* "up", "down" while the command loop runs without one,
                    \* "failed" once it has returned an error, or "resuming"
    toClear,        \* pending commands MQTTAgent_ResumeSession has given up
    toBroker,       \* requests on the wire
    toAgent,        \* acknowledgements on the wire
    session,        \* the filters the broker has for the client's session
    losses

network == <<connection, toClear, toBroker, toAgent, session, losses>>

VARIABLES
    running,        \* FALSE once the process has died of a wild access
    completed,      \* the calls whose completion callback has run
    deadFrame       \* a callback has read the stack frame of a call that returned

ghost == <<running, completed, deadFrame>>

vars == <<user, agent, network, ghost>>

Kinds == {"publish", "subscribe", "unsubscribe"}
CallNumbers == 0 .. MaxCalls
Calls == [kind : Kinds, filter : Filters, receiver : Receivers, number : CallNumbers]
OwnedCalls == [user : Users, call : Calls]

UserSteps == {"idle", "get", "getBlocked", "send", "sendBlocked", "clear",
              "wait", "blocked"}

TypeOK ==
    /\ pc \in [Users -> UserSteps]
    /\ call \in [Users -> Calls]
    /\ held \in [Users -> Commands \cup {None}]
    /\ event \in [Users -> BOOLEAN]
    /\ xReturnStatus \in [Users -> [ok : BOOLEAN, number : CallNumbers]]
    /\ result \in [Users -> [ok : BOOLEAN, woken : BOOLEAN, number : CallNumbers]]
    /\ pool \in SUBSET Commands
    /\ contents \in [Commands -> OwnedCalls]
    /\ queue \in Seq(Commands) /\ Len(queue) <= QueueLength
    /\ inHand \in Commands \cup {None}
    /\ pending \in SUBSET Commands
    /\ releasing \in Commands \cup {None}
    /\ list \in Lists
    /\ connection \in {"up", "down", "failed", "resuming"}
    /\ toClear \in SUBSET Commands
    /\ toBroker \in Seq(Commands)
    /\ toAgent \in Seq([command : Commands, ok : BOOLEAN])
    /\ session \in SUBSET Filters
    /\ losses \in 0 .. MaxLosses
    /\ running \in BOOLEAN
    /\ completed \in [Users -> SUBSET CallNumbers]
    /\ deadFrame \in BOOLEAN

NoCall == [kind |-> "publish", filter |-> CHOOSE f \in Filters : TRUE,
           receiver |-> CHOOSE r \in Receivers : TRUE, number |-> 0]

\* Agent_InitializePool and iotshdDev_MQTTAgentInit; the first connection, with
\* a clean session, may fail, and the loop is entered all the same.
Init ==
    /\ pc = [u \in Users |-> "idle"]
    /\ call = [u \in Users |-> NoCall]
    /\ held = [u \in Users |-> None]
    /\ event = [u \in Users |-> FALSE]
    /\ xReturnStatus = [u \in Users |-> [ok |-> TRUE, number |-> 0]]
    /\ result = [u \in Users |-> [ok |-> TRUE, woken |-> FALSE, number |-> 0]]
    /\ pool = Commands
    /\ contents \in [Commands -> {[user |-> CHOOSE u \in Users : TRUE, call |-> NoCall]}]
    /\ queue = <<>>
    /\ inHand = None
    /\ pending = {}
    /\ releasing = None
    /\ list = EmptyList
    /\ connection \in {"up", "down"}
    /\ toClear = {}
    /\ toBroker = <<>>
    /\ toAgent = <<>>
    /\ session = {}
    /\ losses = 0
    /\ running = TRUE
    /\ completed = [u \in Users |-> {}]
    /\ deadFrame = FALSE

-----------------------------------------------------------------------------
(* The application's calls: iotshdDev_MQTTAgentPublish, ...AddSubscription  *)
(* and ...RemoveSubscription.                                              *)

\* A thread runs only while the process lives.
At(u, steps) == running /\ pc[u] \in steps
Goto(u, label) == pc' = [pc EXCEPT ![u] = label]

Begin(u, kind, f, r) ==
    /\ At(u, {"idle"})
    /\ call[u].number < MaxCalls
    /\ call' = [call EXCEPT ![u] =
                  [kind |-> kind, filter |-> f, receiver |-> r,
                   number |-> call[u].number + 1]]
    /\ Goto(u, "get")
    /\ UNCHANGED <<held, event, xReturnStatus, result, agent, network, ghost>>

Return(u, ok, woken) ==
    /\ Goto(u, "idle")
    /\ result' = [result EXCEPT ![u] =
                    [ok |-> ok, woken |-> woken,
                     number |-> IF woken /\ call[u].kind = "publish"
                                THEN xReturnStatus[u].number
                                ELSE call[u].number]]

GetCommandShared(u) ==
    /\ At(u, {"get", "getBlocked"})
    /\ \E c \in pool :
          /\ held' = [held EXCEPT ![u] = c]
          /\ contents' = [contents EXCEPT ![c] = [user |-> u, call |-> call[u]]]
    /\ Goto(u, "send")
    /\ UNCHANGED <<pool, call, event, xReturnStatus, result, queue, inHand,
                   pending, releasing, list, network, ghost>>

\* Agent_GetCommand takes a structure from the pool, which MQTTAgent_Publish
\* and its siblings fill in.
GetCommand(u) ==
    /\ At(u, {"get", "getBlocked"})
    /\ \E c \in pool :
          /\ pool' = pool \ {c}
          /\ held' = [held EXCEPT ![u] = c]
          /\ contents' = [contents EXCEPT ![c] = [user |-> u, call |-> call[u]]]
    /\ Goto(u, "send")
    /\ UNCHANGED <<call, event, xReturnStatus, result, queue, inHand, pending,
                   releasing, list, network, ghost>>

GetBlocks(u) ==
    /\ At(u, {"get"})
    /\ pool = {}
    /\ Goto(u, "getBlocked")
    /\ UNCHANGED <<call, held, event, xReturnStatus, result, agent, network, ghost>>

\* MQTTNoMemory.
GetTimesOut(u) ==
    /\ At(u, {"getBlocked"})
    /\ Return(u, FALSE, FALSE)
    /\ UNCHANGED <<call, held, event, xReturnStatus, agent, network, ghost>>

QueueNeverFull == FALSE
QueueFull == Len(queue) >= QueueLength

\* Publish waits at once, the others first clear the event.
AfterSendClears(kind) == "clear"
AfterSend(kind) == IF kind = "publish" THEN "wait" ELSE "clear"

\* Agent_MessageSend to the command queue.
SendCommand(u) ==
    /\ At(u, {"send", "sendBlocked"})
    /\ ~QueueFull
    /\ queue' = Append(queue, held[u])
    /\ held' = [held EXCEPT ![u] = None]
    /\ Goto(u, AfterSend(call[u].kind))
    /\ UNCHANGED <<call, event, xReturnStatus, result, pool, contents, inHand,
                   pending, releasing, list, network, ghost>>

SendBlocks(u) ==
    /\ At(u, {"send"})
    /\ QueueFull
    /\ Goto(u, "sendBlocked")
    /\ UNCHANGED <<call, held, event, xReturnStatus, result, agent, network, ghost>>

\* MQTTSendFailed: the command goes back to the pool.
SendTimesOut(u) ==
    /\ At(u, {"sendBlocked"})
    /\ pool' = pool \cup {held[u]}
    /\ held' = [held EXCEPT ![u] = None]
    /\ Return(u, FALSE, FALSE)
    /\ UNCHANGED <<call, event, xReturnStatus, contents, queue, inHand, pending,
                   releasing, list, network, ghost>>

\* The wait with block time zero that subscribe and unsubscribe do after they
\* have queued the command.
ClearEvent(u) ==
    /\ At(u, {"clear"})
    /\ event' = [event EXCEPT ![u] = FALSE]
    /\ Goto(u, "wait")
    /\ UNCHANGED <<call, held, xReturnStatus, result, agent, network, ghost>>

\* A publish returns the stored status, the others that the command was added.
Wake(u) ==
    /\ At(u, {"wait", "blocked"})
    /\ event[u]
    /\ event' = [event EXCEPT ![u] = FALSE]
    /\ Return(u, call[u].kind = "publish" => xReturnStatus[u].ok, TRUE)
    /\ UNCHANGED <<call, held, xReturnStatus, agent, network, ghost>>

WaitReturns(u) ==
    /\ At(u, {"wait"})
    /\ ~event[u]
    /\ Return(u, TRUE, FALSE)
    /\ UNCHANGED <<call, held, event, xReturnStatus, agent, network, ghost>>

WaitBlocks(u) ==
    /\ At(u, {"wait"})
    /\ ~event[u]
    /\ Goto(u, "blocked")
    /\ UNCHANGED <<call, held, event, xReturnStatus, result, agent, network, ghost>>

\* The call returns MQTTSuccess: the command was added.
WaitTimesOut(u) ==
    /\ Impatient
    /\ At(u, {"blocked"})
    /\ Return(u, TRUE, FALSE)
    /\ UNCHANGED <<call, held, event, xReturnStatus, agent, network, ghost>>

UserStep(u) ==
    \/ GetCommand(u) \/ GetBlocks(u) \/ GetTimesOut(u)
    \/ SendCommand(u) \/ SendBlocks(u) \/ SendTimesOut(u)
    \/ ClearEvent(u) \/ Wake(u) \/ WaitBlocks(u) \/ WaitTimesOut(u)

-----------------------------------------------------------------------------
(* The agent thread: MQTTAgent_CommandLoop, which runs the completion       *)
(* callbacks, and the reconnection of iotshdDev_MQTTAgentThreadLoop.        *)

\* The stack frame of the call that a subscribe or unsubscribe command points
\* to is alive.
FrameAlive(owner) ==
    pc[owner.user] # "idle" /\ call[owner.user].number = owner.call.number

EntryOf(c) == [filter |-> c.filter, receiver |-> c.receiver]

\* What a callback may read through its context: its own filter and receiver,
\* or, when the frame is dead, also those of the same user's next call, which
\* has put its context in the same place.
EntriesRead(owner) ==
    {EntryOf(owner.call)} \cup
    {e \in {EntryOf(call[owner.user])} :
        /\ ~FrameAlive(owner)
        /\ pc[owner.user] # "idle"
        /\ call[owner.user].kind # "publish"}

UpdatedAlways(owner, e, ok) ==
    CASE owner.call.kind = "subscribe" -> addSubscription(list, e)
      [] owner.call.kind = "unsubscribe" -> removeSubscription(list, e.filter)
      [] OTHER -> list

\* The list after prvAgetSubscribeCommandCallback or
\* prvAgetUnsubscribeCommandCallback has run with this filter and receiver.
Updated(owner, e, ok) ==
    CASE ok /\ owner.call.kind = "subscribe" -> addSubscription(list, e)
      [] ok /\ owner.call.kind = "unsubscribe" -> removeSubscription(list, e.filter)
      [] OTHER -> list

\* The completion callback of command c: it stores the status in the user
\* context, updates the list and sets the event.
Callback(c, ok) ==
    LET owner == contents[c]
        u == owner.user
        dead == owner.call.kind # "publish" /\ ~FrameAlive(owner)
    IN  /\ releasing' = c
        /\ completed' = [completed EXCEPT ![u] = @ \cup {owner.call.number}]
        /\ deadFrame' = (deadFrame \/ dead)
        /\ \/ /\ xReturnStatus' = [xReturnStatus EXCEPT ![u] =
                                      [ok |-> ok, number |-> owner.call.number]]
              /\ \E e \in EntriesRead(owner) : list' = Updated(owner, e, ok)
              /\ event' = [event EXCEPT ![u] = TRUE]
              /\ UNCHANGED running
           \/ /\ dead
              /\ running' = FALSE
              /\ UNCHANGED <<xReturnStatus, list, event>>
        /\ UNCHANGED <<pc, call, held, result, pool, contents>>

\* The agent does one thing at a time: it is between two of them.
AgentFree == running /\ inHand = None /\ releasing = None

Receive ==
    /\ AgentFree /\ connection \in {"up", "down"}
    /\ queue # <<>>
    /\ inHand' = Head(queue)
    /\ queue' = Tail(queue)
    /\ UNCHANGED <<user, pool, contents, pending, releasing, list, network, ghost>>

\* The command's packet is sent and its acknowledgement awaited.
ProcessSent ==
    /\ running /\ inHand # None /\ connection = "up"
    /\ pending' = pending \cup {inHand}
    /\ toBroker' = Append(toBroker, inHand)
    /\ inHand' = None
    /\ UNCHANGED <<user, pool, contents, queue, releasing, list, connection,
                   toClear, toAgent, session, losses, ghost>>

\* A publish of QoS 0 is complete when it is sent.
ProcessAtMostOnce ==
    /\ running /\ inHand # None /\ connection = "up"
    /\ contents[inHand].call.kind = "publish"
    /\ Callback(inHand, TRUE)
    /\ inHand' = None
    /\ UNCHANGED <<queue, pending, network>>

\* Without a connection the command fails, and with it the command loop.
ProcessFails ==
    /\ running /\ inHand # None /\ connection \in {"down", "failed"}
    /\ Callback(inHand, FALSE)
    /\ inHand' = None
    /\ connection' = "failed"
    /\ UNCHANGED <<queue, pending, toClear, toBroker, toAgent, session, losses>>

ReleaseForgotten ==
    /\ running /\ releasing # None
    /\ releasing' = None
    /\ UNCHANGED <<user, pool, contents, queue, inHand, pending, list, network, ghost>>

\* Agent_ReleaseCommand, after the callback.
Release ==
    /\ running /\ releasing # None
    /\ pool' = pool \cup {releasing}
    /\ releasing' = None
    /\ UNCHANGED <<user, contents, queue, inHand, pending, list, network, ghost>>

\* MQTT_ProcessLoop reads an acknowledgement.
Acknowledged ==
    /\ AgentFree /\ connection = "up"
    /\ toAgent # <<>>
    /\ toAgent' = Tail(toAgent)
    /\ Head(toAgent).command \in pending
    /\ Callback(Head(toAgent).command, Head(toAgent).ok)
    /\ pending' = pending \ {Head(toAgent).command}
    /\ UNCHANGED <<queue, inHand, connection, toClear, toBroker, session, losses>>

\* The command loop returns an error, possibly with a command in hand whose
\* packet could not be sent, and the loop disconnects TLS: what was on the
\* wire is lost.
ConnectionLost ==
    /\ running /\ connection = "up" /\ releasing = None
    /\ losses < MaxLosses
    /\ losses' = losses + 1
    /\ connection' = "failed"
    /\ toBroker' = <<>>
    /\ toAgent' = <<>>
    /\ UNCHANGED <<user, agent, toClear, session, ghost>>

IsPublish(c) == contents[c].call.kind = "publish"

\* One attempt to connect follows a command loop that has failed: TCP with a
\* bounded number of retries, and the CONNECT. Without a connection the command
\* loop is entered again, where only another command can fail.
NotReconnected ==
    /\ connection = "failed" /\ AgentFree
    /\ connection' = "down"
    /\ UNCHANGED <<user, agent, toClear, toBroker, toAgent, session, losses, ghost>>

\* prvMQTTConnect( false ) succeeds: MQTTAgent_ResumeSession gives up all that
\* is pending when the broker has no session, and the subscribes and
\* unsubscribes when it has. Nothing is subscribed again.
Reconnected(sessionPresent) ==
    /\ connection = "failed" /\ AgentFree
    /\ connection' = "resuming"
    /\ toClear' = IF sessionPresent THEN {c \in pending : ~IsPublish(c)} ELSE pending
    /\ session' = IF sessionPresent THEN session ELSE {}
    /\ UNCHANGED <<user, agent, toBroker, toAgent, losses, ghost>>

GiveUp(c) ==
    /\ running /\ connection = "resuming" /\ releasing = None
    /\ c \in toClear
    /\ toClear' = toClear \ {c}
    /\ pending' = pending \ {c}
    /\ Callback(c, FALSE)
    /\ UNCHANGED <<queue, inHand, connection, toBroker, toAgent, session, losses>>

\* The publishes that are still pending are sent again, in some order.
Resumed ==
    /\ running /\ connection = "resuming" /\ releasing = None
    /\ toClear = {}
    /\ connection' = "up"
    /\ toBroker' \in {q \in [1 .. Cardinality(pending) -> pending] :
                         \A i, j \in DOMAIN q : q[i] = q[j] => i = j}
    /\ UNCHANGED <<user, agent, toClear, toAgent, session, losses, ghost>>

\* The broker handles a request and acknowledges it; it may refuse a
\* subscription.
BrokerAnswers ==
    /\ running /\ toBroker # <<>>
    /\ toBroker' = Tail(toBroker)
    /\ LET c == Head(toBroker)
           f == contents[c].call.filter
       IN  \E ok \in IF contents[c].call.kind = "subscribe" THEN BOOLEAN ELSE {TRUE} :
              /\ toAgent' = Append(toAgent, [command |-> c, ok |-> ok])
              /\ session' = CASE contents[c].call.kind = "subscribe" /\ ok ->
                                     session \cup {f}
                               [] contents[c].call.kind = "unsubscribe" ->
                                     session \ {f}
                               [] OTHER -> session
    /\ UNCHANGED <<user, agent, connection, toClear, losses, ghost>>

AgentStep ==
    \/ Receive \/ ProcessSent \/ ProcessAtMostOnce \/ ProcessFails \/ Release
    \/ Acknowledged \/ Resumed \/ NotReconnected
    \/ \E sessionPresent \in BOOLEAN : Reconnected(sessionPresent)
    \/ \E c \in Commands : GiveUp(c)

Next ==
    \/ \E u \in Users :
          \/ \E kind \in Kinds, f \in Filters, r \in ReceiversOf[u] : Begin(u, kind, f, r)
          \/ UserStep(u)
    \/ AgentStep
    \/ ConnectionLost
    \/ BrokerAnswers

Spec == Init /\ [][Next]_vars

\* The threads are scheduled, what waits reaches its deadline, and the broker
\* answers. An attempt to connect ends, but need not succeed.
Fairness ==
    /\ \A u \in Users : WF_vars(UserStep(u))
    /\ WF_vars(AgentStep)
    /\ WF_vars(BrokerAnswers)

FairSpec == Spec /\ Fairness

-----------------------------------------------------------------------------
(* Safety. *)

InQueue == {queue[i] : i \in DOMAIN queue}
HeldByUsers == {held[u] : u \in Users} \ {None}

\* Where a command can be; toClear is a part of pending.
Places == <<pool, HeldByUsers, InQueue, {inHand} \ {None}, pending,
            {releasing} \ {None}>>

\* Every command is in exactly one place, once: none leaks on any path, timed
\* out, failed or given up, and none is released twice, so the send back into
\* the pool's queue always finds room.
PoolConserved ==
    /\ \A c \in Commands : \E i \in DOMAIN Places : c \in Places[i]
    /\ \A i, j \in DOMAIN Places : i # j => Places[i] \cap Places[j] = {}
    /\ \A u, v \in Users : held[u] = held[v] /\ held[u] # None => u = v
    /\ \A i, j \in DOMAIN queue : queue[i] = queue[j] => i = j
    /\ toClear \subseteq pending

\* A call has one completion: no command whose callback has run is still on
\* its way to another, whatever was lost, resent or given up.
CompletedOnce ==
    \A c \in InQueue \cup ({inHand} \ {None}) \cup pending :
        contents[c].call.number \notin completed[contents[c].user]

\* While nothing is on its way the list routes the filters the broker has in
\* the session, and no others, as long as no connection is lost, no wait
\* reaches its deadline and the list has room for every pair of a filter and a
\* receiver: refused subscriptions and operations of several users on one
\* filter included.
Settled ==
    /\ connection = "up" /\ pending = {} /\ inHand = None
    /\ \A c \in InQueue \cup HeldByUsers : IsPublish(c)
RoutesAgree ==
    Settled => session = {list[i].filter : i \in Indices \ FreeSlots(list)}

\* Store the result in the application defined context so the task that
\* initiated the publish can check the operation's status
\* (mqtt_agent.c:473-474): as long as no wait reaches its deadline, the status
\* a publish returns is that of its own operation.
PublishReportsOwn ==
    \A u \in Users :
        pc[u] = "idle" /\ result[u].woken => result[u].number = call[u].number

\* The event of a publish is set from its completion until its wait sees it:
\* the waits that clear the event for subscribe and unsubscribe, and the late
\* completions of earlier calls, take nothing from it.
PublishIsWoken ==
    \A u \in Users :
        /\ pc[u] \in {"wait", "blocked"} /\ call[u].kind = "publish"
        /\ call[u].number \in completed[u]
        => event[u]

\* Notify the thread waiting for the response (mqtt_agent.c:568): while a
\* thread waits for a completion that has come, its event is set.
CompletionEndsWait ==
    \A u \in Users :
        pc[u] \in {"wait", "blocked"} /\ call[u].number \in completed[u] =>
            event[u]

\* The stack memory should not be used in the callback once the call has
\* returned (mqtt_agent.c:620-621): as long as no wait reaches its deadline, it
\* is not.
FrameNotUsed == ~deadFrame

-----------------------------------------------------------------------------
(* Liveness. *)

\* A pending command whose acknowledgement cannot come: the attempt to connect
\* has failed, and only the failure of another command makes the next one.
Stranded(c) == connection = "down" /\ c \in pending

\* Every command comes back to the pool, through lost connections, failed
\* attempts and calls that stopped waiting, unless it is stranded or the process
\* dies; one that is stranded is on its way again with the next attempt
\* (mqtt_agent.c:341-371).
CommandsComeBack ==
    \A c \in Commands : c \notin pool ~> c \in pool \/ Stranded(c) \/ ~running
=============================================================================

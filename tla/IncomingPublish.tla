--------------------------- MODULE IncomingPublish ---------------------------
(***************************************************************************)
(* The incoming publishes of one user context of mqtt_agent.c.  The agent  *)
(* thread runs mqttAgentEnqueuePublishCallback, which copies a publish out *)
(* of the network buffer into a queue item; application threads dequeue    *)
(* items, read them and give them back.  The items circulate through two   *)
(* queues, taken here at the level of BoundedQueue.                        *)
(*                                                                         *)
(* A message stands for a topic and a payload, Required for the bytes they *)
(* take with their terminators.  malloc is taken to succeed.               *)
(***************************************************************************)
EXTENDS Naturals, Sequences, FiniteSets

CONSTANTS
    QueueItems,     \* pQueueItems of the context
    Messages,
    Required,       \* requiredTopicPayloadSize of each message
    Readers,        \* application threads
    NoItem,
    NoMessage       \* a zeroed publishInfo

ASSUME ItemsAssumption == IsFiniteSet(QueueItems) /\ NoItem \notin QueueItems
ASSUME MessagesAssumption ==
    Required \in [Messages -> Nat \ {0}] /\ NoMessage \notin Messages

VARIABLES
    freeItems,      \* pFreePublishMessageQueue
    incoming,       \* pIncommingPublishQueue
    bufferSize,     \* topicPayloadBufferSize of each item; zero: no buffer
    allocated,      \* the bytes its buffer has
    publishInfo,    \* what its publishInfo points to
    agentPc,        \* where the agent thread is in the callback
    publish,        \* the publish it is handling
    agentItem,      \* pQueueItem of the callback
    readerItem,     \* the item each reader has dequeued
    last            \* what became of the last publish

vars == <<freeItems, incoming, bufferSize, allocated, publishInfo,
          agentPc, publish, agentItem, readerItem, last>>

Size == Cardinality(QueueItems)

TypeOK ==
    /\ freeItems \in Seq(QueueItems) /\ Len(freeItems) <= Size
    /\ incoming \in Seq(QueueItems) /\ Len(incoming) <= Size
    /\ bufferSize \in [QueueItems -> Nat]
    /\ allocated \in [QueueItems -> Nat]
    /\ publishInfo \in [QueueItems -> Messages \cup {NoMessage}]
    /\ agentPc \in {"idle", "take", "fill", "enqueue"}
    /\ publish \in Messages \cup {NoMessage}
    /\ agentItem \in QueueItems \cup {NoItem}
    /\ agentItem # NoItem <=> agentPc \in {"fill", "enqueue"}
    /\ readerItem \in [Readers -> QueueItems \cup {NoItem}]
    /\ last \in {"none", "accepted", "refused"}

\* iotshdDev_MQTTAgentCreateUserContext: the items, zeroed, are all queued as
\* free, in the order of the array.
Init ==
    /\ freeItems \in {s \in [1 .. Size -> QueueItems] :
                         \A i, j \in 1 .. Size : s[i] = s[j] => i = j}
    /\ incoming = <<>>
    /\ bufferSize = [q \in QueueItems |-> 0]
    /\ allocated = [q \in QueueItems |-> 0]
    /\ publishInfo = [q \in QueueItems |-> NoMessage]
    /\ agentPc = "idle"
    /\ publish = NoMessage
    /\ agentItem = NoItem
    /\ readerItem = [r \in Readers |-> NoItem]
    /\ last = "none"

-----------------------------------------------------------------------------
(* The agent thread. *)

\* handleIncomingPublishes calls the callback.
Callback(m) ==
    /\ agentPc = "idle"
    /\ agentPc' = "take"
    /\ publish' = m
    /\ UNCHANGED <<freeItems, incoming, bufferSize, allocated, publishInfo,
                   agentItem, readerItem, last>>

TakeFree ==
    /\ agentPc = "take"
    /\ freeItems # <<>>
    /\ agentItem' = Head(freeItems)
    /\ freeItems' = Tail(freeItems)
    /\ agentPc' = "fill"
    /\ UNCHANGED <<incoming, bufferSize, allocated, publishInfo, publish,
                   readerItem, last>>

DropUnchecked ==
    /\ agentPc = "take" /\ freeItems = <<>>
    /\ agentPc' = "fill"
    /\ UNCHANGED <<freeItems, incoming, bufferSize, allocated, publishInfo,
                   publish, agentItem, readerItem, last>>

\* No item is free: the callback returns and the publish is lost.
Drop ==
    /\ agentPc = "take"
    /\ freeItems = <<>>
    /\ agentPc' = "idle"
    /\ publish' = NoMessage
    /\ last' = "refused"
    /\ UNCHANGED <<freeItems, incoming, bufferSize, allocated, publishInfo,
                   agentItem, readerItem>>

ReusableAny(q, m) == bufferSize[q] # 0

\* The buffer an earlier publish has left is kept when it is large enough.
Reusable(q, m) == bufferSize[q] >= Required[m]

Fill ==
    /\ agentPc = "fill"
    /\ publishInfo' = [publishInfo EXCEPT ![agentItem] = publish]
    /\ IF Reusable(agentItem, publish)
       THEN UNCHANGED <<bufferSize, allocated>>
       ELSE /\ bufferSize' = [bufferSize EXCEPT ![agentItem] = Required[publish]]
            /\ allocated' = [allocated EXCEPT ![agentItem] = Required[publish]]
    /\ agentPc' = "enqueue"
    /\ UNCHANGED <<freeItems, incoming, publish, agentItem, readerItem, last>>

PushShort(queue, q) == IF Len(queue) < Size - 1 THEN Append(queue, q) ELSE queue

\* The sends of items do not wait and their results are ignored: without room
\* the item would be lost.
Push(queue, q) == IF Len(queue) < Size THEN Append(queue, q) ELSE queue

Enqueue ==
    /\ agentPc = "enqueue"
    /\ incoming' = Push(incoming, agentItem)
    /\ agentItem' = NoItem
    /\ agentPc' = "idle"
    /\ publish' = NoMessage
    /\ last' = "accepted"
    /\ UNCHANGED <<freeItems, bufferSize, allocated, publishInfo, readerItem>>

-----------------------------------------------------------------------------
(* The application. *)

\* iotshdDev_MQTTAgentDequeueIncommingPublish; a call that times out returns
\* NULL and changes nothing.
Dequeue(r) ==
    /\ readerItem[r] = NoItem
    /\ incoming # <<>>
    /\ readerItem' = [readerItem EXCEPT ![r] = Head(incoming)]
    /\ incoming' = Tail(incoming)
    /\ UNCHANGED <<freeItems, bufferSize, allocated, publishInfo, agentPc,
                   publish, agentItem, last>>

\* iotshdDev_MQTTAgentFreeIncommingPublish.
Free(r, freeBuffer) ==
    LET q == readerItem[r]
    IN  /\ q # NoItem
        /\ bufferSize' = IF freeBuffer THEN [bufferSize EXCEPT ![q] = 0]
                                       ELSE bufferSize
        /\ allocated' = IF freeBuffer THEN [allocated EXCEPT ![q] = 0]
                                      ELSE allocated
        /\ publishInfo' = [publishInfo EXCEPT ![q] = NoMessage]
        /\ freeItems' = Push(freeItems, q)
        /\ readerItem' = [readerItem EXCEPT ![r] = NoItem]
        /\ UNCHANGED <<incoming, agentPc, publish, agentItem, last>>

Next ==
    \/ \E m \in Messages : Callback(m)
    \/ TakeFree \/ Drop \/ Fill \/ Enqueue
    \/ \E r \in Readers :
          \/ Dequeue(r)
          \/ \E freeBuffer \in BOOLEAN : Free(r, freeBuffer)

Spec == Init /\ [][Next]_vars

-----------------------------------------------------------------------------
(* Safety. *)

Elements(s) == {s[i] : i \in DOMAIN s}
NoRepetition(s) == \A i, j \in DOMAIN s : s[i] = s[j] => i = j

\* Every item is in exactly one place: in one of the queues, once, or in the
\* hands of one thread, which is therefore alone when it writes or frees the
\* buffer.
ItemsConserved ==
    /\ NoRepetition(freeItems) /\ NoRepetition(incoming)
    /\ Elements(freeItems) \cap Elements(incoming) = {}
    /\ agentItem \notin Elements(freeItems) \cup Elements(incoming)
    /\ \A r \in Readers :
          /\ readerItem[r] \notin Elements(freeItems) \cup Elements(incoming)
          /\ readerItem[r] # NoItem =>
                /\ readerItem[r] # agentItem
                /\ \A s \in Readers : readerItem[s] = readerItem[r] => s = r
    /\ QueueItems \subseteq Elements(freeItems) \cup Elements(incoming)
                    \cup {agentItem} \cup {readerItem[r] : r \in Readers}

\* An item that carries a publish has a buffer with room for the topic, the
\* payload and their terminators, also when the buffer is one that an earlier,
\* shorter publish left; and the size it records is the size it has.
BuffersFit ==
    \A q \in QueueItems :
        /\ bufferSize[q] = allocated[q]
        /\ publishInfo[q] # NoMessage => allocated[q] >= Required[publishInfo[q]]

\* The two queues and the circulating items are the mailbox an application
\* expects: publishes are read in the order they came, unchanged, and one is
\* refused only while every item is in use.
Box ==
    INSTANCE Mailbox WITH
        box <- [i \in DOMAIN incoming |-> publishInfo[incoming[i]]],
        reading <- [r \in Readers |->
                       IF readerItem[r] = NoItem THEN NoMessage
                       ELSE publishInfo[readerItem[r]]]
ImplementsMailbox == Box!Spec
=============================================================================

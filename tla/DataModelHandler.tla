-------------------------- MODULE DataModelHandler --------------------------
(***************************************************************************)
(* The thread of main.c that uses the agent: it subscribes with a callback *)
(* and with a queue, publishes to the topic it subscribed to, and checks   *)
(* that it receives what it should and nothing else.                       *)
(*                                                                         *)
(* It composes the handler, the agent (MqttAgent), a user context's item   *)
(* queues (Mailbox, which IncomingPublish implements) and a broker that    *)
(* sends the publishes back.  There is one user and one topic.             *)
(***************************************************************************)
EXTENDS MqttAgent

CONSTANTS
    Handler,                \* the handler's user context
    CallbackReceiver,       \* prvDataModelHandlerIncommingPublish
    QueueReceiver,          \* the built-in callback with the user context
    QueueSize               \* items of the user context

\* A round has two publishes to the queue; the code makes room for ten.
ASSUME QueueSizeAssumption == QueueSize \in Nat /\ QueueSize >= 2

VARIABLES
    line,                   \* the statement of the handler's loop
    messageReceiveFlag,
    pQueueItem,             \* what the last dequeue returned, or NoItem
    box, reading, last,     \* of the mailbox
    deliveries              \* publishes on their way from the broker

VARIABLES
    sent,                   \* ghost: the last two publishes
    complained,             \* ghost: a check of the handler has failed
    disturbed               \* ghost: a call failed or was late

handler == <<line, messageReceiveFlag, pQueueItem, sent, complained, disturbed>>
mail == <<box, reading, last>>
dmVars == <<vars, handler, mail, deliveries>>

NoMessage == 0
Messages == 1 .. MaxCalls
Items == 1 .. QueueSize     \* places for dequeued items, the mailbox's readers
NoItem == 0

mailbox == INSTANCE Mailbox WITH Size <- QueueSize, Readers <- Items

Topic == CHOOSE f \in Filters : TRUE

\* The handler is the only user, its two receivers differ, and its topic has no
\* wildcard.
Alone ==
    /\ Users = {Handler}
    /\ ReceiversOf[Handler] = {CallbackReceiver, QueueReceiver}
    /\ CallbackReceiver # QueueReceiver
    /\ <<Topic, Topic>> \in Matches

\* The body of the loop of prvDataModelHandlerThread.
Script ==
    <<"subscribe", "publish", "expect", "unsubscribe", "publish", "expectNone",
      "subscribeQueue", "publish", "publish", "take", "take",
      "unsubscribeQueue", "takeNone", "takeNone">>

DMTypeOK ==
    /\ TypeOK
    /\ line \in DOMAIN Script
    /\ messageReceiveFlag \in BOOLEAN
    /\ pQueueItem \in Items \cup {NoItem}
    /\ box \in Seq(Messages) /\ Len(box) <= QueueSize
    /\ reading \in [Items -> Messages \cup {NoMessage}]
    /\ last \in {"none", "accepted", "refused"}
    /\ deliveries \in Seq(Messages)
    /\ sent \in [1 .. 2 -> CallNumbers]
    /\ complained \in BOOLEAN /\ disturbed \in BOOLEAN

DMInit ==
    /\ Init
    /\ mailbox!Init
    /\ line = 1
    /\ messageReceiveFlag = FALSE
    /\ pQueueItem = NoItem
    /\ deliveries = <<>>
    /\ sent = [i \in 1 .. 2 |-> 0]
    /\ complained = FALSE
    /\ disturbed = FALSE

\* Nothing the handler started is still under way.
Quiet ==
    /\ connection = "up"
    /\ InQueue \cup ({inHand} \ {None}) \cup pending = {}
    /\ deliveries = <<>>

Disturb(when) == disturbed' = (disturbed \/ when)
Complain(when) == complained' = (complained \/ when)

-----------------------------------------------------------------------------
(* The handler. *)

Ready == At(Handler, {"idle"})
Statement(s) == Ready /\ Script[line] = s
NextLinePast == line' = IF line > Len(Script) THEN 1 ELSE line + 1
NextLine == line' = IF line = Len(Script) THEN 1 ELSE line + 1

KindOf == [subscribe |-> "subscribe", subscribeQueue |-> "subscribe",
           unsubscribe |-> "unsubscribe", unsubscribeQueue |-> "unsubscribe",
           publish |-> "publish"]
ReceiverOf(s) ==
    IF s \in {"subscribe", "unsubscribe"} THEN CallbackReceiver ELSE QueueReceiver

\* The publishes whose effect on the callback is checked.
Checked == Script[line] = "publish" /\ Script[line + 1] \in {"expect", "expectNone"}

RememberSent ==
    sent' = IF Script[line] = "publish"
            THEN [sent EXCEPT ![1] = sent[2], ![2] = call'[Handler].number]
            ELSE sent

FlagKept ==
    /\ Ready /\ Script[line] \in DOMAIN KindOf
    /\ Begin(Handler, KindOf[Script[line]], Topic, ReceiverOf(Script[line]))
    /\ NextLine
    /\ RememberSent
    /\ UNCHANGED <<messageReceiveFlag, pQueueItem, complained, disturbed, mail,
                   deliveries>>

\* A call of the agent's interface; before a checked publish the flag is reset.
Call ==
    /\ Ready /\ Script[line] \in DOMAIN KindOf
    /\ Begin(Handler, KindOf[Script[line]], Topic, ReceiverOf(Script[line]))
    /\ NextLine
    /\ messageReceiveFlag' = (messageReceiveFlag /\ ~Checked)
    /\ RememberSent
    /\ UNCHANGED <<pQueueItem, complained, disturbed, mail, deliveries>>

\* The flag is read after three seconds, whatever has come by then.
Sleep(expected) ==
    /\ Complain(messageReceiveFlag # expected)
    /\ Disturb(~Quiet)
    /\ NextLine
    /\ UNCHANGED <<vars, messageReceiveFlag, pQueueItem, sent, mail, deliveries>>

FreePlaces == {i \in Items : reading[i] = NoMessage}
FreePlace == Lowest(FreePlaces)

\* iotshdDev_MQTTAgentDequeueIncommingPublish.  The item is read and freed; a
\* time-out leaves a null pointer, which is read too.
Expected(message) == message = sent[IF Script[line + 1] = "take" THEN 1 ELSE 2]
Take ==
    /\ Statement("take")
    /\ box # <<>> /\ pQueueItem = NoItem
    /\ mailbox!Read(FreePlace)
    /\ pQueueItem' = FreePlace
    /\ Complain(~Expected(Head(box)))
    /\ UNCHANGED <<vars, line, messageReceiveFlag, sent, disturbed, deliveries>>

TakeNothing ==
    /\ Statement("take")
    /\ box = <<>> /\ pQueueItem = NoItem
    /\ running' = FALSE
    /\ Complain(TRUE)
    /\ Disturb(~Quiet)
    /\ UNCHANGED <<user, agent, network, completed, deadFrame, line,
                   messageReceiveFlag, pQueueItem, sent, mail, deliveries>>

NotFreed ==
    /\ Statement("take") /\ pQueueItem # NoItem
    /\ pQueueItem' = NoItem
    /\ NextLine
    /\ UNCHANGED <<vars, messageReceiveFlag, sent, complained, disturbed, mail,
                   deliveries>>

\* iotshdDev_MQTTAgentFreeIncommingPublish.
GiveBack ==
    /\ Statement("take") /\ pQueueItem # NoItem
    /\ mailbox!GiveBack(pQueueItem)
    /\ pQueueItem' = NoItem
    /\ NextLine
    /\ UNCHANGED <<vars, messageReceiveFlag, sent, complained, disturbed,
                   deliveries>>

\* After the queue is unsubscribed nothing is expected, and what comes is not
\* freed.
TakeNone ==
    /\ Statement("takeNone")
    /\ IF box = <<>> THEN UNCHANGED mail ELSE mailbox!Read(FreePlace)
    /\ Complain(box # <<>>)
    /\ NextLine
    /\ UNCHANGED <<vars, messageReceiveFlag, pQueueItem, sent, disturbed,
                   deliveries>>

HandlerStep ==
    \/ Call
    \/ Statement("expect") /\ Sleep(TRUE)
    \/ Statement("expectNone") /\ Sleep(FALSE)
    \/ Take \/ TakeNothing \/ GiveBack \/ TakeNone

-----------------------------------------------------------------------------
(* The agent, with the publishes that come in. *)

HandlerKept == UNCHANGED <<line, messageReceiveFlag, pQueueItem, sent, complained,
                           mail, deliveries>>

\* A call that returns while its command is still under way, because it gives up
\* or is woken by what an earlier call has left behind, disturbs the handler;
\* one that has missed a completion that has come does not.
Late == call[Handler].number \notin completed[Handler]

CallSteps(u) ==
    \/ /\ GetCommand(u) \/ GetBlocks(u) \/ SendCommand(u) \/ SendBlocks(u)
          \/ ClearEvent(u) \/ WaitBlocks(u)
       /\ UNCHANGED disturbed
    \/ GetTimesOut(u) /\ Disturb(TRUE)
    \/ SendTimesOut(u) /\ Disturb(TRUE)
    \/ (Wake(u) \/ WaitTimesOut(u)) /\ Disturb(Late)

\* The handler's publishes are of QoS 1.
AgentSteps ==
    \/ /\ Receive \/ ProcessSent \/ Release \/ Resumed \/ NotReconnected
          \/ \E sessionPresent \in BOOLEAN : Reconnected(sessionPresent)
       /\ UNCHANGED disturbed
    \/ ProcessFails /\ Disturb(TRUE)
    \/ \E c \in Commands : GiveUp(c) /\ Disturb(TRUE)
    \/ Acknowledged /\ Disturb(~Head(toAgent).ok)

\* The broker sends a publish to the client when its session has the filter.
Broker ==
    /\ BrokerAnswers
    /\ LET c == contents[Head(toBroker)].call
       IN  deliveries' = IF c.kind = "publish" /\ c.filter \in session
                         THEN Append(deliveries, c.number) ELSE deliveries
    /\ UNCHANGED <<handler, mail>>

\* prvIncomingPublishCallback: handleIncomingPublishes calls the callbacks of
\* the matching subscriptions; the built-in one takes an item, or drops the
\* publish.
Routed(m, receivers) ==
    /\ messageReceiveFlag' = (messageReceiveFlag \/ CallbackReceiver \in receivers)
    /\ IF QueueReceiver \in receivers
       THEN mailbox!Accept(m) \/ mailbox!Refuse
       ELSE UNCHANGED mail

Deliver ==
    /\ AgentFree /\ connection = "up"
    /\ deliveries # <<>>
    /\ Routed(Head(deliveries), {list[i].receiver : i \in Matching(list, Topic)})
    /\ deliveries' = Tail(deliveries)
    /\ UNCHANGED <<vars, line, pQueueItem, sent, complained, disturbed>>

Lost ==
    /\ ConnectionLost
    /\ deliveries' = <<>>
    /\ Disturb(TRUE)
    /\ UNCHANGED <<line, messageReceiveFlag, pQueueItem, sent, complained, mail>>

DMNext ==
    \/ HandlerStep
    \/ (CallSteps(Handler) \/ AgentSteps) /\ HandlerKept
    \/ Deliver \/ Broker \/ Lost

DMSpec == DMInit /\ [][DMNext]_dmVars

-----------------------------------------------------------------------------
(* Safety. *)

\* As long as no call returns before its answer and no connection is lost, the
\* handler receives by its callback what it published while subscribed and
\* nothing else, and from its queue its two publishes, once each and in
\* order; it never reads a null item (main.c:123-189).
ChecksPass == complained => disturbed

\* ... and no publish waits when a round ends. Whatever happens, an item that is
\* not given back is one that a failed check has told of: without complaints no
\* round starts with fewer items.
ItemsComeBack ==
    /\ line = 1 /\ ~disturbed => box = <<>>
    /\ \A i \in Items : reading[i] # NoMessage => i = pQueueItem \/ complained
=============================================================================

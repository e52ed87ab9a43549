--------------------------- MODULE MqttAgent_proofs ---------------------------
(***************************************************************************)
(* Proofs about MqttAgent, for any users, commands, filters and receivers, *)
(* any length of the queue and any number of calls and lost connections;   *)
(* then about DataModelHandler, which extends it with the one user that    *)
(* calls the agent line by line and reads its mailbox.                     *)
(***************************************************************************)
EXTENDS DataModelHandler, FiniteSetTheorems, SequenceTheorems, TLAPS

(* Queues as sequences: the elements in one, and the changes that Append   *)
(* and Tail make to them.                                                  *)
LEMMA RangeAppend ==
    ASSUME NEW S, NEW s \in Seq(S), NEW e \in S
    PROVE  Range(Append(s, e)) = Range(s) \cup {e}
<1>. DEFINE t == Append(s, e)
<1>1. /\ t \in Seq(S) /\ Len(t) = Len(s) + 1 /\ t[Len(s) + 1] = e
      /\ \A i \in 1 .. Len(s) : t[i] = s[i]
  BY AppendProperties
<1>2. DOMAIN t = 1 .. Len(s) + 1 /\ DOMAIN s = 1 .. Len(s) /\ Len(s) \in Nat
  BY <1>1, LenProperties
<1>. HIDE DEF t
<1>3. Range(t) = Range(s) \cup {e}
  BY <1>1, <1>2 DEF Range
<1>. QED  BY <1>3 DEF t

LEMMA InjectiveAppend ==
    ASSUME NEW S, NEW s \in Seq(S), NEW e \in S,
           \A i, j \in DOMAIN s : s[i] = s[j] => i = j,
           e \notin Range(s)
    PROVE  \A i, j \in DOMAIN Append(s, e) :
               Append(s, e)[i] = Append(s, e)[j] => i = j
<1>. DEFINE t == Append(s, e)
<1>1. /\ t \in Seq(S) /\ Len(t) = Len(s) + 1 /\ t[Len(s) + 1] = e
      /\ \A i \in 1 .. Len(s) : t[i] = s[i]
  BY AppendProperties
<1>2. DOMAIN t = 1 .. Len(s) + 1 /\ DOMAIN s = 1 .. Len(s) /\ Len(s) \in Nat
  BY <1>1, LenProperties
<1>. HIDE DEF t
<1>3. \A i, j \in DOMAIN t : t[i] = t[j] => i = j
  BY <1>1, <1>2 DEF Range
<1>. QED  BY <1>3 DEF t

(* Taking the head of a queue without repetition takes it out.             *)
LEMMA RangeTail ==
    ASSUME NEW S, NEW s \in Seq(S), s # <<>>,
           \A i, j \in DOMAIN s : s[i] = s[j] => i = j
    PROVE  /\ Head(s) \in Range(s)
           /\ Range(Tail(s)) = Range(s) \ {Head(s)}
           /\ \A i, j \in DOMAIN Tail(s) : Tail(s)[i] = Tail(s)[j] => i = j
<1>. DEFINE t == Tail(s)
<1>1. /\ t \in Seq(S) /\ Len(t) = Len(s) - 1
      /\ \A i \in 1 .. Len(t) : t[i] = s[i + 1]
  BY HeadTailProperties
<1>2. DOMAIN t = 1 .. Len(t) /\ DOMAIN s = 1 .. Len(s) /\ Len(s) \in Nat \ {0}
  BY <1>1, LenProperties, EmptySeq
<1>3. Head(s) = s[1]
  OBVIOUS
<1>4. \A i \in 2 .. Len(s) : i - 1 \in 1 .. Len(t) /\ t[i - 1] = s[i]
  BY <1>1, <1>2
<1>. HIDE DEF t
<1>5. Range(t) = Range(s) \ {s[1]}
  <2>1. ASSUME NEW x \in Range(t)
        PROVE  x \in Range(s) \ {s[1]}
    BY <2>1, <1>1, <1>2 DEF Range
  <2>2. ASSUME NEW x \in Range(s) \ {s[1]}
        PROVE  x \in Range(t)
    <3>1. PICK i \in 2 .. Len(s) : x = s[i]
      BY <1>2 DEF Range
    <3>. QED  BY <1>2, <1>4, <3>1 DEF Range
  <2>. QED  BY <2>1, <2>2
<1>6. \A i, j \in DOMAIN t : t[i] = t[j] => i = j
  BY <1>1, <1>2
<1>7. s[1] \in Range(s)
  BY <1>2 DEF Range
<1>. QED  BY <1>3, <1>5, <1>6, <1>7, Zenon DEF t

Sending == {"send", "sendBlocked"}
Unsent == {"get", "getBlocked"} \cup Sending

\* The commands whose completion callback is still to come.
InFlight == InQueue \cup ({inHand} \ {None}) \cup pending

(* Where a command can be, one place at a time.                            *)
Placed ==
    \A c \in Commands :
        \/ c \in pool
        \/ \E u \in Users : held[u] = c
        \/ c \in InQueue
        \/ c = inHand
        \/ c \in pending
        \/ c = releasing

NoRepetition == \A i, j \in DOMAIN queue : queue[i] = queue[j] => i = j

Apart ==
    /\ \A u \in Users :
          /\ held[u] # None => held[u] \notin pool \cup InFlight \cup {releasing}
          /\ \A v \in Users : held[u] = held[v] /\ held[u] # None => u = v
    /\ pool \cap InFlight = {}
    /\ releasing \notin pool \cup InFlight
    /\ inHand \notin InQueue \cup pending
    /\ InQueue \cap pending = {}
    /\ NoRepetition
    /\ toClear \subseteq pending
    /\ connection # "resuming" => toClear = {}
    /\ inHand # None => releasing = None /\ connection # "resuming"

(* A user holds the command of its call from taking it to queueing it.     *)
Holding ==
    \A u \in Users :
        /\ held[u] # None <=> pc[u] \in Sending
        /\ held[u] # None => contents[held[u]] = [user |-> u, call |-> call[u]]

(* The numbers of a user's calls grow, and no two commands in flight carry *)
(* the same one.                                                           *)
Numbered ==
    /\ \A u \in Users :
          /\ \A n \in completed[u] : n <= call[u].number
          /\ pc[u] \in Unsent => call[u].number \notin completed[u]
    /\ \A c \in InFlight :
          LET u == contents[c].user
              n == contents[c].call.number
          IN  /\ n <= call[u].number
              /\ pc[u] \in Unsent => n # call[u].number
              /\ n \notin completed[u]
              /\ \A d \in InFlight :
                    contents[d].user = u /\ contents[d].call.number = n => c = d

IndInv ==
    /\ TypeOK
    /\ IsFiniteSet(pending)
    /\ Placed
    /\ Apart
    /\ Holding
    /\ Numbered

(* Where no wait for a completion reaches its deadline, a call waits for   *)
(* the command it has queued, and its event is set by that one only.       *)
Waiting == {"clear", "wait", "blocked"}

Awaited(u) ==
    \A c \in InFlight : contents[c].user = u =>
        pc[u] \in Waiting /\ contents[c].call = call[u]

OwnEvent(u) ==
    /\ event[u] =>
          /\ pc[u] \in Waiting
          /\ call[u].number \in completed[u]
          /\ xReturnStatus[u].number = call[u].number
    /\ pc[u] = "clear" => call[u].kind # "publish"
    /\ pc[u] \in {"wait", "blocked"} /\ call[u].kind = "publish"
       /\ call[u].number \in completed[u]
          => event[u]
    /\ pc[u] = "idle" /\ result[u].woken => result[u].number = call[u].number

PatientInv == FrameNotUsed /\ \A u \in Users : Awaited(u) /\ OwnEvent(u)

-----------------------------------------------------------------------------
LEMMA InitInv == Init => IndInv
<1>. SUFFICES ASSUME Init PROVE IndInv
  OBVIOUS
<1>. USE NotEmptyAssumption, NoneAssumption, BoundAssumption, SizeAssumption
<1>1. NoCall \in Calls /\ (CHOOSE u \in Users : TRUE) \in Users
  BY DEF NoCall, Calls, Kinds, CallNumbers
<1>2. contents \in [Commands -> OwnedCalls]
  BY <1>1 DEF Init, OwnedCalls
<1>3. list \in Lists
  BY DEF Init, EmptyList, Lists
<1>4. queue \in Seq(Commands) /\ Len(queue) <= QueueLength /\ toBroker \in Seq(Commands)
      /\ toAgent \in Seq([command : Commands, ok : BOOLEAN])
  BY QueueAssumption DEF Init
<1>5. /\ pc \in [Users -> UserSteps]
      /\ call \in [Users -> Calls]
      /\ held \in [Users -> Commands \cup {None}]
      /\ xReturnStatus \in [Users -> [ok : BOOLEAN, number : CallNumbers]]
      /\ result \in [Users -> [ok : BOOLEAN, woken : BOOLEAN, number : CallNumbers]]
      /\ completed \in [Users -> SUBSET CallNumbers]
  BY <1>1 DEF Init, UserSteps, CallNumbers
<1>6. event \in [Users -> BOOLEAN] /\ running \in BOOLEAN /\ deadFrame \in BOOLEAN
  BY Zenon DEF Init
<1>7. TypeOK
  BY <1>2, <1>3, <1>4, <1>5, <1>6 DEF Init, TypeOK
<1>8. InQueue = {} /\ NoRepetition
  BY DEF Init, InQueue, NoRepetition
<1>9. InFlight = {} /\ IsFiniteSet(pending)
  BY <1>8, FS_EmptySet DEF Init, InFlight
<1>10. Placed /\ Apart /\ Holding /\ Numbered
  BY <1>8, <1>9 DEF Init, Placed, Apart, Holding, Numbered, Sending
<1>. QED  BY <1>7, <1>9, <1>10 DEF IndInv

(* The effect of a callback, whether or not the process survives it.       *)
LEMMA CallbackType ==
    ASSUME TypeOK, NEW c \in Commands, NEW ok \in BOOLEAN, Callback(c, ok)
    PROVE  /\ releasing' = c
           /\ event' \in [Users -> BOOLEAN]
           /\ xReturnStatus' \in [Users -> [ok : BOOLEAN, number : CallNumbers]]
           /\ list' \in Lists
           /\ running' \in BOOLEAN
           /\ deadFrame' \in BOOLEAN
           /\ completed' \in [Users -> SUBSET CallNumbers]
           /\ completed' = [completed EXCEPT ![contents[c].user] =
                                @ \cup {contents[c].call.number}]
           /\ UNCHANGED <<pc, call, held, result, pool, contents>>
<1>1. contents[c] \in OwnedCalls
  BY DEF TypeOK
<1>2. contents[c].user \in Users /\ contents[c].call \in Calls
      /\ contents[c].call.number \in CallNumbers
  BY <1>1 DEF OwnedCalls, Calls
<1>3. completed' \in [Users -> SUBSET CallNumbers]
  BY <1>2 DEF TypeOK, Callback
<1>4. ASSUME NEW e \in Subscription
      PROVE  Updated(contents[c], e, ok) \in Lists
  BY <1>4 DEF Updated, addSubscription, removeSubscription, Lists, TypeOK
<1>5. EntriesRead(contents[c]) \subseteq Subscription
  BY <1>2 DEF EntriesRead, EntryOf, Subscription, Calls, TypeOK
<1>6. list' \in Lists
  BY <1>4, <1>5 DEF Callback, TypeOK
<1>7. event' \in [Users -> BOOLEAN]
  BY <1>2 DEF Callback, TypeOK
<1>8. xReturnStatus' \in [Users -> [ok : BOOLEAN, number : CallNumbers]]
  <2>1. [ok |-> ok, number |-> contents[c].call.number]
            \in [ok : BOOLEAN, number : CallNumbers]
    BY <1>2
  <2>2. \/ xReturnStatus' = xReturnStatus
        \/ xReturnStatus' = [xReturnStatus EXCEPT ![contents[c].user] =
                                [ok |-> ok, number |-> contents[c].call.number]]
    BY DEF Callback
  <2>. HIDE DEF Callback
  <2>. QED  BY <2>1, <2>2 DEF TypeOK
<1>9. running' \in BOOLEAN
  BY DEF Callback, TypeOK
<1>10. deadFrame' \in BOOLEAN
  BY DEF Callback, TypeOK
<1>. QED  BY <1>3, <1>6, <1>7, <1>8, <1>9, <1>10 DEF Callback

LEMMA ReturnType ==
    ASSUME TypeOK, NEW u \in Users, NEW ok \in BOOLEAN, NEW woken \in BOOLEAN,
           Return(u, ok, woken)
    PROVE  /\ pc' = [pc EXCEPT ![u] = "idle"]
           /\ pc' \in [Users -> UserSteps]
           /\ result' \in [Users -> [ok : BOOLEAN, woken : BOOLEAN,
                                     number : CallNumbers]]
<1>1. xReturnStatus[u].number \in CallNumbers /\ call[u].number \in CallNumbers
  BY DEF TypeOK, Calls
<1>. QED  BY <1>1 DEF TypeOK, UserSteps, Return, Goto

-----------------------------------------------------------------------------
LEMMA UserTypeStep ==
    ASSUME TypeOK, Holding, NEW u \in Users
    PROVE  /\ (\E kind \in Kinds, f \in Filters, r \in Receivers : Begin(u, kind, f, r))
                  => TypeOK'
           /\ UserStep(u) => TypeOK'
<1>. USE NoneAssumption, QueueAssumption, BoundAssumption
     DEF TypeOK, At, Goto, user, agent, network, ghost
<1>1. ASSUME NEW kind \in Kinds, NEW f \in Filters, NEW r \in Receivers,
             Begin(u, kind, f, r)
      PROVE  TypeOK'
  <2>1. call[u].number + 1 \in CallNumbers
    BY <1>1 DEF Begin, Calls, CallNumbers
  <2>. QED  BY <1>1, <2>1 DEF Begin, Calls, UserSteps
<1>2. CASE GetCommand(u)
  <2>1. PICK c \in pool :
            /\ pool' = pool \ {c}
            /\ held' = [held EXCEPT ![u] = c]
            /\ contents' = [contents EXCEPT ![c] = [user |-> u, call |-> call[u]]]
    BY <1>2 DEF GetCommand
  <2>2. [user |-> u, call |-> call[u]] \in OwnedCalls
    BY DEF OwnedCalls
  <2>. QED  BY <1>2, <2>1, <2>2 DEF GetCommand, UserSteps
<1>3. CASE GetBlocks(u)
  BY <1>3 DEF GetBlocks, UserSteps
<1>4. CASE GetTimesOut(u)
  BY <1>4, ReturnType DEF GetTimesOut
<1>5. CASE SendCommand(u)
  <2>1. held[u] \in Commands
    BY <1>5 DEF SendCommand, Holding, Sending
  <2>2. queue' \in Seq(Commands) /\ Len(queue') <= QueueLength
    BY <1>5, <2>1, AppendProperties DEF SendCommand, QueueFull
  <2>3. pc' \in [Users -> UserSteps]
    BY <1>5 DEF SendCommand, AfterSend, UserSteps
  <2>. QED  BY <1>5, <2>2, <2>3 DEF SendCommand
<1>6. CASE SendBlocks(u)
  BY <1>6 DEF SendBlocks, UserSteps
<1>7. CASE SendTimesOut(u)
  <2>1. held[u] \in Commands
    BY <1>7 DEF SendTimesOut, Holding, Sending
  <2>. QED  BY <1>7, <2>1, ReturnType DEF SendTimesOut
<1>8. CASE ClearEvent(u)
  BY <1>8 DEF ClearEvent, UserSteps
<1>9. CASE Wake(u)
  <2>1. xReturnStatus[u].ok \in BOOLEAN
    OBVIOUS
  <2>2. (call[u].kind = "publish" => xReturnStatus[u].ok) \in BOOLEAN
    BY <2>1
  <2>. QED  BY <1>9, <2>2, ReturnType DEF Wake
<1>10. CASE WaitBlocks(u)
  BY <1>10 DEF WaitBlocks, UserSteps
<1>11. CASE WaitTimesOut(u)
  BY <1>11, ReturnType DEF WaitTimesOut
<1>. QED  BY <1>1, <1>2, <1>3, <1>4, <1>5, <1>6, <1>7, <1>8, <1>9, <1>10, <1>11
          DEF UserStep

LEMMA AgentTypeStep ==
    ASSUME TypeOK, IsFiniteSet(pending), AgentStep \/ ConnectionLost \/ BrokerAnswers
    PROVE  TypeOK' /\ IsFiniteSet(pending')
<1>. USE NoneAssumption, BoundAssumption
     DEF TypeOK, user, agent, network, ghost
<1>1. CASE Receive
  <2>1. /\ Head(queue) \in Commands /\ Tail(queue) \in Seq(Commands)
        /\ Len(Tail(queue)) = Len(queue) - 1
    BY <1>1, HeadTailProperties DEF Receive
  <2>2. Len(queue) \in Nat
    BY LenProperties
  <2>. QED  BY <1>1, <2>1, <2>2, QueueAssumption DEF Receive
<1>2. CASE ProcessSent
  <2>1. toBroker' \in Seq(Commands)
    BY <1>2, AppendProperties DEF ProcessSent
  <2>2. IsFiniteSet(pending')
    BY <1>2, FS_AddElement DEF ProcessSent
  <2>. QED  BY <1>2, <2>1, <2>2 DEF ProcessSent
<1>3. CASE ProcessAtMostOnce
  BY <1>3, CallbackType DEF ProcessAtMostOnce
<1>4. CASE ProcessFails
  BY <1>4, CallbackType DEF ProcessFails
<1>5. CASE Release
  BY <1>5 DEF Release
<1>6. CASE Acknowledged
  <2>1. /\ Head(toAgent) \in [command : Commands, ok : BOOLEAN]
        /\ toAgent' \in Seq([command : Commands, ok : BOOLEAN])
    BY <1>6, HeadTailProperties DEF Acknowledged
  <2>2. IsFiniteSet(pending')
    BY <1>6, FS_RemoveElement DEF Acknowledged
  <2>. QED  BY <1>6, <2>1, <2>2, CallbackType DEF Acknowledged
<1>7. CASE Resumed
  <2>1. PICK q \in [1 .. Cardinality(pending) -> pending] : toBroker' = q
    BY <1>7 DEF Resumed
  <2>2. Cardinality(pending) \in Nat
    BY FS_CardinalityType
  <2>3. toBroker' \in Seq(Commands)
    <3>1. q \in [1 .. Cardinality(pending) -> Commands]
      BY <2>1
    <3>2. Seq(Commands) = UNION {[1 .. n -> Commands] : n \in Nat}
      BY SeqDef, Zenon
    <3>. QED  BY <2>1, <2>2, <3>1, <3>2, Zenon
  <2>. QED  BY <1>7, <2>3 DEF Resumed
<1>8. ASSUME NEW sessionPresent \in BOOLEAN, Reconnected(sessionPresent)
      PROVE  TypeOK' /\ IsFiniteSet(pending')
  BY <1>8 DEF Reconnected
<1>9. ASSUME NEW c \in Commands, GiveUp(c)
      PROVE  TypeOK' /\ IsFiniteSet(pending')
  <2>1. IsFiniteSet(pending')
    BY <1>9, FS_RemoveElement DEF GiveUp
  <2>. QED  BY <1>9, <2>1, CallbackType DEF GiveUp
<1>10. CASE ConnectionLost
  BY <1>10 DEF ConnectionLost
<1>11. CASE BrokerAnswers
  <2>1. /\ Head(toBroker) \in Commands /\ toBroker' \in Seq(Commands)
    BY <1>11, HeadTailProperties DEF BrokerAnswers
  <2>2. contents[Head(toBroker)].call.filter \in Filters
    BY <2>1 DEF OwnedCalls, Calls
  <2>3. PICK ok \in BOOLEAN :
            toAgent' = Append(toAgent, [command |-> Head(toBroker), ok |-> ok])
    BY <1>11 DEF BrokerAnswers
  <2>4. toAgent' \in Seq([command : Commands, ok : BOOLEAN])
    BY <2>1, <2>3, AppendProperties
  <2>5. session' \in SUBSET Filters
    BY <1>11, <2>2 DEF BrokerAnswers
  <2>. QED  BY <1>11, <2>1, <2>4, <2>5 DEF BrokerAnswers
<1>12. CASE NotReconnected
  BY <1>12 DEF NotReconnected
<1>. QED  BY <1>1, <1>2, <1>3, <1>4, <1>5, <1>6, <1>7, <1>8, <1>9, <1>10, <1>11, <1>12
          DEF AgentStep

LEMMA TypeStep ==
    ASSUME TypeOK, IsFiniteSet(pending), Holding, [Next]_vars
    PROVE  TypeOK' /\ IsFiniteSet(pending')
<1>1. CASE UNCHANGED vars
  BY <1>1 DEF TypeOK, vars, user, agent, network, ghost
<1>2. ASSUME NEW u \in Users, NEW kind \in Kinds, NEW f \in Filters,
             NEW r \in ReceiversOf[u], Begin(u, kind, f, r)
      PROVE  TypeOK' /\ IsFiniteSet(pending')
  <2>1. r \in Receivers
    BY ReceiversAssumption
  <2>2. TypeOK'
    BY <1>2, <2>1, UserTypeStep
  <2>. QED  BY <1>2, <2>2 DEF Begin, agent
<1>3. ASSUME NEW u \in Users, UserStep(u)
      PROVE  TypeOK' /\ IsFiniteSet(pending')
  <2>1. TypeOK'
    BY <1>3, UserTypeStep
  <2>2. pending' = pending
    BY <1>3 DEF UserStep, GetCommand, GetBlocks, GetTimesOut, SendCommand,
       SendBlocks, SendTimesOut, ClearEvent, Wake, WaitBlocks, WaitTimesOut, agent
  <2>. QED  BY <2>1, <2>2
<1>. QED  BY <1>1, <1>2, <1>3, AgentTypeStep DEF Next

-----------------------------------------------------------------------------
(* Where the commands go: each step that moves one.                        *)
LEMMA Queued ==
    ASSUME TypeOK
    PROVE  /\ InQueue \subseteq Commands
           /\ InFlight \subseteq Commands
           /\ pending \subseteq Commands
           /\ \A c \in Commands :
                 /\ contents[c].user \in Users
                 /\ contents[c].call \in Calls
                 /\ contents[c].call.number \in Nat
           /\ \A u \in Users :
                 call[u].number \in Nat /\ completed[u] \in SUBSET Nat
<1>1. InQueue \subseteq Commands
  BY RangeOfSeq DEF TypeOK, InQueue, Range
<1>2. CallNumbers \subseteq Nat
  BY BoundAssumption DEF CallNumbers
<1>3. \A c \in Commands : contents[c] \in OwnedCalls
  BY DEF TypeOK
<1>4. \A c \in Commands : contents[c].user \in Users /\ contents[c].call \in Calls
  BY <1>3 DEF OwnedCalls
<1>5. \A d \in Calls : d.number \in Nat
  BY <1>2 DEF Calls
<1>. QED  BY <1>1, <1>2, <1>4, <1>5 DEF TypeOK, InFlight

LEMMA QueuedAppend ==
    ASSUME TypeOK, NEW c \in Commands, queue' = Append(queue, c)
    PROVE  /\ InQueue' = InQueue \cup {c}
           /\ NoRepetition /\ c \notin InQueue => NoRepetition'
<1>. DEFINE t == Append(queue, c)
<1>1. queue \in Seq(Commands) /\ InQueue = Range(queue) /\ InQueue' = Range(queue')
  BY DEF TypeOK, InQueue, Range
<1>2. Range(t) = InQueue \cup {c}
  BY <1>1, RangeAppend
<1>3. ASSUME NoRepetition, c \notin InQueue
      PROVE  \A i, j \in DOMAIN t : t[i] = t[j] => i = j
  BY <1>1, <1>3, InjectiveAppend DEF NoRepetition
<1>. HIDE DEF t
<1>4. queue' = t
  BY DEF t
<1>. QED  BY <1>1, <1>2, <1>3, <1>4 DEF NoRepetition

LEMMA QueuedTail ==
    ASSUME TypeOK, NoRepetition, queue # <<>>, queue' = Tail(queue)
    PROVE  /\ Head(queue) \in InQueue
           /\ InQueue' = InQueue \ {Head(queue)}
           /\ NoRepetition'
<1>. DEFINE t == Tail(queue)
<1>1. queue \in Seq(Commands) /\ InQueue = Range(queue) /\ InQueue' = Range(queue')
  BY DEF TypeOK, InQueue, Range
<1>2. /\ Head(queue) \in InQueue /\ Range(t) = InQueue \ {Head(queue)}
      /\ \A i, j \in DOMAIN t : t[i] = t[j] => i = j
  BY <1>1, RangeTail DEF NoRepetition
<1>. HIDE DEF t
<1>3. queue' = t
  BY DEF t
<1>. QED  BY <1>1, <1>2, <1>3 DEF NoRepetition

LEMMA QueuedSame ==
    ASSUME queue' = queue
    PROVE  InQueue' = InQueue /\ (NoRepetition => NoRepetition')
BY DEF InQueue, NoRepetition

LEMMA CallUserStep ==
    ASSUME IndInv, NEW u \in Users, NEW kind \in Kinds, NEW f \in Filters,
           NEW r \in Receivers, Begin(u, kind, f, r)
    PROVE  Placed' /\ Apart' /\ Holding' /\ Numbered'
<1>. USE DEF IndInv, agent, network, ghost
<1>1. InQueue' = InQueue /\ NoRepetition'
  BY QueuedSame DEF Begin, Apart
<1>2. InFlight' = InFlight
  BY <1>1 DEF InFlight, Begin
<1>3. /\ pc[u] = "idle" /\ pc' = [pc EXCEPT ![u] = "get"]
      /\ call'[u].number = call[u].number + 1
      /\ \A v \in Users : v # u => call'[v] = call[v]
  BY DEF Begin, At, Goto, TypeOK
<1>4. call[u].number \in Nat /\ \A n \in completed[u] : n \in Nat
  BY Queued
<1>5. Placed'
  BY <1>1 DEF Placed, Begin
<1>6. Apart'
  BY <1>1, <1>2 DEF Apart, Begin
<1>7. Holding'
  BY <1>3 DEF Holding, Sending, TypeOK, Begin
<1>8. Numbered'
  <2>1. \A c \in InFlight : contents[c].call.number \in Nat
    BY Queued
  <2>. QED  BY <1>2, <1>3, <1>4, <2>1 DEF Numbered, Unsent, Sending, TypeOK, Begin
<1>. QED  BY <1>5, <1>6, <1>7, <1>8

Parts == Placed /\ Apart /\ Holding /\ Numbered

(* The steps of a call that move no command.                               *)
LEMMA CallStep ==
    ASSUME IndInv, NEW u \in Users, NEW label \in UserSteps,
           pc' = [pc EXCEPT ![u] = label],
           label \in Unsent => pc[u] \in Unsent,
           label \in Sending <=> pc[u] \in Sending,
           UNCHANGED <<call, held, agent, network, ghost>>
    PROVE  Parts'
<1>. USE DEF IndInv, agent, network, ghost
<1>1. InQueue' = InQueue /\ NoRepetition'
  BY QueuedSame DEF Apart
<1>2. InFlight' = InFlight
  BY <1>1 DEF InFlight
<1>3. \A v \in Users : pc'[v] = IF v = u THEN label ELSE pc[v]
  BY DEF TypeOK
<1>4. Placed'
  BY <1>1 DEF Placed
<1>5. Apart'
  BY <1>1, <1>2 DEF Apart
<1>6. Holding'
  BY <1>3 DEF Holding
<1>7. Numbered'
  <2>1. \A c \in InFlight : contents[c].user \in Users
    BY Queued
  <2>. QED  BY <1>2, <1>3, <2>1 DEF Numbered
<1>. QED  BY <1>4, <1>5, <1>6, <1>7 DEF Parts

LEMMA GetStep ==
    ASSUME IndInv, NEW u \in Users, GetCommand(u)
    PROVE  Parts'
<1>. USE DEF IndInv, network, ghost
<1>0. PICK c \in pool :
         /\ pool' = pool \ {c}
         /\ held' = [held EXCEPT ![u] = c]
         /\ contents' = [contents EXCEPT ![c] = [user |-> u, call |-> call[u]]]
  BY DEF GetCommand
<1>1. InQueue' = InQueue /\ NoRepetition'
  BY QueuedSame DEF Apart, GetCommand
<1>2. InFlight' = InFlight
  BY <1>1 DEF InFlight, GetCommand
<1>3. c \in Commands /\ c # None /\ c \notin InFlight
      /\ \A v \in Users : held[v] # c
  BY NoneAssumption DEF TypeOK, Apart
<1>4. /\ pc[u] \in {"get", "getBlocked"} /\ held[u] = None
      /\ \A v \in Users : pc'[v] = IF v = u THEN "send" ELSE pc[v]
      /\ \A v \in Users : held'[v] = IF v = u THEN c ELSE held[v]
  BY <1>0 DEF GetCommand, At, Goto, TypeOK, Holding, Sending
<1>5. \A d \in Commands : contents'[d] = IF d = c THEN [user |-> u, call |-> call[u]]
                                                 ELSE contents[d]
  BY <1>0, <1>3 DEF TypeOK
<1>6. Placed'
  <2>1. \A d \in Commands : d # None
    BY NoneAssumption
  <2>2. \A d \in Commands : (\E v \in Users : held[v] = d) =>
                               \E v \in Users : held'[v] = d
    BY <1>4, <2>1
  <2>3. \E v \in Users : held'[v] = c
    BY <1>4
  <2>. QED  BY <1>0, <1>1, <2>2, <2>3 DEF Placed, GetCommand
<1>7. Apart'
  BY <1>0, <1>1, <1>2, <1>3, <1>4 DEF Apart, GetCommand
<1>8. Holding'
  BY <1>3, <1>4, <1>5 DEF Holding, Sending, GetCommand, TypeOK
<1>9. Numbered'
  <2>1. \A d \in InFlight : d \in Commands /\ contents'[d] = contents[d]
                            /\ contents[d].user \in Users
    BY <1>3, <1>5, Queued
  <2>2. call' = call /\ completed' = completed
    BY DEF GetCommand
  <2>. QED  BY <1>2, <1>4, <2>1, <2>2 DEF Numbered, Unsent, Sending
<1>. QED  BY <1>6, <1>7, <1>8, <1>9 DEF Parts

LEMMA SendStep ==
    ASSUME IndInv, NEW u \in Users, SendCommand(u)
    PROVE  Parts'
<1>. USE DEF IndInv, network, ghost
<1>. DEFINE c == held[u]
<1>1. /\ pc[u] \in Sending /\ c \in Commands /\ c # None
      /\ contents[c] = [user |-> u, call |-> call[u]]
  BY NoneAssumption DEF SendCommand, At, Holding, Sending, TypeOK
<1>2. c \notin InFlight /\ c \notin InQueue /\ c \notin pool /\ c # releasing
      /\ \A v \in Users : held[v] = c => v = u
  BY <1>1 DEF Apart, InFlight
<1>3. InQueue' = InQueue \cup {c} /\ NoRepetition'
  BY <1>1, <1>2, QueuedAppend DEF SendCommand, Apart
<1>4. InFlight' = InFlight \cup {c}
  BY <1>3 DEF InFlight, SendCommand
<1>5. PICK label \in {"wait", "clear"} : pc' = [pc EXCEPT ![u] = label]
  BY DEF SendCommand, Goto, AfterSend
<1>6. /\ \A v \in Users : pc'[v] = IF v = u THEN label ELSE pc[v]
      /\ \A v \in Users : held'[v] = IF v = u THEN None ELSE held[v]
  BY <1>5 DEF SendCommand, TypeOK
<1>7. UNCHANGED <<call, pool, contents, inHand, pending, releasing, toClear,
                  connection, completed>>
  BY DEF SendCommand
<1>. HIDE DEF c
<1>8. Placed'
  <2>1. c = held[u]
    BY DEF c
  <2>. QED  BY <1>3, <1>6, <1>7, <2>1 DEF Placed
<1>9. Apart'
  BY <1>1, <1>2, <1>3, <1>4, <1>6, <1>7 DEF Apart, InFlight
<1>10. Holding'
  BY <1>6, <1>7 DEF Holding, Sending
<1>11. Numbered'
  <2>1. \A d \in InFlight : d \in Commands /\ contents[d].user \in Users
                            /\ contents[d].call.number \in Nat
    BY Queued
  <2>2. call[u].number \in Nat
    BY Queued
  <2>3. /\ call[u].number \notin completed[u]
        /\ \A d \in InFlight : contents[d].user = u => contents[d].call.number # call[u].number
    BY <1>1 DEF Numbered, Unsent
  <2>4. contents[c].user = u /\ contents[c].call.number = call[u].number
    BY <1>1
  <2>5. \A v \in Users : pc'[v] \in Unsent => v # u /\ pc[v] \in Unsent
    BY <1>6 DEF Unsent, Sending
  <2>. QED  BY <1>4, <1>7, <2>1, <2>2, <2>3, <2>4, <2>5 DEF Numbered
<1>. QED  BY <1>8, <1>9, <1>10, <1>11 DEF Parts

LEMMA SendTimesOutStep ==
    ASSUME IndInv, NEW u \in Users, SendTimesOut(u)
    PROVE  Parts'
<1>. USE DEF IndInv, network, ghost
<1>. DEFINE c == held[u]
<1>1. /\ pc[u] \in Sending /\ c \in Commands /\ c # None
  BY NoneAssumption DEF SendTimesOut, At, Holding, Sending, TypeOK
<1>2. c \notin InFlight /\ c # releasing /\ \A v \in Users : held[v] = c => v = u
  BY <1>1 DEF Apart
<1>3. InQueue' = InQueue /\ NoRepetition'
  BY QueuedSame DEF SendTimesOut, Apart
<1>4. InFlight' = InFlight
  BY <1>3 DEF InFlight, SendTimesOut
<1>5. /\ \A v \in Users : pc'[v] = IF v = u THEN "idle" ELSE pc[v]
      /\ \A v \in Users : held'[v] = IF v = u THEN None ELSE held[v]
  BY DEF SendTimesOut, Return, Goto, TypeOK
<1>6. UNCHANGED <<call, contents, queue, inHand, pending, releasing, toClear,
                  connection, completed>> /\ pool' = pool \cup {c}
  BY DEF SendTimesOut
<1>7. Placed'
  BY <1>3, <1>5, <1>6 DEF Placed
<1>. HIDE DEF c
<1>8. Apart'
  BY <1>1, <1>2, <1>3, <1>4, <1>5, <1>6 DEF Apart
<1>9. Holding'
  BY <1>5, <1>6 DEF Holding, Sending
<1>10. Numbered'
  BY <1>4, <1>5, <1>6, Queued DEF Numbered, Unsent, Sending
<1>. QED  BY <1>7, <1>8, <1>9, <1>10 DEF Parts

LEMMA UserPartsStep ==
    ASSUME IndInv, NEW u \in Users, UserStep(u)
    PROVE  Parts'
<1>. USE DEF At, Goto, Return, Unsent, Sending, UserSteps
<1>1. CASE GetCommand(u)
  BY <1>1, GetStep
<1>2. CASE GetBlocks(u)
  BY <1>2, CallStep DEF GetBlocks
<1>3. CASE GetTimesOut(u)
  BY <1>3, CallStep DEF GetTimesOut
<1>4. CASE SendCommand(u)
  BY <1>4, SendStep
<1>5. CASE SendBlocks(u)
  BY <1>5, CallStep DEF SendBlocks
<1>6. CASE SendTimesOut(u)
  BY <1>6, SendTimesOutStep
<1>7. CASE ClearEvent(u)
  BY <1>7, CallStep DEF ClearEvent
<1>8. CASE Wake(u)
  BY <1>8, CallStep DEF Wake
<1>9. CASE WaitBlocks(u)
  BY <1>9, CallStep DEF WaitBlocks
<1>10. CASE WaitTimesOut(u)
  BY <1>10, CallStep DEF WaitTimesOut
<1>. QED  BY <1>1, <1>2, <1>3, <1>4, <1>5, <1>6, <1>7, <1>8, <1>9, <1>10 DEF UserStep

(* A callback takes its command out of flight and notes its call.          *)
LEMMA CallbackStep ==
    ASSUME IndInv, NEW c \in InFlight, NEW ok \in BOOLEAN, Callback(c, ok),
           releasing = None, queue' = queue,
           \/ c = inHand /\ inHand' = None /\ UNCHANGED <<pending, toClear>>
           \/ /\ c \in pending /\ pending' = pending \ {c} /\ inHand' = inHand
              /\ inHand = None
              /\ toClear' = toClear \ {c}
           , connection' = "resuming" <=> connection = "resuming"
    PROVE  Parts'
<1>. USE DEF IndInv
<1>1. InQueue' = InQueue /\ NoRepetition'
  BY QueuedSame DEF Apart
<1>2. c \in Commands /\ c # None /\ c \notin pool /\ \A u \in Users : held[u] # c
  BY Queued, NoneAssumption DEF Apart
<1>3. c \notin InQueue' \cup pending' /\ c # inHand'
  BY <1>1, <1>2 DEF Apart
<1>4. InFlight' = InFlight \ {c}
  BY <1>1, <1>2, <1>3 DEF InFlight
<1>5. releasing' = c /\ UNCHANGED <<pc, call, held, pool, contents>>
  BY DEF Callback
<1>6. Placed'
  BY <1>1, <1>5 DEF Placed
<1>7. Apart'
  <2>1. /\ toClear' \subseteq pending'
        /\ connection' # "resuming" => toClear' = {}
    BY DEF Apart
  <2>2. pool \cap InFlight' = {} /\ c \notin InFlight'
    BY <1>4 DEF Apart
  <2>3. inHand' \notin InQueue' \cup pending' /\ InQueue' \cap pending' = {}
    BY <1>1, NoneAssumption, Queued DEF Apart
  <2>4. inHand' = None
    BY <1>2
  <2>. QED  BY <1>1, <1>2, <1>4, <1>5, <2>1, <2>2, <2>3, <2>4 DEF Apart
<1>8. Holding'
  BY <1>5 DEF Holding
<1>9. Numbered'
  <2>1. completed' = [completed EXCEPT ![contents[c].user] =
                         @ \cup {contents[c].call.number}]
    BY <1>2, CallbackType
  <2>2. \A u \in Users : completed'[u] =
            IF u = contents[c].user THEN completed[u] \cup {contents[c].call.number}
                                    ELSE completed[u]
    BY <2>1 DEF TypeOK
  <2>3. \A d \in InFlight : contents[d].user \in Users
    BY Queued
  <2>. DEFINE n == contents[c].call.number
              w == contents[c].user
  <2>4. /\ w \in Users /\ n <= call[w].number
        /\ pc[w] \in Unsent => n # call[w].number
        /\ \A d \in InFlight : contents[d].user = w /\ d # c =>
               contents[d].call.number # n
    BY <2>3 DEF Numbered
  <2>5. \A u \in Users : completed'[u] = IF u = w THEN completed[u] \cup {n}
                                                  ELSE completed[u]
    BY <2>2
  <2>. HIDE DEF n, w
  <2>6. ASSUME NEW u \in Users
        PROVE  /\ \A m \in completed'[u] : m <= call[u].number
               /\ pc[u] \in Unsent => call[u].number \notin completed'[u]
    BY <2>4, <2>5 DEF Numbered
  <2>7. ASSUME NEW d \in InFlight'
        PROVE  contents[d].call.number \notin completed'[contents[d].user]
    <3>1. d \in InFlight /\ d # c /\ contents[d].user \in Users
      BY <1>4, <2>3
    <3>2. contents[d].call.number \notin completed[contents[d].user]
      BY <3>1 DEF Numbered
    <3>3. contents[d].user = w => contents[d].call.number # n
      BY <2>4, <3>1
    <3>. QED  BY <2>5, <3>1, <3>2, <3>3
  <2>. QED  BY <1>4, <1>5, <2>6, <2>7 DEF Numbered
<1>. QED  BY <1>6, <1>7, <1>8, <1>9 DEF Parts

LEMMA AgentPartsStep ==
    ASSUME IndInv, AgentStep \/ ConnectionLost \/ BrokerAnswers
    PROVE  Parts'
<1>. USE DEF IndInv, user, agent, network, ghost
<1>1. CASE Receive
  <2>1. /\ Head(queue) \in InQueue /\ InQueue' = InQueue \ {Head(queue)}
        /\ NoRepetition'
    BY <1>1, QueuedTail DEF Receive, Apart
  <2>2. inHand' = Head(queue) /\ inHand = None /\ releasing = None
        /\ connection # "resuming"
        /\ Head(queue) # None
    BY <1>1, <2>1, Queued, NoneAssumption DEF Receive, AgentFree
  <2>3. InFlight' = InFlight
    BY <1>1, <2>1, <2>2 DEF InFlight, Receive
  <2>. DEFINE c == Head(queue)
  <2>4. UNCHANGED <<pc, call, held, pool, contents, pending, releasing, toClear,
                    connection, completed>>
    BY <1>1 DEF Receive
  <2>5. c \in InFlight /\ c \notin pending
    BY <2>1 DEF InFlight, Apart
  <2>. HIDE DEF c
  <2>6. InQueue' = InQueue \ {c} /\ inHand' = c /\ c # None
    BY <2>1, <2>2 DEF c
  <2>7. Placed'
    BY <2>2, <2>4, <2>6, NoneAssumption DEF Placed
  <2>8. Apart'
    BY <2>1, <2>2, <2>3, <2>4, <2>5, <2>6 DEF Apart
  <2>9. Holding' /\ Numbered'
    BY <2>3, <2>4 DEF Holding, Numbered
  <2>. QED  BY <2>7, <2>8, <2>9 DEF Parts
<1>2. CASE ProcessSent
  <2>1. InQueue' = InQueue /\ NoRepetition'
    BY <1>2, QueuedSame DEF ProcessSent, Apart
  <2>2. InFlight' = InFlight
    BY <1>2, <2>1 DEF InFlight, ProcessSent
  <2>3. Placed'
    BY <1>2, <2>1 DEF Placed, ProcessSent
  <2>4. Apart'
    BY <1>2, <2>1, <2>2 DEF Apart, ProcessSent, InFlight
  <2>5. Holding' /\ Numbered'
    BY <1>2, <2>2 DEF Holding, Numbered, ProcessSent
  <2>. QED  BY <2>3, <2>4, <2>5 DEF Parts
<1>3. CASE ProcessAtMostOnce
  BY <1>3, CallbackStep DEF ProcessAtMostOnce, InFlight, Apart
<1>4. CASE ProcessFails
  BY <1>4, CallbackStep DEF ProcessFails, InFlight, Apart
<1>5. CASE Release
  <2>1. InQueue' = InQueue /\ NoRepetition'
    BY <1>5, QueuedSame DEF Release, Apart
  <2>2. InFlight' = InFlight
    BY <1>5, <2>1 DEF InFlight, Release
  <2>3. Placed'
    BY <1>5, <2>1 DEF Placed, Release
  <2>4. Apart'
    <3>1. \A u \in Users : held[u] # None => held[u] # releasing
      BY DEF Apart
    <3>2. None \notin pool' \cup InFlight'
      BY <1>5, <2>2, Queued, NoneAssumption DEF Release, TypeOK
    <3>. QED  BY <1>5, <2>1, <2>2, <3>1, <3>2 DEF Apart, Release
  <2>5. Holding' /\ Numbered'
    BY <1>5, <2>2 DEF Holding, Numbered, Release
  <2>. QED  BY <2>3, <2>4, <2>5 DEF Parts
<1>6. CASE Acknowledged
  <2>1. toClear = {} /\ Head(toAgent).command \in pending
        /\ Head(toAgent).command \in InFlight
    BY <1>6 DEF Acknowledged, Apart, InFlight
  <2>2. Head(toAgent).ok \in BOOLEAN
    <3>1. toAgent \in Seq([command : Commands, ok : BOOLEAN]) /\ toAgent # <<>>
      BY <1>6 DEF Acknowledged, TypeOK
    <3>2. Head(toAgent) \in [command : Commands, ok : BOOLEAN]
      BY <3>1, HeadTailProperties
    <3>. QED  BY <3>2
  <2>. QED  BY <1>6, <2>1, <2>2, CallbackStep DEF Acknowledged, AgentFree
<1>7. ASSUME NEW c \in Commands, GiveUp(c)
      PROVE  Parts'
  BY <1>7, CallbackStep DEF GiveUp, InFlight, Apart
<1>8. CASE \/ Resumed \/ (\E sessionPresent \in BOOLEAN : Reconnected(sessionPresent))
           \/ NotReconnected \/ ConnectionLost \/ BrokerAnswers
  <2>1. UNCHANGED <<user, agent, ghost>>
    BY <1>8 DEF Resumed, Reconnected, NotReconnected, ConnectionLost, BrokerAnswers
  <2>2. /\ toClear' \subseteq pending
        /\ connection' # "resuming" => toClear' = {}
        /\ inHand # None => releasing = None /\ connection' # "resuming"
    BY <1>8 DEF Resumed, Reconnected, NotReconnected, ConnectionLost, BrokerAnswers, Apart,
           AgentFree
  <2>3. InQueue' = InQueue /\ NoRepetition'
    BY <2>1, QueuedSame DEF Apart
  <2>4. InFlight' = InFlight
    BY <2>1, <2>3 DEF InFlight
  <2>5. Placed' /\ Holding' /\ Numbered'
    BY <2>1, <2>3, <2>4 DEF Placed, Holding, Numbered
  <2>6. Apart'
    BY <2>1, <2>2, <2>3, <2>4 DEF Apart
  <2>. QED  BY <2>5, <2>6 DEF Parts
<1>. QED  BY <1>1, <1>2, <1>3, <1>4, <1>5, <1>6, <1>7, <1>8 DEF AgentStep

-----------------------------------------------------------------------------
LEMMA Preserved == IndInv /\ [Next]_vars => IndInv'
<1>. SUFFICES ASSUME IndInv, [Next]_vars PROVE IndInv'
  OBVIOUS
<1>1. TypeOK' /\ IsFiniteSet(pending')
  BY TypeStep DEF IndInv
<1>2. Parts'
  <2>1. CASE UNCHANGED vars
    <3>1. UNCHANGED <<user, agent, network, ghost>>
      BY <2>1 DEF vars
    <3>2. InQueue' = InQueue /\ NoRepetition'
      BY <3>1, QueuedSame DEF IndInv, Apart, agent
    <3>3. InFlight' = InFlight
      BY <3>1, <3>2 DEF InFlight, agent
    <3>. QED  BY <3>1, <3>2, <3>3 DEF IndInv, Parts, Placed, Apart, Holding, Numbered,
                 user, agent, network, ghost
  <2>2. ASSUME NEW u \in Users, NEW kind \in Kinds, NEW f \in Filters,
               NEW r \in ReceiversOf[u], Begin(u, kind, f, r)
        PROVE  Parts'
    <3>1. r \in Receivers
      BY ReceiversAssumption
    <3>. QED  BY <2>2, <3>1, CallUserStep DEF Parts
  <2>. QED  BY <2>1, <2>2, UserPartsStep, AgentPartsStep DEF Next
<1>. QED  BY <1>1, <1>2 DEF IndInv, Parts

THEOREM Invariance == Spec => []IndInv
BY InitInv, Preserved, PTL DEF Spec

(* The types hold, for any numbers of users, commands and calls.           *)
THEOREM TypeCorrect == Spec => []TypeOK
BY Invariance, PTL DEF IndInv

(* No command leaks and none is in two places, through time-outs, lost     *)
(* connections and given-up requests (mqtt_agent.c, agent_command_pool.c). *)
THEOREM CommandsConserved == Spec => []PoolConserved
<1>1. ASSUME IndInv
      PROVE  PoolConserved
  <2>0. DOMAIN Places = 1 .. 6
    BY DEF Places
  <2>1. ASSUME NEW c \in Commands
        PROVE  \E i \in DOMAIN Places : c \in Places[i]
    <3>1. /\ Places[1] = pool /\ Places[2] = HeldByUsers /\ Places[3] = InQueue
          /\ Places[4] = {inHand} \ {None} /\ Places[5] = pending
          /\ Places[6] = {releasing} \ {None}
      BY DEF Places
    <3>2. c # None
      BY NoneAssumption
    <3>3. (\E u \in Users : held[u] = c) => c \in HeldByUsers
      BY <3>2 DEF HeldByUsers
    <3>4. \/ c \in Places[1] \/ c \in Places[2] \/ c \in Places[3]
          \/ c \in Places[4] \/ c \in Places[5] \/ c \in Places[6]
      BY <1>1, <3>1, <3>2, <3>3 DEF IndInv, Placed
    <3>. QED  BY <2>0, <3>4
  <2>2. ASSUME NEW i \in 1 .. 6, NEW j \in 1 .. 6, i < j
        PROVE  Places[i] \cap Places[j] = {}
    BY <1>1, <2>2 DEF IndInv, Apart, InFlight, Places, HeldByUsers
  <2>3. \A i, j \in DOMAIN Places : i # j => Places[i] \cap Places[j] = {}
    BY <2>0, <2>2
  <2>. QED  BY <1>1, <2>1, <2>3 DEF IndInv, Apart, NoRepetition, PoolConserved
<1>. QED  BY <1>1, Invariance, PTL

(* A call has one completion, whatever was lost, resent or given up.       *)
THEOREM CompletionsUnique == Spec => []CompletedOnce
<1>1. IndInv => CompletedOnce
  BY DEF IndInv, Numbered, InFlight, CompletedOnce
<1>. QED  BY <1>1, Invariance, PTL

-----------------------------------------------------------------------------
(* The rest is about calls whose waits reach no deadline.                  *)

LEMMA PatientInit == Init => PatientInv
<1>. SUFFICES ASSUME Init PROVE PatientInv
  OBVIOUS
<1>1. InFlight = {}
  BY DEF Init, InFlight, InQueue
<1>2. FrameNotUsed
  BY Zenon DEF Init, FrameNotUsed
<1>. QED  BY <1>1, <1>2 DEF Init, PatientInv, Awaited, OwnEvent, Waiting

(* A step of one user: what it must say of its own call and of the commands *)
(* in flight.                                                              *)
LEMMA PatientStep ==
    ASSUME IndInv, PatientInv, NEW u \in Users, NEW label \in UserSteps,
           pc' = [pc EXCEPT ![u] = label],
           \/ event' = event
           \/ event' = [event EXCEPT ![u] = FALSE],
           \A v \in Users \ {u} : call'[v] = call[v] /\ result'[v] = result[v],
           UNCHANGED <<completed, deadFrame, xReturnStatus>>,
           \A c \in InFlight' :
               IF c \in InFlight THEN contents'[c] = contents[c] /\ contents[c].user \in Users
                                 ELSE contents'[c].user = u,
           Awaited(u)', OwnEvent(u)'
    PROVE  PatientInv'
<1>1. \A v \in Users \ {u} : pc'[v] = pc[v]
  BY DEF IndInv, TypeOK
<1>2. \A v \in Users \ {u} : event'[v] = event[v]
  <2>1. event \in [Users -> BOOLEAN]
    BY DEF IndInv, TypeOK
  <2>. QED  BY <2>1, Zenon
<1>3. ASSUME NEW v \in Users \ {u}
      PROVE  Awaited(v)' /\ OwnEvent(v)'
  <2>1. Awaited(v) /\ OwnEvent(v)
    BY DEF PatientInv
  <2>2. OwnEvent(v)'
    BY <1>1, <1>2, <2>1 DEF OwnEvent
  <2>3. Awaited(v)'
    BY <1>1, <2>1 DEF Awaited
  <2>. QED  BY <2>2, <2>3
<1>4. FrameNotUsed'
  BY Zenon DEF PatientInv, FrameNotUsed
<1>. QED  BY <1>3, <1>4 DEF PatientInv

LEMMA PatientUserStep ==
    ASSUME IndInv, PatientInv, ~Impatient, NEW u \in Users,
           \/ UserStep(u)
           \/ \E kind \in Kinds, f \in Filters, r \in ReceiversOf[u] : Begin(u, kind, f, r)
    PROVE  PatientInv'
<1>. USE DEF At, Goto, Return
<1>1. TypeOK /\ Apart /\ Holding /\ Awaited(u) /\ OwnEvent(u)
  BY DEF IndInv, PatientInv
<1>2. \A c \in InFlight : c \in Commands /\ c \notin pool /\ contents[c].user \in Users
  BY <1>1, Queued DEF Apart
<1>3. \A c \in InFlight : contents[c].user = u =>
          pc[u] \in Waiting /\ call[u].number \notin completed[u]
  BY <1>1 DEF IndInv, Numbered, Awaited
<1>4. ASSUME queue' = queue, inHand' = inHand, pending' = pending
      PROVE  InFlight' = InFlight
  BY <1>4 DEF InFlight, InQueue
<1>5. pc[u] \in UserSteps /\ pc \in [Users -> UserSteps] /\ call \in [Users -> Calls]
  BY <1>1 DEF TypeOK
<1>6. CASE \E kind \in Kinds, f \in Filters, r \in ReceiversOf[u] : Begin(u, kind, f, r)
  <2>1. /\ pc[u] = "idle" /\ pc' = [pc EXCEPT ![u] = "get"] /\ pc'[u] = "get"
        /\ UNCHANGED <<queue, inHand, pending, contents, event, result>>
        /\ UNCHANGED <<completed, deadFrame, xReturnStatus>>
    BY <1>5, <1>6 DEF Begin, agent, ghost
  <2>2. \A v \in Users \ {u} : call'[v] = call[v]
    BY <1>5, <1>6 DEF Begin
  <2>3. InFlight' = InFlight
    BY <1>4, <2>1
  <2>4. Awaited(u)'
    BY <1>3, <2>1, <2>3 DEF Awaited, Waiting
  <2>5. OwnEvent(u)'
    BY <1>1, <2>1 DEF OwnEvent, Waiting
  <2>. QED  BY <1>2, <2>1, <2>2, <2>3, <2>4, <2>5, PatientStep DEF UserSteps
<1>7. CASE GetCommand(u)
  <2>1. /\ pc[u] \in {"get", "getBlocked"}
        /\ pc' = [pc EXCEPT ![u] = "send"] /\ pc'[u] = "send"
        /\ UNCHANGED <<queue, inHand, pending, call, event, result>>
        /\ UNCHANGED <<completed, deadFrame, xReturnStatus>>
    BY <1>5, <1>7 DEF GetCommand, ghost
  <2>2. \A c \in InFlight : contents'[c] = contents[c]
    <3>1. PICK c \in pool : contents' = [contents EXCEPT ![c] =
                                         [user |-> u, call |-> call[u]]]
      BY <1>7 DEF GetCommand
    <3>. QED  BY <1>1, <1>2, <3>1 DEF TypeOK
  <2>3. InFlight' = InFlight
    BY <1>4, <2>1
  <2>4. Awaited(u)'
    BY <1>3, <2>1, <2>2, <2>3 DEF Awaited, Waiting
  <2>5. OwnEvent(u)'
    BY <1>1, <2>1 DEF OwnEvent, Waiting
  <2>. QED  BY <1>2, <2>1, <2>2, <2>3, <2>4, <2>5, PatientStep DEF UserSteps
<1>8. CASE GetBlocks(u) \/ SendBlocks(u)
  <2>1. PICK label \in {"getBlocked", "sendBlocked"} : pc' = [pc EXCEPT ![u] = label]
    BY <1>8 DEF GetBlocks, SendBlocks
  <2>2. /\ pc[u] \in {"get", "send"} /\ pc'[u] = label
        /\ UNCHANGED <<queue, inHand, pending, contents, call, event, result>>
        /\ UNCHANGED <<completed, deadFrame, xReturnStatus>>
    BY <1>5, <1>8, <2>1 DEF GetBlocks, SendBlocks, agent, ghost
  <2>3. InFlight' = InFlight
    BY <1>4, <2>2
  <2>4. Awaited(u)'
    BY <1>3, <2>2, <2>3 DEF Awaited, Waiting
  <2>5. OwnEvent(u)'
    BY <1>1, <2>2 DEF OwnEvent, Waiting
  <2>. QED  BY <1>2, <2>1, <2>2, <2>3, <2>4, <2>5, PatientStep DEF UserSteps
<1>9. CASE GetTimesOut(u) \/ SendTimesOut(u)
  <2>1. /\ pc[u] \in {"getBlocked", "sendBlocked"}
        /\ pc' = [pc EXCEPT ![u] = "idle"] /\ pc'[u] = "idle"
        /\ UNCHANGED <<queue, inHand, pending, contents, call, event>>
        /\ UNCHANGED <<completed, deadFrame, xReturnStatus>>
    BY <1>5, <1>9 DEF GetTimesOut, SendTimesOut, agent, ghost
  <2>2. result'[u].woken = FALSE /\ \A v \in Users \ {u} : result'[v] = result[v]
    <3>1. result' = [result EXCEPT ![u] =
                       [ok |-> FALSE, woken |-> FALSE, number |-> call[u].number]]
      BY <1>9 DEF GetTimesOut, SendTimesOut
    <3>. QED  BY <1>1, <3>1, Zenon DEF TypeOK
  <2>3. InFlight' = InFlight
    BY <1>4, <2>1
  <2>4. Awaited(u)'
    BY <1>3, <2>1, <2>3 DEF Awaited, Waiting
  <2>5. OwnEvent(u)'
    BY <1>1, <2>1, <2>2 DEF OwnEvent, Waiting
  <2>. QED  BY <1>2, <2>1, <2>2, <2>3, <2>4, <2>5, PatientStep DEF UserSteps
<1>10. CASE SendCommand(u)
  <2>1. PICK label \in {"wait", "clear"} :
            /\ pc' = [pc EXCEPT ![u] = label]
            /\ label = "clear" => call[u].kind # "publish"
    BY <1>10 DEF SendCommand, AfterSend
  <2>2. /\ pc[u] \in Sending /\ pc'[u] = label
        /\ UNCHANGED <<inHand, pending, contents, call, event, result>>
        /\ UNCHANGED <<completed, deadFrame, xReturnStatus>>
        /\ queue' = Append(queue, held[u])
    BY <1>5, <1>10, <2>1 DEF SendCommand, Sending, ghost
  <2>3. held[u] \in Commands /\ contents[held[u]] = [user |-> u, call |-> call[u]]
    BY <1>1, <2>2 DEF Holding, TypeOK
  <2>4. InFlight' = InFlight \cup {held[u]}
    <3>1. InQueue' = InQueue \cup {held[u]}
      BY <1>1, <2>2, <2>3, QueuedAppend
    <3>. QED  BY <2>2, <3>1 DEF InFlight
  <2>5. \A c \in InFlight : contents[c].user # u
    BY <1>3, <2>2 DEF Sending, Waiting
  <2>6. Awaited(u)'
    BY <2>1, <2>2, <2>3, <2>4, <2>5 DEF Awaited, Waiting
  <2>7. call[u].number \notin completed[u]
    BY <2>2 DEF IndInv, Numbered, Unsent
  <2>8. OwnEvent(u)'
    BY <1>1, <2>1, <2>2, <2>7 DEF OwnEvent, Waiting, Sending
  <2>9. \A c \in InFlight' : IF c \in InFlight
                             THEN contents'[c] = contents[c] /\ contents[c].user \in Users
                             ELSE contents'[c].user = u
    BY <1>2, <2>2, <2>3, <2>4
  <2>. QED  BY <2>1, <2>2, <2>6, <2>8, <2>9, PatientStep DEF UserSteps
<1>11. CASE ClearEvent(u)
  <2>1. /\ pc[u] = "clear" /\ pc' = [pc EXCEPT ![u] = "wait"] /\ pc'[u] = "wait"
        /\ UNCHANGED <<queue, inHand, pending, contents, call, result>>
        /\ UNCHANGED <<completed, deadFrame, xReturnStatus>>
        /\ event' = [event EXCEPT ![u] = FALSE]
    BY <1>5, <1>11 DEF ClearEvent, agent, ghost
  <2>2. event'[u] = FALSE
    BY <1>1, <2>1, Zenon DEF TypeOK
  <2>3. InFlight' = InFlight
    BY <1>4, <2>1
  <2>4. Awaited(u)'
    BY <1>1, <2>1, <2>3 DEF Awaited, Waiting
  <2>5. OwnEvent(u)'
    BY <1>1, <2>1, <2>2 DEF OwnEvent, Waiting
  <2>. QED  BY <1>2, <2>1, <2>3, <2>4, <2>5, PatientStep DEF UserSteps
<1>12. CASE Wake(u)
  <2>1. /\ pc' = [pc EXCEPT ![u] = "idle"] /\ pc'[u] = "idle"
        /\ UNCHANGED <<queue, inHand, pending, contents, call>>
        /\ UNCHANGED <<completed, deadFrame, xReturnStatus>>
        /\ event[u] /\ event' = [event EXCEPT ![u] = FALSE]
    BY <1>5, <1>12 DEF Wake, agent, ghost
  <2>2. event'[u] = FALSE
    BY <1>1, <2>1, Zenon DEF TypeOK
  <2>3. InFlight' = InFlight
    BY <1>4, <2>1
  <2>4. call[u].number \in completed[u] /\ xReturnStatus[u].number = call[u].number
    BY <1>1, <2>1 DEF OwnEvent
  <2>5. Awaited(u)'
    BY <1>3, <2>1, <2>3, <2>4 DEF Awaited
  <2>6. /\ result'[u].number = call[u].number
        /\ \A v \in Users \ {u} : result'[v] = result[v]
    <3>1. result' = [result EXCEPT ![u] =
                       [ok |-> call[u].kind = "publish" => xReturnStatus[u].ok,
                        woken |-> TRUE, number |-> call[u].number]]
      BY <1>12, <2>4, Zenon DEF Wake
    <3>. QED  BY <1>1, <3>1, Zenon DEF TypeOK
  <2>7. OwnEvent(u)'
    BY <2>1, <2>2, <2>6 DEF OwnEvent, Waiting
  <2>. QED  BY <1>2, <2>1, <2>3, <2>5, <2>6, <2>7, PatientStep DEF UserSteps
<1>13. CASE WaitBlocks(u)
  <2>1. /\ pc[u] = "wait" /\ pc' = [pc EXCEPT ![u] = "blocked"] /\ pc'[u] = "blocked"
        /\ UNCHANGED <<queue, inHand, pending, contents, call, event, result>>
        /\ UNCHANGED <<completed, deadFrame, xReturnStatus>>
    BY <1>5, <1>13 DEF WaitBlocks, agent, ghost
  <2>2. InFlight' = InFlight
    BY <1>4, <2>1
  <2>3. Awaited(u)'
    BY <1>1, <2>1, <2>2 DEF Awaited, Waiting
  <2>4. OwnEvent(u)'
    BY <1>1, <2>1 DEF OwnEvent, Waiting
  <2>. QED  BY <1>2, <2>1, <2>2, <2>3, <2>4, PatientStep DEF UserSteps
<1>14. ~WaitTimesOut(u)
  BY DEF WaitTimesOut
<1>. QED  BY <1>6, <1>7, <1>8, <1>9, <1>10, <1>11, <1>12, <1>13, <1>14 DEF UserStep

(* A callback finds its call waiting, with a live frame.                   *)
LEMMA PatientCallback ==
    ASSUME IndInv, PatientInv, NEW c \in InFlight, NEW ok \in BOOLEAN,
           Callback(c, ok), InFlight' \subseteq InFlight
    PROVE  PatientInv'
<1>. DEFINE w == contents[c].user
<1>1. TypeOK /\ c \in Commands /\ w \in Users
  BY Queued DEF IndInv
<1>2. \A d \in InFlight : contents[d].user \in Users
  BY <1>1, Queued
<1>3. pc[w] \in Waiting /\ contents[c].call = call[w]
  BY <1>1 DEF PatientInv, Awaited
<1>4. FrameAlive(contents[c])
  BY <1>3 DEF FrameAlive, Waiting
<1>5. /\ completed' = [completed EXCEPT ![w] = @ \cup {call[w].number}]
      /\ deadFrame' = deadFrame
      /\ xReturnStatus' = [xReturnStatus EXCEPT ![w] =
                              [ok |-> ok, number |-> call[w].number]]
      /\ event' = [event EXCEPT ![w] = TRUE]
      /\ UNCHANGED <<pc, call, result, contents>>
  <2>1. deadFrame \in BOOLEAN
    BY <1>1 DEF TypeOK
  <2>. QED  BY <1>3, <1>4, <2>1 DEF Callback
<1>. HIDE DEF w
<1>6. \A v \in Users : /\ completed'[v] = IF v = w THEN completed[v] \cup {call[v].number}
                                            ELSE completed[v]
                       /\ v # w => xReturnStatus'[v] = xReturnStatus[v]
                       /\ v = w => xReturnStatus'[v].number = call[v].number
  BY <1>1, <1>5 DEF TypeOK
<1>7. event'[w] = TRUE /\ \A v \in Users \ {w} : event'[v] = event[v]
  <2>1. event \in [Users -> BOOLEAN]
    BY <1>1 DEF TypeOK
  <2>. QED  BY <1>1, <1>5, <2>1, Zenon
<1>8. ASSUME NEW v \in Users
      PROVE  Awaited(v)' /\ OwnEvent(v)'
  <2>1. Awaited(v) /\ OwnEvent(v)
    BY DEF PatientInv
  <2>2. Awaited(v)'
    BY <1>5, <2>1 DEF Awaited
  <2>3. CASE v = w
    <3>1. pc'[v] = pc[v] /\ pc[v] \in Waiting /\ call'[v] = call[v]
      BY <1>3, <1>5, <2>3
    <3>2. call[v].number \in completed'[v] /\ xReturnStatus'[v].number = call[v].number
      BY <1>6, <2>3
    <3>3. event'[v]
      BY <1>7, <2>3
    <3>4. pc'[v] # "idle" /\ (pc'[v] = "clear" => call'[v].kind # "publish")
      BY <2>1, <3>1 DEF OwnEvent, Waiting
    <3>5. /\ pc'[v] \in Waiting
          /\ call'[v].number \in completed'[v]
          /\ xReturnStatus'[v].number = call'[v].number
      BY <3>1, <3>2
    <3>. QED  BY <2>2, <3>3, <3>4, <3>5, Zenon DEF OwnEvent
  <2>4. CASE v # w
    <3>1. pc'[v] = pc[v] /\ call'[v] = call[v] /\ result'[v] = result[v]
      BY <1>5
    <3>2. completed'[v] = completed[v] /\ xReturnStatus'[v] = xReturnStatus[v]
      BY <1>6, <2>4
    <3>3. event'[v] = event[v]
      BY <1>7, <2>4
    <3>. QED  BY <2>1, <2>2, <3>1, <3>2, <3>3, Zenon DEF OwnEvent
  <2>. QED  BY <2>2, <2>3, <2>4
<1>9. FrameNotUsed'
  BY <1>5, Zenon DEF PatientInv, FrameNotUsed
<1>. QED  BY <1>8, <1>9 DEF PatientInv

LEMMA PatientAgentStep ==
    ASSUME IndInv, PatientInv, AgentStep \/ ConnectionLost \/ BrokerAnswers
    PROVE  PatientInv'
<1>. USE DEF user, agent, ghost
<1>1. TypeOK /\ Apart /\ pending \subseteq InFlight /\ (inHand # None => inHand \in InFlight)
  BY DEF IndInv, InFlight
<1>2. ASSUME InFlight' \subseteq InFlight, UNCHANGED <<user, contents, ghost>>
      PROVE  PatientInv'
  <2>1. FrameNotUsed'
    BY <1>2, Zenon DEF PatientInv, FrameNotUsed
  <2>2. ASSUME NEW v \in Users
        PROVE  Awaited(v)' /\ OwnEvent(v)'
    BY <1>2 DEF PatientInv, Awaited, OwnEvent
  <2>. QED  BY <2>1, <2>2 DEF PatientInv
<1>3. CASE Receive
  <2>1. InQueue' \subseteq InQueue /\ inHand' \in InQueue /\ pending' = pending
    BY <1>1, <1>3, QueuedTail DEF Receive, Apart
  <2>2. InFlight' \subseteq InFlight
    BY <2>1 DEF InFlight
  <2>. QED  BY <1>2, <1>3, <2>2 DEF Receive
<1>4. ASSUME queue' = queue, inHand' \in {inHand, None},
             pending' \subseteq pending \cup ({inHand} \ {None})
      PROVE  InFlight' \subseteq InFlight
  BY <1>4 DEF InFlight, InQueue
<1>5. CASE \/ ProcessSent \/ Release \/ Resumed
           \/ (\E sessionPresent \in BOOLEAN : Reconnected(sessionPresent))
           \/ NotReconnected \/ ConnectionLost \/ BrokerAnswers
  <2>1. /\ queue' = queue /\ inHand' \in {inHand, None}
        /\ pending' \subseteq pending \cup ({inHand} \ {None})
        /\ UNCHANGED <<user, contents, ghost>>
    BY <1>5 DEF ProcessSent, Release, Resumed, Reconnected, NotReconnected, ConnectionLost,
           BrokerAnswers
  <2>. QED  BY <1>2, <1>4, <2>1
<1>6. CASE ProcessAtMostOnce
  BY <1>1, <1>4, <1>6, PatientCallback DEF ProcessAtMostOnce
<1>7. CASE ProcessFails
  BY <1>1, <1>4, <1>7, PatientCallback DEF ProcessFails
<1>8. CASE Acknowledged
  <2>1. Head(toAgent).ok \in BOOLEAN
    <3>1. toAgent \in Seq([command : Commands, ok : BOOLEAN]) /\ toAgent # <<>>
      BY <1>1, <1>8 DEF Acknowledged, TypeOK
    <3>2. Head(toAgent) \in [command : Commands, ok : BOOLEAN]
      BY <3>1, HeadTailProperties
    <3>. QED  BY <3>2
  <2>. QED  BY <1>1, <1>4, <1>8, <2>1, PatientCallback DEF Acknowledged
<1>9. ASSUME NEW c \in Commands, GiveUp(c)
      PROVE  PatientInv'
  <2>1. c \in InFlight /\ Callback(c, FALSE) /\ InFlight' \subseteq InFlight
    BY <1>1, <1>4, <1>9 DEF GiveUp, Apart
  <2>. QED  BY <2>1, PatientCallback
<1>. QED  BY <1>3, <1>5, <1>6, <1>7, <1>8, <1>9 DEF AgentStep

LEMMA PatientInvariance == ASSUME ~Impatient PROVE Spec => [](IndInv /\ PatientInv)
<1>1. IndInv /\ PatientInv /\ [Next]_vars => PatientInv'
  <2>. SUFFICES ASSUME IndInv, PatientInv, [Next]_vars PROVE PatientInv'
    OBVIOUS
  <2>1. CASE UNCHANGED vars
    <3>1. UNCHANGED <<user, agent, ghost>>
      BY <2>1 DEF vars
    <3>2. InFlight' = InFlight
      BY <3>1 DEF InFlight, InQueue, agent
    <3>3. FrameNotUsed'
      BY <3>1, Zenon DEF PatientInv, FrameNotUsed, ghost
    <3>4. ASSUME NEW v \in Users
          PROVE  Awaited(v)' /\ OwnEvent(v)'
      BY <3>1, <3>2 DEF PatientInv, Awaited, OwnEvent, user, agent, ghost
    <3>. QED  BY <3>3, <3>4 DEF PatientInv
  <2>. QED  BY <2>1, PatientUserStep, PatientAgentStep DEF Next
<1>. QED  BY <1>1, PatientInit, InitInv, Preserved, PTL DEF Spec

(* As long as no wait for a completion reaches its deadline, no callback   *)
(* reads the stack frame of a call that has returned                       *)
(* (mqtt_agent.c:620-621), through any number of lost connections.         *)
THEOREM PatientFrames == ~Impatient => (Spec => []FrameNotUsed)
<1>. SUFFICES ASSUME ~Impatient PROVE Spec => []FrameNotUsed
  OBVIOUS
<1>1. IndInv /\ PatientInv => FrameNotUsed
  BY DEF PatientInv
<1>2. Spec => [](IndInv /\ PatientInv)
  BY PatientInvariance
<1>. QED  BY <1>1, <1>2, PTL

(* As long as no wait reaches its deadline, a publish returns the status   *)
(* of its own operation (mqtt_agent.c:473-474).                            *)
THEOREM PatientReports == ~Impatient => (Spec => []PublishReportsOwn)
<1>. SUFFICES ASSUME ~Impatient PROVE Spec => []PublishReportsOwn
  OBVIOUS
<1>1. IndInv /\ PatientInv => PublishReportsOwn
  BY DEF PatientInv, OwnEvent, PublishReportsOwn
<1>2. Spec => [](IndInv /\ PatientInv)
  BY PatientInvariance
<1>. QED  BY <1>1, <1>2, PTL

(* As long as no wait reaches its deadline, the event of a completed       *)
(* publish stays set until its wait sees it.                               *)
THEOREM PatientWakes == ~Impatient => (Spec => []PublishIsWoken)
<1>. SUFFICES ASSUME ~Impatient PROVE Spec => []PublishIsWoken
  OBVIOUS
<1>1. IndInv /\ PatientInv => PublishIsWoken
  BY DEF PatientInv, OwnEvent, PublishIsWoken
<1>2. Spec => [](IndInv /\ PatientInv)
  BY PatientInvariance
<1>. QED  BY <1>1, <1>2, PTL

-----------------------------------------------------------------------------
(* The wires, through lost connections as well.                            *)

(* What is on the wire is pending, and there once; without a connection    *)
(* nothing is.                                                             *)
Wires ==
    /\ \A i \in DOMAIN toBroker : toBroker[i] \in pending
    /\ \A i \in DOMAIN toAgent : toAgent[i].command \in pending
    /\ \A i, j \in DOMAIN toBroker : toBroker[i] = toBroker[j] => i = j
    /\ \A i, j \in DOMAIN toAgent : toAgent[i].command = toAgent[j].command => i = j
    /\ \A i \in DOMAIN toBroker, j \in DOMAIN toAgent : toBroker[i] # toAgent[j].command
    /\ connection # "up" => toBroker = <<>> /\ toAgent = <<>>

(* The broker takes the first request and appends its answer.              *)
LEMMA AnswerFacts ==
    ASSUME TypeOK, BrokerAnswers
    PROVE  /\ Len(toBroker) \in Nat \ {0} /\ DOMAIN toBroker = 1 .. Len(toBroker)
           /\ Head(toBroker) = toBroker[1] /\ Head(toBroker) \in Commands
           /\ DOMAIN toBroker' = 1 .. Len(toBroker) - 1
           /\ \A i \in DOMAIN toBroker' :
                 i + 1 \in DOMAIN toBroker /\ toBroker'[i] = toBroker[i + 1]
           /\ Len(toAgent) \in Nat /\ DOMAIN toAgent = 1 .. Len(toAgent)
           /\ DOMAIN toAgent' = DOMAIN toAgent \cup {Len(toAgent) + 1}
           /\ \A i \in DOMAIN toAgent : toAgent'[i] = toAgent[i]
           /\ \E ok \in BOOLEAN :
                 LET k == contents[Head(toBroker)].call.kind
                     f == contents[Head(toBroker)].call.filter
                 IN  /\ toAgent'[Len(toAgent) + 1] = [command |-> Head(toBroker), ok |-> ok]
                     /\ session' = CASE k = "subscribe" /\ ok -> session \cup {f}
                                     [] k = "unsubscribe" -> session \ {f}
                                     [] OTHER -> session
                     /\ k # "subscribe" => ok
<1>1. toBroker \in Seq(Commands) /\ toBroker # <<>> /\ toBroker' = Tail(toBroker)
  BY DEF TypeOK, BrokerAnswers
<1>2. /\ Len(toBroker) \in Nat \ {0} /\ DOMAIN toBroker = 1 .. Len(toBroker)
      /\ Head(toBroker) = toBroker[1] /\ Head(toBroker) \in Commands
      /\ DOMAIN toBroker' = 1 .. Len(toBroker) - 1
      /\ \A i \in DOMAIN toBroker' :
            i + 1 \in DOMAIN toBroker /\ toBroker'[i] = toBroker[i + 1]
  BY <1>1
<1>. DEFINE M == [command : Commands, ok : BOOLEAN]
            k == contents[Head(toBroker)].call.kind
            f == contents[Head(toBroker)].call.filter
<1>3. PICK ok \in BOOLEAN :
          /\ toAgent' = Append(toAgent, [command |-> Head(toBroker), ok |-> ok])
          /\ session' = CASE k = "subscribe" /\ ok -> session \cup {f}
                          [] k = "unsubscribe" -> session \ {f}
                          [] OTHER -> session
          /\ k # "subscribe" => ok
  BY DEF BrokerAnswers
<1>. DEFINE a == [command |-> Head(toBroker), ok |-> ok]
<1>4. a \in M /\ toAgent \in Seq(M) /\ toAgent' = Append(toAgent, a)
  BY <1>2, <1>3 DEF TypeOK
<1>. HIDE DEF M, a
<1>5. /\ Len(toAgent) \in Nat /\ DOMAIN toAgent = 1 .. Len(toAgent)
      /\ DOMAIN toAgent' = DOMAIN toAgent \cup {Len(toAgent) + 1}
      /\ toAgent'[Len(toAgent) + 1] = a
      /\ \A i \in DOMAIN toAgent : toAgent'[i] = toAgent[i]
  BY <1>4
<1>. QED  BY <1>2, <1>3, <1>5 DEF a

(* The agent takes the first answer.                                       *)
LEMMA AcknowledgedFacts ==
    ASSUME TypeOK, Acknowledged
    PROVE  /\ Len(toAgent) \in Nat \ {0} /\ DOMAIN toAgent = 1 .. Len(toAgent)
           /\ Head(toAgent) = toAgent[1]
           /\ Head(toAgent).command \in Commands /\ Head(toAgent).ok \in BOOLEAN
           /\ DOMAIN toAgent' = 1 .. Len(toAgent) - 1
           /\ \A i \in DOMAIN toAgent' : toAgent'[i] = toAgent[i + 1]
           /\ \A i \in Nat : i \in DOMAIN toAgent' <=> i # 0 /\ i + 1 \in DOMAIN toAgent
<1>. DEFINE M == [command : Commands, ok : BOOLEAN]
<1>1. toAgent \in Seq(M) /\ toAgent # <<>> /\ toAgent' = Tail(toAgent)
  BY DEF TypeOK, Acknowledged
<1>. HIDE DEF M
<1>2. Head(toAgent) \in M /\ Head(toAgent) = toAgent[1]
  BY <1>1
<1>. QED  BY <1>1, <1>2 DEF M

LEMMA WiresStep == IndInv /\ Wires /\ [Next]_vars => Wires'
<1>. SUFFICES ASSUME IndInv, Wires, [Next]_vars PROVE Wires'
  OBVIOUS
<1>1. TypeOK /\ Apart
  BY DEF IndInv
<1>2. ASSUME UNCHANGED <<toBroker, toAgent, pending>>, connection' # "up" => connection # "up"
      PROVE  Wires'
  BY <1>2 DEF Wires
<1>3. ASSUME NEW u \in Users,
             \/ UserStep(u)
             \/ \E kind \in Kinds, f \in Filters, r \in ReceiversOf[u] : Begin(u, kind, f, r)
      PROVE  Wires'
  <2>1. UNCHANGED <<toBroker, toAgent, pending, connection>>
    BY <1>3 DEF UserStep, Begin, GetCommand, GetBlocks, GetTimesOut, SendCommand,
           SendBlocks, SendTimesOut, ClearEvent, Wake, WaitBlocks, WaitTimesOut,
           agent, network
  <2>. QED  BY <1>2, <2>1
<1>4. CASE Receive \/ Release \/ ProcessAtMostOnce \/ ProcessFails \/ NotReconnected
  BY <1>2, <1>4 DEF Receive, Release, ProcessAtMostOnce, ProcessFails, NotReconnected, network,
         agent
<1>5. CASE ProcessSent
  <2>1. /\ inHand \in Commands /\ inHand \notin pending /\ connection = "up"
        /\ toBroker' = Append(toBroker, inHand) /\ toBroker \in Seq(Commands)
        /\ pending' = pending \cup {inHand} /\ UNCHANGED <<toAgent, connection>>
    BY <1>1, <1>5 DEF ProcessSent, TypeOK, Apart
  <2>2. /\ Len(toBroker) \in Nat /\ DOMAIN toBroker = 1 .. Len(toBroker)
        /\ DOMAIN toBroker' = 1 .. Len(toBroker) + 1
        /\ \A i \in DOMAIN toBroker' :
              toBroker'[i] = IF i = Len(toBroker) + 1 THEN inHand ELSE toBroker[i]
    BY <2>1
  <2>3. /\ \A i \in DOMAIN toBroker : toBroker[i] # inHand
        /\ \A i \in DOMAIN toAgent : toAgent[i].command # inHand
    BY <2>1 DEF Wires
  <2>. QED  BY <2>1, <2>2, <2>3 DEF Wires
<1>6. CASE Acknowledged
  <2>. DEFINE c == Head(toAgent).command
  <2>1. /\ connection = "up" /\ pending' = pending \ {c}
        /\ UNCHANGED <<toBroker, connection>>
    BY <1>6 DEF Acknowledged
  <2>2. /\ 1 \in DOMAIN toAgent /\ c = toAgent[1].command
        /\ DOMAIN toAgent \subseteq Nat
        /\ \A i \in DOMAIN toAgent' :
              /\ i + 1 \in DOMAIN toAgent /\ i # 0 /\ i \in Nat
              /\ toAgent'[i] = toAgent[i + 1]
    BY <1>1, <1>6, AcknowledgedFacts
  <2>. HIDE DEF c
  <2>3. \A i \in DOMAIN toAgent' : toAgent'[i].command # c
    BY <2>2 DEF Wires
  <2>4. \A i, j \in DOMAIN toAgent' : toAgent'[i].command = toAgent'[j].command => i = j
    BY <2>2 DEF Wires
  <2>5. \A i \in DOMAIN toBroker : toBroker[i] # c
    BY <2>2 DEF Wires
  <2>. QED  BY <2>1, <2>2, <2>3, <2>4, <2>5 DEF Wires
<1>7. CASE Resumed
  <2>1. toAgent = <<>> /\ connection' = "up" /\ UNCHANGED <<toAgent, pending>>
    BY <1>7 DEF Resumed, Wires, agent
  <2>2. PICK q \in [1 .. Cardinality(pending) -> pending] :
            toBroker' = q /\ \A i, j \in DOMAIN q : q[i] = q[j] => i = j
    BY <1>7 DEF Resumed
  <2>3. \A i \in DOMAIN toBroker' : toBroker'[i] \in pending
    BY <2>2
  <2>. QED  BY <2>1, <2>2, <2>3 DEF Wires
<1>8. ASSUME NEW sessionPresent \in BOOLEAN, Reconnected(sessionPresent)
      PROVE  Wires'
  BY <1>8 DEF Reconnected, Wires, agent
<1>9. ASSUME NEW c \in Commands, GiveUp(c)
      PROVE  Wires'
  BY <1>9 DEF GiveUp, Wires
<1>10. CASE ConnectionLost
  BY <1>10 DEF ConnectionLost, Wires
<1>11. CASE BrokerAnswers
  <2>. DEFINE c == Head(toBroker)
              n == Len(toAgent) + 1
  <2>1. connection' = connection /\ connection = "up" /\ pending' = pending
    BY <1>11 DEF BrokerAnswers, Wires, agent
  <2>2. toAgent'[n].command = c
    <3>1. PICK ok \in BOOLEAN : toAgent'[n] = [command |-> c, ok |-> ok]
      BY <1>1, <1>11, AnswerFacts
    <3>. QED  BY <3>1
  <2>3. /\ Len(toBroker) \in Nat \ {0} /\ DOMAIN toBroker = 1 .. Len(toBroker)
        /\ c = toBroker[1] /\ DOMAIN toBroker' = 1 .. Len(toBroker) - 1
        /\ \A i \in DOMAIN toBroker' :
              i + 1 \in DOMAIN toBroker /\ toBroker'[i] = toBroker[i + 1]
        /\ Len(toAgent) \in Nat /\ DOMAIN toAgent = 1 .. Len(toAgent)
        /\ DOMAIN toAgent' = DOMAIN toAgent \cup {n}
        /\ \A i \in DOMAIN toAgent : toAgent'[i] = toAgent[i]
    BY <1>1, <1>11, AnswerFacts
  <2>. HIDE DEF c
  <2>4. /\ 1 \in DOMAIN toBroker /\ c = toBroker[1] /\ DOMAIN toBroker \subseteq Nat
        /\ \A i \in DOMAIN toBroker' :
              /\ i + 1 \in DOMAIN toBroker /\ i # 0 /\ i \in Nat
              /\ toBroker'[i] = toBroker[i + 1]
        /\ n \notin DOMAIN toAgent /\ DOMAIN toAgent' = DOMAIN toAgent \cup {n}
        /\ toAgent'[n].command = c
        /\ \A i \in DOMAIN toAgent : toAgent'[i] = toAgent[i]
    BY <2>2, <2>3
  <2>. HIDE DEF n
  <2>5. c \in pending /\ \A j \in DOMAIN toAgent : toAgent[j].command # c
    BY <2>4 DEF Wires
  <2>6. \A i \in DOMAIN toBroker' : toBroker'[i] # c
    BY <2>4 DEF Wires
  <2>7. \A i, j \in DOMAIN toBroker' : toBroker'[i] = toBroker'[j] => i = j
    BY <2>4 DEF Wires
  <2>8. \A i \in DOMAIN toAgent' :
            toAgent'[i].command = IF i = n THEN c ELSE toAgent[i].command
    BY <2>4
  <2>. QED  BY <2>1, <2>4, <2>5, <2>6, <2>7, <2>8 DEF Wires
<1>12. CASE UNCHANGED vars
  BY <1>2, <1>12 DEF vars, agent, network
<1>. QED  BY <1>3, <1>4, <1>5, <1>6, <1>7, <1>8, <1>9, <1>10, <1>11, <1>12
          DEF Next, AgentStep

LEMMA WiresInit == Init => Wires
BY DEF Init, Wires

-----------------------------------------------------------------------------
(* The list and the broker's session, when no connection is lost either.   *)

(* The filters that a list routes; it has no pair of filter and receiver   *)
(* twice.                                                                  *)
FiltersIn(l) == {l[i].filter : i \in Indices \ FreeSlots(l)}
OneSlotEach(l) == \A i, j \in Indices : l[i] = l[j] /\ l[i] # Free => i = j

\* The list has room for every pair of a filter and a receiver.
ListSuffices == IsFiniteSet(Subscription) /\ Cardinality(Subscription) <= MaxSubscriptions

\* The answers on the wire that will change what the list says of a filter.
Changes(f) ==
    {i \in DOMAIN toAgent :
        /\ toAgent[i].ok
        /\ ~IsPublish(toAgent[i].command)
        /\ contents[toAgent[i].command].call.filter = f}

(* The list follows the session as the answers are handled: the last one   *)
(* about a filter says whether the session has it.                         *)
Follows ==
    \A f \in Filters :
        /\ Changes(f) = {} => (f \in session <=> f \in FiltersIn(list))
        /\ \A i \in Changes(f) : (\A j \in Changes(f) : j <= i) =>
              (f \in session <=> contents[toAgent[i].command].call.kind = "subscribe")

(* Only the first connection is waited for.                                *)
FirstConnection ==
    connection # "up" => session = {} /\ pending = {} /\ FiltersIn(list) = {}

RoutesInv == OneSlotEach(list) /\ FirstConnection /\ Follows

(* A non-empty set of indices has a lowest one.                            *)
LEMMA LowestOf ==
    ASSUME NEW S \in SUBSET Nat, S # {}
    PROVE  Lowest(S) \in S
<1>1. IsWellFoundedOn(OpToRel(<, Nat), Nat)
  BY NatLessThanWellFounded
<1>2. PICK i \in S : \A j \in S : ~(<<j, i>> \in OpToRel(<, Nat))
  BY <1>1, WFMin
<1>3. ASSUME NEW j \in S
      PROVE  i <= j
  <2>1. OpToRel(<, Nat) = {ss \in Nat \X Nat : ss[1] < ss[2]}
    BY Zenon DEF OpToRel
  <2>2. ~(<<j, i>> \in {ss \in Nat \X Nat : ss[1] < ss[2]})
    BY <1>2, <2>1, Zenon
  <2>. QED  BY <2>2
<1>. QED  BY <1>3 DEF Lowest

(* A list that is not too short always has room for one more pair.         *)
LEMMA RoomLeft ==
    ASSUME ListSuffices, NEW l \in Lists, OneSlotEach(l), NEW e \in Subscription,
           ~Registered(l, e)
    PROVE  FreeSlots(l) # {}
<1>. DEFINE Others == Subscription \ {e}
<1>. SUFFICES ASSUME FreeSlots(l) = {} PROVE FALSE
  OBVIOUS
<1>1. IsFiniteSet(Others) /\ Cardinality(Others) = Cardinality(Subscription) - 1
      /\ Cardinality(Subscription) \in Nat
  BY FS_RemoveElement, FS_CardinalityType DEF ListSuffices
<1>2. Cardinality(Indices) = MaxSubscriptions
  BY SizeAssumption, FS_Interval DEF Indices
<1>3. l \in Injection(Indices, Others)
  <2>1. \A i \in Indices : l[i] # Free /\ l[i] \in Others
    BY DEF FreeSlots, Lists, Registered
  <2>2. l \in [Indices -> Others]
    BY <2>1 DEF Lists
  <2>. QED  BY <2>1, <2>2 DEF OneSlotEach, Injection, IsInjective
<1>4. Cardinality(Indices) <= Cardinality(Others)
  BY <1>1, <1>3, FS_Injection
<1>. QED  BY <1>1, <1>2, <1>4, SizeAssumption DEF ListSuffices

LEMMA AddRoutes ==
    ASSUME ListSuffices, NEW l \in Lists, OneSlotEach(l), NEW e \in Subscription
    PROVE  /\ OneSlotEach(addSubscription(l, e))
           /\ FiltersIn(addSubscription(l, e)) = FiltersIn(l) \cup {e.filter}
<1>1. CASE Registered(l, e)
  <2>1. addSubscription(l, e) = l
    BY <1>1 DEF addSubscription
  <2>2. e.filter \in FiltersIn(l)
    BY <1>1, FreeAssumption DEF Registered, FiltersIn, FreeSlots
  <2>. QED  BY <2>1, <2>2
<1>2. CASE ~Registered(l, e)
  <2>. DEFINE k == Lowest(FreeSlots(l))
              m == [l EXCEPT ![k] = e]
  <2>1. FreeSlots(l) # {}
    BY <1>2, RoomLeft
  <2>2. k \in Indices /\ l[k] = Free
    <3>1. FreeSlots(l) \in SUBSET Nat
      BY SizeAssumption DEF FreeSlots, Indices
    <3>. QED  BY <2>1, <3>1, LowestOf DEF FreeSlots
  <2>3. addSubscription(l, e) = m
    BY <1>2, <2>1 DEF addSubscription
  <2>. HIDE DEF k
  <2>4. m[k] = e /\ e # Free /\ \A i \in Indices \ {k} : m[i] = l[i] /\ l[i] # e
    BY <1>2, <2>2, FreeAssumption DEF Lists, Registered
  <2>. HIDE DEF m
  <2>5. OneSlotEach(m)
    BY <2>2, <2>4 DEF OneSlotEach
  <2>6. Indices \ FreeSlots(m) = (Indices \ FreeSlots(l)) \cup {k}
    BY <2>2, <2>4 DEF FreeSlots
  <2>7. FiltersIn(m) = FiltersIn(l) \cup {e.filter}
    BY <2>2, <2>4, <2>6 DEF FiltersIn, FreeSlots
  <2>. QED  BY <2>3, <2>5, <2>7
<1>. QED  BY <1>1, <1>2

LEMMA RemoveRoutes ==
    ASSUME NEW l \in Lists, OneSlotEach(l), NEW f
    PROVE  /\ OneSlotEach(removeSubscription(l, f))
           /\ FiltersIn(removeSubscription(l, f)) = FiltersIn(l) \ {f}
<1>. DEFINE m == removeSubscription(l, f)
<1>1. \A i \in Indices : m[i] = IF l[i] # Free /\ l[i].filter = f THEN Free ELSE l[i]
  BY DEF removeSubscription
<1>. HIDE DEF m
<1>2. OneSlotEach(m)
  BY <1>1 DEF OneSlotEach
<1>3. FiltersIn(m) = FiltersIn(l) \ {f}
  BY <1>1 DEF FiltersIn, FreeSlots
<1>. QED  BY <1>2, <1>3 DEF m

(* What a callback makes of the list, for a call that still waits.         *)
LEMMA RoutesCallback ==
    ASSUME IndInv, PatientInv, ListSuffices, OneSlotEach(list),
           NEW c \in InFlight, NEW ok \in BOOLEAN, Callback(c, ok)
    PROVE  LET k == contents[c].call.kind
               f == contents[c].call.filter
           IN  /\ OneSlotEach(list')
               /\ ~ok \/ k = "publish" => list' = list
               /\ ok /\ k = "subscribe" => FiltersIn(list') = FiltersIn(list) \cup {f}
               /\ ok /\ k = "unsubscribe" => FiltersIn(list') = FiltersIn(list) \ {f}
<1>. DEFINE o == contents[c]
            e == EntryOf(o.call)
<1>1. TypeOK /\ c \in Commands /\ o.user \in Users /\ o.call \in Calls
  BY Queued DEF IndInv
<1>2. pc[o.user] \in Waiting /\ o.call = call[o.user]
  BY <1>1 DEF PatientInv, Awaited
<1>3. FrameAlive(o)
  BY <1>2 DEF FrameAlive, Waiting
<1>4. EntriesRead(o) = {e}
  BY <1>3 DEF EntriesRead
<1>5. list' = Updated(o, e, ok)
  BY <1>3, <1>4 DEF Callback
<1>6. e \in Subscription /\ e.filter = o.call.filter /\ list \in Lists
  BY <1>1 DEF Calls, EntryOf, Subscription, TypeOK
<1>. HIDE DEF e, o
<1>7. CASE ~ok \/ o.call.kind = "publish"
  BY <1>5, <1>7 DEF Updated, o
<1>8. CASE ok /\ o.call.kind = "subscribe"
  <2>1. list' = addSubscription(list, e)
    BY <1>5, <1>8 DEF Updated
  <2>. QED  BY <1>6, <1>8, <2>1, AddRoutes DEF o
<1>9. CASE ok /\ o.call.kind = "unsubscribe"
  <2>1. list' = removeSubscription(list, o.call.filter)
    BY <1>5, <1>6, <1>9 DEF Updated
  <2>. QED  BY <1>6, <1>9, <2>1, RemoveRoutes DEF o
<1>10. o.call.kind \in Kinds
  BY <1>1 DEF Calls, o
<1>. QED  BY <1>7, <1>8, <1>9, <1>10 DEF Kinds

(* Steps that change neither the answers on the wire nor what they answer. *)
LEMMA FollowsSame ==
    ASSUME Wires, Follows, UNCHANGED <<toAgent, session>>,
           FiltersIn(list') = FiltersIn(list),
           \A c \in pending : contents'[c] = contents[c]
    PROVE  Follows'
<1>1. \A i \in DOMAIN toAgent : contents'[toAgent[i].command] = contents[toAgent[i].command]
  BY DEF Wires
<1>2. \A f \in Filters : Changes(f)' = Changes(f)
  BY <1>1 DEF Changes, IsPublish
<1>. QED  BY <1>1, <1>2 DEF Follows, Changes

(* The broker answers a request, and the agent handles the answer.         *)
LEMMA AnswerFollows ==
    ASSUME IndInv, Wires, RoutesInv, BrokerAnswers
    PROVE  RoutesInv'
<1>. DEFINE c == Head(toBroker)
            k == contents[c].call.kind
            f == contents[c].call.filter
            n == Len(toAgent) + 1
<1>1. TypeOK /\ UNCHANGED <<list, contents, connection, pending>>
  BY DEF IndInv, BrokerAnswers, agent
<1>2. PICK ok \in BOOLEAN :
          /\ toAgent'[n] = [command |-> c, ok |-> ok]
          /\ session' = CASE k = "subscribe" /\ ok -> session \cup {f}
                          [] k = "unsubscribe" -> session \ {f}
                          [] OTHER -> session
          /\ k # "subscribe" => ok
  BY <1>1, AnswerFacts
<1>3. /\ Len(toAgent) \in Nat /\ DOMAIN toAgent = 1 .. Len(toAgent)
      /\ c \in Commands /\ DOMAIN toAgent' = DOMAIN toAgent \cup {n}
      /\ \A i \in DOMAIN toAgent : toAgent'[i] = toAgent[i]
  BY <1>1, AnswerFacts
<1>. HIDE DEF c, n
<1>4. n = Len(toAgent) + 1 /\ n \notin DOMAIN toAgent
  BY <1>3 DEF n
<1>5. k \in Kinds /\ f \in Filters /\ session \in SUBSET Filters
  <2>1. contents[c].call \in Calls
    BY <1>1, <1>3, Queued
  <2>. QED  BY <1>1, <2>1 DEF Calls, TypeOK
<1>6. ASSUME NEW g \in Filters
      PROVE  Changes(g)' = IF ok /\ k # "publish" /\ g = f
                           THEN Changes(g) \cup {n} ELSE Changes(g)
  BY <1>1, <1>2, <1>3, <1>4, <1>5 DEF Changes, IsPublish, Kinds
<1>7. ASSUME NEW g \in Filters
       PROVE  /\ Changes(g)' = {} => (g \in session' <=> g \in FiltersIn(list'))
              /\ \A i \in Changes(g)' : (\A j \in Changes(g)' : j <= i) =>
                    (g \in session' <=> contents'[toAgent'[i].command].call.kind = "subscribe")
  <2>1. /\ Changes(g) = {} => (g \in session <=> g \in FiltersIn(list))
        /\ \A i \in Changes(g) : (\A j \in Changes(g) : j <= i) =>
              (g \in session <=> contents[toAgent[i].command].call.kind = "subscribe")
    BY DEF RoutesInv, Follows
  <2>2. Changes(g) \subseteq DOMAIN toAgent
    BY DEF Changes
  <2>3. CASE ok /\ k # "publish" /\ g = f
    <3>1. Changes(g)' = Changes(g) \cup {n}
      BY <1>6, <2>3
    <3>2. \A i \in Changes(g)' : (\A j \in Changes(g)' : j <= i) => i = n
      BY <1>2, <1>3, <1>4, <2>2, <3>1
    <3>3. g \in session' <=> k = "subscribe"
      BY <1>2, <1>5, <2>3 DEF Kinds
    <3>. QED  BY <1>1, <1>2, <1>3, <3>1, <3>2, <3>3
  <2>4. CASE ~(ok /\ k # "publish" /\ g = f)
    <3>1. Changes(g)' = Changes(g)
      BY <1>6, <2>4
    <3>2. g \in session' <=> g \in session
      BY <1>2, <1>5, <2>4 DEF Kinds
    <3>. QED  BY <1>1, <1>2, <1>3, <2>1, <2>2, <3>1, <3>2
  <2>. QED  BY <2>3, <2>4
<1>8. Follows'
  BY <1>7 DEF Follows
<1>9. connection = "up"
  BY DEF BrokerAnswers, Wires
<1>. QED  BY <1>1, <1>8, <1>9 DEF RoutesInv, FirstConnection

LEMMA HandledFollows ==
    ASSUME IndInv, PatientInv, ListSuffices, Wires, RoutesInv, Acknowledged
    PROVE  RoutesInv'
<1>. DEFINE a == Head(toAgent)
            c == a.command
            k == contents[c].call.kind
            f == contents[c].call.filter
<1>1. TypeOK /\ UNCHANGED <<session, connection>> /\ connection = "up"
      /\ c \in pending /\ pending' = pending \ {c} /\ Callback(c, a.ok)
  BY DEF IndInv, Acknowledged
<1>2. /\ Len(toAgent) \in Nat \ {0} /\ DOMAIN toAgent = 1 .. Len(toAgent)
      /\ a = toAgent[1] /\ a.command \in Commands /\ a.ok \in BOOLEAN
      /\ DOMAIN toAgent' = 1 .. Len(toAgent) - 1
      /\ \A i \in DOMAIN toAgent' : toAgent'[i] = toAgent[i + 1]
      /\ \A i \in Nat : i \in DOMAIN toAgent' <=> i # 0 /\ i + 1 \in DOMAIN toAgent
  BY <1>1, AcknowledgedFacts
<1>. HIDE DEF a
<1>3. a.ok \in BOOLEAN /\ c \in Commands /\ c \in InFlight
  BY <1>1, <1>2 DEF InFlight
<1>4. contents' = contents
  BY <1>1, <1>3, CallbackType
<1>5. /\ OneSlotEach(list')
      /\ ~a.ok \/ k = "publish" => list' = list
      /\ a.ok /\ k = "subscribe" => FiltersIn(list') = FiltersIn(list) \cup {f}
      /\ a.ok /\ k = "unsubscribe" => FiltersIn(list') = FiltersIn(list) \ {f}
  BY <1>1, <1>3, RoutesCallback DEF RoutesInv
<1>6. k \in Kinds /\ f \in Filters
  <2>1. contents[c].call \in Calls
    BY <1>1, <1>3, Queued
  <2>. QED  BY <2>1 DEF Calls
<1>. HIDE DEF c
<1>7. ASSUME NEW g \in Filters
       PROVE  /\ \A i \in Nat : i \in Changes(g)' <=> i # 0 /\ i + 1 \in Changes(g)
              /\ 1 \in Changes(g) <=> a.ok /\ k # "publish" /\ g = f
              /\ Changes(g) \subseteq Nat \ {0} /\ Changes(g)' \subseteq Nat \ {0}
  <2>1. \A i \in Nat : i \in Changes(g)' <=> i # 0 /\ i + 1 \in Changes(g)
    BY <1>2, <1>4 DEF Changes, IsPublish
  <2>2. 1 \in Changes(g) <=> a.ok /\ k # "publish" /\ g = f
    BY <1>2 DEF Changes, IsPublish, c
  <2>3. Changes(g) \subseteq Nat \ {0} /\ Changes(g)' \subseteq Nat \ {0}
    BY <1>2 DEF Changes
  <2>. QED  BY <2>1, <2>2, <2>3
<1>8. ASSUME NEW g \in Filters
       PROVE  /\ Changes(g)' = {} => (g \in session' <=> g \in FiltersIn(list'))
              /\ \A i \in Changes(g)' : (\A j \in Changes(g)' : j <= i) =>
                    (g \in session' <=> contents'[toAgent'[i].command].call.kind = "subscribe")
  <2>. DEFINE C == Changes(g)
              D == Changes(g)'
  <2>1. /\ C = {} => (g \in session <=> g \in FiltersIn(list))
        /\ \A i \in C : (\A j \in C : j <= i) =>
              (g \in session <=> contents[toAgent[i].command].call.kind = "subscribe")
    BY DEF RoutesInv, Follows
  <2>2. /\ \A i \in Nat : i \in D <=> i # 0 /\ i + 1 \in C
        /\ 1 \in C <=> a.ok /\ k # "publish" /\ g = f
        /\ C \subseteq Nat \ {0} /\ D \subseteq Nat \ {0}
    BY <1>7
  <2>3. D \subseteq DOMAIN toAgent'
    BY DEF Changes
  <2>. HIDE DEF C, D
  <2>4. ASSUME D = {}
        PROVE  g \in session' <=> g \in FiltersIn(list')
    <3>1. C \subseteq {1}
      <4>1. ASSUME NEW i \in C, i # 1 PROVE FALSE
        <5>1. i - 1 \in Nat /\ i - 1 # 0 /\ (i - 1) + 1 = i
          BY <2>2, <4>1
        <5>. QED  BY <2>2, <2>4, <4>1, <5>1
      <4>. QED  BY <4>1
    <3>2. CASE 1 \in C
      <4>1. g \in session <=> k = "subscribe"
        BY <1>2, <2>1, <3>1, <3>2 DEF c
      <4>. QED  BY <1>1, <1>5, <1>6, <2>2, <3>2, <4>1 DEF Kinds
    <3>3. CASE 1 \notin C
      <4>1. g \in session <=> g \in FiltersIn(list)
        BY <2>1, <3>1, <3>3
      <4>. QED  BY <1>1, <1>5, <1>6, <2>2, <3>3, <4>1 DEF Kinds
    <3>. QED  BY <3>2, <3>3
  <2>5. ASSUME NEW i \in D, \A j \in D : j <= i
        PROVE  g \in session' <=> contents'[toAgent'[i].command].call.kind = "subscribe"
    <3>1. i \in Nat \ {0} /\ i + 1 \in C
      BY <2>2
    <3>2. ASSUME NEW j \in C
          PROVE  j <= i + 1
      <4>1. CASE j = 1
        BY <3>1, <4>1
      <4>2. CASE j # 1
        <5>1. j - 1 \in Nat /\ j - 1 # 0 /\ (j - 1) + 1 = j
          BY <2>2, <4>2
        <5>2. j - 1 \in D
          BY <2>2, <5>1
        <5>. QED  BY <2>5, <3>1, <5>1, <5>2
      <4>. QED  BY <4>1, <4>2
    <3>3. g \in session <=> contents[toAgent[i + 1].command].call.kind = "subscribe"
      BY <2>1, <3>1, <3>2
    <3>4. toAgent'[i] = toAgent[i + 1]
      BY <1>2, <2>3
    <3>. QED  BY <1>1, <1>4, <3>3, <3>4
  <2>. QED  BY <2>4, <2>5 DEF D
<1>9. Follows'
  BY <1>8 DEF Follows
<1>. QED  BY <1>1, <1>5, <1>9 DEF RoutesInv, FirstConnection

LEMMA RoutesInit == Init => RoutesInv
<1>. SUFFICES ASSUME Init PROVE RoutesInv
  OBVIOUS
<1>1. \A i \in Indices : list[i] = Free
  BY DEF Init, EmptyList
<1>2. OneSlotEach(list) /\ FiltersIn(list) = {}
  BY <1>1 DEF OneSlotEach, FiltersIn, FreeSlots
<1>3. toBroker = <<>> /\ toAgent = <<>> /\ pending = {} /\ session = {}
  BY DEF Init
<1>4. \A f : Changes(f) = {}
  BY <1>3 DEF Changes
<1>. QED  BY <1>2, <1>3, <1>4 DEF RoutesInv, FirstConnection, Follows

(* Steps that touch neither the wires nor the list.                        *)
LEMMA RoutesSame ==
    ASSUME Wires, RoutesInv, UNCHANGED <<list, session, toAgent, pending>>,
           connection' # "up" => connection # "up",
           \A c \in pending : contents'[c] = contents[c]
    PROVE  RoutesInv'
<1>1. Follows'
  BY FollowsSame DEF RoutesInv
<1>. QED  BY <1>1 DEF RoutesInv, FirstConnection

LEMMA RoutesUserStep ==
    ASSUME IndInv, Wires, RoutesInv, NEW u \in Users,
           \/ UserStep(u)
           \/ \E kind \in Kinds, f \in Filters, r \in ReceiversOf[u] : Begin(u, kind, f, r)
    PROVE  RoutesInv'
<1>1. UNCHANGED <<list, session, toAgent, pending, connection>>
  BY DEF UserStep, Begin, GetCommand, GetBlocks, GetTimesOut, SendCommand, SendBlocks,
         SendTimesOut, ClearEvent, Wake, WaitBlocks, WaitTimesOut, agent, network
<1>2. \A c \in pending : contents'[c] = contents[c]
  <2>1. CASE GetCommand(u)
    <3>1. PICK c \in pool : contents' = [contents EXCEPT ![c] =
                                         [user |-> u, call |-> call[u]]]
      BY <2>1 DEF GetCommand
    <3>. QED  BY <3>1 DEF IndInv, TypeOK, Apart, InFlight
  <2>2. CASE ~GetCommand(u)
    BY <2>2 DEF UserStep, Begin, GetBlocks, GetTimesOut, SendCommand, SendBlocks,
           SendTimesOut, ClearEvent, Wake, WaitBlocks, WaitTimesOut, agent
  <2>. QED  BY <2>1, <2>2
<1>. QED  BY <1>1, <1>2, RoutesSame

LEMMA RoutesAgentStep ==
    ASSUME IndInv, PatientInv, ListSuffices, MaxLosses = 0, Wires, RoutesInv,
           AgentStep \/ ConnectionLost \/ BrokerAnswers
    PROVE  RoutesInv'
<1>1. TypeOK /\ Apart
  BY DEF IndInv
<1>2. CASE Receive \/ Release \/ NotReconnected
  BY <1>2, RoutesSame DEF Receive, Release, NotReconnected, network, agent
<1>3. CASE ProcessSent
  <2>1. UNCHANGED <<list, session, toAgent, contents>> /\ connection = "up"
        /\ UNCHANGED connection
    BY <1>3 DEF ProcessSent
  <2>2. Follows'
    BY <2>1, FollowsSame DEF RoutesInv
  <2>. QED  BY <2>1, <2>2 DEF RoutesInv, FirstConnection
<1>4. CASE ProcessAtMostOnce \/ ProcessFails
  <2>1. PICK ok \in BOOLEAN :
            /\ Callback(inHand, ok) /\ inHand \in InFlight
            /\ ~ok \/ contents[inHand].call.kind = "publish"
            /\ UNCHANGED <<pending, session, toAgent>>
            /\ connection' # "up" => connection # "up"
    BY <1>4 DEF ProcessAtMostOnce, ProcessFails, InFlight, network
  <2>2. list' = list
    BY <2>1, RoutesCallback DEF RoutesInv
  <2>3. contents' = contents
    BY <1>1, <2>1, CallbackType, Queued
  <2>. QED  BY <2>1, <2>2, <2>3, RoutesSame DEF network
<1>5. CASE Acknowledged
  BY <1>5, HandledFollows
<1>6. CASE Resumed
  <2>1. connection' = "up" /\ UNCHANGED <<list, session, toAgent, pending, contents>>
    BY <1>6 DEF Resumed, agent
  <2>2. Follows'
    BY <2>1, FollowsSame DEF RoutesInv
  <2>. QED  BY <2>1, <2>2 DEF RoutesInv, FirstConnection
<1>7. ASSUME NEW sessionPresent \in BOOLEAN, Reconnected(sessionPresent)
      PROVE  RoutesInv'
  <2>1. /\ session = {} /\ session' = session
        /\ UNCHANGED <<list, contents, pending, toAgent>>
        /\ pending = {} /\ FiltersIn(list) = {}
    BY <1>7 DEF Reconnected, RoutesInv, FirstConnection, agent
  <2>2. Follows'
    BY <2>1, FollowsSame DEF RoutesInv
  <2>. QED  BY <2>1, <2>2 DEF RoutesInv, FirstConnection
<1>8. ASSUME NEW c \in Commands, GiveUp(c)
      PROVE  RoutesInv'
  BY <1>1, <1>8 DEF GiveUp, Apart, RoutesInv, FirstConnection
<1>9. ~ConnectionLost
  BY <1>1 DEF ConnectionLost, TypeOK
<1>10. CASE BrokerAnswers
  BY <1>10, AnswerFollows
<1>. QED  BY <1>2, <1>3, <1>4, <1>5, <1>6, <1>7, <1>8, <1>9, <1>10 DEF AgentStep

(* As long as no wait reaches its deadline and no connection is lost, and  *)
(* the list has room for what can be asked of it, the list routes what the *)
(* broker has in the session whenever nothing is on its way, whichever of  *)
(* the subscriptions were refused and however users share a filter.        *)
THEOREM PatientRoutes ==
    ~Impatient /\ MaxLosses = 0 /\ ListSuffices => (Spec => []RoutesAgree)
<1>. SUFFICES ASSUME ~Impatient, MaxLosses = 0, ListSuffices
              PROVE  Spec => []RoutesAgree
  OBVIOUS
<1>1. IndInv /\ PatientInv /\ Wires /\ RoutesInv /\ [Next]_vars => RoutesInv'
  <2>. SUFFICES ASSUME IndInv, PatientInv, Wires, RoutesInv, [Next]_vars PROVE RoutesInv'
    OBVIOUS
  <2>1. CASE UNCHANGED vars
    BY <2>1, RoutesSame DEF vars, agent, network
  <2>. QED  BY <2>1, RoutesUserStep, RoutesAgentStep DEF Next
<1>2. IndInv /\ Wires /\ RoutesInv => RoutesAgree
  <2>. SUFFICES ASSUME IndInv, Wires, RoutesInv, Settled PROVE session = FiltersIn(list)
    BY DEF RoutesAgree, FiltersIn
  <2>1. toAgent = <<>>
    <3>1. DOMAIN toAgent = {}
      BY DEF Settled, Wires
    <3>. QED  BY <3>1 DEF IndInv, TypeOK
  <2>2. \A f : Changes(f) = {}
    BY <2>1 DEF Changes
  <2>3. session \subseteq Filters /\ FiltersIn(list) \subseteq Filters
    BY DEF IndInv, TypeOK, Lists, FiltersIn, FreeSlots, Subscription
  <2>. QED  BY <2>2, <2>3 DEF RoutesInv, Follows
<1>3. Spec => [](IndInv /\ PatientInv)
  BY PatientInvariance
<1>. QED  BY <1>1, <1>2, <1>3, RoutesInit, WiresInit, WiresStep, PTL DEF Spec
-----------------------------------------------------------------------------
(* DataModelHandler: the handler's calls as users' calls, and what it      *)
(* receives.                                                               *)

Before(l) == IF l = 1 THEN Len(Script) ELSE l - 1
Calling == Script[Before(line)] \in DOMAIN KindOf
Completed == call[Handler].number \in completed[Handler]
Answered == Completed \/ \E i \in DOMAIN toAgent : toAgent[i].ok
Underway == box \o deliveries

(* The handler's call is the one in its script, and what is in flight is it. *)
InStep ==
    /\ pc[Handler] # "idle" => Calling
    /\ Calling =>
          LET s == Script[Before(line)]
              c == call[Handler]
          IN  /\ c.kind = KindOf[s] /\ c.filter = Topic /\ c.receiver = ReceiverOf(s)
              /\ s = "publish" => sent[2] = c.number
              /\ pc[Handler] = "idle" => Completed
    /\ \A c \in InFlight : pc[Handler] \in Waiting /\ contents[c].call = call[Handler]

(* Who is subscribed when a statement is done: the broker once it has      *)
(* answered, the list once the callback has run.                           *)
Subscriber(l) ==
    CASE l \in 2 .. 4 -> {CallbackReceiver}
      [] l \in 8 .. 12 -> {QueueReceiver}
      [] OTHER -> {}
Entries(l) == {l[i] : i \in Indices \ FreeSlots(l)}
EntriesOf(receivers) == {[filter |-> Topic, receiver |-> r] : r \in receivers}
Subscribed ==
    /\ session = {Topic : r \in Subscriber(IF Answered THEN line ELSE Before(line))}
    /\ Entries(list) = EntriesOf(Subscriber(IF Completed THEN line ELSE Before(line)))
    /\ connection # "up" => session = {} /\ pending = {}

(* The publishes that have come or will, and those that have been read.    *)
Messaging ==
    /\ line \notin {3, 9, 10, 11} => box = <<>> /\ deliveries = <<>>
    /\ line = 3 => box = <<>> /\ (Answered => deliveries # <<>> \/ messageReceiveFlag)
    /\ line = 6 => ~messageReceiveFlag
    /\ line = 9 => Underway = IF Answered THEN <<sent[2]>> ELSE <<>>
    /\ line = 10 => Underway = IF pQueueItem # NoItem THEN <<sent[2]>>
                               ELSE IF Answered THEN <<sent[1], sent[2]>>
                               ELSE <<sent[1]>>
    /\ line = 11 => Underway = IF pQueueItem # NoItem THEN <<>> ELSE <<sent[2]>>
    /\ pQueueItem # NoItem => line \in {10, 11} /\ pc[Handler] = "idle"
    /\ \A i \in Items : reading[i] # NoMessage => i = pQueueItem

Expectations == InStep /\ Subscribed /\ Messaging /\ ~complained

Undisturbed == ~disturbed => Expectations

(* Calls are numbered from one; the items in use are no more than there are. *)
Positive ==
    /\ pc[Handler] # "idle" => call[Handler].number >= 1
    /\ \A c \in InFlight : contents[c].call.number >= 1
Taken(r) == {i \in Items : r[i] # NoMessage}
Fits == Len(box) + Cardinality(Taken(reading)) <= QueueSize

HandlerInv == DMTypeOK /\ Positive /\ Fits

(* The statements of the script, by the line they are on.                  *)
LEMMA Lines ==
    /\ DOMAIN Script = 1 .. 14 /\ Len(Script) = 14
    /\ \A l \in 1 .. 14 :
          /\ Script[l] \in DOMAIN KindOf <=> l \in {1, 2, 4, 5, 7, 8, 9, 12}
          /\ l \in {1, 7} => KindOf[Script[l]] = "subscribe"
          /\ l \in {4, 12} => KindOf[Script[l]] = "unsubscribe"
          /\ l \in {2, 5, 8, 9} => KindOf[Script[l]] = "publish"
          /\ Script[l] = "publish" <=> l \in {2, 5, 8, 9}
          /\ Script[l] = "expect" <=> l = 3
          /\ Script[l] = "expectNone" <=> l = 6
          /\ Script[l] = "take" <=> l \in {10, 11}
          /\ Script[l] = "takeNone" <=> l \in {13, 14}
          /\ ReceiverOf(Script[l]) =
                IF l \in {1, 4} THEN CallbackReceiver ELSE QueueReceiver
<1>1. DOMAIN Script = 1 .. 14 /\ Len(Script) = 14
  BY DEF Script
<1>2. /\ Script[1] = "subscribe" /\ Script[2] = "publish" /\ Script[3] = "expect"
      /\ Script[4] = "unsubscribe" /\ Script[5] = "publish" /\ Script[6] = "expectNone"
      /\ Script[7] = "subscribeQueue" /\ Script[8] = "publish" /\ Script[9] = "publish"
      /\ Script[10] = "take" /\ Script[11] = "take" /\ Script[12] = "unsubscribeQueue"
      /\ Script[13] = "takeNone" /\ Script[14] = "takeNone"
  BY DEF Script
<1>3. /\ DOMAIN KindOf = {"subscribe", "subscribeQueue", "unsubscribe",
                          "unsubscribeQueue", "publish"}
      /\ KindOf["subscribe"] = "subscribe" /\ KindOf["subscribeQueue"] = "subscribe"
      /\ KindOf["unsubscribe"] = "unsubscribe"
      /\ KindOf["unsubscribeQueue"] = "unsubscribe" /\ KindOf["publish"] = "publish"
  BY DEF KindOf
<1>4. \A l \in 1 .. 14 :
          \/ l = 1 \/ l = 2 \/ l = 3 \/ l = 4 \/ l = 5 \/ l = 6 \/ l = 7
          \/ l = 8 \/ l = 9 \/ l = 10 \/ l = 11 \/ l = 12 \/ l = 13 \/ l = 14
  OBVIOUS
<1>. HIDE DEF Script, KindOf
<1>. QED  BY <1>1, <1>2, <1>3, <1>4 DEF ReceiverOf

(* Where the handler is, by the line it has reached.                       *)
LEMMA PlacesInScript ==
    ASSUME NEW l \in 1 .. 14
    PROVE  /\ Before(l) \in 1 .. 14
           /\ l = 1 <=> Before(l) = 14
           /\ l # 1 => Before(l) = l - 1
           /\ Script[Before(l)] \in DOMAIN KindOf <=> l \in {2, 3, 5, 6, 8, 9, 10, 13}
           /\ Script[Before(l)] = "publish" <=> l \in {3, 6, 9, 10}
           /\ l \in {2, 8} => KindOf[Script[Before(l)]] = "subscribe"
           /\ l \in {5, 13} => KindOf[Script[Before(l)]] = "unsubscribe"
           /\ l \in {3, 6, 9, 10} => KindOf[Script[Before(l)]] = "publish"
           /\ l \in {2, 5} => ReceiverOf(Script[Before(l)]) = CallbackReceiver
           /\ l = 8 => ReceiverOf(Script[Before(l)]) = QueueReceiver
<1>1. /\ Before(l) \in 1 .. 14 /\ (l = 1 <=> Before(l) = 14)
      /\ l # 1 => Before(l) = l - 1
  BY Lines DEF Before
<1>. HIDE DEF Before
<1>. QED  BY <1>1, Lines

(* Who is subscribed changes with subscribes and unsubscribes only.        *)
LEMMA Subscribers ==
    ASSUME NEW l \in 1 .. 14
    PROVE  /\ l \notin {2, 5, 8, 13} => Subscriber(Before(l)) = Subscriber(l)
           /\ l \in {2, 8} => Subscriber(Before(l)) = {}
           /\ l \in {2, 3, 4} => Subscriber(l) = {CallbackReceiver}
           /\ l \in {8, 9, 10, 11, 12} => Subscriber(l) = {QueueReceiver}
           /\ l \in {1, 5, 6, 7, 13, 14} => Subscriber(l) = {}
           /\ l \in {5} => Subscriber(Before(l)) = {CallbackReceiver}
           /\ l \in {13} => Subscriber(Before(l)) = {QueueReceiver}
<1>1. /\ Before(l) \in 1 .. 14 /\ (l = 1 <=> Before(l) = 14)
      /\ l # 1 => Before(l) = l - 1
  BY PlacesInScript
<1>2. \A k \in 1 .. 14 :
          /\ k \in {2, 3, 4} => Subscriber(k) = {CallbackReceiver}
          /\ k \in {8, 9, 10, 11, 12} => Subscriber(k) = {QueueReceiver}
          /\ k \in {1, 5, 6, 7, 13, 14} => Subscriber(k) = {}
  BY DEF Subscriber
<1>3. /\ l = 1 => Before(l) = 14
      /\ l \in {3, 4} => Before(l) \in {2, 3, 4}
      /\ l \in {6, 7, 14} => Before(l) \in {1, 5, 6, 7, 13, 14}
      /\ l \in {9, 10, 11, 12} => Before(l) \in {8, 9, 10, 11, 12}
      /\ l \in {2, 8} => Before(l) \in {1, 7}
      /\ l = 5 => Before(l) = 4
      /\ l = 13 => Before(l) = 12
  BY <1>1
<1>4. l \in {1, 3, 4, 6, 7, 9, 10, 11, 12, 14} => Subscriber(Before(l)) = Subscriber(l)
  BY <1>2, <1>3
<1>5. /\ l \in {2, 8} => Subscriber(Before(l)) = {}
      /\ l \in {5} => Subscriber(Before(l)) = {CallbackReceiver}
      /\ l \in {13} => Subscriber(Before(l)) = {QueueReceiver}
  BY <1>2, <1>3
<1>6. l \in {2, 5, 8, 13} \/ l \in {1, 3, 4, 6, 7, 9, 10, 11, 12, 14}
  OBVIOUS
<1>. QED  BY <1>2, <1>4, <1>5, <1>6

(* The next statement.                                                     *)
LEMMA NextLineFacts ==
    ASSUME line \in 1 .. 14, NextLine
    PROVE  line' \in 1 .. 14 /\ Before(line') = line
           /\ line' = IF line = 14 THEN 1 ELSE line + 1
BY Lines DEF NextLine, Before

(* Publishes on their way as one sequence.                                 *)
LEMMA UnderwayFacts ==
    ASSUME NEW S, NEW b \in Seq(S), NEW d \in Seq(S)
    PROVE  /\ b \o d \in Seq(S) /\ Len(b \o d) = Len(b) + Len(d)
           /\ Len(b) \in Nat /\ Len(d) \in Nat
           /\ b = <<>> <=> Len(b) = 0
           /\ d = <<>> <=> Len(d) = 0
           /\ b \o d = <<>> <=> b = <<>> /\ d = <<>>
           /\ \A e \in S : b \o Append(d, e) = Append(b \o d, e)
           /\ b # <<>> => Head(b) = Head(b \o d) /\ Tail(b) \o d = Tail(b \o d)
           /\ d # <<>> => Append(b, Head(d)) \o Tail(d) = b \o d
<1>1. b \o d \in Seq(S) /\ Len(b \o d) = Len(b) + Len(d) /\ Len(b) \in Nat /\ Len(d) \in Nat
  BY ConcatProperties, LenProperties
<1>2. (b = <<>> <=> Len(b) = 0) /\ (d = <<>> <=> Len(d) = 0)
  BY EmptySeq
<1>3. b \o d = <<>> <=> b = <<>> /\ d = <<>>
  BY <1>1, <1>2, EmptySeq
<1>4. ASSUME NEW e \in S
      PROVE  b \o Append(d, e) = Append(b \o d, e)
  <2>1. Append(d, e) = d \o <<e>> /\ Append(b \o d, e) = (b \o d) \o <<e>>
    BY <1>1, AppendIsConcat
  <2>2. <<e>> \in Seq(S)
    OBVIOUS
  <2>. QED  BY <2>1, <2>2, ConcatAssociative
<1>5. ASSUME b # <<>>
      PROVE  Head(b) = Head(b \o d) /\ Tail(b) \o d = Tail(b \o d)
  <2>1. Len(b) \in Nat \ {0} /\ b \o d # <<>>
    BY <1>1, <1>2, <1>3, <1>5
  <2>2. Head(b) = Head(b \o d)
    BY <2>1, ConcatProperties
  <2>3. Tail(b) \in Seq(S) /\ Len(Tail(b)) = Len(b) - 1
        /\ \A i \in 1 .. Len(b) - 1 : Tail(b)[i] = b[i + 1]
    BY <1>5, HeadTailProperties
  <2>4. Tail(b \o d) \in Seq(S) /\ Len(Tail(b \o d)) = Len(b) + Len(d) - 1
        /\ \A i \in 1 .. Len(b) + Len(d) - 1 : Tail(b \o d)[i] = (b \o d)[i + 1]
    BY <1>1, <2>1, HeadTailProperties
  <2>5. \A i \in 1 .. Len(b) + Len(d) :
            (b \o d)[i] = IF i <= Len(b) THEN b[i] ELSE d[i - Len(b)]
    BY ConcatProperties
  <2>6. \A i \in 1 .. Len(b) - 1 + Len(d) :
            (Tail(b) \o d)[i] = IF i <= Len(b) - 1 THEN Tail(b)[i] ELSE d[i - (Len(b) - 1)]
    BY <2>3, ConcatProperties
  <2>7. Tail(b) \o d \in Seq(S) /\ Len(Tail(b) \o d) = Len(b) - 1 + Len(d)
    BY <2>3, ConcatProperties
  <2>8. ASSUME NEW i \in 1 .. Len(b) + Len(d) - 1
        PROVE  (Tail(b) \o d)[i] = Tail(b \o d)[i]
    <3>1. i \in Nat /\ i + 1 \in 1 .. Len(b) + Len(d) /\ i \in 1 .. Len(b) - 1 + Len(d)
      BY <1>1, <2>8
    <3>2. (Tail(b) \o d)[i] = IF i <= Len(b) - 1 THEN Tail(b)[i] ELSE d[i - (Len(b) - 1)]
      BY <2>6, <3>1
    <3>3. Tail(b \o d)[i] = IF i + 1 <= Len(b) THEN b[i + 1] ELSE d[i + 1 - Len(b)]
      BY <2>4, <2>5, <2>8, <3>1
    <3>4. i - (Len(b) - 1) = i + 1 - Len(b) /\ (i <= Len(b) - 1 <=> i + 1 <= Len(b))
      BY <1>1, <3>1
    <3>5. i <= Len(b) - 1 => Tail(b)[i] = b[i + 1]
      BY <1>1, <2>3, <3>1
    <3>. QED  BY <3>2, <3>3, <3>4, <3>5
  <2>9. Tail(b) \o d = Tail(b \o d)
    BY <1>1, <2>4, <2>7, <2>8, SeqEqual
  <2>. QED  BY <2>2, <2>9
<1>6. ASSUME d # <<>>
      PROVE  Append(b, Head(d)) \o Tail(d) = b \o d
  <2>1. /\ Head(d) \in S /\ Tail(d) \in Seq(S) /\ <<Head(d)>> \in Seq(S)
    BY <1>6, HeadTailProperties
  <2>2. Append(b, Head(d)) = b \o <<Head(d)>>
    BY <2>1, AppendIsConcat
  <2>3. (b \o <<Head(d)>>) \o Tail(d) = b \o (<<Head(d)>> \o Tail(d))
    BY <2>1, ConcatAssociative
  <2>4. <<Head(d)>> \o Tail(d) = d
    <3>1. SubSeq(d, 1, Len(d)) = d /\ Len(d) \in Nat \ {0}
      BY <1>1, <1>2, <1>6, SubSeqFull
    <3>2. SubSeq(d, 1, Len(d)) = <<d[1]>> \o SubSeq(d, 2, Len(d))
      BY <3>1, SubSeqRecursiveFirst
    <3>3. Tail(d) = SubSeq(d, 2, Len(d)) /\ Head(d) = d[1]
      BY <1>6, TailIsSubSeq
    <3>. QED  BY <3>1, <3>2, <3>3
  <2>. QED  BY <2>2, <2>3, <2>4
<1>. QED  BY <1>1, <1>2, <1>3, <1>4, <1>5, <1>6

LEMMA OfLength ==
    ASSUME NEW S, NEW x \in S, NEW y \in S, NEW o \in Seq(S), Len(o) = 1, o[1] = x
    PROVE  /\ o # <<>> /\ Head(o) = x /\ Tail(o) = <<>>
           /\ Append(o, y) # <<>> /\ Head(Append(o, y)) = x
           /\ \A q \in Seq(S) : Len(q) = 1 /\ q[1] = y => Tail(Append(o, y)) = q
           /\ \A p \in Seq(S) : Len(p) = 2 /\ p[1] = x /\ p[2] = y => Append(o, y) = p
<1>1. o # <<>>
  BY EmptySeq
<1>2. Head(o) = x
  OBVIOUS
<1>3. Tail(o) = <<>>
  <2>1. Tail(o) \in Seq(S) /\ Len(Tail(o)) = 0
    BY <1>1, HeadTailProperties
  <2>. QED  BY <2>1, EmptySeq
<1>. DEFINE a == Append(o, y)
<1>4. a \in Seq(S) /\ a # <<>> /\ Len(a) = 2 /\ a[1] = x /\ a[2] = y
  <2>1. /\ a \in Seq(S) /\ a # <<>> /\ Len(a) = Len(o) + 1
        /\ \A i \in 1 .. Len(o) : a[i] = o[i]
        /\ a[Len(o) + 1] = y
    <3>1. Append(o, y) \in Seq(S) /\ Append(o, y) # <<>>
      BY AppendProperties
    <3>2. Len(Append(o, y)) = Len(o) + 1
      BY AppendProperties
    <3>3. \A i \in 1 .. Len(o) : Append(o, y)[i] = o[i]
      BY AppendProperties
    <3>4. Append(o, y)[Len(o) + 1] = y
      BY AppendProperties
    <3>. QED  BY <3>1, <3>2, <3>3, <3>4
  <2>2. Len(o) + 1 = 2 /\ 1 \in 1 .. Len(o)
    OBVIOUS
  <2>. HIDE DEF a
  <2>. QED  BY <2>1, <2>2
<1>. HIDE DEF a
<1>5. Head(a) = x
  BY <1>4
<1>6. ASSUME NEW q \in Seq(S), Len(q) = 1, q[1] = y
      PROVE  Tail(a) = q
  <2>1. /\ Tail(a) \in Seq(S) /\ Len(Tail(a)) = Len(a) - 1
        /\ \A i \in 1 .. Len(Tail(a)) : Tail(a)[i] = a[i + 1]
    BY <1>4, HeadTailProperties
  <2>2. Len(Tail(a)) = 1 /\ Tail(a)[1] = y
    BY <1>4, <2>1
  <2>3. \A i \in 1 .. 1 : Tail(a)[i] = q[i]
    BY <1>6, <2>2
  <2>. QED  BY <1>6, <2>1, <2>2, <2>3, SeqEqual
<1>7. ASSUME NEW p \in Seq(S), Len(p) = 2, p[1] = x, p[2] = y
      PROVE  a = p
  <2>1. \A i \in 1 .. 2 : a[i] = p[i]
    BY <1>4, <1>7
  <2>. QED  BY <1>4, <1>7, <2>1, SeqEqual
<1>. QED  BY <1>1, <1>2, <1>3, <1>4, <1>5, <1>6, <1>7 DEF a

LEMMA PairFacts ==
    ASSUME NEW x, NEW y
    PROVE  /\ Append(<<x>>, y) = <<x, y>>
           /\ Head(<<x, y>>) = x /\ Tail(<<x, y>>) = <<y>>
           /\ Head(<<x>>) = x /\ Tail(<<x>>) = <<>>
<1>. DEFINE S == {x, y}
<1>1. /\ x \in S /\ y \in S
      /\ <<x>> \in Seq(S) /\ Len(<<x>>) = 1 /\ <<x>>[1] = x
      /\ <<y>> \in Seq(S) /\ Len(<<y>>) = 1 /\ <<y>>[1] = y
      /\ <<x, y>> \in Seq(S) /\ Len(<<x, y>>) = 2 /\ <<x, y>>[1] = x /\ <<x, y>>[2] = y
  OBVIOUS
<1>. HIDE DEF S
<1>. DEFINE p == <<x, y>>
            o == <<x>>
            q == <<y>>
<1>2. /\ p \in Seq(S) /\ Len(p) = 2 /\ p[1] = x /\ p[2] = y
      /\ o \in Seq(S) /\ Len(o) = 1 /\ o[1] = x
      /\ q \in Seq(S) /\ Len(q) = 1 /\ q[1] = y
  BY <1>1
<1>. HIDE DEF p, o, q
<1>3. Append(o, y) = p /\ Head(o) = x /\ Tail(o) = <<>>
      /\ Head(Append(o, y)) = x /\ Tail(Append(o, y)) = q
  BY <1>1, <1>2, OfLength
<1>4. Append(o, y) = p /\ Head(p) = x /\ Tail(p) = q /\ Head(o) = x /\ Tail(o) = <<>>
  BY <1>3
<1>. QED  BY <1>4, Zenon DEF p, o, q

(* Only one user, and its receivers.                                       *)
LEMMA AloneFacts ==
    ASSUME Alone
    PROVE  /\ Handler \in Users /\ Users = {Handler} /\ Topic \in Filters
           /\ CallbackReceiver \in Receivers /\ QueueReceiver \in Receivers
           /\ CallbackReceiver # QueueReceiver /\ <<Topic, Topic>> \in Matches
           /\ \A s : ReceiverOf(s) \in ReceiversOf[Handler]
           /\ \A s \in DOMAIN KindOf : KindOf[s] \in Kinds
<1>1. Topic \in Filters
  BY NotEmptyAssumption DEF Topic
<1>2. ReceiversOf[Handler] \subseteq Receivers
  BY ReceiversAssumption DEF Alone
<1>3. \A s \in DOMAIN KindOf : KindOf[s] \in Kinds
  BY DEF KindOf, Kinds
<1>. QED  BY <1>1, <1>2, <1>3 DEF Alone, ReceiverOf

(* What the agent does with the handler is what it does with any user; a   *)
(* null item that is read ends the process.                                *)
LEMMA Simulated ==
    ASSUME Alone, DMNext
    PROVE  \/ [Next]_vars
           \/ running' = FALSE /\ UNCHANGED <<user, agent, network, completed, deadFrame>>
<1>1. CASE Call
  <2>1. Handler \in Users
    BY AloneFacts
  <2>2. \E kind \in Kinds, f \in Filters, r \in ReceiversOf[Handler] :
            Begin(Handler, kind, f, r)
    BY <1>1, AloneFacts DEF Call
  <2>. QED  BY <2>1, <2>2 DEF Next
<1>2. CASE CallSteps(Handler)
  BY <1>2, AloneFacts DEF CallSteps, UserStep, Next
<1>3. CASE AgentSteps
  BY <1>3 DEF AgentSteps, AgentStep, Next
<1>4. CASE Broker \/ Lost
  BY <1>4 DEF Broker, Lost, Next
<1>5. CASE Sleep(TRUE) \/ Sleep(FALSE) \/ Take \/ GiveBack \/ TakeNone \/ Deliver
  BY <1>5 DEF Sleep, Take, GiveBack, TakeNone, Deliver
<1>6. CASE TakeNothing
  BY <1>6 DEF TakeNothing
<1>. QED  BY <1>1, <1>2, <1>3, <1>4, <1>5, <1>6 DEF DMNext, HandlerStep

LEMMA DMIndStep ==
    ASSUME Alone, IndInv, Wires, [DMNext]_dmVars
    PROVE  IndInv' /\ Wires'
<1>1. CASE [Next]_vars
  BY <1>1, Preserved, WiresStep
<1>2. CASE running' = FALSE /\ UNCHANGED <<user, agent, network, completed, deadFrame>>
  <2>1. InQueue' = InQueue /\ NoRepetition' = NoRepetition
    BY <1>2 DEF agent, InQueue, NoRepetition
  <2>2. InFlight' = InFlight
    BY <1>2, <2>1 DEF agent, InFlight
  <2>3. TypeOK' /\ IsFiniteSet(pending')
    BY <1>2 DEF IndInv, TypeOK, user, agent, network
  <2>4. Wires'
    BY <1>2 DEF Wires, agent, network
  <2>5. Placed' /\ Apart' /\ Holding' /\ Numbered'
    BY <1>2, <2>1, <2>2 DEF IndInv, Placed, Apart, Holding, Numbered, user, agent, network
  <2>. QED  BY <2>3, <2>4, <2>5 DEF IndInv
<1>3. CASE UNCHANGED dmVars
  BY <1>1, <1>3 DEF dmVars
<1>. QED  BY <1>1, <1>2, <1>3, Simulated

(* Taking places and giving them back.                                     *)
LEMMA TakenFacts ==
    ASSUME NEW r \in [Items -> Messages \cup {NoMessage}], NEW i \in Items,
           NEW m \in Messages \cup {NoMessage}
    PROVE  /\ IsFiniteSet(Taken(r)) /\ Cardinality(Taken(r)) \in Nat
           /\ Cardinality(Taken([r EXCEPT ![i] = m])) <= Cardinality(Taken(r)) + 1
           /\ m = NoMessage =>
                 Cardinality(Taken([r EXCEPT ![i] = m])) <= Cardinality(Taken(r))
           /\ Cardinality(Taken(r)) < QueueSize => \E j \in Items : r[j] = NoMessage
<1>1. IsFiniteSet(Items) /\ Cardinality(Items) = QueueSize
  BY QueueSizeAssumption, FS_Interval DEF Items
<1>2. IsFiniteSet(Taken(r)) /\ Cardinality(Taken(r)) \in Nat
  BY <1>1, FS_Subset, FS_CardinalityType DEF Taken
<1>3. Taken([r EXCEPT ![i] = m]) = IF m = NoMessage THEN Taken(r) \ {i} ELSE Taken(r) \cup {i}
  BY DEF Taken
<1>4. /\ Cardinality(Taken(r) \ {i}) <= Cardinality(Taken(r))
      /\ Cardinality(Taken(r) \ {i}) <= Cardinality(Taken(r)) + 1
      /\ Cardinality(Taken(r) \cup {i}) <= Cardinality(Taken(r)) + 1
  <2>. DEFINE T == Taken(r)
  <2>. HIDE DEF T
  <2>1. IsFiniteSet(T) /\ Cardinality(T) \in Nat
    BY <1>2 DEF T
  <2>2. Cardinality(T \ {i}) = IF i \in T THEN Cardinality(T) - 1 ELSE Cardinality(T)
    BY <2>1, FS_RemoveElement
  <2>3. Cardinality(T \cup {i}) = IF i \in T THEN Cardinality(T) ELSE Cardinality(T) + 1
    BY <2>1, FS_AddElement
  <2>4. /\ Cardinality(T \ {i}) <= Cardinality(T)
        /\ Cardinality(T \ {i}) <= Cardinality(T) + 1
        /\ Cardinality(T \cup {i}) <= Cardinality(T) + 1
    BY <2>1, <2>2, <2>3
  <2>. QED  BY <2>4 DEF T
<1>5. ASSUME \A j \in Items : r[j] # NoMessage
      PROVE  Cardinality(Taken(r)) = QueueSize
  <2>1. Taken(r) = Items
    BY <1>5 DEF Taken
  <2>. QED  BY <1>1, <2>1
<1>6. Cardinality(Taken(r)) < QueueSize => \E j \in Items : r[j] = NoMessage
  BY <1>2, <1>5, QueueSizeAssumption
<1>7. CASE m = NoMessage
  <2>1. Taken([r EXCEPT ![i] = m]) = Taken(r) \ {i}
    BY <1>3, <1>7
  <2>2. Cardinality(Taken([r EXCEPT ![i] = m])) = Cardinality(Taken(r) \ {i})
    BY <2>1
  <2>. QED  BY <1>2, <1>4, <1>6, <2>2
<1>8. CASE m # NoMessage
  <2>1. Taken([r EXCEPT ![i] = m]) = Taken(r) \cup {i}
    BY <1>3, <1>8
  <2>. QED  BY <1>2, <1>4, <1>6, <1>8, <2>1
<1>. QED  BY <1>7, <1>8

(* A place for what is read: a number, so that there is a lowest.          *)
LEMMA FreePlaceIsFree ==
    ASSUME DMTypeOK, Fits, box # <<>>
    PROVE  FreePlace \in Items /\ reading[FreePlace] = NoMessage
<1>1. Len(box) \in Nat \ {0}
  BY LenProperties, EmptySeq DEF DMTypeOK
<1>2. NoMessage \in Messages \cup {NoMessage} /\ 1 \in Items
  BY QueueSizeAssumption DEF Items
<1>3. Cardinality(Taken(reading)) \in Nat
  BY <1>2, TakenFacts DEF DMTypeOK
<1>4. Cardinality(Taken(reading)) < QueueSize
  BY <1>1, <1>3, QueueSizeAssumption DEF Fits
<1>5. FreePlaces # {}
  BY <1>2, <1>4, TakenFacts DEF DMTypeOK, FreePlaces
<1>6. FreePlaces \in SUBSET Nat
  BY DEF FreePlaces, Items
<1>7. FreePlace \in FreePlaces
  BY <1>5, <1>6, LowestOf DEF FreePlace
<1>. QED  BY <1>7 DEF FreePlaces

(* What is in flight after a step was before, but for what is sent now.    *)
LEMMA FlightStep ==
    ASSUME Alone, IndInv, [DMNext]_dmVars
    PROVE  \A c \in InFlight' :
               /\ contents'[c] = contents[c]
               /\ c \in InFlight \/ (SendCommand(Handler) /\ c = held[Handler])
<1>1. TypeOK /\ Apart /\ Handler \in Users
  BY AloneFacts DEF IndInv
<1>2. ASSUME InQueue' = InQueue, inHand' = inHand, pending' \subseteq pending,
             contents' = contents
      PROVE  \A c \in InFlight' : contents'[c] = contents[c] /\ c \in InFlight
  BY <1>2 DEF InFlight
<1>3. CASE UNCHANGED <<queue, inHand, pending, contents>>
  BY <1>2, <1>3, QueuedSame
<1>4. CASE GetCommand(Handler)
  <2>1. PICK c \in pool : contents' = [contents EXCEPT ![c] =
                                       [user |-> Handler, call |-> call[Handler]]]
    BY <1>4 DEF GetCommand
  <2>2. InFlight' = InFlight
    BY <1>4, QueuedSame DEF GetCommand, InFlight
  <2>. QED  BY <1>1, <2>1, <2>2 DEF Apart
<1>5. CASE SendCommand(Handler)
  <2>1. held[Handler] \in Commands
    BY <1>1, <1>5 DEF SendCommand, At, Goto, IndInv, Holding, TypeOK, Sending
  <2>2. InQueue' = InQueue \cup {held[Handler]}
    BY <1>1, <1>5, <2>1, QueuedAppend DEF SendCommand
  <2>3. UNCHANGED <<inHand, pending, contents>>
    BY <1>5 DEF SendCommand
  <2>. QED  BY <1>5, <2>2, <2>3 DEF InFlight
<1>6. CASE Receive
  <2>1. Head(queue) \in InQueue /\ InQueue' = InQueue \ {Head(queue)}
    BY <1>1, <1>6, QueuedTail DEF Receive, Apart
  <2>2. inHand' = Head(queue) /\ UNCHANGED <<pending, contents>>
    BY <1>6 DEF Receive
  <2>. QED  BY <2>1, <2>2 DEF InFlight
<1>7. CASE ProcessSent
  <2>1. InQueue' = InQueue
    BY <1>7, QueuedSame DEF ProcessSent
  <2>. QED  BY <1>7, <2>1 DEF ProcessSent, InFlight
<1>8. ASSUME NEW c \in Commands, NEW ok \in BOOLEAN, Callback(c, ok),
             UNCHANGED queue, inHand' \in {inHand, None}, pending' \subseteq pending
      PROVE  \A d \in InFlight' : contents'[d] = contents[d] /\ d \in InFlight
  <2>1. InQueue' = InQueue
    BY <1>8, QueuedSame
  <2>. QED  BY <1>8, <2>1 DEF InFlight, Callback
<1>9. CASE ProcessFails
  <2>1. inHand \in Commands
    BY <1>1, <1>9 DEF ProcessFails, TypeOK
  <2>. QED  BY <1>8, <1>9, <2>1 DEF ProcessFails
<1>10. ASSUME NEW c \in Commands, GiveUp(c)
       PROVE  \A d \in InFlight' : contents'[d] = contents[d] /\ d \in InFlight
  BY <1>8, <1>10 DEF GiveUp
<1>11. CASE Acknowledged
  <2>. DEFINE a == Head(toAgent)
  <2>1. a.command \in Commands /\ a.ok \in BOOLEAN
    BY <1>1, <1>11, AcknowledgedFacts
  <2>2. /\ Callback(a.command, a.ok) /\ pending' = pending \ {a.command}
        /\ UNCHANGED <<queue, inHand>>
    BY <1>11 DEF Acknowledged
  <2>. HIDE DEF a
  <2>. QED  BY <1>8, <2>1, <2>2
<1>12. CASE CallSteps(Handler)
  <2>1. CASE GetCommand(Handler) \/ SendCommand(Handler)
    BY <1>4, <1>5, <2>1
  <2>2. CASE ~(GetCommand(Handler) \/ SendCommand(Handler))
    <3>1. UNCHANGED <<queue, inHand, pending, contents>>
      BY <1>12, <2>2 DEF CallSteps, GetBlocks, GetTimesOut, SendBlocks, SendTimesOut,
             ClearEvent, Wake, WaitBlocks, WaitTimesOut, agent
    <3>. QED  BY <1>3, <3>1
  <2>. QED  BY <2>1, <2>2
<1>13. CASE AgentSteps
  <2>1. CASE \/ Release \/ Resumed \/ NotReconnected
             \/ \E sessionPresent \in BOOLEAN : Reconnected(sessionPresent)
    BY <1>3, <2>1 DEF Release, Resumed, NotReconnected, Reconnected, agent
  <2>. QED  BY <1>6, <1>7, <1>9, <1>10, <1>11, <1>13, <2>1 DEF AgentSteps
<1>14. CASE HandlerStep \/ Deliver \/ Broker \/ Lost \/ UNCHANGED dmVars
  <2>1. UNCHANGED <<queue, inHand, pending, contents>>
    BY <1>14 DEF HandlerStep, Call, Begin, Sleep, Take, TakeNothing, GiveBack, TakeNone,
           Deliver, Broker, BrokerAnswers, Lost, ConnectionLost, dmVars, vars, agent
  <2>. QED  BY <1>3, <2>1
<1>. QED  BY <1>12, <1>13, <1>14 DEF DMNext

(* The call only changes when a new one begins.                            *)
LEMMA CallKept ==
    ASSUME [DMNext]_dmVars
    PROVE  /\ Call \/ call' = call
           /\ Call \/ CallSteps(Handler) \/ pc' = pc
<1>1. CASE HandlerStep \/ Deliver \/ Broker \/ Lost \/ UNCHANGED dmVars
  BY <1>1 DEF HandlerStep, Sleep, Take, TakeNothing, GiveBack, TakeNone, Deliver, Broker,
         BrokerAnswers, Lost, ConnectionLost, dmVars, vars, user
<1>2. CASE CallSteps(Handler)
  BY <1>2 DEF CallSteps, GetCommand, GetBlocks, GetTimesOut, SendCommand, SendBlocks,
         SendTimesOut, ClearEvent, Wake, WaitBlocks, WaitTimesOut
<1>3. CASE AgentSteps
  BY <1>3 DEF AgentSteps, Receive, ProcessSent, ProcessFails, Release, Acknowledged,
         Resumed, NotReconnected, Reconnected, GiveUp, Callback, user
<1>. QED  BY <1>1, <1>2, <1>3 DEF DMNext

LEMMA PositiveStep ==
    ASSUME Alone, IndInv, Positive, [DMNext]_dmVars
    PROVE  Positive'
<1>1. TypeOK /\ Holding /\ Handler \in Users
  BY AloneFacts DEF IndInv
<1>2. call[Handler] \in Calls /\ call[Handler].number \in Nat
  BY <1>1, Queued DEF TypeOK
<1>3. pc'[Handler] # "idle" => call'[Handler].number >= 1
  <2>1. CASE Call
    <3>1. call'[Handler].number = call[Handler].number + 1
      BY <1>1, <2>1 DEF Call, Begin, TypeOK
    <3>. QED  BY <1>2, <3>1
  <2>2. CASE CallSteps(Handler)
    <3>1. pc[Handler] # "idle"
      BY <2>2 DEF CallSteps, GetCommand, GetBlocks, GetTimesOut, SendCommand, SendBlocks,
             SendTimesOut, ClearEvent, Wake, WaitBlocks, WaitTimesOut, At
    <3>2. call' = call
      BY <2>2 DEF CallSteps, GetCommand, GetBlocks, GetTimesOut, SendCommand, SendBlocks,
             SendTimesOut, ClearEvent, Wake, WaitBlocks, WaitTimesOut
    <3>. QED  BY <3>1, <3>2 DEF Positive
  <2>3. CASE ~Call /\ ~CallSteps(Handler)
    BY <2>3, CallKept DEF Positive
  <2>. QED  BY <2>1, <2>2, <2>3
<1>4. ASSUME NEW c \in InFlight'
      PROVE  contents'[c].call.number >= 1
  <2>1. CASE c \in InFlight
    BY <2>1, FlightStep DEF Positive
  <2>2. CASE SendCommand(Handler) /\ c = held[Handler]
    <3>1. /\ pc[Handler] \in Sending /\ held[Handler] # None
          /\ contents[c].call = call[Handler]
      <4>1. pc[Handler] \in Sending
        BY <2>2 DEF SendCommand, At, Sending
      <4>2. held[Handler] # None /\ contents[c] = [user |-> Handler, call |-> call[Handler]]
        BY <1>1, <2>2, <4>1 DEF Holding
      <4>. QED  BY <4>1, <4>2
    <3>2. contents'[c] = contents[c]
      BY FlightStep
    <3>. QED  BY <3>1, <3>2 DEF Positive, Sending
  <2>. QED  BY <2>1, <2>2, FlightStep
<1>. QED  BY <1>3, <1>4 DEF Positive

(* The mailbox of the composition counts as this module does.              *)
LEMMA MailboxInUse == mailbox!InUse = Len(box) + Cardinality(Taken(reading))
<1>1. \A S : mailbox!Cardinality(S) = Cardinality(S)
  BY Zenon DEF mailbox!Cardinality, Cardinality
<1>. QED  BY <1>1 DEF mailbox!InUse, Taken

(* The variables of the handler keep their types, and its items suffice.   *)
LEMMA HandlerTypeStep ==
    ASSUME Alone, IndInv, Wires, HandlerInv, [DMNext]_dmVars, TypeOK'
    PROVE  DMTypeOK' /\ Fits'
<1>. DEFINE Rest(l, f, p, b, r, a, d, s, c, z) ==
         /\ l \in 1 .. 14 /\ f \in BOOLEAN /\ p \in Items \cup {NoItem}
         /\ b \in Seq(Messages) /\ r \in [Items -> Messages \cup {NoMessage}]
         /\ a \in {"none", "accepted", "refused"} /\ d \in Seq(Messages)
         /\ s \in [1 .. 2 -> CallNumbers] /\ c \in BOOLEAN /\ z \in BOOLEAN
         /\ Len(b) + Cardinality(Taken(r)) <= QueueSize
<1>1. Rest(line, messageReceiveFlag, pQueueItem, box, reading, last, deliveries, sent,
           complained, disturbed)
  BY Lines, Zenon DEF HandlerInv, DMTypeOK, Fits
<1>2. SUFFICES Rest(line', messageReceiveFlag', pQueueItem', box', reading', last',
                    deliveries', sent', complained', disturbed')
  <2>1. Len(box') <= QueueSize
    <3>1. Len(box') \in Nat
      BY <1>2, LenProperties
    <3>2. 1 \in Items /\ NoMessage \in Messages \cup {NoMessage}
      BY QueueSizeAssumption DEF Items
    <3>3. Cardinality(Taken(reading')) \in Nat
      BY <1>2, <3>2, TakenFacts
    <3>. QED  BY <1>2, <3>1, <3>3, QueueSizeAssumption
  <2>2. Fits'
    BY <1>2 DEF Fits, Taken
  <2>. QED  BY <1>2, <2>1, <2>2, Lines DEF DMTypeOK
<1>3. NextLine => line' \in 1 .. 14
  BY <1>1, NextLineFacts
<1>4. Len(box) \in Nat /\ Cardinality(Taken(reading)) \in Nat
  <2>1. 1 \in Items /\ NoMessage \in Messages \cup {NoMessage}
    BY QueueSizeAssumption DEF Items
  <2>. QED  BY <1>1, <2>1, TakenFacts, LenProperties
<1>5. ASSUME box # <<>>
      PROVE  /\ Head(box) \in Messages /\ Tail(box) \in Seq(Messages)
             /\ Len(Tail(box)) = Len(box) - 1
             /\ FreePlace \in Items
  BY <1>1, <1>5, HeadTailProperties, FreePlaceIsFree DEF HandlerInv
<1>6. ASSUME box # <<>>, mailbox!Read(FreePlace)
      PROVE  /\ box' \in Seq(Messages) /\ reading' \in [Items -> Messages \cup {NoMessage}]
             /\ last' = last
             /\ Len(box') + Cardinality(Taken(reading')) <= QueueSize
  <2>1. box' = Tail(box) /\ reading' = [reading EXCEPT ![FreePlace] = Head(box)] /\ last' = last
    BY <1>6 DEF mailbox!Read
  <2>2. reading' \in [Items -> Messages \cup {NoMessage}]
    BY <1>1, <1>5, <1>6, <2>1
  <2>3. Cardinality(Taken(reading')) <= Cardinality(Taken(reading)) + 1
    BY <1>1, <1>5, <1>6, <2>1, TakenFacts
  <2>4. Cardinality(Taken(reading')) \in Nat
    BY <1>5, <1>6, <2>2, TakenFacts
  <2>. QED  BY <1>1, <1>4, <1>5, <1>6, <2>1, <2>2, <2>3, <2>4, QueueSizeAssumption
<1>7. CASE Call
  <2>1. call'[Handler].number \in CallNumbers
    BY AloneFacts DEF TypeOK, Calls
  <2>2. sent' \in [1 .. 2 -> CallNumbers]
    BY <1>1, <1>7, <2>1 DEF Call, RememberSent
  <2>3. messageReceiveFlag' \in BOOLEAN /\ NextLine
        /\ UNCHANGED <<pQueueItem, complained, disturbed, mail, deliveries>>
    BY <1>1, <1>7 DEF Call
  <2>. QED  BY <1>1, <1>3, <2>2, <2>3 DEF mail
<1>8. ASSUME NEW expected \in BOOLEAN, Sleep(expected)
      PROVE  Rest(line', messageReceiveFlag', pQueueItem', box', reading', last',
                    deliveries', sent', complained', disturbed')
  <2>1. complained' \in BOOLEAN /\ disturbed' \in BOOLEAN /\ NextLine
        /\ UNCHANGED <<messageReceiveFlag, pQueueItem, sent, mail, deliveries>>
    BY <1>8 DEF Sleep, Complain, Disturb
  <2>. QED  BY <1>1, <1>3, <2>1 DEF mail
<1>9. CASE Take
  <2>1. /\ complained' \in BOOLEAN /\ box # <<>> /\ mailbox!Read(FreePlace)
        /\ pQueueItem' = FreePlace
        /\ UNCHANGED <<line, messageReceiveFlag, sent, disturbed, deliveries>>
    BY <1>9 DEF Take, Complain
  <2>. QED  BY <1>1, <1>5, <1>6, <2>1
<1>10. CASE TakeNothing
  <2>1. complained' \in BOOLEAN /\ disturbed' \in BOOLEAN
        /\ UNCHANGED <<line, messageReceiveFlag, pQueueItem, sent, mail, deliveries>>
    BY <1>10 DEF TakeNothing, Complain, Disturb
  <2>. QED  BY <1>1, <2>1 DEF mail
<1>11. CASE GiveBack
  <2>1. /\ pQueueItem \in Items /\ NextLine /\ pQueueItem' = NoItem
        /\ reading' = [reading EXCEPT ![pQueueItem] = NoMessage]
        /\ UNCHANGED <<messageReceiveFlag, box, last, sent, complained, disturbed, deliveries>>
    BY <1>1, <1>11 DEF GiveBack, mailbox!GiveBack
  <2>2. reading' \in [Items -> Messages \cup {NoMessage}]
    BY <1>1, <2>1
  <2>3. Cardinality(Taken(reading')) <= Cardinality(Taken(reading))
        /\ Cardinality(Taken(reading')) \in Nat
    BY <1>1, <2>1, <2>2, TakenFacts
  <2>. QED  BY <1>1, <1>3, <1>4, <2>1, <2>2, <2>3, QueueSizeAssumption
<1>12. CASE TakeNone
  <2>1. complained' \in BOOLEAN /\ NextLine
        /\ UNCHANGED <<messageReceiveFlag, pQueueItem, sent, disturbed, deliveries>>
    BY <1>12 DEF TakeNone, Complain
  <2>2. UNCHANGED mail \/ (box # <<>> /\ mailbox!Read(FreePlace))
    BY <1>12 DEF TakeNone
  <2>. QED  BY <1>1, <1>3, <1>6, <2>1, <2>2 DEF mail
<1>13. CASE (CallSteps(Handler) \/ AgentSteps) /\ HandlerKept
  <2>1. disturbed' \in BOOLEAN
    BY <1>1, <1>13 DEF CallSteps, AgentSteps, Disturb
  <2>. QED  BY <1>1, <1>13, <2>1 DEF HandlerKept, mail
<1>14. CASE Deliver
  <2>1. Head(deliveries) \in Messages /\ deliveries' \in Seq(Messages)
    BY <1>1, <1>14, HeadTailProperties DEF Deliver
  <2>2. messageReceiveFlag' \in BOOLEAN
        /\ UNCHANGED <<line, pQueueItem, sent, complained, disturbed>>
    BY <1>14 DEF Deliver, Routed
  <2>3. \/ UNCHANGED mail \/ mailbox!Refuse \/ mailbox!Accept(Head(deliveries))
    BY <1>14 DEF Deliver, Routed
  <2>4. CASE UNCHANGED mail
    BY <1>1, <2>1, <2>2, <2>4 DEF mail
  <2>5. CASE mailbox!Refuse
    BY <1>1, <2>1, <2>2, <2>5 DEF mailbox!Refuse
  <2>6. CASE mailbox!Accept(Head(deliveries))
    <3>1. /\ Len(box) + Cardinality(Taken(reading)) < QueueSize
          /\ box' = Append(box, Head(deliveries)) /\ last' = "accepted" /\ reading' = reading
      BY <2>6, MailboxInUse DEF mailbox!Accept
    <3>2. box' \in Seq(Messages) /\ Len(box') = Len(box) + 1
      BY <1>1, <2>1, <3>1, AppendProperties
    <3>. QED  BY <1>1, <1>4, <2>1, <2>2, <3>1, <3>2, QueueSizeAssumption
  <2>. QED  BY <2>3, <2>4, <2>5, <2>6
<1>15. CASE Broker
  <2>. DEFINE c == Head(toBroker)
  <2>1. c \in InFlight /\ c \in Commands
    BY <1>15, AnswerFacts DEF Broker, Wires, InFlight, IndInv
  <2>2. contents[c].call.number \in CallNumbers /\ contents[c].call.number >= 1
    BY <2>1, Queued DEF HandlerInv, Positive, Calls, IndInv
  <2>3. contents[c].call.number \in Messages
    BY <2>2, BoundAssumption DEF CallNumbers, Messages
  <2>4. \/ deliveries' = Append(deliveries, contents[c].call.number)
        \/ deliveries' = deliveries
    BY <1>15 DEF Broker
  <2>5. deliveries' \in Seq(Messages)
    BY <1>1, <2>3, <2>4, AppendProperties
  <2>6. UNCHANGED <<handler, mail>>
    BY <1>15 DEF Broker
  <2>. QED  BY <1>1, <2>5, <2>6 DEF handler, mail
<1>16. CASE Lost
  <2>1. /\ disturbed' \in BOOLEAN /\ deliveries' = <<>>
        /\ UNCHANGED <<line, messageReceiveFlag, pQueueItem, sent, complained, mail>>
    BY <1>16 DEF Lost, Disturb
  <2>. QED  BY <1>1, <2>1 DEF mail
<1>17. CASE UNCHANGED dmVars
  BY <1>1, <1>17 DEF dmVars, handler, mail
<1>. QED  BY <1>7, <1>8, <1>9, <1>10, <1>11, <1>12, <1>13, <1>14, <1>15, <1>16, <1>17
          DEF DMNext, HandlerStep

-----------------------------------------------------------------------------
(* As long as nothing disturbs it, the handler has one call in flight, if  *)
(* any: the one it waits in.                                               *)
LEMMA OneFlight ==
    ASSUME Alone, IndInv, Wires, InStep
    PROVE  /\ \A c \in InFlight :
                 /\ c \in Commands /\ contents[c].user = Handler
                 /\ contents[c].call = call[Handler] /\ pc[Handler] \in Waiting
                 /\ ~Completed
                 /\ \A d \in InFlight : d = c
           /\ InFlight = {} => toBroker = <<>> /\ toAgent = <<>> /\ pending = {}
<1>1. TypeOK /\ Numbered /\ Users = {Handler}
  BY AloneFacts DEF IndInv
<1>2. ASSUME NEW c \in InFlight
      PROVE  /\ c \in Commands /\ contents[c].user = Handler
             /\ contents[c].call = call[Handler] /\ pc[Handler] \in Waiting
             /\ ~Completed
             /\ \A d \in InFlight : d = c
  <2>1. \A d \in InFlight : d \in Commands /\ contents[d].user = Handler
                            /\ contents[d].call = call[Handler]
    BY <1>1, Queued DEF InStep
  <2>2. ~Completed
    BY <1>1, <2>1 DEF Numbered, Completed
  <2>3. \A d \in InFlight : d = c
    BY <1>1, <2>1 DEF Numbered
  <2>. QED  BY <1>1, <2>1, <2>2, <2>3 DEF InStep
<1>3. ASSUME InFlight = {}
      PROVE  toBroker = <<>> /\ toAgent = <<>> /\ pending = {}
  <2>1. pending = {}
    BY <1>3 DEF InFlight
  <2>2. DOMAIN toBroker = {} /\ DOMAIN toAgent = {}
    BY <2>1 DEF Wires
  <2>. QED  BY <1>1, <2>1, <2>2 DEF TypeOK
<1>. QED  BY <1>2, <1>3

(* What the handler's call does to who is subscribed.                      *)
LEMMA Effects ==
    ASSUME Alone, line \in 1 .. 14, InStep, Calling
    PROVE  LET k == call[Handler].kind
           IN  /\ call[Handler].filter = Topic
               /\ k \in Kinds
               /\ k = "publish" <=> line \in {3, 6, 9, 10}
               /\ k = "publish" => sent[2] = call[Handler].number
               /\ k = "subscribe" => line \in {2, 8}
                                     /\ Subscriber(Before(line)) = {}
                                     /\ Subscriber(line) = {call[Handler].receiver}
               /\ k = "unsubscribe" => line \in {5, 13} /\ Subscriber(line) = {}
               /\ k = "publish" => Subscriber(line) = Subscriber(Before(line))
<1>1. line \in {2, 3, 5, 6, 8, 9, 10, 13}
  BY PlacesInScript DEF Calling
<1>2. /\ call[Handler].kind = KindOf[Script[Before(line)]] /\ call[Handler].filter = Topic
      /\ call[Handler].receiver = ReceiverOf(Script[Before(line)])
      /\ Script[Before(line)] = "publish" => sent[2] = call[Handler].number
  BY DEF InStep
<1>3. CASE line \in {2, 8}
  <2>1. call[Handler].kind = "subscribe" /\ Subscriber(Before(line)) = {}
    BY <1>2, <1>3, PlacesInScript, Subscribers
  <2>2. Subscriber(line) = {call[Handler].receiver}
    <3>1. CASE line = 2
      BY <1>2, <3>1, PlacesInScript, Subscribers
    <3>2. CASE line = 8
      BY <1>2, <3>2, PlacesInScript, Subscribers
    <3>. QED  BY <1>3, <3>1, <3>2
  <2>. QED  BY <1>2, <1>3, <2>1, <2>2 DEF Kinds
<1>4. CASE line \in {5, 13}
  <2>1. call[Handler].kind = "unsubscribe" /\ Subscriber(line) = {}
    BY <1>2, <1>4, PlacesInScript, Subscribers
  <2>. QED  BY <1>2, <1>4, <2>1 DEF Kinds
<1>5. CASE line \in {3, 6, 9, 10}
  <2>1. call[Handler].kind = "publish" /\ sent[2] = call[Handler].number
    BY <1>2, <1>5, PlacesInScript
  <2>2. Subscriber(line) = Subscriber(Before(line))
    BY <1>5, Subscribers
  <2>. QED  BY <1>2, <1>5, <2>1, <2>2 DEF Kinds
<1>. QED  BY <1>1, <1>3, <1>4, <1>5

(* Steps that concern neither the list, nor the broker, nor the messages.  *)
LEMMA SameExpectations ==
    ASSUME Expectations, HandlerKept,
           UNCHANGED <<session, list, toAgent, completed, call>>,
           pc'[Handler] # "idle" => pc[Handler] # "idle",
           pc'[Handler] = "idle" => pc[Handler] = "idle" \/ Completed,
           \A c \in InFlight' :
               pc'[Handler] \in Waiting /\ contents'[c].call = call'[Handler],
           connection' # "up" => session' = {} /\ pending' = {}
    PROVE  Expectations'
<1>1. /\ Completed' <=> Completed
      /\ Answered' <=> Answered
      /\ Calling' <=> Calling
  BY DEF Completed, Answered, Calling, HandlerKept
<1>2. InStep'
  BY <1>1 DEF Expectations, InStep, HandlerKept
<1>3. Subscribed'
  BY <1>1 DEF Expectations, Subscribed, HandlerKept
<1>4. Messaging'
  BY <1>1 DEF Expectations, Messaging, HandlerKept, mail, Underway
<1>. QED  BY <1>2, <1>3, <1>4 DEF Expectations, HandlerKept

LEMMA ExpectCallSteps ==
    ASSUME Alone, IndInv, Wires, Expectations, CallSteps(Handler), HandlerKept, ~disturbed'
    PROVE  Expectations'
<1>1. TypeOK /\ Holding /\ Handler \in Users /\ InStep
  BY AloneFacts DEF IndInv, Expectations
<1>2. UNCHANGED <<session, list, toAgent, completed, call, connection, pending>>
  BY DEF CallSteps, GetCommand, GetBlocks, GetTimesOut, SendCommand, SendBlocks,
         SendTimesOut, ClearEvent, Wake, WaitBlocks, WaitTimesOut, agent, network, ghost
<1>3. connection' # "up" => session' = {} /\ pending' = {}
  BY <1>2 DEF Expectations, Subscribed
<1>4. \A c \in InFlight' :
          /\ contents'[c] = contents[c]
          /\ c \in InFlight \/ (SendCommand(Handler) /\ c = held[Handler])
  BY FlightStep DEF DMNext
<1>5. ASSUME pc[Handler] \notin Waiting, ~SendCommand(Handler)
      PROVE  InFlight' = {}
  BY <1>1, <1>4, <1>5, OneFlight
<1>6. CASE GetCommand(Handler) \/ GetBlocks(Handler) \/ SendBlocks(Handler)
  <2>1. pc[Handler] \notin Waiting /\ ~SendCommand(Handler)
        /\ pc[Handler] # "idle" /\ pc'[Handler] # "idle"
    BY <1>1, <1>6 DEF GetCommand, GetBlocks, SendBlocks, SendCommand, At, Goto, Waiting,
           TypeOK, AfterSend
  <2>. QED  BY <1>2, <1>3, <1>5, <2>1, SameExpectations
<1>7. CASE SendCommand(Handler)
  <2>1. pc[Handler] \in Sending /\ pc'[Handler] \in Waiting
    BY <1>1, <1>7 DEF SendCommand, At, Goto, AfterSend, Sending, Waiting, TypeOK
  <2>2. held[Handler] # None /\ contents[held[Handler]].call = call[Handler]
    <3>1. contents[held[Handler]] = [user |-> Handler, call |-> call[Handler]]
          /\ held[Handler] # None
      BY <1>1, <2>1 DEF Holding
    <3>. QED  BY <3>1
  <2>3. \A c \in InFlight' :
            pc'[Handler] \in Waiting /\ contents'[c].call = call'[Handler]
    BY <1>1, <1>2, <1>4, <2>1, <2>2, OneFlight
  <2>. QED  BY <1>2, <1>3, <2>1, <2>3, SameExpectations DEF Waiting, Sending
<1>8. CASE ClearEvent(Handler) \/ WaitBlocks(Handler)
  <2>1. pc[Handler] # "idle" /\ pc'[Handler] \in Waiting /\ pc'[Handler] # "idle"
        /\ ~SendCommand(Handler)
    BY <1>1, <1>8 DEF ClearEvent, WaitBlocks, SendCommand, At, Goto, Waiting, TypeOK
  <2>2. \A c \in InFlight' :
            pc'[Handler] \in Waiting /\ contents'[c].call = call'[Handler]
    BY <1>1, <1>2, <1>4, <2>1, OneFlight
  <2>. QED  BY <1>2, <1>3, <2>1, <2>2, SameExpectations
<1>9. CASE (Wake(Handler) \/ WaitTimesOut(Handler)) /\ Disturb(Late)
  <2>1. Completed
    BY <1>9 DEF Disturb, Late, Completed
  <2>2. InFlight = {} /\ ~SendCommand(Handler)
    BY <1>1, <1>9, <2>1, OneFlight DEF Wake, WaitTimesOut, SendCommand, At
  <2>3. pc'[Handler] = "idle" /\ InFlight' = {}
    BY <1>1, <1>4, <1>9, <2>2 DEF Wake, WaitTimesOut, Return, Goto, TypeOK
  <2>. QED  BY <1>2, <1>3, <2>1, <2>3, SameExpectations
<1>. QED  BY <1>6, <1>7, <1>8, <1>9 DEF CallSteps, Disturb

(* The callback of the handler's call makes the list what it should be.    *)
LEMMA ExpectedList ==
    ASSUME Alone, IndInv, Wires, Expectations, line \in 1 .. 14,
           NEW c \in InFlight, Callback(c, TRUE)
    PROVE  /\ Entries(list') = EntriesOf(Subscriber(line))
           /\ Completed' /\ UNCHANGED <<pc, call, contents>>
<1>. DEFINE e == EntryOf(call[Handler])
            k == call[Handler].kind
<1>1. TypeOK /\ Handler \in Users /\ InStep
  BY AloneFacts DEF IndInv, Expectations
<1>2. /\ c \in Commands /\ contents[c].user = Handler
      /\ contents[c].call = call[Handler] /\ pc[Handler] \in Waiting /\ ~Completed
  BY <1>1, OneFlight
<1>3. FrameAlive(contents[c]) /\ Calling
  BY <1>1, <1>2 DEF FrameAlive, Waiting, InStep
<1>4. EntriesRead(contents[c]) = {e}
  BY <1>2, <1>3 DEF EntriesRead
<1>5. list' = Updated(contents[c], e, TRUE)
  BY <1>3, <1>4 DEF Callback
<1>6. Completed' /\ UNCHANGED <<pc, call, contents>>
  BY <1>1, <1>2 DEF Callback, Completed, TypeOK
<1>7. Entries(list) = EntriesOf(Subscriber(Before(line))) /\ list \in Lists
  BY <1>1, <1>2 DEF Expectations, Subscribed, TypeOK
<1>8. e = [filter |-> Topic, receiver |-> call[Handler].receiver] /\ e \in Subscription
  <2>1. call[Handler].filter = Topic /\ call[Handler] \in Calls
    BY <1>1, <1>3, Effects DEF TypeOK
  <2>. QED  BY <2>1 DEF EntryOf, Calls, Subscription
<1>. HIDE DEF e
<1>9. CASE k = "subscribe"
  <2>1. /\ Subscriber(Before(line)) = {}
        /\ Subscriber(line) = {call[Handler].receiver}
    BY <1>1, <1>3, <1>9, Effects
  <2>2. \A i \in Indices : list[i] = Free
    BY <1>7, <2>1 DEF Entries, EntriesOf, FreeSlots
  <2>3. FreeSlots(list) # {} /\ FreeSlots(list) \in SUBSET Nat
    BY <2>2, SizeAssumption DEF FreeSlots, Indices
  <2>. DEFINE i == Lowest(FreeSlots(list))
  <2>4. i \in Indices
    BY <2>3, LowestOf DEF FreeSlots
  <2>5. list' = [list EXCEPT ![i] = e]
    <3>1. ~Registered(list, e)
      BY <1>8, <2>2, FreeAssumption DEF Registered
    <3>2. list' = addSubscription(list, e)
      BY <1>2, <1>5, <1>9 DEF Updated
    <3>. QED  BY <2>3, <3>1, <3>2 DEF addSubscription
  <2>. HIDE DEF i
  <2>6. Entries(list') = {e}
    <3>1. \A j \in Indices : list'[j] = IF j = i THEN e ELSE Free
      BY <1>7, <2>2, <2>4, <2>5 DEF Lists
    <3>2. Indices \ FreeSlots(list') = {i}
      BY <1>8, <2>4, <3>1, FreeAssumption DEF FreeSlots
    <3>. QED  BY <2>4, <3>1, <3>2 DEF Entries
  <2>7. EntriesOf(Subscriber(line)) = {e}
    BY <1>8, <2>1 DEF EntriesOf
  <2>. QED  BY <1>6, <2>6, <2>7
<1>10. CASE k = "unsubscribe"
  <2>1. Subscriber(line) = {}
    BY <1>1, <1>3, <1>10, Effects
  <2>2. list' = removeSubscription(list, Topic)
    BY <1>2, <1>5, <1>8, <1>10 DEF Updated
  <2>3. \A i \in Indices : list[i] # Free => list[i].filter = Topic
    <3>1. \A x \in Entries(list) : x.filter = Topic
      BY <1>7 DEF EntriesOf
    <3>. QED  BY <3>1 DEF Entries, FreeSlots
  <2>4. \A i \in Indices : list'[i] = Free
    BY <2>2, <2>3 DEF removeSubscription
  <2>5. Entries(list') = {}
    BY <2>4 DEF Entries, FreeSlots
  <2>6. EntriesOf(Subscriber(line)) = {}
    BY <2>1 DEF EntriesOf
  <2>. QED  BY <1>6, <2>5, <2>6
<1>11. CASE k = "publish"
  <2>1. list' = list
    BY <1>2, <1>5, <1>11 DEF Updated
  <2>2. Subscriber(line) = Subscriber(Before(line))
    BY <1>1, <1>3, <1>11, Effects
  <2>. QED  BY <1>6, <1>7, <2>1, <2>2
<1>12. k \in Kinds
  BY <1>1, <1>3, Effects
<1>. QED  BY <1>9, <1>10, <1>11, <1>12 DEF Kinds

LEMMA ExpectAcknowledged ==
    ASSUME Alone, IndInv, Wires, Expectations, line \in 1 .. 14,
           Acknowledged, Disturb(~Head(toAgent).ok), HandlerKept, ~disturbed'
    PROVE  Expectations'
<1>. DEFINE a == Head(toAgent)
<1>1. TypeOK /\ Handler \in Users /\ InStep
  BY AloneFacts DEF IndInv, Expectations
<1>2. a.ok /\ a.ok \in BOOLEAN
  BY <1>1, AcknowledgedFacts DEF Disturb
<1>3. 1 \in DOMAIN toAgent /\ a = toAgent[1]
  BY <1>1, AcknowledgedFacts
<1>4. /\ a.command \in pending /\ pending' = pending \ {a.command} /\ Callback(a.command, a.ok)
      /\ UNCHANGED <<session, connection>> /\ connection = "up"
  BY DEF Acknowledged
<1>5. a.command \in InFlight /\ Answered
  BY <1>2, <1>3, <1>4 DEF InFlight, Answered
<1>. HIDE DEF a
<1>6. /\ Entries(list') = EntriesOf(Subscriber(line))
      /\ Completed' /\ UNCHANGED <<pc, call, contents>>
  <2>1. Callback(a.command, TRUE)
    <3>1. a.ok = TRUE
      BY <1>2
    <3>. QED  BY <1>4, <3>1
  <2>. QED  BY <1>5, <2>1, ExpectedList
<1>7. Answered' /\ (Calling' <=> Calling)
  BY <1>6 DEF Answered, Calling, HandlerKept
<1>8. \A c \in InFlight' : c \in InFlight
  <2>1. ~SendCommand(Handler)
    BY <1>1, <1>5, OneFlight DEF SendCommand, At, Waiting
  <2>. QED  BY <2>1, FlightStep DEF DMNext, AgentSteps
<1>9. InStep'
  BY <1>6, <1>7, <1>8 DEF Expectations, InStep, HandlerKept
<1>10. Subscribed'
  BY <1>4, <1>5, <1>6, <1>7 DEF Expectations, Subscribed, HandlerKept
<1>11. Messaging'
  BY <1>5, <1>6, <1>7 DEF Expectations, Messaging, HandlerKept, mail, Underway
<1>. QED  BY <1>9, <1>10, <1>11 DEF Expectations, HandlerKept

LEMMA ExpectAgentSteps ==
    ASSUME Alone, IndInv, Wires, Expectations, line \in 1 .. 14,
           AgentSteps, HandlerKept, ~disturbed'
    PROVE  Expectations'
<1>1. TypeOK /\ Handler \in Users /\ InStep /\ Subscribed
  BY AloneFacts DEF IndInv, Expectations
<1>2. CASE \/ Receive \/ ProcessSent \/ Release \/ Resumed \/ NotReconnected
           \/ \E sessionPresent \in BOOLEAN : Reconnected(sessionPresent)
  <2>1. /\ UNCHANGED <<list, toAgent, completed, call, pc>>
        /\ session' = session \/ session' = {}
    BY <1>2 DEF Receive, ProcessSent, Release, Resumed, NotReconnected, Reconnected, user,
           agent, network, ghost
  <2>2. ~SendCommand(Handler)
    BY <1>1, <2>1 DEF SendCommand, At, Goto, AfterSend, TypeOK
  <2>3. \A c \in InFlight' :
            pc'[Handler] \in Waiting /\ contents'[c].call = call'[Handler]
    BY <1>1, <2>1, <2>2, FlightStep DEF DMNext, InStep
  <2>4. /\ connection # "up" => session' = session
        /\ connection = "up" => connection' = "up" /\ session' = session
        /\ connection' # "up" => pending' = pending
    BY <1>1, <1>2 DEF Subscribed, Receive, ProcessSent, Release, Resumed, NotReconnected,
           Reconnected, agent, network
  <2>5. session' = session
    BY <2>4
  <2>6. connection' # "up" => session' = {} /\ pending' = {}
    BY <1>1, <2>4 DEF Subscribed
  <2>. QED  BY <2>1, <2>3, <2>5, <2>6, SameExpectations
<1>3. CASE Acknowledged /\ Disturb(~Head(toAgent).ok)
  BY <1>3, ExpectAcknowledged
<1>. QED  BY <1>2, <1>3 DEF AgentSteps, Disturb

(* The broker's answer to the handler's call, and the publish it sends     *)
(* back.                                                                   *)
LEMMA ExpectBroker ==
    ASSUME Alone, IndInv, Wires, HandlerInv, Expectations, line \in 1 .. 14, Broker
    PROVE  Expectations'
<1>. DEFINE c == Head(toBroker)
            k == call[Handler].kind
            m == call[Handler].number
<1>1. TypeOK /\ Handler \in Users /\ InStep /\ BrokerAnswers
  BY AloneFacts DEF IndInv, Expectations, Broker
<1>2. 1 \in DOMAIN toBroker /\ c = toBroker[1]
  BY <1>1, AnswerFacts
<1>3. c \in pending /\ c \in InFlight /\ connection = "up" /\ toBroker # <<>>
  BY <1>1, <1>2 DEF Wires, InFlight, BrokerAnswers
<1>4. contents[c].call = call[Handler] /\ pc[Handler] # "idle" /\ ~Completed
      /\ \A d \in InFlight : d = c
  BY <1>1, <1>3, OneFlight DEF Waiting
<1>5. toAgent = <<>>
  <2>1. \A i \in DOMAIN toAgent : toAgent[i].command \in InFlight /\ toAgent[i].command # c
    BY <1>2 DEF Wires, InFlight
  <2>2. DOMAIN toAgent = {}
    BY <1>4, <2>1
  <2>. QED  BY <1>1, <2>2 DEF TypeOK
<1>6. ~Answered /\ Calling
  <2>1. DOMAIN toAgent = {}
    BY <1>5
  <2>. QED  BY <1>1, <1>4, <2>1 DEF Answered, InStep
<1>7. /\ UNCHANGED <<pc, call, contents, list, pending, connection, completed, queue, inHand>>
      /\ UNCHANGED <<line, messageReceiveFlag, pQueueItem, sent, complained>>
      /\ UNCHANGED <<box, reading>>
  BY <1>1 DEF Broker, BrokerAnswers, user, agent, ghost, handler, mail
<1>8. PICK ok \in BOOLEAN :
          /\ toAgent'[Len(toAgent) + 1] = [command |-> c, ok |-> ok]
          /\ session' = CASE k = "subscribe" /\ ok -> session \cup {Topic}
                          [] k = "unsubscribe" -> session \ {Topic}
                          [] OTHER -> session
          /\ k # "subscribe" => ok
  <2>1. call[Handler].filter = Topic
    BY <1>1, <1>6, Effects
  <2>. HIDE DEF c
  <2>2. \E ok \in BOOLEAN :
          /\ toAgent'[Len(toAgent) + 1] = [command |-> Head(toBroker), ok |-> ok]
          /\ session' = CASE contents[Head(toBroker)].call.kind = "subscribe" /\ ok ->
                                    session \cup {contents[Head(toBroker)].call.filter}
                          [] contents[Head(toBroker)].call.kind = "unsubscribe" ->
                                    session \ {contents[Head(toBroker)].call.filter}
                          [] OTHER -> session
          /\ contents[Head(toBroker)].call.kind # "subscribe" => ok
    BY <1>1, AnswerFacts
  <2>. QED  BY <1>4, <2>1, <2>2 DEF c
<1>9. /\ DOMAIN toAgent' = {1} /\ toAgent'[1].ok = ok
  <2>1. Len(toAgent) = 0 /\ DOMAIN toAgent' = DOMAIN toAgent \cup {Len(toAgent) + 1}
        /\ DOMAIN toAgent = {}
    BY <1>1, <1>5, AnswerFacts
  <2>. QED  BY <1>8, <2>1
<1>10. /\ Completed' <=> Completed
       /\ Calling' <=> Calling
       /\ Answered' <=> ok
  BY <1>4, <1>7, <1>9 DEF Completed, Calling, Answered
<1>11. InStep'
  <2>1. InFlight' = InFlight
    BY <1>7, QueuedSame DEF InFlight
  <2>. QED  BY <1>7, <1>10, <2>1 DEF Expectations, InStep
<1>12. session = {Topic : r \in Subscriber(Before(line))}
  BY <1>6 DEF Expectations, Subscribed
<1>13. session' = {Topic : r \in Subscriber(IF ok THEN line ELSE Before(line))}
  <2>1. k \in Kinds
    BY <1>1, <1>6, Effects
  <2>2. CASE k = "subscribe"
    <3>1. Subscriber(Before(line)) = {} /\ Subscriber(line) = {call[Handler].receiver}
      BY <1>1, <1>6, <2>2, Effects
    <3>. QED  BY <1>8, <1>12, <2>2, <3>1
  <2>3. CASE k = "unsubscribe"
    <3>1. Subscriber(line) = {}
      BY <1>1, <1>6, <2>3, Effects
    <3>. QED  BY <1>8, <1>12, <2>3, <3>1
  <2>4. CASE k = "publish"
    <3>1. Subscriber(line) = Subscriber(Before(line))
      BY <1>1, <1>6, <2>4, Effects
    <3>. QED  BY <1>8, <1>12, <2>4, <3>1
  <2>. QED  BY <2>1, <2>2, <2>3, <2>4 DEF Kinds
<1>14. Subscribed'
  <2>1. session' = {Topic : r \in Subscriber(IF Answered' THEN line' ELSE Before(line'))}
    BY <1>7, <1>10, <1>13
  <2>2. Entries(list') = EntriesOf(Subscriber(IF Completed' THEN line' ELSE Before(line')))
    BY <1>4, <1>7, <1>10 DEF Expectations, Subscribed
  <2>3. connection' = "up"
    BY <1>3, <1>7
  <2>. QED  BY <2>1, <2>2, <2>3 DEF Subscribed
<1>15. Messaging'
  <2>1. deliveries' = IF k = "publish" /\ Topic \in session
                      THEN Append(deliveries, m) ELSE deliveries
    <3>1. call[Handler].filter = Topic
      BY <1>1, <1>6, Effects
    <3>. QED  BY <1>4, <3>1 DEF Broker
  <2>2. /\ k = "publish" <=> line \in {3, 6, 9, 10}
        /\ k = "publish" => sent[2] = m /\ ok
    BY <1>1, <1>6, <1>8, Effects
  <2>3. pQueueItem = NoItem
    BY <1>4 DEF Expectations, Messaging
  <2>4. CASE line = 3
    <3>1. Topic \in session
      BY <1>12, <2>4, Subscribers
    <3>2. deliveries' = Append(deliveries, m)
      BY <2>1, <2>2, <2>4, <3>1
    <3>3. deliveries' # <<>>
      BY <3>2 DEF HandlerInv, DMTypeOK
    <3>. QED  BY <1>7, <1>10, <2>3, <2>4, <3>3 DEF Expectations, Messaging
  <2>5. CASE line = 6
    <3>1. Topic \notin session
      BY <1>12, <2>5, Subscribers
    <3>. QED  BY <1>7, <1>10, <2>1, <2>3, <2>5, <3>1 DEF Expectations, Messaging
  <2>6. CASE line \in {9, 10}
    <3>1. Topic \in session
      BY <1>12, <2>6, Subscribers
    <3>2. m \in Messages
      BY <1>1, <1>4, Queued, BoundAssumption DEF HandlerInv, Positive, TypeOK, Calls, CallNumbers, Messages
    <3>3. Underway' = Append(Underway, m)
      BY <1>7, <2>1, <2>2, <2>6, <3>1, <3>2, UnderwayFacts DEF Underway, HandlerInv, DMTypeOK
    <3>4. CASE line = 9
      <4>1. Underway' = <<sent[2]>>
        BY <1>6, <2>2, <3>3, <3>4 DEF Expectations, Messaging
      <4>. QED  BY <1>7, <1>10, <2>2, <2>3, <3>4, <4>1 DEF Expectations, Messaging
    <3>5. CASE line = 10
      <4>1. Underway = <<sent[1]>> /\ sent[2] = m
        BY <1>6, <2>2, <2>3, <3>5 DEF Expectations, Messaging
      <4>2. Underway' = <<sent[1], sent[2]>>
        BY <3>3, <4>1, PairFacts, Zenon
      <4>. QED  BY <1>7, <1>10, <2>2, <2>3, <3>5, <4>2 DEF Expectations, Messaging
    <3>. QED  BY <2>6, <3>4, <3>5
  <2>7. CASE line \notin {3, 6, 9, 10}
    <3>1. deliveries' = deliveries /\ line # 11
      BY <1>6, <2>1, <2>2, <2>7, PlacesInScript DEF Calling
    <3>. QED  BY <1>7, <1>10, <2>3, <2>7, <3>1 DEF Expectations, Messaging
  <2>. QED  BY <2>4, <2>5, <2>6, <2>7
<1>. QED  BY <1>7, <1>11, <1>14, <1>15 DEF Expectations

LEMMA LenFacts ==
    /\ Len(<<>>) = 0
    /\ \A x : Len(<<x>>) = 1
    /\ \A x, y : Len(<<x, y>>) = 2
OBVIOUS

(* Publishes that come in reach whoever is subscribed.                     *)
LEMMA ExpectDeliver ==
    ASSUME Alone, IndInv, Wires, HandlerInv, Expectations, line \in 1 .. 14, Deliver
    PROVE  Expectations'
<1>. DEFINE m == Head(deliveries)
            receivers == {list[i].receiver : i \in Matching(list, Topic)}
<1>1. TypeOK /\ CallbackReceiver # QueueReceiver /\ <<Topic, Topic>> \in Matches
  BY AloneFacts DEF IndInv
<1>2. /\ deliveries # <<>> /\ deliveries' = Tail(deliveries) /\ Routed(m, receivers)
      /\ UNCHANGED <<user, agent, network, ghost>>
      /\ UNCHANGED <<line, pQueueItem, sent, complained, disturbed>>
  BY DEF Deliver, vars
<1>3. line \in {3, 9, 10, 11}
  BY <1>2 DEF Expectations, Messaging
<1>4. receivers = Subscriber(line)
  <2>1. Entries(list) = EntriesOf(Subscriber(line))
    BY <1>3, Subscribers DEF Expectations, Subscribed
  <2>2. \A i \in Indices : list[i] # Free => list[i].filter = Topic
    <3>1. \A x \in Entries(list) : x.filter = Topic
      BY <2>1 DEF EntriesOf
    <3>. QED  BY <3>1 DEF Entries, FreeSlots
  <2>3. Matching(list, Topic) = Indices \ FreeSlots(list)
    BY <1>1, <2>2 DEF Matching, FreeSlots
  <2>4. receivers = {x.receiver : x \in Entries(list)}
    BY <2>3 DEF Entries
  <2>5. {x.receiver : x \in EntriesOf(Subscriber(line))} = Subscriber(line)
    <3>. DEFINE R == Subscriber(line)
    <3>. HIDE DEF R
    <3>1. \A x \in EntriesOf(R) : x.receiver \in R
      BY DEF EntriesOf
    <3>2. ASSUME NEW r \in R
          PROVE  \E x \in EntriesOf(R) : x.receiver = r
      <4>1. [filter |-> Topic, receiver |-> r] \in EntriesOf(R)
        BY DEF EntriesOf
      <4>. QED  BY <4>1
    <3>3. {x.receiver : x \in EntriesOf(R)} = R
      BY <3>1, <3>2
    <3>. QED  BY <3>3 DEF R
  <2>. QED  BY <2>1, <2>4, <2>5
<1>. HIDE DEF receivers
<1>5. InStep' /\ Subscribed' /\ (Answered' <=> Answered)
  <2>1. InQueue' = InQueue
    BY <1>2, QueuedSame DEF agent
  <2>2. InFlight' = InFlight
    BY <1>2, <2>1 DEF agent, InFlight
  <2>3. /\ Completed' <=> Completed
        /\ Answered' <=> Answered
        /\ Calling' <=> Calling
    BY <1>2 DEF Completed, Answered, Calling, user, ghost, network
  <2>4. InStep'
    BY <1>2, <2>2, <2>3 DEF Expectations, InStep, user, agent
  <2>5. Subscribed'
    BY <1>2, <2>3 DEF Expectations, Subscribed, agent, network
  <2>. QED  BY <2>3, <2>4, <2>5
<1>6. Messaging'
  <2>1. CASE line = 3
    <3>1. receivers = {CallbackReceiver}
      BY <1>4, <2>1, Subscribers
    <3>2. messageReceiveFlag' /\ UNCHANGED <<box, reading>>
      BY <1>1, <1>2, <3>1 DEF Routed, mail
    <3>. QED  BY <1>2, <2>1, <3>2 DEF Expectations, Messaging, user
  <2>2. CASE line \in {9, 10, 11}
    <3>1. receivers = {QueueReceiver}
      BY <1>4, <2>2, Subscribers
    <3>2. mailbox!Accept(m) \/ mailbox!Refuse
      BY <1>2, <3>1 DEF Routed
    <3>3. /\ box \in Seq(Messages) /\ deliveries \in Seq(Messages)
          /\ reading \in [Items -> Messages \cup {NoMessage}]
      BY DEF HandlerInv, DMTypeOK
    <3>4. /\ Len(box) \in Nat /\ Len(deliveries) \in Nat \ {0}
          /\ Len(Underway) = Len(box) + Len(deliveries)
      BY <1>2, <3>3, UnderwayFacts DEF Underway
    <3>5. Len(Underway) + Cardinality(Taken(reading)) <= 2
      <4>1. pQueueItem = NoItem \/ pQueueItem # NoItem
        OBVIOUS
      <4>2. CASE pQueueItem = NoItem
        <5>1. Taken(reading) = {}
          BY <4>2 DEF Expectations, Messaging, Taken, Items, NoItem
        <5>2. Cardinality(Taken(reading)) = 0
          BY <5>1, FS_EmptySet
        <5>3. Underway \in {<<>>, <<sent[2]>>, <<sent[1]>>, <<sent[1], sent[2]>>}
          BY <2>2, <4>2 DEF Expectations, Messaging
        <5>4. Len(Underway) = 0 \/ Len(Underway) = 1 \/ Len(Underway) = 2
          BY <5>3, LenFacts, Zenon
        <5>. QED  BY <3>4, <5>2, <5>4
      <4>3. CASE pQueueItem # NoItem
        <5>1. Taken(reading) \subseteq {pQueueItem}
          BY DEF Expectations, Messaging, Taken
        <5>2. Cardinality(Taken(reading)) <= 1 /\ Cardinality(Taken(reading)) \in Nat
          <6>. DEFINE T == Taken(reading)
                      q == pQueueItem
          <6>. HIDE DEF T, q
          <6>1. IsFiniteSet({q}) /\ Cardinality({q}) = 1 /\ T \in SUBSET {q}
            BY <5>1, FS_Singleton DEF T, q
          <6>2. IsFiniteSet(T) /\ Cardinality(T) <= Cardinality({q})
            BY <6>1, FS_Subset
          <6>3. Cardinality(T) <= 1 /\ Cardinality(T) \in Nat
            BY <6>1, <6>2, FS_CardinalityType
          <6>. QED  BY <6>3 DEF T
        <5>3. Underway \in {<<>>, <<sent[2]>>}
          BY <2>2, <4>3 DEF Expectations, Messaging
        <5>4. Len(Underway) = 0 \/ Len(Underway) = 1
          BY <5>3, LenFacts, Zenon
        <5>. QED  BY <3>4, <5>2, <5>4
      <4>. QED  BY <4>1, <4>2, <4>3
    <3>6. ~mailbox!Refuse
      <4>1. mailbox!InUse = Len(box) + Cardinality(Taken(reading))
        BY MailboxInUse
      <4>2. Cardinality(Taken(reading)) \in Nat
        <5>1. 1 \in Items /\ NoMessage \in Messages \cup {NoMessage}
          BY QueueSizeAssumption DEF Items
        <5>. QED  BY <3>3, <5>1, TakenFacts
      <4>. QED  BY <3>4, <3>5, <4>1, <4>2, QueueSizeAssumption DEF mailbox!Refuse
    <3>7. box' = Append(box, m) /\ reading' = reading
      BY <3>2, <3>6 DEF mailbox!Accept
    <3>8. Underway' = Underway
      BY <1>2, <3>3, <3>7, UnderwayFacts DEF Underway
    <3>. QED  BY <1>2, <1>5, <2>2, <3>7, <3>8 DEF Expectations, Messaging, user
  <2>. QED  BY <1>3, <2>1, <2>2
<1>. QED  BY <1>2, <1>5, <1>6 DEF Expectations

(* A new call.                                                             *)
LEMMA ExpectCall ==
    ASSUME Alone, IndInv, Wires, HandlerInv, Expectations, line \in 1 .. 14, Call
    PROVE  Expectations'
<1>1. TypeOK /\ Numbered /\ Handler \in Users /\ InStep
  BY AloneFacts DEF IndInv, Expectations
<1>2. /\ line' \in 1 .. 14 /\ Before(line') = line
      /\ line' = IF line = 14 THEN 1 ELSE line + 1
  BY NextLineFacts DEF Call
<1>3. /\ pc[Handler] = "idle" /\ pc'[Handler] = "get"
      /\ call'[Handler] = [kind |-> KindOf[Script[line]], filter |-> Topic,
                           receiver |-> ReceiverOf(Script[line]),
                           number |-> call[Handler].number + 1]
      /\ UNCHANGED <<list, session, connection, pending, toAgent, completed, queue, inHand>>
  BY <1>1 DEF Call, Begin, At, Goto, TypeOK, agent, network, ghost
<1>4. Script[line] \in DOMAIN KindOf /\ line \in {1, 2, 4, 5, 7, 8, 9, 12}
  BY Lines DEF Call
<1>5. InFlight = {} /\ InFlight' = {} /\ toAgent = <<>>
  <2>1. InFlight = {}
    BY <1>1, <1>3, OneFlight DEF Waiting
  <2>2. InFlight' = InFlight
    BY <1>3, QueuedSame DEF InFlight
  <2>. QED  BY <1>1, <2>1, <2>2, OneFlight
<1>6. ~Completed' /\ ~Answered'
  <2>1. call'[Handler].number = call[Handler].number + 1
    BY <1>3
  <2>2. call[Handler].number \in Nat
    BY <1>1, Queued
  <2>3. ~Completed'
    BY <1>1, <1>3, <2>1, <2>2, Queued DEF Numbered, Completed
  <2>4. DOMAIN toAgent' = {}
    BY <1>3, <1>5
  <2>. QED  BY <2>3, <2>4 DEF Answered
<1>7. Calling'
  BY <1>2, <1>4 DEF Calling
<1>8. Calling => Completed /\ Answered
  BY <1>1, <1>3 DEF InStep, Answered
<1>9. Subscriber(IF Answered THEN line ELSE Before(line)) = Subscriber(line)
      /\ Subscriber(IF Completed THEN line ELSE Before(line)) = Subscriber(line)
  <2>1. CASE Calling
    BY <1>8, <2>1
  <2>2. CASE ~Calling
    BY <2>2, PlacesInScript, Subscribers DEF Calling
  <2>. QED  BY <2>1, <2>2
<1>10. /\ pQueueItem = NoItem /\ pQueueItem' = NoItem
       /\ UNCHANGED <<box, reading, deliveries, complained>>
  BY <1>4 DEF Expectations, Messaging, Call, mail
<1>11. Script[line] = "publish" =>
           sent'[1] = sent[2] /\ sent'[2] = call'[Handler].number
  BY DEF Call, RememberSent, HandlerInv, DMTypeOK
<1>12. InStep'
  <2>1. /\ call'[Handler].kind = KindOf[Script[line]]
        /\ call'[Handler].filter = Topic
        /\ call'[Handler].receiver = ReceiverOf(Script[line])
    BY <1>3
  <2>. QED  BY <1>2, <1>3, <1>5, <1>7, <1>11, <2>1 DEF InStep
<1>13. Subscribed'
  BY <1>2, <1>3, <1>6, <1>9 DEF Expectations, Subscribed
<1>14. Messaging'
  <2>1. CASE line \in {1, 2, 4, 7, 12}
    <3>1. box = <<>> /\ deliveries = <<>>
      BY <2>1 DEF Expectations, Messaging
    <3>. QED  BY <1>2, <1>6, <1>10, <2>1, <3>1 DEF Expectations, Messaging
  <2>2. CASE line = 5
    <3>1. box = <<>> /\ deliveries = <<>>
      BY <2>2 DEF Expectations, Messaging
    <3>2. ~messageReceiveFlag'
      <4>1. Script[5] = "publish" /\ Script[6] = "expectNone"
        BY Lines
      <4>2. Checked
        BY <2>2, <4>1 DEF Checked
      <4>. QED  BY <4>2 DEF Call
    <3>. QED  BY <1>2, <1>6, <1>10, <2>2, <3>1, <3>2 DEF Expectations, Messaging
  <2>3. CASE line = 8
    <3>1. box = <<>> /\ deliveries = <<>>
      BY <2>3 DEF Expectations, Messaging
    <3>2. Underway' = <<>>
      BY <1>10, <3>1 DEF Underway
    <3>. QED  BY <1>2, <1>6, <1>10, <2>3, <3>2 DEF Expectations, Messaging
  <2>4. CASE line = 9
    <3>1. Underway = <<sent[2]>>
      BY <1>8, <2>4, PlacesInScript DEF Expectations, Messaging, Calling
    <3>2. Script[line] = "publish"
      BY <2>4, Lines
    <3>3. Underway' = <<sent'[1]>>
      BY <1>10, <1>11, <3>1, <3>2 DEF Underway
    <3>. QED  BY <1>2, <1>6, <1>10, <2>4, <3>3 DEF Expectations, Messaging
  <2>. QED  BY <1>4, <2>1, <2>2, <2>3, <2>4
<1>. QED  BY <1>10, <1>12, <1>13, <1>14 DEF Expectations

(* The statements that are not calls: nothing is in flight, and who is     *)
(* subscribed stays.                                                       *)
LEMMA StatementDone ==
    ASSUME Alone, IndInv, Wires, Expectations, line \in 1 .. 14, Ready,
           Script[line] \notin DOMAIN KindOf, NextLine, UNCHANGED vars
    PROVE  InStep' /\ Subscribed' /\ line' = IF line = 14 THEN 1 ELSE line + 1
<1>1. InStep /\ Subscribed /\ pc[Handler] = "idle"
  BY DEF Expectations, Ready, At
<1>2. UNCHANGED <<user, agent, network, ghost>>
  BY DEF vars
<1>3. /\ line' \in 1 .. 14 /\ Before(line') = line
      /\ line' = IF line = 14 THEN 1 ELSE line + 1
  BY NextLineFacts
<1>4. ~Calling'
  BY <1>3 DEF Calling
<1>5. InFlight' = {}
  <2>1. InQueue' = InQueue
    BY <1>2, QueuedSame DEF agent
  <2>2. InFlight' = InFlight
    BY <1>2, <2>1 DEF agent, InFlight
  <2>. QED  BY <1>1, <2>2, OneFlight DEF Waiting
<1>6. InStep'
  BY <1>1, <1>2, <1>4, <1>5 DEF InStep, user
<1>7. Subscriber(line') = Subscriber(Before(line'))
  BY <1>3, <1>4, PlacesInScript, Subscribers DEF Calling
<1>8. Subscriber(IF Answered THEN line ELSE Before(line)) = Subscriber(line)
      /\ Subscriber(IF Completed THEN line ELSE Before(line)) = Subscriber(line)
  <2>1. CASE Calling
    BY <1>1, <2>1 DEF InStep, Answered
  <2>2. CASE ~Calling
    BY <2>2, PlacesInScript, Subscribers DEF Calling
  <2>. QED  BY <2>1, <2>2
<1>9. /\ Subscriber(IF Answered' THEN line' ELSE Before(line')) = Subscriber(line)
      /\ Subscriber(IF Completed' THEN line' ELSE Before(line')) = Subscriber(line)
  BY <1>3, <1>7
<1>10. Subscribed'
  BY <1>1, <1>2, <1>8, <1>9 DEF Subscribed, agent, network
<1>. QED  BY <1>3, <1>6, <1>10

LEMMA ExpectSleep ==
    ASSUME Alone, IndInv, Wires, HandlerInv, Expectations, line \in 1 .. 14, ~disturbed',
           \/ Statement("expect") /\ Sleep(TRUE)
           \/ Statement("expectNone") /\ Sleep(FALSE)
    PROVE  Expectations'
<1>1. /\ Ready /\ NextLine /\ Quiet
      /\ UNCHANGED <<vars, messageReceiveFlag, pQueueItem, sent, mail, deliveries>>
  BY DEF Statement, Sleep, Disturb
<1>2. line \in {3, 6}
  BY Lines DEF Statement
<1>3. Script[line] \notin DOMAIN KindOf
  BY <1>2, Lines
<1>4. InStep' /\ Subscribed' /\ line' = line + 1
  BY <1>1, <1>2, <1>3, StatementDone
<1>5. /\ line = 3 => complained' = (complained \/ messageReceiveFlag # TRUE)
      /\ line = 6 => complained' = (complained \/ messageReceiveFlag # FALSE)
  <2>1. CASE Statement("expect") /\ Sleep(TRUE)
    <3>1. line = 3
      BY <2>1, Lines DEF Statement
    <3>. QED  BY <2>1, <3>1 DEF Sleep, Complain
  <2>2. CASE Statement("expectNone") /\ Sleep(FALSE)
    <3>1. line = 6
      BY <2>2, Lines DEF Statement
    <3>. QED  BY <2>2, <3>1 DEF Sleep, Complain
  <2>. QED  BY <2>1, <2>2
<1>6. messageReceiveFlag \in BOOLEAN /\ complained = FALSE
  <2>1. ~complained /\ complained \in BOOLEAN /\ messageReceiveFlag \in BOOLEAN
    BY Zenon DEF Expectations, HandlerInv, DMTypeOK
  <2>. QED  BY <2>1, Zenon
<1>7. CASE line = 3
  <2>1. Answered
    BY <1>1, <1>7, PlacesInScript DEF Expectations, InStep, Calling, Answered, Ready, At
  <2>2. messageReceiveFlag /\ box = <<>> /\ deliveries = <<>>
    BY <1>1, <1>7, <2>1 DEF Expectations, Messaging, Quiet
  <2>3. messageReceiveFlag = TRUE
    BY <1>6, <2>2, Zenon
  <2>4. ~complained'
    BY <1>5, <1>6, <1>7, <2>3, Zenon
  <2>5. Messaging'
    BY <1>1, <1>4, <1>7, <2>2 DEF Expectations, Messaging, mail
  <2>. QED  BY <1>4, <2>4, <2>5 DEF Expectations
<1>8. CASE line = 6
  <2>1. ~messageReceiveFlag /\ box = <<>> /\ deliveries = <<>>
    BY <1>8 DEF Expectations, Messaging
  <2>2. messageReceiveFlag = FALSE
    BY <1>6, <2>1, Zenon
  <2>3. ~complained'
    BY <1>5, <1>6, <1>8, <2>2, Zenon
  <2>4. Messaging'
    BY <1>1, <1>4, <1>8, <2>1 DEF Expectations, Messaging, mail
  <2>. QED  BY <1>4, <2>3, <2>4 DEF Expectations
<1>. QED  BY <1>2, <1>7, <1>8

(* Reading an item of the queue: it is the one the script expects.         *)
LEMMA ExpectTake ==
    ASSUME Alone, IndInv, Wires, HandlerInv, Expectations, line \in 1 .. 14, Take
    PROVE  Expectations'
<1>1. /\ line \in {10, 11} /\ pc[Handler] = "idle" /\ pQueueItem = NoItem /\ box # <<>>
      /\ pQueueItem' = FreePlace /\ Complain(~Expected(Head(box)))
      /\ mailbox!Read(FreePlace)
      /\ UNCHANGED <<user, agent, network, ghost>>
      /\ UNCHANGED <<line, messageReceiveFlag, sent, disturbed, deliveries>>
  BY Lines DEF Take, Statement, Ready, At, vars
<1>2. FreePlace \in Items /\ FreePlace # NoItem
  BY <1>1, FreePlaceIsFree DEF HandlerInv, Items, NoItem
<1>3. /\ box' = Tail(box) /\ reading' = [reading EXCEPT ![FreePlace] = Head(box)]
      /\ box \in Seq(Messages) /\ deliveries \in Seq(Messages)
      /\ reading \in [Items -> Messages \cup {NoMessage}]
  BY <1>1 DEF mailbox!Read, HandlerInv, DMTypeOK
<1>4. Head(box) = Head(Underway) /\ Underway' = Tail(Underway)
  BY <1>1, <1>3, UnderwayFacts DEF Underway
<1>5. \A i \in Items : reading'[i] # NoMessage => i = FreePlace
  BY <1>1, <1>2, <1>3 DEF Expectations, Messaging, Items, NoItem
<1>6. /\ Completed' <=> Completed
      /\ Answered' <=> Answered
      /\ Calling' <=> Calling
  BY <1>1 DEF Completed, Answered, Calling, user, ghost, network
<1>7. InStep' /\ Subscribed'
  <2>1. InQueue' = InQueue
    BY <1>1, QueuedSame DEF agent
  <2>2. InFlight' = InFlight
    BY <1>1, <2>1 DEF agent, InFlight
  <2>3. InStep'
    BY <1>1, <1>6, <2>2 DEF Expectations, InStep, user, agent
  <2>4. Subscribed'
    BY <1>1, <1>6 DEF Expectations, Subscribed, agent, network
  <2>. QED  BY <2>3, <2>4
<1>8. CASE line = 10
  <2>1. Answered
    BY <1>1, <1>8, PlacesInScript DEF Expectations, InStep, Calling, Answered
  <2>2. Underway = <<sent[1], sent[2]>>
    BY <1>1, <1>8, <2>1 DEF Expectations, Messaging
  <2>3. Head(box) = sent[1] /\ Underway' = <<sent[2]>>
    BY <1>4, <2>2, PairFacts
  <2>4. Expected(Head(box))
    BY <1>8, <2>3, Lines DEF Expected
  <2>5. ~complained'
    BY <1>1, <2>4 DEF Expectations, Complain
  <2>6. Messaging'
    BY <1>1, <1>2, <1>5, <1>8, <2>3 DEF Messaging, user
  <2>. QED  BY <1>7, <2>5, <2>6 DEF Expectations
<1>9. CASE line = 11
  <2>1. Underway = <<sent[2]>>
    BY <1>1, <1>9 DEF Expectations, Messaging
  <2>2. Head(box) = sent[2] /\ Underway' = <<>>
    BY <1>4, <2>1, PairFacts
  <2>3. Expected(Head(box))
    <3>1. Script[line + 1] # "take"
      BY <1>9, Lines
    <3>. QED  BY <2>2, <3>1 DEF Expected
  <2>4. ~complained'
    BY <1>1, <2>3 DEF Expectations, Complain
  <2>5. Messaging'
    BY <1>1, <1>2, <1>5, <1>9, <2>2 DEF Messaging, user
  <2>. QED  BY <1>7, <2>4, <2>5 DEF Expectations
<1>. QED  BY <1>1, <1>8, <1>9

LEMMA NothingToTake ==
    ASSUME Alone, Expectations, line \in 1 .. 14, TakeNothing, ~disturbed'
    PROVE  FALSE
<1>1. /\ line \in {10, 11} /\ pc[Handler] = "idle" /\ pQueueItem = NoItem /\ box = <<>>
      /\ deliveries = <<>>
  BY Lines DEF TakeNothing, Statement, Ready, At, Disturb, Quiet
<1>2. Underway = <<>>
  BY <1>1 DEF Underway
<1>3. line = 10 => Answered
  BY <1>1, PlacesInScript DEF Expectations, InStep, Calling, Answered
<1>4. Underway = <<sent[1], sent[2]>> \/ Underway = <<sent[2]>>
  BY <1>1, <1>3 DEF Expectations, Messaging
<1>5. Len(Underway) = 0 /\ (Len(Underway) = 1 \/ Len(Underway) = 2)
  BY <1>2, <1>4, LenFacts, Zenon
<1>. QED  BY <1>5

LEMMA ExpectGiveBack ==
    ASSUME Alone, IndInv, Wires, HandlerInv, Expectations, line \in 1 .. 14, GiveBack
    PROVE  Expectations'
<1>1. /\ Ready /\ line \in {10, 11} /\ pQueueItem # NoItem /\ pQueueItem' = NoItem
      /\ NextLine /\ mailbox!GiveBack(pQueueItem)
      /\ UNCHANGED <<vars, messageReceiveFlag, sent, complained, disturbed, deliveries>>
  BY Lines DEF GiveBack, Statement
<1>2. Script[line] \notin DOMAIN KindOf
  BY <1>1, Lines
<1>3. InStep' /\ Subscribed' /\ line' = line + 1
  BY <1>1, <1>2, StatementDone
<1>4. box' = box /\ reading' = [reading EXCEPT ![pQueueItem] = NoMessage]
      /\ box \in Seq(Messages) /\ deliveries \in Seq(Messages)
      /\ reading \in [Items -> Messages \cup {NoMessage}]
  BY <1>1 DEF mailbox!GiveBack, HandlerInv, DMTypeOK
<1>5. \A i \in Items : reading'[i] = NoMessage
  BY <1>4 DEF Expectations, Messaging
<1>6. Underway' = Underway
  BY <1>1, <1>4 DEF Underway
<1>7. CASE line = 10
  <2>1. Underway' = <<sent'[2]>>
    BY <1>1, <1>6, <1>7 DEF Expectations, Messaging
  <2>2. Messaging'
    BY <1>1, <1>3, <1>5, <1>7, <2>1 DEF Messaging
  <2>. QED  BY <1>1, <1>3, <2>2 DEF Expectations
<1>8. CASE line = 11
  <2>1. Underway = <<>>
    BY <1>1, <1>8 DEF Expectations, Messaging
  <2>2. box = <<>> /\ deliveries = <<>>
    BY <1>4, <2>1, UnderwayFacts DEF Underway
  <2>3. Messaging'
    BY <1>1, <1>3, <1>4, <1>5, <1>8, <2>2 DEF Messaging
  <2>. QED  BY <1>1, <1>3, <2>3 DEF Expectations
<1>. QED  BY <1>1, <1>7, <1>8

LEMMA ExpectTakeNone ==
    ASSUME Alone, IndInv, Wires, HandlerInv, Expectations, line \in 1 .. 14, TakeNone
    PROVE  Expectations'
<1>1. /\ Ready /\ line \in {13, 14} /\ NextLine /\ Complain(box # <<>>)
      /\ UNCHANGED <<vars, messageReceiveFlag, pQueueItem, sent, disturbed, deliveries>>
  BY Lines DEF TakeNone, Statement
<1>2. box = <<>> /\ deliveries = <<>>
  BY <1>1 DEF Expectations, Messaging
<1>3. UNCHANGED mail /\ ~complained'
  BY <1>1, <1>2 DEF TakeNone, Expectations, Complain
<1>4. Script[line] \notin DOMAIN KindOf
  BY <1>1, Lines
<1>5. InStep' /\ Subscribed' /\ line' = IF line = 14 THEN 1 ELSE line + 1
  BY <1>1, <1>4, StatementDone
<1>6. pQueueItem = NoItem
  BY <1>1 DEF Expectations, Messaging
<1>7. Messaging'
  BY <1>1, <1>2, <1>3, <1>5, <1>6 DEF Expectations, Messaging, mail
<1>. QED  BY <1>3, <1>5, <1>7 DEF Expectations

-----------------------------------------------------------------------------
DMInv == IndInv /\ Wires /\ HandlerInv /\ Undisturbed

LEMMA DMInitInv == Alone /\ DMInit => DMInv
<1>. SUFFICES ASSUME Alone, DMInit PROVE DMInv
  OBVIOUS
<1>1. Init /\ IndInv /\ Wires
  BY InitInv, WiresInit DEF DMInit
<1>2. /\ box = <<>> /\ deliveries = <<>> /\ reading = [r \in Items |-> NoMessage]
      /\ last = "none" /\ line = 1 /\ messageReceiveFlag = FALSE /\ pQueueItem = NoItem
      /\ sent = [i \in 1 .. 2 |-> 0] /\ complained = FALSE /\ disturbed = FALSE
  BY DEF DMInit, mailbox!Init
<1>3. InFlight = {} /\ toAgent = <<>> /\ session = {} /\ pending = {}
      /\ completed = [u \in Users |-> {}] /\ list = EmptyList
      /\ pc = [u \in Users |-> "idle"] /\ Handler \in Users
  <2>1. InQueue = {}
    BY <1>1 DEF Init, InQueue
  <2>. QED  BY <1>1, <2>1, AloneFacts DEF Init, InFlight
<1>4. Taken(reading) = {}
  BY <1>2 DEF Taken
<1>5. Cardinality(Taken(reading)) = 0
  BY <1>4, FS_EmptySet
<1>6. Len(box) = 0 /\ box \in Seq(Messages) /\ deliveries \in Seq(Messages)
  BY <1>2
<1>7. HandlerInv
  <2>1. messageReceiveFlag \in BOOLEAN /\ complained \in BOOLEAN /\ disturbed \in BOOLEAN
    BY <1>2, Zenon
  <2>2. sent \in [1 .. 2 -> CallNumbers]
    BY <1>2, BoundAssumption DEF CallNumbers
  <2>3. DMTypeOK
    BY <1>1, <1>2, <1>6, <2>1, <2>2, Lines, QueueSizeAssumption DEF DMTypeOK, IndInv
  <2>4. Positive
    BY <1>3 DEF Positive
  <2>5. Fits
    BY <1>5, <1>6, QueueSizeAssumption DEF Fits
  <2>. QED  BY <2>3, <2>4, <2>5 DEF HandlerInv
<1>8. ~Calling
  BY <1>2, PlacesInScript DEF Calling
<1>9. InStep
  BY <1>3, <1>8 DEF InStep
<1>10. Subscribed
  <2>1. Subscriber(line) = {} /\ Subscriber(Before(line)) = {}
    BY <1>2, Subscribers
  <2>2. Entries(list) = {}
    BY <1>3 DEF Entries, EmptyList, FreeSlots
  <2>. QED  BY <1>3, <2>1, <2>2 DEF Subscribed, EntriesOf
<1>11. Messaging
  BY <1>2 DEF Messaging, NoItem
<1>. QED  BY <1>1, <1>2, <1>7, <1>9, <1>10, <1>11 DEF DMInv, Undisturbed, Expectations

(* Once disturbed, for good.                                               *)
LEMMA DisturbedForGood ==
    ASSUME [DMNext]_dmVars, ~disturbed'
    PROVE  ~disturbed
<1>1. CASE HandlerStep
  BY <1>1 DEF HandlerStep, Call, Sleep, Take, TakeNothing, GiveBack, TakeNone, Disturb
<1>2. CASE CallSteps(Handler) \/ AgentSteps
  BY <1>2 DEF CallSteps, AgentSteps, Disturb
<1>3. CASE Deliver \/ Broker \/ Lost \/ UNCHANGED dmVars
  BY <1>3 DEF Deliver, Broker, Lost, Disturb, handler, dmVars
<1>. QED  BY <1>1, <1>2, <1>3 DEF DMNext

LEMMA UndisturbedStep ==
    ASSUME Alone, DMInv, [DMNext]_dmVars
    PROVE  Undisturbed'
<1>. SUFFICES ASSUME ~disturbed' PROVE Expectations'
  BY DEF Undisturbed
<1>1. IndInv /\ Wires /\ HandlerInv /\ Expectations /\ line \in 1 .. 14
  BY DisturbedForGood, Lines DEF DMInv, Undisturbed, HandlerInv, DMTypeOK
<1>2. CASE Call
  BY <1>1, <1>2, ExpectCall
<1>3. CASE \/ Statement("expect") /\ Sleep(TRUE)
           \/ Statement("expectNone") /\ Sleep(FALSE)
  BY <1>1, <1>3, ExpectSleep
<1>4. CASE Take
  BY <1>1, <1>4, ExpectTake
<1>5. CASE TakeNothing
  BY <1>1, <1>5, NothingToTake
<1>6. CASE GiveBack
  BY <1>1, <1>6, ExpectGiveBack
<1>7. CASE TakeNone
  BY <1>1, <1>7, ExpectTakeNone
<1>8. CASE CallSteps(Handler) /\ HandlerKept
  BY <1>1, <1>8, ExpectCallSteps
<1>9. CASE AgentSteps /\ HandlerKept
  BY <1>1, <1>9, ExpectAgentSteps
<1>10. CASE Deliver
  BY <1>1, <1>10, ExpectDeliver
<1>11. CASE Broker
  BY <1>1, <1>11, ExpectBroker
<1>12. CASE Lost
  BY <1>12 DEF Lost, Disturb
<1>13. CASE UNCHANGED dmVars
  <2>1. /\ HandlerKept
        /\ UNCHANGED <<session, list, toAgent, completed, call, pc, connection, pending>>
        /\ UNCHANGED <<queue, inHand, contents>>
    BY <1>13 DEF dmVars, vars, user, agent, network, ghost, handler, HandlerKept
  <2>2. InFlight' = InFlight
    BY <2>1, QueuedSame DEF InFlight
  <2>. QED  BY <1>1, <2>1, <2>2, SameExpectations DEF Expectations, InStep, Subscribed
<1>. QED  BY <1>2, <1>3, <1>4, <1>5, <1>6, <1>7, <1>8, <1>9, <1>10, <1>11, <1>12, <1>13
          DEF DMNext, HandlerStep

LEMMA DMInvariance == ASSUME Alone PROVE DMSpec => []DMInv
<1>1. DMInit => DMInv
  BY DMInitInv
<1>2. DMInv /\ [DMNext]_dmVars => DMInv'
  <2>. SUFFICES ASSUME DMInv, [DMNext]_dmVars PROVE DMInv'
    OBVIOUS
  <2>1. IndInv' /\ Wires'
    BY DMIndStep DEF DMInv
  <2>2. DMTypeOK' /\ Fits'
    BY <2>1, HandlerTypeStep DEF DMInv, IndInv
  <2>3. Positive'
    BY PositiveStep DEF DMInv, HandlerInv
  <2>. QED  BY <2>1, <2>2, <2>3, UndisturbedStep DEF DMInv, HandlerInv
<1>. QED  BY <1>1, <1>2, PTL DEF DMSpec

(* The types of the composition hold, for any number of calls and losses.  *)
THEOREM HandlerTypes == Alone => (DMSpec => []DMTypeOK)
<1>. SUFFICES ASSUME Alone PROVE DMSpec => []DMTypeOK
  OBVIOUS
<1>1. DMInv => DMTypeOK
  BY DEF DMInv, HandlerInv
<1>2. DMSpec => []DMInv
  BY DMInvariance
<1>. QED  BY <1>1, <1>2, PTL

(* A handler that nothing disturbs receives by its callback what it        *)
(* published while subscribed and nothing else, and from its queue its two *)
(* publishes, in order and once: no check of its loop fails and it never   *)
(* reads a null item, in however many rounds (main.c:123-189).             *)
THEOREM HandlerSucceeds == Alone => (DMSpec => []ChecksPass)
<1>. SUFFICES ASSUME Alone PROVE DMSpec => []ChecksPass
  OBVIOUS
<1>1. DMInv => ChecksPass
  BY DEF DMInv, Undisturbed, Expectations, ChecksPass
<1>2. DMSpec => []DMInv
  BY DMInvariance
<1>. QED  BY <1>1, <1>2, PTL

(* An item is either read or given back, or a check has failed.            *)
Accounted == \A i \in Items : reading[i] # NoMessage => i = pQueueItem \/ complained

LEMMA AccountedStep ==
    ASSUME DMTypeOK, Accounted, [DMNext]_dmVars
    PROVE  Accounted'
<1>. USE DEF Accounted
<1>1. reading \in [Items -> Messages \cup {NoMessage}] /\ NoItem \notin Items
  BY DEF DMTypeOK, Items, NoItem
<1>2. ASSUME reading' = reading, pQueueItem' = pQueueItem, complained => complained'
      PROVE  Accounted'
  BY <1>2
<1>3. CASE Take
  <2>1. /\ pQueueItem = NoItem /\ pQueueItem' = FreePlace
        /\ reading' = [reading EXCEPT ![FreePlace] = Head(box)]
        /\ complained => complained'
    BY <1>3 DEF Take, mailbox!Read, Complain
  <2>. QED  BY <1>1, <2>1
<1>4. CASE GiveBack
  <2>1. /\ reading' = [reading EXCEPT ![pQueueItem] = NoMessage]
        /\ complained' = complained
    BY <1>4 DEF GiveBack, mailbox!GiveBack
  <2>. QED  BY <1>1, <2>1
<1>5. CASE TakeNone
  <2>1. CASE box = <<>>
    BY <1>2, <1>5, <2>1 DEF TakeNone, Complain, mail
  <2>2. CASE box # <<>>
    BY <1>5, <2>2 DEF TakeNone, Complain
  <2>. QED  BY <2>1, <2>2
<1>6. CASE \/ Call \/ TakeNothing
           \/ \E expected \in BOOLEAN : Sleep(expected)
  BY <1>2, <1>6 DEF Call, TakeNothing, Sleep, Complain, mail
<1>7. CASE (CallSteps(Handler) \/ AgentSteps) /\ HandlerKept
  BY <1>2, <1>7 DEF HandlerKept, mail
<1>8. CASE Deliver
  BY <1>2, <1>8 DEF Deliver, Routed, mailbox!Accept, mailbox!Refuse, mail
<1>9. CASE Broker \/ Lost \/ UNCHANGED dmVars
  <2>1. reading' = reading /\ pQueueItem' = pQueueItem /\ complained' = complained
    BY <1>9 DEF Broker, Lost, handler, mail, dmVars
  <2>. QED  BY <1>2, <2>1
<1>. QED  BY <1>3, <1>4, <1>5, <1>6, <1>7, <1>8, <1>9 DEF DMNext, HandlerStep

(* No publish waits when a round of an undisturbed handler ends, and an    *)
(* item is lost only when a check of the handler has failed.               *)
THEOREM ItemsReturn == Alone => (DMSpec => []ItemsComeBack)
<1>. SUFFICES ASSUME Alone PROVE DMSpec => []ItemsComeBack
  OBVIOUS
<1>1. DMInv /\ Accounted => ItemsComeBack
  <2>. SUFFICES ASSUME DMInv, Accounted, line = 1, ~disturbed
                PROVE  box = <<>>
    BY DEF ItemsComeBack, Accounted
  <2>. QED  BY DEF DMInv, Undisturbed, Expectations, Messaging
<1>2. DMSpec => []DMInv
  BY DMInvariance
<1>3. DMInit => Accounted
  BY DEF DMInit, mailbox!Init, Accounted
<1>4. DMInv /\ Accounted /\ [DMNext]_dmVars => Accounted'
  BY AccountedStep DEF DMInv, HandlerInv
<1>. QED  BY <1>1, <1>2, <1>3, <1>4, PTL DEF DMSpec
=============================================================================

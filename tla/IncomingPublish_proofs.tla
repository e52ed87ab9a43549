------------------------ MODULE IncomingPublish_proofs ------------------------
(***************************************************************************)
(* Proofs about IncomingPublish, for any number of items and readers, and  *)
(* any messages.                                                           *)
(***************************************************************************)
EXTENDS IncomingPublish, FiniteSetTheorems, FunctionTheorems, SequenceTheorems, TLAPS

(* Queues as sequences: the elements in one, and the changes that Append   *)
(* and Tail make to them.                                                  *)
LEMMA RangeAppend ==
    ASSUME NEW S, NEW s \in Seq(S), NEW e \in S
    PROVE  Range(Append(s, e)) = Range(s) \cup {e}
<1>. DEFINE t == Append(s, e)
<1>1. /\ t \in Seq(S) /\ Len(t) = Len(s) + 1 /\ t[Len(s) + 1] = e
      /\ \A i \in 1 .. Len(s) : t[i] = s[i]
  BY AppendProperties
<1>2. DOMAIN t = 1 .. Len(s) + 1 /\ DOMAIN s = 1 .. Len(s) /\ Len(s) \in Nat
  BY <1>1, LenProperties
<1>. HIDE DEF t
<1>3. Range(t) = Range(s) \cup {e}
  BY <1>1, <1>2 DEF Range
<1>. QED  BY <1>3 DEF t

LEMMA InjectiveAppend ==
    ASSUME NEW S, NEW s \in Seq(S), NEW e \in S,
           \A i, j \in DOMAIN s : s[i] = s[j] => i = j,
           e \notin Range(s)
    PROVE  \A i, j \in DOMAIN Append(s, e) :
               Append(s, e)[i] = Append(s, e)[j] => i = j
<1>. DEFINE t == Append(s, e)
<1>1. /\ t \in Seq(S) /\ Len(t) = Len(s) + 1 /\ t[Len(s) + 1] = e
      /\ \A i \in 1 .. Len(s) : t[i] = s[i]
  BY AppendProperties
<1>2. DOMAIN t = 1 .. Len(s) + 1 /\ DOMAIN s = 1 .. Len(s) /\ Len(s) \in Nat
  BY <1>1, LenProperties
<1>. HIDE DEF t
<1>3. \A i, j \in DOMAIN t : t[i] = t[j] => i = j
  BY <1>1, <1>2 DEF Range
<1>. QED  BY <1>3 DEF t

(* Taking the head of a queue without repetition takes it out.             *)
LEMMA RangeTail ==
    ASSUME NEW S, NEW s \in Seq(S), s # <<>>,
           \A i, j \in DOMAIN s : s[i] = s[j] => i = j
    PROVE  /\ Head(s) \in Range(s)
           /\ Range(Tail(s)) = Range(s) \ {Head(s)}
           /\ \A i, j \in DOMAIN Tail(s) : Tail(s)[i] = Tail(s)[j] => i = j
<1>. DEFINE t == Tail(s)
<1>1. /\ t \in Seq(S) /\ Len(t) = Len(s) - 1
      /\ \A i \in 1 .. Len(t) : t[i] = s[i + 1]
  BY HeadTailProperties
<1>2. DOMAIN t = 1 .. Len(t) /\ DOMAIN s = 1 .. Len(s) /\ Len(s) \in Nat \ {0}
  BY <1>1, LenProperties, EmptySeq
<1>3. Head(s) = s[1]
  OBVIOUS
<1>4. \A i \in 2 .. Len(s) : i - 1 \in 1 .. Len(t) /\ t[i - 1] = s[i]
  BY <1>1, <1>2
<1>. HIDE DEF t
<1>5. Range(t) = Range(s) \ {s[1]}
  <2>1. ASSUME NEW x \in Range(t)
        PROVE  x \in Range(s) \ {s[1]}
    BY <2>1, <1>1, <1>2 DEF Range
  <2>2. ASSUME NEW x \in Range(s) \ {s[1]}
        PROVE  x \in Range(t)
    <3>1. PICK i \in 2 .. Len(s) : x = s[i]
      BY <1>2 DEF Range
    <3>. QED  BY <1>2, <1>4, <3>1 DEF Range
  <2>. QED  BY <2>1, <2>2
<1>6. \A i, j \in DOMAIN t : t[i] = t[j] => i = j
  BY <1>1, <1>2
<1>7. s[1] \in Range(s)
  BY <1>2 DEF Range
<1>. QED  BY <1>3, <1>5, <1>6, <1>7, Zenon DEF t

(* A queue without repetition is as long as it has elements.               *)
LEMMA LengthIsCardinality ==
    ASSUME NEW S, NEW s \in Seq(S),
           \A i, j \in DOMAIN s : s[i] = s[j] => i = j
    PROVE  IsFiniteSet(Range(s)) /\ Cardinality(Range(s)) = Len(s)
<1>1. s \in [1 .. Len(s) -> S] /\ DOMAIN s = 1 .. Len(s) /\ Len(s) \in Nat
  BY LenProperties
<1>2. s \in Bijection(1 .. Len(s), Range(s))
  <2>1. s \in [1 .. Len(s) -> Range(s)]
    BY <1>1 DEF Range
  <2>2. \A t \in Range(s) : \E i \in 1 .. Len(s) : s[i] = t
    BY <1>1 DEF Range
  <2>. QED  BY <1>1, <2>1, <2>2, Fun_IsBij
<1>3. ExistsBijection(1 .. Len(s), Range(s))
  BY <1>2 DEF ExistsBijection
<1>4. IsFiniteSet(1 .. Len(s)) /\ Cardinality(1 .. Len(s)) = Len(s)
  <2>1. 1 \in Int /\ Len(s) \in Int
    BY <1>1
  <2>2. Cardinality(1 .. Len(s)) = IF 1 > Len(s) THEN 0 ELSE Len(s) - 1 + 1
    BY <2>1, FS_Interval
  <2>. QED  BY <1>1, <2>1, <2>2, FS_Interval
<1>. QED  BY <1>3, <1>4, FS_Bijection

Held == {readerItem[r] : r \in Readers} \ {NoItem}

(* Every item that is on its way to a reader, or read, carries a publish,  *)
(* and the agent has one in hand while it is in the callback.              *)
Filled ==
    /\ \A q \in Elements(incoming) \cup Held : publishInfo[q] # NoMessage
    /\ publish \in Messages <=> agentPc # "idle"
    /\ agentPc = "enqueue" => publishInfo[agentItem] = publish

IndInv == TypeOK /\ ItemsConserved /\ BuffersFit /\ Filled

-----------------------------------------------------------------------------
(* Len is at most Size wherever an item is still to come.                  *)
LEMMA ElementsRange ==
    ASSUME NEW s \in Seq(QueueItems)
    PROVE  Elements(s) = Range(s) /\ Elements(s) \in SUBSET QueueItems
<1>1. Elements(s) = Range(s)
  BY DEF Elements, Range
<1>. QED  BY <1>1, RangeOfSeq

LEMMA SizeType == Size \in Nat
BY ItemsAssumption, FS_CardinalityType DEF Size

LEMMA RoomFor ==
    ASSUME NEW s \in Seq(QueueItems), NoRepetition(s),
           NEW q \in QueueItems, q \notin Elements(s)
    PROVE  /\ Len(s) < Size
           /\ Push(s, q) = Append(s, q)
           /\ Push(s, q) \in Seq(QueueItems) /\ Len(Push(s, q)) <= Size
           /\ Elements(Push(s, q)) = Elements(s) \cup {q}
           /\ NoRepetition(Push(s, q))
<1>1. Elements(s) \in SUBSET QueueItems /\ Elements(s) = Range(s)
  BY ElementsRange
<1>2. Cardinality(Elements(s)) = Len(s)
  BY <1>1, LengthIsCardinality DEF NoRepetition
<1>3. Len(s) < Size
  BY <1>1, <1>2, SizeType, FS_Subset, FS_CardinalityType, ItemsAssumption DEF Size
<1>4. Push(s, q) = Append(s, q)
  BY <1>3 DEF Push
<1>5. Append(s, q) \in Seq(QueueItems) /\ Len(Append(s, q)) <= Size
  BY <1>3, SizeType, AppendProperties, LenProperties
<1>6. Elements(Append(s, q)) = Elements(s) \cup {q}
  <2>1. Elements(Append(s, q)) = Range(Append(s, q))
    BY <1>5, ElementsRange
  <2>2. Range(Append(s, q)) = Range(s) \cup {q}
    BY RangeAppend
  <2>. QED  BY <1>1, <2>1, <2>2
<1>7. NoRepetition(Append(s, q))
  BY <1>1, InjectiveAppend DEF NoRepetition
<1>. QED  BY <1>3, <1>4, <1>5, <1>6, <1>7

LEMMA TakeHead ==
    ASSUME NEW s \in Seq(QueueItems), NoRepetition(s), s # <<>>, Len(s) <= Size
    PROVE  /\ Head(s) \in Elements(s)
           /\ Tail(s) \in Seq(QueueItems) /\ Len(Tail(s)) <= Size
           /\ Elements(Tail(s)) = Elements(s) \ {Head(s)}
           /\ NoRepetition(Tail(s))
<1>1. Tail(s) \in Seq(QueueItems) /\ Len(Tail(s)) <= Size
  BY SizeType, HeadTailProperties, LenProperties
<1>2. Elements(s) = Range(s) /\ Elements(Tail(s)) = Range(Tail(s))
  BY <1>1, ElementsRange
<1>. QED  BY <1>1, <1>2, RangeTail DEF NoRepetition

LEMMA InitInv == Init => IndInv
<1>. SUFFICES ASSUME Init PROVE IndInv
  OBVIOUS
<1>. USE ItemsAssumption, MessagesAssumption, SizeType
<1>1. /\ freeItems \in [1 .. Size -> QueueItems]
      /\ \A i, j \in 1 .. Size : freeItems[i] = freeItems[j] => i = j
  BY DEF Init
<1>2. freeItems \in Seq(QueueItems) /\ Len(freeItems) = Size
  <2>1. freeItems \in Seq(QueueItems)
    <3>1. Size \in Nat
      BY SizeType
    <3>2. freeItems \in UNION {[1 .. n -> QueueItems] : n \in Nat}
      BY <1>1, <3>1
    <3>. QED  BY <3>2, SeqDef, Zenon
  <2>. QED  BY <1>1, <2>1, LenProperties
<1>3. NoRepetition(freeItems)
  BY <1>1 DEF NoRepetition
<1>4. Elements(freeItems) = QueueItems
  <2>1. Cardinality(Elements(freeItems)) = Cardinality(QueueItems)
    BY <1>2, <1>3, ElementsRange, LengthIsCardinality DEF NoRepetition, Size
  <2>. QED  BY <1>2, <2>1, ElementsRange, FS_Subset
<1>5. Elements(incoming) = {} /\ NoRepetition(incoming)
  BY DEF Init, Elements, NoRepetition
<1>6. incoming \in Seq(QueueItems) /\ Len(incoming) <= Size
  BY EmptySeq DEF Init
<1>7. TypeOK
  BY <1>2, <1>6 DEF Init, TypeOK
<1>8. ItemsConserved
  BY <1>3, <1>4, <1>5 DEF Init, ItemsConserved
<1>9. BuffersFit /\ Filled
  BY <1>5 DEF Init, BuffersFit, Filled, Held
<1>. QED  BY <1>7, <1>8, <1>9 DEF IndInv

-----------------------------------------------------------------------------
LEMMA TakeFreeStep ==
    ASSUME IndInv, TakeFree
    PROVE  IndInv'
<1>. USE ItemsAssumption DEF IndInv
<1>1. /\ Head(freeItems) \in Elements(freeItems)
      /\ freeItems' \in Seq(QueueItems) /\ Len(freeItems') <= Size
      /\ Elements(freeItems)' = Elements(freeItems) \ {Head(freeItems)}
      /\ NoRepetition(freeItems)'
  <2>1. freeItems \in Seq(QueueItems) /\ NoRepetition(freeItems) /\ freeItems # <<>>
        /\ Len(freeItems) <= Size /\ freeItems' = Tail(freeItems)
    BY DEF TakeFree, TypeOK, ItemsConserved
  <2>. DEFINE t == Tail(freeItems)
  <2>2. /\ Head(freeItems) \in Elements(freeItems)
        /\ t \in Seq(QueueItems) /\ Len(t) <= Size
        /\ Elements(t) = Elements(freeItems) \ {Head(freeItems)} /\ NoRepetition(t)
    BY <2>1, TakeHead
  <2>3. freeItems' = t
    BY <2>1
  <2>. HIDE DEF t
  <2>4. Elements(freeItems)' = Elements(t) /\ NoRepetition(freeItems)' = NoRepetition(t)
    BY <2>3 DEF Elements, NoRepetition
  <2>. QED  BY <2>2, <2>3, <2>4
<1>. DEFINE h == Head(freeItems)
<1>2. h \in QueueItems /\ h # NoItem
  BY <1>1, ElementsRange DEF TypeOK
<1>3. /\ agentItem' = h /\ agentItem = NoItem /\ agentPc = "take" /\ agentPc' = "fill"
      /\ UNCHANGED <<incoming, bufferSize, allocated, publishInfo, publish,
                     readerItem, last>>
  BY DEF TakeFree, TypeOK
<1>. HIDE DEF h
<1>4. h \in Elements(freeItems) /\ Elements(freeItems)' = Elements(freeItems) \ {h}
  BY <1>1 DEF h
<1>5. Elements(incoming)' = Elements(incoming) /\ NoRepetition(incoming)'
  BY <1>3 DEF Elements, NoRepetition, ItemsConserved
<1>6. TypeOK'
  BY <1>1, <1>2, <1>3 DEF TypeOK
<1>7. ItemsConserved'
  BY <1>1, <1>2, <1>3, <1>4, <1>5 DEF ItemsConserved
<1>8. BuffersFit' /\ Filled'
  BY <1>3, <1>5 DEF BuffersFit, Filled, Held
<1>. QED  BY <1>6, <1>7, <1>8

LEMMA FillStep ==
    ASSUME IndInv, Fill
    PROVE  IndInv'
<1>. USE ItemsAssumption DEF IndInv
<1>. DEFINE q == agentItem
<1>1. /\ q \in QueueItems /\ q # NoItem /\ publish \in Messages
      /\ agentPc' = "enqueue" /\ publish # NoMessage
      /\ UNCHANGED <<freeItems, incoming, publish, agentItem, readerItem, last>>
  BY MessagesAssumption DEF Fill, TypeOK, Filled
<1>2. \A p \in QueueItems : publishInfo'[p] = IF p = q THEN publish ELSE publishInfo[p]
  BY DEF Fill, TypeOK
<1>3. Required[publish] \in Nat
  BY <1>1, MessagesAssumption
<1>4. /\ bufferSize' \in [QueueItems -> Nat] /\ allocated' \in [QueueItems -> Nat]
      /\ \A p \in QueueItems \ {q} : bufferSize'[p] = bufferSize[p]
                                   /\ allocated'[p] = allocated[p]
      /\ bufferSize'[q] = allocated'[q] /\ allocated'[q] >= Required[publish]
  <2>1. bufferSize[q] = allocated[q] /\ allocated[q] \in Nat
    BY <1>1 DEF TypeOK, BuffersFit
  <2>2. CASE Reusable(q, publish)
    BY <1>1, <1>3, <2>1, <2>2 DEF Fill, Reusable, TypeOK
  <2>3. CASE ~Reusable(q, publish)
    <3>1. /\ bufferSize' = [bufferSize EXCEPT ![q] = Required[publish]]
          /\ allocated' = [allocated EXCEPT ![q] = Required[publish]]
      BY <2>3 DEF Fill
    <3>2. bufferSize \in [QueueItems -> Nat] /\ allocated \in [QueueItems -> Nat]
      BY DEF TypeOK
    <3>. QED  BY <1>1, <1>3, <3>1, <3>2
  <2>. QED  BY <2>2, <2>3
<1>. HIDE DEF q
<1>5. /\ Elements(incoming)' = Elements(incoming) /\ NoRepetition(incoming)'
      /\ Elements(freeItems)' = Elements(freeItems) /\ NoRepetition(freeItems)'
  BY <1>1 DEF Elements, NoRepetition, ItemsConserved
<1>6. TypeOK'
  <2>1. publishInfo' \in [QueueItems -> Messages \cup {NoMessage}]
    BY <1>1 DEF Fill, TypeOK
  <2>. QED  BY <1>1, <1>4, <2>1 DEF TypeOK, q
<1>7. ItemsConserved'
  BY <1>1, <1>5 DEF ItemsConserved
<1>8. BuffersFit'
  BY <1>2, <1>4 DEF BuffersFit
<1>9. Filled'
  <2>1. \A p \in Elements(incoming) \cup Held : p \in QueueItems
    BY ElementsRange DEF TypeOK, Held
  <2>. QED  BY <1>1, <1>2, <1>5, <2>1 DEF Filled, Held, q
<1>. QED  BY <1>6, <1>7, <1>8, <1>9

LEMMA EnqueueStep ==
    ASSUME IndInv, Enqueue
    PROVE  IndInv' /\ incoming' = Append(incoming, agentItem)
<1>. USE ItemsAssumption DEF IndInv
<1>. DEFINE q == agentItem
<1>1. /\ q \in QueueItems /\ q # NoItem /\ publish \in Messages
      /\ agentPc = "enqueue" /\ agentPc' = "idle" /\ publishInfo[q] = publish
      /\ agentItem' = NoItem /\ publish' = NoMessage /\ last' = "accepted"
      /\ UNCHANGED <<freeItems, bufferSize, allocated, publishInfo, readerItem>>
  BY DEF Enqueue, TypeOK, Filled
<1>2. /\ incoming' = Append(incoming, q)
      /\ incoming' \in Seq(QueueItems) /\ Len(incoming') <= Size
      /\ Elements(incoming)' = Elements(incoming) \cup {q}
      /\ NoRepetition(incoming)'
  <2>1. incoming' = Push(incoming, q)
    BY DEF Enqueue
  <2>2. incoming \in Seq(QueueItems) /\ NoRepetition(incoming) /\ q \notin Elements(incoming)
    BY DEF TypeOK, ItemsConserved
  <2>. HIDE DEF q
  <2>3. /\ Push(incoming, q) = Append(incoming, q)
        /\ Push(incoming, q) \in Seq(QueueItems) /\ Len(Push(incoming, q)) <= Size
        /\ Elements(Push(incoming, q)) = Elements(incoming) \cup {q}
        /\ NoRepetition(Push(incoming, q))
    BY <1>1, <2>2, RoomFor
  <2>. QED  BY <2>1, <2>3 DEF Elements, NoRepetition
<1>3. Elements(freeItems)' = Elements(freeItems) /\ NoRepetition(freeItems)'
  BY <1>1 DEF Elements, NoRepetition, ItemsConserved
<1>. HIDE DEF q
<1>4. q = agentItem
  BY DEF q
<1>5. TypeOK'
  BY <1>1, <1>2, MessagesAssumption DEF TypeOK
<1>6. ItemsConserved'
  <2>1. NoItem \notin Elements(freeItems)' \cup Elements(incoming)'
    BY <1>1, <1>2, <1>3, ElementsRange DEF TypeOK
  <2>2. \A r \in Readers : readerItem[r] # q /\ readerItem[r] \notin Elements(incoming)'
    BY <1>1, <1>2, <1>4 DEF ItemsConserved
  <2>3. q \notin Elements(freeItems)
    BY <1>4 DEF ItemsConserved
  <2>4. QueueItems \subseteq Elements(freeItems)' \cup Elements(incoming)'
                    \cup {readerItem[r] : r \in Readers}
    BY <1>2, <1>3, <1>4 DEF ItemsConserved
  <2>. QED  BY <1>1, <1>2, <1>3, <2>1, <2>2, <2>3, <2>4 DEF ItemsConserved
<1>7. BuffersFit'
  BY <1>1 DEF BuffersFit
<1>8. Filled'
  BY <1>1, <1>2, MessagesAssumption DEF Filled, Held
<1>. QED  BY <1>2, <1>4, <1>5, <1>6, <1>7, <1>8

LEMMA DequeueStep ==
    ASSUME IndInv, NEW r \in Readers, Dequeue(r)
    PROVE  IndInv'
<1>. USE ItemsAssumption DEF IndInv
<1>1. /\ Head(incoming) \in Elements(incoming)
      /\ incoming' \in Seq(QueueItems) /\ Len(incoming') <= Size
      /\ Elements(incoming)' = Elements(incoming) \ {Head(incoming)}
      /\ NoRepetition(incoming)'
  <2>1. incoming \in Seq(QueueItems) /\ NoRepetition(incoming) /\ incoming # <<>>
        /\ Len(incoming) <= Size /\ incoming' = Tail(incoming)
    BY DEF Dequeue, TypeOK, ItemsConserved
  <2>. DEFINE t == Tail(incoming)
  <2>2. /\ Head(incoming) \in Elements(incoming)
        /\ t \in Seq(QueueItems) /\ Len(t) <= Size
        /\ Elements(t) = Elements(incoming) \ {Head(incoming)} /\ NoRepetition(t)
    BY <2>1, TakeHead
  <2>3. incoming' = t
    BY <2>1
  <2>. HIDE DEF t
  <2>4. Elements(incoming)' = Elements(t) /\ NoRepetition(incoming)' = NoRepetition(t)
    BY <2>3 DEF Elements, NoRepetition
  <2>. QED  BY <2>2, <2>3, <2>4
<1>. DEFINE h == Head(incoming)
<1>2. h \in QueueItems /\ h # NoItem /\ h \in Elements(incoming)
      /\ Elements(incoming)' = Elements(incoming) \ {h}
  BY <1>1, ElementsRange DEF TypeOK
<1>3. /\ \A s \in Readers : readerItem'[s] = IF s = r THEN h ELSE readerItem[s]
      /\ readerItem[r] = NoItem
      /\ readerItem' \in [Readers -> QueueItems \cup {NoItem}]
      /\ UNCHANGED <<freeItems, bufferSize, allocated, publishInfo, agentPc,
                     publish, agentItem, last>>
  BY <1>2 DEF Dequeue, TypeOK
<1>. HIDE DEF h
<1>4. Elements(freeItems)' = Elements(freeItems) /\ NoRepetition(freeItems)'
  BY <1>3 DEF Elements, NoRepetition, ItemsConserved
<1>5. TypeOK'
  BY <1>1, <1>3 DEF TypeOK
<1>6. ItemsConserved'
  <2>1. h # agentItem /\ h \notin Elements(freeItems)
        /\ \A s \in Readers : readerItem[s] # h
    BY <1>2 DEF ItemsConserved
  <2>2. \A s \in Readers :
          /\ readerItem'[s] \notin Elements(freeItems)' \cup Elements(incoming)'
          /\ readerItem'[s] # NoItem =>
               /\ readerItem'[s] # agentItem'
               /\ \A t \in Readers : readerItem'[t] = readerItem'[s] => t = s
    BY <1>2, <1>3, <1>4, <2>1 DEF ItemsConserved
  <2>3. \A q \in QueueItems : \/ q \in Elements(freeItems)' \cup Elements(incoming)'
                                      \cup {agentItem'}
                              \/ \E s \in Readers : readerItem'[s] = q
    BY <1>2, <1>3, <1>4 DEF ItemsConserved
  <2>4. QueueItems \subseteq Elements(freeItems)' \cup Elements(incoming)'
                    \cup {agentItem'} \cup {readerItem'[s] : s \in Readers}
    BY <2>3
  <2>. QED  BY <1>1, <1>2, <1>3, <1>4, <2>2, <2>4 DEF ItemsConserved
<1>7. BuffersFit'
  BY <1>3 DEF BuffersFit
<1>8. Filled'
  <2>1. Held' \subseteq Held \cup {h}
    BY <1>3 DEF Held
  <2>. QED  BY <1>2, <1>3, <2>1 DEF Filled
<1>. QED  BY <1>5, <1>6, <1>7, <1>8

LEMMA FreeStep ==
    ASSUME IndInv, NEW r \in Readers, NEW freeBuffer \in BOOLEAN, Free(r, freeBuffer)
    PROVE  IndInv'
<1>. USE ItemsAssumption DEF IndInv
<1>. DEFINE q == readerItem[r]
<1>1. /\ q \in QueueItems /\ q # NoItem
      /\ q \notin Elements(freeItems) \cup Elements(incoming) /\ q # agentItem
      /\ \A s \in Readers : readerItem[s] = q => s = r
  BY DEF Free, TypeOK, ItemsConserved
<1>2. /\ UNCHANGED <<incoming, agentPc, publish, agentItem, last>>
      /\ \A s \in Readers : readerItem'[s] = IF s = r THEN NoItem ELSE readerItem[s]
      /\ readerItem' \in [Readers -> QueueItems \cup {NoItem}]
      /\ publishInfo' \in [QueueItems -> Messages \cup {NoMessage}]
      /\ \A p \in QueueItems : publishInfo'[p] = IF p = q THEN NoMessage
                                                       ELSE publishInfo[p]
  BY <1>1 DEF Free, TypeOK
<1>3. /\ bufferSize' \in [QueueItems -> Nat] /\ allocated' \in [QueueItems -> Nat]
      /\ \A p \in QueueItems : bufferSize'[p] = allocated'[p]
      /\ \A p \in QueueItems \ {q} : allocated'[p] = allocated[p]
  BY <1>1 DEF Free, TypeOK, BuffersFit
<1>4. /\ freeItems' \in Seq(QueueItems) /\ Len(freeItems') <= Size
      /\ Elements(freeItems)' = Elements(freeItems) \cup {q}
      /\ NoRepetition(freeItems)'
  <2>1. freeItems' = Push(freeItems, q)
    BY DEF Free
  <2>2. freeItems \in Seq(QueueItems) /\ NoRepetition(freeItems)
    BY DEF TypeOK, ItemsConserved
  <2>. HIDE DEF q
  <2>3. /\ Push(freeItems, q) \in Seq(QueueItems) /\ Len(Push(freeItems, q)) <= Size
        /\ Elements(Push(freeItems, q)) = Elements(freeItems) \cup {q}
        /\ NoRepetition(Push(freeItems, q))
    BY <1>1, <2>2, RoomFor
  <2>. QED  BY <2>1, <2>3 DEF Elements, NoRepetition
<1>5. Elements(incoming)' = Elements(incoming) /\ NoRepetition(incoming)'
  BY <1>2 DEF Elements, NoRepetition, ItemsConserved
<1>6. q = readerItem[r]
  OBVIOUS
<1>. HIDE DEF q
<1>7. TypeOK'
  BY <1>2, <1>3, <1>4 DEF TypeOK
<1>8. ItemsConserved'
  <2>1. \A s \in Readers :
          /\ readerItem'[s] \notin Elements(freeItems)' \cup Elements(incoming)'
          /\ readerItem'[s] # NoItem =>
               /\ readerItem'[s] # agentItem'
               /\ \A t \in Readers : readerItem'[t] = readerItem'[s] => t = s
    <3>1. NoItem \notin Elements(freeItems)' \cup Elements(incoming)'
      BY <1>4, <1>5, ElementsRange, <1>1 DEF TypeOK
    <3>. QED  BY <1>1, <1>2, <1>4, <1>5, <3>1 DEF ItemsConserved
  <2>2. \A p \in QueueItems : \/ p \in Elements(freeItems)' \cup Elements(incoming)'
                                      \cup {agentItem'}
                              \/ \E s \in Readers : readerItem'[s] = p
    BY <1>2, <1>4, <1>5, <1>6 DEF ItemsConserved
  <2>3. QueueItems \subseteq Elements(freeItems)' \cup Elements(incoming)'
                    \cup {agentItem'} \cup {readerItem'[s] : s \in Readers}
    BY <2>2
  <2>. QED  BY <1>1, <1>2, <1>4, <1>5, <2>1, <2>3 DEF ItemsConserved
<1>9. BuffersFit'
  BY <1>2, <1>3 DEF BuffersFit
<1>10. Filled'
  <2>1. Held' \subseteq Held \ {q}
    BY <1>1, <1>2 DEF Held
  <2>2. \A p \in Elements(incoming) \cup Held : p \in QueueItems
    BY ElementsRange DEF TypeOK, Held
  <2>3. agentPc = "enqueue" => agentItem \in QueueItems
    BY DEF TypeOK
  <2>. QED  BY <1>1, <1>2, <1>5, <2>1, <2>2, <2>3 DEF Filled
<1>. QED  BY <1>7, <1>8, <1>9, <1>10

LEMMA Preserved == IndInv /\ [Next]_vars => IndInv'
<1>. SUFFICES ASSUME IndInv, [Next]_vars PROVE IndInv'
  OBVIOUS
<1>1. ASSUME UNCHANGED <<freeItems, incoming, bufferSize, allocated, publishInfo,
                         agentItem, readerItem>>,
             \/ UNCHANGED <<agentPc, publish, last>>
             \/ agentPc = "idle" /\ agentPc' = "take" /\ publish' \in Messages
                /\ last' = last
             \/ agentPc = "take" /\ agentPc' = "idle" /\ publish' = NoMessage
                /\ last' = "refused"
      PROVE  IndInv'
  <2>1. TypeOK'
    BY <1>1 DEF IndInv, TypeOK
  <2>2. ItemsConserved' /\ BuffersFit'
    BY <1>1 DEF IndInv, ItemsConserved, BuffersFit, Elements, NoRepetition
  <2>3. Filled'
    BY <1>1, MessagesAssumption DEF IndInv, Filled, Held, Elements
  <2>. QED  BY <2>1, <2>2, <2>3 DEF IndInv
<1>2. CASE UNCHANGED vars \/ Drop \/ \E m \in Messages : Callback(m)
  BY <1>1, <1>2 DEF vars, Drop, Callback
<1>. QED  BY <1>2, TakeFreeStep, FillStep, EnqueueStep, DequeueStep, FreeStep DEF Next

THEOREM Invariance == Spec => []IndInv
BY InitInv, Preserved, PTL DEF Spec

(* The types hold, for any number of items and readers.                    *)
THEOREM TypeCorrect == Spec => []TypeOK
BY Invariance, PTL DEF IndInv

(* Every queue item is in one place: in one queue, once, or in the hands   *)
(* of one thread (mqtt_agent.c, the free and incoming publish queues).     *)
THEOREM ItemsAreConserved == Spec => []ItemsConserved
BY Invariance, PTL DEF IndInv

(* The buffer of an item has room for the publish it carries, also when an *)
(* earlier publish has left it (mqtt_agent.c, topicPayloadBufferSize).     *)
THEOREM BuffersAlwaysFit == Spec => []BuffersFit
BY Invariance, PTL DEF IndInv

-----------------------------------------------------------------------------
(* The circulating items are a mailbox.                                    *)
BoxOf == [i \in DOMAIN incoming |-> publishInfo[incoming[i]]]

ReadingOf == [r \in Readers |-> IF readerItem[r] = NoItem THEN NoMessage
                                ELSE publishInfo[readerItem[r]]]

Holders == {r \in Readers : ReadingOf[r] # NoMessage}

LEMMA SameCardinality == \A S : Box!Cardinality(S) = Cardinality(S)
BY Zenon DEF Box!Cardinality, Cardinality

BoxShape ==
    /\ BoxOf \in Seq(Messages) /\ Len(BoxOf) = Len(incoming)
    /\ \A i \in 1 .. Len(incoming) : BoxOf[i] = publishInfo[incoming[i]]
    /\ \A r \in Readers : ReadingOf[r] # NoMessage <=> readerItem[r] # NoItem

LEMMA BoxType == IndInv => BoxShape
<1>. SUFFICES ASSUME IndInv PROVE BoxShape
  OBVIOUS
<1>. DEFINE n == Len(incoming)
<1>1. n \in Nat /\ DOMAIN incoming = 1 .. n
  BY LenProperties DEF IndInv, TypeOK
<1>2. \A i \in 1 .. n : incoming[i] \in Elements(incoming) /\ incoming[i] \in QueueItems
  BY <1>1, ElementOfSeq DEF Elements, IndInv, TypeOK
<1>3. \A i \in 1 .. n : publishInfo[incoming[i]] \in Messages
  BY <1>2 DEF IndInv, Filled, TypeOK
<1>. HIDE DEF n
<1>4. BoxOf \in [1 .. n -> Messages]
  BY <1>1, <1>3 DEF BoxOf
<1>5. BoxOf \in Seq(Messages)
  <2>1. BoxOf \in UNION {[1 .. k -> Messages] : k \in Nat}
    BY <1>1, <1>4
  <2>. QED  BY <2>1, SeqDef, Zenon
<1>6. Len(BoxOf) = n
  BY <1>1, <1>4, <1>5, LenProperties
<1>7. \A i \in 1 .. n : BoxOf[i] = publishInfo[incoming[i]]
  BY <1>1 DEF BoxOf
<1>8. \A r \in Readers : ReadingOf[r] # NoMessage <=> readerItem[r] # NoItem
  BY DEF ReadingOf, IndInv, Filled, Held
<1>. QED  BY <1>5, <1>6, <1>7, <1>8 DEF n, BoxShape

LEMMA BoxTypeNext == IndInv' => BoxShape'
BY BoxType, PTL

(* The items in use are those the mailbox holds and those being read.      *)
LEMMA UseCounted ==
    ASSUME IndInv
    PROVE  /\ IsFiniteSet(Elements(incoming) \cup Held)
           /\ Elements(incoming) \cup Held \in SUBSET QueueItems
           /\ Box!InUse = Cardinality(Elements(incoming) \cup Held)
<1>1. Elements(incoming) \in SUBSET QueueItems /\ Elements(incoming) = Range(incoming)
  BY ElementsRange DEF IndInv, TypeOK
<1>2. IsFiniteSet(Elements(incoming)) /\ Cardinality(Elements(incoming)) = Len(incoming)
  BY <1>1, LengthIsCardinality DEF IndInv, TypeOK, ItemsConserved, NoRepetition
<1>3. Held \in SUBSET QueueItems
  BY DEF Held, IndInv, TypeOK
<1>4. IsFiniteSet(Held)
  BY <1>3, ItemsAssumption, FS_Subset
<1>5. Holders = {r \in Readers : readerItem[r] # NoItem}
  BY BoxType DEF BoxShape, Holders
<1>6. IsFiniteSet(Holders) /\ Cardinality(Holders) = Cardinality(Held)
  <2>. DEFINE f == [r \in Holders |-> readerItem[r]]
  <2>1. f \in [Holders -> Held]
    BY <1>5 DEF Held
  <2>2. \A a, b \in Holders : f[a] = f[b] => a = b
    BY <1>5 DEF IndInv, ItemsConserved
  <2>3. \A q \in Held : \E r \in Holders : f[r] = q
    BY <1>5 DEF Held
  <2>. HIDE DEF f
  <2>4. f \in Injection(Holders, Held)
    BY <2>1, <2>2, Fun_IsInj
  <2>5. f \in Surjection(Holders, Held)
    BY <2>1, <2>3, Fun_IsSurj
  <2>. QED  BY <1>4, <2>4, <2>5, FS_Injection
<1>7. Elements(incoming) \cap Held = {}
  BY DEF Held, IndInv, ItemsConserved
<1>8. Box!InUse = Len(incoming) + Cardinality(Holders)
  <2>1. Box!InUse = Len(BoxOf) + Box!Cardinality(Holders)
    BY DEF Box!InUse, BoxOf, ReadingOf, Holders
  <2>. QED  BY <2>1, BoxType, SameCardinality DEF BoxShape
<1>9. Cardinality(Elements(incoming) \cup Held)
        = Cardinality(Elements(incoming)) + Cardinality(Held)
  <2>1. Cardinality(Elements(incoming) \cap Held) = 0
    BY <1>7, FS_EmptySet
  <2>2. Cardinality(Elements(incoming)) \in Nat /\ Cardinality(Held) \in Nat
    BY <1>2, <1>4, FS_CardinalityType
  <2>3. Cardinality(Elements(incoming) \cup Held)
          = Cardinality(Elements(incoming)) + Cardinality(Held)
            - Cardinality(Elements(incoming) \cap Held)
    BY <1>2, <1>4, FS_Union
  <2>. QED  BY <2>1, <2>2, <2>3
<1>. QED  BY <1>1, <1>2, <1>3, <1>4, <1>6, <1>8, <1>9, FS_Union

(* Steps that move nothing the mailbox shows.                              *)
LEMMA BoxSame ==
    ASSUME IndInv, UNCHANGED <<incoming, readerItem, last>>,
           \A q \in Elements(incoming) \cup Held : publishInfo'[q] = publishInfo[q]
    PROVE  UNCHANGED Box!vars
<1>1. DOMAIN incoming = 1 .. Len(incoming)
  BY LenProperties DEF IndInv, TypeOK
<1>2. BoxOf' = BoxOf
  BY <1>1 DEF BoxOf, Elements
<1>3. ReadingOf' = ReadingOf
  BY DEF ReadingOf, Held
<1>. QED  BY <1>2, <1>3 DEF Box!vars, BoxOf, ReadingOf

LEMMA BoxAccepts ==
    ASSUME IndInv, Enqueue
    PROVE  \E m \in Messages : Box!Accept(m)
<1>. DEFINE q == agentItem
            s == Elements(incoming) \cup Held
<1>1. /\ q \in QueueItems /\ publish \in Messages /\ publishInfo[q] = publish
      /\ last' = "accepted" /\ publishInfo' = publishInfo /\ readerItem' = readerItem
      /\ q \notin s /\ incoming' = Append(incoming, q)
  BY EnqueueStep DEF Enqueue, IndInv, TypeOK, Filled, ItemsConserved, Held
<1>2. IndInv'
  BY EnqueueStep
<1>. HIDE DEF q
<1>3. Box!InUse < Size
  <2>. HIDE DEF s
  <2>1. s \in SUBSET QueueItems /\ Box!InUse = Cardinality(s)
    BY UseCounted DEF s
  <2>2. Cardinality(s) <= Size /\ Cardinality(s) # Size
        /\ Cardinality(s) \in Nat /\ Size \in Nat
    BY <1>1, <2>1, ItemsAssumption, FS_Subset, FS_CardinalityType DEF Size
  <2>. QED  BY <2>1, <2>2
<1>4. BoxOf' = Append(BoxOf, publish)
  <2>. DEFINE n == Len(incoming)
              t == Append(BoxOf, publish)
  <2>1. /\ BoxOf \in Seq(Messages) /\ Len(BoxOf) = n /\ n \in Nat
        /\ \A i \in 1 .. n : BoxOf[i] = publishInfo[incoming[i]]
    BY BoxType, LenProperties DEF BoxShape, IndInv, TypeOK
  <2>2. /\ incoming \in Seq(QueueItems)
        /\ Len(incoming') = n + 1 /\ incoming'[n + 1] = q
        /\ \A i \in 1 .. n : incoming'[i] = incoming[i]
    <3>1. incoming \in Seq(QueueItems)
      BY DEF IndInv, TypeOK
    <3>. QED  BY <1>1, <3>1, AppendProperties
  <2>3. /\ BoxOf' \in Seq(Messages) /\ Len(BoxOf') = n + 1
        /\ \A i \in 1 .. n + 1 : BoxOf'[i] = publishInfo[incoming'[i]]
    <3>1. /\ BoxOf' \in Seq(Messages) /\ Len(BoxOf') = Len(incoming')
          /\ \A i \in 1 .. Len(incoming') : BoxOf'[i] = publishInfo'[incoming'[i]]
      BY <1>2, BoxTypeNext DEF BoxShape
    <3>. QED  BY <1>1, <2>2, <3>1
  <2>4. /\ t \in Seq(Messages) /\ Len(t) = n + 1 /\ t[n + 1] = publish
        /\ \A i \in 1 .. n : t[i] = BoxOf[i]
    BY <1>1, <2>1, AppendProperties
  <2>. HIDE DEF n, t
  <2>5. \A i \in 1 .. n + 1 : BoxOf'[i] = t[i]
    <3>1. ASSUME NEW i \in 1 .. n + 1
          PROVE  BoxOf'[i] = t[i]
      <4>1. CASE i = n + 1
        BY <1>1, <2>2, <2>3, <2>4, <4>1
      <4>2. CASE i \in 1 .. n
        BY <2>1, <2>2, <2>3, <2>4, <4>2
      <4>. QED  BY <2>1, <4>1, <4>2
    <3>. QED  BY <3>1
  <2>6. BoxOf' = t
    BY <2>3, <2>4, <2>5, SeqEqual
  <2>. QED  BY <2>6 DEF t
<1>5. ReadingOf' = ReadingOf
  BY <1>1 DEF ReadingOf
<1>6. PICK m \in Messages : m = publish
  BY <1>1
<1>7. Box!Accept(m)
  BY <1>1, <1>3, <1>4, <1>5, <1>6 DEF Box!Accept, BoxOf, ReadingOf
<1>. QED  BY <1>7

LEMMA BoxRefuses ==
    ASSUME IndInv, Drop
    PROVE  Box!Refuse
<1>1. /\ last' = "refused" /\ UNCHANGED <<incoming, publishInfo, readerItem>>
      /\ agentItem = NoItem /\ freeItems = <<>>
  BY DEF Drop, IndInv, TypeOK
<1>2. Elements(freeItems) = {}
  BY <1>1 DEF Elements
<1>3. Elements(incoming) \cup Held = QueueItems
  BY <1>1, <1>2, UseCounted, ItemsAssumption DEF IndInv, ItemsConserved, Held
<1>4. Box!InUse = Size
  BY <1>3, UseCounted DEF Size
<1>5. BoxOf' = BoxOf /\ ReadingOf' = ReadingOf
  BY <1>1 DEF BoxOf, ReadingOf
<1>. QED  BY <1>1, <1>4, <1>5 DEF Box!Refuse, BoxOf, ReadingOf

LEMMA BoxReads ==
    ASSUME IndInv, NEW r \in Readers, Dequeue(r)
    PROVE  Box!Read(r)
<1>. DEFINE h == Head(incoming)
            n == Len(incoming)
            t == Tail(BoxOf)
<1>1. /\ readerItem[r] = NoItem /\ readerItem' = [readerItem EXCEPT ![r] = h]
      /\ incoming # <<>> /\ incoming' = Tail(incoming) /\ incoming \in Seq(QueueItems)
      /\ publishInfo' = publishInfo /\ last' = last
  BY DEF Dequeue, IndInv, TypeOK
<1>2. IndInv'
  BY DequeueStep
<1>3. n \in Nat \ {0}
  BY <1>1, EmptySeq
<1>4. /\ BoxOf \in Seq(Messages) /\ Len(BoxOf) = n
      /\ \A i \in 1 .. n : BoxOf[i] = publishInfo[incoming[i]]
      /\ ReadingOf[r] = NoMessage
  BY <1>1, BoxType DEF BoxShape
<1>5. BoxOf # <<>>
  BY <1>3, <1>4, EmptySeq
<1>6. Head(BoxOf) = publishInfo[h]
  <2>1. Head(BoxOf) = BoxOf[1] /\ h = incoming[1]
    OBVIOUS
  <2>. QED  BY <1>3, <1>4, <2>1
<1>7. BoxOf' = t
  <2>1. Len(incoming') = n - 1 /\ \A i \in 1 .. n - 1 : incoming'[i] = incoming[i + 1]
    BY <1>1, HeadTailProperties
  <2>2. /\ BoxOf' \in Seq(Messages) /\ Len(BoxOf') = n - 1
        /\ \A i \in 1 .. n - 1 : BoxOf'[i] = publishInfo[incoming'[i]]
    <3>1. /\ BoxOf' \in Seq(Messages) /\ Len(BoxOf') = Len(incoming')
          /\ \A i \in 1 .. Len(incoming') : BoxOf'[i] = publishInfo'[incoming'[i]]
      BY <1>2, BoxTypeNext DEF BoxShape
    <3>. QED  BY <1>1, <2>1, <3>1
  <2>3. /\ t \in Seq(Messages) /\ Len(t) = n - 1
        /\ \A i \in 1 .. n - 1 : t[i] = BoxOf[i + 1]
    BY <1>4, <1>5, HeadTailProperties
  <2>. HIDE DEF n, t
  <2>4. \A i \in 1 .. n - 1 : BoxOf'[i] = t[i]
    <3>1. ASSUME NEW i \in 1 .. n - 1
          PROVE  BoxOf'[i] = t[i]
      <4>1. i + 1 \in 1 .. n
        BY <1>3
      <4>. QED  BY <1>4, <2>1, <2>2, <2>3, <4>1
    <3>. QED  BY <3>1
  <2>5. BoxOf' = t
    BY <2>2, <2>3, <2>4, SeqEqual
  <2>. QED  BY <2>5
<1>. HIDE DEF h, n
<1>8. ReadingOf' = [ReadingOf EXCEPT ![r] = publishInfo[h]]
  <2>1. h # NoItem
    <3>1. h \in QueueItems
      BY <1>1, HeadTailProperties DEF h
    <3>. QED  BY <3>1, ItemsAssumption
  <2>2. readerItem \in [Readers -> QueueItems \cup {NoItem}]
    BY DEF IndInv, TypeOK
  <2>. QED  BY <1>1, <2>1, <2>2 DEF ReadingOf
<1>9. Box!Read(r) <=> /\ ReadingOf[r] = NoMessage
                      /\ BoxOf # <<>>
                      /\ ReadingOf' = [ReadingOf EXCEPT ![r] = Head(BoxOf)]
                      /\ BoxOf' = Tail(BoxOf)
                      /\ UNCHANGED last
  BY DEF Box!Read, BoxOf, ReadingOf
<1>. QED  BY <1>1, <1>4, <1>5, <1>6, <1>7, <1>8, <1>9

LEMMA BoxGivesBack ==
    ASSUME IndInv, NEW r \in Readers, NEW freeBuffer \in BOOLEAN, Free(r, freeBuffer)
    PROVE  Box!GiveBack(r)
<1>. DEFINE q == readerItem[r]
<1>1. /\ q \in QueueItems /\ q # NoItem /\ q \notin Elements(incoming)
      /\ \A s \in Readers : readerItem[s] = q => s = r
      /\ UNCHANGED <<incoming, last>>
      /\ readerItem' = [readerItem EXCEPT ![r] = NoItem]
      /\ publishInfo' = [publishInfo EXCEPT ![q] = NoMessage]
      /\ readerItem \in [Readers -> QueueItems \cup {NoItem}]
      /\ publishInfo \in [QueueItems -> Messages \cup {NoMessage}]
  BY DEF Free, IndInv, TypeOK, ItemsConserved
<1>2. \A p \in QueueItems \ {q} : publishInfo'[p] = publishInfo[p]
  BY <1>1
<1>3. ReadingOf[r] # NoMessage
  BY <1>1, BoxType DEF BoxShape
<1>. HIDE DEF q
<1>4. BoxOf' = BoxOf
  <2>1. DOMAIN incoming = 1 .. Len(incoming) /\ Elements(incoming) \in SUBSET QueueItems
    BY ElementsRange, LenProperties DEF IndInv, TypeOK
  <2>. QED  BY <1>1, <1>2, <2>1 DEF BoxOf, Elements
<1>5. ReadingOf' = [ReadingOf EXCEPT ![r] = NoMessage]
  BY <1>1, <1>2 DEF ReadingOf
<1>6. Box!GiveBack(r) <=> /\ ReadingOf[r] # NoMessage
                          /\ ReadingOf' = [ReadingOf EXCEPT ![r] = NoMessage]
                          /\ UNCHANGED <<BoxOf, last>>
  BY DEF Box!GiveBack, BoxOf, ReadingOf
<1>. QED  BY <1>1, <1>3, <1>4, <1>5, <1>6

LEMMA BoxStep ==
    ASSUME IndInv, [Next]_vars
    PROVE  [Box!Next]_(Box!vars)
<1>1. CASE UNCHANGED vars \/ TakeFree \/ \E m \in Messages : Callback(m)
  BY <1>1, BoxSame DEF vars, TakeFree, Callback
<1>2. CASE Fill
  <2>1. agentItem \notin Elements(incoming) \cup Held
    BY <1>2 DEF Fill, IndInv, TypeOK, ItemsConserved, Held
  <2>2. \A q \in Elements(incoming) \cup Held : publishInfo'[q] = publishInfo[q]
    BY <1>2, <2>1, UseCounted DEF Fill, IndInv, TypeOK
  <2>. QED  BY <1>2, <2>2, BoxSame DEF Fill
<1>3. CASE Enqueue
  BY <1>3, BoxAccepts DEF Box!Next
<1>4. CASE Drop
  BY <1>4, BoxRefuses DEF Box!Next
<1>5. ASSUME NEW r \in Readers, Dequeue(r)
      PROVE  Box!Next
  BY <1>5, BoxReads DEF Box!Next
<1>6. ASSUME NEW r \in Readers, NEW freeBuffer \in BOOLEAN, Free(r, freeBuffer)
      PROVE  Box!Next
  BY <1>6, BoxGivesBack DEF Box!Next
<1>. QED  BY <1>1, <1>2, <1>3, <1>4, <1>5, <1>6 DEF Next

(* The two queues and the circulating items implement a bounded mailbox:   *)
(* publishes are read in order and intact, and one is refused only while   *)
(* every item is in use (mqtt_agent.c, mqttAgentEnqueuePublishCallback and *)
(* iotshdDev_MQTTAgentDequeueIncommingPublish).                            *)
THEOREM QueuesAreMailbox == Spec => ImplementsMailbox
<1>1. Init => Box!Init
  <2>. SUFFICES ASSUME Init PROVE Box!Init
    OBVIOUS
  <2>1. BoxOf = <<>>
    BY DEF Init, BoxOf
  <2>2. ReadingOf = [r \in Readers |-> NoMessage]
    BY DEF Init, ReadingOf
  <2>. QED  BY <2>1, <2>2 DEF Init, Box!Init, BoxOf, ReadingOf
<1>2. IndInv /\ [Next]_vars => [Box!Next]_(Box!vars)
  BY BoxStep
<1>. QED  BY <1>1, <1>2, Invariance, PTL DEF Spec, ImplementsMailbox, Box!Spec
==============================================================================

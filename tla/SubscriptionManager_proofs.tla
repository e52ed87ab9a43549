--------------------- MODULE SubscriptionManager_proofs ---------------------
(***************************************************************************)
(* Proofs about SubscriptionManager, for any filters, receivers, topics    *)
(* and matching, and any size of the list.                                 *)
(***************************************************************************)
EXTENDS SubscriptionManager, FiniteSetTheorems, FunctionTheorems, TLAPS

(* A non-empty set of indices has a lowest one.                            *)
LEMMA LowestOf ==
    ASSUME NEW S \in SUBSET Nat, S # {}
    PROVE  Lowest(S) \in S /\ \A j \in S : Lowest(S) <= j
<1>1. IsWellFoundedOn(OpToRel(<, Nat), Nat)
  BY NatLessThanWellFounded
<1>2. PICK i \in S : \A j \in S : ~(<<j, i>> \in OpToRel(<, Nat))
  BY <1>1, WFMin
<1>3. ASSUME NEW j \in S
      PROVE  i <= j
  <2>1. OpToRel(<, Nat) = {ss \in Nat \X Nat : ss[1] < ss[2]}
    BY Zenon DEF OpToRel
  <2>2. ~(<<j, i>> \in {ss \in Nat \X Nat : ss[1] < ss[2]})
    BY <1>2, <2>1, Zenon
  <2>. QED  BY <2>2
<1>. QED  BY <1>3 DEF Lowest

LEMMA LowestFree ==
    ASSUME NEW l \in Lists, FreeSlots(l) # {}
    PROVE  Lowest(FreeSlots(l)) \in Indices /\ l[Lowest(FreeSlots(l))] = Free
<1>1. FreeSlots(l) \in SUBSET Nat
  BY SizeAssumption DEF FreeSlots, Indices
<1>. QED  BY <1>1, LowestOf DEF FreeSlots

-----------------------------------------------------------------------------
LEMMA TypeStep ==
    ASSUME TypeOK, [Next]_vars
    PROVE  TypeOK'
<1>. USE DEF TypeOK
<1>0. CASE UNCHANGED vars
  BY <1>0 DEF vars
<1>1. ASSUME NEW e \in Subscription, Add(e)
      PROVE  TypeOK'
  BY <1>1, LowestFree DEF Add, addSubscription, Accepts, Registered, Lists
<1>2. CASE RefuseCall
  BY <1>2 DEF RefuseCall
<1>3. ASSUME NEW f \in Filters, Remove(f)
      PROVE  TypeOK'
  BY <1>3 DEF Remove, removeSubscription, Lists
<1>4. ASSUME NEW topic \in Topics, Handle(topic)
      PROVE  TypeOK'
  BY <1>4 DEF Handle, Matching
<1>. QED  BY <1>0, <1>1, <1>2, <1>3, <1>4 DEF Next

LEMMA DuplicatesStep ==
    ASSUME TypeOK, NoDuplicates, [Next]_vars
    PROVE  NoDuplicates'
<1>. USE DEF TypeOK, NoDuplicates
<1>0. CASE UNCHANGED vars
  BY <1>0 DEF vars
<1>1. ASSUME NEW e \in Subscription, Add(e)
      PROVE  NoDuplicates'
  BY <1>1, LowestFree DEF Add, addSubscription, Registered, Lists
<1>2. CASE RefuseCall
  BY <1>2 DEF RefuseCall
<1>3. ASSUME NEW f \in Filters, Remove(f)
      PROVE  NoDuplicates'
  BY <1>3 DEF Remove, removeSubscription, Lists
<1>4. ASSUME NEW topic \in Topics, Handle(topic)
      PROVE  NoDuplicates'
  BY <1>4 DEF Handle
<1>. QED  BY <1>0, <1>1, <1>2, <1>3, <1>4 DEF Next

IndInv == TypeOK /\ NoDuplicates

THEOREM Invariance == Spec => []IndInv
<1>1. Init => IndInv
  BY DEF Init, IndInv, TypeOK, NoDuplicates, EmptyList, Lists
<1>2. IndInv /\ [Next]_vars => IndInv'
  BY TypeStep, DuplicatesStep DEF IndInv
<1>. QED  BY <1>1, <1>2, PTL DEF Spec

(* No history of subscribes and unsubscribes puts a subscription into the  *)
(* list twice (subscription_manager.c:63-93).                              *)
THEOREM NeverDuplicated == Spec => []NoDuplicates
BY Invariance, PTL DEF IndInv

-----------------------------------------------------------------------------
Used == Indices \ FreeSlots(list)

(* The list counts its subscriptions: each takes one element.              *)
LEMMA EntriesCounted ==
    ASSUME IndInv
    PROVE  /\ Cardinality(Entries) < MaxSubscriptions <=> FreeSlots(list) # {}
           /\ Cardinality(Entries) \in Nat
<1>. DEFINE f == [i \in Used |-> list[i]]
<1>1. IsFiniteSet(Indices) /\ Cardinality(Indices) = MaxSubscriptions
  BY FS_Interval, SizeAssumption DEF Indices
<1>2. Used \in SUBSET Indices
  BY DEF Used
<1>3. /\ IsFiniteSet(Used) /\ Cardinality(Used) <= MaxSubscriptions
      /\ Cardinality(Used) = MaxSubscriptions => Used = Indices
      /\ Cardinality(Used) \in Nat
  BY <1>1, <1>2, FS_Subset, FS_CardinalityType
<1>4. f \in Bijection(Used, Entries)
  <2>1. f \in [Used -> Entries] /\ \A t \in Entries : \E s \in Used : f[s] = t
    BY DEF Entries, Used
  <2>2. \A a, b \in Used : f[a] = f[b] => a = b
    BY DEF IndInv, NoDuplicates, Used, FreeSlots
  <2>. QED  BY <2>1, <2>2, Fun_IsBij
<1>5. Cardinality(Entries) = Cardinality(Used)
  <2>1. ExistsBijection(Used, Entries)
    BY <1>4 DEF ExistsBijection
  <2>. QED  BY <1>3, <2>1, FS_Bijection
<1>6. Used = Indices <=> FreeSlots(list) = {}
  BY DEF Used, FreeSlots
<1>. QED  BY <1>1, <1>3, <1>5, <1>6, SizeAssumption

(* The effect of each operation on the set of subscriptions.               *)
LEMMA AddEntries ==
    ASSUME IndInv, NEW e \in Subscription, Add(e)
    PROVE  Entries' = IF Accepts(list, e) THEN Entries \cup {e} ELSE Entries
<1>. USE FreeAssumption DEF IndInv, TypeOK
<1>1. CASE Registered(list, e) \/ FreeSlots(list) = {}
  <2>1. list' = list
    BY <1>1 DEF Add, addSubscription
  <2>2. Registered(list, e) => e \in Entries
    BY DEF Registered, Entries, FreeSlots
  <2>. QED  BY <1>1, <2>1, <2>2 DEF Entries, FreeSlots, Accepts
<1>2. CASE ~(Registered(list, e) \/ FreeSlots(list) = {})
  <2>. DEFINE k == Lowest(FreeSlots(list))
  <2>1. k \in Indices /\ list[k] = Free
    BY <1>2, LowestFree
  <2>2. list' = [list EXCEPT ![k] = e]
    BY <1>2 DEF Add, addSubscription
  <2>3. \A i \in Indices : list'[i] = IF i = k THEN e ELSE list[i]
    BY <2>1, <2>2 DEF Lists
  <2>4. FreeSlots(list') = FreeSlots(list) \ {k}
    BY <2>1, <2>3 DEF FreeSlots
  <2>. HIDE DEF k
  <2>5. Entries' = Entries \cup {e}
    BY <2>1, <2>3, <2>4 DEF Entries, FreeSlots
  <2>. QED  BY <1>2, <2>5 DEF Accepts
<1>. QED  BY <1>1, <1>2

LEMMA RemoveEntries ==
    ASSUME IndInv, NEW f \in Filters, Remove(f)
    PROVE  Entries' = {e \in Entries : e.filter # f}
<1>1. \A i \in Indices : list'[i] = IF list[i] # Free /\ list[i].filter = f
                                    THEN Free ELSE list[i]
  BY DEF Remove, removeSubscription
<1>2. \A i \in Indices : i \in FreeSlots(list') <=>
                            list[i] = Free \/ list[i].filter = f
  BY <1>1 DEF FreeSlots
<1>. QED  BY <1>1, <1>2 DEF Entries, FreeSlots

(* FiniteSets, seen through the instance, is the same module.              *)
LEMMA SameCardinality == Abstract!Cardinality(Entries) = Cardinality(Entries)
BY Zenon DEF Abstract!Cardinality, Cardinality

Called == {list[i] : i \in calls \ FreeSlots(list)}

LEMMA SetStep ==
    ASSUME IndInv, [Next]_vars
    PROVE  [Abstract!Next]_(Abstract!vars)
<1>0. CASE UNCHANGED vars
  BY <1>0 DEF vars, Abstract!vars, Entries, FreeSlots
<1>1. ASSUME NEW e \in Subscription, Add(e)
      PROVE  [Abstract!Next]_(Abstract!vars)
  <2>1. e \in Entries <=> Registered(list, e)
    BY FreeAssumption DEF Entries, Registered, FreeSlots
  <2>2. Called' = {}
    BY <1>1 DEF Add, Called
  <2>3. Abstract!Add(e)
    <3>1. CASE Accepts(list, e)
      <4>1. e \in Entries \/ Cardinality(Entries) < MaxSubscriptions
        BY <2>1, <3>1, EntriesCounted DEF Accepts
      <4>2. Entries' = Entries \cup {e}
        BY <1>1, <3>1, AddEntries
      <4>3. result' = TRUE
        BY <1>1, <3>1 DEF Add, Accepts, Registered
      <4>. QED  BY <2>2, <4>1, <4>2, <4>3, SameCardinality DEF Abstract!Add, Called
    <3>2. CASE ~Accepts(list, e)
      <4>1. e \notin Entries /\ Cardinality(Entries) >= MaxSubscriptions
        BY <2>1, <3>2, EntriesCounted, SizeAssumption DEF Accepts
      <4>2. Entries' = Entries
        BY <1>1, <3>2, AddEntries
      <4>3. result' = FALSE
        BY <1>1, <3>2 DEF Add, Accepts, Registered
      <4>. QED  BY <2>2, <4>1, <4>2, <4>3, SameCardinality DEF Abstract!Add, Called
    <3>. QED  BY <3>1, <3>2
  <2>. QED  BY <2>3 DEF Abstract!Next, Abstract!Subscription, Subscription
<1>2. CASE RefuseCall
  <2>1. Abstract!Refuse
    BY <1>2 DEF RefuseCall, Abstract!Refuse, Entries, FreeSlots
  <2>. QED  BY <2>1 DEF Abstract!Next
<1>3. ASSUME NEW f \in Filters, Remove(f)
      PROVE  [Abstract!Next]_(Abstract!vars)
  <2>1. Abstract!Remove(f)
    BY <1>3, RemoveEntries DEF Remove, Abstract!Remove
  <2>. QED  BY <2>1 DEF Abstract!Next
<1>4. ASSUME NEW topic \in Topics, Handle(topic)
      PROVE  [Abstract!Next]_(Abstract!vars)
  <2>1. list' = list /\ calls' = Matching(list, topic)
        /\ result' = (Matching(list, topic) # {})
    BY <1>4 DEF Handle
  <2>2. Entries' = Entries
    BY <2>1 DEF Entries, FreeSlots
  <2>3. Called' = {e \in Entries : <<topic, e.filter>> \in Matches}
    BY <2>1 DEF Called, Matching, Entries, FreeSlots
  <2>4. Called' = {} <=> Matching(list, topic) = {}
    BY <2>1 DEF Called, Matching, FreeSlots
  <2>5. Abstract!Publish(topic)
    BY <2>1, <2>2, <2>3, <2>4 DEF Abstract!Publish, Called
  <2>. QED  BY <2>5 DEF Abstract!Next
<1>. QED  BY <1>0, <1>1, <1>2, <1>3, <1>4 DEF Next

(* The array of elements implements a bounded set of subscriptions: for    *)
(* any capacity, an add is refused only when all elements are in use       *)
(* (subscription_manager.c:39-170).                                        *)
THEOREM ListIsSet == Spec => ImplementsSet
<1>1. Init => Abstract!Init
  BY DEF Init, Abstract!Init, Entries, FreeSlots, EmptyList
<1>2. IndInv /\ [Next]_vars => [Abstract!Next]_(Abstract!vars)
  BY SetStep
<1>. QED  BY <1>1, <1>2, Invariance, PTL DEF Spec, ImplementsSet, Abstract!Spec
==============================================================================

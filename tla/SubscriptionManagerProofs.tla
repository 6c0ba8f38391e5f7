---------------------- MODULE SubscriptionManagerProofs ----------------------
(***************************************************************************)
(* The loops of the subscription manager implement the set of              *)
(* subscriptions that Subscriptions describes, for every number of slots.  *)
(***************************************************************************)
EXTENDS SubscriptionManager, FiniteSetTheorems, FunctionTheorems, TLAPS

(* What each loop has established of the slots it has passed.              *)
AddInv ==
    operation = "add" =>
        /\ \A i \in Slots : i > lIndex => list[i] # argument
        /\ \A i \in Slots : i > lIndex /\ i < xAvailableIndex => list[i] # Empty
        /\ xAvailableIndex < MaxSubscriptions => list[xAvailableIndex] = Empty

RemoveInv ==
    operation = "remove" => \A i \in Slots : i < lIndex => ~OfFilter(i, argument)

PublishInv ==
    operation = "publish" =>
        called = {s \in Sub : /\ \E i \in Slots : i < lIndex /\ list[i] = s
                              /\ <<argument, s.filter>> \in Matches}

LoopInv == TypeOK /\ NoDuplicates /\ AddInv /\ RemoveInv /\ PublishInv

(* The empty array satisfies the loop invariants.                          *)
LEMMA LoopInit == Init => LoopInv
<1>. SUFFICES ASSUME Init PROVE LoopInv
  OBVIOUS
<1>. USE ConstantsAssumption DEF Init
<1>1. TypeOK
  <2>1. list \in [Slots -> Sub \cup {Empty}]
    OBVIOUS
  <2>2. /\ lIndex \in -1 .. MaxSubscriptions
        /\ xAvailableIndex \in 0 .. MaxSubscriptions
        /\ lIndex >= 0
    OBVIOUS
  <2>3. operation \in Operations /\ operation \notin {"add", "remove", "publish"}
    BY DEF Operations
  <2>. QED
    BY <2>1, <2>2, <2>3 DEF TypeOK
<1>2. NoDuplicates
  BY DEF NoDuplicates
<1>3. AddInv /\ RemoveInv /\ PublishInv
  BY DEF AddInv, RemoveInv, PublishInv
<1>. QED
  BY <1>1, <1>2, <1>3 DEF LoopInv

(* A call starts its loop with nothing passed.                             *)
LEMMA CallStep ==
  ASSUME LoopInv,
         NEW name \in Operations, NEW arg, NEW start \in -1 .. MaxSubscriptions,
         Call(name, arg, start),
         \/ name = "add" /\ arg \in Sub /\ start = MaxSubscriptions - 1
         \/ name = "remove" /\ arg \in Filters /\ start = 0
         \/ name = "publish" /\ arg \in Topics /\ start = 0
  PROVE  LoopInv'
<1>. USE ConstantsAssumption DEF LoopInv, Call
<1>1. TypeOK'
  BY DEF TypeOK, Operations
<1>2. NoDuplicates'
  BY DEF NoDuplicates
<1>3. AddInv'
  BY DEF AddInv, Slots
<1>4. RemoveInv'
  BY DEF RemoveInv, Slots
<1>5. PublishInv'
  BY DEF PublishInv, Slots
<1>. QED
  BY <1>1, <1>2, <1>3, <1>4, <1>5

(* Every step of a loop extends what it has established by a slot.         *)
LEMMA LoopStep == LoopInv /\ [Next]_vars => LoopInv'
<1>. SUFFICES ASSUME LoopInv, [Next]_vars PROVE LoopInv'
  OBVIOUS
<1>. USE ConstantsAssumption
<1>0. UNCHANGED vars => LoopInv'
  <2>. HAVE UNCHANGED vars
  <2>. USE DEF vars, LoopInv
  <2>1. TypeOK'
    BY DEF TypeOK
  <2>2. NoDuplicates'
    BY DEF NoDuplicates
  <2>3. AddInv'
    BY DEF AddInv
  <2>4. RemoveInv' /\ PublishInv'
    BY DEF RemoveInv, PublishInv, OfFilter
  <2>. QED
    BY <2>1, <2>2, <2>3, <2>4
<1>1. ASSUME NEW s \in Sub, CallAddSubscription(s) PROVE LoopInv'
  BY <1>1, CallStep DEF CallAddSubscription, Operations
<1>2. CASE ScanForSlot
  <2>. USE <1>2 DEF LoopInv, ScanForSlot, NextSlot
  <2>1. TypeOK'
    BY DEF TypeOK, Slots
  <2>2. NoDuplicates'
    BY DEF NoDuplicates
  <2>3. AddInv'
    BY DEF AddInv, TypeOK, Slots
  <2>4. RemoveInv' /\ PublishInv'
    BY DEF RemoveInv, PublishInv
  <2>. QED
    BY <2>1, <2>2, <2>3, <2>4
<1>3. CASE FoundDuplicate
  <2>. USE <1>3 DEF LoopInv, FoundDuplicate, Return
  <2>1. TypeOK'
    BY DEF TypeOK, Operations
  <2>2. NoDuplicates'
    BY DEF NoDuplicates
  <2>3. AddInv' /\ RemoveInv' /\ PublishInv'
    BY DEF AddInv, RemoveInv, PublishInv
  <2>. QED
    BY <2>1, <2>2, <2>3
<1>4. CASE StoreSubscription
  <2>. USE <1>4 DEF LoopInv, StoreSubscription, Return
  <2>1. TypeOK'
    BY DEF TypeOK, Operations
  <2>2. NoDuplicates'
    <3>1. \A i \in Slots : list[i] # argument
      BY DEF AddInv, Slots, TypeOK
    <3>. QED
      BY <3>1 DEF NoDuplicates, TypeOK
  <2>3. AddInv' /\ RemoveInv' /\ PublishInv'
    BY DEF AddInv, RemoveInv, PublishInv
  <2>. QED
    BY <2>1, <2>2, <2>3
<1>5. CASE ListFull
  <2>. USE <1>5 DEF LoopInv, ListFull, Return
  <2>1. TypeOK'
    BY DEF TypeOK, Operations
  <2>2. NoDuplicates'
    BY DEF NoDuplicates
  <2>3. AddInv' /\ RemoveInv' /\ PublishInv'
    BY DEF AddInv, RemoveInv, PublishInv
  <2>. QED
    BY <2>1, <2>2, <2>3
<1>6. ASSUME NEW f \in Filters, CallRemoveSubscription(f) PROVE LoopInv'
  BY <1>6, CallStep DEF CallRemoveSubscription, Operations
<1>7. CASE ClearSlot
  <2>. USE <1>7 DEF LoopInv, ClearSlot, NextSlot
  <2>1. TypeOK'
    BY DEF TypeOK, Slots
  <2>2. NoDuplicates'
    BY DEF NoDuplicates, TypeOK
  <2>3. RemoveInv'
    BY DEF RemoveInv, TypeOK, OfFilter, Slots
  <2>4. AddInv' /\ PublishInv'
    BY DEF AddInv, PublishInv
  <2>. QED
    BY <2>1, <2>2, <2>3, <2>4
<1>8. CASE RemoveReturns
  <2>. USE <1>8 DEF LoopInv, RemoveReturns, Return
  <2>1. TypeOK'
    BY DEF TypeOK, Operations
  <2>2. NoDuplicates'
    BY DEF NoDuplicates
  <2>3. AddInv' /\ RemoveInv' /\ PublishInv'
    BY DEF AddInv, RemoveInv, PublishInv
  <2>. QED
    BY <2>1, <2>2, <2>3
<1>9. ASSUME NEW t \in Topics, CallHandleIncomingPublishes(t) PROVE LoopInv'
  BY <1>9, CallStep DEF CallHandleIncomingPublishes, Operations
<1>10. CASE Dispatch
  <2>. USE <1>10 DEF LoopInv, Dispatch, NextSlot
  <2>0. lIndex \in Slots /\ list[lIndex] \in Sub \cup {Empty} /\ Empty \notin Sub
    BY DEF TypeOK, Slots, Sub
  <2>1. TypeOK'
    BY <2>0 DEF TypeOK, Matching
  <2>2. NoDuplicates'
    BY DEF NoDuplicates
  <2>3. PublishInv'
    <3>1. \A i \in Slots : i < lIndex + 1 <=> i < lIndex \/ i = lIndex
      BY DEF TypeOK, Slots
    <3>2. called = {s \in Sub : /\ \E i \in Slots : i < lIndex /\ list[i] = s
                                /\ <<argument, s.filter>> \in Matches}
      BY DEF PublishInv
    <3>3. called' = {s \in Sub : /\ \E i \in Slots : i < lIndex + 1 /\ list[i] = s
                                 /\ <<argument, s.filter>> \in Matches}
      BY <2>0, <3>1, <3>2 DEF Matching
    <3>. QED
      BY <3>3 DEF PublishInv
  <2>4. AddInv' /\ RemoveInv'
    BY DEF AddInv, RemoveInv
  <2>. QED
    BY <2>1, <2>2, <2>3, <2>4
<1>11. CASE DispatchReturns
  <2>. USE <1>11 DEF LoopInv, DispatchReturns, Return
  <2>1. TypeOK'
    BY DEF TypeOK, Operations
  <2>2. NoDuplicates'
    BY DEF NoDuplicates
  <2>3. AddInv' /\ RemoveInv' /\ PublishInv'
    BY DEF AddInv, RemoveInv, PublishInv
  <2>. QED
    BY <2>1, <2>2, <2>3
<1>. QED
  BY <1>0, <1>1, <1>2, <1>3, <1>4, <1>5, <1>6, <1>7, <1>8, <1>9, <1>10, <1>11
     DEF Next

(* The loop invariants hold at every step of every call.                   *)
THEOREM LoopsCorrect == Spec => []LoopInv
  BY LoopInit, LoopStep, PTL DEF Spec

(* Every variable keeps its type and no loop leaves the array.             *)
THEOREM TypeCorrect == Spec => []TypeOK
<1>1. LoopInv => TypeOK
  BY DEF LoopInv
<1>. QED
  BY <1>1, LoopsCorrect, PTL

(* addSubscription never stores a subscription that is already there,      *)
(* whichever slots removeSubscription freed before.                        *)
THEOREM NoSubscriptionTwice == Spec => []NoDuplicates
<1>1. LoopInv => NoDuplicates
  BY DEF LoopInv
<1>. QED
  BY <1>1, LoopsCorrect, PTL

(* The slot addSubscription takes is the first free one.                   *)
THEOREM FirstSlotTaken == Spec => []FirstAvailable
<1>1. LoopInv => FirstAvailable
  BY ConstantsAssumption DEF LoopInv, TypeOK, AddInv, FirstAvailable, Slots
<1>. QED
  BY <1>1, LoopsCorrect, PTL

-----------------------------------------------------------------------------
(* No slot is free exactly when as many subscriptions as there are slots   *)
(* are registered, because none is registered twice.                       *)
Used == {i \in Slots : list[i] # Empty}

\* The array holds as many slots in use as there are pairs registered.
LEMMA RegisteredSize ==
  ASSUME LoopInv
  PROVE  /\ IsFiniteSet(Registered)
         /\ Cardinality(Registered) <= MaxSubscriptions
         /\ Cardinality(Registered) = MaxSubscriptions <=> Used = Slots
<1>. USE ConstantsAssumption DEF LoopInv
<1>1. IsFiniteSet(Slots) /\ Cardinality(Slots) = MaxSubscriptions
  BY FS_Interval DEF Slots
<1>2. Used \in SUBSET Slots
  BY DEF Used
<1>3. /\ IsFiniteSet(Used)
      /\ Cardinality(Used) <= MaxSubscriptions
      /\ Cardinality(Used) = MaxSubscriptions <=> Used = Slots
  BY <1>1, <1>2, FS_Subset
<1>4. ExistsBijection(Used, Registered)
  <2>. DEFINE held == [i \in Used |-> list[i]]
  <2>1. held \in [Used -> Registered]
    BY DEF Used, Registered
  <2>2. \A i, j \in Used : held[i] = held[j] => i = j
    BY DEF NoDuplicates, Used
  <2>3. \A s \in Registered : \E i \in Used : held[i] = s
    BY DEF Used, Registered
  <2>. HIDE DEF held
  <2>. QED
    <3>1. held \in Bijection(Used, Registered)
      BY <2>1, <2>2, <2>3, Fun_IsBij
    <3>. QED
      BY <3>1, Fun_ExistsBij
<1>5. IsFiniteSet(Registered) /\ Cardinality(Registered) = Cardinality(Used)
  BY <1>3, <1>4, FS_Bijection
<1>. QED
  BY <1>3, <1>5

(* The set counts its members as the array does.                           *)
LEMMA SameCardinality == \A S : Abstract!Cardinality(S) = Cardinality(S)
  BY DEF Abstract!Cardinality, Cardinality, Abstract!IsFiniteSet, IsFiniteSet

(* A step that leaves the array and the results alone, outside a removal,  *)
(* is a stutter of the set.                                                *)
LEMMA QuietIsStutter ==
  ASSUME UNCHANGED <<list, isReturned, delivered>>, Removing' = Removing
  PROVE  UNCHANGED <<Registered \ Removing, isReturned, delivered>>
  BY DEF Registered

(* Every step of a loop is an operation of the set or a stutter.           *)
LEMMA StepImplements ==
  ASSUME LoopInv, [Next]_vars
  PROVE  [Abstract!Next]_<<Registered \ Removing, isReturned, delivered>>
<1>. DEFINE abs == <<Registered \ Removing, isReturned, delivered>>
<1>. USE ConstantsAssumption DEF LoopInv
<1>0. Registered \subseteq Sub
  BY DEF Registered, TypeOK
<1>1. CASE UNCHANGED vars
  BY <1>1 DEF vars, Registered, Removing
<1>2. ASSUME NEW s \in Sub, CallAddSubscription(s) PROVE UNCHANGED abs
  BY <1>2, QuietIsStutter DEF CallAddSubscription, Call, Removing
<1>3. CASE ScanForSlot
  BY <1>3, QuietIsStutter DEF ScanForSlot, NextSlot, Removing
<1>4. CASE FoundDuplicate
  <2>1. argument \in Sub /\ argument \in Registered /\ Removing = {} /\ Removing' = {}
    BY <1>4 DEF FoundDuplicate, Return, Removing, Registered, TypeOK, Sub, Slots
  <2>2. Registered' = Registered /\ isReturned' /\ delivered' = delivered
    BY <1>4 DEF FoundDuplicate, Registered
  <2>3. Abstract!Add(argument)
    BY <2>1, <2>2 DEF Abstract!Add
  <2>. QED
    BY <2>1, <2>3 DEF Abstract!Next, Abstract!Sub, Sub
<1>5. CASE StoreSubscription
  <2>1. argument \in Sub /\ Removing = {} /\ Removing' = {}
    BY <1>5 DEF StoreSubscription, Return, Removing, TypeOK
  <2>2. xAvailableIndex \in Slots /\ list[xAvailableIndex] = Empty
    BY <1>5 DEF StoreSubscription, TypeOK, AddInv, Slots
  <2>3. Cardinality(Registered) < MaxSubscriptions
    <3>1. Used # Slots
      BY <2>2 DEF Used
    <3>. QED
      BY <3>1, RegisteredSize, FS_CardinalityType
  <2>4. Registered' = Registered \cup {argument}
    <3>1. list' = [list EXCEPT ![xAvailableIndex] = argument]
      BY <1>5 DEF StoreSubscription
    <3>2. argument # Empty
      BY <2>1 DEF Sub
    <3>. QED
      BY <3>1, <3>2, <2>2 DEF Registered, TypeOK
  <2>5. isReturned' /\ delivered' = delivered
    BY <1>5 DEF StoreSubscription
  <2>6. Abstract!Add(argument)
    BY <2>1, <2>3, <2>4, <2>5, SameCardinality DEF Abstract!Add
  <2>. QED
    BY <2>1, <2>6 DEF Abstract!Next, Abstract!Sub, Sub
<1>6. CASE ListFull
  <2>1. argument \in Sub /\ Removing = {} /\ Removing' = {}
    BY <1>6 DEF ListFull, Return, Removing, TypeOK
  <2>2. \A i \in Slots : list[i] # argument /\ list[i] # Empty
    <3>1. \A i \in Slots : i > lIndex /\ i < xAvailableIndex
      BY <1>6 DEF ListFull, Slots, TypeOK
    <3>. QED
      BY <1>6, <3>1 DEF ListFull, AddInv
  <2>3. argument \notin Registered
    BY <2>2 DEF Registered
  <2>4. Cardinality(Registered) = MaxSubscriptions
    BY <2>2, RegisteredSize DEF Used
  <2>5. Registered' = Registered /\ isReturned' = FALSE /\ delivered' = delivered
    BY <1>6 DEF ListFull, Registered
  <2>6. Abstract!Refuse(argument)
    BY <2>1, <2>3, <2>4, <2>5, SameCardinality DEF Abstract!Refuse
  <2>. QED
    BY <2>1, <2>6 DEF Abstract!Next, Abstract!Sub, Sub
<1>7. ASSUME NEW f \in Filters, CallRemoveSubscription(f) PROVE Abstract!Remove(f)
  <2>1. /\ Removing = {}
        /\ Removing' = {s \in Sub : s.filter = f}
        /\ Registered' = Registered
        /\ isReturned' = isReturned /\ delivered' = delivered
    BY <1>7 DEF CallRemoveSubscription, Call, Removing, Registered
  <2>. QED
    BY <1>0, <2>1 DEF Abstract!Remove
<1>8. CASE ClearSlot
  <2>. USE DEF ClearSlot, NextSlot
  <2>1. Removing' = Removing /\ Removing = {s \in Sub : s.filter = argument}
    BY <1>8 DEF Removing
  <2>2. lIndex \in Slots /\ Empty \notin Sub
    BY <1>8 DEF TypeOK, Slots, Sub
  <2>3. CASE ~OfFilter(lIndex, argument)
    BY <1>8, <2>1, <2>3, QuietIsStutter
  <2>4. CASE OfFilter(lIndex, argument)
    <3>1. list[lIndex] \in Removing
      BY <2>1, <2>2, <2>4 DEF OfFilter, TypeOK
    <3>2. list' = [list EXCEPT ![lIndex] = Empty]
      BY <1>8, <2>4
    <3>3. Registered' \subseteq Registered
      BY <2>2, <3>2 DEF Registered, TypeOK
    <3>4. Registered \ {list[lIndex]} \subseteq Registered'
      BY <2>2, <3>2 DEF Registered, TypeOK
    <3>5. Registered' \ Removing = Registered \ Removing
      BY <3>1, <3>3, <3>4
    <3>. QED
      BY <1>8, <2>1, <3>5
  <2>. QED
    BY <2>3, <2>4
<1>9. CASE RemoveReturns
  <2>1. Removing' = {} /\ Removing = {s \in Sub : s.filter = argument}
    BY <1>9 DEF RemoveReturns, Return, Removing
  <2>2. \A i \in Slots : list[i] # Empty => list[i].filter # argument
    BY <1>9 DEF RemoveReturns, RemoveInv, OfFilter, Slots
  <2>3. Registered \ Removing = Registered
    BY <2>1, <2>2 DEF Registered
  <2>4. Registered' = Registered /\ isReturned' = isReturned /\ delivered' = delivered
    BY <1>9 DEF RemoveReturns, Registered
  <2>. QED
    BY <2>1, <2>3, <2>4
<1>10. ASSUME NEW t \in Topics, CallHandleIncomingPublishes(t) PROVE UNCHANGED abs
  BY <1>10, QuietIsStutter DEF CallHandleIncomingPublishes, Call, Removing
<1>11. CASE Dispatch
  BY <1>11, QuietIsStutter DEF Dispatch, NextSlot, Removing
<1>12. CASE DispatchReturns
  <2>1. argument \in Topics /\ Removing = {} /\ Removing' = {}
    BY <1>12 DEF DispatchReturns, Return, Removing, TypeOK
  <2>2. called = {s \in Sub : /\ \E i \in Slots : list[i] = s
                             /\ <<argument, s.filter>> \in Matches}
    <3>1. \A i \in Slots : i < lIndex
      BY <1>12 DEF DispatchReturns, Slots
    <3>2. called = {s \in Sub : /\ \E i \in Slots : i < lIndex /\ list[i] = s
                               /\ <<argument, s.filter>> \in Matches}
      BY <1>12 DEF DispatchReturns, PublishInv
    <3>. QED
      BY <3>1, <3>2
  <2>3. called = {s \in Registered : <<argument, s.filter>> \in Matches}
    <3>1. \A s \in Sub : s \in Registered <=> \E i \in Slots : list[i] = s
      BY DEF Registered, Sub
    <3>. QED
      BY <1>0, <2>2, <3>1
  <2>4. /\ delivered' = called
        /\ isReturned' = (called # {})
        /\ Registered' = Registered
    BY <1>12 DEF DispatchReturns, Registered
  <2>5. Abstract!Publish(argument)
    BY <2>1, <2>3, <2>4 DEF Abstract!Publish
  <2>. QED
    BY <2>1, <2>5 DEF Abstract!Next
<1>. QED
  BY <1>1, <1>2, <1>3, <1>4, <1>5, <1>6, <1>7, <1>8, <1>9, <1>10, <1>11, <1>12
     DEF Next, Abstract!Next

(* The array and the loops over it implement the set of subscriptions that *)
(* the header promises: a registration fails only in a full list, a        *)
(* removal takes every callback of the filter at once, and a publish goes  *)
(* to exactly the callbacks whose filter matches.                          *)
THEOREM ListImplementsSet == Spec => ImplementsSubscriptions
<1>1. Init => Abstract!Init
  BY DEF Init, Abstract!Init, Registered, Removing
<1>2. LoopInv /\ [Next]_vars
        => [Abstract!Next]_<<Registered \ Removing, isReturned, delivered>>
  BY StepImplements
<1>. QED
  BY <1>1, <1>2, LoopsCorrect, PTL DEF Spec, ImplementsSubscriptions, Abstract!Spec
=============================================================================

------------------------- MODULE SubscriptionManager -------------------------
(***************************************************************************)
(* The subscription manager (subscription_manager.c): a fixed array of     *)
(* slots that three loops scan.  The coreMQTT-Agent task makes every call  *)
(* (the command callbacks register and remove, the incoming publish        *)
(* callback dispatches), so an operation runs to its end before another    *)
(* starts; its loop is one step per slot.                                  *)
(***************************************************************************)
EXTENDS Integers, FiniteSets

CONSTANTS
    Filters, Callbacks, Topics,
    Matches,           \* MQTT_MatchTopic
    MaxSubscriptions,  \* SUBSCRIPTION_MANAGER_MAX_SUBSCRIPTIONS
    Empty              \* a slot whose usFilterStringLength is 0

ASSUME ConstantsAssumption ==
    /\ MaxSubscriptions \in Nat \ {0}
    /\ Empty \notin [filter : Filters, callback : Callbacks]

VARIABLES
    list,             \* pxSubscriptionList
    operation,        \* the function that runs, "none" between calls
    argument,         \* its subscription, filter or topic
    lIndex,           \* its loop index
    xAvailableIndex,
    isReturned,       \* what the last operation returned
    called,           \* the subscriptions a dispatch has called so far
    delivered         \* those the last finished dispatch called

vars == <<list, operation, argument, lIndex, xAvailableIndex, isReturned,
          called, delivered>>

Sub   == [filter : Filters, callback : Callbacks]
Slots == 0 .. MaxSubscriptions - 1

Init ==
    /\ list = [i \in Slots |-> Empty]
    /\ operation = "none"
    /\ argument = Empty
    /\ lIndex = 0
    /\ xAvailableIndex = MaxSubscriptions
    /\ isReturned = FALSE
    /\ called = {}
    /\ delivered = {}

Call(name, arg, start) ==
    /\ operation = "none"
    /\ operation' = name
    /\ argument' = arg
    /\ lIndex' = start
    /\ xAvailableIndex' = MaxSubscriptions
    /\ called' = {}
    /\ UNCHANGED <<list, isReturned, delivered>>

Return ==
    /\ operation' = "none"
    /\ UNCHANGED <<argument, lIndex, called>>

NextSlot(step) ==
    /\ lIndex' = lIndex + step
    /\ UNCHANGED <<operation, argument, isReturned, delivered>>

-----------------------------------------------------------------------------
(* addSubscription: from the last slot to the first.                       *)

(* Mutant: the scan starts one slot past the array.                        *)
CallAddSubscriptionPastEnd(s) == Call("add", s, MaxSubscriptions)

CallAddSubscription(s) == Call("add", s, MaxSubscriptions - 1)

(* Mutant: the first free slot the scan meets is kept.                     *)
ScanForSlotKeepsFirst ==
    /\ operation = "add" /\ lIndex >= 0
    /\ list[lIndex] # argument
    /\ xAvailableIndex' = IF list[lIndex] = Empty
                             /\ xAvailableIndex = MaxSubscriptions
                             THEN lIndex ELSE xAvailableIndex
    /\ NextSlot(-1)
    /\ UNCHANGED <<list, called>>

ScanForSlot ==
    /\ operation = "add" /\ lIndex >= 0
    /\ list[lIndex] # argument
    /\ xAvailableIndex' = IF list[lIndex] = Empty THEN lIndex ELSE xAvailableIndex
    /\ NextSlot(-1)
    /\ UNCHANGED <<list, called>>

FoundDuplicate ==
    /\ operation = "add" /\ lIndex >= 0
    /\ list[lIndex] = argument
    /\ xAvailableIndex' = MaxSubscriptions
    /\ isReturned' = TRUE
    /\ Return
    /\ UNCHANGED <<list, delivered>>

(* Mutant: the free slot is taken before the rest is searched.             *)
StoreSubscriptionEarly ==
    /\ operation = "add" /\ xAvailableIndex < MaxSubscriptions
    /\ list' = [list EXCEPT ![xAvailableIndex] = argument]
    /\ isReturned' = TRUE
    /\ Return
    /\ UNCHANGED <<xAvailableIndex, delivered>>

StoreSubscription ==
    /\ operation = "add" /\ lIndex < 0 /\ xAvailableIndex < MaxSubscriptions
    /\ list' = [list EXCEPT ![xAvailableIndex] = argument]
    /\ isReturned' = TRUE
    /\ Return
    /\ UNCHANGED <<xAvailableIndex, delivered>>

ListFull ==
    /\ operation = "add" /\ lIndex < 0 /\ xAvailableIndex = MaxSubscriptions
    /\ isReturned' = FALSE
    /\ Return
    /\ UNCHANGED <<list, xAvailableIndex, delivered>>

-----------------------------------------------------------------------------
(* removeSubscription: every slot of the filter, whatever its callback.    *)

CallRemoveSubscription(f) == Call("remove", f, 0)

OfFilter(i, f) == list[i] # Empty /\ list[i].filter = f

(* Mutant: the loop stops at the first slot of the filter.                 *)
ClearSlotOnce ==
    /\ operation = "remove" /\ lIndex < MaxSubscriptions
    /\ IF OfFilter(lIndex, argument)
          THEN list' = [list EXCEPT ![lIndex] = Empty]
               /\ lIndex' = MaxSubscriptions
          ELSE lIndex' = lIndex + 1 /\ UNCHANGED list
    /\ UNCHANGED <<operation, argument, xAvailableIndex, isReturned, called,
                   delivered>>

ClearSlot ==
    /\ operation = "remove" /\ lIndex < MaxSubscriptions
    /\ list' = IF OfFilter(lIndex, argument)
                  THEN [list EXCEPT ![lIndex] = Empty] ELSE list
    /\ NextSlot(1)
    /\ UNCHANGED <<xAvailableIndex, called>>

RemoveReturns ==
    /\ operation = "remove" /\ lIndex = MaxSubscriptions
    /\ Return
    /\ UNCHANGED <<list, xAvailableIndex, isReturned, delivered>>

-----------------------------------------------------------------------------
(* handleIncomingPublishes.                                                *)

CallHandleIncomingPublishes(t) == Call("publish", t, 0)

Matching(i, t) == list[i] # Empty /\ <<t, list[i].filter>> \in Matches

Dispatch ==
    /\ operation = "publish" /\ lIndex < MaxSubscriptions
    /\ called' = IF Matching(lIndex, argument)
                    THEN called \cup {list[lIndex]} ELSE called
    /\ NextSlot(1)
    /\ UNCHANGED <<list, xAvailableIndex>>

DispatchReturns ==
    /\ operation = "publish" /\ lIndex = MaxSubscriptions
    /\ isReturned' = (called # {})
    /\ delivered' = called
    /\ Return
    /\ UNCHANGED <<list, xAvailableIndex>>

-----------------------------------------------------------------------------
Next ==
    \/ \E s \in Sub : CallAddSubscription(s)
    \/ ScanForSlot \/ FoundDuplicate \/ StoreSubscription \/ ListFull
    \/ \E f \in Filters : CallRemoveSubscription(f)
    \/ ClearSlot \/ RemoveReturns
    \/ \E t \in Topics : CallHandleIncomingPublishes(t)
    \/ Dispatch \/ DispatchReturns

Spec == Init /\ [][Next]_vars

-----------------------------------------------------------------------------
Operations == {"none", "add", "remove", "publish"}

(* Every variable keeps its type, and a loop index stays within the array. *)
TypeOK ==
    /\ list \in [Slots -> Sub \cup {Empty}]
    /\ operation \in Operations
    /\ operation = "add" => argument \in Sub
    /\ operation = "remove" => argument \in Filters
    /\ operation = "publish" => argument \in Topics
    /\ lIndex \in -1 .. MaxSubscriptions
    /\ operation = "add" => lIndex < MaxSubscriptions
    /\ operation \in {"remove", "publish"} => lIndex >= 0
    /\ xAvailableIndex \in 0 .. MaxSubscriptions
    /\ isReturned \in BOOLEAN
    /\ called \subseteq Sub
    /\ delivered \subseteq Sub

(* No subscription is held twice, so that a publish reaches no callback    *)
(* twice for one registration ("If a subscription already exists, don't do *)
(* anything"), though slots are freed and filled in any order.             *)
NoDuplicates ==
    \A i, j \in Slots : list[i] = list[j] /\ list[i] # Empty => i = j

(* A new subscription goes to the first available index, as the comment on *)
(* the backward scan says.                                                 *)
FirstAvailable ==
    operation = "add" /\ lIndex < 0
      => \A i \in Slots : i < xAvailableIndex => list[i] # Empty

(* The array is the set the header promises: once removeSubscription has   *)
(* been called no publish can be handed to the filter's callbacks.         *)
Registered == {list[i] : i \in Slots} \ {Empty}
Removing   == IF operation = "remove" THEN {s \in Sub : s.filter = argument}
                                      ELSE {}
Abstract == INSTANCE Subscriptions
                WITH subs <- Registered \ Removing, status <- isReturned

(* The array and its loops implement the set of subscriptions.             *)
ImplementsSubscriptions == Abstract!Spec
=============================================================================

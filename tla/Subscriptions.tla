---------------------------- MODULE Subscriptions ----------------------------
(***************************************************************************)
(* What the subscription manager promises (subscription_manager.h): a      *)
(* bounded set of pairs of a topic filter and an incoming publish          *)
(* callback, and the fan out of a publish to the callbacks whose filter    *)
(* matches its topic.                                                      *)
(***************************************************************************)
EXTENDS Naturals, FiniteSets

CONSTANTS
    Filters, Callbacks, Topics,
    Matches,           \* the pairs <<topic, filter>> that MQTT_MatchTopic matches
    MaxSubscriptions   \* SUBSCRIPTION_MANAGER_MAX_SUBSCRIPTIONS

VARIABLES
    subs,       \* the registered subscriptions
    status,     \* what the last operation returned
    delivered   \* the subscriptions the last publish was handed to

Sub == [filter : Filters, callback : Callbacks]

Init == subs = {} /\ status = FALSE /\ delivered = {}

Add(s) ==
    /\ s \in subs \/ Cardinality(subs) < MaxSubscriptions
    /\ subs' = subs \cup {s}
    /\ status' = TRUE
    /\ UNCHANGED delivered

(* Registration fails only for a new subscription in a full list.          *)
Refuse(s) ==
    /\ s \notin subs /\ Cardinality(subs) = MaxSubscriptions
    /\ status' = FALSE
    /\ UNCHANGED <<subs, delivered>>

Remove(filter) ==
    /\ subs' = {s \in subs : s.filter # filter}
    /\ UNCHANGED <<status, delivered>>

Publish(topic) ==
    /\ delivered' = {s \in subs : <<topic, s.filter>> \in Matches}
    /\ status' = (delivered' # {})
    /\ UNCHANGED subs

Next ==
    \/ \E s \in Sub : Add(s) \/ Refuse(s)
    \/ \E f \in Filters : Remove(f)
    \/ \E t \in Topics : Publish(t)

Spec == Init /\ [][Next]_<<subs, status, delivered>>
=============================================================================

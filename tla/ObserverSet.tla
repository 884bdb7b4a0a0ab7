----------------------------- MODULE ObserverSet -----------------------------
(***************************************************************************)
(* The observer registry that signal_channel! generates for a channel with *)
(* an observable block (macros/src/emit.rs, emit_observable_runtime): a    *)
(* vector of subscriptions with their tokens and filters, a wrapping       *)
(* counter of tokens, and the two publish methods that deliver an event to *)
(* every subscription whose filter admits it.                              *)
(*                                                                         *)
(* The order of the calls is the daemon's; any order is possible.  The     *)
(* registry remembers only what is live, so calls is a history of what was *)
(* asked and answered, against which the answers are judged.               *)
(***************************************************************************)
EXTENDS Integers, Sequences, FiniteSets

CONSTANTS
  TokenSpan,    \* number of values of a token: 2^64 in the code
  MaxCalls      \* bound: calls made on one registry

ASSUME ObserverAssumption ==
  /\ TokenSpan \in Nat \ {0, 1}
  /\ MaxCalls \in Nat

Tokens == 0 .. TokenSpan - 1

\* The variants of the generated default filter, and which of the two
\* publication moments each of them admits.
Filters == {"All", "OperationsOnly", "EffectsOnly"}
Roles == {"OperationReceived", "EffectEmitted"}

MatchesOperationReceived(filter) == filter \in {"All", "OperationsOnly"}
MatchesEffectEmitted(filter) == filter \in {"All", "EffectsOnly"}

Matches(filter, role) ==
  IF role = "OperationReceived" THEN MatchesOperationReceived(filter)
                                ELSE MatchesEffectEmitted(filter)

VARIABLES
  subscriptions,  \* the vector; ordinal counts registrations (history)
  nextToken,      \* next_token_value
  registered,     \* number of registrations so far (history)
  calls           \* the calls so far with their answers (history)

vars == <<subscriptions, nextToken, registered, calls>>

Subscription == [token : Tokens, filter : Filters, ordinal : Nat \ {0}]

Calls ==
  [call : {"register"}, token : Tokens, filter : Filters]
    \cup [call : {"unregister"}, token : Tokens, removed : BOOLEAN]
    \cup [call : {"publish"}, role : Roles, delivered : Seq(Tokens)]

-----------------------------------------------------------------------------
\* The ways to list positions in ascending order: there is one.
InOrder(positions) ==
  {list \in [1 .. Cardinality(positions) -> positions] :
     \A i, j \in 1 .. Cardinality(positions) : i < j => list[i] < list[j]}

\* ObserverSet::new
Init ==
  /\ subscriptions = <<>>
  /\ nextToken = 1
  /\ registered = 0
  /\ calls = <<>>

Record(call) ==
  /\ Len(calls) < MaxCalls
  /\ calls' = Append(calls, call)

\* Seeded faults: the counter does not wrap; the next token follows the length
\* of the vector.
RegisterWithoutWrap(filter) ==
  /\ subscriptions' = Append(subscriptions,
       [token |-> nextToken, filter |-> filter, ordinal |-> registered + 1])
  /\ nextToken' = nextToken + 1
  /\ registered' = registered + 1
  /\ Record([call |-> "register", token |-> nextToken, filter |-> filter])

RegisterByLength(filter) ==
  /\ subscriptions' = Append(subscriptions,
       [token |-> nextToken, filter |-> filter, ordinal |-> registered + 1])
  /\ nextToken' = (Len(subscriptions') + 1) % TokenSpan
  /\ registered' = registered + 1
  /\ Record([call |-> "register", token |-> nextToken, filter |-> filter])

\* register: the token is taken from the counter, which wraps.
Register(filter) ==
  /\ subscriptions' = Append(subscriptions,
       [token |-> nextToken, filter |-> filter, ordinal |-> registered + 1])
  /\ nextToken' = (nextToken + 1) % TokenSpan
  /\ registered' = registered + 1
  /\ Record([call |-> "register", token |-> nextToken, filter |-> filter])

\* Seeded faults: the condition is inverted; the answer is always true.
UnregisterOthers(token) ==
  /\ \E list \in InOrder({i \in DOMAIN subscriptions : subscriptions[i].token = token}) :
       subscriptions' = [i \in DOMAIN list |-> subscriptions[list[i]]]
  /\ Record([call |-> "unregister", token |-> token,
             removed |-> Len(subscriptions') # Len(subscriptions)])
  /\ UNCHANGED <<nextToken, registered>>

UnregisterAlwaysTrue(token) ==
  /\ \E list \in InOrder({i \in DOMAIN subscriptions : subscriptions[i].token # token}) :
       subscriptions' = [i \in DOMAIN list |-> subscriptions[list[i]]]
  /\ Record([call |-> "unregister", token |-> token, removed |-> TRUE])
  /\ UNCHANGED <<nextToken, registered>>

\* unregister: retain every subscription with another token, in place, and
\* tell whether the length changed.
Unregister(token) ==
  /\ \E list \in InOrder({i \in DOMAIN subscriptions : subscriptions[i].token # token}) :
       subscriptions' = [i \in DOMAIN list |-> subscriptions[list[i]]]
  /\ Record([call |-> "unregister", token |-> token,
             removed |-> Len(subscriptions') # Len(subscriptions)])
  /\ UNCHANGED <<nextToken, registered>>

\* Seeded fault: the filters are not asked.
PublishToAll(role) ==
  /\ Record([call |-> "publish", role |-> role,
             delivered |-> [i \in DOMAIN subscriptions |-> subscriptions[i].token]])
  /\ UNCHANGED <<subscriptions, nextToken, registered>>

\* publish_operation_received and publish_effect_emitted: one delivery for
\* each admitting subscription, in the order of the vector.
Publish(role) ==
  /\ \E list \in InOrder({i \in DOMAIN subscriptions : Matches(subscriptions[i].filter, role)}) :
       Record([call |-> "publish", role |-> role,
               delivered |-> [i \in DOMAIN list |-> subscriptions[list[i]].token]])
  /\ UNCHANGED <<subscriptions, nextToken, registered>>

Next ==
  \/ \E filter \in Filters : Register(filter)
  \/ \E token \in Tokens : Unregister(token)
  \/ \E role \in Roles : Publish(role)

Spec == Init /\ [][Next]_vars

-----------------------------------------------------------------------------
(***************************************************************************)
(* Properties                                                              *)
(***************************************************************************)

\* The state is well typed; the counter stays within the width of a token
\* (wrapping_add in register).
TypeOK ==
  /\ subscriptions \in Seq(Subscription)
  /\ nextToken \in Tokens
  /\ registered \in Nat
  /\ calls \in Seq(Calls)

\* The registrations of the history that were live just before call k: no
\* unregister of their token came between.
LiveBefore(k) ==
  {j \in 1 .. k - 1 :
     /\ calls[j].call = "register"
     /\ \A u \in j + 1 .. k - 1 :
          ~ (calls[u].call = "unregister" /\ calls[u].token = calls[j].token)}

\* Every publication reaches exactly the observers that had registered and not
\* unregistered before it and whose filter admits it, each once, the oldest
\* registration first, however tokens were reused (publish_* and retain).
DeliveriesMatchHistory ==
  \A k \in DOMAIN calls : calls[k].call = "publish" =>
    \E list \in InOrder({j \in LiveBefore(k) : Matches(calls[j].filter, calls[k].role)}) :
      calls[k].delivered = [i \in DOMAIN list |-> calls[list[i]].token]

\* unregister answers true exactly if some registration of that token was
\* still live: closing twice, or a token never issued, answers false.
ClosingIsHonest ==
  \A k \in DOMAIN calls : calls[k].call = "unregister" =>
    (calls[k].removed <=> \E j \in LiveBefore(k) : calls[j].token = calls[k].token)

\* Tokens are the registrations' numbers modulo the width, so two observers
\* that are live together share a token only if a whole span of registrations
\* lies between them (wrapping_add in register).
TokensDistinctWithinSpan ==
  \A i, j \in DOMAIN subscriptions :
    /\ i < j
    /\ subscriptions[i].token = subscriptions[j].token
    => subscriptions[j].ordinal - subscriptions[i].ordinal >= TokenSpan

\* Where the tokens and their order come from: a registration's number gives
\* its token, and the vector is sorted by that number.
SubscriptionsNumbered ==
  /\ nextToken = (registered + 1) % TokenSpan
  /\ \A i \in DOMAIN subscriptions :
       /\ subscriptions[i].ordinal <= registered
       /\ subscriptions[i].token = subscriptions[i].ordinal % TokenSpan
  /\ \A i, j \in DOMAIN subscriptions :
       i < j => subscriptions[i].ordinal < subscriptions[j].ordinal

\* The vector mirrors the history: it holds the live registrations in the order
\* in which they were made.
SubscriptionsMirrorHistory ==
  \E list \in InOrder(LiveBefore(Len(calls) + 1)) :
    /\ DOMAIN subscriptions = DOMAIN list
    /\ \A i \in DOMAIN list :
         /\ subscriptions[i].token = calls[list[i]].token
         /\ subscriptions[i].filter = calls[list[i]].filter

\* One unregister removes one observer as long as no live observer is a whole
\* span of registrations old: the others keep their subscriptions and places.
ClosesOneObserver ==
  [][\A token \in Tokens :
       /\ calls' = Append(calls, [call |-> "unregister", token |-> token, removed |-> TRUE])
       /\ \A i \in DOMAIN subscriptions : registered - subscriptions[i].ordinal < TokenSpan
       => \E i \in DOMAIN subscriptions :
            /\ subscriptions[i].token = token
            /\ subscriptions' = SubSeq(subscriptions, 1, i - 1)
                                  \o SubSeq(subscriptions, i + 1, Len(subscriptions))]_vars

=============================================================================

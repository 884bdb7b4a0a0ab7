-------------------------- MODULE ObserverSet_proofs --------------------------
(***************************************************************************)
(* ObserverSet for every width of the tokens and any number of calls.      *)
(***************************************************************************)
EXTENDS ObserverSet, RemainderTheorems, FiniteSetTheorems, FunctionTheorems, SequenceTheorems,
        WellFoundedInduction

-----------------------------------------------------------------------------
(***************************************************************************)
(* Lists of positions.                                                     *)
(***************************************************************************)

\* A listing in order of positions of a sequence is ascending, takes its
\* values there, and is as long as they are many.
LEMMA InOrderProperties ==
  ASSUME NEW n \in Nat, NEW positions \in SUBSET (1 .. n), NEW list \in InOrder(positions)
  PROVE  /\ DOMAIN list = 1 .. Cardinality(positions)
         /\ Cardinality(positions) \in Nat
         /\ \A i \in DOMAIN list : list[i] \in positions
         /\ \A i, j \in DOMAIN list : i < j => list[i] < list[j]
<1>1. IsFiniteSet(positions)
  <2>1. IsFiniteSet(1 .. n)
    BY FS_Interval
  <2> QED
    BY <2>1, FS_Subset
<1>2. Cardinality(positions) \in Nat
  BY <1>1, FS_CardinalityType
<1> QED
  BY <1>2 DEF InOrder

-----------------------------------------------------------------------------
(***************************************************************************)
(* The inductive invariant.                                                *)
(***************************************************************************)

ObserverInv == TypeOK /\ SubscriptionsNumbered

\* ObserverSet::new satisfies the invariant.
LEMMA InitInv == Init => ObserverInv
  BY ObserverAssumption, 1 % TokenSpan = 1
     DEF Init, ObserverInv, TypeOK, SubscriptionsNumbered, Tokens

\* register keeps the invariant.
LEMMA RegisterKeepsInv ==
  ASSUME ObserverInv, NEW filter \in Filters, Register(filter)
  PROVE  ObserverInv'
<1> DEFINE new == [token |-> nextToken, filter |-> filter, ordinal |-> registered + 1]
<1>1. /\ subscriptions' = Append(subscriptions, new)
      /\ nextToken' = (nextToken + 1) % TokenSpan
      /\ registered' = registered + 1
      /\ calls' = Append(calls,
                    [call |-> "register", token |-> nextToken, filter |-> filter])
  BY DEF Register, Record
<1>2. TypeOK /\ SubscriptionsNumbered
  BY DEF ObserverInv
<1>3. new \in Subscription
  BY <1>2 DEF TypeOK, Subscription
<1>4. nextToken' \in Tokens
  BY <1>1, <1>2, ObserverAssumption DEF TypeOK, Tokens
<1>5. TypeOK'
  <2>1. subscriptions' \in Seq(Subscription) /\ registered' \in Nat
    BY <1>1, <1>2, <1>3 DEF TypeOK
  <2>2. [call |-> "register", token |-> nextToken, filter |-> filter] \in Calls
    BY <1>2 DEF TypeOK, Calls
  <2>3. calls' \in Seq(Calls)
    BY <1>1, <1>2, <2>2 DEF TypeOK
  <2> QED
    BY <1>4, <2>1, <2>3 DEF TypeOK
<1>6. SubscriptionsNumbered'
  <2>1. nextToken' = (registered' + 1) % TokenSpan
    <3>1. registered + 1 \in Nat /\ TokenSpan \in Nat \ {0, 1}
      BY <1>2, ObserverAssumption DEF TypeOK
    <3>2. (((registered + 1) % TokenSpan) + 1) % TokenSpan = ((registered + 1) + 1) % TokenSpan
      BY <3>1, WrappingAdd
    <3> QED
      BY <1>1, <1>2, <3>2 DEF SubscriptionsNumbered
  <2> DEFINE n == Len(subscriptions)
  <2>2. /\ subscriptions \in Seq(Subscription)
        /\ n \in Nat
        /\ DOMAIN subscriptions' = 1 .. n + 1
        /\ subscriptions'[n + 1] = new
        /\ \A i \in 1 .. n : i \in DOMAIN subscriptions /\ subscriptions'[i] = subscriptions[i]
    BY <1>1, <1>2, <1>3 DEF TypeOK
  <2>3. new.ordinal = registered + 1 /\ new.token = new.ordinal % TokenSpan
    BY <1>2 DEF SubscriptionsNumbered
  <2>4. \A i \in 1 .. n : /\ subscriptions[i].ordinal \in Nat
                          /\ subscriptions[i].ordinal <= registered
                          /\ subscriptions[i].token = subscriptions[i].ordinal % TokenSpan
    <3> TAKE i \in 1 .. n
    <3>1. i \in DOMAIN subscriptions /\ subscriptions[i] \in Subscription
      BY <2>2
    <3> QED
      BY <1>2, <3>1 DEF SubscriptionsNumbered, Subscription
  <2>5. \A i \in DOMAIN subscriptions' :
          /\ subscriptions'[i].ordinal <= registered'
          /\ subscriptions'[i].token = subscriptions'[i].ordinal % TokenSpan
    <3> TAKE i \in DOMAIN subscriptions'
    <3>1. i \in 1 .. n \/ i = n + 1
      BY <2>2
    <3> QED
      BY <1>1, <1>2, <2>2, <2>3, <2>4, <3>1 DEF TypeOK
  <2>6. \A i, j \in DOMAIN subscriptions' :
          i < j => subscriptions'[i].ordinal < subscriptions'[j].ordinal
    <3> SUFFICES ASSUME NEW i \in DOMAIN subscriptions', NEW j \in DOMAIN subscriptions', i < j
                 PROVE  subscriptions'[i].ordinal < subscriptions'[j].ordinal
      OBVIOUS
    <3>1. i \in 1 .. n /\ (j \in 1 .. n \/ j = n + 1)
      BY <2>2
    <3>2. CASE j \in 1 .. n
      BY <1>2, <2>2, <3>1, <3>2 DEF SubscriptionsNumbered
    <3>3. CASE j = n + 1
      BY <1>2, <2>2, <2>3, <2>4, <3>1, <3>3 DEF TypeOK
    <3> QED
      BY <3>1, <3>2, <3>3
  <2> QED
    BY <2>1, <2>5, <2>6 DEF SubscriptionsNumbered
<1> QED
  BY <1>5, <1>6 DEF ObserverInv

\* A subsequence taken in order keeps the numbering.
LEMMA UnregisterKeepsInv ==
  ASSUME ObserverInv, NEW token \in Tokens, Unregister(token)
  PROVE  ObserverInv'
<1> DEFINE kept == {i \in DOMAIN subscriptions : subscriptions[i].token # token}
<1>1. PICK list \in InOrder(kept) :
        subscriptions' = [i \in DOMAIN list |-> subscriptions[list[i]]]
  BY DEF Unregister
<1>2. /\ UNCHANGED <<nextToken, registered>>
      /\ calls' = Append(calls, [call |-> "unregister", token |-> token,
                                 removed |-> Len(subscriptions') # Len(subscriptions)])
  BY DEF Unregister, Record
<1>3. TypeOK /\ SubscriptionsNumbered
  BY DEF ObserverInv
<1>4. /\ DOMAIN list = 1 .. Cardinality(kept)
      /\ Cardinality(kept) \in Nat
      /\ \A i \in DOMAIN list : list[i] \in kept
      /\ \A i, j \in DOMAIN list : i < j => list[i] < list[j]
  <2>1. Len(subscriptions) \in Nat /\ kept \in SUBSET (1 .. Len(subscriptions))
    BY <1>3 DEF TypeOK
  <2> HIDE DEF kept
  <2> QED
    BY <1>1, <2>1, InOrderProperties
<1>5. subscriptions' \in Seq(Subscription)
  <2>1. \A i \in 1 .. Cardinality(kept) : subscriptions[list[i]] \in Subscription
    BY <1>3, <1>4 DEF TypeOK
  <2> HIDE DEF kept
  <2> QED
    BY <1>1, <1>4, <2>1
<1>6. TypeOK'
  <2>1. [call |-> "unregister", token |-> token,
         removed |-> Len(subscriptions') # Len(subscriptions)] \in Calls
    BY DEF Calls
  <2>2. calls' \in Seq(Calls)
    BY <1>2, <1>3, <2>1 DEF TypeOK
  <2> QED
    BY <1>2, <1>3, <1>5, <2>2 DEF TypeOK
<1>7. SubscriptionsNumbered'
  <2>1. /\ DOMAIN subscriptions' = DOMAIN list
        /\ \A i \in DOMAIN list : /\ list[i] \in DOMAIN subscriptions
                                  /\ subscriptions'[i] = subscriptions[list[i]]
    BY <1>1, <1>4
  <2> QED
    BY <1>2, <1>3, <1>4, <2>1 DEF SubscriptionsNumbered
<1> QED
  BY <1>6, <1>7 DEF ObserverInv

\* The publish methods keep the invariant.
LEMMA PublishKeepsInv ==
  ASSUME ObserverInv, NEW role \in Roles, Publish(role)
  PROVE  ObserverInv'
<1> DEFINE admitted == {i \in DOMAIN subscriptions : Matches(subscriptions[i].filter, role)}
<1>1. PICK list \in InOrder(admitted) :
        calls' = Append(calls, [call |-> "publish", role |-> role,
                   delivered |-> [i \in DOMAIN list |-> subscriptions[list[i]].token]])
  BY DEF Publish, Record
<1>2. UNCHANGED <<subscriptions, nextToken, registered>>
  BY DEF Publish
<1>3. TypeOK /\ SubscriptionsNumbered
  BY DEF ObserverInv
<1>4. /\ DOMAIN list = 1 .. Cardinality(admitted)
      /\ Cardinality(admitted) \in Nat
      /\ \A i \in DOMAIN list : list[i] \in admitted
  <2>1. Len(subscriptions) \in Nat /\ admitted \in SUBSET (1 .. Len(subscriptions))
    BY <1>3 DEF TypeOK
  <2> HIDE DEF admitted
  <2> QED
    BY <1>1, <2>1, InOrderProperties
<1> DEFINE delivered == [i \in DOMAIN list |-> subscriptions[list[i]].token]
<1>5. delivered \in Seq(Tokens)
  <2>1. \A i \in 1 .. Cardinality(admitted) : subscriptions[list[i]].token \in Tokens
    <3> SUFFICES ASSUME NEW i \in 1 .. Cardinality(admitted)
                 PROVE  subscriptions[list[i]].token \in Tokens
      OBVIOUS
    <3>1. list[i] \in DOMAIN subscriptions
      BY <1>4
    <3>2. subscriptions[list[i]] \in Subscription
      BY <1>3, <3>1 DEF TypeOK
    <3> QED
      BY <3>2 DEF Subscription
  <2> HIDE DEF admitted
  <2> QED
    BY <1>4, <2>1
<1> HIDE DEF delivered
<1>6. [call |-> "publish", role |-> role, delivered |-> delivered] \in Calls
  BY <1>5 DEF Calls
<1>7. calls' \in Seq(Calls)
  BY <1>1, <1>3, <1>6 DEF TypeOK, delivered
<1>8. TypeOK'
  BY <1>2, <1>3, <1>7 DEF TypeOK
<1>9. SubscriptionsNumbered'
  BY <1>2, <1>3 DEF SubscriptionsNumbered
<1> QED
  BY <1>8, <1>9 DEF ObserverInv

\* Types and numbering hold of every reachable registry.
THEOREM ObserverInvariant == Spec => []ObserverInv
<1>1. ObserverInv /\ [Next]_vars => ObserverInv'
  <2> SUFFICES ASSUME ObserverInv, [Next]_vars PROVE ObserverInv'
    OBVIOUS
  <2>1. ASSUME NEW filter \in Filters, Register(filter) PROVE ObserverInv'
    BY <2>1, RegisterKeepsInv
  <2>2. ASSUME NEW token \in Tokens, Unregister(token) PROVE ObserverInv'
    BY <2>2, UnregisterKeepsInv
  <2>3. ASSUME NEW role \in Roles, Publish(role) PROVE ObserverInv'
    BY <2>3, PublishKeepsInv
  <2>4. CASE UNCHANGED vars
    BY <2>4 DEF vars, ObserverInv, TypeOK, SubscriptionsNumbered
  <2> QED
    BY <2>1, <2>2, <2>3, <2>4 DEF Next
<1> QED
  BY InitInv, <1>1, PTL DEF Spec

\* The variables keep their types.
THEOREM TypeCorrect == Spec => []TypeOK
  BY ObserverInvariant, PTL DEF ObserverInv

\* Two live observers share a token only a whole span of registrations apart.
THEOREM TokensDistinct == Spec => []TokensDistinctWithinSpan
<1>1. ObserverInv => TokensDistinctWithinSpan
  <2> SUFFICES ASSUME ObserverInv,
                      NEW i \in DOMAIN subscriptions, NEW j \in DOMAIN subscriptions,
                      i < j, subscriptions[i].token = subscriptions[j].token
               PROVE  subscriptions[j].ordinal - subscriptions[i].ordinal >= TokenSpan
    BY DEF TokensDistinctWithinSpan
  <2>1. /\ subscriptions[i].ordinal \in Nat
        /\ subscriptions[j].ordinal \in Nat
    <3>1. subscriptions[i] \in Subscription /\ subscriptions[j] \in Subscription
      BY DEF ObserverInv, TypeOK
    <3> QED
      BY <3>1 DEF Subscription
  <2>2. /\ subscriptions[i].ordinal < subscriptions[j].ordinal
        /\ subscriptions[i].ordinal % TokenSpan = subscriptions[j].ordinal % TokenSpan
    BY DEF ObserverInv, SubscriptionsNumbered
  <2> QED
    BY <2>1, <2>2, SameRemainder, ObserverAssumption
<1> QED
  BY <1>1, ObserverInvariant, PTL

-----------------------------------------------------------------------------
(***************************************************************************)
(* The answers agree with the history.                                     *)
(***************************************************************************)

\* A listing in order is one to one and reaches every position.
LEMMA InOrderBijection ==
  ASSUME NEW n \in Nat, NEW positions \in SUBSET (1 .. n), NEW list \in InOrder(positions)
  PROVE  /\ IsFiniteSet(positions)
         /\ \A i, j \in DOMAIN list : list[i] = list[j] => i = j
         /\ \A p \in positions : \E i \in DOMAIN list : list[i] = p
<1> DEFINE size == Cardinality(positions)
<1>1. /\ DOMAIN list = 1 .. size
      /\ size \in Nat
      /\ \A i \in DOMAIN list : list[i] \in positions
      /\ \A i, j \in DOMAIN list : i < j => list[i] < list[j]
  BY InOrderProperties
<1>2. IsFiniteSet(positions)
  <2>1. IsFiniteSet(1 .. n)
    BY FS_Interval
  <2> QED
    BY <2>1, FS_Subset
<1>3. ASSUME NEW i \in DOMAIN list, NEW j \in DOMAIN list, list[i] = list[j]
      PROVE  i = j
  <2>1. list[i] \in 1 .. n /\ list[j] \in 1 .. n
    BY <1>1
  <2>2. i \in Nat /\ j \in Nat
    BY <1>1
  <2>3. ~ (i < j) /\ ~ (j < i)
    BY <1>1, <1>3, <2>1
  <2> QED
    BY <2>2, <2>3
<1>4. list \in Injection(1 .. size, positions)
  <2>1. list \in [1 .. size -> positions]
    BY DEF InOrder
  <2> QED
    BY <1>1, <1>3, <2>1 DEF Injection, IsInjective
<1>5. Cardinality(1 .. size) = size
  BY <1>1, FS_Interval
<1>6. list \in Surjection(1 .. size, positions)
  BY <1>2, <1>4, <1>5, FS_Injection
<1> QED
  BY <1>1, <1>2, <1>3, <1>6 DEF Surjection

\* Listing some entries of a listing in order lists their positions in order.
LEMMA ComposeInOrder ==
  ASSUME NEW n \in Nat, NEW positions \in SUBSET (1 .. n), NEW list \in InOrder(positions),
         NEW chosen \in SUBSET (DOMAIN list), NEW part \in InOrder(chosen)
  PROVE  [i \in DOMAIN part |-> list[part[i]]] \in InOrder({list[k] : k \in chosen})
<1> DEFINE image == {list[k] : k \in chosen}
           f == [k \in chosen |-> list[k]]
<1>1. /\ DOMAIN list = 1 .. Cardinality(positions)
      /\ Cardinality(positions) \in Nat
      /\ \A i, j \in DOMAIN list : i < j => list[i] < list[j]
  BY InOrderProperties
<1>2. /\ chosen \in SUBSET (1 .. Cardinality(positions))
      /\ IsFiniteSet(chosen)
  <2>1. chosen \in SUBSET (1 .. Cardinality(positions))
    BY <1>1
  <2> QED
    BY <1>1, <2>1, InOrderBijection
<1>3. /\ DOMAIN part = 1 .. Cardinality(chosen)
      /\ \A i \in DOMAIN part : part[i] \in chosen
      /\ \A i, j \in DOMAIN part : i < j => part[i] < part[j]
  BY <1>1, <1>2, InOrderProperties
<1>4. f \in Bijection(chosen, image)
  <2>1. f \in [chosen -> image]
    OBVIOUS
  <2>2. \A a, b \in chosen : f[a] = f[b] => a = b
    BY InOrderBijection
  <2>3. \A y \in image : \E x \in chosen : f[x] = y
    OBVIOUS
  <2> QED
    BY <2>1, <2>2, <2>3 DEF Bijection, Injection, Surjection, IsInjective
<1>5. Cardinality(image) = Cardinality(chosen)
  <2>1. ExistsBijection(chosen, image)
    BY <1>4 DEF ExistsBijection
  <2> QED
    BY <1>2, <2>1, FS_Bijection
<1>6. \A i \in DOMAIN part : list[part[i]] \in image
  BY <1>3
<1>7. \A i, j \in DOMAIN part : i < j => list[part[i]] < list[part[j]]
  BY <1>1, <1>3
<1> HIDE DEF image
<1> QED
  BY <1>3, <1>5, <1>6, <1>7 DEF InOrder, image

\* A new last position goes to the end of the listing.
LEMMA ExtendInOrder ==
  ASSUME NEW n \in Nat, NEW positions \in SUBSET (1 .. n), NEW list \in InOrder(positions)
  PROVE  /\ [i \in 1 .. Cardinality(positions) + 1 |->
              IF i = Cardinality(positions) + 1 THEN n + 1 ELSE list[i]]
              \in InOrder(positions \cup {n + 1})
         /\ Cardinality(positions \cup {n + 1}) = Cardinality(positions) + 1
<1> DEFINE size == Cardinality(positions)
<1>1. /\ DOMAIN list = 1 .. size
      /\ size \in Nat
      /\ \A i \in DOMAIN list : list[i] \in positions
      /\ \A i, j \in DOMAIN list : i < j => list[i] < list[j]
  BY InOrderProperties
<1>2. Cardinality(positions \cup {n + 1}) = size + 1
  <2>1. IsFiniteSet(positions)
    BY InOrderBijection
  <2>2. n + 1 \notin positions
    OBVIOUS
  <2> QED
    BY <2>1, <2>2, FS_AddElement
<1> HIDE DEF size
<1> DEFINE longer == [i \in 1 .. size + 1 |-> IF i = size + 1 THEN n + 1 ELSE list[i]]
<1>3. longer \in [1 .. size + 1 -> positions \cup {n + 1}]
  BY <1>1
<1>4. \A i, j \in 1 .. size + 1 : i < j => longer[i] < longer[j]
  <2> SUFFICES ASSUME NEW i \in 1 .. size + 1, NEW j \in 1 .. size + 1, i < j
               PROVE  longer[i] < longer[j]
    OBVIOUS
  <2>1. i \in 1 .. size /\ i # size + 1
    BY <1>1
  <2>2. list[i] \in 1 .. n
    BY <1>1, <2>1
  <2>3. longer[i] = list[i]
    BY <2>1
  <2>4. CASE j = size + 1
    BY <1>1, <2>2, <2>3, <2>4
  <2>5. CASE j \in 1 .. size
    <3>1. longer[j] = list[j]
      BY <1>1, <2>5
    <3> QED
      BY <1>1, <2>1, <2>3, <2>5, <3>1
  <2> QED
    BY <1>1, <2>4, <2>5
<1> QED
  BY <1>2, <1>3, <1>4 DEF InOrder, size

HistoryInv ==
  /\ TypeOK
  /\ SubscriptionsMirrorHistory
  /\ DeliveriesMatchHistory
  /\ ClosingIsHonest

\* A later call does not change what was live before an earlier one.
LEMMA LiveBeforeStable ==
  ASSUME TypeOK, NEW call, calls' = Append(calls, call),
         NEW k \in 1 .. Len(calls) + 1
  PROVE  LiveBefore(k)' = LiveBefore(k)
<1>1. Len(calls) \in Nat /\ \A j \in 1 .. Len(calls) : calls'[j] = calls[j]
  BY DEF TypeOK
<1>2. \A j \in 1 .. k - 1 : calls'[j] = calls[j]
  BY <1>1
<1>3. \A j \in 1 .. k - 1 : \A u \in j + 1 .. k - 1 : calls'[u] = calls[u]
  BY <1>1, <1>2
<1> QED
  BY <1>2, <1>3 DEF LiveBefore

\* What is live after one more call.
LEMMA LiveAfterCall ==
  ASSUME TypeOK, NEW call \in Calls, calls' = Append(calls, call),
         NEW n, n = Len(calls)
  PROVE  LiveBefore(n + 2)' =
           {j \in LiveBefore(n + 1) :
              ~ (call.call = "unregister" /\ call.token = calls[j].token)}
             \cup (IF call.call = "register" THEN {n + 1} ELSE {})
<1> DEFINE Closed(j, u) == calls'[u].call = "unregister" /\ calls'[u].token = calls'[j].token
<1>1. /\ n \in Nat
      /\ \A j \in 1 .. n : calls'[j] = calls[j]
      /\ calls'[n + 1] = call
  BY DEF TypeOK
<1>2. LiveBefore(n + 2)' =
        {j \in 1 .. n + 1 : /\ calls'[j].call = "register"
                            /\ \A u \in j + 1 .. n + 1 : ~ Closed(j, u)}
  <2>1. 1 .. (n + 2) - 1 = 1 .. n + 1 /\ \A j \in 1 .. n + 1 : j + 1 .. (n + 2) - 1 = j + 1 .. n + 1
    BY <1>1
  <2> QED
    BY <2>1 DEF LiveBefore
<1>3. LiveBefore(n + 1) =
        {j \in 1 .. n : /\ calls'[j].call = "register"
                        /\ \A u \in j + 1 .. n : ~ Closed(j, u)}
  <2>1. 1 .. (n + 1) - 1 = 1 .. n /\ \A j \in 1 .. n : j + 1 .. (n + 1) - 1 = j + 1 .. n
    BY <1>1
  <2>2. \A j \in 1 .. n : \A u \in j + 1 .. n : calls'[u] = calls[u]
    BY <1>1
  <2> QED
    BY <1>1, <2>1, <2>2 DEF LiveBefore
<1>4. \A j \in 1 .. n : (\A u \in j + 1 .. n + 1 : ~ Closed(j, u))
                          <=> (\A u \in j + 1 .. n : ~ Closed(j, u)) /\ ~ Closed(j, n + 1)
  <2> TAKE j \in 1 .. n
  <2>1. j + 1 .. n + 1 = (j + 1 .. n) \cup {n + 1}
    BY <1>1
  <2> HIDE DEF Closed
  <2> QED
    BY <2>1
<1>5. \A u \in (n + 1) + 1 .. n + 1 : FALSE
  BY <1>1
<1>6. \A j \in 1 .. n : Closed(j, n + 1)
                          <=> call.call = "unregister" /\ call.token = calls[j].token
  BY <1>1
<1>7. 1 .. n + 1 = (1 .. n) \cup {n + 1} /\ n + 1 \notin 1 .. n
  BY <1>1
<1>8. calls'[n + 1].call = "register" <=> call.call = "register"
  BY <1>1
<1> HIDE DEF Closed
<1>9. \A j : j \in LiveBefore(n + 2)' <=>
        \/ j \in LiveBefore(n + 1) /\ ~ (call.call = "unregister" /\ call.token = calls[j].token)
        \/ j = n + 1 /\ call.call = "register"
  <2> TAKE j
  <2>1. CASE j \in 1 .. n
    BY <1>2, <1>3, <1>4, <1>6, <1>7, <2>1
  <2>2. CASE j = n + 1
    BY <1>2, <1>3, <1>5, <1>7, <1>8, <2>2
  <2>3. CASE j \notin 1 .. n + 1
    BY <1>2, <1>3, <1>7, <2>3
  <2> QED
    BY <1>7, <2>1, <2>2, <2>3
<1> QED
  BY <1>9

\* Once the newest call's own answer is right, so are all answers.
LEMMA AnswersStayRight ==
  ASSUME HistoryInv, NEW call \in Calls, calls' = Append(calls, call),
         call.call = "publish" =>
           \E list \in InOrder({j \in LiveBefore(Len(calls) + 1) :
                                  Matches(calls[j].filter, call.role)}) :
             call.delivered = [i \in DOMAIN list |-> calls[list[i]].token],
         call.call = "unregister" =>
           (call.removed <=> \E j \in LiveBefore(Len(calls) + 1) :
                               calls[j].token = call.token)
  PROVE  DeliveriesMatchHistory' /\ ClosingIsHonest'
<1> DEFINE n == Len(calls)
<1>1. /\ n \in Nat
      /\ DOMAIN calls = 1 .. n
      /\ DOMAIN calls' = 1 .. n + 1
      /\ \A j \in 1 .. n : calls'[j] = calls[j]
      /\ calls'[n + 1] = call
  BY DEF HistoryInv, TypeOK
<1>2. \A k \in 1 .. n + 1 : LiveBefore(k)' = LiveBefore(k)
  BY LiveBeforeStable DEF HistoryInv
<1>3. \A k \in 1 .. n + 1 : \A j \in LiveBefore(k) : j \in 1 .. n /\ calls'[j] = calls[j]
  BY <1>1 DEF LiveBefore
<1>4. ASSUME NEW k \in 1 .. n + 1, calls'[k].call = "publish"
      PROVE  \E list \in InOrder({j \in LiveBefore(k)' :
                                    Matches(calls'[j].filter, calls'[k].role)}) :
               calls'[k].delivered = [i \in DOMAIN list |-> calls'[list[i]].token]
  <2> DEFINE Admitted(role) == {j \in LiveBefore(k) : Matches(calls[j].filter, role)}
             TokensOf(list) == [i \in DOMAIN list |-> calls[list[i]].token]
  <2>1. {j \in LiveBefore(k)' : Matches(calls'[j].filter, calls'[k].role)}
          = Admitted(calls'[k].role)
    BY <1>2, <1>3
  <2>2. \E list \in InOrder(Admitted(calls'[k].role)) : calls'[k].delivered = TokensOf(list)
    <3>1. CASE k = n + 1
      <4>1. calls'[k] = call /\ call.call = "publish" /\ LiveBefore(k) = LiveBefore(Len(calls) + 1)
        BY <1>1, <1>4, <3>1
      <4>2. Admitted(call.role) =
              {j \in LiveBefore(Len(calls) + 1) : Matches(calls[j].filter, call.role)}
        BY <4>1
      <4> HIDE DEF Admitted
      <4>3. \E list \in InOrder(Admitted(call.role)) : call.delivered = TokensOf(list)
        BY <4>1, <4>2
      <4> HIDE DEF TokensOf
      <4> QED
        BY <4>1, <4>3
    <3>2. CASE k \in 1 .. n
      <4>1. calls'[k] = calls[k] /\ k \in DOMAIN calls
        BY <1>1, <3>2
      <4>2. \E list \in InOrder(Admitted(calls[k].role)) : calls[k].delivered = TokensOf(list)
        BY <1>4, <4>1 DEF HistoryInv, DeliveriesMatchHistory
      <4> HIDE DEF Admitted, TokensOf
      <4> QED
        BY <4>1, <4>2
    <3>3. k = n + 1 \/ k \in 1 .. n
      BY <1>1
    <3> HIDE DEF Admitted, TokensOf
    <3> QED
      BY <3>1, <3>2, <3>3
  <2>3. PICK list \in InOrder(Admitted(calls'[k].role)) : calls'[k].delivered = TokensOf(list)
    BY <2>2
  <2>4. \A i \in DOMAIN list : list[i] \in Admitted(calls'[k].role)
    BY DEF InOrder
  <2>5. \A i \in DOMAIN list : calls'[list[i]] = calls[list[i]]
    <3>1. Admitted(calls'[k].role) \subseteq LiveBefore(k)
      OBVIOUS
    <3> HIDE DEF Admitted
    <3> QED
      BY <1>3, <2>4, <3>1
  <2>6. TokensOf(list) = [i \in DOMAIN list |-> calls'[list[i]].token]
    BY <2>5
  <2>7. calls'[k].delivered = [i \in DOMAIN list |-> calls'[list[i]].token]
    BY <2>3, <2>6
  <2> HIDE DEF Admitted, TokensOf
  <2>8. list \in InOrder({j \in LiveBefore(k)' : Matches(calls'[j].filter, calls'[k].role)})
    BY <2>1
  <2> QED
    BY <2>7, <2>8
<1>5. ASSUME NEW k \in 1 .. n + 1, calls'[k].call = "unregister"
      PROVE  calls'[k].removed <=> \E j \in LiveBefore(k)' : calls'[j].token = calls'[k].token
  <2>1. calls'[k].removed <=> \E j \in LiveBefore(k) : calls[j].token = calls'[k].token
    BY <1>1, <1>5 DEF HistoryInv, ClosingIsHonest
  <2> QED
    BY <1>2, <1>3, <2>1
<1> QED
  BY <1>1, <1>4, <1>5 DEF DeliveriesMatchHistory, ClosingIsHonest

\* The listing shows, at each place of the vector, the registration it mirrors.
Mirrors(list, n) ==
  /\ n = Len(calls)
  /\ LiveBefore(n + 1) \in SUBSET (1 .. n)
  /\ Cardinality(LiveBefore(n + 1)) \in Nat
  /\ DOMAIN list = 1 .. Cardinality(LiveBefore(n + 1))
  /\ DOMAIN subscriptions = DOMAIN list
  /\ \A i \in DOMAIN list :
       /\ list[i] \in LiveBefore(n + 1)
       /\ subscriptions[i].token = calls[list[i]].token
       /\ subscriptions[i].filter = calls[list[i]].filter

\* What the mirror says, with the listing and the length at hand.
LEMMA MirrorListing ==
  ASSUME TypeOK, SubscriptionsMirrorHistory
  PROVE  \E n \in Nat : \E list \in InOrder(LiveBefore(n + 1)) : Mirrors(list, n)
<1>1. PICK n \in Nat : n = Len(calls)
  BY DEF TypeOK
<1>2. LiveBefore(n + 1) \in SUBSET (1 .. n)
  BY <1>1 DEF LiveBefore
<1>3. PICK list \in InOrder(LiveBefore(n + 1)) :
        /\ DOMAIN subscriptions = DOMAIN list
        /\ \A i \in DOMAIN list :
             /\ subscriptions[i].token = calls[list[i]].token
             /\ subscriptions[i].filter = calls[list[i]].filter
  BY <1>1 DEF SubscriptionsMirrorHistory
<1>4. /\ DOMAIN list = 1 .. Cardinality(LiveBefore(n + 1))
      /\ Cardinality(LiveBefore(n + 1)) \in Nat
      /\ \A i \in DOMAIN list : list[i] \in LiveBefore(n + 1)
  BY <1>2, InOrderProperties
<1> QED
  BY <1>1, <1>2, <1>3, <1>4 DEF Mirrors

\* register keeps the mirror of the history.
LEMMA RegisterKeepsHistory ==
  ASSUME ObserverInv, ObserverInv', HistoryInv, NEW filter \in Filters, Register(filter)
  PROVE  HistoryInv'
<1> DEFINE call == [call |-> "register", token |-> nextToken, filter |-> filter]
<1>1. /\ calls' = Append(calls, call)
      /\ subscriptions' = Append(subscriptions,
           [token |-> nextToken, filter |-> filter, ordinal |-> registered + 1])
  BY DEF Register, Record
<1>2. call \in Calls
  BY DEF HistoryInv, TypeOK, Calls
<1>3. PICK n \in Nat : \E list \in InOrder(LiveBefore(n + 1)) : Mirrors(list, n)
  BY MirrorListing DEF HistoryInv
<1> DEFINE live == LiveBefore(n + 1)
           size == Cardinality(live)
<1>4. PICK list \in InOrder(live) :
           /\ n = Len(calls)
           /\ live \in SUBSET (1 .. n)
           /\ size \in Nat
           /\ DOMAIN list = 1 .. size
           /\ DOMAIN subscriptions = DOMAIN list
           /\ \A i \in DOMAIN list :
                /\ list[i] \in live
                /\ subscriptions[i].token = calls[list[i]].token
                /\ subscriptions[i].filter = calls[list[i]].filter
  BY <1>3 DEF Mirrors
<1>5. LiveBefore(n + 2)' = live \cup {n + 1}
  <2>1. call.call = "register"
    OBVIOUS
  <2> HIDE DEF call
  <2> QED
    BY <1>1, <1>2, <1>4, <2>1, LiveAfterCall DEF HistoryInv
<1> HIDE DEF live, size
<1> DEFINE longer == [i \in 1 .. size + 1 |-> IF i = size + 1 THEN n + 1 ELSE list[i]]
<1>6. longer \in InOrder(live \cup {n + 1})
  BY <1>4, ExtendInOrder DEF size
<1>7. /\ DOMAIN subscriptions' = 1 .. size + 1
      /\ \A i \in 1 .. size : subscriptions'[i] = subscriptions[i]
      /\ subscriptions'[size + 1].token = nextToken
      /\ subscriptions'[size + 1].filter = filter
  <2>1. subscriptions \in Seq(Subscription) /\ Len(subscriptions) = size
    BY <1>4 DEF HistoryInv, TypeOK
  <2> QED
    BY <1>1, <1>4, <2>1
<1>8. /\ Len(calls') + 1 = n + 2
      /\ calls'[n + 1] = call
      /\ \A j \in 1 .. n : calls'[j] = calls[j]
  BY <1>1, <1>4 DEF HistoryInv, TypeOK
<1>9. \A i \in 1 .. size + 1 :
        /\ subscriptions'[i].token = calls'[longer[i]].token
        /\ subscriptions'[i].filter = calls'[longer[i]].filter
  <2> TAKE i \in 1 .. size + 1
  <2>1. CASE i = size + 1
    BY <1>7, <1>8, <2>1
  <2>2. CASE i \in 1 .. size
    <3>1. i # size + 1
      BY <1>4, <2>2
    <3>2. longer[i] = list[i]
      BY <3>1
    <3>3. i \in DOMAIN list /\ list[i] \in 1 .. n
      BY <1>4, <2>2
    <3>4. subscriptions'[i] = subscriptions[i]
      BY <1>7, <2>2
    <3>5. calls'[longer[i]] = calls[list[i]]
      BY <1>8, <3>2, <3>3
    <3> QED
      BY <1>4, <3>3, <3>4, <3>5
  <2> QED
    BY <1>4, <2>1, <2>2
<1>10. SubscriptionsMirrorHistory'
  BY <1>5, <1>6, <1>7, <1>8, <1>9 DEF SubscriptionsMirrorHistory
<1>11. DeliveriesMatchHistory' /\ ClosingIsHonest'
  <2>1. call.call = "register"
    OBVIOUS
  <2> HIDE DEF call
  <2> QED
    BY <1>1, <1>2, <2>1, AnswersStayRight
<1> QED
  BY <1>10, <1>11 DEF HistoryInv, ObserverInv

\* Keeping the subscriptions of other tokens mirrors closing the registrations
\* of this one; something was removed exactly if there was one.
LEMMA UnregisterKeepsHistory ==
  ASSUME ObserverInv, ObserverInv', HistoryInv, NEW token \in Tokens, Unregister(token)
  PROVE  HistoryInv'
<1> DEFINE call == [call |-> "unregister", token |-> token,
                    removed |-> Len(subscriptions') # Len(subscriptions)]
           kept == {i \in DOMAIN subscriptions : subscriptions[i].token # token}
<1>1. calls' = Append(calls, call)
  BY DEF Unregister, Record
<1>2. PICK part \in InOrder(kept) :
        subscriptions' = [i \in DOMAIN part |-> subscriptions[part[i]]]
  BY DEF Unregister
<1>3. PICK n \in Nat : \E list \in InOrder(LiveBefore(n + 1)) : Mirrors(list, n)
  BY MirrorListing DEF HistoryInv
<1> DEFINE live == LiveBefore(n + 1)
           size == Cardinality(live)
<1>4. PICK list \in InOrder(live) :
           /\ n = Len(calls)
           /\ live \in SUBSET (1 .. n)
           /\ size \in Nat
           /\ DOMAIN list = 1 .. size
           /\ DOMAIN subscriptions = DOMAIN list
           /\ \A i \in DOMAIN list :
                /\ list[i] \in live
                /\ subscriptions[i].token = calls[list[i]].token
                /\ subscriptions[i].filter = calls[list[i]].filter
  BY <1>3 DEF Mirrors
<1> HIDE DEF live, size
<1>5. {list[k] : k \in kept} = {j \in live : calls[j].token # token}
  <2>1. \A j \in live : \E i \in DOMAIN list : list[i] = j
    BY <1>4, InOrderBijection
  <2> QED
    BY <1>4, <2>1
<1>6. /\ kept \in SUBSET (DOMAIN list)
      /\ kept \in SUBSET (1 .. size)
      /\ \A i \in DOMAIN list : i \in kept <=> subscriptions[i].token # token
  BY <1>4
<1> HIDE DEF kept
<1> DEFINE shorter == [i \in DOMAIN part |-> list[part[i]]]
<1>7. shorter \in InOrder({j \in live : calls[j].token # token})
  BY <1>4, <1>5, <1>6, ComposeInOrder
<1>8. /\ DOMAIN part = 1 .. Cardinality(kept)
      /\ Cardinality(kept) \in Nat
      /\ \A i \in DOMAIN part : part[i] \in kept
  BY <1>4, <1>6, InOrderProperties
<1>9. /\ Len(subscriptions) = size
      /\ Len(subscriptions') = Cardinality(kept)
  <2>1. Len(subscriptions) = size
    BY <1>4 DEF HistoryInv, TypeOK
  <2>2. subscriptions' \in Seq(Subscription) /\ DOMAIN subscriptions' = 1 .. Cardinality(kept)
    BY <1>2, <1>8 DEF ObserverInv, TypeOK
  <2> QED
    BY <1>8, <2>1, <2>2
<1>10. call.removed <=> \E j \in live : calls[j].token = token
  <2>1. IsFiniteSet(1 .. size) /\ Cardinality(1 .. size) = size
    BY <1>4, FS_Interval
  <2>2. Cardinality(kept) = size <=> kept = 1 .. size
    BY <1>6, <2>1, FS_Subset
  <2>3. (\E j \in live : calls[j].token = token) <=> kept # 1 .. size
    <3>1. \A j \in live : \E i \in DOMAIN list : list[i] = j
      BY <1>4, InOrderBijection
    <3>2. ASSUME NEW j \in live, calls[j].token = token
          PROVE  kept # 1 .. size
      <4>1. PICK i \in DOMAIN list : list[i] = j
        BY <3>1
      <4>2. i \in 1 .. size /\ i \notin kept
        BY <1>4, <1>6, <3>2, <4>1
      <4> QED
        BY <4>2
    <3>3. ASSUME kept # 1 .. size
          PROVE  \E j \in live : calls[j].token = token
      <4>1. PICK i \in 1 .. size : i \notin kept
        BY <1>6, <3>3
      <4>2. i \in DOMAIN list /\ subscriptions[i].token = token
        BY <1>4, <1>6, <4>1
      <4> QED
        BY <1>4, <4>2
    <3> QED
      BY <3>2, <3>3
  <2> QED
    BY <1>9, <2>2, <2>3
<1>11. call \in Calls /\ call.call = "unregister" /\ call.token = token
  BY DEF Calls
<1> HIDE DEF call
<1>12. LiveBefore(n + 2)' = {j \in live : calls[j].token # token}
  BY <1>1, <1>4, <1>11, LiveAfterCall DEF HistoryInv, live
<1>13. /\ Len(calls') + 1 = n + 2
       /\ \A j \in 1 .. n : calls'[j] = calls[j]
  BY <1>1, <1>4 DEF HistoryInv, TypeOK
<1>14. SubscriptionsMirrorHistory'
  <2>1. DOMAIN subscriptions' = DOMAIN shorter
    BY <1>2
  <2>2. ASSUME NEW i \in DOMAIN shorter
        PROVE  /\ subscriptions'[i].token = calls'[shorter[i]].token
               /\ subscriptions'[i].filter = calls'[shorter[i]].filter
    <3>1. /\ part[i] \in DOMAIN list
          /\ shorter[i] = list[part[i]]
          /\ subscriptions'[i] = subscriptions[part[i]]
      BY <1>2, <1>6, <1>8
    <3>2. list[part[i]] \in 1 .. n
      BY <1>4, <3>1
    <3> QED
      BY <1>4, <1>13, <3>1, <3>2
  <2> HIDE DEF shorter
  <2> QED
    BY <1>7, <1>12, <1>13, <2>1, <2>2 DEF SubscriptionsMirrorHistory
<1>15. DeliveriesMatchHistory' /\ ClosingIsHonest'
  BY <1>1, <1>4, <1>10, <1>11, AnswersStayRight DEF live
<1> QED
  BY <1>14, <1>15 DEF HistoryInv, ObserverInv

\* Listing the admitting subscriptions is listing the admitting registrations.
LEMMA PublishKeepsHistory ==
  ASSUME ObserverInv, ObserverInv', HistoryInv, NEW role \in Roles, Publish(role)
  PROVE  HistoryInv'
<1> DEFINE admitted == {i \in DOMAIN subscriptions : Matches(subscriptions[i].filter, role)}
<1>1. PICK part \in InOrder(admitted) :
        calls' = Append(calls, [call |-> "publish", role |-> role,
                   delivered |-> [i \in DOMAIN part |-> subscriptions[part[i]].token]])
  BY DEF Publish, Record
<1> DEFINE delivered == [i \in DOMAIN part |-> subscriptions[part[i]].token]
           call == [call |-> "publish", role |-> role, delivered |-> delivered]
<1>2. UNCHANGED subscriptions
  BY DEF Publish
<1>3. PICK n \in Nat : \E list \in InOrder(LiveBefore(n + 1)) : Mirrors(list, n)
  BY MirrorListing DEF HistoryInv
<1> DEFINE live == LiveBefore(n + 1)
           size == Cardinality(live)
<1>4. PICK list \in InOrder(live) :
           /\ n = Len(calls)
           /\ live \in SUBSET (1 .. n)
           /\ size \in Nat
           /\ DOMAIN list = 1 .. size
           /\ DOMAIN subscriptions = DOMAIN list
           /\ \A i \in DOMAIN list :
                /\ list[i] \in live
                /\ subscriptions[i].token = calls[list[i]].token
                /\ subscriptions[i].filter = calls[list[i]].filter
  BY <1>3 DEF Mirrors
<1> HIDE DEF live, size
<1> DEFINE registrations == {j \in live : Matches(calls[j].filter, role)}
<1>5. {list[k] : k \in admitted} = registrations
  <2>1. \A j \in live : \E i \in DOMAIN list : list[i] = j
    BY <1>4, InOrderBijection
  <2> QED
    BY <1>4, <2>1
<1>6. admitted \in SUBSET (DOMAIN list) /\ admitted \in SUBSET (1 .. size)
  BY <1>4
<1> HIDE DEF admitted, registrations
<1> DEFINE chosen == [i \in DOMAIN part |-> list[part[i]]]
<1>7. chosen \in InOrder(registrations)
  BY <1>4, <1>5, <1>6, ComposeInOrder
<1>8. /\ DOMAIN part = 1 .. Cardinality(admitted)
      /\ Cardinality(admitted) \in Nat
      /\ \A i \in DOMAIN part : part[i] \in admitted
  BY <1>4, <1>6, InOrderProperties
<1>9. delivered = [i \in DOMAIN chosen |-> calls[chosen[i]].token]
  <2>1. \A i \in DOMAIN part : subscriptions[part[i]].token = calls[list[part[i]]].token
    BY <1>4, <1>6, <1>8
  <2> QED
    BY <2>1
<1>10. /\ \A i \in 1 .. Cardinality(admitted) : delivered[i] \in Tokens
       /\ delivered \in Seq(Tokens)
  <2>1. ASSUME NEW i \in 1 .. Cardinality(admitted)
        PROVE  subscriptions[part[i]].token \in Tokens
    <3>1. part[i] \in DOMAIN subscriptions
      BY <1>4, <1>6, <1>8
    <3>2. subscriptions[part[i]] \in Subscription
      BY <3>1 DEF ObserverInv, TypeOK
    <3> QED
      BY <3>2 DEF Subscription
  <2> QED
    BY <1>8, <2>1
<1> HIDE DEF delivered, chosen
<1>11. call \in Calls /\ call.call = "publish" /\ call.role = role /\ call.delivered = delivered
  BY <1>10 DEF Calls
<1>12. calls' = Append(calls, call)
  BY <1>1 DEF delivered
<1> HIDE DEF call
<1>13. \E l \in InOrder(registrations) :
         call.delivered = [i \in DOMAIN l |-> calls[l[i]].token]
  BY <1>7, <1>9, <1>11
<1>14. registrations =
         {j \in LiveBefore(Len(calls) + 1) : Matches(calls[j].filter, call.role)}
  BY <1>4, <1>11 DEF registrations, live
<1>15. DeliveriesMatchHistory' /\ ClosingIsHonest'
  BY <1>11, <1>12, <1>13, <1>14, AnswersStayRight
<1>16. LiveBefore(n + 2)' = live
  <2>1. TypeOK /\ call \in Calls /\ call.call = "publish"
    BY <1>11 DEF HistoryInv
  <2>2. LiveBefore(n + 2)' =
          {j \in LiveBefore(n + 1) :
             ~ (call.call = "unregister" /\ call.token = calls[j].token)}
            \cup (IF call.call = "register" THEN {n + 1} ELSE {})
    BY <1>4, <1>12, <2>1, LiveAfterCall
  <2>3. LiveBefore(n + 2)' = LiveBefore(n + 1)
    BY <2>1, <2>2
  <2> QED
    BY <2>3 DEF live
<1>17. /\ Len(calls') + 1 = n + 2
       /\ \A j \in 1 .. n : calls'[j] = calls[j]
  BY <1>4, <1>12 DEF HistoryInv, TypeOK
<1>18. \A i \in DOMAIN list : calls'[list[i]] = calls[list[i]]
  BY <1>4, <1>17
<1>19. SubscriptionsMirrorHistory'
  BY <1>2, <1>4, <1>16, <1>17, <1>18 DEF SubscriptionsMirrorHistory
<1> QED
  BY <1>15, <1>19 DEF HistoryInv, ObserverInv

\* An empty vector mirrors an empty history.
LEMMA InitHistory == Init => HistoryInv
<1> SUFFICES ASSUME Init PROVE HistoryInv
  OBVIOUS
<1>1. TypeOK
  BY InitInv DEF ObserverInv
<1>2. LiveBefore(Len(calls) + 1) = {}
  BY DEF Init, LiveBefore
<1>3. Cardinality({}) = 0
  BY FS_EmptySet
<1>4. <<>> \in InOrder({})
  BY <1>3 DEF InOrder
<1>5. DOMAIN subscriptions = {} /\ DOMAIN <<>> = {} /\ DOMAIN calls = {}
  BY DEF Init
<1>6. \E list \in InOrder({}) :
        /\ DOMAIN subscriptions = DOMAIN list
        /\ \A i \in DOMAIN list :
             /\ subscriptions[i].token = calls[list[i]].token
             /\ subscriptions[i].filter = calls[list[i]].filter
  <2> WITNESS <<>> \in InOrder({})
  <2> QED
    BY <1>5
<1>7. SubscriptionsMirrorHistory
  BY <1>2, <1>6 DEF SubscriptionsMirrorHistory
<1> QED
  BY <1>1, <1>5, <1>7 DEF HistoryInv, DeliveriesMatchHistory, ClosingIsHonest

\* The vector always lists the live registrations in their order, and every answer
\* given so far was right (register, unregister and the publish methods).
THEOREM HistoryInvariant == Spec => []HistoryInv
<1>1. ObserverInv /\ ObserverInv' /\ HistoryInv /\ [Next]_vars => HistoryInv'
  <2> SUFFICES ASSUME ObserverInv, ObserverInv', HistoryInv, [Next]_vars PROVE HistoryInv'
    OBVIOUS
  <2>1. ASSUME NEW filter \in Filters, Register(filter) PROVE HistoryInv'
    BY <2>1, RegisterKeepsHistory
  <2>2. ASSUME NEW token \in Tokens, Unregister(token) PROVE HistoryInv'
    BY <2>2, UnregisterKeepsHistory
  <2>3. ASSUME NEW role \in Roles, Publish(role) PROVE HistoryInv'
    BY <2>3, PublishKeepsHistory
  <2>4. CASE UNCHANGED vars
    <3>1. calls' = calls /\ subscriptions' = subscriptions
      BY <2>4 DEF vars
    <3>2. ASSUME NEW k PROVE LiveBefore(k)' = LiveBefore(k)
      BY <3>1 DEF LiveBefore
    <3>3. LiveBefore(Len(calls) + 1)' = LiveBefore(Len(calls) + 1)
      BY <3>1 DEF LiveBefore
    <3>4. SubscriptionsMirrorHistory'
      BY <3>1, <3>3 DEF HistoryInv, SubscriptionsMirrorHistory
    <3>5. DeliveriesMatchHistory'
      <4> SUFFICES ASSUME NEW k \in DOMAIN calls', calls'[k].call = "publish"
                   PROVE  \E list \in InOrder({j \in LiveBefore(k)' :
                                                Matches(calls'[j].filter, calls'[k].role)}) :
                            calls'[k].delivered = [i \in DOMAIN list |-> calls'[list[i]].token]
        BY DEF DeliveriesMatchHistory
      <4>1. \E list \in InOrder({j \in LiveBefore(k) : Matches(calls[j].filter, calls[k].role)}) :
              calls[k].delivered = [i \in DOMAIN list |-> calls[list[i]].token]
        BY <3>1 DEF HistoryInv, DeliveriesMatchHistory
      <4>2. LiveBefore(k)' = LiveBefore(k)
        BY <3>2
      <4> QED
        BY <3>1, <4>1, <4>2
    <3>6. ClosingIsHonest'
      BY <3>1, <3>2 DEF HistoryInv, ClosingIsHonest
    <3> QED
      BY <3>4, <3>5, <3>6 DEF HistoryInv, ObserverInv
  <2> QED
    BY <2>1, <2>2, <2>3, <2>4 DEF Next
<1> QED
  BY InitHistory, <1>1, ObserverInvariant, PTL DEF Spec

\* Every publication reaches exactly the observers live and admitting at that
\* moment, each once and the oldest first.
THEOREM DeliveriesRight == Spec => []DeliveriesMatchHistory
  BY HistoryInvariant, PTL DEF HistoryInv

\* unregister answers true exactly when it closed something.
THEOREM ClosingRight == Spec => []ClosingIsHonest
  BY HistoryInvariant, PTL DEF HistoryInv

-----------------------------------------------------------------------------
(***************************************************************************)
(* One unregister, one observer.                                           *)
(***************************************************************************)

\* Of the positions of a sequence there is a first.
LEMMA FirstPosition ==
  ASSUME NEW positions, positions \subseteq Nat, positions # {}
  PROVE  \E k \in positions : \A l \in positions : k <= l
<1>1. PICK k \in positions : \A l \in positions : ~ (<<l, k>> \in OpToRel(<, Nat))
  BY NatLessThanWellFounded, WFMin
<1>2. \A l \in positions : ~ (l < k)
  BY <1>1 DEF OpToRel
<1>3. \A l \in positions : k \in Nat /\ l \in Nat /\ ~ (l < k)
  BY <1>2
<1> QED
  BY <1>3

\* There is one listing in order: where two of them differ first, each would
\* have to be the smaller one.
LEMMA OneListing ==
  ASSUME NEW n \in Nat, NEW positions \in SUBSET (1 .. n),
         NEW a \in InOrder(positions), NEW b \in InOrder(positions)
  PROVE  a = b
<1> DEFINE size == Cardinality(positions)
           differ == {k \in 1 .. size : a[k] # b[k]}
<1>1. /\ DOMAIN a = 1 .. size /\ DOMAIN b = 1 .. size /\ size \in Nat
      /\ \A i \in 1 .. size : a[i] \in positions /\ b[i] \in positions
      /\ \A i, j \in 1 .. size : i < j => a[i] < a[j] /\ b[i] < b[j]
  <2>1. /\ DOMAIN a = 1 .. size /\ size \in Nat
        /\ \A i \in DOMAIN a : a[i] \in positions
        /\ \A i, j \in DOMAIN a : i < j => a[i] < a[j]
    BY InOrderProperties
  <2>2. /\ DOMAIN b = 1 .. size
        /\ \A i \in DOMAIN b : b[i] \in positions
        /\ \A i, j \in DOMAIN b : i < j => b[i] < b[j]
    BY InOrderProperties
  <2> HIDE DEF size
  <2> QED
    BY <2>1, <2>2
<1>2. \A p \in positions : \E i \in 1 .. size : a[i] = p
  BY <1>1, InOrderBijection
<1>3. \A p \in positions : \E i \in 1 .. size : b[i] = p
  BY <1>1, InOrderBijection
<1>4. a \in [1 .. size -> positions] /\ b \in [1 .. size -> positions]
  BY DEF InOrder
<1>5. ASSUME differ # {} PROVE FALSE
  <2>1. differ \subseteq Nat
    BY <1>1
  <2>2. PICK k \in differ : \A l \in differ : k <= l
    BY <1>5, <2>1, FirstPosition
  <2>3. /\ k \in 1 .. size /\ a[k] # b[k]
        /\ \A i \in 1 .. size : i < k => a[i] = b[i]
    BY <1>1, <2>2
  <2>4. PICK i \in 1 .. size : a[i] = b[k]
    BY <1>1, <1>2, <2>3
  <2>5. PICK j \in 1 .. size : b[j] = a[k]
    BY <1>1, <1>3, <2>3
  <2>6. a[k] \in 1 .. n /\ b[k] \in 1 .. n
    BY <1>1, <2>3
  <2>7. a[k] < b[k]
    <3>1. ~ (i < k)
      <4> SUFFICES ASSUME i < k PROVE FALSE
        OBVIOUS
      <4>1. b[i] = b[k] /\ b[i] < b[k]
        BY <1>1, <2>3, <2>4
      <4> QED
        BY <2>6, <4>1
    <3>2. i # k
      BY <2>3, <2>4
    <3>3. k < i
      BY <2>3, <3>1, <3>2
    <3> QED
      BY <1>1, <2>3, <2>4, <3>3
  <2>8. b[k] < a[k]
    <3>1. ~ (j < k)
      <4> SUFFICES ASSUME j < k PROVE FALSE
        OBVIOUS
      <4>1. a[j] = a[k] /\ a[j] < a[k]
        BY <1>1, <2>3, <2>5
      <4> QED
        BY <2>6, <4>1
    <3>2. j # k
      BY <2>3, <2>5
    <3>3. k < j
      BY <2>3, <3>1, <3>2
    <3> QED
      BY <1>1, <2>3, <2>5, <3>3
  <2> QED
    BY <2>6, <2>7, <2>8
<1>6. \A k \in 1 .. size : a[k] = b[k]
  BY <1>5
<1> HIDE DEF size, differ
<1>7. a = [k \in 1 .. size |-> a[k]] /\ b = [k \in 1 .. size |-> b[k]]
  BY <1>4
<1> QED
  BY <1>6, <1>7

\* The listing that leaves out one position: those behind it move up.
LEMMA ListingWithout ==
  ASSUME NEW n \in Nat, NEW i \in 1 .. n, NEW list \in InOrder((1 .. n) \ {i})
  PROVE  list = [k \in 1 .. n - 1 |-> IF k < i THEN k ELSE k + 1]
<1> DEFINE others == (1 .. n) \ {i}
           up == [k \in 1 .. n - 1 |-> IF k < i THEN k ELSE k + 1]
<1>1. Cardinality(others) = n - 1
  <2>1. IsFiniteSet(1 .. n) /\ Cardinality(1 .. n) = n
    BY FS_Interval
  <2> QED
    BY <2>1, FS_RemoveElement
<1>2. \A k \in 1 .. n - 1 : up[k] \in others
  OBVIOUS
<1>3. \A k, l \in 1 .. n - 1 : k < l => up[k] < up[l]
  OBVIOUS
<1>4. up \in [1 .. n - 1 -> others]
  BY <1>2
<1>5. others \in SUBSET (1 .. n) /\ list \in InOrder(others)
  OBVIOUS
<1> HIDE DEF others, up
<1>6. up \in InOrder(others)
  BY <1>1, <1>3, <1>4 DEF InOrder
<1>7. list = up
  BY <1>5, <1>6, OneListing
<1> QED
  BY <1>7 DEF up

\* A vector taken along that listing is the vector with the entry cut out.
LEMMA CutOut ==
  ASSUME NEW s \in Seq(Subscription), NEW i \in 1 .. Len(s),
         NEW list \in InOrder((1 .. Len(s)) \ {i})
  PROVE  [k \in DOMAIN list |-> s[list[k]]]
           = SubSeq(s, 1, i - 1) \o SubSeq(s, i + 1, Len(s))
<1> DEFINE n == Len(s)
           cut == [k \in DOMAIN list |-> s[list[k]]]
           before == SubSeq(s, 1, i - 1)
           behind == SubSeq(s, i + 1, n)
<1>1. n \in Nat /\ \A k \in 1 .. n : s[k] \in Subscription
  OBVIOUS
<1>2. list = [k \in 1 .. n - 1 |-> IF k < i THEN k ELSE k + 1]
  BY <1>1, ListingWithout
<1>3. /\ before \in Seq(Subscription) /\ Len(before) = i - 1
      /\ \A k \in 1 .. i - 1 : before[k] = s[k]
  <2>1. \A k \in 1 .. i - 1 : s[k] \in Subscription
    BY <1>1
  <2>2. /\ before \in Seq(Subscription)
        /\ Len(before) = IF 1 <= i - 1 THEN i - 1 - 1 + 1 ELSE 0
        /\ \A k \in 1 .. i - 1 - 1 + 1 : before[k] = s[1 + k - 1]
    BY <2>1, SubSeqProperties
  <2> QED
    BY <2>2
<1>4. /\ behind \in Seq(Subscription) /\ Len(behind) = n - i
      /\ \A k \in 1 .. n - i : behind[k] = s[i + k]
  <2>1. \A k \in i + 1 .. n : s[k] \in Subscription
    BY <1>1
  <2>2. /\ behind \in Seq(Subscription)
        /\ Len(behind) = IF i + 1 <= n THEN n - (i + 1) + 1 ELSE 0
        /\ \A k \in 1 .. n - (i + 1) + 1 : behind[k] = s[i + 1 + k - 1]
    BY <1>1, <2>1, SubSeqProperties
  <2> QED
    BY <1>1, <2>2
<1> HIDE DEF before, behind, n
<1>5. /\ before \o behind \in Seq(Subscription)
      /\ Len(before \o behind) = n - 1
      /\ \A k \in 1 .. n - 1 :
           (before \o behind)[k] = IF k <= i - 1 THEN before[k] ELSE behind[k - (i - 1)]
  <2>1. /\ before \o behind \in Seq(Subscription)
        /\ Len(before \o behind) = Len(before) + Len(behind)
        /\ \A k \in 1 .. Len(before) + Len(behind) :
             (before \o behind)[k] = IF k <= Len(before) THEN before[k]
                                                         ELSE behind[k - Len(before)]
    BY <1>3, <1>4, ConcatProperties
  <2>2. Len(before) + Len(behind) = n - 1 /\ i \in 1 .. n
    BY <1>1, <1>3, <1>4 DEF n
  <2> QED
    BY <1>3, <2>1, <2>2
<1>6. i \in 1 .. n
  BY DEF n
<1>7. /\ cut \in Seq(Subscription) /\ Len(cut) = n - 1
      /\ \A k \in 1 .. n - 1 : cut[k] = IF k < i THEN s[k] ELSE s[k + 1]
  <2>1. cut = [k \in 1 .. n - 1 |-> s[IF k < i THEN k ELSE k + 1]]
    BY <1>2
  <2>2. \A k \in 1 .. n - 1 : s[IF k < i THEN k ELSE k + 1] \in Subscription
    BY <1>1, <1>6
  <2>3. n - 1 \in Nat
    BY <1>1, <1>6
  <2> HIDE DEF cut, n
  <2>4. cut \in [1 .. n - 1 -> Subscription]
    BY <2>1, <2>2
  <2>5. cut \in Seq(Subscription) /\ Len(cut) = n - 1
    BY <2>3, <2>4
  <2>6. ASSUME NEW k \in 1 .. n - 1 PROVE cut[k] = IF k < i THEN s[k] ELSE s[k + 1]
    <3>1. cut[k] = s[IF k < i THEN k ELSE k + 1]
      BY <2>1
    <3> QED
      BY <3>1
  <2> QED
    BY <2>5, <2>6
<1> HIDE DEF cut
<1>8. \A k \in 1 .. n - 1 : cut[k] = (before \o behind)[k]
  <2> SUFFICES ASSUME NEW k \in 1 .. n - 1 PROVE cut[k] = (before \o behind)[k]
    OBVIOUS
  <2>1. CASE k < i
    <3>1. k \in 1 .. i - 1 /\ cut[k] = s[k] /\ (before \o behind)[k] = before[k]
      BY <1>1, <1>5, <1>6, <1>7, <2>1
    <3> QED
      BY <1>3, <3>1
  <2>2. CASE ~ (k < i)
    <3>1. k - (i - 1) \in 1 .. n - i /\ i + (k - (i - 1)) = k + 1
      BY <1>1, <1>6, <2>2
    <3>2. cut[k] = s[k + 1] /\ (before \o behind)[k] = behind[k - (i - 1)]
      BY <1>1, <1>5, <1>6, <1>7, <2>2
    <3> QED
      BY <1>4, <3>1, <3>2
  <2> QED
    BY <2>1, <2>2
<1>9. cut = before \o behind
  BY <1>5, <1>7, <1>8, SeqEqual
<1> QED
  BY <1>9 DEF cut, before, behind, n

\* Within a span of registrations a token names one live observer at most.
LEMMA TokenNamesOne ==
  ASSUME ObserverInv,
         \A i \in DOMAIN subscriptions : registered - subscriptions[i].ordinal < TokenSpan,
         NEW i \in DOMAIN subscriptions, NEW j \in DOMAIN subscriptions,
         subscriptions[i].token = subscriptions[j].token
  PROVE  i = j
<1>1. ASSUME NEW a \in DOMAIN subscriptions, NEW b \in DOMAIN subscriptions,
             subscriptions[a].token = subscriptions[b].token, a < b
      PROVE  FALSE
  <2>1. /\ subscriptions[a].ordinal \in Nat \ {0} /\ subscriptions[b].ordinal \in Nat \ {0}
        /\ registered \in Nat
    <3>1. subscriptions[a] \in Subscription /\ subscriptions[b] \in Subscription
      BY DEF ObserverInv, TypeOK
    <3> QED
      BY <3>1 DEF ObserverInv, TypeOK, Subscription
  <2>2. /\ subscriptions[a].ordinal < subscriptions[b].ordinal
        /\ subscriptions[b].ordinal <= registered
        /\ subscriptions[a].ordinal % TokenSpan = subscriptions[b].ordinal % TokenSpan
    BY <1>1 DEF ObserverInv, SubscriptionsNumbered
  <2>3. subscriptions[b].ordinal - subscriptions[a].ordinal >= TokenSpan
    BY <2>1, <2>2, SameRemainder, ObserverAssumption
  <2>4. registered - subscriptions[a].ordinal < TokenSpan
    OBVIOUS
  <2> QED
    BY <2>1, <2>2, <2>3, <2>4, ObserverAssumption
<1>2. i \in Nat /\ j \in Nat
  BY DEF ObserverInv, TypeOK
<1> QED
  BY <1>1, <1>2

\* unregister that answers true takes one entry out, if no live observer is a
\* whole span of registrations old.
LEMMA UnregisterTakesOne ==
  ASSUME ObserverInv, NEW token \in Tokens, Unregister(token),
         Len(subscriptions') # Len(subscriptions),
         \A i \in DOMAIN subscriptions : registered - subscriptions[i].ordinal < TokenSpan
  PROVE  \E i \in DOMAIN subscriptions :
           /\ subscriptions[i].token = token
           /\ subscriptions' = SubSeq(subscriptions, 1, i - 1)
                                 \o SubSeq(subscriptions, i + 1, Len(subscriptions))
<1> DEFINE kept == {i \in DOMAIN subscriptions : subscriptions[i].token # token}
<1>1. PICK list \in InOrder(kept) : subscriptions' = [i \in DOMAIN list |-> subscriptions[list[i]]]
  BY DEF Unregister
<1>2. PICK n \in Nat : n = Len(subscriptions) /\ DOMAIN subscriptions = 1 .. n
  BY DEF ObserverInv, TypeOK
<1>3. PICK i \in 1 .. n : subscriptions[i].token = token
  <2> SUFFICES ASSUME \A i \in 1 .. n : subscriptions[i].token # token PROVE FALSE
    OBVIOUS
  <2>1. kept = 1 .. n
    BY <1>2
  <2>2. Cardinality(kept) = n
    <3>1. Cardinality(1 .. n) = n
      BY FS_Interval
    <3> QED
      BY <2>1, <3>1
  <2>3. DOMAIN list = 1 .. n
    <3>1. list \in [1 .. Cardinality(kept) -> kept]
      BY DEF InOrder
    <3> QED
      BY <2>2, <3>1
  <2>4. Len(subscriptions') = n
    BY <1>1, <1>2, <2>3
  <2> QED
    BY <1>2, <2>4
<1>4. kept = (1 .. n) \ {i}
  <2>1. \A j \in 1 .. n : subscriptions[j].token = token => j = i
    BY <1>2, <1>3, TokenNamesOne
  <2> QED
    BY <1>2, <1>3, <2>1
<1> HIDE DEF kept
<1>5. subscriptions' = SubSeq(subscriptions, 1, i - 1) \o SubSeq(subscriptions, i + 1, n)
  <2>1. subscriptions \in Seq(Subscription) /\ i \in 1 .. Len(subscriptions)
    BY <1>2 DEF ObserverInv, TypeOK
  <2>2. list \in InOrder((1 .. Len(subscriptions)) \ {i})
    BY <1>2, <1>4
  <2> QED
    BY <1>1, <1>2, <2>1, <2>2, CutOut
<1> QED
  BY <1>2, <1>3, <1>5

\* No other call is recorded as an unregister.
LEMMA RecordedCall ==
  ASSUME calls \in Seq(Calls), NEW a \in Calls, NEW b \in Calls,
         Append(calls, a) = Append(calls, b)
  PROVE  a = b
<1>1. Append(calls, a)[Len(calls) + 1] = a /\ Append(calls, b)[Len(calls) + 1] = b
  BY AppendProperties
<1> QED
  BY <1>1

\* One unregister removes one observer, whatever the width of the tokens.
THEOREM ClosesOne == Spec => ClosesOneObserver
<1> DEFINE A == \A token \in Tokens :
                  /\ calls' = Append(calls, [call |-> "unregister", token |-> token, removed |-> TRUE])
                  /\ \A i \in DOMAIN subscriptions : registered - subscriptions[i].ordinal < TokenSpan
                  => \E i \in DOMAIN subscriptions :
                       /\ subscriptions[i].token = token
                       /\ subscriptions' = SubSeq(subscriptions, 1, i - 1)
                                             \o SubSeq(subscriptions, i + 1, Len(subscriptions))
<1>1. ObserverInv /\ Next => A
  <2> SUFFICES ASSUME ObserverInv, Next, NEW token \in Tokens,
                      calls' = Append(calls, [call |-> "unregister", token |-> token, removed |-> TRUE]),
                      \A i \in DOMAIN subscriptions : registered - subscriptions[i].ordinal < TokenSpan
               PROVE  \E i \in DOMAIN subscriptions :
                        /\ subscriptions[i].token = token
                        /\ subscriptions' = SubSeq(subscriptions, 1, i - 1)
                                              \o SubSeq(subscriptions, i + 1, Len(subscriptions))
    OBVIOUS
  <2> DEFINE asked == [call |-> "unregister", token |-> token, removed |-> TRUE]
  <2>1. calls \in Seq(Calls) /\ asked \in Calls /\ asked.call = "unregister"
    BY DEF ObserverInv, TypeOK, Calls
  <2>2. ASSUME NEW filter \in Filters, Register(filter) PROVE FALSE
    <3> DEFINE made == [call |-> "register", token |-> nextToken, filter |-> filter]
    <3>1. calls' = Append(calls, made) /\ made \in Calls /\ made.call = "register"
      BY <2>2 DEF Register, Record, ObserverInv, TypeOK, Calls
    <3> HIDE DEF made, asked
    <3> QED
      BY <2>1, <3>1, RecordedCall DEF asked
  <2>3. ASSUME NEW role \in Roles, Publish(role) PROVE FALSE
    <3>1. PICK made : calls' = Append(calls, made) /\ made.call = "publish"
      BY <2>3 DEF Publish, Record
    <3>2. calls' \in Seq(Calls) /\ Len(calls') = Len(calls) + 1
      BY <2>1
    <3>3. calls'[Len(calls) + 1] = made /\ calls'[Len(calls) + 1] = asked
      BY <2>1, <3>1
    <3> QED
      BY <2>1, <3>3, <3>1
  <2>4. ASSUME NEW t \in Tokens, Unregister(t)
        PROVE  t = token /\ Len(subscriptions') # Len(subscriptions)
    <3> DEFINE made == [call |-> "unregister", token |-> t,
                        removed |-> Len(subscriptions') # Len(subscriptions)]
    <3>1. calls' = Append(calls, made) /\ made \in Calls
      BY <2>4 DEF Unregister, Record, Calls
    <3>2. made.token = t /\ made.removed = (Len(subscriptions') # Len(subscriptions))
      OBVIOUS
    <3>3. asked.token = token /\ asked.removed = TRUE
      OBVIOUS
    <3> HIDE DEF made, asked
    <3>4. made = asked
      BY <2>1, <3>1, RecordedCall DEF asked
    <3> QED
      BY <3>2, <3>3, <3>4
  <2>5. PICK t \in Tokens : Unregister(t)
    BY <2>2, <2>3 DEF Next
  <2> QED
    BY <2>4, <2>5, UnregisterTakesOne
<1>2. ObserverInv /\ [Next]_vars => [A]_vars
  BY <1>1
<1> QED
  BY <1>2, ObserverInvariant, PTL DEF Spec, ClosesOneObserver

=============================================================================

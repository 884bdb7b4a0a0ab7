------------------------- MODULE ExchangeLanes_proofs -------------------------
(***************************************************************************)
(* ExchangeLanes for every span of the counters: a reply is taken for the  *)
(* request it answers and events ascend, until a counter starts over.      *)
(***************************************************************************)
EXTENDS ExchangeLanes, RemainderTheorems

\* The identifiers a call and an event of these numbers carry.
IdentifierOf(call) ==
  ExchangeIdentifier(call.connection % Span, call.lane, call.number % Span)

EventIdentifierOf(call) ==
  StreamEventIdentifier(call.connection % Span, call.number % Span)

\* A call that was made by a side with these counters: no counter was advanced
\* past its width by a build that checks.
MadeAt(call, checks, connections, counts) ==
  /\ call \in Calls
  /\ call.connection <= connections
  /\ call.connection = connections => call.number < counts[call.lane]
  /\ checks => call.connection < Span /\ call.number < Span

CallMade(call) == MadeAt(call, overflowChecks, connection, minted)

Identified(exchange) ==
  exchange.identifier = IdentifierOf(exchange.call) /\ CallMade(exchange.call)

\* An event that was published by a side with these counters.
PlacedAt(event, checks, connections, counts) ==
  /\ event.identifier = EventIdentifierOf(event.call)
  /\ event.call.lane = "Acceptor"
  /\ MadeAt(event.call, checks, connections, counts)

Placed(event) == PlacedAt(event, overflowChecks, connection, minted)

\* The order calls of one lane were made in.
Before(a, b) ==
  \/ a.connection < b.connection
  \/ a.connection = b.connection /\ a.number < b.number

\* The events under way are of this connection and in order, and the last one
\* that was received came before them.
Ordered ==
  /\ events \in Seq([identifier : {EventIdentifierOf(call) : call \in Calls}, call : Calls])
  /\ \A i \in 1 .. Len(events) : Placed(events[i]) /\ events[i].call.connection = connection
  /\ \A i, j \in 1 .. Len(events) : i < j => events[i].call.number < events[j].call.number
  /\ seen # <<>> =>
       /\ Placed(seen[1])
       /\ \A i \in 1 .. Len(events) : Before(seen[1].call, events[i].call)

IInv ==
  /\ TypeOK
  /\ \A exchange \in waiting \cup requests \cup replies : Identified(exchange)
  /\ Ordered

-----------------------------------------------------------------------------
(***************************************************************************)
(* Identifiers and the calls they stand for                                *)
(***************************************************************************)

\* Two numbers with one remainder are the same or a whole span apart.
LEMMA SameOrApart ==
  ASSUME NEW a \in Nat, NEW b \in Nat, a % Span = b % Span
  PROVE  a = b \/ a >= b + Span \/ b >= a + Span
<1>1. CASE a < b
  <2>1. b - a >= Span
    BY <1>1, SameRemainder, SpanAssumption
  <2> QED
    BY <2>1, SpanAssumption
<1>2. CASE b < a
  <2>1. a - b >= Span
    BY <1>2, SameRemainder, SpanAssumption
  <2> QED
    BY <2>1, SpanAssumption
<1> QED
  BY <1>1, <1>2

\* Calls of one identifier are the same or a whole span apart.
LEMMA IdentifierMeansCall ==
  ASSUME NEW a \in Calls, NEW b \in Calls, IdentifierOf(a) = IdentifierOf(b)
  PROVE  a = b \/ SpanApart(a, b)
<1>1. /\ a.connection \in Nat /\ a.number \in Nat /\ b.connection \in Nat /\ b.number \in Nat
      /\ a = [connection |-> a.connection, lane |-> a.lane, number |-> a.number]
      /\ b = [connection |-> b.connection, lane |-> b.lane, number |-> b.number]
  BY DEF Calls
<1>2. /\ a.connection % Span = b.connection % Span /\ a.lane = b.lane
      /\ a.number % Span = b.number % Span
  BY DEF IdentifierOf, ExchangeIdentifier
<1>3. /\ \/ a.connection = b.connection \/ a.connection >= b.connection + Span
         \/ b.connection >= a.connection + Span
      /\ a.number = b.number \/ a.number >= b.number + Span \/ b.number >= a.number + Span
  BY <1>1, <1>2, SameOrApart
<1>4. CASE a.connection = b.connection /\ a.number = b.number
  BY <1>1, <1>2, <1>4
<1> QED
  BY <1>3, <1>4 DEF SpanApart

\* Of two numbers in one round of a counter the larger has the larger remainder.
LEMMA RoundOrder ==
  ASSUME NEW a \in Nat, NEW b \in Nat, a < b, a \div Span = b \div Span
  PROVE  a % Span < b % Span
<1>1. /\ a = (a % Span) + Span * (a \div Span) /\ a % Span \in Nat /\ a \div Span \in Nat
      /\ b = (b % Span) + Span * (b \div Span) /\ b % Span \in Nat
  <2>1. a % Span \in 0 .. Span - 1 /\ a \div Span \in Nat /\ a = (a % Span) + Span * (a \div Span)
    BY Division, SpanAssumption
  <2>2. b % Span \in 0 .. Span - 1 /\ b \div Span \in Nat /\ b = (b % Span) + Span * (b \div Span)
    BY Division, SpanAssumption
  <2> QED
    BY <2>1, <2>2
<1> DEFINE x == a % Span
           y == b % Span
           z == Span * (a \div Span)
<1>2. a = x + z /\ b = y + z /\ x \in Nat /\ y \in Nat /\ z \in Nat
  <2>1. z \in Nat
    BY <1>1, SpanAssumption
  <2> QED
    BY <1>1, <2>1
<1> HIDE DEF x, y, z
<1>3. x < y
  BY <1>2
<1> QED
  BY <1>3 DEF x, y

\* A counter and what it counts move together.
LEMMA Succession ==
  ASSUME NEW n \in Nat
  PROVE  /\ Successor(n % Span) = (n + 1) % Span
         /\ (n % Span) + 1 < Span /\ n < Span => n + 1 < Span
         /\ n < Span => n % Span = n
<1> DEFINE r == n % Span
           q == n \div Span
<1>1. Span \in Nat \ {0} /\ r \in 0 .. Span - 1 /\ q \in Nat /\ n = r + Span * q
  BY Division, SpanAssumption
<1>2. \A field \in 0 .. Span - 1, rest \in Nat : (field + Span * rest) % Span = field
  BY <1>1, FieldAndRest
<1>3. n < Span => r = n
  <2>1. ASSUME n < Span PROVE (n + Span * 0) % Span = n
    BY <1>1, <1>2, <2>1, n \in 0 .. Span - 1, 0 \in Nat
  <2>2. n + Span * 0 = n
    BY <1>1
  <2> QED
    BY <2>1, <2>2
<1> HIDE DEF r, q
<1>4. CASE r + 1 < Span
  <2>1. (r + 1 + Span * q) % Span = r + 1 /\ (r + 1 + Span * 0) % Span = r + 1
    BY <1>1, <1>2, <1>4, r + 1 \in 0 .. Span - 1, 0 \in Nat
  <2>2. n + 1 = r + 1 + Span * q /\ r + 1 = r + 1 + Span * 0
    <3>1. Span * q \in Nat /\ Span * 0 = 0
      BY <1>1
    <3> QED
      BY <1>1, <3>1
  <2> QED
    BY <1>1, <1>3, <2>1, <2>2 DEF Successor, r
<1>5. CASE r + 1 = Span
  <2>1. (0 + Span * (q + 1)) % Span = 0 /\ (0 + Span * 1) % Span = 0
    BY <1>1, <1>2, 0 \in 0 .. Span - 1, q + 1 \in Nat, 1 \in Nat
  <2>2. n + 1 = 0 + Span * (q + 1) /\ r + 1 = 0 + Span * 1
    <3>1. Span * (q + 1) = Span * q + Span
      BY <1>1
    <3>2. Span * q \in Nat
      BY <1>1
    <3> QED
      BY <1>1, <1>5, <3>1, <3>2
  <2> QED
    BY <1>1, <1>3, <1>5, <2>1, <2>2 DEF Successor, r
<1> QED
  BY <1>1, <1>4, <1>5

\* An event that comes later has the larger identifier, unless a counter started
\* over in between.
LEMMA LaterAscends ==
  ASSUME NEW a, Placed(a), NEW b, Placed(b), Before(a.call, b.call)
  PROVE  Ascend(a, b)
<1> DEFINE m == a.call.connection
           n == b.call.connection
           k == a.call.number
           l == b.call.number
<1>1. m \in Nat /\ n \in Nat /\ k \in Nat /\ l \in Nat
  BY DEF Placed, PlacedAt, MadeAt, Calls
<1>2. /\ a.identifier.session_epoch = m % Span /\ a.identifier.sequence = k % Span
      /\ b.identifier.session_epoch = n % Span /\ b.identifier.sequence = l % Span
  BY DEF Placed, PlacedAt, EventIdentifierOf, StreamEventIdentifier
<1>3. m < n \/ (m = n /\ k < l)
  BY DEF Before
<1>4. ASSUME m = n, k \div Span = l \div Span PROVE k % Span < l % Span
  BY <1>1, <1>3, <1>4, RoundOrder
<1>5. ASSUME m # n, m \div Span = n \div Span PROVE m % Span < n % Span
  BY <1>1, <1>3, <1>5, RoundOrder
<1> HIDE DEF m, n, k, l
<1>6. Ascend(a, b) = IF m = n
                     THEN /\ a.identifier.session_epoch = b.identifier.session_epoch
                          /\ k \div Span = l \div Span => a.identifier.sequence < b.identifier.sequence
                     ELSE m \div Span = n \div Span =>
                            a.identifier.session_epoch < b.identifier.session_epoch
  BY DEF Ascend, Round, m, n, k, l
<1> QED
  BY <1>2, <1>4, <1>5, <1>6

-----------------------------------------------------------------------------
(***************************************************************************)
(* The counters                                                            *)
(***************************************************************************)

\* The part of TypeOK that is about the counters.
CountersOK ==
  /\ overflowChecks \in BOOLEAN
  /\ connection \in Nat /\ minted \in [Lanes -> Nat]
  /\ epoch = connection % Span
  /\ sequence = [lane \in Lanes |-> minted[lane] % Span]
  /\ overflowChecks => connection < Span /\ \A lane \in Lanes : minted[lane] < Span

\* Whatever was minted stays so while the counters only go on.
LEMMA CallMadeStays ==
  ASSUME CountersOK, NEW call, CallMade(call), overflowChecks' = overflowChecks,
         \/ connection' = connection /\ minted' = minted
         \/ /\ connection' = connection
            /\ \E lane \in Lanes : minted' = [minted EXCEPT ![lane] = @ + 1]
         \/ connection' = connection + 1
  PROVE  CallMade(call)'
<1>1. /\ call \in Calls /\ call.connection \in Nat /\ call.number \in Nat /\ call.lane \in Lanes
      /\ call.connection <= connection
      /\ call.connection = connection => call.number < minted[call.lane]
  BY DEF CallMade, MadeAt, Calls
<1>2. connection \in Nat /\ minted \in [Lanes -> Nat]
  BY DEF CountersOK
<1>3. /\ call.connection <= connection'
      /\ call.connection = connection' => call.number < minted'[call.lane]
  <2>1. CASE connection' = connection /\ minted' = minted
    BY <1>1, <2>1
  <2>2. CASE /\ connection' = connection
             /\ \E lane \in Lanes : minted' = [minted EXCEPT ![lane] = @ + 1]
    <3>1. minted'[call.lane] >= minted[call.lane] /\ minted'[call.lane] \in Nat
      BY <1>1, <1>2, <2>2
    <3> QED
      BY <1>1, <1>2, <2>2, <3>1
  <2>3. CASE connection' = connection + 1
    BY <1>1, <1>2, <2>3
  <2> QED
    BY <2>1, <2>2, <2>3
<1>4. overflowChecks' => call.connection < Span /\ call.number < Span
  BY DEF CallMade, MadeAt
<1> QED
  BY <1>1, <1>3, <1>4 DEF CallMade, MadeAt

\* A minted sequence identifies the call it is minted for.
LEMMA MintFacts ==
  ASSUME CountersOK, NEW lane \in Lanes, Mint(lane), NEW call, call = Call(lane)
  PROVE  /\ CountersOK'
         /\ connection' = connection /\ overflowChecks' = overflowChecks
         /\ minted' = [minted EXCEPT ![lane] = @ + 1]
         /\ call.connection = connection /\ call.lane = lane /\ call.number = minted[lane]
         /\ CallMade(call)'
         /\ ExchangeIdentifier(epoch, lane, sequence[lane]) = IdentifierOf(call)
         /\ StreamEventIdentifier(epoch, sequence[lane]) = EventIdentifierOf(call)
<1>1. /\ connection \in Nat /\ minted \in [Lanes -> Nat] /\ epoch = connection % Span
      /\ sequence = [l \in Lanes |-> minted[l] % Span] /\ minted[lane] \in Nat
      /\ overflowChecks => connection < Span /\ \A l \in Lanes : minted[l] < Span
      /\ overflowChecks \in BOOLEAN /\ Span \in Nat
  BY SpanAssumption DEF CountersOK
<1>2. /\ connection' = connection /\ overflowChecks' = overflowChecks /\ epoch' = epoch
      /\ minted' = [minted EXCEPT ![lane] = @ + 1]
      /\ sequence' = [sequence EXCEPT ![lane] = Successor(@)]
      /\ overflowChecks => sequence[lane] + 1 < Span
  BY DEF Mint, Advances
<1>3. /\ call = [connection |-> connection, lane |-> lane, number |-> minted[lane]]
      /\ call.connection = connection /\ call.lane = lane /\ call.number = minted[lane]
      /\ call \in Calls
  BY <1>1 DEF Call, Calls
<1>4. sequence[lane] = minted[lane] % Span
  BY <1>1
<1>5. /\ Successor(minted[lane] % Span) = (minted[lane] + 1) % Span
      /\ overflowChecks => minted[lane] + 1 < Span
  BY <1>1, <1>2, <1>4, Succession
<1>6. CountersOK'
  <2>1. minted' \in [Lanes -> Nat]
    BY <1>1, <1>2
  <2>2. sequence' = [l \in Lanes |-> minted'[l] % Span]
    <3>1. sequence' = [l \in Lanes |-> IF l = lane THEN Successor(sequence[lane]) ELSE sequence[l]]
      BY <1>1, <1>2
    <3>2. \A l \in Lanes : minted'[l] = IF l = lane THEN minted[lane] + 1 ELSE minted[l]
      BY <1>1, <1>2
    <3>3. \A l \in Lanes :
            (IF l = lane THEN Successor(sequence[lane]) ELSE sequence[l]) = minted'[l] % Span
      BY <1>1, <1>4, <1>5, <3>2
    <3> QED
      BY <3>1, <3>3
  <2>3. overflowChecks' => connection' < Span /\ \A l \in Lanes : minted'[l] < Span
    BY <1>1, <1>2, <1>5
  <2> QED
    BY <1>1, <1>2, <2>1, <2>2, <2>3 DEF CountersOK
<1>7. CallMade(call)'
  <2>1. call.connection <= connection' /\ call.number < minted'[call.lane]
    BY <1>1, <1>2, <1>3
  <2>2. overflowChecks' => call.connection < Span /\ call.number < Span
    BY <1>1, <1>2, <1>3
  <2> QED
    BY <1>3, <2>1, <2>2 DEF CallMade, MadeAt
<1> QED
  BY <1>1, <1>2, <1>3, <1>4, <1>6, <1>7 DEF IdentifierOf, EventIdentifierOf

\* A new connection starts its counters over, and its epoch counts it.
LEMMA ReconnectFacts ==
  ASSUME CountersOK, Reconnect
  PROVE  CountersOK' /\ connection' = connection + 1 /\ overflowChecks' = overflowChecks
<1>1. /\ connection \in Nat /\ epoch = connection % Span /\ overflowChecks \in BOOLEAN
      /\ overflowChecks => connection < Span
      /\ Span \in Nat \ {0}
  BY SpanAssumption DEF CountersOK
<1>2. /\ connection' = connection + 1 /\ overflowChecks' = overflowChecks
      /\ epoch' = Successor(epoch)
      /\ overflowChecks => epoch + 1 < Span
      /\ sequence' = [lane \in Lanes |-> First] /\ minted' = [lane \in Lanes |-> 0]
  BY DEF Reconnect, Advances
<1>3. /\ epoch' = (connection + 1) % Span
      /\ overflowChecks => connection + 1 < Span
  <2>1. /\ Successor(connection % Span) = (connection + 1) % Span
        /\ (connection % Span) + 1 < Span /\ connection < Span => connection + 1 < Span
    BY <1>1, Succession
  <2> QED
    BY <1>1, <1>2, <2>1
<1>4. 0 % Span = 0
  BY <1>1, Succession
<1>5. sequence' = [lane \in Lanes |-> minted'[lane] % Span]
  BY <1>2, <1>4 DEF First
<1>6. overflowChecks' => connection' < Span /\ \A lane \in Lanes : minted'[lane] < Span
  BY <1>1, <1>2, <1>3
<1> QED
  BY <1>1, <1>2, <1>3, <1>5, <1>6 DEF CountersOK

-----------------------------------------------------------------------------
(***************************************************************************)
(* The inductive invariant                                                 *)
(***************************************************************************)

\* The invariant by its parts.
LEMMA InvParts ==
  IInv <=> /\ CountersOK /\ Ordered
           /\ \A exchange \in waiting \cup requests \cup replies : Identified(exchange)
           /\ \A exchange \in waiting : exchange.call.connection = connection
  BY DEF IInv, TypeOK, CountersOK, Identified, CallMade, MadeAt, Counted

LEMMA NextInvParts ==
  IInv' <=> /\ CountersOK' /\ Ordered'
            /\ \A exchange \in waiting' \cup requests' \cup replies' : Identified(exchange)'
            /\ \A exchange \in waiting' : exchange.call.connection = connection'
  BY DEF IInv, TypeOK, CountersOK, Identified, CallMade, MadeAt, Counted

LEMMA InitInv == Init => IInv
<1> SUFFICES ASSUME Init PROVE IInv
  OBVIOUS
<1>1. 0 % Span = 0 /\ Span > 0
  BY Succession, SpanAssumption
<1>2. /\ overflowChecks \in BOOLEAN /\ epoch = 0 /\ sequence = [lane \in Lanes |-> 0]
      /\ connection = 0 /\ minted = [lane \in Lanes |-> 0]
      /\ waiting = {} /\ requests = {} /\ replies = {} /\ events = <<>> /\ seen = <<>>
  BY DEF Init, First
<1>3. CountersOK
  BY <1>1, <1>2 DEF CountersOK
<1>4. Ordered
  BY <1>2 DEF Ordered
<1> QED
  BY <1>2, <1>3, <1>4, InvParts

\* Exchanges and events stay what they are while the counters only go on.
LEMMA OthersStay ==
  ASSUME IInv, overflowChecks' = overflowChecks,
         \/ connection' = connection /\ minted' = minted
         \/ /\ connection' = connection
            /\ \E lane \in Lanes : minted' = [minted EXCEPT ![lane] = @ + 1]
         \/ connection' = connection + 1
  PROVE  /\ \A exchange : Identified(exchange) => Identified(exchange)'
         /\ \A event : Placed(event) => Placed(event)'
<1>1. CountersOK
  BY InvParts
<1>2. ASSUME NEW exchange, Identified(exchange) PROVE Identified(exchange)'
  <2>1. PICK call : call = exchange.call
    OBVIOUS
  <2>2. CallMade(call)'
    BY <1>1, <1>2, <2>1, CallMadeStays DEF Identified
  <2> QED
    BY <1>2, <2>1, <2>2 DEF Identified
<1>3. ASSUME NEW event, Placed(event) PROVE Placed(event)'
  <2>1. PICK call : call = event.call
    OBVIOUS
  <2>2. CallMade(call)'
    BY <1>1, <1>3, <2>1, CallMadeStays DEF Placed, PlacedAt, CallMade
  <2> QED
    BY <1>3, <2>1, <2>2 DEF Placed, PlacedAt, CallMade
<1> QED
  BY <1>2, <1>3

LEMMA NextInv == IInv /\ [Next]_vars => IInv'
<1> SUFFICES ASSUME IInv, [Next]_vars PROVE IInv'
  OBVIOUS
<1>0. /\ CountersOK /\ Ordered
      /\ \A exchange \in waiting \cup requests \cup replies : Identified(exchange)
      /\ \A exchange \in waiting : exchange.call.connection = connection
  BY InvParts
<1>1. ASSUME NEW lane \in Lanes, Open(lane) PROVE IInv'
  <2>1. PICK call : call = Call(lane)
    OBVIOUS
  <2>2. PICK exchange :
          exchange = [identifier |-> ExchangeIdentifier(epoch, lane, sequence[lane]), call |-> call]
    OBVIOUS
  <2>3. /\ Mint(lane) /\ waiting' = waiting \cup {exchange} /\ requests' = requests \cup {exchange}
        /\ replies' = replies /\ events' = events /\ seen' = seen
    BY <1>1, <2>1, <2>2 DEF Open
  <2>4. /\ CountersOK'
        /\ connection' = connection /\ overflowChecks' = overflowChecks
        /\ minted' = [minted EXCEPT ![lane] = @ + 1]
        /\ call.connection = connection /\ CallMade(call)'
        /\ ExchangeIdentifier(epoch, lane, sequence[lane]) = IdentifierOf(call)
    BY <1>0, <2>1, <2>3, MintFacts
  <2>5. /\ \A other : Identified(other) => Identified(other)'
        /\ \A event : Placed(event) => Placed(event)'
    BY <2>4, OthersStay
  <2>6. exchange.call = call /\ Identified(exchange)'
    BY <2>2, <2>4 DEF Identified
  <2>7. Ordered'
    BY <1>0, <2>3, <2>4, <2>5 DEF Ordered
  <2> QED
    BY <1>0, <2>3, <2>4, <2>5, <2>6, <2>7, NextInvParts
<1>2. ASSUME NEW request \in requests, Answer(request) PROVE IInv'
  BY <1>0, <1>2 DEF Answer, lanes, IInv, TypeOK, Identified, CallMade, Counted, Ordered, Placed
<1>3. ASSUME NEW reply \in replies, TakeReply(reply) PROVE IInv'
  <2>1. /\ UNCHANGED <<overflowChecks, lanes, requests, events, seen>>
        /\ waiting' \subseteq waiting /\ replies' \subseteq replies
    BY <1>3 DEF TakeReply
  <2> QED
    BY <1>0, <2>1 DEF lanes, IInv, TypeOK, Identified, CallMade, Counted, Ordered, Placed
<1>4. CASE Publish
  <2>1. PICK call : call = Call("Acceptor")
    OBVIOUS
  <2>2. PICK event :
          event = [identifier |-> StreamEventIdentifier(epoch, sequence["Acceptor"]), call |-> call]
    OBVIOUS
  <2>3. /\ Mint("Acceptor") /\ events' = Append(events, event)
        /\ waiting' = waiting /\ requests' = requests /\ replies' = replies /\ seen' = seen
    BY <1>4, <2>1, <2>2 DEF Publish, exchanges
  <2>4. /\ CountersOK'
        /\ connection' = connection /\ overflowChecks' = overflowChecks
        /\ minted' = [minted EXCEPT !["Acceptor"] = @ + 1]
        /\ call.connection = connection /\ call.lane = "Acceptor" /\ call.number = minted["Acceptor"]
        /\ CallMade(call)' /\ call \in Calls
        /\ StreamEventIdentifier(epoch, sequence["Acceptor"]) = EventIdentifierOf(call)
    <3>1. "Acceptor" \in Lanes
      BY DEF Lanes
    <3>2. /\ CountersOK'
          /\ connection' = connection /\ overflowChecks' = overflowChecks
          /\ minted' = [minted EXCEPT !["Acceptor"] = @ + 1]
          /\ call.connection = connection /\ call.lane = "Acceptor" /\ call.number = minted["Acceptor"]
          /\ CallMade(call)'
          /\ StreamEventIdentifier(epoch, sequence["Acceptor"]) = EventIdentifierOf(call)
      BY <1>0, <2>1, <2>3, <3>1, MintFacts
    <3>3. call \in Calls
      BY <3>2 DEF CallMade, MadeAt
    <3> QED
      BY <3>2, <3>3
  <2>5. /\ \A other : Identified(other) => Identified(other)'
        /\ \A other : Placed(other) => Placed(other)'
    <3>1. "Acceptor" \in Lanes
      BY DEF Lanes
    <3> QED
      BY <2>4, <3>1, OthersStay
  <2>6. event.call = call /\ Placed(event)'
    BY <2>2, <2>4 DEF Placed, PlacedAt, CallMade
  <2>7. Ordered'
    <3> DEFINE E == [identifier : {EventIdentifierOf(c) : c \in Calls}, call : Calls]
               n == Len(events)
    <3>1. events \in Seq(E) /\ event \in E
      BY <1>0, <2>2, <2>4 DEF Ordered
    <3> HIDE DEF E
    <3>2. /\ events' \in Seq(E) /\ Len(events') = n + 1 /\ n \in Nat
          /\ \A i \in 1 .. n : events'[i] = events[i]
          /\ events'[n + 1] = event
      BY <2>3, <3>1
    <3> HIDE DEF n
    <3>3. \A i \in 1 .. n : /\ Placed(events[i]) /\ events[i].call.connection = connection
                            /\ events[i].call.number < minted["Acceptor"]
                            /\ events[i].call.number \in Nat
      <4> SUFFICES ASSUME NEW i \in 1 .. n
                   PROVE  /\ Placed(events[i]) /\ events[i].call.connection = connection
                          /\ events[i].call.number < minted["Acceptor"]
                          /\ events[i].call.number \in Nat
        OBVIOUS
      <4>1. Placed(events[i]) /\ events[i].call.connection = connection
        BY <1>0 DEF Ordered, n
      <4> QED
        BY <4>1 DEF Placed, PlacedAt, MadeAt, Calls
    <3>4. \A i \in 1 .. n + 1 : i \in 1 .. n \/ i = n + 1
      BY <3>2
    <3>5. \A i \in 1 .. n + 1 : /\ PlacedAt(events'[i], overflowChecks', connection', minted')
                                /\ events'[i].call.connection = connection'
      BY <2>4, <2>5, <2>6, <3>2, <3>3, <3>4 DEF Placed
    <3>6. \A i, j \in 1 .. n + 1 : i < j => events'[i].call.number < events'[j].call.number
      <4> SUFFICES ASSUME NEW i \in 1 .. n + 1, NEW j \in 1 .. n + 1, i < j
                   PROVE  events'[i].call.number < events'[j].call.number
        OBVIOUS
      <4>1. i \in 1 .. n
        BY <3>2
      <4>2. CASE j \in 1 .. n
        BY <1>0, <3>2, <4>1, <4>2 DEF Ordered, n
      <4>3. CASE j = n + 1
        BY <2>4, <2>6, <3>2, <3>3, <4>1, <4>3
      <4> QED
        BY <3>4, <4>2, <4>3
    <3>7. ASSUME seen # <<>>
          PROVE  Placed(seen[1]) /\ \A i \in 1 .. n + 1 : Before(seen[1].call, events'[i].call)
      <4>1. Placed(seen[1]) /\ \A i \in 1 .. n : Before(seen[1].call, events[i].call)
        BY <1>0, <3>7 DEF Ordered, n
      <4>2. Before(seen[1].call, call)
        BY <2>4, <4>1 DEF Placed, PlacedAt, MadeAt, Before, Calls
      <4> QED
        BY <2>6, <3>2, <3>4, <4>1, <4>2
    <3>8. events' \in Seq([identifier : {EventIdentifierOf(c) : c \in Calls}, call : Calls])
      BY <3>2 DEF E
    <3> QED
      BY <2>3, <2>5, <3>2, <3>5, <3>6, <3>7, <3>8 DEF Ordered, Placed
  <2> QED
    BY <1>0, <2>3, <2>4, <2>5, <2>7, NextInvParts
<1>5. CASE ReceiveEvent
  <2> DEFINE E == [identifier : {EventIdentifierOf(c) : c \in Calls}, call : Calls]
             n == Len(events)
  <2>1. /\ events # <<>> /\ events' = Tail(events) /\ seen' = <<Head(events)>>
        /\ UNCHANGED <<overflowChecks, lanes, exchanges>>
    BY <1>5 DEF ReceiveEvent
  <2>2. events \in Seq(E)
    BY <1>0 DEF Ordered
  <2> HIDE DEF E
  <2>3. /\ n \in Nat \ {0} /\ Tail(events) \in Seq(E) /\ Len(Tail(events)) = n - 1
        /\ \A i \in 1 .. n - 1 : Tail(events)[i] = events[i + 1] /\ i + 1 \in 1 .. n
        /\ Head(events) = events[1] /\ 1 \in 1 .. n
    BY <2>1, <2>2
  <2>4. seen'[1] = events[1]
    BY <2>1, <2>3
  <2> HIDE DEF n
  <2>5. /\ \A i \in 1 .. n : Placed(events[i]) /\ events[i].call.connection = connection
        /\ \A i, j \in 1 .. n : i < j => events[i].call.number < events[j].call.number
    BY <1>0 DEF Ordered, n
  <2>6. \A event : Placed(event) => Placed(event)'
    BY <2>1 DEF lanes, Placed
  <2>7. /\ Len(events') = n - 1 /\ connection' = connection
        /\ \A i \in 1 .. n - 1 : events'[i] = events[i + 1] /\ i + 1 \in 1 .. n
    BY <2>1, <2>3 DEF lanes
  <2>8. \A i \in 1 .. n - 1 : /\ PlacedAt(events'[i], overflowChecks', connection', minted')
                              /\ events'[i].call.connection = connection'
    BY <2>5, <2>6, <2>7 DEF Placed
  <2>9. \A i, j \in 1 .. n - 1 : i < j => events'[i].call.number < events'[j].call.number
    BY <2>3, <2>5, <2>7
  <2>10. \A i \in 1 .. n - 1 : Before(events[1].call, events'[i].call)
    BY <2>3, <2>5, <2>7 DEF Before
  <2>11. PlacedAt(events[1], overflowChecks', connection', minted')
    BY <2>3, <2>5, <2>6 DEF Placed
  <2>12. events' \in Seq([identifier : {EventIdentifierOf(c) : c \in Calls}, call : Calls])
    BY <2>1, <2>3 DEF E
  <2>13. Ordered'
    BY <2>4, <2>7, <2>8, <2>9, <2>10, <2>11, <2>12 DEF Ordered, Placed
  <2> QED
    BY <1>0, <2>1, <2>13 DEF lanes, exchanges, IInv, TypeOK, Identified, CallMade, Counted
<1>6. CASE Reconnect
  <2>1. CountersOK' /\ connection' = connection + 1 /\ overflowChecks' = overflowChecks
    BY <1>0, <1>6, ReconnectFacts
  <2>2. /\ waiting' = {} /\ requests' = requests /\ replies' = replies
        /\ events' = <<>> /\ seen' = seen
    BY <1>6 DEF Reconnect
  <2>3. /\ \A other : Identified(other) => Identified(other)'
        /\ \A event : Placed(event) => Placed(event)'
    BY <2>1, OthersStay
  <2>4. Ordered'
    BY <1>0, <2>2, <2>3 DEF Ordered
  <2> QED
    BY <1>0, <2>1, <2>2, <2>3, <2>4, NextInvParts
<1>7. CASE UNCHANGED vars
  BY <1>0, <1>7 DEF vars, IInv, TypeOK, Identified, CallMade, Counted, Ordered, Placed
<1> QED
  BY <1>1, <1>2, <1>3, <1>4, <1>5, <1>6, <1>7 DEF Next

THEOREM LanesInvariant == Spec => []IInv
<1> QED
  BY InitInv, NextInv, PTL DEF Spec

-----------------------------------------------------------------------------
(***************************************************************************)
(* What it is enough for                                                   *)
(***************************************************************************)

\* Counters stay within 64 bits and count what was minted (LaneSequence::next,
\* SessionEpoch::next).
THEOREM LanesTyping == Spec => []TypeOK
<1>1. IInv => TypeOK
  BY DEF IInv
<1> QED
  BY <1>1, LanesInvariant, PTL

\* In a build with overflow checks an identifier names one call.
LEMMA ChecksSeparateCalls ==
  ASSUME overflowChecks, NEW a, NEW b, Identified(a), Identified(b),
         a.identifier = b.identifier
  PROVE  a.call = b.call
<1>1. /\ a.call \in Calls /\ b.call \in Calls
      /\ a.call.connection < Span /\ a.call.number < Span
      /\ b.call.connection < Span /\ b.call.number < Span
  BY DEF Identified, CallMade, MadeAt
<1>2. a.call = b.call \/ SpanApart(a.call, b.call)
  BY <1>1, IdentifierMeansCall DEF Identified
<1>3. ~ SpanApart(a.call, b.call)
  BY <1>1, SpanAssumption DEF SpanApart, Calls
<1> QED
  BY <1>2, <1>3

\* Exchanges of all connections, side by side: two of one identifier are the same
\* call, in a build with overflow checks (ExchangeIdentifier, exchange.rs).
IdentifiersNameCalls ==
  overflowChecks =>
    \A a, b \in waiting \cup requests \cup replies :
      a.identifier = b.identifier => a.call = b.call

\* No two calls under way share an identifier, on both lanes and over reconnects.
THEOREM IdentifiersAreNames == Spec => []IdentifiersNameCalls
<1>1. IInv => IdentifiersNameCalls
  <2> SUFFICES ASSUME IInv, overflowChecks,
                      NEW a \in waiting \cup requests \cup replies,
                      NEW b \in waiting \cup requests \cup replies,
                      a.identifier = b.identifier
               PROVE  a.call = b.call
    BY DEF IdentifiersNameCalls
  <2>1. Identified(a) /\ Identified(b)
    BY DEF IInv
  <2> QED
    BY <2>1, ChecksSeparateCalls
<1> QED
  BY <1>1, LanesInvariant, PTL

\* An exchange is nothing but its identifier and its call, so that those that
\* agree on both are one exchange.
Plain(exchange) == exchange = [identifier |-> exchange.identifier, call |-> exchange.call]

WaitInv ==
  /\ \A exchange \in waiting \cup requests \cup replies : Plain(exchange)
  /\ NothingWaitsInVain

\* What is waited for is under way: a reply spent or refused was waited for by
\* nobody else.
THEOREM WaitsAreAnswered == Spec => []NothingWaitsInVain
<1>1. Init => WaitInv
  BY DEF Init, WaitInv, NothingWaitsInVain
<1>2. IInv /\ WaitInv /\ [Next]_vars => WaitInv'
  <2> SUFFICES ASSUME IInv, WaitInv, [Next]_vars PROVE WaitInv'
    OBVIOUS
  <2>1. ASSUME NEW lane \in Lanes, Open(lane) PROVE WaitInv'
    <3>1. PICK exchange :
            /\ exchange = [identifier |-> ExchangeIdentifier(epoch, lane, sequence[lane]),
                           call |-> Call(lane)]
            /\ waiting' = waiting \cup {exchange} /\ requests' = requests \cup {exchange}
            /\ replies' = replies /\ overflowChecks' = overflowChecks
      BY <2>1 DEF Open, Mint
    <3>2. Plain(exchange)
      BY <3>1 DEF Plain
    <3> QED
      BY <3>1, <3>2 DEF WaitInv, NothingWaitsInVain
  <2>2. ASSUME NEW request \in requests, Answer(request) PROVE WaitInv'
    BY <2>2 DEF Answer, WaitInv, NothingWaitsInVain
  <2>3. ASSUME NEW reply \in replies, TakeReply(reply) PROVE WaitInv'
    <3>1. /\ replies' = replies \ {reply} /\ requests' = requests
          /\ overflowChecks' = overflowChecks /\ waiting' \subseteq waiting
      BY <2>3 DEF TakeReply
    <3>2. ASSUME overflowChecks PROVE reply \notin waiting'
      <4>1. CASE \E exchange \in waiting :
                   Answers(reply, exchange) /\ waiting' = waiting \ {exchange}
        <5>1. PICK exchange \in waiting :
                Answers(reply, exchange) /\ waiting' = waiting \ {exchange}
          BY <4>1
        <5>2. Identified(exchange) /\ Identified(reply) /\ Plain(exchange) /\ Plain(reply)
          BY DEF IInv, WaitInv
        <5>3. exchange.identifier = reply.identifier
          BY <5>1 DEF Answers
        <5>4. exchange.call = reply.call
          BY <3>2, <5>2, <5>3, ChecksSeparateCalls
        <5>5. exchange = reply
          BY <5>2, <5>3, <5>4 DEF Plain
        <5> QED
          BY <5>1, <5>5
      <4>2. CASE (\A exchange \in waiting : ~ Answers(reply, exchange)) /\ UNCHANGED waiting
        BY <4>2 DEF Answers
      <4> QED
        BY <2>3, <4>1, <4>2 DEF TakeReply
    <3> QED
      BY <3>1, <3>2 DEF WaitInv, NothingWaitsInVain
  <2>4. CASE Reconnect
    BY <2>4 DEF Reconnect, WaitInv, NothingWaitsInVain
  <2>5. CASE UNCHANGED <<overflowChecks, exchanges>>
    BY <2>5 DEF exchanges, WaitInv, NothingWaitsInVain
  <2> QED
    BY <2>1, <2>2, <2>3, <2>4, <2>5 DEF Next, Publish, ReceiveEvent, Mint, vars, exchanges
<1>3. WaitInv => NothingWaitsInVain
  BY DEF WaitInv
<1> QED
  BY <1>1, <1>2, <1>3, LanesInvariant, PTL DEF Spec

\* Every number a side takes is used once: no two exchanges are the same call, none
\* is both asked and answered, and none has the number of an event, although the
\* acceptor's requests and events share a counter (LaneSequence, exchange.rs).
NumbersUsedOnce ==
  LET under_way == waiting \cup requests \cup replies
  IN /\ \A a, b \in under_way : a.call = b.call => a = b
     /\ requests \cap replies = {}
     /\ \A exchange \in under_way :
          /\ \A i \in 1 .. Len(events) : exchange.call # events[i].call
          /\ seen # <<>> => exchange.call # seen[1].call

\* The next call of a lane has not been made yet.
LEMMA NextCallIsNew ==
  ASSUME CountersOK, NEW lane \in Lanes
  PROVE  ~ CallMade(Call(lane))
  BY DEF CountersOK, CallMade, MadeAt, Call

\* Numbers are used once over reconnects too.
THEOREM NumbersAreUsedOnce == Spec => []NumbersUsedOnce
<1>1. Init => NumbersUsedOnce
  BY DEF Init, NumbersUsedOnce
<1>2. IInv /\ NumbersUsedOnce /\ [Next]_vars => NumbersUsedOnce'
  <2> SUFFICES ASSUME IInv, NumbersUsedOnce, [Next]_vars PROVE NumbersUsedOnce'
    OBVIOUS
  <2>1. /\ CountersOK
        /\ \A exchange \in waiting \cup requests \cup replies : CallMade(exchange.call)
        /\ \A i \in 1 .. Len(events) : CallMade(events[i].call)
        /\ seen # <<>> => CallMade(seen[1].call)
    BY InvParts DEF Identified, Ordered, Placed, PlacedAt, CallMade
  <2>2. ASSUME NEW lane \in Lanes, Open(lane) PROVE NumbersUsedOnce'
    <3>1. PICK exchange :
            /\ exchange.call = Call(lane)
            /\ waiting' = waiting \cup {exchange} /\ requests' = requests \cup {exchange}
            /\ replies' = replies /\ events' = events /\ seen' = seen
      BY <2>2 DEF Open
    <3>2. ~ CallMade(exchange.call)
      BY <2>1, <3>1, NextCallIsNew
    <3> QED
      BY <2>1, <3>1, <3>2 DEF NumbersUsedOnce
  <2>3. ASSUME NEW request \in requests, Answer(request) PROVE NumbersUsedOnce'
    BY <2>3 DEF Answer, NumbersUsedOnce
  <2>4. ASSUME NEW reply \in replies, TakeReply(reply) PROVE NumbersUsedOnce'
    <3>1. /\ waiting' \subseteq waiting /\ replies' \subseteq replies
          /\ requests' = requests /\ events' = events /\ seen' = seen
      BY <2>4 DEF TakeReply
    <3> QED
      BY <3>1 DEF NumbersUsedOnce
  <2>5. CASE Publish
    <3>1. PICK event :
            /\ event.call = Call("Acceptor") /\ events' = Append(events, event)
            /\ UNCHANGED exchanges /\ seen' = seen
      BY <2>5 DEF Publish
    <3>2. ~ CallMade(event.call)
      BY <2>1, <3>1, NextCallIsNew DEF Lanes
    <3>3. \A i \in 1 .. Len(events') :
            \/ i \in 1 .. Len(events) /\ events'[i] = events[i]
            \/ events'[i] = event
      <4>1. events \in Seq({events[i] : i \in 1 .. Len(events)})
        BY DEF IInv, Ordered
      <4> QED
        BY <3>1, <4>1
    <3>4. ASSUME NEW exchange \in waiting \cup requests \cup replies, NEW i \in 1 .. Len(events')
          PROVE  exchange.call # events'[i].call
      BY <2>1, <3>2, <3>3 DEF NumbersUsedOnce
    <3> QED
      BY <3>1, <3>4 DEF NumbersUsedOnce, exchanges
  <2>6. CASE ReceiveEvent
    <3>1. events # <<>> /\ events' = Tail(events) /\ seen' = <<Head(events)>> /\ UNCHANGED exchanges
      BY <2>6 DEF ReceiveEvent
    <3>2. events \in Seq([identifier : {EventIdentifierOf(call) : call \in Calls}, call : Calls])
      BY DEF IInv, Ordered
    <3>3. /\ 1 \in 1 .. Len(events) /\ seen'[1] = events[1]
          /\ \A i \in 1 .. Len(events') : i + 1 \in 1 .. Len(events) /\ events'[i] = events[i + 1]
      BY <3>1, <3>2
    <3> QED
      BY <3>1, <3>3 DEF NumbersUsedOnce, exchanges
  <2>7. CASE Reconnect
    <3>1. /\ waiting' = {} /\ requests' = requests /\ replies' = replies
          /\ events' = <<>> /\ seen' = seen
      BY <2>7 DEF Reconnect
    <3> QED
      BY <3>1 DEF NumbersUsedOnce
  <2>8. CASE UNCHANGED vars
    BY <2>8 DEF vars, NumbersUsedOnce
  <2> QED
    BY <2>2, <2>3, <2>4, <2>5, <2>6, <2>7, <2>8 DEF Next
<1> QED
  BY <1>1, <1>2, LanesInvariant, PTL DEF Spec

\* An event and an exchange of the acceptor never carry the same epoch and
\* sequence, in a build with overflow checks.
EventsApart ==
  overflowChecks =>
    \A exchange \in waiting \cup requests \cup replies : \A i \in 1 .. Len(events) :
      exchange.identifier # ExchangeIdentifier(events[i].identifier.session_epoch, "Acceptor",
                                               events[i].identifier.sequence)

\* The types of the two identifiers (ExchangeIdentifier, StreamEventIdentifier) are
\* not what keeps exchanges and events apart: their numbers already do.
THEOREM EventsStayApart == Spec => []EventsApart
<1>1. IInv /\ NumbersUsedOnce => EventsApart
  <2> SUFFICES ASSUME IInv, NumbersUsedOnce, overflowChecks,
                      NEW exchange \in waiting \cup requests \cup replies,
                      NEW i \in 1 .. Len(events),
                      exchange.identifier
                        = ExchangeIdentifier(events[i].identifier.session_epoch, "Acceptor",
                                             events[i].identifier.sequence)
               PROVE  FALSE
    BY DEF EventsApart
  <2> DEFINE call == events[i].call
             other == [identifier |-> IdentifierOf(call), call |-> call]
  <2>1. Identified(exchange) /\ Placed(events[i])
    BY DEF IInv, Ordered
  <2>2. /\ events[i].identifier = EventIdentifierOf(call) /\ call.lane = "Acceptor"
        /\ CallMade(call)
    BY <2>1 DEF Placed, PlacedAt, CallMade
  <2>3. exchange.identifier = IdentifierOf(call)
    BY <2>2 DEF IdentifierOf, EventIdentifierOf, ExchangeIdentifier, StreamEventIdentifier
  <2> HIDE DEF call
  <2>4. Identified(other) /\ other.identifier = exchange.identifier /\ other.call = call
    BY <2>2, <2>3 DEF Identified
  <2> HIDE DEF other
  <2>5. exchange.call = call
    BY <2>1, <2>4, ChecksSeparateCalls
  <2> QED
    BY <2>5 DEF call, NumbersUsedOnce
<1> QED
  BY <1>1, LanesInvariant, NumbersAreUsedOnce, PTL

\* A reply is taken for the request it answers, or a counter has started over
\* since: for every span, and never in a build with overflow checks.
THEOREM RepliesAnswer == Spec => RepliesAnswerTheirRequest
<1> DEFINE A == \A asked \in waiting \ waiting', answered \in replies \ replies' :
                  \/ asked.call = answered.call
                  \/ ~ overflowChecks /\ SpanApart(asked.call, answered.call)
<1>1. IInv /\ Next => A
  <2> SUFFICES ASSUME IInv, Next,
                      NEW asked \in waiting \ waiting', NEW answered \in replies \ replies'
               PROVE  \/ asked.call = answered.call
                      \/ ~ overflowChecks /\ SpanApart(asked.call, answered.call)
    OBVIOUS
  <2>1. asked \in waiting /\ asked \notin waiting' /\ answered \in replies /\ answered \notin replies'
    OBVIOUS
  <2>2. Identified(asked) /\ Identified(answered)
    BY <2>1 DEF IInv
  <2>3. PICK reply \in replies : TakeReply(reply)
    BY <2>1 DEF Next, Open, Answer, Publish, ReceiveEvent, Reconnect, exchanges
  <2>4. answered = reply /\ Answers(reply, asked)
    BY <2>1, <2>3 DEF TakeReply
  <2>5. IdentifierOf(asked.call) = IdentifierOf(answered.call)
    BY <2>2, <2>4 DEF Answers, Identified
  <2>6. asked.call \in Calls /\ answered.call \in Calls
    BY <2>2 DEF Identified, CallMade, MadeAt
  <2>7. asked.call = answered.call \/ SpanApart(asked.call, answered.call)
    BY <2>5, <2>6, IdentifierMeansCall
  <2>8. ASSUME overflowChecks PROVE asked.call = answered.call
    BY <2>2, <2>4, <2>8, ChecksSeparateCalls DEF Answers
  <2> QED
    BY <2>7, <2>8
<1>2. IInv /\ [Next]_vars => [A]_vars
  BY <1>1
<1>3. [][A]_vars <=> RepliesAnswerTheirRequest
  BY DEF RepliesAnswerTheirRequest
<1> QED
  BY <1>2, <1>3, LanesInvariant, PTL DEF Spec

\* Events ascend at the subscriber, over reconnects and beside the requests that
\* share the acceptor's lane, until a counter starts over.
THEOREM EventsAscendAlways == Spec => EventsAscend
<1> DEFINE A == seen' # seen /\ seen # <<>> => Ascend(seen[1], seen'[1])
<1>1. IInv /\ Next => A
  <2> SUFFICES ASSUME IInv, Next, seen' # seen, seen # <<>> PROVE Ascend(seen[1], seen'[1])
    OBVIOUS
  <2>1. ReceiveEvent
    BY DEF Next, Open, Answer, TakeReply, Publish, Reconnect, exchanges
  <2>2. events # <<>> /\ seen' = <<Head(events)>>
    BY <2>1 DEF ReceiveEvent
  <2>3. Ordered
    BY DEF IInv
  <2>4. 1 \in 1 .. Len(events) /\ seen'[1] = events[1]
    BY <2>2, <2>3 DEF Ordered
  <2>5. Placed(seen[1]) /\ Placed(events[1]) /\ Before(seen[1].call, events[1].call)
    BY <2>3, <2>4 DEF Ordered
  <2> QED
    BY <2>4, <2>5, LaterAscends
<1>2. IInv /\ [Next]_vars => [A]_vars
  BY <1>1
<1>3. [][A]_vars <=> EventsAscend
  BY DEF EventsAscend
<1> QED
  BY <1>2, <1>3, LanesInvariant, PTL DEF Spec

=============================================================================

---------------------------- MODULE ExchangeLanes -----------------------------
(***************************************************************************)
(* The identity of exchanges and events on a long-lived connection         *)
(* (src/exchange.rs). Each side mints the sequences of its own lane, a     *)
(* reply echoes the identifier of its request, events share the counter of *)
(* the acceptor's lane, and a reconnect starts a new epoch with fresh      *)
(* lanes. Counters are 64 bits wide: LaneSequence::next and                *)
(* SessionEpoch::next add without a check of their own, so that a build    *)
(* with overflow checks panics at the end of the span and one without them *)
(* starts over.                                                            *)
(*                                                                         *)
(* The values are in src/, whoever keeps the counters and the exchanges    *)
(* that wait is not: the actions are external, as the comments of          *)
(* exchange.rs and frame.rs ask for them, up to the comparison of          *)
(* reply_from_frame that decides which reply is taken.                     *)
(***************************************************************************)
EXTENDS Integers, Sequences, FiniteSets

CONSTANTS
  Span,             \* values of a counter: 2^64
  MaxConnections,   \* bound: connections, one after the other
  MaxMinted,        \* bound: sequences minted on a lane of a connection
  MaxInFlight       \* bound: requests and replies under way when another one opens

ASSUME SpanAssumption ==
  /\ Span \in Nat \ {0}
  /\ MaxConnections \in Nat
  /\ MaxMinted \in Nat
  /\ MaxInFlight \in Nat

VARIABLES
  overflowChecks,   \* whether the build checks additions
  epoch,            \* SessionEpoch of the live connection
  sequence,         \* the LaneSequence each side mints next
  connection,       \* history: how many connections there were before this one
  minted,           \* history: how many sequences each side minted on this one
  waiting,          \* exchanges whose reply is awaited
  requests,         \* requests on their way or being worked on
  replies,          \* replies on their way
  events,           \* events on their way, in order
  seen              \* the last event the subscriber received, if any

lanes == <<epoch, sequence, connection, minted>>
exchanges == <<waiting, requests, replies>>
vars == <<overflowChecks, epoch, sequence, connection, minted, waiting, requests, replies,
          events, seen>>

\* ExchangeLane.
Lanes == {"Connector", "Acceptor"}

-----------------------------------------------------------------------------
(***************************************************************************)
(* exchange.rs                                                             *)
(***************************************************************************)

First == 0

\* LaneSequence::next and SessionEpoch::next, where they do not panic.
Successor(value) == (value + 1) % Span
Advances(value) == overflowChecks => value + 1 < Span

ExchangeIdentifier(session_epoch, lane, number) ==
  [session_epoch |-> session_epoch, lane |-> lane, sequence |-> number]

\* StreamEventIdentifier::acceptor: the lane is not a choice.
StreamEventIdentifier(session_epoch, number) ==
  [session_epoch |-> session_epoch, sequence |-> number]

-----------------------------------------------------------------------------
(***************************************************************************)
(* The two sides                                                           *)
(***************************************************************************)

Init ==
  /\ overflowChecks \in BOOLEAN
  /\ epoch = 0
  /\ sequence = [lane \in Lanes |-> First]
  /\ connection = 0
  /\ minted = [lane \in Lanes |-> 0]
  /\ waiting = {}
  /\ requests = {}
  /\ replies = {}
  /\ events = <<>>
  /\ seen = <<>>

\* What the next sequence of a lane stands for, whatever its counter says.
Call(lane) == [connection |-> connection, lane |-> lane, number |-> minted[lane]]

\* A side takes the next sequence of its lane.
Mint(lane) ==
  /\ minted[lane] < MaxMinted
  /\ Advances(sequence[lane])
  /\ sequence' = [sequence EXCEPT ![lane] = Successor(@)]
  /\ minted' = [minted EXCEPT ![lane] = @ + 1]
  /\ UNCHANGED <<overflowChecks, epoch, connection>>

\* The request frame mints the identifier of the exchange.
Open(lane) ==
  LET exchange == [identifier |-> ExchangeIdentifier(epoch, lane, sequence[lane]),
                   call |-> Call(lane)]
  IN /\ Cardinality(requests \cup replies) < MaxInFlight
     /\ Mint(lane)
     /\ waiting' = waiting \cup {exchange}
     /\ requests' = requests \cup {exchange}
     /\ UNCHANGED <<replies, events, seen>>

\* The reply frame echoes it. Requests are answered in any order.
Answer(request) ==
  /\ requests' = requests \ {request}
  /\ replies' = replies \cup {request}
  /\ UNCHANGED <<overflowChecks, lanes, waiting, events, seen>>

\* Seeded fault: the epochs are not compared.
AnswersInAnyEpoch(reply, exchange) ==
  /\ exchange.call.lane = reply.call.lane
  /\ exchange.identifier.sequence = reply.identifier.sequence

\* Seeded fault: both sides' exchanges wait in one table, and the lanes are not
\* compared.
AnswersOnAnyLane(reply, exchange) ==
  /\ exchange.identifier.session_epoch = reply.identifier.session_epoch
  /\ exchange.identifier.sequence = reply.identifier.sequence

\* Whether reply_from_frame takes a reply for an exchange that waits on the side
\* the reply travels to.
Answers(reply, exchange) ==
  /\ exchange.call.lane = reply.call.lane
  /\ exchange.identifier = reply.identifier

\* A reply arrives, also one to a request of an earlier connection: it is taken
\* for an exchange of its identifier, or refused as a mismatch.
TakeReply(reply) ==
  /\ replies' = replies \ {reply}
  /\ \/ \E exchange \in waiting :
          /\ Answers(reply, exchange)
          /\ waiting' = waiting \ {exchange}
     \/ /\ \A exchange \in waiting : ~ Answers(reply, exchange)
        /\ UNCHANGED waiting
  /\ UNCHANGED <<overflowChecks, lanes, requests, events, seen>>

\* Seeded fault: an event takes a sequence without passing it on.
PublishWithoutNext ==
  /\ minted["Acceptor"] < MaxMinted
  /\ minted' = [minted EXCEPT !["Acceptor"] = @ + 1]
  /\ events' = Append(events, [identifier |-> StreamEventIdentifier(epoch, sequence["Acceptor"]),
                               call |-> Call("Acceptor")])
  /\ UNCHANGED <<overflowChecks, epoch, sequence, connection, exchanges, seen>>

\* The publisher takes the acceptor's counter for an event too.
Publish ==
  /\ Mint("Acceptor")
  /\ events' = Append(events, [identifier |-> StreamEventIdentifier(epoch, sequence["Acceptor"]),
                               call |-> Call("Acceptor")])
  /\ UNCHANGED <<exchanges, seen>>

ReceiveEvent ==
  /\ events # <<>>
  /\ seen' = <<Head(events)>>
  /\ events' = Tail(events)
  /\ UNCHANGED <<overflowChecks, lanes, exchanges>>

\* Seeded fault: the lanes start over in the epoch of the last connection.
ReconnectInSameEpoch ==
  /\ connection < MaxConnections
  /\ connection' = connection + 1
  /\ sequence' = [lane \in Lanes |-> First]
  /\ minted' = [lane \in Lanes |-> 0]
  /\ waiting' = {}
  /\ events' = <<>>
  /\ UNCHANGED <<overflowChecks, epoch, requests, replies, seen>>

\* A new connection: what waited is given up, events on the old one are lost,
\* and the requests the other side has already taken are answered on the new one.
Reconnect ==
  /\ connection < MaxConnections
  /\ Advances(epoch)
  /\ connection' = connection + 1
  /\ epoch' = Successor(epoch)
  /\ sequence' = [lane \in Lanes |-> First]
  /\ minted' = [lane \in Lanes |-> 0]
  /\ waiting' = {}
  /\ events' = <<>>
  /\ UNCHANGED <<overflowChecks, requests, replies, seen>>

Next ==
  \/ \E lane \in Lanes : Open(lane)
  \/ \E request \in requests : Answer(request)
  \/ \E reply \in replies : TakeReply(reply)
  \/ Publish
  \/ ReceiveEvent
  \/ Reconnect

Spec == Init /\ [][Next]_vars

-----------------------------------------------------------------------------
(***************************************************************************)
(* Properties                                                              *)
(***************************************************************************)

Calls == [connection : Nat, lane : Lanes, number : Nat]

Counted(call) ==
  /\ call.connection <= connection
  /\ call.connection = connection => call.number < minted[call.lane]

\* Counters stay within their width and count what was minted, and every exchange
\* stands for a call that was made, those that wait for one of this connection.
TypeOK ==
  /\ overflowChecks \in BOOLEAN
  /\ connection \in Nat /\ minted \in [Lanes -> Nat]
  /\ epoch = connection % Span
  /\ sequence = [lane \in Lanes |-> minted[lane] % Span]
  /\ overflowChecks => connection < Span /\ \A lane \in Lanes : minted[lane] < Span
  /\ \A exchange \in waiting \cup requests \cup replies :
       exchange.call \in Calls /\ Counted(exchange.call)
  /\ \A exchange \in waiting : exchange.call.connection = connection

\* Two calls of one lane that a whole span of connections or of sequences
\* separates.
SpanApart(a, b) ==
  \/ a.connection >= b.connection + Span \/ b.connection >= a.connection + Span
  \/ a.number >= b.number + Span \/ b.number >= a.number + Span

\* A reply that is taken answers the very request that was asked, across
\* reconnects and answers out of order, until a counter has gone once around; a
\* build with overflow checks never gets there.
RepliesAnswerTheirRequest ==
  [][\A asked \in waiting \ waiting', answered \in replies \ replies' :
       \/ asked.call = answered.call
       \/ ~ overflowChecks /\ SpanApart(asked.call, answered.call)]_vars

\* What is waited for is still under way: no reply is spent on the exchange of
\* another request, none is refused that somebody waits for, whatever order the
\* answers and the reconnects come in. Without overflow checks two exchanges of
\* one identifier may trade their replies.
NothingWaitsInVain ==
  overflowChecks => waiting \subseteq requests \cup replies

\* The round of its counter a call belongs to.
Round(count) == count \div Span

Ascend(before, after) ==
  IF before.call.connection = after.call.connection
  THEN /\ before.identifier.session_epoch = after.identifier.session_epoch
       /\ Round(before.call.number) = Round(after.call.number) =>
            before.identifier.sequence < after.identifier.sequence
  ELSE Round(before.call.connection) = Round(after.call.connection) =>
         before.identifier.session_epoch < after.identifier.session_epoch

\* The identifiers a subscriber receives ascend, by epoch and then by sequence,
\* as long as neither counter started over, although requests of the acceptor
\* take sequences of the same lane.
EventsAscend ==
  [][seen' # seen /\ seen # <<>> => Ascend(seen[1], seen'[1])]_vars

=============================================================================

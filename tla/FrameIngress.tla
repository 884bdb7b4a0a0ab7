---------------------------- MODULE FrameIngress ----------------------------
(***************************************************************************)
(* The daemon's side of a channel: connections that decode length-prefixed *)
(* frames (src/frame.rs) and the generated OperationDispatch::dispatch,    *)
(* the sole wire ingress (macros/src/emit.rs), which hands an operation to *)
(* the one handler.  Every connection decodes on its own; dispatch takes   *)
(* the handler by &mut and awaits it, so that one operation at a time is   *)
(* inside it while the other connections go on decoding.                   *)
(***************************************************************************)
EXTENDS WireFrame

CONSTANTS
  Peers,            \* connections to the daemon
  Nobody,           \* no connection: the handler is free
  Binding,          \* Contract::BINDING of the daemon's channel
  OperationCount,   \* operations of the channel, Tap and Untap included
  Bodies,           \* bodies the daemon's own types can hold
  Messages,         \* messages that reach the daemon
  MaxFrames         \* bound: messages per connection

Operations == 0 .. OperationCount - 1

BodyKinds == {"HandshakeRequest", "HandshakeReply", "Request", "Reply",
              "SubscriptionEvent"}

BodyType == [kind : BodyKinds, operations : Seq(Operations)]

\* A message was written by a bound producer of some contract and revision,
\* zero standing for producers older than the binding: its header names the
\* types its body was archived with.  Its route is whatever the producer
\* passed to Frame::new, any tail of it may have been lost, and its archive
\* may be damaged.
MessageType ==
  [size : Nat, declared : Nat, header : Nat, schema : RawBindings,
   body : BodyType \cup {Unreadable}]

ASSUME IngressAssumption ==
  /\ Nobody \notin Peers
  /\ Binding \in Bindings
  /\ OperationCount \in Nat
  /\ Bodies \subseteq BodyType
  /\ MaxFrames \in Nat
  /\ \A body \in Bodies : body.kind = "Request" => body.operations # <<>>
  /\ Messages \subseteq MessageType
  /\ \A message \in Messages :
       /\ message.declared < LengthSpan
       /\ HeaderBinding(message.header) = message.schema
       /\ message.schema = Binding => message.body \in Bodies \cup {Unreadable}

VARIABLES
  sent,       \* per connection, every message its peer has written
  decoded,    \* per connection, the frame decoded and not yet dispatched
  handling,   \* the connection whose operation is inside the handler
  verdicts    \* per connection, what became of its messages, oldest first

vars == <<sent, decoded, handling, verdicts>>

\* No decoded frame: a header of zero is not a ShortHeader.
NoFrame == [header |-> 0, body |-> Unreadable]

-----------------------------------------------------------------------------
(***************************************************************************)
(* Routes of operations.  The macro numbers the variants in declaration    *)
(* order and casts the index to a byte.                                    *)
(***************************************************************************)
RootOf(operation) == operation % ByteSpan

\* Seeded fault: numbered from one here, from zero in the match arms.
LogVariantFromOne(operation) == RootOf(operation) + 1

\* LogVariant sets byte 0 of the projection and leaves the other seven zero.
LogVariant(operation) == RootOf(operation)

OperationRoute(operation) == RouteOfLogVariant(LogVariant(operation))

\* The match arms of route_kind_from_short_header for a root byte, of which
\* Rust takes the first.
RouteArms(root) == {operation \in Operations : RootOf(operation) = root}
\* Seeded fault: the last of the arms.
IsLastArm(operation, root) ==
  /\ operation \in RouteArms(root)
  /\ \A other \in RouteArms(root) : other <= operation

IsFirstArm(operation, root) ==
  /\ operation \in RouteArms(root)
  /\ \A other \in RouteArms(root) : operation <= other

\* Seeded fault: the tail of the request is dropped instead of refused.
DispatchVerdictHeadOnly(header, body) ==
  LET route == HeaderRoute(header) IN
  IF body.kind # "Request" THEN "UnexpectedFrameBody"
  ELSE IF route.variant # 0 \/ ~ IsFirstArm(body.operations[1], route.root) THEN "HeaderOperationMismatch"
  ELSE "Handled"

\* dispatch: the first check that fails, or "Handled".
DispatchVerdict(header, body) ==
  LET route == HeaderRoute(header)
      operation == body.operations[1]
  IN
  IF BindingVerdict(Binding, header) # "Accepted" THEN BindingVerdict(Binding, header)
  ELSE IF body.kind # "Request" THEN "UnexpectedFrameBody"
  ELSE IF Len(body.operations) # 1 THEN "MultipleOperations"
  ELSE IF RouteArms(route.root) = {} THEN "UnknownOperationRoot"
  ELSE IF route.variant # 0 THEN "UnknownOperationVariant"
  ELSE IF ~ IsFirstArm(operation, route.root) THEN "HeaderOperationMismatch"
  ELSE IF OperationRoute(operation) # route THEN "HeaderRouteMismatch"
  ELSE "Handled"

\* request_frame: one operation under the route its log variant projects to.
RequestFrame(operation, archiveBytes) ==
  ArchivedMessage(Binding, OperationRoute(operation),
    [kind |-> "Request", operations |-> <<operation>>], archiveBytes)

Refusals ==
  {"ShortLengthPrefix", "LengthMismatch", "ShortHeaderTooShort", "UnboundHeader",
   "ContractMismatch", "UnsupportedWireRevision", "ArchiveDeserialize",
   "UnexpectedFrameBody", "MultipleOperations", "UnknownOperationRoot",
   "UnknownOperationVariant", "HeaderOperationMismatch", "HeaderRouteMismatch"}

-----------------------------------------------------------------------------
Init ==
  /\ sent = [p \in Peers |-> <<>>]
  /\ decoded = [p \in Peers |-> NoFrame]
  /\ handling = Nobody
  /\ verdicts = [p \in Peers |-> <<>>]

\* A peer's bytes reach the daemon's socket (external).
Send(p, message) ==
  /\ Len(sent[p]) < MaxFrames
  /\ sent' = [sent EXCEPT ![p] = Append(@, message)]
  /\ UNCHANGED <<decoded, handling, verdicts>>

\* The message the connection reads next.
Pending(p) == sent[p][Len(verdicts[p]) + 1]

Answered(p, outcome, operations) ==
  verdicts' = [verdicts EXCEPT ![p] =
    Append(@, [outcome |-> outcome, operations |-> operations])]

ReadyToDecode(p) ==
  /\ Len(verdicts[p]) < Len(sent[p])
  /\ decoded[p] = NoFrame
  /\ handling # p

\* Seeded fault: a frame of the wrong length is kept until the rest comes.
DecodeRefusesButWaits(p) ==
  /\ ReadyToDecode(p)
  /\ LET verdict == PrefixVerdict(Binding, Pending(p)) IN
       /\ verdict \notin {"Accepted", "LengthMismatch"}
       /\ Answered(p, verdict, <<>>)
  /\ UNCHANGED <<sent, decoded, handling>>

\* decode_length_prefixed fails before or in the archive decoder.
DecodeRefuses(p) ==
  /\ ReadyToDecode(p)
  /\ LET verdict == PrefixVerdict(Binding, Pending(p)) IN
     \/ /\ verdict # "Accepted"
        /\ Answered(p, verdict, <<>>)
     \/ /\ verdict = "Accepted"
        /\ Unreadable \in ArchiveReadings(Binding, Pending(p), Bodies)
        /\ Answered(p, "ArchiveDeserialize", <<>>)
  /\ UNCHANGED <<sent, decoded, handling>>

\* Seeded fault: the decoder's error is taken for a body.
DecodeAcceptsAnything(p) ==
  /\ ReadyToDecode(p)
  /\ PrefixVerdict(Binding, Pending(p)) = "Accepted"
  /\ \E body \in ArchiveReadings(Binding, Pending(p), Bodies) :
       decoded' = [decoded EXCEPT ![p] =
         [header |-> Header(Binding, HeaderRoute(Pending(p).header)), body |-> body]]
  /\ UNCHANGED <<sent, handling, verdicts>>

\* It succeeds: the frame's header is built again from the contract's binding
\* and the route that was read.
DecodeAccepts(p) ==
  /\ ReadyToDecode(p)
  /\ PrefixVerdict(Binding, Pending(p)) = "Accepted"
  /\ \E body \in ArchiveReadings(Binding, Pending(p), Bodies) \ {Unreadable} :
       decoded' = [decoded EXCEPT ![p] =
         [header |-> Header(Binding, HeaderRoute(Pending(p).header)), body |-> body]]
  /\ UNCHANGED <<sent, handling, verdicts>>

\* Seeded fault: a refused frame is not dropped and is dispatched again.
DispatchRefusesAgain(p) ==
  /\ decoded[p] # NoFrame
  /\ handling = Nobody
  /\ LET verdict == DispatchVerdict(decoded[p].header, decoded[p].body) IN
       /\ verdict # "Handled"
       /\ Len(verdicts[p]) <= MaxFrames
       /\ Answered(p, verdict, <<>>)
  /\ UNCHANGED <<sent, decoded, handling>>

\* dispatch returns an error before the handler is called.
DispatchRefuses(p) ==
  /\ decoded[p] # NoFrame
  /\ handling = Nobody
  /\ LET verdict == DispatchVerdict(decoded[p].header, decoded[p].body) IN
       /\ verdict # "Handled"
       /\ Answered(p, verdict, <<>>)
  /\ decoded' = [decoded EXCEPT ![p] = NoFrame]
  /\ UNCHANGED <<sent, handling>>

\* dispatch wraps the operation in its capability and enters the handler.
DispatchHandles(p) ==
  /\ decoded[p] # NoFrame
  /\ handling = Nobody
  /\ DispatchVerdict(decoded[p].header, decoded[p].body) = "Handled"
  /\ Answered(p, "Handled", <<decoded[p].body.operations[1]>>)
  /\ decoded' = [decoded EXCEPT ![p] = NoFrame]
  /\ handling' = p
  /\ UNCHANGED sent

\* handle_validated returns, with a reply or an error (external).
HandlerReturns ==
  /\ handling # Nobody
  /\ handling' = Nobody
  /\ UNCHANGED <<sent, decoded, verdicts>>

Decode(p) == DecodeRefuses(p) \/ DecodeAccepts(p)
Dispatch(p) == DispatchRefuses(p) \/ DispatchHandles(p)

Next ==
  \/ \E p \in Peers : \/ \E message \in Messages : Send(p, message)
                      \/ Decode(p)
                      \/ Dispatch(p)
  \/ HandlerReturns

Spec == Init /\ [][Next]_vars

\* The daemon reads what it is sent, and its handler comes back.  Peers owe
\* nothing.
Fairness ==
  /\ \A p \in Peers : WF_vars(Decode(p)) /\ WF_vars(Dispatch(p))
  /\ WF_vars(HandlerReturns)

FairSpec == Spec /\ Fairness

-----------------------------------------------------------------------------
(***************************************************************************)
(* Properties                                                              *)
(***************************************************************************)

\* The state is well typed: a held frame has a body of the channel and every
\* refusal is one of the errors of decode_length_prefixed and dispatch.
TypeOK ==
  /\ sent \in [Peers -> Seq(Messages)]
  /\ decoded \in [Peers -> [header : Nat, body : Bodies] \cup {NoFrame}]
  /\ handling \in Peers \cup {Nobody}
  /\ verdicts \in [Peers ->
       Seq([outcome : Refusals \cup {"Handled"}, operations : Seq(Operations)])]

\* All bytes of the message arrived.
Whole(message) ==
  /\ message.declared >= HeaderBytes
  /\ message.size = PrefixBytes + message.declared

\* What dispatch is for, said without the order of its checks: a whole frame
\* of this contract and revision that requests one operation under that
\* operation's own route.  Of operations whose indexes are equal as bytes only
\* the first one declared has a route of its own.
Acceptable ==
  {message \in Messages :
     /\ Whole(message)
     /\ message.schema = Binding
     /\ message.body.kind = "Request"
     /\ Len(message.body.operations) = 1
     /\ LET operation == message.body.operations[1] IN
          /\ operation < ByteSpan
          /\ HeaderRoute(message.header) = [root |-> operation, variant |-> 0]}

Carried == [message \in Acceptable |-> message.body.operations[1]]

\* The handler got an operation from a message exactly when that message was
\* acceptable, and then the operation the peer put into it: no forged route,
\* foreign archive or batch reaches the handler, no good frame is lost
\* (emit.rs, dispatch; frame.rs, decode).
VerdictsAreRight ==
  \A p \in Peers : \A i \in DOMAIN verdicts[p] :
    /\ i <= Len(sent[p])
    /\ IF sent[p][i] \in Acceptable
       THEN verdicts[p][i] = [outcome |-> "Handled", operations |-> <<Carried[sent[p][i]]>>]
       ELSE verdicts[p][i].outcome # "Handled" /\ verdicts[p][i].operations = <<>>

\* The archive of another contract or revision is never read: such a message
\* is refused for its length or its header, and what is held decoded was
\* archived with this contract's own types (decode_archive_with calls the
\* decoder last).
ForeignArchivesUnread ==
  \A p \in Peers :
    /\ \A i \in DOMAIN verdicts[p] : sent[p][i].schema # Binding =>
         verdicts[p][i].outcome \in
           {"ShortLengthPrefix", "LengthMismatch", "ShortHeaderTooShort",
            "UnboundHeader", "ContractMismatch", "UnsupportedWireRevision"}
    /\ decoded[p] # NoFrame => Pending(p).schema = Binding

\* The last check of dispatch is redundant: once the kinds agree the routes
\* do (emit.rs, HeaderRouteMismatch after HeaderOperationMismatch).
RouteMismatchUnreachable ==
  \A p \in Peers : \A i \in DOMAIN verdicts[p] :
    verdicts[p][i].outcome # "HeaderRouteMismatch"

\* What becomes of a message, told from the message alone.
MessageVerdict(message) ==
  IF PrefixVerdict(Binding, message) # "Accepted" THEN PrefixVerdict(Binding, message)
  ELSE IF message.body = Unreadable THEN "ArchiveDeserialize"
  ELSE DispatchVerdict(Header(Binding, HeaderRoute(message.header)), message.body)

\* Every verdict so far is the one its message deserves, whatever else the
\* connections held when it was given.
VerdictsDetermined ==
  \A p \in Peers : \A i \in DOMAIN verdicts[p] :
    verdicts[p][i].outcome = MessageVerdict(sent[p][i])

\* The same bytes meet the same fate on every connection and at every time:
\* neither what other peers send nor what the handler is busy with shows in a
\* verdict (decode_length_prefixed and dispatch take nothing but the frame).
SameMessageSameVerdict ==
  \A p, q \in Peers : \A i \in DOMAIN verdicts[p], j \in DOMAIN verdicts[q] :
    sent[p][i] = sent[q][j] => verdicts[p][i] = verdicts[q][j]

\* A decoded frame that waits for the handler is the oldest unanswered message
\* of its connection, whole and read with the types it was archived with.
HeldFramesAreCurrent ==
  \A p \in Peers : decoded[p] # NoFrame =>
    /\ Len(verdicts[p]) < Len(sent[p])
    /\ Whole(Pending(p))
    /\ Pending(p).schema = Binding
    /\ decoded[p] = [header |-> Header(Binding, HeaderRoute(Pending(p).header)),
                     body   |-> Pending(p).body]

\* The inductive invariant behind them.
IngressInv ==
  /\ TypeOK
  /\ HeldFramesAreCurrent
  /\ VerdictsAreRight
  /\ ForeignArchivesUnread
  /\ RouteMismatchUnreachable

\* The abstract ingress, with Acceptable and Carried as its constants.
Abstract == INSTANCE ValidatedIngress

\* Every behaviour of the ingress is one of ValidatedIngress (decode_length_prefixed
\* and dispatch, seen through sent and verdicts alone).
AbstractSpec == Abstract!Spec

\* Nothing a peer sends is left without an answer: no frame another peer sends
\* or forges stops a connection (dispatch returns on every path).
EveryMessageAnswered ==
  \A p \in Peers : \A i \in 1 .. MaxFrames :
    i <= Len(sent[p]) ~> i <= Len(verdicts[p])

\* A frame made by request_frame reaches the handler as the operation it was
\* made from, if that operation's index fits the root byte.
RequestFramesHandled ==
  \A p \in Peers : \A i \in 1 .. MaxFrames : \A operation \in Operations :
    (/\ operation < ByteSpan
     /\ i <= Len(sent[p])
     /\ \E n \in {sent[p][i].size} :
          sent[p][i] = RequestFrame(operation, n - PrefixBytes - HeaderBytes))
    ~> (/\ i <= Len(verdicts[p])
        /\ verdicts[p][i].operations = <<operation>>)

=============================================================================

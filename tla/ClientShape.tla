----------------------------- MODULE ClientShape -----------------------------
(***************************************************************************)
(* The command-line client (src/command_line.rs, ClientShape): every       *)
(* invocation is a process that takes one argument, routes it by the head  *)
(* of its first operation to the socket of the working or of the meta      *)
(* contract, opens a connection of its own, writes one request, reads one  *)
(* frame, prints the payloads of the reply and ends with an exit code.     *)
(*                                                                         *)
(* The daemon is not in the repository: the actions under "The daemon" are *)
(* external, as free as the replies and frames of src/ allow. It may close *)
(* a connection whenever it likes, also between the length prefix and the  *)
(* payload of a frame (a crash closes every connection). It builds replies *)
(* as the comments of src/reply.rs ask of it. An invocation reads one      *)
(* frame and no more, so only the first frame of a connection is modelled. *)
(***************************************************************************)
EXTENDS Integers, Sequences

CONSTANTS
  Invocations,        \* runs of the client
  WorkingHeads,       \* Working::Operation::HEADS
  MetaHeads,          \* Meta::Operation::HEADS
  UnroutableHeads,    \* operations whose log variant no short header can hold
  Oversized,          \* requests that cannot be encoded: no archive of them, or one
                      \* whose length the prefix cannot hold
  Arguments,          \* the arguments the runs are started with
  Sockets,            \* the contracts whose socket variable is set
  NoRequest,          \* stands for no invocation
  RepliesByExchange   \* TRUE if the daemon finds the connection of a reply by
                      \* its exchange identifier, FALSE if it keeps the stream

\* An argument: its form, the heads of the operations of the first object of
\* its text, and whether the rest of the text fits them.
ArgumentForms == {"none", "flag", "inline", "file", "unreadable", "malformed"}
Heads == UNION {WorkingHeads, MetaHeads}

ASSUME ClientAssumption ==
  /\ NoRequest \notin Invocations
  /\ RepliesByExchange \in BOOLEAN
  /\ Sockets \subseteq {"Working", "Meta"}
  /\ \A argument \in Arguments :
       /\ argument.form \in ArgumentForms
       /\ argument.decodes \in BOOLEAN
       /\ argument.heads \in Seq(STRING)

VARIABLES
  phase,      \* where each invocation stands in submit
  contract,   \* the socket its request was routed to
  request,    \* the heads of the operations it submits
  result,     \* how it ended
  printed,    \* the payloads it printed
  stream,     \* its connection, seen from the daemon
  answer,     \* the daemon's reply to its request
  incoming,   \* the frame on its connection, and how much of it was written
  committed   \* the invocations whose request the daemon committed

clientVars == <<phase, contract, request, result, printed>>
daemonVars == <<answer, committed>>
vars == <<phase, contract, request, result, printed, stream, answer, incoming, committed>>

Errors ==
  {"Argument", "MissingSocket", "Route", "InvalidRequest", "InputOutput", "SignalFrame",
   "FrameTooLarge", "UnexpectedFrame", "RequestRejected", "InvalidRoute",
   "ReplyExchangeMismatch"}

\* Seeded fault: InvalidRoute counts as the routing error of the input.
ExitCodeOfAnyRoute(outcome) ==
  CASE outcome = "Printed" -> 0
    [] outcome \in {"Argument", "Route", "InvalidRequest", "InvalidRoute"} -> 64
    [] OTHER -> 70

\* CommandLineError::exit_code; InvalidReply is never built.
ExitCode(outcome) ==
  CASE outcome = "Printed" -> 0
    [] outcome \in {"Argument", "Route", "InvalidRequest"} -> 64
    [] outcome \in {"MissingSocket", "InputOutput"} -> 69
    [] outcome \in {"SignalFrame", "FrameTooLarge", "UnexpectedFrame", "RequestRejected",
                    "InvalidRoute", "ReplyExchangeMismatch"} -> 70

\* ClientShape::exchange: the same for every invocation.
Exchange(c) == [session_epoch |-> 0, lane |-> "Connector", sequence |-> 0]

\* An exchange some other kind of client minted.
ForeignExchange == [session_epoch |-> 1, lane |-> "Connector", sequence |-> 0]

-----------------------------------------------------------------------------
(***************************************************************************)
(* From the argument to a routed request                                   *)
(***************************************************************************)

\* CommandLineRouteTable::route_head.
RouteHead(head) ==
  LET working == head \in WorkingHeads
      meta == head \in MetaHeads
  IN CASE working /\ ~ meta -> "Working"
       [] ~ working /\ meta -> "Meta"
       [] working /\ meta -> "AmbiguousRequestHead"
       [] OTHER -> "UnknownRequestHead"

HeadsOf(socket) == IF socket = "Working" THEN WorkingHeads ELSE MetaHeads

\* Seeded fault: the head of the first operation is all that is looked at.
DecodesHead(argument, socket) == argument.decodes /\ argument.heads[1] \in HeadsOf(socket)

\* RequestText::decode_request: every operation is one of the routed contract.
Decodes(argument, socket) ==
  /\ argument.decodes
  /\ \A i \in DOMAIN argument.heads : argument.heads[i] \in HeadsOf(socket)

\* SingleArgument, RequestInput::text, RequestHead, route, decode_request and
\* the socket lookup, in this order: an error, or the socket to submit to.
Prepared(argument) ==
  LET route == RouteHead(argument.heads[1])
  IN CASE argument.form \in {"none", "flag"} -> "Argument"
       [] argument.form = "unreadable" -> "InputOutput"
       [] argument.form = "malformed" \/ argument.heads = <<>> -> "InvalidRequest"
       [] route \in {"AmbiguousRequestHead", "UnknownRequestHead"} -> "Route"
       [] ~ Decodes(argument, route) -> "InvalidRequest"
       [] route \notin Sockets -> "MissingSocket"
       [] OTHER -> route

-----------------------------------------------------------------------------
(***************************************************************************)
(* Replies and frames                                                      *)
(***************************************************************************)

\* Replies to a request of n operations, built as src/reply.rs documents: Ok
\* under Committed only; one Failed at failed_at, what came before it
\* Invalidated, what comes after it Skipped; a batch abort invalidates all.
Committed(n) == [outcome |-> "Committed", per_operation |-> [i \in 1 .. n |-> "Ok"]]

OperationAborted(n, failed_at) ==
  [outcome |-> "OperationAborted",
   per_operation |-> [i \in 1 .. n |-> IF i < failed_at THEN "Invalidated"
                                       ELSE IF i = failed_at THEN "Failed" ELSE "Skipped"]]

BatchAborted(n) ==
  [outcome |-> "BatchAborted", per_operation |-> [i \in 1 .. n |-> "Invalidated"]]

Rejected == [outcome |-> "Rejected", per_operation |-> <<>>]

Unanswered == [outcome |-> "none", per_operation |-> <<>>]

\* What a frame read from the connection is made of: its body, the exchange it
\* echoes and the invocation it answers, and whether it passes the size limit.
NoFrame == [body |-> "none", exchange |-> ForeignExchange, of |-> NoRequest, large |-> FALSE]
OtherBodies == {"SubscriptionEvent", "Undecodable"}

Frames(c) ==
  LET repliesTo == {d \in Invocations :
                      /\ answer[d] # Unanswered
                      /\ \/ d = c
                         \/ /\ RepliesByExchange /\ Exchange(d) = Exchange(c)
                            /\ stream[d] = "closed"}
  IN {[body |-> "Reply", exchange |-> Exchange(d), of |-> d, large |-> large] :
         d \in repliesTo, large \in BOOLEAN}
       \cup [body : OtherBodies, exchange : {ForeignExchange}, of : {NoRequest}, large : BOOLEAN]
       \cup [body : {"Reply"}, exchange : {ForeignExchange}, of : {NoRequest}, large : BOOLEAN]

\* Seeded faults: sub-replies are not looked at; an abort counts as a rejection.
ReplyVerdictAccepted(reply) ==
  IF reply.outcome = "Rejected" THEN "RequestRejected" ELSE "Printed"

ReplyVerdictAbortRejects(reply) ==
  IF reply.outcome = "Committed" THEN "Printed" ELSE "RequestRejected"

\* reply_payloads: an error, or Printed. The outcome of an accepted reply is
\* not looked at.
ReplyVerdict(reply) ==
  IF reply.outcome = "Rejected" THEN "RequestRejected"
  ELSE IF \A i \in DOMAIN reply.per_operation : reply.per_operation[i] = "Ok" THEN "Printed"
  ELSE "UnexpectedFrame"

\* decode_client_frame, reply_from_frame and reply_payloads.
FrameVerdict(c, frame) ==
  IF frame.body = "Undecodable" THEN "SignalFrame"
  ELSE IF frame.body # "Reply" THEN "UnexpectedFrame"
  ELSE IF frame.exchange # Exchange(c) THEN "ReplyExchangeMismatch"
  ELSE ReplyVerdict(answer[frame.of])

\* The payloads printed of the reply to an invocation, in their order.
Payloads(of) ==
  [i \in DOMAIN answer[of].per_operation |-> [request |-> of, operation |-> i]]

-----------------------------------------------------------------------------
(***************************************************************************)
(* The client                                                              *)
(***************************************************************************)

Init ==
  /\ phase = [c \in Invocations |-> "ready"]
  /\ contract = [c \in Invocations |-> "none"]
  /\ request = [c \in Invocations |-> <<>>]
  /\ result = [c \in Invocations |-> "running"]
  /\ printed = [c \in Invocations |-> <<>>]
  /\ stream = [c \in Invocations |-> "none"]
  /\ answer = [c \in Invocations |-> Unanswered]
  /\ incoming = [c \in Invocations |-> [frame |-> NoFrame, written |-> "nothing"]]
  /\ committed = {}

\* The process ends: the stream is dropped and the exit code follows.
Ends(c, outcome) ==
  /\ phase' = [phase EXCEPT ![c] = "ended"]
  /\ result' = [result EXCEPT ![c] = outcome]

MovesTo(c, next) ==
  /\ phase' = [phase EXCEPT ![c] = next]
  /\ UNCHANGED result

\* reply_text up to submit.
Prepare(c) ==
  /\ phase[c] = "ready"
  /\ \E argument \in Arguments :
       \/ /\ Prepared(argument) \in Errors
          /\ Ends(c, Prepared(argument))
          /\ UNCHANGED <<contract, request>>
       \/ /\ Prepared(argument) \notin Errors
          /\ MovesTo(c, "routed")
          /\ contract' = [contract EXCEPT ![c] = Prepared(argument)]
          /\ request' = [request EXCEPT ![c] = argument.heads]
  /\ UNCHANGED <<printed, stream, answer, incoming, committed>>

\* Seeded fault, of ConnectFails: the error is dropped.
ConnectFailsQuietly(c) ==
  /\ phase[c] = "routed"
  /\ phase' = [phase EXCEPT ![c] = "ended"]
  /\ UNCHANGED <<contract, request, result, printed, stream, answer, incoming, committed>>

\* UnixStream::connect.
Connect(c) ==
  /\ phase[c] = "routed"
  /\ MovesTo(c, "connected")
  /\ stream' = [stream EXCEPT ![c] = "open"]
  /\ UNCHANGED <<contract, request, printed, answer, incoming, committed>>

ConnectFails(c) ==
  /\ phase[c] = "routed"
  /\ Ends(c, "InputOutput")
  /\ UNCHANGED <<contract, request, printed, stream, answer, incoming, committed>>

\* request_frame, which projects the route of the first operation, and
\* write_frame, which encodes the frame before it writes anything: what reaches
\* a closed connection is lost.
WriteRequest(c) ==
  /\ phase[c] = "connected"
  /\ \/ /\ request[c][1] \in UnroutableHeads
        /\ Ends(c, "InvalidRoute")
     \/ /\ request[c][1] \notin UnroutableHeads
        /\ request[c] \in Oversized
        /\ Ends(c, "SignalFrame")
     \/ /\ request[c][1] \notin UnroutableHeads
        /\ request[c] \notin Oversized
        /\ \/ stream[c] = "closed" /\ Ends(c, "InputOutput")
           \/ stream[c] = "open" /\ MovesTo(c, "written")
  /\ UNCHANGED <<contract, request, printed, stream, answer, incoming, committed>>

\* read_frame, its first read: the length prefix and the size limit.
ReadPrefix(c) ==
  /\ phase[c] = "written"
  /\ incoming[c].written \in {"prefix", "whole"}
  /\ \/ incoming[c].frame.large /\ Ends(c, "FrameTooLarge")
     \/ ~ incoming[c].frame.large /\ MovesTo(c, "sized")
  /\ UNCHANGED <<contract, request, printed, stream, answer, incoming, committed>>

\* read_frame, its second read, and what submit makes of the frame.
ReadPayload(c) ==
  /\ phase[c] = "sized"
  /\ incoming[c].written = "whole"
  /\ LET frame == incoming[c].frame
         verdict == FrameVerdict(c, frame)
     IN /\ Ends(c, verdict)
        /\ printed' = [printed EXCEPT ![c] =
             IF verdict = "Printed" THEN Payloads(frame.of) ELSE <<>>]
  /\ UNCHANGED <<contract, request, stream, answer, incoming, committed>>

\* Seeded faults: a closed stream is taken for an empty one; the end of the
\* stream is not noticed inside the payload.
ReadFailsAtOnce(c) ==
  /\ stream[c] = "closed"
  /\ phase[c] \in {"written", "sized"}
  /\ Ends(c, "InputOutput")
  /\ UNCHANGED <<contract, request, printed, stream, answer, incoming, committed>>

ReadFailsInPrefixOnly(c) ==
  /\ stream[c] = "closed"
  /\ phase[c] = "written" /\ incoming[c].written = "nothing"
  /\ Ends(c, "InputOutput")
  /\ UNCHANGED <<contract, request, printed, stream, answer, incoming, committed>>

\* read_exact meets the end of the stream in either read.
ReadFails(c) ==
  /\ stream[c] = "closed"
  /\ \/ phase[c] = "written" /\ incoming[c].written = "nothing"
     \/ phase[c] = "sized" /\ incoming[c].written = "prefix"
  /\ Ends(c, "InputOutput")
  /\ UNCHANGED <<contract, request, printed, stream, answer, incoming, committed>>

ClientStep(c) ==
  \/ Prepare(c) \/ Connect(c) \/ ConnectFails(c) \/ WriteRequest(c)
  \/ ReadPrefix(c) \/ ReadPayload(c) \/ ReadFails(c)

-----------------------------------------------------------------------------
(***************************************************************************)
(* The daemon (external)                                                   *)
(***************************************************************************)

\* The request has been written, and was not dropped unread.
Delivered(c) ==
  /\ stream[c] = "open"
  /\ request[c] # <<>>
  /\ phase[c] \notin {"ready", "routed", "connected"}
  /\ result[c] # "InvalidRoute" /\ request[c] \notin Oversized

\* The daemon decides a request and owes the reply. An aborted batch may have
\* been committed all the same (CommitStatus::Unknown).
Decide(c) ==
  /\ Delivered(c)
  /\ answer[c] = Unanswered
  /\ LET n == Len(request[c])
     IN \/ /\ answer' = [answer EXCEPT ![c] = Committed(n)]
           /\ committed' = committed \cup {c}
        \/ /\ \E failed_at \in 1 .. n : answer' = [answer EXCEPT ![c] = OperationAborted(n, failed_at)]
           /\ UNCHANGED committed
        \/ /\ answer' = [answer EXCEPT ![c] = BatchAborted(n)]
           /\ committed' \in {committed, committed \cup {c}}
        \/ /\ answer' = [answer EXCEPT ![c] = Rejected]
           /\ UNCHANGED committed
  /\ UNCHANGED <<clientVars, stream, incoming>>

\* The daemon writes a frame in two halves. It may hold the reply to a request
\* whose connection is gone. A frame that is no reply to this
\* invocation may come first: the event of a stream just opened, say.
SendPrefix(c) ==
  /\ Delivered(c)
  /\ incoming[c].written = "nothing"
  /\ \E frame \in Frames(c) :
       incoming' = [incoming EXCEPT ![c] = [frame |-> frame, written |-> "prefix"]]
  /\ UNCHANGED <<clientVars, stream, answer, committed>>

SendPayload(c) ==
  /\ stream[c] = "open"
  /\ incoming[c].written = "prefix"
  /\ incoming' = [incoming EXCEPT ![c].written = "whole"]
  /\ UNCHANGED <<clientVars, stream, answer, committed>>

\* The daemon closes the connection: it refuses the frame, or crashes.
Close(c) ==
  /\ stream[c] = "open"
  /\ stream' = [stream EXCEPT ![c] = "closed"]
  /\ UNCHANGED <<clientVars, answer, incoming, committed>>

DaemonStep(c) == Decide(c) \/ SendPrefix(c) \/ SendPayload(c) \/ Close(c)

Next == \E c \in Invocations : ClientStep(c) \/ DaemonStep(c)

Spec == Init /\ [][Next]_vars

\* The system schedules every process. The client sets no timeout, so its end
\* also rests on a daemon that, for every request, answers or hangs up.
Fairness ==
  \A c \in Invocations :
    /\ WF_vars(ClientStep(c))
    /\ WF_vars(DaemonStep(c))

FairSpec == Spec /\ Fairness

-----------------------------------------------------------------------------
(***************************************************************************)
(* Properties                                                              *)
(***************************************************************************)

SubReplies == {"Ok", "Invalidated", "Failed", "Skipped"}
ReplyType ==
  [outcome : {"none", "Committed", "OperationAborted", "BatchAborted", "Rejected"},
   per_operation : Seq(SubReplies)]
FrameType ==
  [body : {"none", "Reply"} \cup OtherBodies, exchange : {Exchange(c) : c \in Invocations} \cup {ForeignExchange},
   of : Invocations \cup {NoRequest}, large : BOOLEAN]

\* The state is well typed; an invocation has a result exactly when it has ended
\* (reply_text returns on every path).
TypeOK ==
  /\ phase \in [Invocations -> {"ready", "routed", "connected", "written", "sized", "ended"}]
  /\ contract \in [Invocations -> Sockets \cup {"none"}]
  /\ request \in [Invocations -> Seq(Heads)]
  /\ result \in [Invocations -> Errors \cup {"running", "Printed"}]
  /\ \A c \in Invocations : result[c] = "running" <=> phase[c] # "ended"
  /\ printed \in [Invocations -> Seq([request : Invocations, operation : Nat])]
  /\ stream \in [Invocations -> {"none", "open", "closed"}]
  /\ answer \in [Invocations -> ReplyType]
  /\ incoming \in [Invocations -> [frame : FrameType, written : {"nothing", "prefix", "whole"}]]
  /\ committed \in SUBSET Invocations

\* Exit code 0 is a promise: the daemon committed this very request, every
\* operation of it, and the payloads printed are theirs, in their order.
SuccessMeansCommitted ==
  \A c \in Invocations : result[c] = "Printed" =>
    /\ c \in committed
    /\ answer[c].outcome = "Committed"
    /\ printed[c] = [i \in DOMAIN request[c] |-> [request |-> c, operation |-> i]]

\* Exit code 64 blames the input: the run had opened no connection by then, and
\* its request never reaches a daemon.
UsageErrorsSendNothing ==
  \A c \in Invocations : result[c] # "running" /\ ExitCode(result[c]) = 64 =>
    /\ stream[c] = "none"
    /\ c \notin committed

\* Only whole requests of one contract are committed: every operation belongs
\* to the contract of the socket it went to, though the head of the first one
\* alone picked the socket, and that head was unambiguous.
CommittedRequestsFitTheirSocket ==
  \A c \in committed :
    /\ contract[c] \in Sockets
    /\ RouteHead(request[c][1]) = contract[c]
    /\ \A i \in DOMAIN request[c] : request[c][i] \in HeadsOf(contract[c])

\* Once a reply to the invocation is written whole and within the limit, how
\* the invocation ends is that reply's verdict, even if the daemon hung up at
\* once: a connection closed behind a reply loses nothing.
WholeReplyDecides ==
  \A c \in Invocations :
    /\ incoming[c].written = "whole"
    /\ incoming[c].frame.of = c
    /\ ~ incoming[c].frame.large
    /\ result[c] # "running"
    => result[c] = ReplyVerdict(answer[c])

\* A reply meant for another connection is never taken for this one's. What
\* src/exchange.rs says of session epochs: a stale reply from a previous
\* connection cannot land on a new one.
StaleRepliesRefused ==
  \A c \in Invocations : result[c] = "Printed" => incoming[c].frame.of = c

\* What an invocation knows of its request, read off its result.
Fate(c) ==
  IF result[c] = "running" THEN "running"
  ELSE IF result[c] = "Printed" THEN "done"
  ELSE IF result[c] = "RequestRejected" THEN "rejected"
  ELSE IF ExitCode(result[c]) = 64 THEN "unsent"
  ELSE "unknown"

Abstract == INSTANCE RemoteCall WITH known <- [c \in Invocations |-> Fate(c)]

\* What an invocation says of its request is what RemoteCall promises (submit and
\* CommandLineError::exit_code).
AbstractSpec == Abstract!Spec

\* Every invocation ends, as long as the daemon answers or hangs up.
EveryInvocationEnds == \A c \in Invocations : <>(result[c] # "running")

=============================================================================

------------------------- MODULE ClientShape_proofs -------------------------
(***************************************************************************)
(* Theorems about ClientShape for any number of invocations and any        *)
(* arguments: what a run says of its request is true, whatever the daemon  *)
(* answers and whenever it hangs up.                                       *)
(*                                                                         *)
(* None of the properties is inductive. ClientInv adds where a run stands  *)
(* when its connection and its request come to be, which shapes of reply a *)
(* daemon can have given, whose reply a frame holds, and, for every way to *)
(* end, what the connection looks like ever after.                         *)
(***************************************************************************)
EXTENDS ClientShape, TLAPS

\* A submitted request is one of a single contract, that of its socket.
RequestFits(c) ==
  request[c] # <<>> =>
    /\ contract[c] \in Sockets
    /\ RouteHead(request[c][1]) = contract[c]
    /\ \A i \in DOMAIN request[c] : request[c][i] \in HeadsOf(contract[c])

\* The order in which the request, the connection, the answer and the frame
\* come to be.
Stages(c) ==
  /\ phase[c] = "ready" => request[c] = <<>>
  /\ phase[c] \in {"ready", "routed"} => stream[c] = "none"
  /\ phase[c] \in {"routed", "connected", "written", "sized"} => request[c] # <<>>
  /\ stream[c] # "none" => request[c] # <<>>
  /\ phase[c] \in {"connected", "written", "sized"} => stream[c] # "none"
  /\ \/ stream[c] = "none" \/ phase[c] = "connected"
     \/ result[c] = "InvalidRoute" \/ request[c] \in Oversized
     => answer[c] = Unanswered /\ incoming[c].written = "nothing"
  /\ phase[c] = "sized" => ~ incoming[c].frame.large /\ incoming[c].written # "nothing"

\* What the daemon may have answered, and what that says of the commit.
AnswersFit(c) ==
  /\ c \in committed => answer[c] # Unanswered
  /\ answer[c] # Unanswered =>
       \/ answer[c] = Committed(Len(request[c])) /\ c \in committed
       \/ \E failed_at \in 1 .. Len(request[c]) :
            answer[c] = OperationAborted(Len(request[c]), failed_at)
       \/ answer[c] = BatchAborted(Len(request[c]))
       \/ answer[c] = Rejected /\ c \notin committed

\* Whose reply a frame holds: with a daemon that keeps the stream, that of the
\* invocation the stream belongs to.
FramesAnswer(c) ==
  LET frame == incoming[c].frame IN
  /\ frame.body = "Reply" /\ frame.exchange = Exchange(c) => frame.of \in Invocations
  /\ frame.of \in Invocations =>
       /\ frame.body = "Reply" /\ frame.exchange = Exchange(c)
       /\ answer[frame.of] # Unanswered
       /\ RepliesByExchange \/ frame.of = c

\* The ways to end.
Endings(c) ==
  \/ result[c] = "running"
  \/ /\ result[c] \in {"Argument", "Route", "InvalidRequest"}
     /\ request[c] = <<>>
  \/ result[c] = "InvalidRoute"
  \/ result[c] = "SignalFrame" /\ request[c] \in Oversized
  \/ /\ result[c] \in {"MissingSocket", "InputOutput"}
     /\ stream[c] # "open"
     /\ incoming[c].written # "whole"
  \/ /\ result[c] = "FrameTooLarge"
     /\ incoming[c].frame.large /\ incoming[c].written # "nothing"
  \/ /\ incoming[c].written = "whole"
     /\ result[c] = FrameVerdict(c, incoming[c].frame)
     /\ result[c] = "Printed" => printed[c] = Payloads(incoming[c].frame.of)

ClientInv ==
  /\ TypeOK
  /\ \A c \in Invocations :
       RequestFits(c) /\ Stages(c) /\ AnswersFit(c) /\ FramesAnswer(c) /\ Endings(c)

-----------------------------------------------------------------------------
(***************************************************************************)
(* The operators                                                           *)
(***************************************************************************)

\* Preparing an argument fails with one of five errors or yields the socket of
\* the one contract that all its operations belong to (reply_text).
LEMMA PreparedFits ==
  ASSUME NEW argument \in Arguments
  PROVE  /\ Prepared(argument) \in Errors =>
              Prepared(argument) \in {"Argument", "Route", "InvalidRequest", "InputOutput",
                                      "MissingSocket"}
         /\ Prepared(argument) \notin Errors =>
              /\ Prepared(argument) \in Sockets
              /\ argument.heads \in Seq(Heads)
              /\ argument.heads # <<>>
              /\ RouteHead(argument.heads[1]) = Prepared(argument)
              /\ \A i \in DOMAIN argument.heads : argument.heads[i] \in HeadsOf(Prepared(argument))
PROOF
<1> DEFINE route == RouteHead(argument.heads[1])
<1>1. route \in {"Working", "Meta", "AmbiguousRequestHead", "UnknownRequestHead"}
  BY DEF RouteHead
<1>2. argument.form \in ArgumentForms /\ argument.heads \in Seq(STRING)
  BY ClientAssumption
<1>3. Sockets \subseteq {"Working", "Meta"}
  BY ClientAssumption
<1> HIDE DEF route
<1>4. \/ Prepared(argument) \in {"Argument", "Route", "InvalidRequest", "InputOutput", "MissingSocket"}
      \/ /\ argument.heads # <<>>
         /\ Decodes(argument, route)
         /\ route \in Sockets
         /\ Prepared(argument) = route
  BY <1>1 DEF Prepared, route
<1>5. CASE Prepared(argument) \in {"Argument", "Route", "InvalidRequest", "InputOutput", "MissingSocket"}
  BY <1>5 DEF Errors
<1>6. CASE /\ argument.heads # <<>>
           /\ Decodes(argument, route)
           /\ route \in Sockets
           /\ Prepared(argument) = route
  <2>1. \A i \in DOMAIN argument.heads : argument.heads[i] \in HeadsOf(route)
    BY <1>6 DEF Decodes
  <2>2. HeadsOf(route) \subseteq Heads
    BY DEF HeadsOf, Heads
  <2>3. argument.heads \in Seq(Heads)
    BY <1>2, <2>1, <2>2
  <2>4. Prepared(argument) \notin Errors
    BY <1>3, <1>6 DEF Errors
  <2> QED
    BY <1>6, <2>1, <2>3, <2>4 DEF route
<1> QED
  BY <1>4, <1>5, <1>6

\* Of the replies a daemon builds only the committed one is printed, and only a
\* rejection counts as one (reply_payloads).
LEMMA VerdictsOfReplies ==
  ASSUME NEW n \in Nat \ {0}
  PROVE  /\ ReplyVerdict(Committed(n)) = "Printed"
         /\ \A failed_at \in 1 .. n : ReplyVerdict(OperationAborted(n, failed_at)) = "UnexpectedFrame"
         /\ ReplyVerdict(BatchAborted(n)) = "UnexpectedFrame"
         /\ ReplyVerdict(Rejected) = "RequestRejected"
PROOF
<1>1. ReplyVerdict(Committed(n)) = "Printed"
  BY DEF ReplyVerdict, Committed
<1>2. ASSUME NEW failed_at \in 1 .. n
      PROVE  ReplyVerdict(OperationAborted(n, failed_at)) = "UnexpectedFrame"
  <2>1. OperationAborted(n, failed_at).per_operation[failed_at] = "Failed"
    BY DEF OperationAborted
  <2>2. failed_at \in DOMAIN OperationAborted(n, failed_at).per_operation
    BY DEF OperationAborted
  <2>3. OperationAborted(n, failed_at).outcome # "Rejected"
    BY DEF OperationAborted
  <2> QED
    BY <2>1, <2>2, <2>3 DEF ReplyVerdict
<1>3. ReplyVerdict(BatchAborted(n)) = "UnexpectedFrame"
  <2>1. BatchAborted(n).per_operation[1] = "Invalidated" /\ 1 \in DOMAIN BatchAborted(n).per_operation
    BY DEF BatchAborted
  <2>2. BatchAborted(n).outcome # "Rejected"
    BY DEF BatchAborted
  <2> QED
    BY <2>1, <2>2 DEF ReplyVerdict
<1>4. ReplyVerdict(Rejected) = "RequestRejected"
  BY DEF ReplyVerdict, Rejected
<1> QED
  BY <1>1, <1>2, <1>3, <1>4

\* The replies a daemon builds are well typed and are replies.
LEMMA RepliesTyped ==
  ASSUME NEW n \in Nat
  PROVE  /\ Committed(n) \in ReplyType /\ Committed(n) # Unanswered
         /\ \A failed_at \in 1 .. n :
              OperationAborted(n, failed_at) \in ReplyType /\ OperationAborted(n, failed_at) # Unanswered
         /\ BatchAborted(n) \in ReplyType /\ BatchAborted(n) # Unanswered
         /\ Rejected \in ReplyType /\ Rejected # Unanswered
         /\ Unanswered \in ReplyType
PROOF
<1>1. Committed(n) \in ReplyType /\ Committed(n) # Unanswered
  BY DEF Committed, ReplyType, SubReplies, Unanswered
<1>2. ASSUME NEW failed_at \in 1 .. n
      PROVE  OperationAborted(n, failed_at) \in ReplyType /\ OperationAborted(n, failed_at) # Unanswered
  BY DEF OperationAborted, ReplyType, SubReplies, Unanswered
<1>3. BatchAborted(n) \in ReplyType /\ BatchAborted(n) # Unanswered
  BY DEF BatchAborted, ReplyType, SubReplies, Unanswered
<1>4. /\ Rejected \in ReplyType /\ Rejected # Unanswered
      /\ Unanswered \in ReplyType
  BY DEF Rejected, ReplyType, SubReplies, Unanswered
<1> QED
  BY <1>1, <1>2, <1>3, <1>4

\* The frames a daemon may send are well typed, and a reply among them that
\* echoes the exchange of the connection is the reply to an answered request.
LEMMA FramesTyped ==
  ASSUME NEW c \in Invocations, NEW frame \in Frames(c)
  PROVE  /\ frame \in FrameType
         /\ frame.body = "Reply" /\ frame.exchange = Exchange(c) => frame.of \in Invocations
         /\ frame.of \in Invocations =>
              /\ frame.body = "Reply" /\ frame.exchange = Exchange(c)
              /\ answer[frame.of] # Unanswered
              /\ RepliesByExchange \/ frame.of = c
PROOF
<1>1. Exchange(c) # ForeignExchange
  BY DEF Exchange, ForeignExchange
<1>2. NoRequest \notin Invocations /\ RepliesByExchange \in BOOLEAN
  BY ClientAssumption
<1> DEFINE repliesTo == {d \in Invocations :
                           /\ answer[d] # Unanswered
                           /\ \/ d = c
                              \/ /\ RepliesByExchange /\ Exchange(d) = Exchange(c)
                                 /\ stream[d] = "closed"}
<1>3. \/ \E d \in repliesTo, large \in BOOLEAN :
           frame = [body |-> "Reply", exchange |-> Exchange(c), of |-> d, large |-> large]
      \/ frame \in [body : OtherBodies, exchange : {ForeignExchange}, of : {NoRequest}, large : BOOLEAN]
      \/ frame \in [body : {"Reply"}, exchange : {ForeignExchange}, of : {NoRequest}, large : BOOLEAN]
  <2>1. \A d \in repliesTo : Exchange(d) = Exchange(c)
    OBVIOUS
  <2> QED
    BY <2>1 DEF Frames
<1>4. CASE \E d \in repliesTo, large \in BOOLEAN :
             frame = [body |-> "Reply", exchange |-> Exchange(c), of |-> d, large |-> large]
  BY <1>2, <1>4 DEF FrameType
<1>5. CASE frame \in [body : OtherBodies, exchange : {ForeignExchange}, of : {NoRequest}, large : BOOLEAN]
  BY <1>1, <1>2, <1>5 DEF FrameType, OtherBodies
<1>6. CASE frame \in [body : {"Reply"}, exchange : {ForeignExchange}, of : {NoRequest}, large : BOOLEAN]
  BY <1>1, <1>2, <1>6 DEF FrameType
<1> QED
  BY <1>3, <1>4, <1>5, <1>6

-----------------------------------------------------------------------------
(***************************************************************************)
(* What a step leaves alone                                                *)
(***************************************************************************)

\* The replies given so far stand.
RepliesStand ==
  \A d \in Invocations : answer[d] # Unanswered => answer'[d] = answer[d]

\* A frame keeps its verdict, and the payloads printed of it their meaning, as
\* long as the replies stand.
LEMMA FramesKeep ==
  ASSUME NEW d \in Invocations, TypeOK, FramesAnswer(d), RepliesStand,
         incoming'[d] = incoming[d]
  PROVE  /\ FramesAnswer(d)'
         /\ FrameVerdict(d, incoming[d].frame)' = FrameVerdict(d, incoming[d].frame)
         /\ FrameVerdict(d, incoming[d].frame) = "Printed" =>
              answer'[incoming[d].frame.of] = answer[incoming[d].frame.of]
PROOF
<1> DEFINE frame == incoming[d].frame
<1>1. incoming'[d].frame = frame
  OBVIOUS
<1>2. frame.of \in Invocations => answer[frame.of] # Unanswered /\ answer'[frame.of] = answer[frame.of]
  BY DEF FramesAnswer, RepliesStand
<1>3. FramesAnswer(d)'
  BY <1>1, <1>2 DEF FramesAnswer, Exchange
<1>4. CASE frame.body = "Reply" /\ frame.exchange = Exchange(d)
  <2>1. frame.of \in Invocations
    BY <1>4 DEF FramesAnswer
  <2>2. answer'[frame.of] = answer[frame.of]
    BY <1>2, <2>1
  <2>3. FrameVerdict(d, frame) = ReplyVerdict(answer[frame.of])
    BY <1>4 DEF FrameVerdict
  <2>4. FrameVerdict(d, frame)' = ReplyVerdict(answer'[frame.of])
    BY <1>1, <1>4 DEF FrameVerdict, Exchange, ReplyVerdict
  <2>5. ReplyVerdict(answer'[frame.of]) = ReplyVerdict(answer[frame.of])
    BY <2>2
  <2> QED
    BY <1>3, <2>2, <2>3, <2>4, <2>5
<1>5. CASE ~ (frame.body = "Reply" /\ frame.exchange = Exchange(d))
  <2>1. FrameVerdict(d, frame) \in {"SignalFrame", "ReplyExchangeMismatch", "UnexpectedFrame"}
    BY <1>5 DEF FrameVerdict
  <2>2. FrameVerdict(d, frame)' = FrameVerdict(d, frame)
    BY <1>1, <1>5 DEF FrameVerdict, Exchange
  <2> QED
    BY <1>3, <2>1, <2>2
<1> QED
  BY <1>4, <1>5

\* An invocation that has ended stays as it ended, whatever becomes of the
\* others; its connection may only close.
LEMMA EndingsKeep ==
  ASSUME NEW d \in Invocations, TypeOK, FramesAnswer(d), Endings(d), RepliesStand,
         result'[d] = result[d], request'[d] = request[d], printed'[d] = printed[d],
         incoming'[d] = incoming[d], stream'[d] = stream[d] \/ stream'[d] # "open"
  PROVE  Endings(d)'
PROOF
<1> DEFINE of == incoming[d].frame.of
<1>1. /\ FrameVerdict(d, incoming[d].frame)' = FrameVerdict(d, incoming[d].frame)
      /\ FrameVerdict(d, incoming[d].frame) = "Printed" => answer'[of] = answer[of]
  BY FramesKeep
<1>2. incoming'[d].frame = incoming[d].frame /\ incoming'[d].written = incoming[d].written
  OBVIOUS
<1>3. CASE \/ result[d] \in {"running", "InvalidRoute"}
           \/ result[d] = "SignalFrame" /\ request[d] \in Oversized
           \/ result[d] \in {"Argument", "Route", "InvalidRequest"} /\ request[d] = <<>>
           \/ /\ result[d] \in {"MissingSocket", "InputOutput"}
              /\ stream[d] # "open"
              /\ incoming[d].written # "whole"
           \/ /\ result[d] = "FrameTooLarge"
              /\ incoming[d].frame.large /\ incoming[d].written # "nothing"
  BY <1>2, <1>3 DEF Endings
<1>4. CASE /\ incoming[d].written = "whole"
           /\ result[d] = FrameVerdict(d, incoming[d].frame)
           /\ result[d] = "Printed" => printed[d] = Payloads(of)
  <2>1. result'[d] = FrameVerdict(d, incoming[d].frame)'
    BY <1>1, <1>4
  <2>2. result'[d] = "Printed" => printed'[d] = Payloads(of)'
    BY <1>1, <1>2, <1>4 DEF Payloads
  <2>3. /\ incoming'[d].written = "whole"
        /\ result'[d] = FrameVerdict(d, incoming[d].frame)'
        /\ result'[d] = "Printed" => printed'[d] = Payloads(incoming[d].frame.of)'
    BY <1>2, <1>4, <2>1, <2>2
  <2> QED
    BY <2>3, Zenon DEF Endings
<1> QED
  BY <1>3, <1>4 DEF Endings

\* A step of one invocation, or of the daemon for it, touches no other.
LEMMA OthersKeep ==
  ASSUME NEW d \in Invocations, ClientInv, RepliesStand,
         phase'[d] = phase[d], contract'[d] = contract[d], request'[d] = request[d],
         result'[d] = result[d], printed'[d] = printed[d], stream'[d] = stream[d],
         answer'[d] = answer[d], incoming'[d] = incoming[d],
         d \in committed' <=> d \in committed
  PROVE  (RequestFits(d) /\ Stages(d) /\ AnswersFit(d) /\ FramesAnswer(d) /\ Endings(d))'
PROOF
<1>1. TypeOK /\ RequestFits(d) /\ Stages(d) /\ AnswersFit(d) /\ FramesAnswer(d) /\ Endings(d)
  BY DEF ClientInv
<1>2. RequestFits(d)'
  BY <1>1 DEF RequestFits
<1>3. Stages(d)'
  BY <1>1 DEF Stages
<1>4. AnswersFit(d)'
  BY <1>1 DEF AnswersFit
<1>5. FramesAnswer(d)' /\ Endings(d)'
  BY <1>1, FramesKeep, EndingsKeep
<1> QED
  BY <1>2, <1>3, <1>4, <1>5

-----------------------------------------------------------------------------
(***************************************************************************)
(* The invariant is kept                                                   *)
(***************************************************************************)

\* The first state satisfies the invariant.
LEMMA InitClient == Init => ClientInv
PROOF
<1> SUFFICES ASSUME Init PROVE ClientInv
  OBVIOUS
<1>1. ForeignExchange \in {Exchange(c) : c \in Invocations} \cup {ForeignExchange}
  OBVIOUS
<1>2. NoFrame \in FrameType
  BY <1>1 DEF NoFrame, FrameType
<1>3. Unanswered \in ReplyType
  BY RepliesTyped
<1>4. TypeOK
  BY <1>2, <1>3 DEF Init, TypeOK, Errors
<1>5. ASSUME NEW c \in Invocations
      PROVE  RequestFits(c) /\ Stages(c) /\ AnswersFit(c) /\ FramesAnswer(c) /\ Endings(c)
  <2>1. RequestFits(c)
    BY DEF Init, RequestFits
  <2>2. Stages(c)
    BY DEF Init, Stages
  <2>3. AnswersFit(c)
    BY DEF Init, AnswersFit
  <2>4. FramesAnswer(c)
    BY ClientAssumption DEF Init, FramesAnswer, NoFrame
  <2>5. Endings(c)
    BY DEF Init, Endings
  <2> QED
    BY <2>1, <2>2, <2>3, <2>4, <2>5
<1> QED
  BY <1>4, <1>5 DEF ClientInv

\* The steps of an invocation leave the replies and the frames alone.
ClientOnly(c) ==
  /\ answer' = answer /\ incoming' = incoming /\ committed' = committed
  /\ \A d \in Invocations \ {c} :
       /\ phase'[d] = phase[d] /\ contract'[d] = contract[d] /\ request'[d] = request[d]
       /\ result'[d] = result[d] /\ printed'[d] = printed[d] /\ stream'[d] = stream[d]

\* A step of submit that moves one invocation to a stage, or ends it, and does
\* nothing else keeps every type.
LEMMA StageMoves ==
  ASSUME TypeOK, NEW c \in Invocations,
         NEW to \in {"written", "sized", "ended"},
         NEW outcome \in Errors \cup {"running", "Printed"},
         outcome = "running" <=> to # "ended",
         phase' = [phase EXCEPT ![c] = to], result' = [result EXCEPT ![c] = outcome],
         UNCHANGED <<contract, request, printed, stream, answer, incoming, committed>>
  PROVE  ClientOnly(c) /\ TypeOK'
PROOF
<1>1. /\ phase'[c] = to /\ result'[c] = outcome
      /\ \A d \in Invocations \ {c} : phase'[d] = phase[d] /\ result'[d] = result[d]
  BY DEF TypeOK
<1>2. phase' \in [Invocations -> {"ready", "routed", "connected", "written", "sized", "ended"}]
  BY DEF TypeOK
<1>3. result' \in [Invocations -> Errors \cup {"running", "Printed"}]
  BY DEF TypeOK
<1>4. \A d \in Invocations : result'[d] = "running" <=> phase'[d] # "ended"
  BY <1>1 DEF TypeOK
<1>5. TypeOK'
  BY <1>2, <1>3, <1>4 DEF TypeOK
<1>6. ClientOnly(c)
  BY <1>1 DEF ClientOnly
<1> QED
  BY <1>5, <1>6

\* A step of one invocation keeps the invariant if it keeps that invocation's part.
LEMMA ClientOnlyKeeps ==
  ASSUME ClientInv, NEW c \in Invocations, ClientOnly(c),
         TypeOK', (RequestFits(c) /\ Stages(c) /\ Endings(c))',
         answer[c] # Unanswered \/ c \in committed => request'[c] = request[c]
  PROVE  ClientInv'
PROOF
<1>1. RepliesStand
  BY DEF ClientOnly, RepliesStand
<1>2. ASSUME NEW d \in Invocations, d # c
      PROVE  (RequestFits(d) /\ Stages(d) /\ AnswersFit(d) /\ FramesAnswer(d) /\ Endings(d))'
  BY <1>1, <1>2, OthersKeep DEF ClientOnly
<1>3. AnswersFit(c)'
  BY DEF ClientInv, AnswersFit, ClientOnly
<1>4. FramesAnswer(c)'
  BY <1>1, FramesKeep DEF ClientInv, ClientOnly
<1> QED
  BY <1>2, <1>3, <1>4 DEF ClientInv

\* reply_text up to submit keeps the invariant: an error, or a request that fits
\* its socket.
LEMMA PrepareKeeps ==
  ASSUME ClientInv, NEW c \in Invocations, Prepare(c)
  PROVE  ClientInv'
PROOF
<1> USE DEF Ends, MovesTo
<1>1. TypeOK /\ phase[c] = "ready" /\ request[c] = <<>> /\ stream[c] = "none"
      /\ answer[c] = Unanswered /\ incoming[c].written = "nothing" /\ c \notin committed
      /\ result[c] = "running"
  BY DEF ClientInv, Stages, AnswersFit, Prepare, TypeOK
<1>2. PICK argument \in Arguments :
        \/ /\ Prepared(argument) \in Errors
           /\ Ends(c, Prepared(argument))
           /\ UNCHANGED <<contract, request>>
        \/ /\ Prepared(argument) \notin Errors
           /\ MovesTo(c, "routed")
           /\ contract' = [contract EXCEPT ![c] = Prepared(argument)]
           /\ request' = [request EXCEPT ![c] = argument.heads]
  BY DEF Prepare
<1>3. UNCHANGED <<printed, stream, answer, incoming, committed>>
  BY DEF Prepare
<1>4. ClientOnly(c)
  BY <1>1, <1>2, <1>3 DEF ClientOnly, TypeOK
<1>5. CASE /\ Prepared(argument) \in Errors
           /\ Ends(c, Prepared(argument))
           /\ UNCHANGED <<contract, request>>
  <2>1. Prepared(argument) \in {"Argument", "Route", "InvalidRequest", "InputOutput", "MissingSocket"}
    BY <1>5, PreparedFits
  <2>2. /\ phase'[c] = "ended" /\ result'[c] = Prepared(argument)
        /\ phase' \in [Invocations -> {"ready", "routed", "connected", "written", "sized", "ended"}]
        /\ result' \in [Invocations -> Errors \cup {"running", "Printed"}]
        /\ \A d \in Invocations : result'[d] = "running" <=> phase'[d] # "ended"
    BY <1>1, <1>5, <2>1 DEF TypeOK
  <2>3. TypeOK'
    BY <1>1, <1>3, <1>5, <2>2 DEF TypeOK
  <2>4. (RequestFits(c) /\ Stages(c) /\ Endings(c))'
    BY <1>1, <1>3, <1>5, <2>1, <2>2 DEF ClientInv, RequestFits, Stages, Endings
  <2> QED
    BY <1>1, <1>4, <2>3, <2>4, ClientOnlyKeeps
<1>6. CASE /\ Prepared(argument) \notin Errors
           /\ MovesTo(c, "routed")
           /\ contract' = [contract EXCEPT ![c] = Prepared(argument)]
           /\ request' = [request EXCEPT ![c] = argument.heads]
  <2>1. /\ Prepared(argument) \in Sockets
        /\ argument.heads \in Seq(Heads)
        /\ argument.heads # <<>>
        /\ RouteHead(argument.heads[1]) = Prepared(argument)
        /\ \A i \in DOMAIN argument.heads : argument.heads[i] \in HeadsOf(Prepared(argument))
    BY <1>6, PreparedFits
  <2>2. /\ phase'[c] = "routed" /\ result' = result /\ contract'[c] = Prepared(argument)
        /\ request'[c] = argument.heads
    BY <1>1, <1>6 DEF TypeOK
  <2>3. TypeOK'
    BY <1>1, <1>3, <1>6, <2>1 DEF TypeOK
  <2>4. (RequestFits(c) /\ Stages(c) /\ Endings(c))'
    BY <1>1, <1>3, <2>1, <2>2 DEF RequestFits, Stages, Endings
  <2> QED
    BY <1>1, <1>4, <2>3, <2>4, ClientOnlyKeeps
<1> QED
  BY <1>2, <1>5, <1>6

\* So does UnixStream::connect, whether it succeeds or not.
LEMMA ConnectsKeep ==
  ASSUME ClientInv, NEW c \in Invocations, Connect(c) \/ ConnectFails(c)
  PROVE  ClientInv'
PROOF
<1> USE DEF Ends, MovesTo
<1>1. TypeOK /\ phase[c] = "routed" /\ stream[c] = "none" /\ request[c] # <<>>
      /\ answer[c] = Unanswered /\ incoming[c].written = "nothing" /\ result[c] = "running"
  BY DEF ClientInv, Stages, Connect, ConnectFails, TypeOK
<1>2. UNCHANGED <<contract, request, printed, answer, incoming, committed>>
  BY DEF Connect, ConnectFails
<1>3. ClientOnly(c) /\ TypeOK'
  <2>1. CASE Connect(c)
    BY <1>1, <1>2, <2>1 DEF Connect, ClientOnly, TypeOK
  <2>2. CASE ConnectFails(c)
    BY <1>1, <1>2, <2>2 DEF ConnectFails, ClientOnly, TypeOK, Errors
  <2> QED
    BY <2>1, <2>2
<1>4. \/ phase'[c] = "connected" /\ result'[c] = "running" /\ stream'[c] = "open"
      \/ phase'[c] = "ended" /\ result'[c] = "InputOutput" /\ stream'[c] = "none"
  BY <1>1 DEF Connect, ConnectFails, TypeOK
<1>5. (RequestFits(c) /\ Stages(c) /\ Endings(c))'
  BY <1>1, <1>2, <1>4 DEF ClientInv, RequestFits, Stages, Endings
<1> QED
  BY <1>2, <1>3, <1>5, ClientOnlyKeeps

\* So does write_frame, with the projection of the route before it.
LEMMA WriteKeeps ==
  ASSUME ClientInv, NEW c \in Invocations, WriteRequest(c)
  PROVE  ClientInv'
PROOF
<1> USE DEF Ends, MovesTo
<1>1. TypeOK /\ phase[c] = "connected" /\ stream[c] # "none" /\ request[c] # <<>>
      /\ answer[c] = Unanswered /\ incoming[c].written = "nothing" /\ result[c] = "running"
  BY DEF ClientInv, Stages, WriteRequest, TypeOK
<1>2. UNCHANGED <<contract, request, printed, stream, answer, incoming, committed>>
  BY DEF WriteRequest
<1>3. \/ /\ phase' = [phase EXCEPT ![c] = "ended"]
         /\ \/ result' = [result EXCEPT ![c] = "InvalidRoute"]
            \/ request[c] \in Oversized /\ result' = [result EXCEPT ![c] = "SignalFrame"]
            \/ stream[c] = "closed" /\ result' = [result EXCEPT ![c] = "InputOutput"]
      \/ phase' = [phase EXCEPT ![c] = "written"] /\ result' = result
  BY DEF WriteRequest
<1>4. ClientOnly(c) /\ TypeOK'
  <2>1. result = [result EXCEPT ![c] = "running"]
    BY <1>1 DEF TypeOK
  <2>2. CASE phase' = [phase EXCEPT ![c] = "ended"] /\ result' = [result EXCEPT ![c] = "InvalidRoute"]
    BY <1>1, <1>2, <2>2, StageMoves DEF Errors
  <2>3. CASE phase' = [phase EXCEPT ![c] = "ended"] /\ result' = [result EXCEPT ![c] = "InputOutput"]
    BY <1>1, <1>2, <2>3, StageMoves DEF Errors
  <2>4. CASE phase' = [phase EXCEPT ![c] = "written"] /\ result' = result
    BY <1>1, <1>2, <2>1, <2>4, StageMoves
  <2>5. CASE phase' = [phase EXCEPT ![c] = "ended"] /\ result' = [result EXCEPT ![c] = "SignalFrame"]
    BY <1>1, <1>2, <2>5, StageMoves DEF Errors
  <2> QED
    BY <1>3, <2>2, <2>3, <2>4, <2>5
<1>5. \/ phase'[c] = "ended" /\ result'[c] = "InvalidRoute"
      \/ phase'[c] = "ended" /\ result'[c] = "SignalFrame" /\ request[c] \in Oversized
      \/ phase'[c] = "ended" /\ result'[c] = "InputOutput" /\ stream[c] = "closed"
      \/ phase'[c] = "written" /\ result'[c] = "running"
  BY <1>1, <1>3 DEF TypeOK
<1>6. (RequestFits(c) /\ Stages(c) /\ Endings(c))'
  BY <1>1, <1>2, <1>5 DEF ClientInv, RequestFits, Stages, Endings
<1> QED
  BY <1>2, <1>4, <1>6, ClientOnlyKeeps

\* So does the first read of read_frame.
LEMMA ReadPrefixKeeps ==
  ASSUME ClientInv, NEW c \in Invocations, ReadPrefix(c)
  PROVE  ClientInv'
PROOF
<1> USE DEF Ends, MovesTo
<1>1. TypeOK /\ phase[c] = "written" /\ stream[c] # "none" /\ request[c] # <<>>
      /\ incoming[c].written # "nothing" /\ result[c] = "running"
  BY DEF ClientInv, Stages, ReadPrefix, TypeOK
<1>2. UNCHANGED <<contract, request, printed, stream, answer, incoming, committed>>
  BY DEF ReadPrefix
<1>3. ClientOnly(c) /\ TypeOK'
  <2>1. result = [result EXCEPT ![c] = "running"]
    BY <1>1 DEF TypeOK
  <2>2. CASE phase' = [phase EXCEPT ![c] = "ended"] /\ result' = [result EXCEPT ![c] = "FrameTooLarge"]
    BY <1>1, <1>2, <2>2, StageMoves DEF Errors
  <2>3. CASE phase' = [phase EXCEPT ![c] = "sized"] /\ result' = result
    BY <1>1, <1>2, <2>1, <2>3, StageMoves
  <2> QED
    BY <2>2, <2>3 DEF ReadPrefix
<1>4. \/ phase'[c] = "ended" /\ result'[c] = "FrameTooLarge" /\ incoming[c].frame.large
      \/ phase'[c] = "sized" /\ result'[c] = "running" /\ ~ incoming[c].frame.large
  BY <1>1 DEF TypeOK, ReadPrefix
<1>5. (RequestFits(c) /\ Stages(c) /\ Endings(c))'
  BY <1>1, <1>2, <1>4 DEF ClientInv, RequestFits, Stages, Endings
<1> QED
  BY <1>2, <1>3, <1>5, ClientOnlyKeeps

\* So does the end of the stream in either read.
LEMMA ReadFailsKeeps ==
  ASSUME ClientInv, NEW c \in Invocations, ReadFails(c)
  PROVE  ClientInv'
PROOF
<1> USE DEF Ends
<1>1. TypeOK /\ phase[c] \in {"written", "sized"} /\ stream[c] = "closed" /\ request[c] # <<>>
      /\ incoming[c].written \in {"nothing", "prefix"} /\ result[c] = "running"
  BY DEF ClientInv, Stages, ReadFails, TypeOK
<1>2. UNCHANGED <<contract, request, printed, stream, answer, incoming, committed>>
  BY DEF ReadFails
<1>3. ClientOnly(c) /\ TypeOK' /\ phase'[c] = "ended" /\ result'[c] = "InputOutput"
  BY <1>1, <1>2 DEF ClientOnly, TypeOK, Errors, ReadFails
<1>4. (RequestFits(c) /\ Stages(c) /\ Endings(c))'
  BY <1>1, <1>2, <1>3 DEF ClientInv, RequestFits, Stages, Endings
<1> QED
  BY <1>2, <1>3, <1>4, ClientOnlyKeeps

\* What is printed of a frame is the payloads of a reply that was given.
LEMMA VerdictsTyped ==
  ASSUME TypeOK, NEW c \in Invocations, FramesAnswer(c)
  PROVE  /\ FrameVerdict(c, incoming[c].frame) \in Errors \cup {"Printed"}
         /\ FrameVerdict(c, incoming[c].frame) = "Printed" =>
              /\ incoming[c].frame.of \in Invocations
              /\ Payloads(incoming[c].frame.of) \in Seq([request : Invocations, operation : Nat])
PROOF
<1> DEFINE frame == incoming[c].frame
<1>1. ReplyVerdict(answer[frame.of]) \in Errors \cup {"Printed"}
  BY DEF ReplyVerdict, Errors
<1>2. FrameVerdict(c, frame) \in Errors \cup {"Printed"}
  BY <1>1 DEF FrameVerdict, Errors
<1>3. ASSUME FrameVerdict(c, frame) = "Printed"
      PROVE  frame.of \in Invocations
  BY <1>3 DEF FrameVerdict, FramesAnswer
<1>4. ASSUME frame.of \in Invocations
      PROVE  Payloads(frame.of) \in Seq([request : Invocations, operation : Nat])
  <2>1. answer[frame.of].per_operation \in Seq(SubReplies)
    BY <1>4 DEF TypeOK, ReplyType
  <2>2. PICK n \in Nat : DOMAIN answer[frame.of].per_operation = 1 .. n
    BY <2>1
  <2> QED
    BY <1>4, <2>2 DEF Payloads
<1> QED
  BY <1>2, <1>3, <1>4

\* So does the second read, whose verdict is that of the frame.
LEMMA ReadPayloadKeeps ==
  ASSUME ClientInv, NEW c \in Invocations, ReadPayload(c)
  PROVE  ClientInv'
PROOF
<1> DEFINE frame == incoming[c].frame
           verdict == FrameVerdict(c, frame)
<1>1. TypeOK /\ FramesAnswer(c) /\ phase[c] = "sized" /\ stream[c] # "none" /\ request[c] # <<>>
      /\ incoming[c].written = "whole" /\ result[c] = "running"
  BY DEF ClientInv, Stages, ReadPayload, TypeOK
<1>2. /\ phase' = [phase EXCEPT ![c] = "ended"]
      /\ result' = [result EXCEPT ![c] = verdict]
      /\ printed' = [printed EXCEPT ![c] = IF verdict = "Printed" THEN Payloads(frame.of) ELSE <<>>]
      /\ UNCHANGED <<contract, request, stream, answer, incoming, committed>>
  BY DEF ReadPayload, Ends
<1>3. /\ verdict \in Errors \cup {"Printed"}
      /\ verdict = "Printed" => Payloads(frame.of) \in Seq([request : Invocations, operation : Nat])
  BY <1>1, VerdictsTyped
<1> HIDE DEF verdict
<1>4. ClientOnly(c)
  BY <1>1, <1>2 DEF ClientOnly, TypeOK
<1>5. TypeOK'
  <2>1. printed' \in [Invocations -> Seq([request : Invocations, operation : Nat])]
    <3>1. (IF verdict = "Printed" THEN Payloads(frame.of) ELSE <<>>)
            \in Seq([request : Invocations, operation : Nat])
      BY <1>3
    <3> QED
      BY <1>1, <1>2, <3>1 DEF TypeOK
  <2>2. /\ phase' \in [Invocations -> {"ready", "routed", "connected", "written", "sized", "ended"}]
        /\ result' \in [Invocations -> Errors \cup {"running", "Printed"}]
    BY <1>1, <1>2, <1>3 DEF TypeOK
  <2>3. verdict # "running"
    BY <1>3 DEF Errors
  <2>4. \A d \in Invocations : result'[d] = "running" <=> phase'[d] # "ended"
    BY <1>1, <1>2, <2>3 DEF TypeOK
  <2> QED
    BY <1>1, <1>2, <2>1, <2>2, <2>4 DEF TypeOK
<1>6. /\ phase'[c] = "ended" /\ result'[c] = verdict
      /\ verdict = "Printed" => printed'[c] = Payloads(frame.of)
  BY <1>1, <1>2 DEF TypeOK
<1>7. (RequestFits(c) /\ Stages(c))'
  <2>1. verdict # "InvalidRoute"
    BY DEF verdict, FrameVerdict, ReplyVerdict
  <2> QED
    BY <1>1, <1>2, <1>6, <2>1 DEF ClientInv, RequestFits, Stages
<1>8. Endings(c)'
  <2>1. FrameVerdict(c, frame)' = verdict
    BY <1>2 DEF verdict, FrameVerdict, ReplyVerdict, Exchange
  <2>2. Payloads(frame.of)' = Payloads(frame.of)
    BY <1>2 DEF Payloads
  <2> QED
    BY <1>1, <1>2, <1>6, <2>1, <2>2 DEF Endings
<1> QED
  BY <1>2, <1>4, <1>5, <1>7, <1>8, ClientOnlyKeeps

\* A decision of the daemon keeps the invariant: it leaves the client alone and
\* every earlier reply as it was.
LEMMA DecideKeeps ==
  ASSUME ClientInv, NEW c \in Invocations, Decide(c)
  PROVE  ClientInv'
PROOF
<1> DEFINE n == Len(request[c])
<1>1. /\ TypeOK /\ answer[c] = Unanswered /\ c \notin committed
      /\ stream[c] = "open" /\ request[c] # <<>>
      /\ phase[c] \notin {"ready", "routed", "connected"} /\ result[c] # "InvalidRoute"
      /\ request[c] \notin Oversized
  BY DEF ClientInv, AnswersFit, Decide, Delivered
<1>2. UNCHANGED <<phase, contract, request, result, printed, stream, incoming>>
  BY DEF Decide, clientVars
<1>3. n \in Nat \ {0}
  BY <1>1 DEF TypeOK
<1>4. PICK reply :
        /\ answer' = [answer EXCEPT ![c] = reply]
        /\ reply \in ReplyType /\ reply # Unanswered
        /\ committed' \in {committed, committed \cup {c}}
        /\ \/ reply = Committed(n) /\ c \in committed'
           \/ \E failed_at \in 1 .. n : reply = OperationAborted(n, failed_at)
           \/ reply = BatchAborted(n)
           \/ reply = Rejected /\ c \notin committed'
  BY <1>1, <1>3, RepliesTyped DEF Decide
<1>5. answer'[c] = reply /\ \A d \in Invocations \ {c} : answer'[d] = answer[d]
  BY <1>1, <1>4 DEF TypeOK
<1>6. RepliesStand
  BY <1>1, <1>5 DEF RepliesStand
<1>7. TypeOK'
  <2>1. answer' \in [Invocations -> ReplyType]
    BY <1>1, <1>4 DEF TypeOK
  <2>2. committed' \in SUBSET Invocations
    BY <1>1, <1>4 DEF TypeOK
  <2> QED
    BY <1>1, <1>2, <2>1, <2>2 DEF TypeOK
<1>8. ASSUME NEW d \in Invocations, d # c
      PROVE  (RequestFits(d) /\ Stages(d) /\ AnswersFit(d) /\ FramesAnswer(d) /\ Endings(d))'
  <2>1. d \in committed' <=> d \in committed
    BY <1>4, <1>8
  <2> QED
    BY <1>2, <1>5, <1>6, <1>8, <2>1, OthersKeep
<1>9. (RequestFits(c) /\ Stages(c))'
  BY <1>1, <1>2 DEF ClientInv, RequestFits, Stages
<1>10. AnswersFit(c)'
  BY <1>2, <1>4, <1>5 DEF AnswersFit
<1>11. FramesAnswer(c)' /\ Endings(c)'
  BY <1>1, <1>2, <1>6, FramesKeep, EndingsKeep DEF ClientInv
<1> QED
  BY <1>7, <1>8, <1>9, <1>10, <1>11 DEF ClientInv

\* Nor do the frames it writes, half by half, disturb how an invocation ended.
LEMMA SendsKeep ==
  ASSUME ClientInv, NEW c \in Invocations, SendPrefix(c) \/ SendPayload(c)
  PROVE  ClientInv'
PROOF
<1>1. /\ TypeOK /\ stream[c] = "open" /\ incoming[c].written # "whole"
      /\ phase[c] # "connected" /\ result[c] # "InvalidRoute" /\ request[c] \notin Oversized
  <2>1. stream[c] = "open" /\ incoming[c].written \in {"nothing", "prefix"}
    BY DEF SendPrefix, SendPayload, Delivered
  <2>2. CASE SendPrefix(c)
    BY <2>1, <2>2 DEF SendPrefix, Delivered, ClientInv
  <2>3. CASE SendPayload(c)
    BY <2>1, <2>3 DEF SendPayload, ClientInv, Stages
  <2> QED
    BY <2>2, <2>3
<1>2. UNCHANGED <<phase, contract, request, result, printed, stream, answer, committed>>
  BY DEF SendPrefix, SendPayload, clientVars
<1>3. PICK frame, written :
        /\ incoming' = [incoming EXCEPT ![c] = [frame |-> frame, written |-> written]]
        /\ written \in {"prefix", "whole"}
        /\ \/ frame \in Frames(c) /\ SendPrefix(c) /\ incoming[c].written = "nothing"
           \/ frame = incoming[c].frame /\ incoming[c].written = "prefix"
  <2>1. CASE SendPrefix(c)
    BY <2>1 DEF SendPrefix
  <2>2. CASE SendPayload(c)
    <3>1. incoming' = [incoming EXCEPT ![c] = [incoming[c] EXCEPT !.written = "whole"]]
      BY <2>2 DEF SendPayload
    <3>2. incoming[c] \in [frame : FrameType, written : {"nothing", "prefix", "whole"}]
      BY <1>1 DEF TypeOK
    <3>3. [incoming[c] EXCEPT !.written = "whole"] = [frame |-> incoming[c].frame, written |-> "whole"]
      BY <3>2
    <3>4. incoming' = [incoming EXCEPT ![c] = [frame |-> incoming[c].frame, written |-> "whole"]]
      BY <3>1, <3>3
    <3> QED
      BY <2>2, <3>4 DEF SendPayload
  <2> QED
    BY <2>1, <2>2
<1>4. /\ incoming'[c] = [frame |-> frame, written |-> written]
      /\ \A d \in Invocations \ {c} : incoming'[d] = incoming[d]
  BY <1>1, <1>3 DEF TypeOK
<1>5. /\ frame \in FrameType
      /\ frame.body = "Reply" /\ frame.exchange = Exchange(c) => frame.of \in Invocations
      /\ frame.of \in Invocations =>
           /\ frame.body = "Reply" /\ frame.exchange = Exchange(c)
           /\ answer[frame.of] # Unanswered
           /\ RepliesByExchange \/ frame.of = c
  <2>1. CASE frame \in Frames(c)
    BY <2>1, FramesTyped
  <2>2. CASE frame = incoming[c].frame
    BY <1>1, <2>2 DEF ClientInv, FramesAnswer, TypeOK
  <2> QED
    BY <1>3, <2>1, <2>2
<1>6. RepliesStand
  BY <1>2 DEF RepliesStand
<1>7. TypeOK'
  BY <1>1, <1>2, <1>3, <1>5 DEF TypeOK
<1>8. ASSUME NEW d \in Invocations, d # c
      PROVE  (RequestFits(d) /\ Stages(d) /\ AnswersFit(d) /\ FramesAnswer(d) /\ Endings(d))'
  BY <1>2, <1>4, <1>6, <1>8, OthersKeep
<1>9. (RequestFits(c) /\ AnswersFit(c))'
  BY <1>2 DEF ClientInv, RequestFits, AnswersFit
<1>10. Stages(c)'
  <2>1. incoming'[c].frame = frame /\ incoming'[c].written # "nothing"
    BY <1>3, <1>4
  <2>2. phase[c] = "sized" => ~ frame.large
    BY <1>1, <1>3 DEF ClientInv, Stages
  <2> QED
    BY <1>1, <1>2, <2>1, <2>2 DEF ClientInv, Stages
<1>11. FramesAnswer(c)'
  BY <1>2, <1>4, <1>5 DEF FramesAnswer, Exchange
<1>12. Endings(c)'
  <2>1. incoming'[c].frame = frame
    BY <1>4
  <2>2. result[c] = "FrameTooLarge" => frame.large
    <3>1. CASE incoming[c].written = "prefix"
      BY <1>1, <1>3, <3>1 DEF ClientInv, Endings
    <3>2. CASE incoming[c].written = "nothing"
      BY <1>1, <1>3, <3>2 DEF ClientInv, Endings
    <3> QED
      BY <1>3, <3>1, <3>2
  <2>3. incoming'[c].written # "nothing"
    BY <1>3, <1>4
  <2>4. \/ result[c] \in {"running", "InvalidRoute"}
        \/ result[c] \in {"Argument", "Route", "InvalidRequest"} /\ request[c] = <<>>
        \/ result[c] = "FrameTooLarge"
    BY <1>1 DEF ClientInv, Endings
  <2> QED
    BY <1>2, <2>1, <2>2, <2>3, <2>4 DEF Endings
<1> QED
  BY <1>7, <1>8, <1>9, <1>10, <1>11, <1>12 DEF ClientInv

\* Nor does the end of a connection.
LEMMA CloseKeeps ==
  ASSUME ClientInv, NEW c \in Invocations, Close(c)
  PROVE  ClientInv'
PROOF
<1>1. TypeOK /\ stream[c] = "open" /\ stream' = [stream EXCEPT ![c] = "closed"]
  BY DEF ClientInv, Close
<1>2. UNCHANGED <<phase, contract, request, result, printed, answer, incoming, committed>>
  BY DEF Close, clientVars
<1>3. stream'[c] = "closed" /\ \A d \in Invocations \ {c} : stream'[d] = stream[d]
  BY <1>1 DEF TypeOK
<1>4. RepliesStand
  BY <1>2 DEF RepliesStand
<1>5. TypeOK'
  BY <1>1, <1>2 DEF TypeOK
<1>6. ASSUME NEW d \in Invocations, d # c
      PROVE  (RequestFits(d) /\ Stages(d) /\ AnswersFit(d) /\ FramesAnswer(d) /\ Endings(d))'
  BY <1>2, <1>3, <1>4, <1>6, OthersKeep
<1>7. (RequestFits(c) /\ AnswersFit(c))'
  BY <1>2 DEF ClientInv, RequestFits, AnswersFit
<1>8. Stages(c)'
  BY <1>1, <1>2, <1>3 DEF ClientInv, Stages
<1>9. FramesAnswer(c)' /\ Endings(c)'
  BY <1>1, <1>2, <1>3, <1>4, FramesKeep, EndingsKeep DEF ClientInv
<1> QED
  BY <1>5, <1>6, <1>7, <1>8, <1>9 DEF ClientInv

-----------------------------------------------------------------------------
(***************************************************************************)
(* The theorems                                                            *)
(***************************************************************************)

\* Every step of an invocation, of the daemon, and of neither, keeps the
\* invariant.
THEOREM ClientInvariant == Spec => []ClientInv
PROOF
<1>1. Init => ClientInv
  BY InitClient
<1>2. ClientInv /\ [Next]_vars => ClientInv'
  <2> SUFFICES ASSUME ClientInv, [Next]_vars PROVE ClientInv'
    OBVIOUS
  <2>1. CASE UNCHANGED vars
    <3>1. RepliesStand
      BY <2>1 DEF RepliesStand, vars
    <3>2. TypeOK'
      BY <2>1 DEF ClientInv, TypeOK, vars
    <3>3. ASSUME NEW d \in Invocations
          PROVE  (RequestFits(d) /\ Stages(d) /\ AnswersFit(d) /\ FramesAnswer(d) /\ Endings(d))'
      BY <2>1, <3>1, OthersKeep DEF vars
    <3> QED
      BY <3>2, <3>3 DEF ClientInv
  <2>2. ASSUME NEW c \in Invocations, ClientStep(c)
        PROVE  ClientInv'
    BY <2>2, PrepareKeeps, ConnectsKeep, WriteKeeps, ReadPrefixKeeps, ReadPayloadKeeps,
       ReadFailsKeeps DEF ClientStep
  <2>3. ASSUME NEW c \in Invocations, DaemonStep(c)
        PROVE  ClientInv'
    BY <2>3, DecideKeeps, SendsKeep, CloseKeeps DEF DaemonStep
  <2> QED
    BY <2>1, <2>2, <2>3 DEF Next
<1> QED
  BY <1>1, <1>2, PTL DEF Spec

\* The state of the client and of the daemon is well typed: a run has a result
\* exactly when it has ended.
THEOREM TypeCorrect == Spec => []TypeOK
PROOF
<1>1. ClientInv => TypeOK
  BY DEF ClientInv
<1> QED
  BY <1>1, ClientInvariant, PTL

\* Exit code 64 comes before the connection: nothing was sent and nothing is
\* ever committed (CommandLineError::exit_code).
LEMMA UsageEndsUnsent ==
  ASSUME ClientInv, NEW c \in Invocations,
         result[c] # "running", ExitCode(result[c]) = 64
  PROVE  /\ result[c] \in {"Argument", "Route", "InvalidRequest"}
         /\ request[c] = <<>> /\ stream[c] = "none" /\ c \notin committed
PROOF
<1>1. TypeOK /\ Stages(c) /\ AnswersFit(c) /\ Endings(c)
  BY DEF ClientInv
<1>2. result[c] \in Errors \cup {"Printed"}
  BY <1>1 DEF TypeOK
<1>3. result[c] \in {"Argument", "Route", "InvalidRequest"}
  BY <1>2 DEF ExitCode, Errors
<1>4. ASSUME incoming[c].written = "whole", result[c] = FrameVerdict(c, incoming[c].frame)
      PROVE  FALSE
  BY <1>3, <1>4 DEF FrameVerdict, ReplyVerdict
<1>5. request[c] = <<>>
  BY <1>1, <1>3, <1>4 DEF Endings
<1>6. stream[c] = "none"
  BY <1>1, <1>5 DEF Stages
<1>7. c \notin committed
  BY <1>1, <1>6 DEF Stages, AnswersFit
<1> QED
  BY <1>3, <1>5, <1>6, <1>7

\* No run that blames its input opened a connection, and nothing is committed
\* for it.
THEOREM UsageSendsNothing == Spec => []UsageErrorsSendNothing
PROOF
<1>1. ClientInv => UsageErrorsSendNothing
  BY UsageEndsUnsent DEF UsageErrorsSendNothing
<1> QED
  BY <1>1, ClientInvariant, PTL

\* Only whole requests of the contract of their socket are committed (route and
\* decode_request).
THEOREM FitTheirSocket == Spec => []CommittedRequestsFitTheirSocket
PROOF
<1>1. ASSUME ClientInv, NEW c \in committed
      PROVE  /\ contract[c] \in Sockets
             /\ RouteHead(request[c][1]) = contract[c]
             /\ \A i \in DOMAIN request[c] : request[c][i] \in HeadsOf(contract[c])
  <2>1. c \in Invocations
    BY <1>1 DEF ClientInv, TypeOK
  <2>2. RequestFits(c) /\ Stages(c) /\ AnswersFit(c)
    BY <1>1, <2>1 DEF ClientInv
  <2>3. request[c] # <<>>
    BY <1>1, <2>2 DEF Stages, AnswersFit
  <2> QED
    BY <2>2, <2>3 DEF RequestFits
<1>2. ClientInv => CommittedRequestsFitTheirSocket
  BY <1>1 DEF CommittedRequestsFitTheirSocket
<1> QED
  BY <1>2, ClientInvariant, PTL

\* A reply that was written whole decides how its invocation ends, whatever
\* happens to the connection behind it (read_frame and reply_from_frame).
THEOREM ReplyDecides == Spec => []WholeReplyDecides
PROOF
<1>1. ASSUME ClientInv, NEW c \in Invocations,
             incoming[c].written = "whole", incoming[c].frame.of = c,
             ~ incoming[c].frame.large, result[c] # "running"
      PROVE  result[c] = ReplyVerdict(answer[c])
  <2>1. TypeOK /\ Stages(c) /\ FramesAnswer(c) /\ Endings(c)
    BY <1>1 DEF ClientInv
  <2>2. FrameVerdict(c, incoming[c].frame) = ReplyVerdict(answer[c])
    BY <1>1, <2>1 DEF FramesAnswer, FrameVerdict
  <2>3. request[c] # <<>> /\ result[c] # "InvalidRoute" /\ request[c] \notin Oversized
    BY <1>1, <2>1 DEF Stages
  <2> QED
    BY <1>1, <2>1, <2>2, <2>3 DEF Endings
<1>2. ClientInv => WholeReplyDecides
  BY <1>1 DEF WholeReplyDecides
<1> QED
  BY <1>2, ClientInvariant, PTL

\* With a daemon that keeps the stream of a request, the verdict an invocation
\* draws is that of the reply to it; only a committed one is printed.
LEMMA VerdictsAreOwn ==
  ASSUME ~ RepliesByExchange, ClientInv, NEW c \in Invocations,
         result[c] \in {"Printed", "RequestRejected"}
  PROVE  /\ incoming[c].frame.of = c
         /\ result[c] = ReplyVerdict(answer[c])
         /\ result[c] = "Printed" =>
              /\ answer[c] = Committed(Len(request[c])) /\ c \in committed
              /\ printed[c] = Payloads(c)
         /\ result[c] = "RequestRejected" => answer[c] = Rejected /\ c \notin committed
PROOF
<1>1. TypeOK /\ Stages(c) /\ AnswersFit(c) /\ FramesAnswer(c) /\ Endings(c)
  BY DEF ClientInv
<1>2. /\ result[c] = FrameVerdict(c, incoming[c].frame)
      /\ result[c] = "Printed" => printed[c] = Payloads(incoming[c].frame.of)
  BY <1>1 DEF Endings
<1>3. incoming[c].frame.of = c /\ answer[c] # Unanswered
  BY <1>1, <1>2 DEF FrameVerdict, FramesAnswer
<1>4. result[c] = ReplyVerdict(answer[c])
  BY <1>2, <1>3 DEF FrameVerdict
<1>5. Len(request[c]) \in Nat \ {0}
  <2>1. request[c] # <<>>
    BY <1>1, <1>3 DEF Stages
  <2> QED
    BY <1>1, <2>1 DEF TypeOK
<1> HIDE DEF ReplyVerdict
<1>6. \/ answer[c] = Committed(Len(request[c])) /\ c \in committed /\ result[c] = "Printed"
      \/ result[c] = "UnexpectedFrame"
      \/ answer[c] = Rejected /\ c \notin committed /\ result[c] = "RequestRejected"
  BY <1>1, <1>3, <1>4, <1>5, VerdictsOfReplies DEF AnswersFit
<1> QED
  BY <1>2, <1>3, <1>4, <1>6

\* Exit code 0 is true: the daemon committed this very request, and what was
\* printed answers its operations in their order (reply_payloads).
THEOREM SuccessIsTrue ==
  ASSUME ~ RepliesByExchange
  PROVE  Spec => []SuccessMeansCommitted
PROOF
<1>1. ASSUME ClientInv, NEW c \in Invocations, result[c] = "Printed"
      PROVE  /\ c \in committed
             /\ answer[c].outcome = "Committed"
             /\ printed[c] = [i \in DOMAIN request[c] |-> [request |-> c, operation |-> i]]
  <2>1. answer[c] = Committed(Len(request[c])) /\ c \in committed /\ printed[c] = Payloads(c)
    BY <1>1, VerdictsAreOwn
  <2>2. request[c] \in Seq(Heads)
    BY <1>1 DEF ClientInv, TypeOK
  <2>3. DOMAIN answer[c].per_operation = DOMAIN request[c]
    BY <2>1, <2>2 DEF Committed
  <2>4. answer[c].outcome = "Committed"
    BY <2>1 DEF Committed
  <2> QED
    BY <2>1, <2>3, <2>4 DEF Payloads
<1>2. ClientInv => SuccessMeansCommitted
  BY <1>1 DEF SuccessMeansCommitted
<1> QED
  BY <1>2, ClientInvariant, PTL

\* What src/exchange.rs says of stale replies holds as long as the daemon keeps
\* the stream of a request: then it is the stream that keeps them away, not the
\* exchange, which is the same for every invocation (ClientShape::exchange).
THEOREM StreamsKeepRepliesApart ==
  ASSUME ~ RepliesByExchange
  PROVE  Spec => []StaleRepliesRefused
PROOF
<1>1. ClientInv => StaleRepliesRefused
  BY VerdictsAreOwn DEF StaleRepliesRefused
<1> QED
  BY <1>1, ClientInvariant, PTL

\* Exit code 0 under every daemon: what was printed are the payloads of a request
\* that was committed, all of them in their order, if not always of this one.
PrintedWasCommitted ==
  \A c \in Invocations : result[c] = "Printed" =>
    \E d \in committed :
      /\ answer[d] = Committed(Len(request[d]))
      /\ printed[c] = [i \in DOMAIN request[d] |-> [request |-> d, operation |-> i]]

\* However the daemon finds the connection of a reply, no failed, aborted or
\* rejected reply is ever printed (reply_from_frame and reply_payloads).
THEOREM NothingPrintedUncommitted == Spec => []PrintedWasCommitted
PROOF
<1>1. ASSUME ClientInv, NEW c \in Invocations, result[c] = "Printed"
      PROVE  \E d \in committed :
               /\ answer[d] = Committed(Len(request[d]))
               /\ printed[c] = [i \in DOMAIN request[d] |-> [request |-> d, operation |-> i]]
  <2> DEFINE d == incoming[c].frame.of
  <2>1. TypeOK /\ FramesAnswer(c) /\ Endings(c)
    BY <1>1 DEF ClientInv
  <2>2. /\ FrameVerdict(c, incoming[c].frame) = "Printed"
        /\ printed[c] = Payloads(d)
    BY <1>1, <2>1 DEF Endings
  <2>3. d \in Invocations /\ answer[d] # Unanswered
    BY <2>1, <2>2 DEF FrameVerdict, FramesAnswer
  <2>4. ReplyVerdict(answer[d]) = "Printed"
    BY <2>2 DEF FrameVerdict
  <2>5. Stages(d) /\ AnswersFit(d)
    BY <1>1, <2>3 DEF ClientInv
  <2> HIDE DEF d
  <2>6. request[d] \in Seq(Heads) /\ request[d] # <<>>
    BY <2>1, <2>3, <2>5 DEF TypeOK, Stages
  <2>7. Len(request[d]) \in Nat \ {0}
    BY <2>6
  <2>8. answer[d] = Committed(Len(request[d])) /\ d \in committed
    BY <2>3, <2>4, <2>5, <2>7, VerdictsOfReplies DEF AnswersFit
  <2>9. DOMAIN answer[d].per_operation = DOMAIN request[d]
    BY <2>6, <2>8 DEF Committed
  <2> QED
    BY <2>2, <2>8, <2>9 DEF Payloads
<1>2. ClientInv => PrintedWasCommitted
  BY <1>1 DEF PrintedWasCommitted
<1> QED
  BY <1>2, ClientInvariant, PTL

-----------------------------------------------------------------------------
(***************************************************************************)
(* The client implements the remote call                                   *)
(***************************************************************************)

\* What an invocation knows when it ends is true.
FatesTrue ==
  \A c \in Invocations :
    /\ Fate(c) \in {"running", "done", "unsent", "rejected", "unknown"}
    /\ Fate(c) = "running" <=> result[c] = "running"
    /\ Fate(c) = "done" => c \in committed
    /\ Fate(c) \in {"unsent", "rejected"} => c \notin committed
    /\ Fate(c) \in {"done", "rejected"} => answer[c] # Unanswered
    /\ Fate(c) = "unsent" => stream[c] = "none"

\* It follows from the invariant if the daemon keeps the stream of a request.
LEMMA FatesAreTrue ==
  ASSUME ~ RepliesByExchange
  PROVE  ClientInv => FatesTrue
PROOF
<1> SUFFICES ASSUME ClientInv, NEW c \in Invocations
             PROVE  /\ Fate(c) \in {"running", "done", "unsent", "rejected", "unknown"}
                    /\ Fate(c) = "running" <=> result[c] = "running"
                    /\ Fate(c) = "done" => c \in committed
                    /\ Fate(c) \in {"unsent", "rejected"} => c \notin committed
                    /\ Fate(c) \in {"done", "rejected"} => answer[c] # Unanswered
                    /\ Fate(c) = "unsent" => stream[c] = "none"
  BY DEF FatesTrue
<1>1. \/ result[c] = "running" /\ Fate(c) = "running"
      \/ result[c] = "Printed" /\ Fate(c) = "done"
      \/ result[c] = "RequestRejected" /\ Fate(c) = "rejected"
      \/ result[c] # "running" /\ ExitCode(result[c]) = 64 /\ Fate(c) = "unsent"
      \/ result[c] # "running" /\ Fate(c) = "unknown"
  BY DEF Fate
<1>2. CASE result[c] = "running" /\ Fate(c) = "running"
  BY <1>2
<1>3. CASE result[c] = "Printed" /\ Fate(c) = "done"
  <2>1. answer[c] = Committed(Len(request[c])) /\ c \in committed
    BY <1>3, VerdictsAreOwn
  <2>2. answer[c] # Unanswered
    BY <2>1 DEF Committed, Unanswered
  <2> QED
    BY <1>3, <2>1, <2>2
<1>4. CASE result[c] = "RequestRejected" /\ Fate(c) = "rejected"
  <2>1. answer[c] = Rejected /\ c \notin committed
    BY <1>4, VerdictsAreOwn
  <2>2. answer[c] # Unanswered
    BY <2>1 DEF Rejected, Unanswered
  <2> QED
    BY <1>4, <2>1, <2>2
<1>5. CASE result[c] # "running" /\ ExitCode(result[c]) = 64 /\ Fate(c) = "unsent"
  <2>1. stream[c] = "none" /\ c \notin committed
    BY <1>5, UsageEndsUnsent
  <2> QED
    BY <1>5, <2>1
<1>6. CASE result[c] # "running" /\ Fate(c) = "unknown"
  BY <1>6
<1> QED
  BY <1>1, <1>2, <1>3, <1>4, <1>5, <1>6

\* A caller may ask again: the run blamed its input or was told of a rejection.
\* Its request has not been committed, nor ever will be behind its back
\* (CommandLineError::exit_code and reply_payloads).
RetryIsSafe ==
  \A c \in Invocations : Fate(c) \in {"unsent", "rejected"} => c \notin committed

\* With a daemon that keeps the stream of a request, to ask again then never
\* commits one request twice.
THEOREM RetriesAreSafe ==
  ASSUME ~ RepliesByExchange
  PROVE  Spec => []RetryIsSafe
PROOF
<1>1. ClientInv => RetryIsSafe
  BY FatesAreTrue DEF FatesTrue, RetryIsSafe
<1> QED
  BY <1>1, ClientInvariant, PTL

\* The last step of an invocation is its End, as the fate after it tells.
LEMMA EndsAbstractly ==
  ASSUME ClientInv, FatesTrue, FatesTrue', NEW c \in Invocations,
         result[c] = "running", committed' = committed,
         NEW outcome \in Errors \cup {"Printed"}, result' = [result EXCEPT ![c] = outcome]
  PROVE  Abstract!Next
PROOF
<1>1. result'[c] = outcome /\ outcome # "running"
  BY DEF ClientInv, TypeOK, Errors
<1>2. Fate(c) = "running"
  BY DEF FatesTrue
<1> DEFINE known == [d \in Invocations |-> Fate(d)]
<1>3. /\ Fate(c)' \in {"done", "unsent", "rejected", "unknown"}
      /\ Fate(c)' = "done" => c \in committed
      /\ Fate(c)' \in {"unsent", "rejected"} => c \notin committed
  BY <1>1 DEF FatesTrue
<1>4. \A d \in Invocations \ {c} : Fate(d)' = Fate(d)
  BY DEF Fate, ClientInv, TypeOK
<1>5. known' = [known EXCEPT ![c] = Fate(c)']
  BY <1>4
<1>6. Abstract!End(c, Fate(c)')
  BY <1>2, <1>3, <1>5 DEF Abstract!End
<1>7. Fate(c)' \in Abstract!Fates \ {"running"}
  BY <1>3 DEF Abstract!Fates
<1> QED
  BY <1>6, <1>7 DEF Abstract!Next

\* The client implements the remote call: a decision of the daemon commits or
\* changes nothing, an ending ends, and every other step is a stutter.
THEOREM ImplementsRemoteCall ==
  ASSUME ~ RepliesByExchange
  PROVE  Spec => AbstractSpec
PROOF
<1> DEFINE known == [d \in Invocations |-> Fate(d)]
<1>1. Init => Abstract!Init
  <2> SUFFICES ASSUME Init PROVE Abstract!Init
    OBVIOUS
  <2>1. committed = {} /\ \A c \in Invocations : Fate(c) = "running"
    BY DEF Init, Fate
  <2> QED
    BY <2>1 DEF Abstract!Init
<1>2. ClientInv => FatesTrue
  BY FatesAreTrue
<1>3. ClientInv /\ FatesTrue /\ FatesTrue' /\ [Next]_vars => [Abstract!Next]_(Abstract!vars)
  <2> SUFFICES ASSUME ClientInv, FatesTrue, FatesTrue', [Next]_vars
               PROVE  Abstract!Next \/ UNCHANGED Abstract!vars
    OBVIOUS
  <2>1. ASSUME UNCHANGED <<result, committed>>
        PROVE  UNCHANGED Abstract!vars
    BY <2>1 DEF Abstract!vars, Fate
  <2>2. CASE UNCHANGED vars
    BY <2>1, <2>2 DEF vars
  <2>3. ASSUME NEW c \in Invocations, ClientStep(c)
        PROVE  Abstract!Next \/ UNCHANGED Abstract!vars
    <3>1. committed' = committed
      BY <2>3 DEF ClientStep, Prepare, Connect, ConnectFails, WriteRequest, ReadPrefix,
                  ReadPayload, ReadFails
    <3>2. phase[c] # "ended"
      BY <2>3 DEF ClientStep, Prepare, Connect, ConnectFails, WriteRequest, ReadPrefix,
                  ReadPayload, ReadFails
    <3>3. result[c] = "running"
      BY <3>2 DEF ClientInv, TypeOK
    <3>4. \/ result' = result
          \/ \E outcome \in Errors \cup {"Printed"} : result' = [result EXCEPT ![c] = outcome]
      <4>1. CASE ReadPayload(c)
        BY <4>1, VerdictsTyped DEF ReadPayload, Ends, ClientInv
      <4>2. CASE ~ ReadPayload(c)
        BY <2>3, <4>2 DEF ClientStep, Prepare, Connect, ConnectFails, WriteRequest, ReadPrefix,
                          ReadFails, Ends, MovesTo, Errors
      <4> QED
        BY <4>1, <4>2
    <3> QED
      BY <2>1, <3>1, <3>3, <3>4, EndsAbstractly
  <2>4. ASSUME NEW c \in Invocations, DaemonStep(c)
        PROVE  Abstract!Next \/ UNCHANGED Abstract!vars
    <3>1. result' = result
      BY <2>4 DEF DaemonStep, Decide, SendPrefix, SendPayload, Close, clientVars
    <3>2. CASE committed' = committed
      BY <2>1, <3>1, <3>2
    <3>3. CASE committed' # committed
      <4>1. Decide(c)
        BY <2>4, <3>3 DEF DaemonStep, SendPrefix, SendPayload, Close
      <4>2. answer[c] = Unanswered /\ stream[c] = "open" /\ committed' = committed \cup {c}
        BY <3>3, <4>1 DEF Decide, Delivered
      <4>3. Fate(c) \in {"running", "unknown"}
        BY <4>2 DEF FatesTrue
      <4>4. known' = known
        BY <3>1 DEF Fate
      <4>5. Abstract!Commit(c)
        BY <3>3, <4>2, <4>3, <4>4 DEF Abstract!Commit
      <4> QED
        BY <4>5 DEF Abstract!Next
    <3> QED
      BY <3>2, <3>3
  <2> QED
    BY <2>2, <2>3, <2>4 DEF Next
<1> QED
  BY <1>1, <1>2, <1>3, ClientInvariant, PTL DEF Spec, AbstractSpec, Abstract!Spec

=============================================================================

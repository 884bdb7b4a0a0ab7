----------------------------- MODULE RequestText -----------------------------
(***************************************************************************)
(* Requests and replies as DOTOS text. A request is built with             *)
(* RequestBuilder and NonEmpty (src/request.rs, src/non_empty.rs) or typed *)
(* by hand. Two parsers then read its text one after the other: the        *)
(* command line only looks for the head that picks the socket              *)
(* (RequestHead, src/command_line.rs), and the generated codec of the      *)
(* contract picked reads the whole (src/request.rs, emit_dotos_codecs in   *)
(* macros/src/emit.rs). Nothing makes the two agree but their definitions. *)
(*                                                                         *)
(* The dotos crate is external: a text is the sequence of its root blocks, *)
(* a block an atom or a delimited sequence of blocks. A payload value is   *)
(* the block its own codec writes and reads back.                          *)
(***************************************************************************)
EXTENDS Integers, Sequences

CONSTANTS
  Working, Meta,  \* the two contracts of a command line
  Declared,       \* [contract -> operation -> blocks its payload may be]
  Replies,        \* [contract -> reply -> blocks its payload may be]
  Observable,     \* the contracts with an observable block
  Tokens,         \* subscription tokens, as atoms
  Documents,      \* the texts typed by hand
  MaxOperations   \* bound: operations of a built request

Contracts == {Working, Meta}

Block(delimiter, text, objects) == [delimiter |-> delimiter, text |-> text, objects |-> objects]
Atom(text) == Block("none", text, <<>>)
Wrap(delimiter, objects) == Block(delimiter, "", objects)

\* Stands for the payload of a unit variant: no block.
Unit == Block("absent", "", <<>>)

\* The two results of routing that are no contract are none. No operation is a
\* unit variant; the names the observer adds are not declared (validate.rs).
ASSUME TextAssumption ==
  /\ Working # Meta
  /\ {Working, Meta} \cap {"AmbiguousRequestHead", "UnknownRequestHead"} = {}
  /\ Observable \subseteq Contracts
  /\ MaxOperations \in Nat
  /\ \A c \in Contracts : \A name \in DOMAIN Declared[c] : Unit \notin Declared[c][name]
  /\ \A c \in Contracts :
       /\ DOMAIN Declared[c] \cap {"Tap", "Untap"} = {}
       /\ "ObserverSubscriptionOpened" \notin DOMAIN Replies[c]
  /\ Unit \notin Tokens

VARIABLES
  stage,     \* building, built, written, routed, accepted or ended
  contract,  \* the contract the request was built for, then the one it is routed to
  builder,   \* RequestBuilder.payloads
  asked,     \* history: the operations asked of the builder, in their order
  request,   \* the NonEmpty a request holds, as built or as decoded
  document,  \* its text
  outcome,   \* how it ended
  replies,   \* the payloads of the reply
  printed    \* their text

vars == <<stage, contract, builder, asked, request, document, outcome, replies, printed>>

Variant(name, payload) == [name |-> name, payload |-> payload]

-----------------------------------------------------------------------------
(***************************************************************************)
(* NonEmpty                                                                *)
(***************************************************************************)

\* Seeded fault: swap_remove, which moves the last value to the front.
SwapFromVec(values) ==
  [head |-> values[1],
   tail |-> IF Len(values) < 3 THEN Tail(values)
            ELSE <<values[Len(values)]>> \o SubSeq(values, 2, Len(values) - 1)]

\* NonEmpty::try_from_vec of a vector that is not empty, single included.
TryFromVec(values) == [head |-> Head(values), tail |-> Tail(values)]

\* iter, into_vec: the head, then the tail.
Items(values) == <<values.head>> \o values.tail

Nothing == [head |-> Variant("none", Unit), tail |-> <<>>]

-----------------------------------------------------------------------------
(***************************************************************************)
(* The generated codecs                                                    *)
(***************************************************************************)

\* The codecs of ObserverFilter, ObserverSubscriptionToken and
\* ObserverSubscriptionOpened.
ObserverFilters == {Atom(filter) : filter \in {"All", "OperationsOnly", "EffectsOnly"}}
TokenBlock(token) == Wrap("Parenthesis", <<Atom("ObserverSubscriptionToken"), token>>)
OpenedBlock(token) ==
  Wrap("Parenthesis", <<Atom("ObserverSubscriptionOpened"), TokenBlock(token)>>)

\* What an observable block adds to the operations and to the replies.
ObserverOperations ==
  [name \in {"Tap", "Untap"} |->
     IF name = "Tap" THEN ObserverFilters ELSE {TokenBlock(t) : t \in Tokens}]
ObserverReplies == [name \in {"ObserverSubscriptionOpened"} |-> {OpenedBlock(t) : t \in Tokens}]

Expanded(enum, added) ==
  [name \in DOMAIN enum \cup DOMAIN added |-> IF name \in DOMAIN enum THEN enum[name] ELSE added[name]]

\* The variants of the operation and reply enums of a contract.
OperationsOf(c) == IF c \in Observable THEN Expanded(Declared[c], ObserverOperations) ELSE Declared[c]
RepliesOf(c) == IF c \in Observable THEN Expanded(Replies[c], ObserverReplies) ELSE Replies[c]

VariantsOf(enum) ==
  UNION {{Variant(name, payload) : payload \in enum[name]} : name \in DOMAIN enum}

\* Seeded fault: a unit variant is a record without fields.
EncodeVariantInParentheses(v) ==
  Wrap("Parenthesis", IF v.payload = Unit THEN <<Atom(v.name)>> ELSE <<Atom(v.name), v.payload>>)

\* to_dotos of an emitted enum.
EncodeVariant(v) ==
  IF v.payload = Unit THEN Atom(v.name)
  ELSE Wrap("Parenthesis", <<Atom(v.name), v.payload>>)

\* from_dotos_block of an emitted enum: an atom is a unit variant, anything
\* else a parenthesis of a head and one payload.
DecodesVariant(enum, block) ==
  \/ /\ block.delimiter = "none"
     /\ block.text \in DOMAIN enum
     /\ Unit \in enum[block.text]
  \/ /\ block.delimiter = "Parenthesis"
     /\ Len(block.objects) = 2
     /\ block.objects[1].delimiter = "none"
     /\ block.objects[1].text \in DOMAIN enum
     /\ block.objects[2] # Unit
     /\ block.objects[2] \in enum[block.objects[1].text]

DecodedVariant(block) ==
  IF block.delimiter = "none" THEN Variant(block.text, Unit)
  ELSE Variant(block.objects[1].text, block.objects[2])

Many(block) == block.delimiter = "SquareBracket"

\* Request::to_dotos and encode_reply: one value stands for itself.
EncodeItems(values) ==
  IF values.tail = <<>> THEN EncodeVariant(values.head)
  ELSE Wrap("SquareBracket", [i \in 1 .. Len(Items(values)) |-> EncodeVariant(Items(values)[i])])

\* Request::from_dotos_block.
DecodesItems(enum, block) ==
  IF Many(block)
  THEN /\ Len(block.objects) \in Nat \ {0}
       /\ \A i \in 1 .. Len(block.objects) : DecodesVariant(enum, block.objects[i])
  ELSE DecodesVariant(enum, block)

DecodedItems(block) ==
  TryFromVec(IF Many(block)
             THEN [i \in 1 .. Len(block.objects) |-> DecodedVariant(block.objects[i])]
             ELSE <<DecodedVariant(block)>>)

\* DotosSource::parse wants a single root.
Decodes(c, text) == Len(text) = 1 /\ DecodesItems(OperationsOf(c), text[1])

-----------------------------------------------------------------------------
(***************************************************************************)
(* RequestHead                                                             *)
(***************************************************************************)

\* Seeded fault: brackets are not entered.
BracketKept(block) == block

\* One step of RequestHeadBlock::head into a bracket.
FirstObject(block) ==
  IF Many(block) /\ Len(block.objects) > 0 THEN block.objects[1] ELSE block

\* The block at the end of the recursion. Bound: brackets nested three deep.
Innermost(block) == FirstObject(FirstObject(FirstObject(block)))

\* The first object of a record or brace if it is an atom, or the atom itself.
HasHead(block) ==
  /\ ~ Many(block)
  /\ \/ block.delimiter = "none"
     \/ Len(block.objects) > 0 /\ block.objects[1].delimiter = "none"

HeadText(block) == IF block.delimiter = "none" THEN block.text ELSE block.objects[1].text

\* RequestHead::from_text looks at the first root only.
TextHasHead(text) == Len(text) > 0 /\ HasHead(Innermost(text[1]))
TextHead(text) == HeadText(Innermost(text[1]))

HeadsOf(c) == DOMAIN OperationsOf(c)

\* Seeded fault: the working contract goes first.
RouteWorkingFirst(head) ==
  IF head \in HeadsOf(Working) THEN Working
  ELSE IF head \in HeadsOf(Meta) THEN Meta ELSE "UnknownRequestHead"

\* CommandLineRouteTable::route_head.
RouteHead(head) ==
  IF head \in HeadsOf(Working)
  THEN IF head \in HeadsOf(Meta) THEN "AmbiguousRequestHead" ELSE Working
  ELSE IF head \in HeadsOf(Meta) THEN Meta ELSE "UnknownRequestHead"

-----------------------------------------------------------------------------
(***************************************************************************)
(* Building, writing, reading                                              *)
(***************************************************************************)

Init ==
  /\ stage = "building"
  /\ contract \in Contracts
  /\ builder = <<>> /\ asked = <<>>
  /\ request = Nothing
  /\ document = <<>>
  /\ outcome = "none"
  /\ replies = Nothing
  /\ printed = Unit

Ends(how) ==
  /\ stage' = "ended"
  /\ outcome' = how

\* RequestBuilder::with and push.
Push ==
  /\ stage = "building"
  /\ Len(asked) < MaxOperations
  /\ \E operation \in VariantsOf(OperationsOf(contract)) :
       /\ builder' = Append(builder, operation)
       /\ asked' = Append(asked, operation)
  /\ UNCHANGED <<stage, contract, request, document, outcome, replies, printed>>

\* RequestBuilder::build consumes the builder.
Build ==
  /\ stage = "building"
  /\ \/ builder = <<>> /\ Ends("EmptyRequest") /\ UNCHANGED request
     \/ /\ builder # <<>>
        /\ stage' = "built"
        /\ request' = TryFromVec(builder)
        /\ UNCHANGED outcome
  /\ builder' = <<>>
  /\ UNCHANGED <<contract, asked, document, replies, printed>>

\* NonEmpty::push on the payloads of a request.
Extend ==
  /\ stage = "built"
  /\ Len(asked) < MaxOperations
  /\ \E operation \in VariantsOf(OperationsOf(contract)) :
       /\ request' = [request EXCEPT !.tail = Append(@, operation)]
       /\ asked' = Append(asked, operation)
  /\ UNCHANGED <<stage, contract, builder, document, outcome, replies, printed>>

\* Request::to_dotos.
Write ==
  /\ stage = "built"
  /\ stage' = "written"
  /\ document' = <<EncodeItems(request)>>
  /\ request' = Nothing
  /\ UNCHANGED <<contract, builder, asked, outcome, replies, printed>>

\* A text nobody built.
TypeByHand ==
  /\ stage = "building"
  /\ asked = <<>>
  /\ stage' = "written"
  /\ document' \in Documents
  /\ UNCHANGED <<contract, builder, asked, request, outcome, replies, printed>>

\* RequestHead::from_text and route.
Route ==
  /\ stage = "written"
  /\ LET route == RouteHead(TextHead(document))
     IN \/ ~ TextHasHead(document) /\ Ends("InvalidRequest") /\ UNCHANGED contract
        \/ /\ TextHasHead(document)
           /\ IF route \in Contracts
              THEN contract' = route /\ stage' = "routed" /\ UNCHANGED outcome
              ELSE Ends(route) /\ UNCHANGED contract
  /\ UNCHANGED <<builder, asked, request, document, replies, printed>>

\* Seeded fault, of Decode: the error is dropped.
DecodeQuietly ==
  /\ stage = "routed"
  /\ \/ /\ ~ Decodes(contract, document)
        /\ stage' = "ended"
        /\ UNCHANGED <<outcome, request>>
     \/ /\ Decodes(contract, document)
        /\ stage' = "accepted"
        /\ request' = DecodedItems(document[1])
        /\ UNCHANGED outcome
  /\ UNCHANGED <<contract, builder, asked, document, replies, printed>>

\* RequestText::decode_request.
Decode ==
  /\ stage = "routed"
  /\ \/ ~ Decodes(contract, document) /\ Ends("InvalidRequest") /\ UNCHANGED request
     \/ /\ Decodes(contract, document)
        /\ stage' = "accepted"
        /\ request' = DecodedItems(document[1])
        /\ UNCHANGED outcome
  /\ UNCHANGED <<contract, builder, asked, document, replies, printed>>

\* The daemon commits the request and answers every operation; reply_payloads
\* collects the payloads and encode_reply prints them.
Reply ==
  /\ stage = "accepted"
  /\ Len(Items(request)) <= MaxOperations
  /\ \E payloads \in [1 .. Len(Items(request)) -> VariantsOf(RepliesOf(contract))] :
       /\ replies' = TryFromVec(payloads)
       /\ printed' = EncodeItems(replies')
  /\ Ends("Printed")
  /\ UNCHANGED <<contract, builder, asked, request, document>>

Next ==
  \/ Push \/ Build \/ Extend \/ Write \/ TypeByHand
  \/ Route \/ Decode \/ Reply

Spec == Init /\ [][Next]_vars

-----------------------------------------------------------------------------
(***************************************************************************)
(* Properties                                                              *)
(***************************************************************************)

Outcomes ==
  {"none", "EmptyRequest", "InvalidRequest", "UnknownRequestHead", "AmbiguousRequestHead", "Printed"}

\* Every text ends with an outcome and only what ended has one; a request in
\* hand is never empty and is made of operations of its contract (reply_text).
TypeOK ==
  /\ stage \in {"building", "built", "written", "routed", "accepted", "ended"}
  /\ outcome \in Outcomes
  /\ outcome = "none" <=> stage # "ended"
  /\ contract \in Contracts
  /\ builder \in Seq(VariantsOf(OperationsOf(contract)))
  /\ stage \in {"built", "accepted"} =>
       request \in [head : VariantsOf(OperationsOf(contract)),
                    tail : Seq(VariantsOf(OperationsOf(contract)))]

\* A request built in a program survives its text: what the reader gets are the
\* operations asked of the builder, all of them in their order, whichever way
\* they were added; the text is turned down only if its first head is shared.
BuiltRequestsSurviveText ==
  asked # <<>> =>
    /\ stage = "accepted" \/ outcome = "Printed" => Items(request) = asked
    /\ outcome \in Outcomes \ {"none", "Printed"} =>
         /\ outcome = "AmbiguousRequestHead"
         /\ \A c \in Contracts : asked[1].name \in HeadsOf(c)

\* Routing never guesses: a text that is accepted can be read as a request of
\* one contract only, the one it went to, and the head that routed it is the
\* head of the first operation the other parser found.
AcceptedTextIsUnambiguous ==
  stage = "accepted" \/ outcome = "Printed" =>
    /\ \A c \in Contracts : Decodes(c, document) <=> c = contract
    /\ TextHead(document) = request.head.name

\* Neither parser is stricter than the other: a text refused as invalid or
\* unknown is no request of either contract.
RefusedTextIsNoRequest ==
  outcome \in {"InvalidRequest", "UnknownRequestHead"} =>
    \A c \in Contracts : ~ Decodes(c, document)

\* What is printed tells the replies apart: read with the codec of the reply
\* enum it gives them back, one for every operation, in their order.
PrintedRepliesReadBack ==
  outcome = "Printed" =>
    /\ DecodesItems(RepliesOf(contract), printed)
    /\ DecodedItems(printed) = replies
    /\ Len(Items(replies)) = Len(Items(request))

=============================================================================

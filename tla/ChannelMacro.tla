---------------------------- MODULE ChannelMacro -----------------------------
(***************************************************************************)
(* The signal_channel! macro as a pipeline (macros/src): blocks are parsed *)
(* one after the other into a channel, the channel is validated, an        *)
(* observable block is expanded into operations, a reply, events and a     *)
(* stream of its own, and the tables of the emitted code are read off the  *)
(* result. Validation sees the channel before the expansion, the emitted   *)
(* code is made of the channel after it.                                   *)
(*                                                                         *)
(* A name is a model value or string, a Rust type its path: the sequence   *)
(* of its segments. The declaration comes from whoever writes a contract.  *)
(***************************************************************************)
EXTENDS Integers, Sequences

CONSTANTS
  Operations,   \* the operation lists a channel may open with
  Blocks,       \* the blocks that may follow
  MaxStreams,   \* bound: stream blocks of a channel
  ByteSpan,     \* number of values of a root byte, 256 in the code
  NoName        \* stands for an annotation that is left out

Elements(list) == {list[i] : i \in DOMAIN list}

\* Lists are sequences, blocks have the body of their kind, names are names.
ASSUME DeclarationAssumption ==
  /\ \A list \in Operations : list \in Seq(Elements(list))
  /\ \A block \in Blocks :
       \/ block.kind = "malformed"
       \/ /\ block.kind \in {"reply", "event"}
          /\ block.body = [declared |-> TRUE, variants |-> block.body.variants]
          /\ block.body.variants \in Seq(Elements(block.body.variants))
       \/ block.kind = "stream" /\ block.body.name # NoName
       \/ /\ block.kind = "observable"
          /\ block.body = [declared |-> TRUE, filter |-> block.body.filter,
                           operation_event |-> block.body.operation_event,
                           effect_event |-> block.body.effect_event]
  /\ NoName # "ObserverStream"
  /\ MaxStreams \in Nat /\ ByteSpan \in Nat \ {0}

VARIABLES
  phase,        \* parsing, validating, emitting, emitted or rejected
  channel,      \* ChannelSpec, as parsed so far
  emitted,      \* the ChannelSpec the code is emitted from
  diagnostic    \* the compile error, if the macro ends with one

vars == <<phase, channel, emitted, diagnostic>>

Absent == [declared |-> FALSE, variants |-> <<>>]
NoObservable ==
  [declared |-> FALSE, filter |-> NoName, operation_event |-> NoName, effect_event |-> NoName]

Empty(operations) ==
  [request |-> operations, reply |-> Absent, event |-> Absent, streams |-> <<>>,
   observable |-> NoObservable]

-----------------------------------------------------------------------------
(***************************************************************************)
(* validate.rs                                                             *)
(***************************************************************************)

NamesOf(variants) == {v.name : v \in Elements(variants)}
Unique(variants) ==
  \A i, j \in DOMAIN variants : variants[i].name = variants[j].name => i = j

\* projected_record_head: the last segment of a type's path.
ProjectedRecordHead(type) == type[Len(type)]

ObserverEvents(c) == {c.observable.operation_event, c.observable.effect_event}

\* Seeded fault: the names of the operations are not compared.
ObservableCollidesInReply(c) ==
  /\ c.observable.declared
  /\ "ObserverSubscriptionOpened" \in NamesOf(c.reply.variants)

\* Seeded fault: the streams are not compared with the observer's.
ObservableCollidesButInStreams(c) ==
  /\ c.observable.declared
  /\ \/ c.observable.operation_event = c.observable.effect_event
     \/ ObserverEvents(c) \cap {"ObserverSubscriptionToken", "ObserverSubscriptionOpened"} # {}
     \/ NamesOf(c.request) \cap {"Tap", "Untap"} # {}
     \/ "ObserverSubscriptionOpened" \in NamesOf(c.reply.variants)
     \/ \E v \in Elements(c.event.variants) :
          {v.name, ProjectedRecordHead(v.payload)} \cap ObserverEvents(c) # {}

\* validate_observable_does_not_collide.
ObservableCollides(c) ==
  /\ c.observable.declared
  /\ \/ c.observable.operation_event = c.observable.effect_event
     \/ ObserverEvents(c) \cap {"ObserverSubscriptionToken", "ObserverSubscriptionOpened"} # {}
     \/ NamesOf(c.request) \cap {"Tap", "Untap"} # {}
     \/ "ObserverSubscriptionOpened" \in NamesOf(c.reply.variants)
     \/ \E v \in Elements(c.event.variants) :
          {v.name, ProjectedRecordHead(v.payload)} \cap ObserverEvents(c) # {}
     \/ "ObserverStream" \in NamesOf(c.streams)

\* validate_variant_uniqueness: within each block, by name.
DuplicateVariant(c) ==
  ~ (Unique(c.request) /\ Unique(c.reply.variants) /\ Unique(c.event.variants))

\* The relations validate_stream_relations looks at, in its order.
UnresolvedOpens(c) ==
  \E v \in Elements(c.request) : v.opens \notin NamesOf(c.streams) \cup {NoName}

\* Seeded fault: it is enough that one of the streams is opened.
AllStreamsOrphaned(c) ==
  /\ c.streams # <<>>
  /\ \A s \in Elements(c.streams) : \A v \in Elements(c.request) : v.opens # s.name

OrphanStream(c) ==
  \E s \in Elements(c.streams) : \A v \in Elements(c.request) : v.opens # s.name

UnresolvedBelongs(c) ==
  \E v \in Elements(c.event.variants) : v.belongs \notin NamesOf(c.streams)

\* Seeded fault: the payload of the closing operation is not compared.
StreamFaultAnyToken(c, s) ==
  IF s.opened \notin NamesOf(c.reply.variants) THEN "UnresolvedOpened"
  ELSE IF s.close \notin NamesOf(c.request) THEN "UnresolvedClose"
  ELSE "none"

\* The first of opened, events and close that is wrong in a stream: each names
\* a variant of its block, the events belong to the stream, and the operation
\* that closes it carries its token.
StreamFault(c, s) ==
  IF s.opened \notin NamesOf(c.reply.variants) THEN "UnresolvedOpened"
  ELSE IF \E e \in Elements(s.events) :
            \A v \in Elements(c.event.variants) : ~ (v.name = e /\ v.belongs = s.name)
       THEN "UnresolvedEvent"
  ELSE IF s.close \notin NamesOf(c.request) THEN "UnresolvedClose"
  ELSE IF \E v \in Elements(c.request) : v.name = s.close /\ v.payload # s.token
       THEN "CloseTokenMismatch"
  ELSE "none"

\* validate: the first error, or none.
Validate(c) ==
  IF ObservableCollides(c) THEN "ObservableCollision"
  ELSE IF DuplicateVariant(c) THEN "DuplicateVariant"
  ELSE IF c.streams # <<>> /\ ~ c.event.declared THEN "StreamsWithoutEvents"
  ELSE IF c.streams = <<>> /\ c.event.declared THEN "EventsWithoutStreams"
  ELSE IF UnresolvedOpens(c) THEN "UnresolvedOpens"
  ELSE IF OrphanStream(c) THEN "OrphanStream"
  ELSE IF UnresolvedBelongs(c) THEN "UnresolvedBelongs"
  ELSE IF \E s \in Elements(c.streams) : StreamFault(c, s) # "none" THEN "StreamFault"
  ELSE "none"

-----------------------------------------------------------------------------
(***************************************************************************)
(* emit.rs                                                                 *)
(***************************************************************************)

\* filter_ident_for: the author's type, or the generated one.
FilterIdent(c) ==
  IF c.observable.filter = "default" THEN "ObserverFilter" ELSE c.observable.filter

Tap(c) == [name |-> "Tap", payload |-> <<FilterIdent(c)>>, opens |-> "ObserverStream"]
Untap == [name |-> "Untap", payload |-> <<"ObserverSubscriptionToken">>, opens |-> NoName]

ObserverStream(c) ==
  [name |-> "ObserverStream", token |-> <<"ObserverSubscriptionToken">>,
   opened |-> "ObserverSubscriptionOpened",
   events |-> <<c.observable.operation_event, c.observable.effect_event>>, close |-> "Untap"]

\* Seeded fault: the observer's operations come first.
AugmentedInFront(c) ==
  IF ~ c.observable.declared THEN c
  ELSE [c EXCEPT !.request = <<Tap(c), Untap>> \o @, !.observable = NoObservable]

\* augment_with_observable: what an observable block adds, always at the end.
Augmented(c) ==
  IF ~ c.observable.declared THEN c
  ELSE LET observed(event) == [name |-> event, payload |-> <<event>>, belongs |-> "ObserverStream"]
       IN [request |-> c.request \o <<Tap(c), Untap>>,
           reply |-> [c.reply EXCEPT !.variants =
             Append(@, [name |-> "ObserverSubscriptionOpened",
                        payload |-> <<"ObserverSubscriptionOpened">>])],
           event |-> [declared |-> TRUE, variants |-> c.event.variants \o
             <<observed(c.observable.operation_event), observed(c.observable.effect_event)>>],
           streams |-> Append(c.streams, ObserverStream(c)),
           observable |-> NoObservable]

\* The tables of the emitted code. A match takes its first arm.
RootByte(c, i) == (i - 1) % ByteSpan
OpenedStream(c, i) == c.request[i].opens

ClosedStream(c, i) ==
  LET arms == {k \in DOMAIN c.streams : c.streams[k].close = c.request[i].name}
  IN IF arms = {} THEN NoName
     ELSE c.streams[CHOOSE k \in arms : \A l \in arms : k <= l].name

StreamKind(c, i) == c.event.variants[i].belongs

-----------------------------------------------------------------------------
(***************************************************************************)
(* lib.rs and parse.rs                                                     *)
(***************************************************************************)

Init ==
  /\ \E operations \in Operations : channel = Empty(operations)
  /\ phase = "parsing"
  /\ emitted = Empty(<<>>)
  /\ diagnostic = "none"

Reject(error) ==
  /\ phase' = "rejected"
  /\ diagnostic' = error
  /\ UNCHANGED <<channel, emitted>>

\* The block may not stand here: no second reply, event or observable block, and
\* a stream lists an event. Any other syntax error is a block called malformed.
BlockRefused(block) ==
  \/ block.kind = "malformed"
  \/ block.kind = "reply" /\ channel.reply.declared
  \/ block.kind = "event" /\ channel.event.declared
  \/ block.kind = "observable" /\ channel.observable.declared
  \/ block.kind = "stream" /\ block.body.events = <<>>

ParseBlock(block) ==
  /\ phase = "parsing"
  /\ \/ /\ BlockRefused(block)
        /\ Reject("Syntax")
     \/ /\ ~ BlockRefused(block)
        /\ \/ block.kind = "reply" /\ channel' = [channel EXCEPT !.reply = block.body]
           \/ block.kind = "event" /\ channel' = [channel EXCEPT !.event = block.body]
           \/ block.kind = "observable" /\ channel' = [channel EXCEPT !.observable = block.body]
           \/ /\ block.kind = "stream"
              /\ Len(channel.streams) < MaxStreams
              /\ channel' = [channel EXCEPT !.streams = Append(@, block.body)]
        /\ UNCHANGED <<phase, emitted, diagnostic>>

\* Seeded fault: a channel may go without a reply.
EndOfInputUnchecked ==
  /\ phase = "parsing"
  /\ phase' = "validating"
  /\ UNCHANGED <<channel, emitted, diagnostic>>

\* The end of the declaration: a reply block is required.
EndOfInput ==
  /\ phase = "parsing"
  /\ \/ /\ ~ channel.reply.declared
        /\ Reject("MissingReply")
     \/ /\ channel.reply.declared
        /\ phase' = "validating"
        /\ UNCHANGED <<channel, emitted, diagnostic>>

ValidateChannel ==
  /\ phase = "validating"
  /\ \/ /\ Validate(channel) # "none"
        /\ Reject(Validate(channel))
     \/ /\ Validate(channel) = "none"
        /\ phase' = "emitting"
        /\ UNCHANGED <<channel, emitted, diagnostic>>

Emit ==
  /\ phase = "emitting"
  /\ phase' = "emitted"
  /\ emitted' = Augmented(channel)
  /\ UNCHANGED <<channel, diagnostic>>

Next ==
  \/ \E block \in Blocks : ParseBlock(block)
  \/ EndOfInput
  \/ ValidateChannel
  \/ Emit

Spec == Init /\ [][Next]_vars

-----------------------------------------------------------------------------
(***************************************************************************)
(* Properties                                                              *)
(***************************************************************************)

\* A declaration ends with a diagnostic exactly if it is rejected, has a reply
\* once it is parsed, and is emitted without an observable block (lib.rs, emit).
TypeOK ==
  /\ phase \in {"parsing", "validating", "emitting", "emitted", "rejected"}
  /\ diagnostic = "none" <=> phase # "rejected"
  /\ Len(channel.streams) <= MaxStreams
  /\ phase \in {"validating", "emitting", "emitted"} => channel.reply.declared
  /\ emitted # Empty(<<>>) => phase = "emitted" /\ ~ emitted.observable.declared

\* The emitted enums have no variant twice, though validation only saw the
\* channel before the observable block was expanded into them.
EmittedVariantsUnique == phase = "emitted" => ~ DuplicateVariant(emitted)

\* A stream name that named one stream of the declaration names one stream of the
\* emitted code: the observer's stream merges with none. Validation does not ask
\* that the author's own streams differ, so they are presumed to.
StreamNamesStayUnique ==
  phase = "emitted" => (Unique(channel.streams) => Unique(emitted.streams))

\* The emitted stream tables close over themselves: what opens a stream, belongs
\* to it or is listed by it names a stream of the channel and is named by it;
\* the observer stream that no author declared is no exception.
EmittedStreamsResolve ==
  phase = "emitted" =>
    /\ \A i \in DOMAIN emitted.request :
         OpenedStream(emitted, i) # NoName =>
           \E s \in Elements(emitted.streams) :
             s.name = OpenedStream(emitted, i) /\ s.opened \in NamesOf(emitted.reply.variants)
    /\ \A i \in DOMAIN emitted.event.variants :
         StreamKind(emitted, i) \in NamesOf(emitted.streams)
    /\ \A s \in Elements(emitted.streams) :
         /\ \E i \in DOMAIN emitted.request : OpenedStream(emitted, i) = s.name
         /\ \A e \in Elements(s.events) :
              \E i \in DOMAIN emitted.event.variants :
                emitted.event.variants[i].name = e /\ StreamKind(emitted, i) = s.name

\* Every stream can be closed, and the operation said to close a stream carries
\* that stream's token, even if several streams name the same operation.
ClosersCarryTheirToken ==
  phase = "emitted" =>
    /\ \A s \in Elements(emitted.streams) :
         \E i \in DOMAIN emitted.request :
           emitted.request[i].name = s.close /\ ClosedStream(emitted, i) # NoName
    /\ \A i \in DOMAIN emitted.request : ClosedStream(emitted, i) # NoName =>
         \E s \in Elements(emitted.streams) :
           s.name = ClosedStream(emitted, i) /\ s.token = emitted.request[i].payload

\* Opting into observation does not move the wire: every operation the author
\* declared keeps its root byte.
RootBytesUnmoved ==
  phase = "emitted" =>
    \A i \in DOMAIN channel.request :
      \A j \in DOMAIN emitted.request :
        emitted.request[j].name = channel.request[i].name =>
          RootByte(emitted, j) = RootByte(channel, i)

\* What macros/README.md says validation does: the record heads that the
\* payloads of one block project to are unique.
RecordHeadsUnique ==
  phase = "emitted" =>
    \A i, j \in DOMAIN emitted.request :
      ProjectedRecordHead(emitted.request[i].payload)
        = ProjectedRecordHead(emitted.request[j].payload) => i = j

=============================================================================

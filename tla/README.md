# Verification of signal-frame

TLA+ models of the `signal-frame` crate and of its `signal_channel!` macro,
model-checked with TLC on small instances and proved with TLAPS for every value
of the constants. Everything is translated from the source under `src/`; line
references are in the `map` of `PROJECT.json`.

## The system

signal-frame is the shared frame kernel of a family of daemons. A *contract*
declares a channel with `signal_channel!`. The macro emits the request, reply and
event enums, their routes, a frame codec bound to the contract's identity and
revision, the daemon's only wire ingress (`OperationDispatch`) and, for an
observable channel, the registry of its observers. The crate supplies the frame,
the identifiers, requests and replies, and the generic command-line client that
every daemon's thin client is an alias of.

```
  argument -> ClientShape --request frame--> decode_length_prefixed -> dispatch -> handler
                  ^                                                                  |
                  +------------------- reply / event frame -------- ObserverSet <----+
```

| Component (code) | State it keeps | Operations | Hard about it | What makes it correct |
|---|---|---|---|---|
| Bound wire frame (`src/frame.rs`, `src/binding.rs`) | none | pack and unpack the short header, strip prefix and header, validate the binding, decode | field widths, order of the checks, frames cut anywhere | the header gives back what was put in; no archive of another contract or revision reaches the decoder |
| Generated ingress (`macros/src/emit.rs`: decode, `dispatch`) | decoded frame per connection, who is inside the one `&mut` handler | decode, refuse, dispatch, handler returns | connections interleave around one handler; route and body are chosen independently by the peer; the root is one byte | the handler gets exactly the acceptable messages, each answered once, in order |
| Generated registry (`emit.rs`: `ObserverSet`) | vector of subscriptions, wrapping token counter | `register`, `unregister`, the two publish methods | tokens wrap and are reused; `retain` drops every match | deliveries and answers follow the history of the calls |
| Command-line client (`src/command_line.rs`) | one process per invocation: its request, its connection, its exit code | read the argument, route, connect, write, read in two halves, print | crash or hang-up of the daemon between any two steps, replies of others, events before replies, exit codes that scripts act on | what the exit code and the output say about the request is true |
| Macro pipeline (`macros/src/{lib,parse,validate,model,emit}.rs`) | the channel as parsed, validated, expanded | parse a block, validate, expand the observable block, emit | validation runs *before* the expansion; tables are `match`es whose first arm wins | the emitted tables are consistent and the author's wire numbering is unmoved |
| Exchange identifiers, lanes (`src/exchange.rs`) | session epoch, a sequence per lane | `first`, `next`, the identifiers | replies that outlive their connection, one counter for requests and events, counters that panic or start over | a reply is taken for its own request only; events ascend |
| Requests, replies, builders and their text (`src/request.rs`, `reply.rs`, `non_empty.rs`, the codecs of `emit.rs`, `RequestHead` of `command_line.rs`) | a vector of operations; a text | push, build, extend, write, route, decode, print | two parsers read one text; one operation and many are written differently | what was asked for is what is read, by the one contract it was meant for |
| Caller capture (`src/caller.rs`) | none | three reads: parent's pid, its executable, its start time | the parent may exit, be reaped and leave its pid to another process between any two; its name may look like anything, or be no text at all | the record describes one process, or shows that it does not; of a caller that stays it lacks a start time only if the stat line cannot be read as a string |
| Namespace sections (`src/namespace.rs`) | the section each contract claims | `classify`, `assert_triad_sections!` | the claim is a constant, the root bytes come from the macro | the two contracts' root bytes do not overlap (they do, see below) |
| Version and handshake bodies, identity records, re-exports | none | comparisons | - | not modelled, see below |

The hazards that the properties are for are listed in `PROJECT.json`, each at its
line.

## Modules

| Module | Models | Notes |
|---|---|---|
| `WireFrame` | header packing, binding check, prefix checks | pure operators; the integer widths are the constants `ContractSpan` (2^32), `RevisionSpan` (2^16), `ByteSpan` (2^8), `LengthSpan` (2^32); `ArchiveLengths` are the archives that `length_prefix` does not refuse |
| `FrameIngress` | the decode path and `dispatch` of a daemon with several connections | EXTENDS `WireFrame` |
| `ValidatedIngress` | what the ingress promises, without the frame's layout | abstract; implemented by `FrameIngress` |
| `ObserverSet` | the generated observer registry | carries a history of the calls against which the answers are judged |
| `ClientShape` | invocations of the client against an external daemon | the daemon is as free as the replies and frames of `src/` allow |
| `RemoteCall` | what one invocation promises its caller: done, unsent, rejected or unknown | abstract; implemented by `ClientShape` |
| `ChannelMacro` | declaration -> validation -> expansion -> emitted tables | the width of a root byte is the constant `ByteSpan` (2^8) |
| `RequestText` | requests and replies as text: builder, encoder, head parser, decoder | texts are sequences of dotos blocks |
| `CallerCapture` | the reads of a capture against a moving process table | the process table is external |
| `ExchangeLanes` | exchanges and events on a connection and across reconnects | the width of the counters is the constant `Span` (2^64) |
| `TriadSections` | two contracts of a component: their claims and their root bytes | |
| `RemainderTheorems` | lemmas on division and remainder | used by the proofs about widths |
| `FrameIngress_proofs` (with those of `WireFrame`), `ObserverSet_proofs`, `ClientShape_proofs`, `ChannelMacro_proofs`, `RequestText_proofs`, `CallerCapture_proofs`, `ExchangeLanes_proofs` | the theorems | each EXTENDS the module it is about |
| `MCFrameIngress`, `MCClientShape`, `MCChannelMacro`, `MCRequestText`, `MCCallerCapture`, `MCExchangeLanes` | the values of the constants for TLC | `ObserverSet` and `TriadSections` need numbers only |

### How state and actions correspond to the code

*FrameIngress.* `sent[p]` is the byte stream of a connection cut into messages, and
`verdicts[p]` what became of them. A message keeps the number of bytes at hand, the
length its prefix declares, its header, the binding of the types its body was
archived with, and the body. `DecodeRefuses` and `DecodeAccepts` are
`decode_length_prefixed` with its checks in their order; an accepted frame's header
is rebuilt from the contract's binding, as `Frame::new` does. `DispatchRefuses` and
`DispatchHandles` are `dispatch`; `handling` is the `&mut` borrow of the handler
held across its `await`. Roots are operation indexes cast to a byte, and
`RouteArms` are the emitted match arms of which Rust takes the first, so more
operations than bytes are represented. `Send` and `HandlerReturns` are external.
rkyv is external too: an archive read with the types that wrote it gives its body;
read with others it gives an error or *any* body.

*ObserverSet.* `subscriptions` and `nextToken` are the two fields of the struct;
each entry also carries its registration number, and `calls` the history. `InOrder`
lists positions in ascending order, which is what `retain` and `filter_map` do.

*ClientShape.* `phase` follows `reply_text` and `submit`: ready, routed, connected,
written, sized (the length prefix was read and accepted), ended. `Prepared` is
everything before the socket, errors in their order. `Oversized` are the requests that cannot be framed: rkyv makes no
archive of them, or one longer than the prefix can say; the frame is encoded after the connection is open, so
`WriteRequest` ends such an invocation as `SignalFrame` with nothing written. `incoming` is the frame on the
connection and how much of it the daemon has written. What the daemon wrote before
it closed stays readable, which is how a Unix stream behaves. An invocation reads one
frame only, so only the first frame of a connection is represented. `Decide`,
`SendPrefix`, `SendPayload` and `Close` are the external daemon: it may decide a
request after the client has gone, send an event or a foreign reply first, announce a
frame beyond the client's limit, and hang up between the halves of a frame. It builds
replies as the comments of `src/reply.rs` ask (`Ok` sub-replies under `Committed`
only). With `RepliesByExchange` it looks up the connection of a reply by the exchange
identifier; without it, it answers on the stream the request came by.

*ChannelMacro.* One action per stage. `ParseBlock` takes the blocks one by one, with
the refusals of `parse.rs` that concern what stands where; any other syntax error is a
`malformed` block. `Validate` is `validate.rs` in its order. `Augmented` is
`augment_with_observable`; the payload of its `Tap` is `FilterIdent`, the type the block names or, for `filter default`, the
generated `ObserverFilter`. `RootByte`, `OpenedStream`, `ClosedStream` and `StreamKind`
are tables of the emitted code.

*RequestText.* `stage` follows one text: the builder (`Push`, `Build`, `Extend`) or a person
(`TypeByHand`) makes it, `Route` reads its head, `Decode` the whole, `Reply` prints the answer.
`FirstObject` and `HasHead` are `RequestHeadBlock::head`, its recursion cut off at three nested
brackets; `DecodesItems` and `DecodesVariant` are `Request::from_dotos_block` and the emitted
`from_dotos_block` of an enum, whose errors are not told apart. The codec of a payload type is the
set of blocks it may be; different operations and different contracts may share blocks. The
observer's filter, token and opened record have the blocks that the macro's codecs for them write,
with the default filter. Printed lists of replies are judged by the decoder of lists in
`src/request.rs`, with the reply enum. The caller of a request is not in its text and is left out.

*CallerCapture.* `pc` is the field of the record that is read next, in the order of the literals of
`from_kernel` and `current_process`. A stat line is a sequence of tokens in which `) ` is one; the
command name may hold any tokens, that one too, and bytes that are not UTF-8 (`Garbled`): the kernel writes a name as it
is, and `read_to_string` fails on the whole line then (`IsText`). `seen` records which generation of the pid each
read saw and exists for the properties only. The kernel's part: a pid names one process at a time, a
process keeps its start time, the children of a process that exits go to init or to a subreaper
older than they are, a zombie has a stat line and no executable.

*ExchangeLanes.* The identifiers are `src/exchange.rs`, and `Answers` is the comparison of
`reply_from_frame`. Who keeps the counters, the exchanges that wait and the connection is outside
`src/`; these actions do what the comments of `exchange.rs` and `frame.rs` ask for: each side
mints on its own lane, replies echo, events share the acceptor's counter, a reconnect takes the next
epoch and starts both lanes over. `overflowChecks` is the build profile: with it an addition at the
end of the width panics (the action is not enabled), without it the counter goes around. Histories
(`connection`, `minted`, the `call` beside each identifier) say what an identifier really stands for.

*TriadSections.* `CompileDaemon` is `assert_triad_sections!`, `SendRequest` the emitted root byte.

Definitions marked *Seeded fault* are wrong variants of the definition that follows
them. No specification uses them; each is there to show that a property notices when
the code is changed that way.

## What TLC checks

| Run | Question | Bounds |
|---|---|---|
| `IngressFrames` | Does the handler get exactly the acceptable messages, do equal messages fare alike, and does `FrameIngress` implement `ValidatedIngress`? | two connections, one message each out of 27: every route with every body (three operations in a two-valued byte, a batch, a reply), four foreign bindings, five cuts, a damaged archive |
| `IngressLive` | Is every message answered, in order, and does every frame of `request_frame` reach the handler? | two connections, queues of two, five messages |
| `ObserverSet` | Do deliveries and answers match the history? Are tokens distinct? | tokens of two values, six calls |
| `ClientShape` | Is what an invocation says about its request true? | two invocations, fourteen arguments covering every outcome of `Prepared` and of `WriteRequest` |
| `ClientLive` | Does every invocation end? | two invocations, four arguments, one socket |
| `ClientEpochs` | (violation) Can a stale reply land on a new connection? | as above, one argument, a daemon that answers by exchange identifier |
| `ChannelMacro` | Are the tables emitted for an accepted channel consistent? | 22 operation lists of up to four operations, 19 blocks, two streams, blocks in any order, a root byte of three values |
| `RecordHeads` | (violation) Are record heads unique? | as above |
| `RequestText` | Do the head parser and the decoder agree, and does every request and reply survive its text? | requests of up to three operations; two contracts that share an operation; every text of a small grammar with records, braces, nested brackets and too many roots |
| `CallerCapture` | Does a captured record describe one process? | two older processes besides the client, of which either may be the parent or adopt the client, two processes per pid, one tick, three names of which one imitates the end of a name and its fields and one is not UTF-8 |
| `ExchangeLanes` | Which replies are taken for which requests, is what somebody waits for still under way, and do events ascend? | counters of three values, reconnects up to a fourth connection, four sequences per lane, two requests and replies under way |
| `TriadSections` | (violation) Do the sections divide the root bytes? | 1, 3 or 101 operations per contract, the cutoff and the byte of the code |

*Why the bounds are enough.* Connections interact only through the one handler, so two
show every interleaving of one against another; a queue of two shows order and the
step from one message to the next. Three operations and a byte of two values are the
smallest case in which two operations share a root. With two token values, tokens wrap
after two registrations, and six calls hold register - register - register -
unregister - publish and one more. Two invocations are what it takes to confuse their
replies. Two streams, one of them possibly sharing the closing operation of the other,
are enough for every table relation, which are all between pairs. Three operations are the smallest request whose
order can be lost with its head in place. Two processes per pid are one reuse; one tick tells a process that
started with the client from one that started later. With counters of three values, four sequences and four
connections take both counters around once, which is where the properties of `ExchangeLanes` make their exception; three values
are the fewest with which a request of the acceptor falls between two events of one round. Four operations and the two
of the observer take a root byte of three values around. Prefixes up to eleven hold the longest frame of the ingress runs.
Every safety property of the passing runs is also proved without any bound.

*Symmetry.* Invocations are interchangeable and `MCClientShape.cfg` uses that; it
checks no liveness property. The liveness runs use no symmetry.

*Deadlock.* `CHECK_DEADLOCK FALSE` everywhere: a bounded number of messages, calls, streams and
sequences is used up, invocations, texts and captures end, and an emitted declaration has no next step. That
the ingress and the client do not stop early is what the liveness runs show.

*Fairness.* `IngressLive`: weak fairness of decoding and of dispatch on each connection
(tasks of a daemon's executor) and of the handler's return; nothing is assumed of
peers. Weak fairness of `Dispatch(p)` would in general not be enough, as the handler
is busy again and again; it is enough here because a bounded number of messages makes it
busy a bounded number of times. That a connection is not starved by an unbounded
stream of the others' messages depends on the fairness of the mutex a daemon puts around
its handler, which is not in this repository, and is not claimed. `ClientLive`: weak
fairness of each process and of the daemon's steps for each connection. The client sets
no read timeout, so that without the second assumption an invocation may wait for ever;
weak fairness of the disjunction `DaemonStep` is enough because the steps of one
connection are finitely many and the last of them is its close: the daemon answers or
hangs up.

### What the properties say

- `VerdictsAreRight`, `AbstractSpec` (ingress): no forged route, batch, reply, foreign or
  damaged archive or cut frame reaches the handler; every good frame does, as the
  operation that was put into it.
- `ForeignArchivesUnread`: the binding is checked before one byte is decoded.
- `SameMessageSameVerdict`: neither the other connections nor a busy handler shows in a verdict. It would fail if
  an archive were read with foreign types, or not read before it is handed on.
- `RouteMismatchUnreachable`: the last check of `dispatch` can never fail.
- `DeliveriesMatchHistory`, `ClosingIsHonest`: judged against the history alone, and true
  even when tokens have wrapped.
- `TokensDistinctWithinSpan`, `ClosesOneObserver`: what wrapping does cost, and when.
- `SuccessMeansCommitted`: exit code 0 means that this very request was committed and
  that what was printed is its answer, operation by operation.
- `UsageErrorsSendNothing`: exit code 64 is safe to correct and repeat.
- `CommittedRequestsFitTheirSocket`: the head of the first operation picks the socket,
  yet only whole requests of that contract are ever committed.
- `WholeReplyDecides`: a close right behind a reply loses nothing.
- `AbstractSpec` (client): `unsent` and `rejected` mean never committed, `done` means
  committed; every other end leaves it open, and a commit may still follow it.
- `EmittedVariantsUnique`, `EmittedStreamsResolve`, `ClosersCarryTheirToken`,
  `RootBytesUnmoved`: validation, which never sees the observer's operations, events and
  stream, is strong enough for the code that is made of them.
- `StreamNamesStayUnique`: the observer's stream takes the name of no stream an author declared. Two streams of the
  *author* may share a name as far as validation goes (the compiler refuses the enum that is emitted).
- `BuiltRequestsSurviveText`: however a request was put together, its text is read as the same
  operations in the same order, or refused because both contracts have its first head.
- `AcceptedTextIsUnambiguous`, `RefusedTextIsNoRequest`: the parser that looks at the head alone and the
  decoder that reads everything never disagree, in either direction.
- `PrintedRepliesReadBack`: no two lists of replies are printed alike.
- `StartTimeVouchesForCaller`: a start time before the client's own means that pid, executable and start time are one
  process's; one after it, that the pid was reused. That holds because the start time is read last.
- `LivingCallerIsDescribed`: of a caller that is still there the record has the executable, unless the client may not read
  it, and the start time the kernel gave it, whatever text the caller calls itself. Only a name that is not UTF-8 loses
  the start time, and nothing else of the record.
- `RepliesAnswerTheirRequest`: late replies of earlier connections and answers out of order are never taken for another
  request, unless a counter went all the way around in between; a build with overflow checks stops before that.
- `NothingWaitsInVain`: with overflow checks, no reply is spent on another exchange and none is refused that somebody
  waits for, so that whoever waits has a request or a reply of its own under way. (Requests and replies are
  not lost in this model unless the connection is, and then nobody waits any more.)
- `EventsAscend`: events ascend by epoch and sequence although requests of the acceptor take numbers in between.

### Where code and documentation disagree

1. `src/src/exchange.rs:12` says that a reconnect mints a fresh session epoch, so that
   stale replies cannot land on a new connection. `ClientShape::exchange`
   (`src/src/command_line.rs:781`) uses epoch 0 and sequence 0 for every invocation. Run
   `ClientEpochs` shows an invocation ending with exit code 0 on the reply to another's
   request, *if* the daemon addresses replies by exchange identifier. With a daemon that
   answers on the stream of the request, `StreamsKeepRepliesApart` and `SuccessIsTrue` prove that this cannot happen.
2. `src/macros/README.md:53` lists uniqueness of projected record heads among the checks of
   `validate.rs`. The code compares variant names only, and `src/UPGRADES.md:8` records that
   the restriction was removed. Run `RecordHeads` shows such a channel being emitted.
   `RecordHeadsCondition` says what the declaration has to see to instead: its heads differ, and if it is observable
   none is the filter's type (the one it names, or `ObserverFilter`) or `ObserverSubscriptionToken`, and the filter's type is
   not that token.
3. `src/src/namespace.rs:3` says that the ordinary and the meta contract of a component divide the 256 root bytes
   between them. `assert_triad_sections!` compares only what the two contracts claim, and the macro
   (`src/macros/src/emit.rs:354`) numbers the operations of every contract from 0. Run `TriadSections` shows a daemon
   that compiles and whose big-section contract sends root byte 0. The contract identity in the header, which
   `ForeignArchivesUnread` is about, is what keeps the two apart.

Seen while reading and not made runs: `src/src/exchange.rs:3` has the handshake establish an `ExchangeMode`, but
neither `HandshakeRequest` nor `HandshakeReply` carries an `ExchangeHandshake`; `Caller::from_kernel` knows a client
whose parent has gone by pid 1 only, so that a subreaper, or the 0 of a parent in another pid namespace, is described
as its caller; the comment at `src/src/log_variant.rs:9` describes more
of the projected bytes than the macro fills (byte 0 only, `emit.rs:354`); a living caller whose command name is not UTF-8 (a name of several-byte letters cut at 15 bytes
is one) is described without a start time, which nothing in `src/` says.

## What is proved

All theorems hold for every value of the constants under the named assumptions
`SpanAssumption` (one in `WireFrame`, one in `ExchangeLanes`), `IngressAssumption`, `ObserverAssumption`, `ClientAssumption`, `DeclarationAssumption`,
`TextAssumption` and `CaptureAssumption`, which say no more than that widths are positive, that messages were written by a
producer of *some* contract, that arguments, declarations and stat lines are well formed, and that an author does not
declare the observer's own names; TLC evaluates them in every run.

- **FrameIngress_proofs**, first on `WireFrame`. `HeaderRoundTrip`: for all widths, packing and unpacking a header gives
  back binding and route (mixed-radix arithmetic, from the lemmas of `RemainderTheorems`).
  `PrefixVerdictExact`: all checks before the decoder pass exactly for a whole message whose
  header names the decoder's binding. `EncodedFrameReadsBack`, `ForeignFrameNamed` and `OnlyTheWholeFrameDecodes` are the
  same from the producer's side: what is encoded is read back by its own contract, refused by every other one with the error that
  names the difference, and refused at every other length; the archives are those whose length the prefix can hold. `RequestFrameVerdict`: what becomes of a `request_frame` depends
  on nothing but whether the operation's index fits the root byte. Then on the ingress: `VerdictsAreRight` is not inductive: a verdict is given when a frame
  is dispatched, long after it was read. `IngressInv` adds `HeldFramesAreCurrent`: a held frame is
  the oldest unanswered message of its connection, whole, and read with its own types. From it
  and the lemma `DispatchVerdictExact` (the seven checks in their order accept exactly what
  `Acceptable` describes without them) follow `VerdictsAreDetermined` (the outcome of a message is `MessageVerdict`, a function
  of the message: a second invariant, inductive together with the first), `SameVerdict` from it, `OnlyAcceptableHandled`, `ForeignNeverRead`,
  `RouteCheckRedundant`, and `ImplementsValidatedIngress`: decoding an accepted frame is a
  stutter, every other step is one abstract step.
- **ObserverSet_proofs.** `TokensDistinct` rests on `SubscriptionsNumbered`: a token is its
  registration's number modulo the width and the vector is sorted by number. `DeliveriesRight` and
  `ClosingRight` rest on `SubscriptionsMirrorHistory`: the vector lists the registrations that the
  history leaves live, in order. The lemmas about `InOrder` (there is one ascending listing, it
  can be composed and extended) carry that through `retain`. `ClosesOne`: within a span of registrations a token names one live
  observer (`TokenNamesOne`), the ascending listing of the others is unique (`OneListing`), and it is the vector with one entry cut out.
- **ClientShape_proofs.** `ClientInv` adds to the properties where an invocation stands when its
  request, connection, answer and frame come to be (`Stages`), what the daemon can have answered
  (`AnswersFit`), whose reply a frame holds (`FramesAnswer`), and, for each way to end, what is
  true of the connection ever after (`Endings`); an ending has to be stable under everything that
  the daemon does later. From it follow `UsageSendsNothing`, `FitTheirSocket`, `ReplyDecides`, and
  for a daemon that keeps the stream of a request (`~ RepliesByExchange`) `SuccessIsTrue`, `StreamsKeepRepliesApart`,
  `RetriesAreSafe` (an invocation that blames its input or reports a rejection is never committed, then or later) and
  `ImplementsRemoteCall`. `NothingPrintedUncommitted` needs no such daemon: what is printed was committed, if
  perhaps for another invocation.

- **ChannelMacro_proofs.** `IInv` says what a parsed channel looks like (`IsChannel`), that one on its way out has passed
  `Validate`, and that the emitted one is its expansion. The work is in lemmas about a single channel: `ExpansionUnique`
  (uniqueness survives the expansion), `ExpansionResolves` (so do the stream tables) and `LeastArm` (a match that has an arm
  has a first one). `EmittedUnique`, `EmittedResolve`, `StreamNamesStay`, `ClosersCarry` and `RootBytesStay` follow for declarations of any size.
  `EmittedIsValid` sums up why it is right to validate first and expand afterwards: the expanded channel passes
  the same validation (`ExpansionValid`). `RecordHeadsCondition` is the exact extent of the second disagreement above.
- **RequestText_proofs.** The codecs are lemmas about all enums and blocks: `ItemsReadBack` (decoding undoes encoding)
  and `ParsersAgree` (whatever decodes has the head of its first operation). `IInv` carries what a written text was made from and how far the
  two parsers have come; with the lemmas it gives `RequestsSurviveText`, `RoutingNeverGuesses`, `RefusalIsRight` and `RepliesReadBack`.
- **CallerCapture_proofs.** `StartTimeFound`: for *any* name the field read is the start time, because the fields behind the
  name hold no `) `. `TextOfStat`: the line is text exactly if the name is, which gives `LivingDescribed` its condition. `AgeInv` orders processes by age: the first process of a pid that was there before the client is no younger than the
  client, every later one no older. `ReadInv` orders the reads by generation. A start time below the client's own then means the
  first generation, and every earlier read saw the same.
- **ExchangeLanes_proofs.** An identifier is its call modulo the width (`Identified`), so that equal identifiers are equal calls or calls a
  span apart (`SameOrApart`); with overflow checks no count reaches the span. `Ordered` says that the events under way ascend
  and come after the last one received. `RepliesAnswer` and `EventsAscendAlways` are action properties from that invariant.
  `NumbersAreUsedOnce` rests on `NextCallIsNew` (the next call of a lane is none that was made), and gives `EventsStayApart`: the two kinds
  of identifier would not need two types to be told apart. `WaitsAreAnswered` is an invariant of its own (`WaitInv`): the exchange a
  reply is spent on *is* the reply's, because with overflow checks an identifier names one call (`IdentifiersAreNames`).

*Only model-checked:* liveness (`EveryMessageAnswered`, `RequestFramesHandled`, `EveryInvocationEnds`), which the prover
does not reach.

## What is not modelled

rkyv, the sockets of the operating system and the daemon's own code are external and appear as free
choices. Left out: the characters of a text (blocks are what the dotos crate makes of them), token-level parsing of
`signal_channel!`, derives and aliases, what author-written observer filter types match and how they are written as text (the trait leaves it free; their names are in
`ChannelMacro`), the handshake bodies
and protocol versions (no code here performs a handshake or acts on a comparison), identity records (no behaviour), and the
type-level markers and re-exports of `src/lib.rs`.

## Plan

Done: `WireFrame`, `FrameIngress` over `ValidatedIngress`, `ObserverSet`, `ClientShape` over
`RemoteCall`, `ChannelMacro`, `RequestText`, `CallerCapture`, `ExchangeLanes`, `TriadSections`, and the proofs of all but the last.

Left:

1. `ObservableSession`: the registry behind connections. Tap and Untap arrive as operations, events travel on
   connections that may close without an Untap. The code that ties a connection to its tokens is a daemon's, not this
   repository's, so that most of such a module would be external; it would compose `ObserverSet` with `FrameIngress`.
2. The refusals of `parse.rs` token by token, if validation ever comes to depend on them.

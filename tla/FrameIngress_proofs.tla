------------------------ MODULE FrameIngress_proofs ------------------------
(***************************************************************************)
(* FrameIngress for every set of peers, messages and operations and every  *)
(* width of the header's fields: its type invariant, its verdicts, and the *)
(* refinement of ValidatedIngress.                                         *)
(***************************************************************************)
EXTENDS FrameIngress, RemainderTheorems

-----------------------------------------------------------------------------
(***************************************************************************)
(* What the operators of WireFrame compute, for every width of the fields. *)
(***************************************************************************)

\* Whatever is in a header, its fields read back inside their widths.
LEMMA HeaderFieldsTyped ==
  ASSUME NEW header \in Nat
  PROVE  /\ HeaderBinding(header) \in RawBindings
         /\ HeaderRoute(header) \in Routes
<1>1. /\ header % ContractSpan \in 0 .. ContractSpan - 1
      /\ header \div ContractSpan \in Nat
  BY SpanAssumption
<1>2. /\ (header \div ContractSpan) % RevisionSpan \in 0 .. RevisionSpan - 1
      /\ (header \div ContractSpan) \div RevisionSpan \in Nat
  BY <1>1, SpanAssumption
<1>3. /\ ((header \div ContractSpan) \div RevisionSpan) % ByteSpan \in 0 .. ByteSpan - 1
      /\ ((header \div ContractSpan) \div RevisionSpan) \div ByteSpan \in Nat
  BY <1>2, SpanAssumption
<1>4. (((header \div ContractSpan) \div RevisionSpan) \div ByteSpan) % ByteSpan
        \in 0 .. ByteSpan - 1
  BY <1>3, SpanAssumption
<1> QED
  BY <1>1, <1>2, <1>3, <1>4 DEF HeaderBinding, HeaderRoute, RawBindings, Routes

\* The fields of a packed header do not overlap: the binding and the route it
\* was packed from read back unchanged (ShortHeader::bound, binding, route).
THEOREM HeaderRoundTrip ==
  ASSUME NEW binding \in RawBindings, NEW route \in Routes
  PROVE  /\ Header(binding, route) \in Nat
         /\ HeaderBinding(Header(binding, route)) = binding
         /\ HeaderRoute(Header(binding, route)) = route
<1> DEFINE routeBits == route.variant + ByteSpan * route.root
           rest == binding.revision + RevisionSpan * routeBits
<1>1. /\ binding.contract \in 0 .. ContractSpan - 1
      /\ binding.revision \in 0 .. RevisionSpan - 1
      /\ route.root \in 0 .. ByteSpan - 1
      /\ route.variant \in 0 .. ByteSpan - 1
  BY DEF RawBindings, Routes
<1>2. routeBits \in Nat
  BY <1>1, SpanAssumption
<1> HIDE DEF routeBits
<1>3. rest \in Nat
  BY <1>1, <1>2, SpanAssumption
<1>4. rest % RevisionSpan = binding.revision /\ rest \div RevisionSpan = routeBits
  BY <1>1, <1>2, SpanAssumption, FieldAndRest
<1>5. /\ routeBits % ByteSpan = route.variant
      /\ routeBits \div ByteSpan = route.root
  <2>1. ByteSpan \in Nat \ {0} /\ route.root \in Nat
    BY <1>1, SpanAssumption
  <2> QED
    BY <1>1, <2>1, FieldAndRest DEF routeBits
<1>6. route.root % ByteSpan = route.root
  BY <1>1, SpanAssumption
<1> HIDE DEF rest
<1>7. Header(binding, route) = binding.contract + ContractSpan * rest
  BY DEF Header, rest, routeBits
<1>8. Header(binding, route) \in Nat
  BY <1>1, <1>3, <1>7, SpanAssumption
<1>9. /\ Header(binding, route) % ContractSpan = binding.contract
      /\ Header(binding, route) \div ContractSpan = rest
  <2>1. ContractSpan \in Nat \ {0}
    BY SpanAssumption
  <2>2. /\ (binding.contract + ContractSpan * rest) % ContractSpan = binding.contract
        /\ (binding.contract + ContractSpan * rest) \div ContractSpan = rest
    BY <1>1, <1>3, <2>1, FieldAndRest
  <2> QED
    BY <1>7, <2>2
<1>10. HeaderBinding(Header(binding, route)) = binding
  BY <1>4, <1>9 DEF HeaderBinding, RawBindings
<1>11. HeaderRoute(Header(binding, route)) = route
  BY <1>4, <1>5, <1>6, <1>9 DEF HeaderRoute, Routes
<1> QED
  BY <1>8, <1>10, <1>11

\* A projection that sets only the lowest byte is a route whose root is that
\* byte (WireRoute::try_from_log_variant on what the macro generates).
LEMMA LowByteRoute ==
  ASSUME NEW value \in 0 .. ByteSpan - 1
  PROVE  /\ LogVariantIsRoute(value)
         /\ RouteOfLogVariant(value) = [root |-> value, variant |-> 0]
<1>1. value % ByteSpan = value /\ value \div ByteSpan = 0
  BY SpanAssumption
<1>2. 0 % ByteSpan = 0
  BY SpanAssumption
<1>3. value < ByteSpan * ByteSpan
  BY SpanAssumption
<1> QED
  BY <1>1, <1>2, <1>3 DEF LogVariantIsRoute, RouteOfLogVariant

\* A header passes exactly when both its identifiers are the reader's.
LEMMA BindingVerdictExact ==
  ASSUME NEW binding \in RawBindings, NEW header \in Nat
  PROVE  (BindingVerdict(binding, header) = "Accepted") <=> (HeaderBinding(header) = binding)
<1> DEFINE found == HeaderBinding(header)
<1>1. found \in RawBindings
  BY HeaderFieldsTyped
<1>2. BindingVerdict(binding, header) = "Accepted"
        <=> found.contract = binding.contract /\ found.revision = binding.revision
  BY DEF BindingVerdict
<1> HIDE DEF found
<1>3. found.contract = binding.contract /\ found.revision = binding.revision
        <=> found = binding
  BY <1>1 DEF RawBindings
<1> QED
  BY <1>2, <1>3 DEF found

\* The decoder of the archive runs exactly for whole messages with the
\* reader's own binding in their header (decode_length_prefixed).
THEOREM PrefixVerdictExact ==
  ASSUME NEW binding \in Bindings, NEW message,
         message.size \in Nat, message.declared \in Nat, message.header \in Nat
  PROVE  (PrefixVerdict(binding, message) = "Accepted")
           <=> /\ message.declared >= HeaderBytes
               /\ message.size = PrefixBytes + message.declared
               /\ HeaderBinding(message.header) = binding
<1>1. binding \in RawBindings
  BY DEF Bindings, RawBindings
<1>2. (BindingVerdict(binding, message.header) = "Accepted")
        <=> (HeaderBinding(message.header) = binding)
  BY <1>1, BindingVerdictExact
<1> QED
  BY <1>2 DEF PrefixVerdict, HeaderIsBound, PrefixBytes, HeaderBytes

\* What a producer writes its own reader reads back: the checks pass, and the
\* route and the body are the ones it was written with (Frame::new,
\* encode_length_prefixed, decode_length_prefixed).
THEOREM EncodedFrameReadsBack ==
  ASSUME NEW binding \in Bindings, NEW route \in Routes, NEW body, NEW bodies,
         NEW archiveBytes \in ArchiveLengths
  PROVE  LET message == ArchivedMessage(binding, route, body, archiveBytes)
         IN /\ PrefixVerdict(binding, message) = "Accepted"
            /\ HeaderRoute(message.header) = route
            /\ ArchiveReadings(binding, message, bodies) = {body}
<1> DEFINE message == ArchivedMessage(binding, route, body, archiveBytes)
<1>1. binding \in RawBindings
  BY DEF Bindings, RawBindings
<1>2. /\ message.size = PrefixBytes + HeaderBytes + archiveBytes
      /\ message.declared = HeaderBytes + archiveBytes
      /\ message.header = Header(binding, route)
      /\ message.schema = binding /\ message.body = body
  BY DEF ArchivedMessage
<1>3. /\ message.header \in Nat
      /\ HeaderBinding(message.header) = binding
      /\ HeaderRoute(message.header) = route
  BY <1>1, <1>2, HeaderRoundTrip
<1> HIDE DEF message
<1>4. /\ message.size \in Nat /\ message.declared \in Nat
      /\ message.declared >= HeaderBytes
      /\ message.size = PrefixBytes + message.declared
  BY <1>2 DEF PrefixBytes, HeaderBytes, ArchiveLengths
<1>5. PrefixVerdict(binding, message) = "Accepted"
  BY <1>3, <1>4, PrefixVerdictExact
<1>6. ArchiveReadings(binding, message, bodies) = {body}
  BY <1>2 DEF ArchiveReadings
<1> QED
  BY <1>3, <1>5, <1>6 DEF message

\* Every reader with another binding refuses such a frame before it looks at
\* the archive, and its error says which of the identifiers differs, the contract
\* first (ContractBinding::validate_header).
THEOREM ForeignFrameNamed ==
  ASSUME NEW reader \in Bindings, NEW writer \in Bindings, reader # writer,
         NEW route \in Routes, NEW body, NEW archiveBytes \in ArchiveLengths
  PROVE  PrefixVerdict(reader, ArchivedMessage(writer, route, body, archiveBytes))
           = IF writer.contract # reader.contract THEN "ContractMismatch"
                                                  ELSE "UnsupportedWireRevision"
<1> DEFINE message == ArchivedMessage(writer, route, body, archiveBytes)
<1>1. writer \in RawBindings
  BY DEF Bindings, RawBindings
<1>2. /\ message.size = PrefixBytes + HeaderBytes + archiveBytes
      /\ message.declared = HeaderBytes + archiveBytes
      /\ message.header = Header(writer, route)
  BY DEF ArchivedMessage
<1>3. HeaderBinding(message.header) = writer
  BY <1>1, <1>2, HeaderRoundTrip
<1> HIDE DEF message
<1>4. PrefixVerdict(reader, message) = BindingVerdict(reader, message.header)
  BY <1>2, <1>3 DEF PrefixVerdict, HeaderIsBound, PrefixBytes, HeaderBytes, ArchiveLengths
<1>5. writer.contract = reader.contract => writer.revision # reader.revision
  BY DEF Bindings
<1>6. BindingVerdict(reader, message.header)
        = IF writer.contract # reader.contract THEN "ContractMismatch"
                                               ELSE "UnsupportedWireRevision"
  BY <1>3, <1>5 DEF BindingVerdict
<1> QED
  BY <1>4, <1>6 DEF message

\* Of all the lengths at which the bytes at hand may end, a reader accepts one:
\* no frame cut short anywhere, nor one with bytes of the next behind it, passes
\* for a whole one (decode_length_prefixed).
THEOREM OnlyTheWholeFrameDecodes ==
  ASSUME NEW reader \in Bindings, NEW schema \in RawBindings, NEW route \in Routes, NEW body,
         NEW archiveBytes \in ArchiveLengths, NEW size \in Nat,
         size # PrefixBytes + HeaderBytes + archiveBytes
  PROVE  PrefixVerdict(reader,
           [ArchivedMessage(schema, route, body, archiveBytes) EXCEPT !.size = size])
             \in {"ShortLengthPrefix", "LengthMismatch"}
<1> DEFINE message == [ArchivedMessage(schema, route, body, archiveBytes) EXCEPT !.size = size]
<1>1. message.size = size /\ message.declared = HeaderBytes + archiveBytes
  BY DEF ArchivedMessage
<1> HIDE DEF message
<1>2. size < PrefixBytes \/ size - PrefixBytes # HeaderBytes + archiveBytes
  BY DEF PrefixBytes, HeaderBytes, ArchiveLengths
<1>3. PrefixVerdict(reader, message) \in {"ShortLengthPrefix", "LengthMismatch"}
  BY <1>1, <1>2 DEF PrefixVerdict
<1> QED
  BY <1>3 DEF message

-----------------------------------------------------------------------------
(***************************************************************************)
(* Dispatch as a function of the frame.                                    *)
(***************************************************************************)

\* What a connection hands to dispatch: the contract's own header over a body
\* of its own types.
DispatchedFrame(header, body) ==
  /\ header \in Nat
  /\ HeaderBinding(header) = Binding
  /\ body \in Bodies

\* dispatch runs the handler exactly for one operation under its own route, so
\* the first of the operations that share a root byte is the only one.
LEMMA DispatchVerdictExact ==
  ASSUME NEW header, NEW body, DispatchedFrame(header, body)
  PROVE  (DispatchVerdict(header, body) = "Handled")
           <=> /\ body.kind = "Request"
               /\ Len(body.operations) = 1
               /\ body.operations[1] < ByteSpan
               /\ HeaderRoute(header) = [root |-> body.operations[1], variant |-> 0]
<1> DEFINE route == HeaderRoute(header)
           operation == body.operations[1]
<1>1. /\ route \in Routes
      /\ BindingVerdict(Binding, header) = "Accepted"
  <2>1. Binding \in RawBindings
    BY IngressAssumption DEF Bindings, RawBindings
  <2> QED
    BY <2>1, HeaderFieldsTyped, BindingVerdictExact DEF DispatchedFrame
<1>2. body.operations \in Seq(Operations)
  BY IngressAssumption DEF DispatchedFrame, BodyType
<1>3. ASSUME Len(body.operations) = 1
      PROVE  operation \in Operations
  BY <1>2, <1>3
<1>4. ASSUME DispatchVerdict(header, body) = "Handled"
      PROVE  /\ body.kind = "Request"
             /\ Len(body.operations) = 1
             /\ operation < ByteSpan
             /\ route = [root |-> operation, variant |-> 0]
  <2>1. /\ body.kind = "Request"
        /\ Len(body.operations) = 1
        /\ route.variant = 0
        /\ IsFirstArm(operation, route.root)
    BY <1>1, <1>4 DEF DispatchVerdict
  <2>2. operation \in Nat /\ operation < OperationCount /\ OperationCount \in Nat
    BY <1>3, <2>1, IngressAssumption DEF Operations
  <2>3. operation % ByteSpan = route.root
    BY <2>1 DEF IsFirstArm, RouteArms, RootOf
  <2>4. /\ route.root \in Nat
        /\ route.root < ByteSpan
        /\ route.root <= operation
        /\ route.root % ByteSpan = route.root
    BY <1>1, <2>2, <2>3, SpanAssumption DEF Routes
  <2>5. route.root \in RouteArms(route.root)
    BY <2>2, <2>4 DEF RouteArms, RootOf, Operations
  <2>6. operation = route.root
    BY <2>1, <2>2, <2>4, <2>5 DEF IsFirstArm
  <2> QED
    BY <1>1, <2>1, <2>4, <2>6 DEF Routes
<1>5. ASSUME body.kind = "Request", Len(body.operations) = 1, operation < ByteSpan,
             route = [root |-> operation, variant |-> 0]
      PROVE  DispatchVerdict(header, body) = "Handled"
  <2>1. operation \in Operations /\ operation \in 0 .. ByteSpan - 1
    BY <1>3, <1>5, SpanAssumption DEF Operations
  <2>2. RootOf(operation) = operation
    BY <2>1, SpanAssumption DEF RootOf
  <2>3. \A other \in Operations : RootOf(other) = operation => operation <= other
    BY <2>1, SpanAssumption DEF RootOf, Operations
  <2>4. IsFirstArm(operation, operation)
    BY <2>1, <2>2, <2>3 DEF IsFirstArm, RouteArms
  <2>5. OperationRoute(operation) = route
    BY <1>5, <2>1, <2>2, LowByteRoute DEF OperationRoute, LogVariant
  <2>6. route.root = operation /\ route.variant = 0
    BY <1>5
  <2>7. RouteArms(route.root) # {}
    BY <2>4, <2>6 DEF IsFirstArm
  <2> QED
    BY <1>1, <1>5, <2>4, <2>5, <2>6, <2>7 DEF DispatchVerdict
<1> QED
  BY <1>4, <1>5

\* Its other results are its errors, and HeaderRouteMismatch is none of them.
LEMMA DispatchVerdictTyped ==
  ASSUME NEW header, NEW body, DispatchedFrame(header, body)
  PROVE  DispatchVerdict(header, body)
           \in (Refusals \ {"HeaderRouteMismatch"}) \cup {"Handled"}
<1> DEFINE route == HeaderRoute(header)
           operation == body.operations[1]
<1>1. route \in Routes
  BY HeaderFieldsTyped DEF DispatchedFrame
<1>2. body.operations \in Seq(Operations)
  BY IngressAssumption DEF DispatchedFrame, BodyType
<1>3. ASSUME Len(body.operations) = 1, route.variant = 0, IsFirstArm(operation, route.root)
      PROVE  OperationRoute(operation) = route
  <2>1. operation \in Operations /\ RootOf(operation) = route.root
    BY <1>3 DEF IsFirstArm, RouteArms
  <2>2. RootOf(operation) \in 0 .. ByteSpan - 1
    BY <1>1, <2>1 DEF Routes
  <2> QED
    BY <1>1, <1>3, <2>1, <2>2, LowByteRoute DEF OperationRoute, LogVariant, Routes
<1> QED
  BY <1>3 DEF DispatchVerdict, BindingVerdict, Refusals

\* A client may ask for any operation of the channel; what becomes of the frame
\* that request_frame makes of it depends on the width of the root byte alone. An
\* operation beyond it shares the byte of an earlier one, and is refused, never
\* run in that one's place.
THEOREM RequestFrameVerdict ==
  ASSUME NEW operation \in Operations, NEW archiveBytes \in ArchiveLengths
  PROVE  MessageVerdict(RequestFrame(operation, archiveBytes))
           = IF operation < ByteSpan THEN "Handled" ELSE "HeaderOperationMismatch"
<1> DEFINE body == [kind |-> "Request", operations |-> <<operation>>]
           route == OperationRoute(operation)
           root == operation % ByteSpan
           message == RequestFrame(operation, archiveBytes)
           header == Header(Binding, HeaderRoute(message.header))
<1>1. operation \in Nat /\ operation < OperationCount /\ OperationCount \in Nat
  BY IngressAssumption DEF Operations
<1>2. /\ root \in 0 .. ByteSpan - 1
      /\ root <= operation
      /\ root % ByteSpan = root
      /\ operation < ByteSpan => root = operation
  BY <1>1, SpanAssumption
<1> HIDE DEF root
<1>3. route = [root |-> root, variant |-> 0] /\ route \in Routes
  <2>1. route = [root |-> root, variant |-> 0]
    BY <1>2, LowByteRoute DEF OperationRoute, LogVariant, RootOf, root
  <2> QED
    BY <1>2, <2>1, SpanAssumption DEF Routes
<1> HIDE DEF route
<1>4. Binding \in Bindings /\ Binding \in RawBindings
  BY IngressAssumption DEF Bindings, RawBindings
<1>5. /\ PrefixVerdict(Binding, message) = "Accepted"
      /\ HeaderRoute(message.header) = route
      /\ message.body = body
  <2>1. message = ArchivedMessage(Binding, route, body, archiveBytes)
    BY DEF RequestFrame, route
  <2>2. message.body = body
    BY <2>1 DEF ArchivedMessage
  <2> HIDE DEF message, body
  <2>3. /\ PrefixVerdict(Binding, ArchivedMessage(Binding, route, body, archiveBytes)) = "Accepted"
        /\ HeaderRoute(ArchivedMessage(Binding, route, body, archiveBytes).header) = route
        /\ ArchiveReadings(Binding, ArchivedMessage(Binding, route, body, archiveBytes), {}) = {body}
    BY <1>3, <1>4, EncodedFrameReadsBack
  <2> QED
    BY <2>1, <2>2, <2>3
<1> HIDE DEF message
<1>6. HeaderRoute(header) = route /\ BindingVerdict(Binding, header) = "Accepted"
  BY <1>3, <1>4, <1>5, HeaderRoundTrip, BindingVerdictExact
<1> HIDE DEF header
<1>7. /\ root \in RouteArms(root)
      /\ operation \in RouteArms(root)
  BY <1>1, <1>2 DEF RouteArms, RootOf, Operations, root
<1>8. IsFirstArm(operation, root) <=> operation < ByteSpan
  <2>1. ASSUME operation < ByteSpan, NEW other \in RouteArms(root)
        PROVE  operation <= other
    <3>1. other \in Nat /\ other % ByteSpan = operation
      BY <1>2, <2>1, IngressAssumption DEF RouteArms, RootOf, Operations
    <3> QED
      BY <1>1, <3>1, SpanAssumption
  <2>2. ASSUME ~ (operation < ByteSpan)
        PROVE  ~ (operation <= root)
    BY <1>1, <1>2, <2>2, SpanAssumption
  <2> QED
    BY <1>7, <2>1, <2>2 DEF IsFirstArm
<1>9. /\ body.kind = "Request" /\ Len(body.operations) = 1
      /\ body.operations[1] = operation
      /\ body # Unreadable
  BY DEF Unreadable
<1> HIDE DEF body
<1>10. DispatchVerdict(header, body)
         = IF operation < ByteSpan THEN "Handled" ELSE "HeaderOperationMismatch"
  <2>1. RouteArms(route.root) # {} /\ route.variant = 0 /\ route.root = root
    BY <1>3, <1>7
  <2> QED
    BY <1>6, <1>8, <1>9, <2>1 DEF DispatchVerdict, route
<1>11. MessageVerdict(message) = DispatchVerdict(header, body)
  BY <1>5, <1>9 DEF MessageVerdict, header
<1> QED
  BY <1>10, <1>11 DEF message

-----------------------------------------------------------------------------
(***************************************************************************)
(* The inductive invariant.                                                *)
(***************************************************************************)

\* What the invariant says of one message and its verdict.
EntryRight(message, verdict) ==
  /\ verdict.outcome # "HeaderRouteMismatch"
  /\ IF message \in Acceptable
     THEN verdict = [outcome |-> "Handled", operations |-> <<Carried[message]>>]
     ELSE verdict.outcome # "Handled" /\ verdict.operations = <<>>
  /\ message.schema # Binding =>
       verdict.outcome \in
         {"ShortLengthPrefix", "LengthMismatch", "ShortHeaderTooShort",
          "UnboundHeader", "ContractMismatch", "UnsupportedWireRevision"}

VerdictType ==
  [outcome : Refusals \cup {"Handled"}, operations : Seq(Operations)]

\* The three invariants on the logs are one statement per entry.
LEMMA InvariantByEntries ==
  IngressInv <=>
    /\ TypeOK
    /\ HeldFramesAreCurrent
    /\ \A p \in Peers : \A i \in DOMAIN verdicts[p] :
         i <= Len(sent[p]) /\ EntryRight(sent[p][i], verdicts[p][i])
  BY DEF IngressInv, VerdictsAreRight, ForeignArchivesUnread, RouteMismatchUnreachable,
         EntryRight, HeldFramesAreCurrent

\* Appending a right verdict for the pending message keeps every log right.
LEMMA AnsweringKeepsEntries ==
  ASSUME TypeOK,
         NEW q \in Peers, NEW outcome, NEW operations,
         \A p \in Peers : \A i \in DOMAIN verdicts[p] :
           i <= Len(sent[p]) /\ EntryRight(sent[p][i], verdicts[p][i]),
         Len(verdicts[q]) < Len(sent[q]),
         [outcome |-> outcome, operations |-> operations] \in VerdictType,
         EntryRight(Pending(q), [outcome |-> outcome, operations |-> operations]),
         Answered(q, outcome, operations),
         UNCHANGED sent
  PROVE  /\ verdicts' \in [Peers -> Seq(VerdictType)]
         /\ \A p \in Peers : p # q => verdicts'[p] = verdicts[p]
         /\ \A p \in Peers : \A i \in DOMAIN verdicts'[p] :
              i <= Len(sent'[p]) /\ EntryRight(sent'[p][i], verdicts'[p][i])
<1> DEFINE entry == [outcome |-> outcome, operations |-> operations]
<1>1. verdicts \in [Peers -> Seq(VerdictType)]
  BY DEF TypeOK, VerdictType
<1>2. verdicts' = [verdicts EXCEPT ![q] = Append(verdicts[q], entry)]
  BY DEF Answered
<1>3. verdicts' \in [Peers -> Seq(VerdictType)]
  BY <1>1, <1>2
<1>4. \A p \in Peers : p # q => verdicts'[p] = verdicts[p]
  BY <1>1, <1>2
<1>5. ASSUME NEW i \in DOMAIN verdicts'[q]
      PROVE  i <= Len(sent'[q]) /\ EntryRight(sent'[q][i], verdicts'[q][i])
  <2>1. /\ verdicts[q] \in Seq(VerdictType)
        /\ verdicts'[q] = Append(verdicts[q], entry)
        /\ sent[q] \in Seq(Messages)
    BY <1>1, <1>2 DEF TypeOK
  <2>2. CASE i \in DOMAIN verdicts[q]
    BY <2>1, <2>2
  <2>3. CASE i = Len(verdicts[q]) + 1
    <3>1. sent'[q][i] = Pending(q) /\ verdicts'[q][i] = entry
      BY <2>1, <2>3 DEF Pending
    <3>2. i <= Len(sent'[q])
      BY <2>1, <2>3
    <3> QED
      BY <3>1, <3>2
  <2> QED
    BY <2>1, <2>2, <2>3
<1>6. ASSUME NEW p \in Peers, p # q, NEW i \in DOMAIN verdicts'[p]
      PROVE  i <= Len(sent'[p]) /\ EntryRight(sent'[p][i], verdicts'[p][i])
  BY <1>4, <1>6
<1> QED
  BY <1>3, <1>4, <1>5, <1>6

\* An acceptable message passes the decoder's checks and dispatch, and a frame
\* that dispatch hands over came from an acceptable message.
LEMMA HeldFrameVerdict ==
  ASSUME IngressInv, NEW p \in Peers, decoded[p] # NoFrame
  PROVE  /\ DispatchedFrame(decoded[p].header, decoded[p].body)
         /\ Pending(p) \in Messages
         /\ (DispatchVerdict(decoded[p].header, decoded[p].body) = "Handled")
              <=> Pending(p) \in Acceptable
<1>1. /\ Len(verdicts[p]) < Len(sent[p])
      /\ Whole(Pending(p))
      /\ Pending(p).schema = Binding
      /\ decoded[p] = [header |-> Header(Binding, HeaderRoute(Pending(p).header)),
                       body   |-> Pending(p).body]
  BY DEF IngressInv, HeldFramesAreCurrent
<1>2. Pending(p) \in Messages
  BY <1>1 DEF IngressInv, TypeOK, Pending
<1>3. /\ Pending(p).header \in Nat
      /\ Pending(p).body \in Bodies \cup {Unreadable}
      /\ HeaderRoute(Pending(p).header) \in Routes
      /\ Binding \in RawBindings
  BY <1>1, <1>2, IngressAssumption, HeaderFieldsTyped
     DEF MessageType, Bindings, RawBindings
<1>4. decoded[p].body \in Bodies
  BY DEF IngressInv, TypeOK
<1>5. /\ DispatchedFrame(decoded[p].header, decoded[p].body)
      /\ HeaderRoute(decoded[p].header) = HeaderRoute(Pending(p).header)
      /\ decoded[p].body = Pending(p).body
  BY <1>1, <1>3, <1>4, HeaderRoundTrip DEF DispatchedFrame
<1> QED
  BY <1>1, <1>2, <1>5, DispatchVerdictExact DEF Acceptable

\* The first state satisfies the invariant.
LEMMA InitInv == Init => IngressInv
<1> SUFFICES ASSUME Init PROVE IngressInv
  OBVIOUS
<1>1. TypeOK
  BY DEF Init, TypeOK
<1> QED
  BY <1>1 DEF Init, IngressInv, HeldFramesAreCurrent, VerdictsAreRight,
              ForeignArchivesUnread, RouteMismatchUnreachable

\* A step of one connection that answers its pending message: the others'
\* frames stay current, and its own is gone.
LEMMA AnsweringKeepsInv ==
  ASSUME IngressInv,
         NEW q \in Peers, NEW outcome, NEW operations,
         Len(verdicts[q]) < Len(sent[q]),
         [outcome |-> outcome, operations |-> operations] \in VerdictType,
         EntryRight(Pending(q), [outcome |-> outcome, operations |-> operations]),
         Answered(q, outcome, operations),
         UNCHANGED sent,
         decoded' = [decoded EXCEPT ![q] = NoFrame],
         handling' \in Peers \cup {Nobody}
  PROVE  IngressInv'
<1>1. /\ TypeOK
      /\ HeldFramesAreCurrent
      /\ \A p \in Peers : \A i \in DOMAIN verdicts[p] :
           i <= Len(sent[p]) /\ EntryRight(sent[p][i], verdicts[p][i])
  BY InvariantByEntries
<1>2. /\ verdicts' \in [Peers -> Seq(VerdictType)]
      /\ \A p \in Peers : p # q => verdicts'[p] = verdicts[p]
      /\ \A p \in Peers : \A i \in DOMAIN verdicts'[p] :
           i <= Len(sent'[p]) /\ EntryRight(sent'[p][i], verdicts'[p][i])
  BY <1>1, AnsweringKeepsEntries
<1>3. TypeOK'
  BY <1>1, <1>2 DEF TypeOK, VerdictType
<1>4. HeldFramesAreCurrent'
  <2> SUFFICES ASSUME NEW p \in Peers, decoded'[p] # NoFrame
               PROVE  /\ Len(verdicts'[p]) < Len(sent'[p])
                      /\ Whole(Pending(p)')
                      /\ (Pending(p)').schema = Binding
                      /\ decoded'[p] =
                           [header |-> Header(Binding, HeaderRoute((Pending(p)').header)),
                            body   |-> (Pending(p)').body]
    BY DEF HeldFramesAreCurrent
  <2>1. p # q /\ decoded'[p] = decoded[p]
    BY <1>1 DEF TypeOK
  <2>2. Pending(p)' = Pending(p) /\ verdicts'[p] = verdicts[p]
    BY <1>2, <2>1 DEF Pending
  <2> QED
    BY <1>1, <2>1, <2>2 DEF HeldFramesAreCurrent
<1>5. RouteMismatchUnreachable' /\ VerdictsAreRight'
  BY <1>2 DEF RouteMismatchUnreachable, VerdictsAreRight, EntryRight
<1>6. ForeignArchivesUnread'
  BY <1>2, <1>4 DEF ForeignArchivesUnread, HeldFramesAreCurrent, EntryRight
<1> QED
  BY <1>3, <1>4, <1>5, <1>6 DEF IngressInv

\* A message that arrives disturbs no verdict and no held frame.
LEMMA SendKeepsInv ==
  ASSUME IngressInv, NEW q \in Peers, NEW message \in Messages, Send(q, message)
  PROVE  IngressInv'
<1>1. /\ TypeOK
      /\ HeldFramesAreCurrent
      /\ \A p \in Peers : \A i \in DOMAIN verdicts[p] :
           i <= Len(sent[p]) /\ EntryRight(sent[p][i], verdicts[p][i])
  BY InvariantByEntries
<1>2. /\ sent' = [sent EXCEPT ![q] = Append(sent[q], message)]
      /\ UNCHANGED <<decoded, handling, verdicts>>
  BY DEF Send
<1>3. \A p \in Peers : /\ Len(sent[p]) <= Len(sent'[p])
                       /\ \A i \in 1 .. Len(sent[p]) : sent'[p][i] = sent[p][i]
  BY <1>1, <1>2 DEF TypeOK
<1>4. TypeOK'
  <2>1. sent' \in [Peers -> Seq(Messages)]
    BY <1>1, <1>2 DEF TypeOK
  <2> QED
    BY <1>1, <1>2, <2>1 DEF TypeOK
<1>5. ASSUME NEW p \in Peers, NEW i \in DOMAIN verdicts[p]
      PROVE  i \in 1 .. Len(sent[p]) /\ Len(sent[p]) \in Nat /\ Len(sent'[p]) \in Nat
  <2>1. sent[p] \in Seq(Messages) /\ sent'[p] \in Seq(Messages)
    BY <1>1, <1>4 DEF TypeOK
  <2>2. verdicts[p] \in Seq(VerdictType)
    BY <1>1 DEF TypeOK, VerdictType
  <2>3. i <= Len(sent[p])
    BY <1>1
  <2> QED
    BY <2>1, <2>2, <2>3
<1>6. \A p \in Peers : \A i \in DOMAIN verdicts'[p] :
        i <= Len(sent'[p]) /\ EntryRight(sent'[p][i], verdicts'[p][i])
  BY <1>1, <1>2, <1>3, <1>5
<1>7. ASSUME NEW p \in Peers, Len(verdicts[p]) < Len(sent[p])
      PROVE  Len(verdicts'[p]) < Len(sent'[p]) /\ Pending(p)' = Pending(p)
  <2>1. /\ Len(verdicts[p]) + 1 \in 1 .. Len(sent[p])
        /\ Len(verdicts[p]) \in Nat /\ Len(sent[p]) \in Nat /\ Len(sent'[p]) \in Nat
    <3>1. verdicts[p] \in Seq(VerdictType) /\ sent[p] \in Seq(Messages)
      BY <1>1 DEF TypeOK, VerdictType
    <3>2. sent'[p] \in Seq(Messages)
      BY <1>4 DEF TypeOK
    <3> QED
      BY <1>7, <3>1, <3>2
  <2> QED
    BY <1>2, <1>3, <1>7, <2>1 DEF Pending
<1>8. HeldFramesAreCurrent'
  BY <1>1, <1>2, <1>7 DEF HeldFramesAreCurrent
<1>9. RouteMismatchUnreachable' /\ VerdictsAreRight'
  BY <1>6 DEF RouteMismatchUnreachable, VerdictsAreRight, EntryRight
<1>10. ForeignArchivesUnread'
  BY <1>6, <1>8 DEF ForeignArchivesUnread, HeldFramesAreCurrent, EntryRight
<1> QED
  BY <1>4, <1>8, <1>9, <1>10 DEF IngressInv

\* A message the decoder refuses is not acceptable, and its error is that of
\* its prefix or header when its archive is foreign.
LEMMA DecodeRefusesKeepsInv ==
  ASSUME IngressInv, NEW q \in Peers, DecodeRefuses(q)
  PROVE  IngressInv'
<1>1. /\ Len(verdicts[q]) < Len(sent[q])
      /\ decoded[q] = NoFrame
      /\ TypeOK
  BY DEF DecodeRefuses, ReadyToDecode, IngressInv
<1>2. Pending(q) \in Messages
  BY <1>1 DEF TypeOK, Pending
<1>3. /\ Pending(q) \in MessageType
      /\ HeaderBinding(Pending(q).header) = Pending(q).schema
  BY <1>2, IngressAssumption
<1>4. (PrefixVerdict(Binding, Pending(q)) = "Accepted")
        <=> Whole(Pending(q)) /\ Pending(q).schema = Binding
  BY <1>3, IngressAssumption, PrefixVerdictExact DEF MessageType, Whole
<1>5. ASSUME NEW verdict, Answered(q, verdict, <<>>),
             verdict \in Refusals \ {"HeaderRouteMismatch"},
             Pending(q) \notin Acceptable,
             Pending(q).schema # Binding =>
               verdict \in {"ShortLengthPrefix", "LengthMismatch", "ShortHeaderTooShort",
                            "UnboundHeader", "ContractMismatch", "UnsupportedWireRevision"}
      PROVE  IngressInv'
  <2>1. EntryRight(Pending(q), [outcome |-> verdict, operations |-> <<>>])
    BY <1>5 DEF EntryRight, Refusals
  <2>2. [outcome |-> verdict, operations |-> <<>>] \in VerdictType
    BY <1>5 DEF VerdictType
  <2>3. /\ UNCHANGED sent
        /\ decoded' = [decoded EXCEPT ![q] = NoFrame]
        /\ handling' \in Peers \cup {Nobody}
    BY <1>1 DEF TypeOK, DecodeRefuses
  <2> QED
    BY <1>1, <1>5, <2>1, <2>2, <2>3, AnsweringKeepsInv
<1>6. CASE /\ PrefixVerdict(Binding, Pending(q)) # "Accepted"
           /\ Answered(q, PrefixVerdict(Binding, Pending(q)), <<>>)
  <2> DEFINE verdict == PrefixVerdict(Binding, Pending(q))
  <2>1. verdict \in {"ShortLengthPrefix", "LengthMismatch", "ShortHeaderTooShort",
                     "UnboundHeader", "ContractMismatch", "UnsupportedWireRevision"}
    BY <1>6 DEF PrefixVerdict, BindingVerdict
  <2>2. Pending(q) \notin Acceptable
    BY <1>4, <1>6 DEF Acceptable
  <2> HIDE DEF verdict
  <2>3. verdict \in Refusals \ {"HeaderRouteMismatch"}
    BY <2>1 DEF Refusals
  <2> QED
    BY <1>5, <1>6, <2>1, <2>2, <2>3 DEF verdict
<1>7. CASE /\ PrefixVerdict(Binding, Pending(q)) = "Accepted"
           /\ Unreadable \in ArchiveReadings(Binding, Pending(q), Bodies)
           /\ Answered(q, "ArchiveDeserialize", <<>>)
  <2>1. Pending(q).schema = Binding /\ Pending(q).body = Unreadable
    BY <1>4, <1>7 DEF ArchiveReadings
  <2>2. Pending(q) \notin Acceptable
    BY <2>1 DEF Acceptable, Unreadable
  <2>3. "ArchiveDeserialize" \in Refusals \ {"HeaderRouteMismatch"}
    BY DEF Refusals
  <2> QED
    BY <1>5, <1>7, <2>1, <2>2, <2>3
<1> QED
  BY <1>6, <1>7 DEF DecodeRefuses

\* The frame that is built again from the binding and the route is the one the
\* peer wrote, since its header held this binding.
LEMMA DecodeAcceptsKeepsInv ==
  ASSUME IngressInv, NEW q \in Peers, DecodeAccepts(q)
  PROVE  IngressInv'
<1>1. /\ Len(verdicts[q]) < Len(sent[q])
      /\ PrefixVerdict(Binding, Pending(q)) = "Accepted"
      /\ UNCHANGED <<sent, handling, verdicts>>
      /\ TypeOK
  BY DEF DecodeAccepts, ReadyToDecode, IngressInv
<1>2. Pending(q) \in Messages
  BY <1>1 DEF TypeOK, Pending
<1>3. /\ Pending(q) \in MessageType
      /\ HeaderBinding(Pending(q).header) = Pending(q).schema
  BY <1>2, IngressAssumption
<1>4. Whole(Pending(q)) /\ Pending(q).schema = Binding
  BY <1>1, <1>3, IngressAssumption, PrefixVerdictExact DEF MessageType, Whole
<1> DEFINE frame == [header |-> Header(Binding, HeaderRoute(Pending(q).header)),
                     body   |-> Pending(q).body]
<1>5. Pending(q).body \in Bodies /\ decoded' = [decoded EXCEPT ![q] = frame]
  BY <1>2, <1>4, IngressAssumption DEF DecodeAccepts, ArchiveReadings
<1>6. Header(Binding, HeaderRoute(Pending(q).header)) \in Nat
  <2>1. Binding \in RawBindings
    BY IngressAssumption DEF Bindings, RawBindings
  <2>2. HeaderRoute(Pending(q).header) \in Routes
    BY <1>3, HeaderFieldsTyped DEF MessageType
  <2> QED
    BY <2>1, <2>2, HeaderRoundTrip
<1>7. TypeOK'
  BY <1>1, <1>5, <1>6 DEF TypeOK
<1>8. \A p \in Peers : Pending(p)' = Pending(p)
  BY <1>1 DEF Pending
<1>9. HeldFramesAreCurrent'
  <2> SUFFICES ASSUME NEW p \in Peers, decoded'[p] # NoFrame
               PROVE  /\ Len(verdicts[p]) < Len(sent[p])
                      /\ Whole(Pending(p))
                      /\ Pending(p).schema = Binding
                      /\ decoded'[p] =
                           [header |-> Header(Binding, HeaderRoute(Pending(p).header)),
                            body   |-> Pending(p).body]
    BY <1>1, <1>8 DEF HeldFramesAreCurrent
  <2>1. CASE p = q
    BY <1>1, <1>4, <1>5, <2>1 DEF TypeOK
  <2>2. CASE p # q
    BY <1>1, <1>5, <2>2 DEF TypeOK, IngressInv, HeldFramesAreCurrent
  <2> QED
    BY <2>1, <2>2
<1>10. /\ VerdictsAreRight'
       /\ RouteMismatchUnreachable'
  BY <1>1 DEF IngressInv, VerdictsAreRight, RouteMismatchUnreachable
<1>11. ForeignArchivesUnread'
  BY <1>1, <1>9 DEF IngressInv, ForeignArchivesUnread, HeldFramesAreCurrent
<1> QED
  BY <1>7, <1>9, <1>10, <1>11 DEF IngressInv

\* dispatch returning an error keeps the invariant.
LEMMA DispatchRefusesKeepsInv ==
  ASSUME IngressInv, NEW q \in Peers, DispatchRefuses(q)
  PROVE  IngressInv'
<1> DEFINE verdict == DispatchVerdict(decoded[q].header, decoded[q].body)
<1>1. /\ decoded[q] # NoFrame
      /\ verdict # "Handled"
      /\ Answered(q, verdict, <<>>)
      /\ decoded' = [decoded EXCEPT ![q] = NoFrame]
      /\ UNCHANGED <<sent, handling>>
  BY DEF DispatchRefuses
<1>2. /\ Len(verdicts[q]) < Len(sent[q])
      /\ Pending(q).schema = Binding
  BY <1>1 DEF IngressInv, HeldFramesAreCurrent
<1>3. /\ Pending(q) \notin Acceptable
      /\ verdict \in Refusals \ {"HeaderRouteMismatch"}
  BY <1>1, HeldFrameVerdict, DispatchVerdictTyped
<1> HIDE DEF verdict
<1>4. EntryRight(Pending(q), [outcome |-> verdict, operations |-> <<>>])
  BY <1>1, <1>2, <1>3 DEF EntryRight
<1>5. [outcome |-> verdict, operations |-> <<>>] \in VerdictType
  BY <1>3 DEF VerdictType
<1>6. handling' \in Peers \cup {Nobody}
  BY <1>1 DEF IngressInv, TypeOK
<1> QED
  BY <1>1, <1>2, <1>4, <1>5, <1>6, AnsweringKeepsInv

\* dispatch entering the handler keeps the invariant.
LEMMA DispatchHandlesKeepsInv ==
  ASSUME IngressInv, NEW q \in Peers, DispatchHandles(q)
  PROVE  IngressInv'
<1> DEFINE operation == decoded[q].body.operations[1]
<1>1. /\ decoded[q] # NoFrame
      /\ DispatchVerdict(decoded[q].header, decoded[q].body) = "Handled"
      /\ Answered(q, "Handled", <<operation>>)
      /\ decoded' = [decoded EXCEPT ![q] = NoFrame]
      /\ handling' = q
      /\ UNCHANGED sent
  BY DEF DispatchHandles
<1>2. /\ Len(verdicts[q]) < Len(sent[q])
      /\ Pending(q).schema = Binding
      /\ decoded[q] = [header |-> Header(Binding, HeaderRoute(Pending(q).header)),
                       body   |-> Pending(q).body]
  BY <1>1 DEF IngressInv, HeldFramesAreCurrent
<1>3. Pending(q) \in Acceptable /\ Carried[Pending(q)] = operation
  BY <1>1, <1>2, HeldFrameVerdict DEF Carried
<1>4. operation \in Operations
  <2>1. /\ decoded[q].body.operations \in Seq(Operations)
        /\ Len(decoded[q].body.operations) = 1
    BY <1>1, HeldFrameVerdict, DispatchVerdictExact, IngressAssumption
       DEF DispatchedFrame, BodyType
  <2> QED
    BY <2>1
<1> HIDE DEF operation
<1>5. EntryRight(Pending(q), [outcome |-> "Handled", operations |-> <<operation>>])
  BY <1>2, <1>3 DEF EntryRight
<1>6. [outcome |-> "Handled", operations |-> <<operation>>] \in VerdictType
  BY <1>4 DEF VerdictType
<1> QED
  BY <1>1, <1>2, <1>5, <1>6, AnsweringKeepsInv

\* Steps that leave the frames and the logs alone.
LEMMA IdleKeepsInv ==
  ASSUME IngressInv, UNCHANGED <<sent, decoded, verdicts>>,
         handling' \in Peers \cup {Nobody}
  PROVE  IngressInv'
  BY DEF IngressInv, TypeOK, HeldFramesAreCurrent, VerdictsAreRight,
         ForeignArchivesUnread, RouteMismatchUnreachable, Pending

\* The invariant holds of every reachable state of the ingress.
THEOREM IngressInvariant == Spec => []IngressInv
<1>1. IngressInv /\ [Next]_vars => IngressInv'
  <2> SUFFICES ASSUME IngressInv, [Next]_vars PROVE IngressInv'
    OBVIOUS
  <2>1. ASSUME NEW q \in Peers, NEW message \in Messages, Send(q, message)
        PROVE  IngressInv'
    BY <2>1, SendKeepsInv
  <2>2. ASSUME NEW q \in Peers, Decode(q) PROVE IngressInv'
    BY <2>2, DecodeRefusesKeepsInv, DecodeAcceptsKeepsInv DEF Decode
  <2>3. ASSUME NEW q \in Peers, Dispatch(q) PROVE IngressInv'
    BY <2>3, DispatchRefusesKeepsInv, DispatchHandlesKeepsInv DEF Dispatch
  <2>4. CASE HandlerReturns
    BY <2>4, IdleKeepsInv DEF HandlerReturns
  <2>5. CASE UNCHANGED vars
    BY <2>5, IdleKeepsInv DEF vars, IngressInv, TypeOK
  <2> QED
    BY <2>1, <2>2, <2>3, <2>4, <2>5 DEF Next
<1> QED
  BY InitInv, <1>1, PTL DEF Spec

\* The variables keep their types.
THEOREM TypeCorrect == Spec => []TypeOK
  BY IngressInvariant, PTL DEF IngressInv

\* The handler receives exactly the acceptable messages, each as the operation
\* its peer put into it.
THEOREM OnlyAcceptableHandled == Spec => []VerdictsAreRight
  BY IngressInvariant, PTL DEF IngressInv

\* No archive of another contract or revision is read.
THEOREM ForeignNeverRead == Spec => []ForeignArchivesUnread
  BY IngressInvariant, PTL DEF IngressInv

\* The comparison of routes after the comparison of kinds never fails.
THEOREM RouteCheckRedundant == Spec => []RouteMismatchUnreachable
  BY IngressInvariant, PTL DEF IngressInv

-----------------------------------------------------------------------------
(***************************************************************************)
(* Verdicts depend on the message alone.                                   *)
(***************************************************************************)

\* The checks before the archive, of a message that some producer wrote.
LEMMA AcceptedPrefix ==
  ASSUME NEW message \in Messages
  PROVE  PrefixVerdict(Binding, message) = "Accepted"
           <=> Whole(message) /\ message.schema = Binding
<1>1. message \in MessageType /\ HeaderBinding(message.header) = message.schema
  BY IngressAssumption
<1> QED
  BY <1>1, IngressAssumption, PrefixVerdictExact DEF MessageType, Whole

\* A step that answers the pending message with the verdict it deserves keeps
\* every verdict deserved.
LEMMA AnsweringKeepsDetermined ==
  ASSUME TypeOK, VerdictsDetermined, NEW q \in Peers, NEW operations,
         Answered(q, MessageVerdict(Pending(q)), operations), UNCHANGED sent
  PROVE  VerdictsDetermined'
<1> DEFINE entry == [outcome |-> MessageVerdict(Pending(q)), operations |-> operations]
<1>1. /\ verdicts \in [Peers -> Seq(VerdictType)]
      /\ verdicts' = [verdicts EXCEPT ![q] = Append(verdicts[q], entry)]
  BY DEF TypeOK, VerdictType, Answered
<1>2. verdicts[q] \in Seq(VerdictType)
  BY <1>1
<1>3. /\ verdicts'[q] = Append(verdicts[q], entry)
      /\ \A p \in Peers \ {q} : verdicts'[p] = verdicts[p]
  BY <1>1
<1>4. entry.outcome = MessageVerdict(sent[q][Len(verdicts[q]) + 1])
  BY DEF Pending
<1> HIDE DEF entry
<1> SUFFICES ASSUME NEW p \in Peers, NEW i \in DOMAIN verdicts'[p]
             PROVE  verdicts'[p][i].outcome = MessageVerdict(sent[p][i])
  BY DEF VerdictsDetermined
<1>5. CASE p # q
  BY <1>3, <1>5 DEF VerdictsDetermined
<1>6. CASE p = q
  <2>1. i \in 1 .. Len(verdicts[q]) + 1
    BY <1>2, <1>3, <1>6
  <2>2. CASE i = Len(verdicts[q]) + 1
    BY <1>2, <1>3, <1>4, <1>6, <2>2
  <2>3. CASE i \in 1 .. Len(verdicts[q])
    <3>1. i \in DOMAIN verdicts[q] /\ verdicts'[q][i] = verdicts[q][i]
      BY <1>2, <1>3, <2>3
    <3> QED
      BY <1>6, <3>1 DEF VerdictsDetermined
  <2> QED
    BY <1>2, <2>1, <2>2, <2>3
<1> QED
  BY <1>5, <1>6

\* What dispatch looks at is the pending message of its connection.
LEMMA HeldFrameDeserves ==
  ASSUME IngressInv, NEW q \in Peers, decoded[q] # NoFrame
  PROVE  DispatchVerdict(decoded[q].header, decoded[q].body) = MessageVerdict(Pending(q))
<1>1. /\ Pending(q) \in Messages
      /\ decoded[q].body \in Bodies
  BY HeldFrameVerdict DEF DispatchedFrame
<1>2. /\ Whole(Pending(q)) /\ Pending(q).schema = Binding
      /\ decoded[q] = [header |-> Header(Binding, HeaderRoute(Pending(q).header)),
                       body   |-> Pending(q).body]
  BY DEF IngressInv, HeldFramesAreCurrent
<1>3. PrefixVerdict(Binding, Pending(q)) = "Accepted"
  BY <1>1, <1>2, AcceptedPrefix
<1>4. decoded[q].body # Unreadable
  BY <1>1, IngressAssumption DEF BodyType, BodyKinds, Unreadable
<1> QED
  BY <1>2, <1>3, <1>4 DEF MessageVerdict

\* The verdict of a message is a function of the message, for every
\* interleaving of the connections and the handler.
THEOREM VerdictsAreDetermined == Spec => []VerdictsDetermined
<1>1. Init => VerdictsDetermined
  BY DEF Init, VerdictsDetermined
<1>2. IngressInv /\ VerdictsDetermined /\ [Next]_vars => VerdictsDetermined'
  <2> SUFFICES ASSUME IngressInv, VerdictsDetermined, [Next]_vars PROVE VerdictsDetermined'
    OBVIOUS
  <2>1. TypeOK
    BY DEF IngressInv
  <2>2. ASSUME NEW q \in Peers, NEW message \in Messages, Send(q, message)
        PROVE  VerdictsDetermined'
    <3>1. /\ sent \in [Peers -> Seq(Messages)]
          /\ sent' = [sent EXCEPT ![q] = Append(sent[q], message)]
          /\ verdicts' = verdicts
      BY <2>1, <2>2 DEF Send, TypeOK
    <3>2. ASSUME NEW p \in Peers, NEW i \in DOMAIN verdicts[p] PROVE sent'[p][i] = sent[p][i]
      <4>1. verdicts[p] \in Seq(VerdictType) /\ sent[p] \in Seq(Messages)
        BY <2>1 DEF TypeOK, VerdictType
      <4>2. i <= Len(sent[p])
        BY DEF IngressInv, VerdictsAreRight
      <4>3. i \in 1 .. Len(sent[p])
        BY <4>1, <4>2
      <4> QED
        BY <3>1, <4>1, <4>3
    <3>3. ASSUME NEW p \in Peers, NEW i \in DOMAIN verdicts[p]
          PROVE  verdicts[p][i].outcome = MessageVerdict(sent'[p][i])
      <4>1. verdicts[p][i].outcome = MessageVerdict(sent[p][i])
        BY DEF VerdictsDetermined
      <4> QED
        BY <3>2, <4>1
    <3>4. VerdictsDetermined'
            <=> \A p \in Peers : \A i \in DOMAIN verdicts'[p] :
                  verdicts'[p][i].outcome = MessageVerdict(sent'[p][i])
      BY DEF VerdictsDetermined
    <3> QED
      BY <3>1, <3>3, <3>4
  <2>3. ASSUME NEW q \in Peers, DecodeRefuses(q) PROVE VerdictsDetermined'
    <3>1. Len(verdicts[q]) < Len(sent[q]) /\ UNCHANGED sent
      BY <2>3 DEF DecodeRefuses, ReadyToDecode
    <3>2. Pending(q) \in Messages
      BY <2>1, <3>1 DEF TypeOK, Pending
    <3>3. Answered(q, MessageVerdict(Pending(q)), <<>>)
      <4>1. CASE /\ PrefixVerdict(Binding, Pending(q)) # "Accepted"
                 /\ Answered(q, PrefixVerdict(Binding, Pending(q)), <<>>)
        BY <4>1 DEF MessageVerdict
      <4>2. CASE /\ PrefixVerdict(Binding, Pending(q)) = "Accepted"
                 /\ Unreadable \in ArchiveReadings(Binding, Pending(q), Bodies)
                 /\ Answered(q, "ArchiveDeserialize", <<>>)
        <5>1. Pending(q).body = Unreadable
          BY <3>2, <4>2, AcceptedPrefix DEF ArchiveReadings
        <5> QED
          BY <4>2, <5>1 DEF MessageVerdict
      <4> QED
        BY <2>3, <4>1, <4>2 DEF DecodeRefuses
    <3> QED
      BY <2>1, <3>1, <3>3, AnsweringKeepsDetermined
  <2>4. ASSUME NEW q \in Peers, Dispatch(q) PROVE VerdictsDetermined'
    <3>1. decoded[q] # NoFrame /\ UNCHANGED sent
      BY <2>4 DEF Dispatch, DispatchRefuses, DispatchHandles
    <3>2. \E operations : Answered(q, MessageVerdict(Pending(q)), operations)
      BY <2>4, <3>1, HeldFrameDeserves DEF Dispatch, DispatchRefuses, DispatchHandles
    <3> QED
      BY <2>1, <3>1, <3>2, AnsweringKeepsDetermined
  <2>5. CASE UNCHANGED <<sent, verdicts>>
    BY <2>5 DEF VerdictsDetermined
  <2> QED
    BY <2>2, <2>3, <2>4, <2>5 DEF Next, Decode, DecodeAccepts, HandlerReturns, vars
<1> QED
  BY <1>1, <1>2, IngressInvariant, PTL DEF Spec

\* Two connections that send the same bytes get the same answer, the operation
\* the handler saw included.
THEOREM SameVerdict == Spec => []SameMessageSameVerdict
<1>1. IngressInv /\ VerdictsDetermined => SameMessageSameVerdict
  <2> SUFFICES ASSUME IngressInv, VerdictsDetermined,
                      NEW p \in Peers, NEW q \in Peers,
                      NEW i \in DOMAIN verdicts[p], NEW j \in DOMAIN verdicts[q],
                      sent[p][i] = sent[q][j]
               PROVE  verdicts[p][i] = verdicts[q][j]
    BY DEF SameMessageSameVerdict
  <2>1. /\ EntryRight(sent[p][i], verdicts[p][i])
        /\ EntryRight(sent[q][j], verdicts[q][j])
    BY InvariantByEntries
  <2>2. verdicts[p][i].outcome = verdicts[q][j].outcome
    BY DEF VerdictsDetermined
  <2>3. verdicts[p][i] \in VerdictType /\ verdicts[q][j] \in VerdictType
    <3>1. verdicts[p] \in Seq(VerdictType) /\ verdicts[q] \in Seq(VerdictType)
      BY DEF IngressInv, TypeOK, VerdictType
    <3> QED
      BY <3>1
  <2>4. verdicts[p][i].operations = verdicts[q][j].operations
    BY <2>1 DEF EntryRight
  <2> QED
    BY <2>2, <2>3, <2>4 DEF VerdictType
<1> QED
  BY <1>1, IngressInvariant, VerdictsAreDetermined, PTL

-----------------------------------------------------------------------------
(***************************************************************************)
(* The ingress implements ValidatedIngress.                                *)
(***************************************************************************)

\* A step that answers is the abstract Handle or Refuse, Send is Send, and the
\* decoder's success and the handler's return are stutters.
THEOREM ImplementsValidatedIngress == Spec => AbstractSpec
<1>1. Init => Abstract!Init
  BY DEF Init, Abstract!Init
<1>2. IngressInv /\ IngressInv' /\ [Next]_vars => [Abstract!Next]_(Abstract!vars)
  <2> SUFFICES ASSUME IngressInv, IngressInv', [Next]_vars
               PROVE  [Abstract!Next]_(Abstract!vars)
    OBVIOUS
  <2>1. ASSUME NEW q \in Peers, NEW message \in Messages, Send(q, message)
        PROVE  Abstract!Next
    BY <2>1 DEF Send, Abstract!Next, Abstract!Send
  <2>2. ASSUME NEW q \in Peers, NEW outcome, NEW operations,
               Len(verdicts[q]) < Len(sent[q]), UNCHANGED sent,
               Answered(q, outcome, operations)
        PROVE  Abstract!Next
    <3> DEFINE entry == [outcome |-> outcome, operations |-> operations]
               i == Len(verdicts[q]) + 1
    <3>1. /\ verdicts \in [Peers -> Seq(VerdictType)]
          /\ verdicts' \in [Peers -> Seq(VerdictType)]
          /\ verdicts' = [verdicts EXCEPT ![q] = Append(verdicts[q], entry)]
      BY <2>2 DEF IngressInv, TypeOK, VerdictType, Answered
    <3>2. /\ verdicts'[q] = Append(verdicts[q], entry)
          /\ i \in DOMAIN verdicts'[q]
          /\ verdicts'[q][i] = entry
      BY <3>1
    <3>3. entry \in VerdictType
      BY <3>1, <3>2
    <3>4. IF Pending(q) \in Acceptable
          THEN entry = [outcome |-> "Handled", operations |-> <<Carried[Pending(q)]>>]
          ELSE entry.outcome # "Handled" /\ entry.operations = <<>>
      <4>1. VerdictsAreRight'
        BY DEF IngressInv
      <4>2. IF sent'[q][i] \in Acceptable
            THEN entry = [outcome |-> "Handled", operations |-> <<Carried[sent'[q][i]]>>]
            ELSE entry.outcome # "Handled" /\ entry.operations = <<>>
        BY <3>2, <4>1 DEF VerdictsAreRight
      <4>3. sent'[q][i] = Pending(q)
        BY <2>2 DEF Pending
      <4> QED
        BY <4>2, <4>3
    <3>5. Abstract!Pending(q) = Pending(q)
      BY DEF Abstract!Pending, Pending
    <3>6. CASE Pending(q) \in Acceptable
      <4>1. verdicts' = [verdicts EXCEPT ![q] = Append(verdicts[q],
              [outcome |-> "Handled", operations |-> <<Carried[Pending(q)]>>])]
        BY <3>1, <3>4, <3>6
      <4>2. Abstract!Handle(q)
        BY <2>2, <3>5, <3>6, <4>1 DEF Abstract!Handle
      <4> QED
        BY <4>2 DEF Abstract!Next
    <3>7. CASE Pending(q) \notin Acceptable
      <4>1. outcome \in Refusals /\ operations = <<>>
        BY <3>3, <3>4, <3>7 DEF VerdictType
      <4>2. verdicts' = [verdicts EXCEPT ![q] = Append(verdicts[q],
              [outcome |-> outcome, operations |-> <<>>])]
        BY <3>1, <4>1
      <4>3. Abstract!Refuse(q)
        BY <2>2, <3>5, <3>7, <4>1, <4>2 DEF Abstract!Refuse
      <4> QED
        BY <4>3 DEF Abstract!Next
    <3> QED
      BY <3>6, <3>7
  <2>3. ASSUME NEW q \in Peers, Decode(q)
        PROVE  Abstract!Next \/ UNCHANGED Abstract!vars
    <3>1. CASE DecodeRefuses(q)
      BY <2>2, <3>1 DEF DecodeRefuses, ReadyToDecode
    <3>2. CASE DecodeAccepts(q)
      BY <3>2 DEF DecodeAccepts, Abstract!vars
    <3> QED
      BY <2>3, <3>1, <3>2 DEF Decode
  <2>4. ASSUME NEW q \in Peers, Dispatch(q) PROVE Abstract!Next
    <3>1. Len(verdicts[q]) < Len(sent[q])
      BY <2>4 DEF Dispatch, DispatchRefuses, DispatchHandles, IngressInv, HeldFramesAreCurrent
    <3> QED
      BY <2>2, <2>4, <3>1 DEF Dispatch, DispatchRefuses, DispatchHandles
  <2>5. CASE HandlerReturns \/ UNCHANGED vars
    BY <2>5 DEF HandlerReturns, vars, Abstract!vars
  <2> QED
    BY <2>1, <2>3, <2>4, <2>5 DEF Next
<1> QED
  BY <1>1, <1>2, IngressInvariant, PTL DEF Spec, AbstractSpec, Abstract!Spec

=============================================================================

-------------------------- MODULE RequestText_proofs --------------------------
(***************************************************************************)
(* What RequestText promises, for every pair of contracts, every set of    *)
(* typed texts and requests of any length: the codec reads back what it    *)
(* wrote, and the head parser agrees with it on every text it accepts.     *)
(***************************************************************************)
EXTENDS RequestText, SequenceTheorems, TLAPS

-----------------------------------------------------------------------------
(***************************************************************************)
(* NonEmpty and the vector it is made from                                 *)
(***************************************************************************)

LEMMA ItemsOfVector ==
  ASSUME NEW S, NEW values \in Seq(S), values # <<>>
  PROVE  /\ TryFromVec(values).head \in S
         /\ TryFromVec(values).tail \in Seq(S)
         /\ TryFromVec(values).head = values[1]
         /\ Items(TryFromVec(values)) = values
<1> DEFINE n == TryFromVec(values)
<1>1. n.head \in S /\ n.tail \in Seq(S) /\ n.head = values[1]
  BY HeadTailProperties DEF TryFromVec
<1>2. Len(values) \in Nat \ {0}
  BY EmptySeq
<1>3. /\ Len(n.tail) = Len(values) - 1
      /\ \A i \in 1 .. Len(n.tail) : n.tail[i] = values[i + 1]
  BY HeadTailProperties DEF TryFromVec
<1>4. <<n.head>> \in Seq(S) /\ Len(<<n.head>>) = 1 /\ <<n.head>>[1] = n.head
  BY <1>1
<1>5. /\ Items(n) \in Seq(S)
      /\ Len(Items(n)) = Len(values)
      /\ \A i \in 1 .. Len(values) : Items(n)[i] = values[i]
  BY <1>1, <1>2, <1>3, <1>4, ConcatProperties DEF Items
<1>6. Items(n) = values
  BY <1>5, SeqEqual
<1> QED
  BY <1>1, <1>6

LEMMA VectorTyped ==
  ASSUME NEW S, NEW values \in Seq(S), values # <<>>
  PROVE  TryFromVec(values) \in [head : S, tail : Seq(S)]
<1>1. Head(values) \in S /\ Tail(values) \in Seq(S)
  BY HeadTailProperties
<1> QED
  BY <1>1 DEF TryFromVec

LEMMA VectorOfItems ==
  ASSUME NEW S, NEW n, n.head \in S, n.tail \in Seq(S)
  PROVE  /\ Items(n) \in Seq(S)
         /\ Items(n) # <<>>
         /\ Len(Items(n)) = Len(n.tail) + 1
         /\ Items(n)[1] = n.head
<1>1. <<n.head>> \in Seq(S) /\ Len(<<n.head>>) = 1 /\ <<n.head>>[1] = n.head
  OBVIOUS
<1>2. Len(n.tail) \in Nat
  OBVIOUS
<1>3. /\ Items(n) \in Seq(S)
      /\ Len(Items(n)) = 1 + Len(n.tail)
      /\ \A i \in 1 .. 1 + Len(n.tail) :
           Items(n)[i] = IF i <= 1 THEN <<n.head>>[i] ELSE n.tail[i - 1]
  BY <1>1, ConcatProperties DEF Items
<1> QED
  BY <1>1, <1>2, <1>3

\* A request is made of its items: nothing else is in it.
LEMMA VectorIsItems ==
  ASSUME NEW S, NEW n \in [head : S, tail : Seq(S)]
  PROVE  TryFromVec(Items(n)) = n
<1>1. n.head \in S /\ n.tail \in Seq(S) /\ n = [head |-> n.head, tail |-> n.tail]
  OBVIOUS
<1>2. Items(n) \in Seq(S) /\ Items(n) # <<>> /\ Len(Items(n)) = Len(n.tail) + 1 /\ Items(n)[1] = n.head
  BY <1>1, VectorOfItems
<1>3. <<n.head>> \in Seq(S) /\ Len(<<n.head>>) = 1
  BY <1>1
<1>4. Len(n.tail) \in Nat
  BY <1>1
<1>5. \A i \in 1 .. Len(n.tail) : Items(n)[i + 1] = n.tail[i]
  <2>1. \A i \in 1 .. 1 + Len(n.tail) :
          Items(n)[i] = IF i <= 1 THEN <<n.head>>[i] ELSE n.tail[i - 1]
    BY <1>1, <1>3, ConcatProperties DEF Items
  <2> QED
    BY <1>4, <2>1
<1>6. /\ Tail(Items(n)) \in Seq(S) /\ Len(Tail(Items(n))) = Len(n.tail)
      /\ \A i \in 1 .. Len(n.tail) : Tail(Items(n))[i] = n.tail[i]
  BY <1>2, <1>4, <1>5, HeadTailProperties
<1>7. Tail(Items(n)) = n.tail
  BY <1>1, <1>6, SeqEqual
<1>8. Head(Items(n)) = n.head
  BY <1>2
<1> QED
  BY <1>1, <1>7, <1>8 DEF TryFromVec

\* What is pushed onto a request comes last.
LEMMA ItemsOfPushed ==
  ASSUME NEW S, NEW head \in S, NEW tail \in Seq(S), NEW value \in S
  PROVE  Items([head |-> head, tail |-> Append(tail, value)])
           = Append(Items([head |-> head, tail |-> tail]), value)
<1> DEFINE n == [head |-> head, tail |-> tail]
           pushed == [head |-> head, tail |-> Append(tail, value)]
<1>1. /\ n.head \in S /\ n.tail \in Seq(S) /\ n.head = head /\ n.tail = tail
      /\ pushed.head = head /\ pushed.tail = Append(tail, value)
  OBVIOUS
<1>2. Append(tail, value) \in Seq(S) /\ Append(tail, value) = tail \o <<value>>
  BY AppendProperties, AppendIsConcat
<1>3. <<head>> \in Seq(S) /\ <<value>> \in Seq(S)
  OBVIOUS
<1>4. Items(pushed) = <<head>> \o (tail \o <<value>>)
  BY <1>1, <1>2 DEF Items
<1>5. Items(n) = <<head>> \o tail /\ Items(n) \in Seq(S)
  BY <1>1, <1>3, ConcatProperties DEF Items
<1>6. Append(Items(n), value) = (<<head>> \o tail) \o <<value>>
  BY <1>5, AppendIsConcat
<1>7. (<<head>> \o tail) \o <<value>> = <<head>> \o (tail \o <<value>>)
  BY <1>3, ConcatAssociative
<1> QED
  BY <1>4, <1>6, <1>7

-----------------------------------------------------------------------------
(***************************************************************************)
(* The codec                                                               *)
(***************************************************************************)

\* A variant is read back as itself, and its text is never taken for a list.
LEMMA VariantReadsBack ==
  ASSUME NEW enum, NEW v \in VariantsOf(enum)
  PROVE  /\ DecodesVariant(enum, EncodeVariant(v))
         /\ DecodedVariant(EncodeVariant(v)) = v
         /\ ~ Many(EncodeVariant(v))
<1>0. PICK name \in DOMAIN enum : \E payload \in enum[name] : v = [name |-> name, payload |-> payload]
  BY DEF VariantsOf, Variant
<1>1. PICK payload \in enum[name] : v = [name |-> name, payload |-> payload]
  BY <1>0
<1>2. CASE v.payload = Unit
  <2>1. EncodeVariant(v) = [delimiter |-> "none", text |-> name, objects |-> <<>>]
    BY <1>1, <1>2 DEF EncodeVariant, Atom, Block
  <2> QED
    BY <1>1, <1>2, <2>1 DEF DecodesVariant, DecodedVariant, Many, Variant
<1>3. CASE v.payload # Unit
  <2> DEFINE atom == [delimiter |-> "none", text |-> name, objects |-> <<>>]
  <2>1. EncodeVariant(v)
          = [delimiter |-> "Parenthesis", text |-> "", objects |-> <<atom, payload>>]
    BY <1>1, <1>3 DEF EncodeVariant, Atom, Wrap, Block
  <2>2. /\ Len(<<atom, payload>>) = 2
        /\ <<atom, payload>>[1] = atom
        /\ <<atom, payload>>[2] = payload
        /\ atom.delimiter = "none" /\ atom.text = name
    OBVIOUS
  <2> DEFINE fields == <<atom, payload>>
             b == EncodeVariant(v)
  <2>3. fields[1].delimiter = "none" /\ fields[1].text = name /\ fields[2] = payload /\ Len(fields) = 2
    BY <2>2
  <2>4. b = [delimiter |-> "Parenthesis", text |-> "", objects |-> fields]
    BY <2>1
  <2> HIDE DEF atom, fields, b
  <2>5. /\ b.delimiter = "Parenthesis"
        /\ Len(b.objects) = 2
        /\ b.objects[1].delimiter = "none" /\ b.objects[1].text = name
        /\ b.objects[2] = payload
    BY <2>3, <2>4
  <2>6. payload # Unit /\ v = [name |-> name, payload |-> payload]
    BY <1>1, <1>3
  <2>7. DecodesVariant(enum, b)
    BY <1>1, <2>5, <2>6 DEF DecodesVariant
  <2>8. DecodedVariant(b) = v
    BY <2>5, <2>6 DEF DecodedVariant, Variant
  <2>9. ~ Many(b)
    BY <2>5 DEF Many
  <2> QED
    BY <2>7, <2>8, <2>9 DEF b
<1> QED
  BY <1>2, <1>3

\* What is decoded are variants of the enum.
LEMMA DecodedIsVariant ==
  ASSUME NEW enum, NEW block, DecodesVariant(enum, block)
  PROVE  DecodedVariant(block) \in VariantsOf(enum) /\ ~ Many(block)
  BY DEF DecodesVariant, DecodedVariant, VariantsOf, Many

\* The vector the decoder collects.
DecodedVector(block) ==
  IF Many(block) THEN [i \in 1 .. Len(block.objects) |-> DecodedVariant(block.objects[i])]
  ELSE <<DecodedVariant(block)>>

LEMMA DecodedVectorTyped ==
  ASSUME NEW enum, NEW block, DecodesItems(enum, block)
  PROVE  /\ DecodedVector(block) \in Seq(VariantsOf(enum))
         /\ DecodedVector(block) # <<>>
         /\ DecodedItems(block) = TryFromVec(DecodedVector(block))
<1>1. DecodedItems(block) = TryFromVec(DecodedVector(block))
  BY DEF DecodedItems, DecodedVector
<1>2. CASE Many(block)
  <2> DEFINE n == Len(block.objects)
  <2>1. n \in Nat \ {0} /\ \A i \in 1 .. n : DecodesVariant(enum, block.objects[i])
    BY <1>2 DEF DecodesItems
  <2> HIDE DEF n
  <2>2. \A i \in 1 .. n : DecodedVariant(block.objects[i]) \in VariantsOf(enum)
    BY <2>1, DecodedIsVariant
  <2>3. [i \in 1 .. n |-> DecodedVariant(block.objects[i])] \in [1 .. n -> VariantsOf(enum)]
    BY <2>2
  <2>4. DecodedVector(block) \in [1 .. n -> VariantsOf(enum)]
    BY <1>2, <2>3 DEF DecodedVector, n
  <2>5. DecodedVector(block) \in Seq(VariantsOf(enum)) /\ Len(DecodedVector(block)) = n
    BY <2>1, <2>4
  <2> QED
    BY <1>1, <2>1, <2>5
<1>3. CASE ~ Many(block)
  <2>1. DecodedVariant(block) \in VariantsOf(enum)
    BY <1>3, DecodedIsVariant DEF DecodesItems
  <2>2. DecodedVector(block) = <<DecodedVariant(block)>>
    BY <1>3 DEF DecodedVector
  <2> QED
    BY <1>1, <2>1, <2>2
<1> QED
  BY <1>2, <1>3

LEMMA DecodedItemsTyped ==
  ASSUME NEW enum, NEW block, DecodesItems(enum, block)
  PROVE  DecodedItems(block) \in [head : VariantsOf(enum), tail : Seq(VariantsOf(enum))]
<1>1. /\ DecodedVector(block) \in Seq(VariantsOf(enum)) /\ DecodedVector(block) # <<>>
      /\ DecodedItems(block) = TryFromVec(DecodedVector(block))
  BY DecodedVectorTyped
<1>2. /\ TryFromVec(DecodedVector(block)).head \in VariantsOf(enum)
      /\ TryFromVec(DecodedVector(block)).tail \in Seq(VariantsOf(enum))
  BY <1>1, ItemsOfVector
<1> QED
  BY <1>1, <1>2 DEF TryFromVec

\* A request, or the payloads of a reply, of any length survive their text: one
\* value without brackets, several with them (Request::to_dotos, encode_reply).
THEOREM ItemsReadBack ==
  ASSUME NEW enum, NEW values \in Seq(VariantsOf(enum)), values # <<>>
  PROVE  /\ DecodesItems(enum, EncodeItems(TryFromVec(values)))
         /\ DecodedItems(EncodeItems(TryFromVec(values))) = TryFromVec(values)
<1> DEFINE n == TryFromVec(values)
           block == EncodeItems(n)
<1>1. /\ n.head \in VariantsOf(enum) /\ n.tail \in Seq(VariantsOf(enum))
      /\ Items(n) = values /\ n.head = values[1]
  BY ItemsOfVector
<1>2. Len(values) \in Nat \ {0} /\ \A i \in 1 .. Len(values) : values[i] \in VariantsOf(enum)
  BY EmptySeq
<1>3. CASE n.tail = <<>>
  <2>1. block = EncodeVariant(n.head)
    BY <1>3 DEF EncodeItems
  <2>2. DecodesVariant(enum, block) /\ DecodedVariant(block) = n.head /\ ~ Many(block)
    BY <1>1, <2>1, VariantReadsBack
  <2>3. values = <<n.head>>
    BY <1>1, <1>3 DEF Items
  <2> QED
    BY <2>2, <2>3 DEF DecodesItems, DecodedItems
<1>4. CASE n.tail # <<>>
  <2> DEFINE texts == [i \in 1 .. Len(values) |-> EncodeVariant(values[i])]
  <2>1. block = [delimiter |-> "SquareBracket", text |-> "", objects |-> texts]
    BY <1>1, <1>4 DEF EncodeItems, Wrap, Block
  <2>2. Len(texts) = Len(values) /\ \A i \in 1 .. Len(values) : texts[i] = EncodeVariant(values[i])
    BY <1>2
  <2> HIDE DEF texts
  <2> HIDE DEF block
  <2>3. Many(block) /\ block.objects = texts
    BY <2>1 DEF Many
  <2>4. \A i \in 1 .. Len(values) :
          /\ DecodesVariant(enum, block.objects[i])
          /\ DecodedVariant(block.objects[i]) = values[i]
    BY <1>2, <2>2, <2>3, VariantReadsBack
  <2>5. DecodesItems(enum, block)
    BY <1>2, <2>2, <2>3, <2>4 DEF DecodesItems
  <2>6. DecodedVector(block) \in Seq(VariantsOf(enum)) /\ DecodedItems(block) = TryFromVec(DecodedVector(block))
    BY <2>5, DecodedVectorTyped
  <2>7. DecodedVector(block) = [i \in 1 .. Len(values) |-> DecodedVariant(block.objects[i])]
    BY <2>2, <2>3 DEF DecodedVector
  <2>8. Len(DecodedVector(block)) = Len(values) /\ \A i \in 1 .. Len(values) : DecodedVector(block)[i] = values[i]
    BY <1>2, <2>4, <2>7
  <2>9. DecodedVector(block) = values
    BY <2>6, <2>8, SeqEqual
  <2> QED
    BY <2>5, <2>6, <2>9 DEF block
<1> QED
  BY <1>3, <1>4

-----------------------------------------------------------------------------
(***************************************************************************)
(* The head parser and the codec                                           *)
(***************************************************************************)

LEMMA NoUnitOperations ==
  \A c \in Contracts : \A name \in HeadsOf(c) : Unit \notin OperationsOf(c)[name]
<1> SUFFICES ASSUME NEW c \in Contracts, NEW name \in HeadsOf(c)
             PROVE  Unit \notin OperationsOf(c)[name]
  OBVIOUS
<1>1. CASE name \in DOMAIN Declared[c]
  <2>1. OperationsOf(c)[name] = Declared[c][name]
    BY <1>1 DEF OperationsOf, Expanded
  <2> QED
    BY <1>1, <2>1, TextAssumption
<1>2. CASE name \notin DOMAIN Declared[c]
  <2>1. c \in Observable
    BY <1>2 DEF HeadsOf, OperationsOf
  <2>2. OperationsOf(c)[name] \in {ObserverFilters, {TokenBlock(t) : t \in Tokens}}
    <3>1. name \in DOMAIN ObserverOperations /\ OperationsOf(c)[name] = ObserverOperations[name]
      BY <1>2, <2>1 DEF HeadsOf, OperationsOf, Expanded
    <3> QED
      BY <3>1 DEF ObserverOperations
  <2>3. \A b \in ObserverFilters : b.delimiter = "none"
    BY DEF ObserverFilters, Atom, Block
  <2>4. \A t \in Tokens : TokenBlock(t).delimiter = "Parenthesis"
    BY DEF TokenBlock, Wrap, Block
  <2>5. Unit.delimiter = "absent"
    BY DEF Unit, Block
  <2> QED
    BY <2>2, <2>3, <2>4, <2>5
<1> QED
  BY <1>1, <1>2

\* On every text the codec of a contract accepts the head parser finds a head,
\* that of the first operation, and it is one of the contract's.
THEOREM ParsersAgree ==
  ASSUME NEW c \in Contracts, NEW text, Decodes(c, text)
  PROVE  /\ TextHasHead(text)
         /\ TextHead(text) = DecodedItems(text[1]).head.name
         /\ TextHead(text) \in HeadsOf(c)
<1> DEFINE block == text[1]
           enum == OperationsOf(c)
           first == IF Many(block) THEN block.objects[1] ELSE block
<1>1. Len(text) = 1 /\ DecodesItems(enum, block)
  BY DEF Decodes
<1>2. DecodesVariant(enum, first)
  BY <1>1 DEF DecodesItems
<1>3. ~ Many(first) /\ first.delimiter = "Parenthesis"
  BY <1>2, NoUnitOperations DEF DecodesVariant, Many, HeadsOf
<1>4. Innermost(block) = first
  BY <1>1, <1>3 DEF Innermost, FirstObject, DecodesItems
<1>5. DecodedItems(block).head = DecodedVariant(first)
  <2>1. DecodedVector(block) # <<>> /\ DecodedVector(block) \in Seq(VariantsOf(enum))
        /\ DecodedItems(block) = TryFromVec(DecodedVector(block))
    BY <1>1, DecodedVectorTyped
  <2>2. DecodedItems(block).head = DecodedVector(block)[1]
    BY <2>1, ItemsOfVector
  <2>3. DecodedVector(block)[1] = DecodedVariant(first)
    <3>1. CASE Many(block)
      <4>1. 1 \in 1 .. Len(block.objects)
        BY <1>1, <3>1 DEF DecodesItems
      <4> QED
        BY <3>1, <4>1 DEF DecodedVector
    <3>2. CASE ~ Many(block)
      BY <3>2 DEF DecodedVector
    <3> QED
      BY <3>1, <3>2
  <2> QED
    BY <2>2, <2>3
<1> HIDE DEF first
<1>6. /\ Len(first.objects) = 2 /\ first.objects[1].delimiter = "none"
      /\ first.objects[1].text \in HeadsOf(c)
      /\ DecodedVariant(first).name = first.objects[1].text
  BY <1>2, <1>3 DEF DecodesVariant, DecodedVariant, HeadsOf, Variant
<1>7. TextHasHead(text) /\ TextHead(text) = first.objects[1].text
  BY <1>1, <1>3, <1>4, <1>6 DEF TextHasHead, TextHead, HasHead, HeadText
<1> QED
  BY <1>5, <1>6, <1>7

\* A head leads to a contract exactly if no other contract has it.
LEMMA RouteIsUnique ==
  ASSUME NEW head
  PROVE  /\ \A c \in Contracts : RouteHead(head) = c <=> \A d \in Contracts : head \in HeadsOf(d) <=> d = c
         /\ RouteHead(head) = "UnknownRequestHead" <=> \A d \in Contracts : head \notin HeadsOf(d)
         /\ RouteHead(head) = "AmbiguousRequestHead" <=> \A d \in Contracts : head \in HeadsOf(d)
         /\ RouteHead(head) \in Contracts \cup {"UnknownRequestHead", "AmbiguousRequestHead"}
<1>1. /\ Working # Meta
      /\ Working \notin {"UnknownRequestHead", "AmbiguousRequestHead"}
      /\ Meta \notin {"UnknownRequestHead", "AmbiguousRequestHead"}
  BY TextAssumption
<1>2. \A d : d \in Contracts <=> d = Working \/ d = Meta
  BY DEF Contracts
<1>3. "UnknownRequestHead" # "AmbiguousRequestHead"
  OBVIOUS
<1>4. CASE head \in HeadsOf(Working) /\ head \in HeadsOf(Meta)
  BY <1>1, <1>2, <1>3, <1>4 DEF RouteHead
<1>5. CASE head \in HeadsOf(Working) /\ head \notin HeadsOf(Meta)
  BY <1>1, <1>2, <1>3, <1>5 DEF RouteHead
<1>6. CASE head \notin HeadsOf(Working) /\ head \in HeadsOf(Meta)
  BY <1>1, <1>2, <1>3, <1>6 DEF RouteHead
<1>7. CASE head \notin HeadsOf(Working) /\ head \notin HeadsOf(Meta)
  BY <1>1, <1>2, <1>3, <1>7 DEF RouteHead
<1> QED
  BY <1>4, <1>5, <1>6, <1>7

-----------------------------------------------------------------------------
(***************************************************************************)
(* The inductive invariant                                                 *)
(***************************************************************************)

Settled == stage = "accepted" \/ outcome = "Printed"

\* What was asked of the builder is in its hands, then in the request.
BuilderInv ==
  /\ stage = "building" => asked = builder
  /\ stage # "building" => builder = <<>>
  /\ stage = "built" => asked # <<>> /\ Items(request) = asked

\* Once written, a built request is its text.
WrittenFor(c) ==
  asked \in Seq(VariantsOf(OperationsOf(c))) /\ document = <<EncodeItems(TryFromVec(asked))>>

WrittenInv ==
  /\ outcome = "EmptyRequest" => asked = <<>>
  /\ stage \notin {"building", "built"} /\ asked # <<>> => \E c \in Contracts : WrittenFor(c)

\* How far the two parsers have come, and what they found.
RouteInv ==
  /\ stage = "routed" \/ Settled => TextHasHead(document) /\ RouteHead(TextHead(document)) = contract
  /\ outcome \in {"UnknownRequestHead", "AmbiguousRequestHead"} =>
       TextHasHead(document) /\ RouteHead(TextHead(document)) = outcome
  /\ outcome = "InvalidRequest" /\ TextHasHead(document) =>
       RouteHead(TextHead(document)) = contract /\ ~ Decodes(contract, document)
  /\ Settled => Decodes(contract, document) /\ request = DecodedItems(document[1])

IInv == TypeOK /\ BuilderInv /\ WrittenInv /\ RouteInv /\ PrintedRepliesReadBack

LEMMA InitInv == Init => IInv
<1> SUFFICES ASSUME Init PROVE IInv
  OBVIOUS
<1> USE DEF Init
<1>1. TypeOK
  BY EmptySeq DEF TypeOK, Outcomes
<1>2. BuilderInv /\ WrittenInv /\ RouteInv /\ PrintedRepliesReadBack
  BY DEF BuilderInv, WrittenInv, RouteInv, PrintedRepliesReadBack, Settled
<1> QED
  BY <1>1, <1>2 DEF IInv

\* The operations asked of a builder are operations of its contract.
LEMMA AskedTyped ==
  ASSUME IInv, stage \in {"building", "built"}
  PROVE  asked \in Seq(VariantsOf(OperationsOf(contract)))
<1>1. CASE stage = "building"
  BY <1>1 DEF IInv, TypeOK, BuilderInv
<1>2. CASE stage = "built"
  BY <1>2, VectorOfItems DEF IInv, TypeOK, BuilderInv
<1> QED
  BY <1>1, <1>2

LEMMA NextInv == IInv /\ [Next]_vars => IInv'
<1> SUFFICES ASSUME IInv, [Next]_vars PROVE IInv'
  OBVIOUS
<1> USE DEF IInv
<1> DEFINE V == VariantsOf(OperationsOf(contract))
<1>1. CASE Push
  <2> USE <1>1 DEF Push
  <2>1. PICK operation \in V : builder' = Append(builder, operation) /\ asked' = Append(asked, operation)
    OBVIOUS
  <2>2. builder' \in Seq(V) /\ asked' = builder'
    BY <2>1 DEF TypeOK, BuilderInv
  <2>3. TypeOK'
    BY <2>2 DEF TypeOK
  <2>4. (BuilderInv /\ WrittenInv)'
    BY <2>2 DEF TypeOK, BuilderInv, WrittenInv
  <2>5. (RouteInv /\ PrintedRepliesReadBack)'
    BY DEF TypeOK, RouteInv, Settled, PrintedRepliesReadBack
  <2> QED
    BY <2>3, <2>4, <2>5
<1>2. CASE Build
  <2> USE <1>2 DEF Build, Ends
  <2>0. stage = "building" /\ builder \in Seq(V) /\ asked = builder /\ contract \in Contracts /\ outcome = "none"
    BY DEF TypeOK, BuilderInv
  <2>1. <<>> \in Seq(V)
    OBVIOUS
  <2>2. CASE builder = <<>>
    <3>1. stage' = "ended" /\ outcome' = "EmptyRequest" /\ asked' = <<>> /\ builder' = <<>> /\ contract' = contract
      BY <2>0, <2>2
    <3>2. TypeOK'
      BY <2>0, <2>1, <3>1 DEF TypeOK, Outcomes
    <3>3. (BuilderInv /\ WrittenInv)'
      BY <3>1 DEF BuilderInv, WrittenInv
    <3>4. (RouteInv /\ PrintedRepliesReadBack)'
      BY <3>1 DEF RouteInv, Settled, PrintedRepliesReadBack
    <3> QED
      BY <3>2, <3>3, <3>4
  <2>3. CASE builder # <<>>
    <3>1. /\ stage' = "built" /\ outcome' = "none" /\ asked' = builder /\ builder' = <<>>
          /\ contract' = contract /\ request' = TryFromVec(builder)
      BY <2>0, <2>3
    <3>2. TryFromVec(builder) \in [head : V, tail : Seq(V)] /\ Items(TryFromVec(builder)) = builder
      BY <2>0, <2>3, ItemsOfVector, VectorTyped
    <3>3. TypeOK'
      BY <2>0, <2>1, <3>1, <3>2 DEF TypeOK, Outcomes
    <3>4. Items(request)' = builder
      BY <3>1, <3>2 DEF Items
    <3>5. (BuilderInv /\ WrittenInv)'
      BY <2>3, <3>1, <3>4 DEF BuilderInv, WrittenInv
    <3>6. (RouteInv /\ PrintedRepliesReadBack)'
      BY <3>1 DEF RouteInv, Settled, PrintedRepliesReadBack
    <3> QED
      BY <3>3, <3>5, <3>6
  <2> QED
    BY <2>2, <2>3
<1>3. CASE Extend
  <2> USE <1>3 DEF Extend
  <2>0. /\ stage = "built" /\ request \in [head : V, tail : Seq(V)] /\ builder = <<>>
        /\ Items(request) = asked /\ contract \in Contracts /\ outcome = "none"
    BY DEF TypeOK, BuilderInv
  <2>1. PICK operation \in V :
          /\ request' = [request EXCEPT !.tail = Append(@, operation)]
          /\ asked' = Append(asked, operation)
    OBVIOUS
  <2> HIDE DEF V
  <2>2. /\ request.head \in V /\ request.tail \in Seq(V)
        /\ request = [head |-> request.head, tail |-> request.tail]
        /\ request' = [head |-> request.head, tail |-> Append(request.tail, operation)]
    BY <2>0, <2>1
  <2>3. Append(request.tail, operation) \in Seq(V)
    BY <2>1, <2>2, AppendProperties
  <2>4. Items([head |-> request.head, tail |-> Append(request.tail, operation)])
          = Append(Items([head |-> request.head, tail |-> request.tail]), operation)
    <3>1. \A h \in V, t \in Seq(V), o \in V :
            Items([head |-> h, tail |-> Append(t, o)]) = Append(Items([head |-> h, tail |-> t]), o)
      BY ItemsOfPushed
    <3> QED
      BY <2>2, <3>1
  <2>5. Items(request)' = asked'
    BY <2>0, <2>1, <2>2, <2>4 DEF Items
  <2>6. request' \in [head : V, tail : Seq(V)]
    BY <2>2, <2>3
  <2>7. asked' # <<>>
    <3>1. Items(request) \in Seq(V)
      BY <2>2, VectorOfItems
    <3> QED
      BY <2>0, <2>1, <3>1, AppendProperties, EmptySeq
  <2>8. TypeOK'
    BY <2>0, <2>6 DEF TypeOK, V
  <2>9. (BuilderInv /\ WrittenInv)'
    BY <2>0, <2>5, <2>7 DEF BuilderInv, WrittenInv
  <2>10. (RouteInv /\ PrintedRepliesReadBack)'
    BY <2>0 DEF RouteInv, Settled, PrintedRepliesReadBack
  <2> QED
    BY <2>8, <2>9, <2>10
<1>4. CASE Write
  <2> USE <1>4 DEF Write
  <2>0. /\ stage = "built" /\ request \in [head : V, tail : Seq(V)] /\ builder = <<>>
        /\ Items(request) = asked /\ asked # <<>> /\ contract \in Contracts /\ outcome = "none"
    BY DEF TypeOK, BuilderInv
  <2>1. asked \in Seq(V)
    BY <2>0, AskedTyped
  <2>2. request = TryFromVec(asked)
    BY <2>0, VectorIsItems
  <2>3. WrittenFor(contract)'
    BY <2>1, <2>2 DEF WrittenFor
  <2>4. (BuilderInv /\ WrittenInv)'
    BY <2>0, <2>3 DEF BuilderInv, WrittenInv
  <2>5. TypeOK'
    BY <2>0 DEF TypeOK, Outcomes
  <2>6. (RouteInv /\ PrintedRepliesReadBack)'
    BY <2>0 DEF RouteInv, Settled, PrintedRepliesReadBack
  <2> QED
    BY <2>4, <2>5, <2>6
<1>5. CASE TypeByHand
  <2> USE <1>5 DEF TypeByHand
  <2>0. stage = "building" /\ builder = <<>> /\ asked = <<>> /\ contract \in Contracts /\ outcome = "none"
    BY DEF TypeOK, BuilderInv
  <2>1. TypeOK'
    BY <2>0 DEF TypeOK, Outcomes
  <2>2. (BuilderInv /\ WrittenInv)'
    BY <2>0 DEF BuilderInv, WrittenInv
  <2>3. (RouteInv /\ PrintedRepliesReadBack)'
    BY <2>0 DEF RouteInv, Settled, PrintedRepliesReadBack
  <2> QED
    BY <2>1, <2>2, <2>3
<1>6. CASE Route
  <2> DEFINE route == RouteHead(TextHead(document))
  <2>0. stage = "written" /\ builder = <<>> /\ contract \in Contracts /\ outcome = "none"
        /\ UNCHANGED <<builder, asked, request, document, replies, printed>>
    BY <1>6 DEF Route, TypeOK, BuilderInv
  <2>1. WrittenInv' \/ ~ (outcome' # "EmptyRequest" /\ stage' \notin {"building", "built"})
    BY <2>0 DEF WrittenInv, WrittenFor
  <2>2. <<>> \in Seq(VariantsOf(OperationsOf(contract')))
    OBVIOUS
  <2>3. route \in Contracts \cup {"UnknownRequestHead", "AmbiguousRequestHead"}
    BY RouteIsUnique
  <2> HIDE DEF route
  <2>4. \/ /\ ~ TextHasHead(document) /\ stage' = "ended" /\ outcome' = "InvalidRequest"
           /\ contract' = contract
        \/ /\ TextHasHead(document) /\ route \in Contracts /\ contract' = route
           /\ stage' = "routed" /\ outcome' = "none"
        \/ /\ TextHasHead(document) /\ route \in {"UnknownRequestHead", "AmbiguousRequestHead"}
           /\ stage' = "ended" /\ outcome' = route /\ contract' = contract
    BY <1>6, <2>0, <2>3 DEF Route, Ends, route
  <2>5. TypeOK'
    BY <2>0, <2>2, <2>4 DEF TypeOK, Outcomes
  <2>6. (BuilderInv /\ WrittenInv)'
    BY <2>0, <2>1, <2>4 DEF BuilderInv
  <2>7. (TextHasHead(document) <=> TextHasHead(document)') /\ route' = route
    BY <2>0 DEF route, TextHasHead, TextHead
  <2>8. (RouteInv /\ PrintedRepliesReadBack)'
    BY <2>0, <2>4, <2>7 DEF RouteInv, Settled, PrintedRepliesReadBack, route
  <2> QED
    BY <2>5, <2>6, <2>8
<1>7. CASE Decode
  <2>0. stage = "routed" /\ builder = <<>> /\ contract \in Contracts /\ outcome = "none"
        /\ UNCHANGED <<contract, builder, asked, document, replies, printed>>
        /\ TextHasHead(document) /\ RouteHead(TextHead(document)) = contract
    BY <1>7 DEF Decode, TypeOK, BuilderInv, RouteInv
  <2>1. \/ /\ ~ Decodes(contract, document) /\ stage' = "ended"
           /\ outcome' = "InvalidRequest" /\ request' = request
        \/ /\ Decodes(contract, document) /\ stage' = "accepted"
           /\ outcome' = "none" /\ request' = DecodedItems(document[1])
    BY <1>7, <2>0 DEF Decode, Ends
  <2>2. Decodes(contract, document) => DecodedItems(document[1]) \in [head : V, tail : Seq(V)]
    BY DecodedItemsTyped DEF Decodes
  <2>3. <<>> \in Seq(V)
    OBVIOUS
  <2>4. TypeOK'
    BY <2>0, <2>1, <2>2, <2>3 DEF TypeOK, Outcomes
  <2>5. (BuilderInv /\ WrittenInv)'
    BY <2>0, <2>1 DEF BuilderInv, WrittenInv, WrittenFor
  <2>6. RouteInv'
    BY <2>0, <2>1 DEF RouteInv, Settled
  <2>7. PrintedRepliesReadBack'
    BY <2>0, <2>1 DEF PrintedRepliesReadBack
  <2> QED
    BY <2>4, <2>5, <2>6, <2>7
<1>8. CASE Reply
  <2> USE <1>8 DEF Reply, Ends
  <2> DEFINE R == VariantsOf(RepliesOf(contract))
             n == Len(Items(request))
  <2>0. stage = "accepted" /\ builder = <<>> /\ contract \in Contracts /\ outcome = "none"
        /\ request \in [head : V, tail : Seq(V)]
        /\ UNCHANGED <<contract, builder, asked, request, document>>
        /\ stage' = "ended" /\ outcome' = "Printed"
    BY DEF TypeOK, BuilderInv
  <2>1. n \in Nat \ {0}
    BY <2>0, VectorOfItems, EmptySeq
  <2>2. PICK payloads \in [1 .. n -> R] :
          replies' = TryFromVec(payloads) /\ printed' = EncodeItems(replies')
    OBVIOUS
  <2> HIDE DEF n
  <2>3. payloads \in Seq(R) /\ Len(payloads) = n /\ payloads # <<>>
    BY <2>1, <2>2
  <2>4. /\ DecodesItems(RepliesOf(contract), printed')
        /\ DecodedItems(printed') = replies'
    BY <2>2, <2>3, ItemsReadBack
  <2>5. Items(replies') = payloads
    BY <2>2, <2>3, ItemsOfVector
  <2>6. PrintedRepliesReadBack'
    BY <2>0, <2>3, <2>4, <2>5 DEF PrintedRepliesReadBack, Items, n
  <2>7. TypeOK'
    BY <2>0 DEF TypeOK, Outcomes
  <2>8. (BuilderInv /\ WrittenInv)'
    BY <2>0 DEF BuilderInv, WrittenInv, WrittenFor
  <2>9. RouteInv'
    BY <2>0 DEF RouteInv, Settled
  <2> QED
    BY <2>6, <2>7, <2>8, <2>9
<1>9. CASE UNCHANGED vars
  BY <1>9 DEF vars, TypeOK, BuilderInv, WrittenInv, WrittenFor, RouteInv, Settled, PrintedRepliesReadBack, Decodes
<1> QED
  BY <1>1, <1>2, <1>3, <1>4, <1>5, <1>6, <1>7, <1>8, <1>9 DEF Next

-----------------------------------------------------------------------------
(***************************************************************************)
(* The theorems                                                            *)
(***************************************************************************)

\* The invariant that follows the text through both parsers is inductive.
THEOREM TextInvariant == Spec => []IInv
  BY InitInv, NextInv, PTL DEF Spec

\* Every text ends with an outcome, and a request is typed by its contract.
THEOREM TextTyping == Spec => []TypeOK
<1>1. IInv => TypeOK
  BY DEF IInv
<1> QED
  BY <1>1, TextInvariant, PTL

\* Routing never guesses, for every two contracts and every text.
THEOREM RoutingNeverGuesses == Spec => []AcceptedTextIsUnambiguous
<1>1. IInv => AcceptedTextIsUnambiguous
  <2> SUFFICES ASSUME IInv, Settled PROVE AcceptedTextIsUnambiguous
    BY DEF AcceptedTextIsUnambiguous, Settled
  <2>1. /\ RouteHead(TextHead(document)) = contract /\ contract \in Contracts
        /\ Decodes(contract, document) /\ request = DecodedItems(document[1])
    BY DEF IInv, RouteInv, TypeOK
  <2>2. \A c \in Contracts : Decodes(c, document) => TextHead(document) \in HeadsOf(c)
    BY ParsersAgree
  <2>3. \A c \in Contracts : TextHead(document) \in HeadsOf(c) => c = contract
    BY <2>1, RouteIsUnique
  <2>4. TextHead(document) = request.head.name
    BY <2>1, ParsersAgree
  <2> QED
    BY <2>1, <2>2, <2>3, <2>4 DEF AcceptedTextIsUnambiguous
<1> QED
  BY <1>1, TextInvariant, PTL

LEMMA RefusedIsNone == IInv => RefusedTextIsNoRequest
<1> SUFFICES ASSUME IInv, outcome \in {"InvalidRequest", "UnknownRequestHead"},
                    NEW c \in Contracts, Decodes(c, document)
             PROVE  FALSE
  BY DEF RefusedTextIsNoRequest
<1>1. TextHasHead(document) /\ TextHead(document) \in HeadsOf(c)
  BY ParsersAgree
<1>2. CASE outcome = "UnknownRequestHead"
  BY <1>1, <1>2, RouteIsUnique DEF IInv, RouteInv
<1>3. CASE outcome = "InvalidRequest"
  <2>1. RouteHead(TextHead(document)) = contract /\ ~ Decodes(contract, document) /\ contract \in Contracts
    BY <1>1, <1>3 DEF IInv, RouteInv, TypeOK
  <2>2. c = contract
    BY <1>1, <2>1, RouteIsUnique
  <2> QED
    BY <2>1, <2>2
<1> QED
  BY <1>2, <1>3

\* Nothing refused as invalid or unknown is a request of either contract.
THEOREM RefusalIsRight == Spec => []RefusedTextIsNoRequest
  BY RefusedIsNone, TextInvariant, PTL

\* A request of any length, built in any way, survives its text.
THEOREM RequestsSurviveText == Spec => []BuiltRequestsSurviveText
<1>1. IInv => BuiltRequestsSurviveText
  <2> SUFFICES ASSUME IInv, asked # <<>>, Settled \/ outcome \in Outcomes \ {"none", "Printed"}
               PROVE  /\ Settled => Items(request) = asked
                      /\ outcome \in Outcomes \ {"none", "Printed"} =>
                           /\ outcome = "AmbiguousRequestHead"
                           /\ \A d \in Contracts : asked[1].name \in HeadsOf(d)
    BY DEF BuiltRequestsSurviveText, Settled
  <2>1. stage \notin {"building", "built"} /\ contract \in Contracts
    BY DEF IInv, TypeOK, Outcomes, Settled
  <2>2. PICK c \in Contracts : WrittenFor(c)
    BY <2>1 DEF IInv, WrittenInv
  <2> DEFINE enum == OperationsOf(c)
  <2>3. asked \in Seq(VariantsOf(enum)) /\ document = <<EncodeItems(TryFromVec(asked))>>
    BY <2>2 DEF WrittenFor
  <2>4. document[1] = EncodeItems(TryFromVec(asked)) /\ Len(document) = 1
    BY <2>3
  <2>5. DecodesItems(enum, document[1]) /\ DecodedItems(document[1]) = TryFromVec(asked)
    BY <2>3, <2>4, ItemsReadBack
  <2>6. Decodes(c, document)
    BY <2>4, <2>5 DEF Decodes
  <2>7. Items(TryFromVec(asked)) = asked /\ TryFromVec(asked).head = asked[1]
    BY <2>3, ItemsOfVector
  <2>8. TextHasHead(document) /\ TextHead(document) = asked[1].name /\ TextHead(document) \in HeadsOf(c)
    BY <2>5, <2>6, <2>7, ParsersAgree
  <2>9. ASSUME Settled PROVE Items(request) = asked
    BY <2>5, <2>7, <2>9 DEF IInv, RouteInv
  <2>10. ASSUME outcome \in Outcomes \ {"none", "Printed"}
         PROVE  outcome = "AmbiguousRequestHead" /\ \A d \in Contracts : asked[1].name \in HeadsOf(d)
    <3>1. outcome # "EmptyRequest"
      BY DEF IInv, WrittenInv
    <3>2. RefusedTextIsNoRequest
      BY RefusedIsNone
    <3>3. outcome \notin {"InvalidRequest", "UnknownRequestHead"}
      BY <2>6, <3>2 DEF RefusedTextIsNoRequest
    <3>4. outcome = "AmbiguousRequestHead"
      BY <2>10, <3>1, <3>3 DEF Outcomes
    <3>5. RouteHead(TextHead(document)) = "AmbiguousRequestHead"
      BY <3>4 DEF IInv, RouteInv
    <3> QED
      BY <2>8, <3>4, <3>5, RouteIsUnique
  <2> QED
    BY <2>9, <2>10
<1> QED
  BY <1>1, TextInvariant, PTL

\* What is printed tells the replies apart, whatever the reply enum.
THEOREM RepliesReadBack == Spec => []PrintedRepliesReadBack
<1>1. IInv => PrintedRepliesReadBack
  BY DEF IInv
<1> QED
  BY <1>1, TextInvariant, PTL

=============================================================================

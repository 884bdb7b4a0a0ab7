-------------------------- MODULE ChannelMacro_proofs --------------------------
(***************************************************************************)
(* What ChannelMacro promises for every declaration: validation, which     *)
(* sees a channel before its observable block is expanded, is enough for   *)
(* the tables emitted after the expansion.                                 *)
(***************************************************************************)
EXTENDS ChannelMacro, SequenceTheorems, WellFoundedInduction, TLAPS

-----------------------------------------------------------------------------
(***************************************************************************)
(* Lists                                                                   *)
(***************************************************************************)

IsList(list) == list \in Seq(Elements(list))

LEMMA ListFacts ==
  ASSUME NEW list, IsList(list)
  PROVE  Len(list) \in Nat /\ DOMAIN list = 1 .. Len(list)
  BY DEF IsList

\* The elements of two lists, one after the other.
LEMMA ConcatFacts ==
  ASSUME NEW l, IsList(l), NEW m, IsList(m)
  PROVE  /\ IsList(l \o m)
         /\ DOMAIN (l \o m) = 1 .. Len(l) + Len(m)
         /\ \A i \in 1 .. Len(l) : (l \o m)[i] = l[i]
         /\ \A i \in 1 .. Len(m) : (l \o m)[Len(l) + i] = m[i]
         /\ Elements(l \o m) = Elements(l) \cup Elements(m)
<1> DEFINE S == Elements(l) \cup Elements(m)
           c == l \o m
<1>1. l \in Seq(S) /\ m \in Seq(S) /\ Len(l) \in Nat /\ Len(m) \in Nat
  <2>1. l \in Seq(Elements(l)) /\ m \in Seq(Elements(m))
    BY DEF IsList
  <2> HIDE DEF S
  <2>2. Elements(l) \subseteq S /\ Elements(m) \subseteq S
    BY DEF S
  <2> QED
    BY <2>1, <2>2
<1>2. /\ c \in Seq(S) /\ Len(c) = Len(l) + Len(m)
      /\ \A i \in 1 .. Len(l) + Len(m) : c[i] = IF i <= Len(l) THEN l[i] ELSE m[i - Len(l)]
  BY <1>1, ConcatProperties
<1> HIDE DEF c
<1>3. DOMAIN c = 1 .. Len(l) + Len(m) /\ DOMAIN l = 1 .. Len(l) /\ DOMAIN m = 1 .. Len(m)
  BY <1>1, <1>2
<1>4. \A i \in 1 .. Len(l) : i \in DOMAIN c /\ c[i] = l[i]
  BY <1>1, <1>2, <1>3
<1>5. \A i \in 1 .. Len(m) : Len(l) + i \in DOMAIN c /\ c[Len(l) + i] = m[i]
  BY <1>1, <1>2, <1>3
<1>6. S \subseteq Elements(c)
  <2>1. ASSUME NEW e \in Elements(l) PROVE e \in Elements(c)
    BY <1>3, <1>4 DEF Elements
  <2>2. ASSUME NEW e \in Elements(m) PROVE e \in Elements(c)
    <3>1. PICK i \in 1 .. Len(m) : e = m[i]
      BY <1>3 DEF Elements
    <3>2. Len(l) + i \in DOMAIN c /\ e = c[Len(l) + i]
      BY <1>5, <3>1
    <3> QED
      BY <3>2 DEF Elements
  <2> QED
    BY <2>1, <2>2
<1>7. Elements(c) = S
  <2>1. Elements(c) \subseteq S
    BY <1>2 DEF Elements
  <2> QED
    BY <1>6, <2>1
<1>8. IsList(c)
  BY <1>2, <1>7 DEF IsList
<1> QED
  BY <1>3, <1>4, <1>5, <1>7, <1>8 DEF c

LEMMA ConcatNames ==
  ASSUME NEW l, IsList(l), NEW m, IsList(m)
  PROVE  NamesOf(l \o m) = NamesOf(l) \cup NamesOf(m)
  BY ConcatFacts DEF NamesOf

\* Two lists without repetitions and without a common name have none together.
LEMMA ConcatUnique ==
  ASSUME NEW l, IsList(l), Unique(l), NEW m, IsList(m), Unique(m),
         NamesOf(l) \cap NamesOf(m) = {}
  PROVE  Unique(l \o m)
<1> DEFINE c == l \o m
<1>1. /\ DOMAIN c = 1 .. Len(l) + Len(m)
      /\ \A i \in 1 .. Len(l) : c[i] = l[i]
      /\ \A i \in 1 .. Len(m) : c[Len(l) + i] = m[i]
  BY ConcatFacts
<1>2. /\ Len(l) \in Nat /\ DOMAIN l = 1 .. Len(l)
      /\ Len(m) \in Nat /\ DOMAIN m = 1 .. Len(m)
  BY ListFacts
<1> HIDE DEF c
<1>3. \A i \in 1 .. Len(l), j \in 1 .. Len(m) : l[i].name # m[j].name
  BY <1>2 DEF NamesOf, Elements
<1>4. SUFFICES ASSUME NEW i \in DOMAIN c, NEW j \in DOMAIN c, c[i].name = c[j].name PROVE i = j
  BY DEF Unique, c
<1>5. \A k \in DOMAIN c : k \in 1 .. Len(l) \/ \E n \in 1 .. Len(m) : k = Len(l) + n
  <2> SUFFICES ASSUME NEW k \in DOMAIN c, ~ k \in 1 .. Len(l)
               PROVE  \E n \in 1 .. Len(m) : k = Len(l) + n
    OBVIOUS
  <2>1. k - Len(l) \in 1 .. Len(m) /\ k = Len(l) + (k - Len(l))
    BY <1>1, <1>2
  <2> QED
    BY <2>1
<1>6. CASE i \in 1 .. Len(l) /\ j \in 1 .. Len(l)
  BY <1>1, <1>2, <1>4, <1>6 DEF Unique
<1>7. ASSUME NEW n \in 1 .. Len(m), NEW o \in 1 .. Len(m), i = Len(l) + n, j = Len(l) + o PROVE i = j
  <2>1. c[i] = m[n] /\ c[j] = m[o]
    BY <1>1, <1>7
  <2>2. m[n].name = m[o].name /\ n \in DOMAIN m /\ o \in DOMAIN m
    BY <1>2, <1>4, <2>1
  <2>3. n = o
    BY <2>2 DEF Unique
  <2> QED
    BY <1>7, <2>3
<1>8. ASSUME i \in 1 .. Len(l), NEW n \in 1 .. Len(m), j = Len(l) + n PROVE FALSE
  BY <1>1, <1>3, <1>4, <1>8
<1>9. ASSUME j \in 1 .. Len(l), NEW n \in 1 .. Len(m), i = Len(l) + n PROVE FALSE
  BY <1>1, <1>3, <1>4, <1>9
<1> QED
  BY <1>5, <1>6, <1>7, <1>8, <1>9

\* A match takes its first arm: there is one.
LEMMA LeastArm ==
  ASSUME NEW arms, arms \subseteq Nat, arms # {}
  PROVE  \E k \in arms : \A l \in arms : k <= l
<1>1. \E k \in arms : \A l \in arms : ~ (<<l, k>> \in OpToRel(<, Nat))
  BY NatLessThanWellFounded, WFMin
<1>2. PICK k \in arms : \A l \in arms : ~ (<<l, k>> \in OpToRel(<, Nat))
  BY <1>1
<1>3. \A l \in arms : ~ (l < k)
  BY <1>2 DEF OpToRel
<1>4. \A l \in arms : k \in Nat /\ l \in Nat /\ ~ (l < k)
  BY <1>3
<1>5. \A l \in arms : k <= l
  BY <1>4
<1> QED
  BY <1>5

-----------------------------------------------------------------------------
(***************************************************************************)
(* Channels and their expansion                                            *)
(***************************************************************************)

\* A channel as ChannelSpec::parse builds it.
IsChannel(c) ==
  /\ c = [request |-> c.request, reply |-> c.reply, event |-> c.event, streams |-> c.streams,
          observable |-> c.observable]
  /\ IsList(c.request) /\ IsList(c.streams)
  /\ c.reply = [declared |-> c.reply.declared, variants |-> c.reply.variants]
  /\ c.event = [declared |-> c.event.declared, variants |-> c.event.variants]
  /\ IsList(c.reply.variants) /\ IsList(c.event.variants)
  /\ \A s \in Elements(c.streams) : s.name # NoName

\* What the expansion adds.
OpenedReply == [name |-> "ObserverSubscriptionOpened", payload |-> <<"ObserverSubscriptionOpened">>]
Observed(event) == [name |-> event, payload |-> <<event>>, belongs |-> "ObserverStream"]

AddedOperations(c) == <<Tap(c), Untap>>
AddedReplies == <<OpenedReply>>
AddedEvents(c) == <<Observed(c.observable.operation_event), Observed(c.observable.effect_event)>>
AddedStreams(c) == <<ObserverStream(c)>>

LEMMA PairIsList ==
  ASSUME NEW a, NEW b
  PROVE  /\ IsList(<<a, b>>) /\ Len(<<a, b>>) = 2 /\ Elements(<<a, b>>) = {a, b}
         /\ <<a, b>>[1] = a /\ <<a, b>>[2] = b
         /\ IsList(<<a>>) /\ Len(<<a>>) = 1 /\ Elements(<<a>>) = {a} /\ <<a>>[1] = a
<1> DEFINE p == <<a, b>>
           q == <<a>>
<1>1. p \in Seq({a, b}) /\ Len(p) = 2 /\ p[1] = a /\ p[2] = b /\ DOMAIN p = 1 .. 2
  OBVIOUS
<1>2. q \in Seq({a}) /\ Len(q) = 1 /\ q[1] = a /\ DOMAIN q = 1 .. 1
  OBVIOUS
<1> HIDE DEF p, q
<1>3. Elements(p) = {a, b}
  <2>1. Elements(p) = {p[i] : i \in 1 .. 2}
    BY <1>1 DEF Elements
  <2>2. 1 .. 2 = {1, 2}
    OBVIOUS
  <2>3. Elements(p) = {p[i] : i \in {1, 2}}
    BY <2>1, <2>2
  <2> QED
    BY <1>1, <2>3
<1>4. Elements(q) = {a}
  <2>1. 1 .. 1 = {1}
    OBVIOUS
  <2>2. Elements(q) = {q[i] : i \in {1}}
    BY <1>2, <2>1 DEF Elements
  <2> QED
    BY <1>2, <2>2
<1>5. IsList(p) /\ IsList(q)
  BY <1>1, <1>2, <1>3, <1>4 DEF IsList
<1> QED
  BY <1>1, <1>2, <1>3, <1>4, <1>5 DEF p, q

LEMMA AddedLists ==
  ASSUME NEW c
  PROVE  /\ IsList(AddedOperations(c)) /\ Elements(AddedOperations(c)) = {Tap(c), Untap}
         /\ IsList(AddedReplies) /\ Elements(AddedReplies) = {OpenedReply}
         /\ IsList(AddedEvents(c)) /\ Elements(AddedEvents(c)) =
              {Observed(c.observable.operation_event), Observed(c.observable.effect_event)}
         /\ IsList(AddedStreams(c)) /\ Elements(AddedStreams(c)) = {ObserverStream(c)}
<1>1. IsList(AddedOperations(c)) /\ Elements(AddedOperations(c)) = {Tap(c), Untap}
  BY PairIsList DEF AddedOperations
<1>2. IsList(AddedReplies) /\ Elements(AddedReplies) = {OpenedReply}
  BY PairIsList DEF AddedReplies
<1>3. IsList(AddedEvents(c)) /\ Elements(AddedEvents(c)) =
        {Observed(c.observable.operation_event), Observed(c.observable.effect_event)}
  BY PairIsList DEF AddedEvents
<1>4. IsList(AddedStreams(c)) /\ Elements(AddedStreams(c)) = {ObserverStream(c)}
  BY PairIsList DEF AddedStreams
<1> QED
  BY <1>1, <1>2, <1>3, <1>4

\* The parts of an expanded channel.
LEMMA AugmentedParts ==
  ASSUME NEW c, IsChannel(c), c.observable.declared
  PROVE  /\ Augmented(c).request = c.request \o AddedOperations(c)
         /\ Augmented(c).reply.variants = c.reply.variants \o AddedReplies
         /\ Augmented(c).event.variants = c.event.variants \o AddedEvents(c)
         /\ Augmented(c).streams = c.streams \o AddedStreams(c)
<1>1. /\ Append(c.reply.variants, OpenedReply) = c.reply.variants \o AddedReplies
      /\ Append(c.streams, ObserverStream(c)) = c.streams \o AddedStreams(c)
  <2>1. c.reply.variants \in Seq(Elements(c.reply.variants)) /\ c.streams \in Seq(Elements(c.streams))
    BY DEF IsChannel, IsList
  <2>2. ASSUME NEW S, NEW l \in Seq(S), NEW x PROVE Append(l, x) = l \o <<x>>
    <3>1. l \in Seq(S \cup {x}) /\ x \in S \cup {x}
      OBVIOUS
    <3> QED
      BY <3>1, AppendIsConcat
  <2> QED
    BY <2>1, <2>2 DEF AddedReplies, AddedStreams
<1>2. Augmented(c) =
        [request |-> c.request \o AddedOperations(c),
         reply |-> [c.reply EXCEPT !.variants = Append(@, OpenedReply)],
         event |-> [declared |-> TRUE, variants |-> c.event.variants \o AddedEvents(c)],
         streams |-> Append(c.streams, ObserverStream(c)),
         observable |-> NoObservable]
  BY DEF Augmented, AddedOperations, AddedEvents, Tap, Untap, OpenedReply, Observed
<1> DEFINE reply == [c.reply EXCEPT !.variants = Append(@, OpenedReply)]
           events == [declared |-> TRUE, variants |-> c.event.variants \o AddedEvents(c)]
<1>3. reply.variants = Append(c.reply.variants, OpenedReply)
  <2>1. c.reply = [declared |-> c.reply.declared, variants |-> c.reply.variants]
    BY DEF IsChannel
  <2> QED
    BY <2>1
<1>4. events.variants = c.event.variants \o AddedEvents(c)
  OBVIOUS
<1> HIDE DEF reply, events
<1>5. /\ Augmented(c).request = c.request \o AddedOperations(c)
      /\ Augmented(c).reply = reply /\ Augmented(c).event = events
      /\ Augmented(c).streams = Append(c.streams, ObserverStream(c))
  BY <1>2 DEF reply, events
<1> QED
  BY <1>1, <1>3, <1>4, <1>5

LEMMA NotAugmented ==
  ASSUME NEW c, ~ c.observable.declared
  PROVE  Augmented(c) = c
  BY DEF Augmented

\* What a channel that passes validation owes.
LEMMA ValidMeans ==
  ASSUME NEW c, Validate(c) = "none"
  PROVE  /\ ~ ObservableCollides(c) /\ ~ DuplicateVariant(c)
         /\ ~ UnresolvedOpens(c) /\ ~ OrphanStream(c) /\ ~ UnresolvedBelongs(c)
         /\ \A s \in Elements(c.streams) : StreamFault(c, s) = "none"
  BY DEF Validate

LEMMA FaultlessMeans ==
  ASSUME NEW c, NEW s, StreamFault(c, s) = "none"
  PROVE  /\ s.opened \in NamesOf(c.reply.variants)
         /\ \A e \in Elements(s.events) :
              \E v \in Elements(c.event.variants) : v.name = e /\ v.belongs = s.name
         /\ s.close \in NamesOf(c.request)
         /\ \A v \in Elements(c.request) : v.name = s.close => v.payload = s.token
  BY DEF StreamFault

\* The lists of an expanded channel, as sets.
LEMMA ExpandedElements ==
  ASSUME NEW c, IsChannel(c), c.observable.declared
  PROVE  /\ IsList(Augmented(c).request) /\ IsList(Augmented(c).streams)
         /\ IsList(Augmented(c).reply.variants) /\ IsList(Augmented(c).event.variants)
         /\ Elements(Augmented(c).request) = Elements(c.request) \cup {Tap(c), Untap}
         /\ Elements(Augmented(c).reply.variants) = Elements(c.reply.variants) \cup {OpenedReply}
         /\ Elements(Augmented(c).event.variants) = Elements(c.event.variants) \cup
              {Observed(c.observable.operation_event), Observed(c.observable.effect_event)}
         /\ Elements(Augmented(c).streams) = Elements(c.streams) \cup {ObserverStream(c)}
<1>1. /\ IsList(c.request) /\ IsList(c.reply.variants) /\ IsList(c.event.variants) /\ IsList(c.streams)
  BY DEF IsChannel
<1>2. /\ IsList(AddedOperations(c)) /\ Elements(AddedOperations(c)) = {Tap(c), Untap}
      /\ IsList(AddedReplies) /\ Elements(AddedReplies) = {OpenedReply}
      /\ IsList(AddedEvents(c)) /\ Elements(AddedEvents(c)) =
           {Observed(c.observable.operation_event), Observed(c.observable.effect_event)}
      /\ IsList(AddedStreams(c)) /\ Elements(AddedStreams(c)) = {ObserverStream(c)}
  BY AddedLists
<1>3. /\ IsList(c.request \o AddedOperations(c))
      /\ Elements(c.request \o AddedOperations(c)) = Elements(c.request) \cup {Tap(c), Untap}
  BY <1>1, <1>2, ConcatFacts
<1>4. /\ IsList(c.reply.variants \o AddedReplies)
      /\ Elements(c.reply.variants \o AddedReplies) = Elements(c.reply.variants) \cup {OpenedReply}
  BY <1>1, <1>2, ConcatFacts
<1>5. /\ IsList(c.event.variants \o AddedEvents(c))
      /\ Elements(c.event.variants \o AddedEvents(c)) = Elements(c.event.variants) \cup
           {Observed(c.observable.operation_event), Observed(c.observable.effect_event)}
  BY <1>1, <1>2, ConcatFacts
<1>6. /\ IsList(c.streams \o AddedStreams(c))
      /\ Elements(c.streams \o AddedStreams(c)) = Elements(c.streams) \cup {ObserverStream(c)}
  BY <1>1, <1>2, ConcatFacts
<1> QED
  BY <1>3, <1>4, <1>5, <1>6, AugmentedParts

-----------------------------------------------------------------------------
(***************************************************************************)
(* What validation is enough for                                           *)
(***************************************************************************)

\* No variant of the expanded channel appears twice.
LEMMA ExpansionUnique ==
  ASSUME NEW c, IsChannel(c), Validate(c) = "none"
  PROVE  ~ DuplicateVariant(Augmented(c))
<1>1. ~ ObservableCollides(c) /\ Unique(c.request) /\ Unique(c.reply.variants) /\ Unique(c.event.variants)
  BY ValidMeans DEF DuplicateVariant
<1>2. CASE ~ c.observable.declared
  BY <1>1, <1>2, NotAugmented DEF DuplicateVariant
<1>3. CASE c.observable.declared
  <2> DEFINE o == c.observable.operation_event
             e == c.observable.effect_event
  <2>1. /\ IsList(c.request) /\ IsList(c.reply.variants) /\ IsList(c.event.variants)
        /\ IsList(AddedOperations(c)) /\ Elements(AddedOperations(c)) = {Tap(c), Untap}
        /\ IsList(AddedReplies) /\ Elements(AddedReplies) = {OpenedReply}
        /\ IsList(AddedEvents(c)) /\ Elements(AddedEvents(c)) = {Observed(o), Observed(e)}
    BY AddedLists DEF IsChannel
  <2>2. Tap(c).name = "Tap" /\ Untap.name = "Untap" /\ OpenedReply.name = "ObserverSubscriptionOpened"
        /\ Observed(o).name = o /\ Observed(e).name = e
    BY DEF Tap, Untap, OpenedReply, Observed
  <2>3. /\ NamesOf(AddedOperations(c)) = {"Tap", "Untap"}
        /\ NamesOf(AddedReplies) = {"ObserverSubscriptionOpened"}
        /\ NamesOf(AddedEvents(c)) = {o, e}
    BY <2>1, <2>2 DEF NamesOf
  <2>4. /\ o # e /\ NamesOf(c.request) \cap {"Tap", "Untap"} = {}
        /\ "ObserverSubscriptionOpened" \notin NamesOf(c.reply.variants)
        /\ NamesOf(c.event.variants) \cap {o, e} = {}
    BY <1>1, <1>3 DEF ObservableCollides, ObserverEvents, NamesOf
  <2>5. Unique(AddedOperations(c)) /\ Unique(AddedReplies) /\ Unique(AddedEvents(c))
    <3>1. ASSUME NEW a, NEW b, a.name # b.name PROVE Unique(<<a, b>>)
      <4> DEFINE p == <<a, b>>
      <4>1. DOMAIN p = {1, 2} /\ p[1] = a /\ p[2] = b
        OBVIOUS
      <4> HIDE DEF p
      <4>2. Unique(p)
        BY <3>1, <4>1 DEF Unique
      <4> QED
        BY <4>2 DEF p
    <3>2. Unique(<<OpenedReply>>)
      BY DEF Unique
    <3>3. Tap(c).name # Untap.name /\ Observed(o).name # Observed(e).name
      BY <2>2, <2>4
    <3> QED
      BY <3>1, <3>2, <3>3 DEF AddedOperations, AddedReplies, AddedEvents
  <2>6. Unique(c.request \o AddedOperations(c))
    BY <1>1, <2>1, <2>3, <2>4, <2>5, ConcatUnique
  <2>7. Unique(c.reply.variants \o AddedReplies)
    BY <1>1, <2>1, <2>3, <2>4, <2>5, ConcatUnique
  <2>8. Unique(c.event.variants \o AddedEvents(c))
    BY <1>1, <2>1, <2>3, <2>4, <2>5, ConcatUnique
  <2> QED
    BY <1>3, <2>6, <2>7, <2>8, AugmentedParts DEF DuplicateVariant
<1> QED
  BY <1>2, <1>3

\* The stream relations, element by element.
Resolves(c) ==
  /\ \A v \in Elements(c.request) : v.opens # NoName =>
       \E s \in Elements(c.streams) : s.name = v.opens /\ s.opened \in NamesOf(c.reply.variants)
  /\ \A v \in Elements(c.event.variants) : v.belongs \in NamesOf(c.streams)
  /\ \A s \in Elements(c.streams) :
       /\ \E v \in Elements(c.request) : v.opens = s.name
       /\ \A e \in Elements(s.events) :
            \E v \in Elements(c.event.variants) : v.name = e /\ v.belongs = s.name

\* What closes a stream is an operation that carries its token.
Closes(c) ==
  \A s \in Elements(c.streams) :
    /\ s.name # NoName
    /\ s.close \in NamesOf(c.request)
    /\ \A v \in Elements(c.request) : v.name = s.close => v.payload = s.token

LEMMA ValidResolves ==
  ASSUME NEW c, IsChannel(c), Validate(c) = "none"
  PROVE  Resolves(c) /\ Closes(c)
<1>1. /\ ~ UnresolvedOpens(c) /\ ~ OrphanStream(c) /\ ~ UnresolvedBelongs(c)
      /\ \A s \in Elements(c.streams) : StreamFault(c, s) = "none"
  BY ValidMeans
<1>2. \A s \in Elements(c.streams) :
        /\ s.opened \in NamesOf(c.reply.variants)
        /\ \A e \in Elements(s.events) :
             \E v \in Elements(c.event.variants) : v.name = e /\ v.belongs = s.name
        /\ s.close \in NamesOf(c.request)
        /\ \A v \in Elements(c.request) : v.name = s.close => v.payload = s.token
  BY <1>1, FaultlessMeans
<1>3. \A v \in Elements(c.request) : v.opens # NoName =>
        \E s \in Elements(c.streams) : s.name = v.opens /\ s.opened \in NamesOf(c.reply.variants)
  <2> SUFFICES ASSUME NEW v \in Elements(c.request), v.opens # NoName
               PROVE  \E s \in Elements(c.streams) : s.name = v.opens /\ s.opened \in NamesOf(c.reply.variants)
    OBVIOUS
  <2>1. v.opens \in NamesOf(c.streams)
    BY <1>1 DEF UnresolvedOpens
  <2>2. PICK s \in Elements(c.streams) : s.name = v.opens
    BY <2>1 DEF NamesOf
  <2> QED
    BY <1>2, <2>2
<1>4. \A s \in Elements(c.streams) : \E v \in Elements(c.request) : v.opens = s.name
  BY <1>1 DEF OrphanStream
<1>5. \A v \in Elements(c.event.variants) : v.belongs \in NamesOf(c.streams)
  BY <1>1 DEF UnresolvedBelongs
<1>6. \A s \in Elements(c.streams) : s.name # NoName
  BY DEF IsChannel
<1>7. Resolves(c)
  BY <1>2, <1>3, <1>4, <1>5 DEF Resolves
<1>8. Closes(c)
  BY <1>2, <1>6 DEF Closes
<1> QED
  BY <1>7, <1>8

\* The expansion keeps both: what it adds names only what it adds.
LEMMA ExpansionResolves ==
  ASSUME NEW c, IsChannel(c), Validate(c) = "none"
  PROVE  Resolves(Augmented(c)) /\ Closes(Augmented(c))
<1>0. Resolves(c) /\ Closes(c)
  BY ValidResolves
<1>1. CASE ~ c.observable.declared
  BY <1>0, <1>1, NotAugmented
<1>2. CASE c.observable.declared
  <2> DEFINE a == Augmented(c)
             o == c.observable.operation_event
             e == c.observable.effect_event
             stream == ObserverStream(c)
  <2>1. /\ Elements(a.request) = Elements(c.request) \cup {Tap(c), Untap}
        /\ Elements(a.reply.variants) = Elements(c.reply.variants) \cup {OpenedReply}
        /\ Elements(a.event.variants) = Elements(c.event.variants) \cup {Observed(o), Observed(e)}
        /\ Elements(a.streams) = Elements(c.streams) \cup {stream}
    BY <1>2, ExpandedElements
  <2>2. /\ Tap(c).name = "Tap" /\ Tap(c).opens = "ObserverStream"
        /\ Untap.name = "Untap" /\ Untap.opens = NoName
        /\ Untap.payload = <<"ObserverSubscriptionToken">>
        /\ OpenedReply.name = "ObserverSubscriptionOpened"
        /\ Observed(o).name = o /\ Observed(o).belongs = "ObserverStream"
        /\ Observed(e).name = e /\ Observed(e).belongs = "ObserverStream"
    BY DEF Tap, Untap, OpenedReply, Observed
  <2>3. /\ stream.name = "ObserverStream" /\ stream.close = "Untap"
        /\ stream.opened = "ObserverSubscriptionOpened"
        /\ stream.token = <<"ObserverSubscriptionToken">>
        /\ stream.events = <<o, e>>
    BY DEF ObserverStream
  <2>4. Elements(stream.events) = {o, e}
    <3>1. Elements(<<o, e>>) = {o, e}
      BY PairIsList
    <3> HIDE DEF o, e, stream
    <3> QED
      BY <2>3, <3>1
  <2>5. NamesOf(c.request) \cap {"Tap", "Untap"} = {} /\ NoName # "ObserverStream"
    BY <1>2, ValidMeans, DeclarationAssumption DEF ObservableCollides
  <2> HIDE DEF a, o, e, stream
  <2>6. /\ NamesOf(c.request) \subseteq NamesOf(a.request) /\ "Untap" \in NamesOf(a.request)
        /\ NamesOf(c.streams) \subseteq NamesOf(a.streams) /\ "ObserverStream" \in NamesOf(a.streams)
        /\ NamesOf(c.reply.variants) \subseteq NamesOf(a.reply.variants)
        /\ "ObserverSubscriptionOpened" \in NamesOf(a.reply.variants)
    BY <2>1, <2>2, <2>3 DEF NamesOf
  <2>7. Resolves(a)
    <3>1. ASSUME NEW v \in Elements(a.request), v.opens # NoName
          PROVE  \E s \in Elements(a.streams) : s.name = v.opens /\ s.opened \in NamesOf(a.reply.variants)
      <4>1. CASE v \in Elements(c.request)
        <5>1. PICK s \in Elements(c.streams) : s.name = v.opens /\ s.opened \in NamesOf(c.reply.variants)
          BY <1>0, <3>1, <4>1 DEF Resolves
        <5> QED
          BY <2>1, <2>6, <5>1
      <4>2. CASE v = Tap(c)
        BY <2>1, <2>2, <2>3, <2>6, <4>2
      <4>3. v # Untap
        BY <2>2, <3>1
      <4> QED
        BY <2>1, <3>1, <4>1, <4>2, <4>3
    <3>2. ASSUME NEW v \in Elements(a.event.variants) PROVE v.belongs \in NamesOf(a.streams)
      BY <1>0, <2>1, <2>2, <2>6, <3>2 DEF Resolves
    <3>3. ASSUME NEW s \in Elements(a.streams) PROVE \E v \in Elements(a.request) : v.opens = s.name
      BY <1>0, <2>1, <2>2, <2>3, <3>3 DEF Resolves
    <3>4. ASSUME NEW s \in Elements(a.streams), NEW event \in Elements(s.events)
          PROVE  \E v \in Elements(a.event.variants) : v.name = event /\ v.belongs = s.name
      <4>1. CASE s \in Elements(c.streams)
        <5>1. PICK v \in Elements(c.event.variants) : v.name = event /\ v.belongs = s.name
          BY <1>0, <3>4, <4>1 DEF Resolves
        <5> QED
          BY <2>1, <5>1
      <4>2. CASE s = stream
        BY <2>1, <2>2, <2>3, <2>4, <3>4, <4>2
      <4> QED
        BY <2>1, <3>4, <4>1, <4>2
    <3> QED
      BY <3>1, <3>2, <3>3, <3>4 DEF Resolves
  <2>8. Closes(a)
    <3> SUFFICES ASSUME NEW s \in Elements(a.streams)
                 PROVE  /\ s.name # NoName /\ s.close \in NamesOf(a.request)
                        /\ \A v \in Elements(a.request) : v.name = s.close => v.payload = s.token
      BY DEF Closes
    <3>1. CASE s \in Elements(c.streams)
      <4>1. s.name # NoName /\ s.close \in NamesOf(c.request)
            /\ \A v \in Elements(c.request) : v.name = s.close => v.payload = s.token
        BY <1>0, <3>1 DEF Closes
      <4>2. s.close # "Tap" /\ s.close # "Untap"
        BY <2>5, <4>1
      <4> QED
        BY <2>1, <2>2, <2>6, <4>1, <4>2
    <3>2. CASE s = stream
      <4>1. \A v \in Elements(c.request) : v.name # "Untap"
        BY <2>5 DEF NamesOf
      <4> QED
        BY <2>1, <2>2, <2>3, <2>5, <2>6, <3>2, <4>1
    <3> QED
      BY <2>1, <3>1, <3>2
  <2> QED
    BY <2>7, <2>8 DEF a
<1> QED
  BY <1>1, <1>2

-----------------------------------------------------------------------------
(***************************************************************************)
(* The inductive invariant                                                 *)
(***************************************************************************)

IInv ==
  /\ TypeOK
  /\ IsChannel(channel)
  /\ phase \in {"emitting", "emitted"} => Validate(channel) = "none"
  /\ phase = "emitted" => emitted = Augmented(channel)

LEMMA InitInv == Init => IInv
<1> SUFFICES ASSUME Init PROVE IInv
  OBVIOUS
<1>1. PICK operations \in Operations : channel = Empty(operations)
  BY DEF Init
<1>2. IsList(operations)
  BY <1>1, DeclarationAssumption DEF IsList
<1>3. IsList(<<>>) /\ Elements(<<>>) = {}
  BY DEF IsList, Elements
<1>4. /\ channel.request = operations /\ channel.streams = <<>>
      /\ channel.reply = [declared |-> FALSE, variants |-> <<>>]
      /\ channel.event = [declared |-> FALSE, variants |-> <<>>]
      /\ channel = [request |-> channel.request, reply |-> channel.reply, event |-> channel.event,
                    streams |-> channel.streams, observable |-> channel.observable]
  BY <1>1 DEF Empty, Absent
<1>5. /\ channel.reply = [declared |-> channel.reply.declared, variants |-> channel.reply.variants]
      /\ channel.event = [declared |-> channel.event.declared, variants |-> channel.event.variants]
      /\ channel.reply.variants = <<>> /\ channel.event.variants = <<>>
  BY <1>4
<1>6. IsChannel(channel)
  BY <1>2, <1>3, <1>4, <1>5 DEF IsChannel
<1>7. TypeOK
  BY <1>4, DeclarationAssumption DEF Init, TypeOK
<1> QED
  BY <1>6, <1>7 DEF IInv, Init

\* A block that is accepted makes a channel of a channel.
LEMMA ParseBlockKeepsChannel ==
  ASSUME IInv, NEW block \in Blocks, ParseBlock(block)
  PROVE  IsChannel(channel') /\ Len(channel'.streams) <= MaxStreams
<1> DEFINE c == channel
           body == block.body
<1>0. IsChannel(c) /\ Len(c.streams) <= MaxStreams /\ MaxStreams \in Nat
  BY DeclarationAssumption DEF IInv, TypeOK
<1>1. c = [request |-> c.request, reply |-> c.reply, event |-> c.event, streams |-> c.streams,
           observable |-> c.observable]
  BY <1>0 DEF IsChannel
<1>2. \/ channel' = c
      \/ block.kind = "reply" /\ channel' = [c EXCEPT !.reply = body]
      \/ block.kind = "event" /\ channel' = [c EXCEPT !.event = body]
      \/ block.kind = "observable" /\ channel' = [c EXCEPT !.observable = body]
      \/ /\ block.kind = "stream" /\ Len(c.streams) < MaxStreams
         /\ channel' = [c EXCEPT !.streams = Append(@, body)]
  BY DEF ParseBlock, Reject
<1>3. /\ block.kind \in {"reply", "event"} =>
           body = [declared |-> TRUE, variants |-> body.variants] /\ IsList(body.variants)
      /\ block.kind = "stream" => body.name # NoName
  BY DeclarationAssumption DEF IsList
<1> HIDE DEF body
<1>4. CASE channel' = c
  BY <1>0, <1>4
<1>5. CASE block.kind = "reply" /\ channel' = [c EXCEPT !.reply = body]
  <2>1. channel' = [request |-> c.request, reply |-> body, event |-> c.event, streams |-> c.streams,
                    observable |-> c.observable]
    BY <1>1, <1>5
  <2>2. body = [declared |-> body.declared, variants |-> body.variants] /\ IsList(body.variants)
    BY <1>3, <1>5
  <2> QED
    BY <1>0, <2>1, <2>2 DEF IsChannel
<1>6. CASE block.kind = "event" /\ channel' = [c EXCEPT !.event = body]
  <2>1. channel' = [request |-> c.request, reply |-> c.reply, event |-> body, streams |-> c.streams,
                    observable |-> c.observable]
    BY <1>1, <1>6
  <2>2. body = [declared |-> body.declared, variants |-> body.variants] /\ IsList(body.variants)
    BY <1>3, <1>6
  <2> QED
    BY <1>0, <2>1, <2>2 DEF IsChannel
<1>7. CASE block.kind = "observable" /\ channel' = [c EXCEPT !.observable = body]
  <2>1. channel' = [request |-> c.request, reply |-> c.reply, event |-> c.event, streams |-> c.streams,
                    observable |-> body]
    BY <1>1, <1>7
  <2> QED
    BY <1>0, <2>1 DEF IsChannel
<1>8. CASE /\ block.kind = "stream" /\ Len(c.streams) < MaxStreams
           /\ channel' = [c EXCEPT !.streams = Append(@, body)]
  <2>1. channel' = [request |-> c.request, reply |-> c.reply, event |-> c.event,
                    streams |-> Append(c.streams, body), observable |-> c.observable]
    BY <1>1, <1>8
  <2>2. IsList(c.streams) /\ c.streams \in Seq(Elements(c.streams))
    BY <1>0 DEF IsChannel, IsList
  <2>3. Append(c.streams, body) = c.streams \o <<body>>
    <3>1. c.streams \in Seq(Elements(c.streams) \cup {body}) /\ body \in Elements(c.streams) \cup {body}
      BY <2>2
    <3> QED
      BY <3>1, AppendIsConcat
  <2>4. IsList(<<body>>) /\ Elements(<<body>>) = {body} /\ Len(<<body>>) = 1
    BY PairIsList
  <2>5. /\ IsList(Append(c.streams, body))
        /\ Elements(Append(c.streams, body)) = Elements(c.streams) \cup {body}
    <3>1. /\ IsList(c.streams \o <<body>>)
          /\ Elements(c.streams \o <<body>>) = Elements(c.streams) \cup Elements(<<body>>)
      BY <2>2, <2>4, ConcatFacts
    <3> QED
      BY <2>3, <2>4, <3>1
  <2>6. Len(Append(c.streams, body)) = Len(c.streams) + 1 /\ Len(c.streams) \in Nat
    BY <2>2
  <2>7. IsChannel(channel')
    BY <1>0, <1>3, <1>8, <2>1, <2>5 DEF IsChannel
  <2>8. Len(channel'.streams) <= MaxStreams
    BY <1>0, <1>8, <2>1, <2>6
  <2> QED
    BY <2>7, <2>8
<1> QED
  BY <1>2, <1>4, <1>5, <1>6, <1>7, <1>8

\* A step that ends the declaration with a diagnostic.
LEMMA RejectKeepsInv ==
  ASSUME IInv, phase # "emitted", NEW error, error # "none", Reject(error)
  PROVE  IInv'
<1>1. /\ phase' = "rejected" /\ diagnostic' # "none"
      /\ channel' = channel /\ emitted' = emitted /\ emitted = Empty(<<>>)
  BY DEF IInv, TypeOK, Reject
<1>2. TypeOK'
  BY <1>1 DEF IInv, TypeOK
<1>3. IsChannel(channel)'
  BY <1>1 DEF IInv
<1> QED
  BY <1>1, <1>2, <1>3 DEF IInv

LEMMA NextInv == IInv /\ [Next]_vars => IInv'
<1> SUFFICES ASSUME IInv, [Next]_vars PROVE IInv'
  OBVIOUS
<1>0. /\ TypeOK /\ IsChannel(channel)
      /\ phase \in {"emitting", "emitted"} => Validate(channel) = "none"
      /\ phase = "emitted" => emitted = Augmented(channel)
  BY DEF IInv
<1>1. ASSUME NEW block \in Blocks, ParseBlock(block) PROVE IInv'
  <2>1. phase = "parsing" /\ IsChannel(channel') /\ Len(channel'.streams) <= MaxStreams
    BY <1>1, ParseBlockKeepsChannel DEF ParseBlock
  <2>2. CASE Reject("Syntax")
    BY <2>1, <2>2, RejectKeepsInv
  <2>3. CASE UNCHANGED <<phase, emitted, diagnostic>>
    BY <1>0, <2>1, <2>3 DEF IInv, TypeOK
  <2> QED
    BY <1>1, <2>2, <2>3 DEF ParseBlock
<1>2. CASE EndOfInput
  <2>1. CASE Reject("MissingReply")
    BY <1>2, <2>1, RejectKeepsInv DEF EndOfInput
  <2>2. CASE channel.reply.declared /\ phase' = "validating" /\ UNCHANGED <<channel, emitted, diagnostic>>
    BY <1>0, <1>2, <2>2 DEF IInv, TypeOK, EndOfInput
  <2> QED
    BY <1>2, <2>1, <2>2 DEF EndOfInput
<1>3. CASE ValidateChannel
  <2>1. CASE Validate(channel) # "none" /\ Reject(Validate(channel))
    BY <1>3, <2>1, RejectKeepsInv DEF ValidateChannel
  <2>2. CASE Validate(channel) = "none" /\ phase' = "emitting" /\ UNCHANGED <<channel, emitted, diagnostic>>
    BY <1>0, <1>3, <2>2 DEF IInv, TypeOK, ValidateChannel
  <2> QED
    BY <1>3, <2>1, <2>2 DEF ValidateChannel
<1>4. CASE Emit
  <2>1. /\ phase = "emitting" /\ phase' = "emitted" /\ emitted' = Augmented(channel)
        /\ channel' = channel /\ diagnostic' = diagnostic
    BY <1>4 DEF Emit
  <2>2. ~ Augmented(channel).observable.declared
    <3>1. ~ NoObservable.declared
      BY DEF NoObservable
    <3> QED
      BY <3>1 DEF Augmented
  <2>3. TypeOK'
    BY <1>0, <2>1, <2>2 DEF TypeOK
  <2>4. /\ IsChannel(channel)' /\ (Validate(channel) = "none")'
        /\ (emitted = Augmented(channel))'
    BY <1>0, <2>1
  <2> QED
    BY <2>3, <2>4 DEF IInv
<1>5. CASE UNCHANGED vars
  BY <1>0, <1>5 DEF IInv, TypeOK, vars
<1> QED
  BY <1>1, <1>2, <1>3, <1>4, <1>5 DEF Next

THEOREM ChannelInvariant == Spec => []IInv
<1> QED
  BY InitInv, NextInv, PTL DEF Spec

-----------------------------------------------------------------------------
(***************************************************************************)
(* What it is enough for                                                   *)
(***************************************************************************)

\* A declaration ends with a diagnostic exactly if it is rejected (lib.rs, emit).
THEOREM ChannelTyping == Spec => []TypeOK
<1>1. IInv => TypeOK
  BY DEF IInv
<1> QED
  BY <1>1, ChannelInvariant, PTL

\* What the expansion adds is a declaration an author could have written: to
\* validate the emitted channel would find nothing more than to validate the one
\* that was parsed, although validate runs before augment_with_observable.
LEMMA ExpansionValid ==
  ASSUME NEW c, IsChannel(c), Validate(c) = "none"
  PROVE  Validate(Augmented(c)) = "none"
<1>1. CASE ~ c.observable.declared
  BY <1>1, NotAugmented
<1>2. CASE c.observable.declared
  <2> DEFINE a == Augmented(c)
             o == c.observable.operation_event
             e == c.observable.effect_event
             stream == ObserverStream(c)
  <2>1. /\ Elements(a.request) = Elements(c.request) \cup {Tap(c), Untap}
        /\ Elements(a.reply.variants) = Elements(c.reply.variants) \cup {OpenedReply}
        /\ Elements(a.event.variants) = Elements(c.event.variants) \cup {Observed(o), Observed(e)}
        /\ Elements(a.streams) = Elements(c.streams) \cup {stream}
    BY <1>2, ExpandedElements
  <2>2. ~ DuplicateVariant(a)
    BY ExpansionUnique
  <2>3. Resolves(a) /\ Closes(a)
    BY ExpansionResolves
  <2>4. ~ ObservableCollides(a) /\ a.event.declared
    BY <1>2 DEF ObservableCollides, Augmented, NoObservable
  <2>5. /\ stream.opened = "ObserverSubscriptionOpened"
        /\ OpenedReply.name = "ObserverSubscriptionOpened"
    BY DEF ObserverStream, OpenedReply
  <2>6. \A s \in Elements(c.streams) : s.opened \in NamesOf(c.reply.variants)
    BY ValidMeans, FaultlessMeans
  <2> HIDE DEF a, o, e, stream
  <2>7. a.streams # <<>>
    BY <2>1 DEF Elements
  <2>8. \A s \in Elements(a.streams) : s.opened \in NamesOf(a.reply.variants)
    BY <2>1, <2>5, <2>6 DEF NamesOf
  <2>9. \A s \in Elements(a.streams) : StreamFault(a, s) = "none"
    BY <2>3, <2>8 DEF StreamFault, Resolves, Closes
  <2>10. ~ UnresolvedOpens(a) /\ ~ OrphanStream(a) /\ ~ UnresolvedBelongs(a)
    BY <2>3 DEF UnresolvedOpens, OrphanStream, UnresolvedBelongs, Resolves, NamesOf
  <2>11. Validate(a) = "none"
    BY <2>2, <2>4, <2>7, <2>9, <2>10 DEF Validate
  <2> QED
    BY <2>11 DEF a
<1> QED
  BY <1>1, <1>2

\* No declaration is emitted that validation would have refused in its expanded
\* form (signal_channel in lib.rs validates first and emits afterwards).
THEOREM EmittedIsValid == Spec => [](phase = "emitted" => Validate(emitted) = "none")
<1>1. IInv => (phase = "emitted" => Validate(emitted) = "none")
  BY ExpansionValid DEF IInv
<1> QED
  BY <1>1, ChannelInvariant, PTL

\* The enums the macro emits never declare a variant twice, for every
\* declaration: validation runs before the observable block is expanded, and its
\* collision check is all that keeps the expansion apart from the author's names.
THEOREM EmittedUnique == Spec => []EmittedVariantsUnique
<1>1. IInv => EmittedVariantsUnique
  <2> SUFFICES ASSUME IInv, phase = "emitted" PROVE ~ DuplicateVariant(emitted)
    BY DEF EmittedVariantsUnique
  <2> QED
    BY ExpansionUnique DEF IInv
<1> QED
  BY <1>1, ChannelInvariant, PTL

\* The observer's stream merges with no stream of the author.
THEOREM StreamNamesStay == Spec => []StreamNamesStayUnique
<1>1. IInv => StreamNamesStayUnique
  <2> SUFFICES ASSUME IInv, phase = "emitted", Unique(channel.streams)
               PROVE  Unique(emitted.streams)
    BY DEF StreamNamesStayUnique
  <2> DEFINE added == AddedStreams(channel)
  <2>1. IsChannel(channel) /\ Validate(channel) = "none" /\ emitted = Augmented(channel)
    BY DEF IInv
  <2>2. CASE ~ channel.observable.declared
    BY <2>1, <2>2, NotAugmented
  <2>3. CASE channel.observable.declared
    <3>1. /\ IsList(channel.streams) /\ IsList(added)
          /\ Elements(added) = {ObserverStream(channel)}
          /\ Len(added) = 1
      BY <2>1, AddedLists, PairIsList DEF IsChannel, AddedStreams
    <3>2. emitted.streams = channel.streams \o added
      BY <2>1, <2>3, AugmentedParts
    <3> HIDE DEF added
    <3>3. NamesOf(added) = {"ObserverStream"}
      BY <3>1 DEF NamesOf, ObserverStream
    <3>4. "ObserverStream" \notin NamesOf(channel.streams)
      BY <2>1, <2>3, ValidMeans DEF ObservableCollides
    <3>5. Unique(added)
      <4>1. DOMAIN added = 1 .. 1
        BY <3>1, ListFacts
      <4> QED
        BY <4>1 DEF Unique
    <3> QED
      BY <3>1, <3>2, <3>3, <3>4, <3>5, ConcatUnique
  <2> QED
    BY <2>2, <2>3
<1> QED
  BY <1>1, ChannelInvariant, PTL

\* The record heads the payloads of a list project to are told apart.
HeadOf(variant) == ProjectedRecordHead(variant.payload)
HeadsApart(list) == \A i, j \in DOMAIN list : HeadOf(list[i]) = HeadOf(list[j]) => i = j

\* What a declaration has to see to by itself, for want of a check: its operations
\* project to different heads. If it opts into observation, none of them projects
\* to the type of its filter or to the token of the observer, and the filter it
\* names is not that token.
HeadsDiffer(c) ==
  /\ HeadsApart(c.request)
  /\ c.observable.declared =>
       /\ FilterIdent(c) # "ObserverSubscriptionToken"
       /\ \A i \in DOMAIN c.request :
            HeadOf(c.request[i]) \notin {FilterIdent(c), "ObserverSubscriptionToken"}

\* Heads of a list that ends with the observer's operations.
LEMMA HeadsWithObserver ==
  ASSUME NEW d, NEW l, IsList(l)
  PROVE  HeadsApart(l \o AddedOperations(d)) <=>
           /\ HeadsApart(l) /\ FilterIdent(d) # "ObserverSubscriptionToken"
           /\ \A i \in DOMAIN l :
                HeadOf(l[i]) \notin {FilterIdent(d), "ObserverSubscriptionToken"}
<1> DEFINE m == AddedOperations(d)
           c == l \o m
           n == Len(l)
<1>1. n \in Nat /\ DOMAIN l = 1 .. n
  BY ListFacts
<1>2. IsList(m) /\ Len(m) = 2 /\ m[1] = Tap(d) /\ m[2] = Untap
  BY PairIsList DEF AddedOperations
<1> HIDE DEF m
<1>3. /\ DOMAIN c = 1 .. n + 2
      /\ \A i \in 1 .. n : c[i] = l[i]
      /\ c[n + 1] = Tap(d) /\ c[n + 2] = Untap
  <2>1. /\ DOMAIN c = 1 .. n + Len(m)
        /\ \A i \in 1 .. n : c[i] = l[i]
        /\ \A i \in 1 .. Len(m) : c[n + i] = m[i]
    <3>1. IsList(l) /\ IsList(m)
      BY <1>2
    <3> QED
      BY <3>1, ConcatFacts
  <2> QED
    BY <1>2, <2>1
<1>4. HeadOf(Tap(d)) = FilterIdent(d) /\ HeadOf(Untap) = "ObserverSubscriptionToken"
  BY DEF HeadOf, ProjectedRecordHead, Tap, Untap
<1> HIDE DEF c, n
<1>5. ASSUME HeadsApart(c)
      PROVE  /\ HeadsApart(l) /\ FilterIdent(d) # "ObserverSubscriptionToken"
             /\ \A i \in DOMAIN l :
                  HeadOf(l[i]) \notin {FilterIdent(d), "ObserverSubscriptionToken"}
  <2>1. \A i \in 1 .. n : i \in DOMAIN c /\ i # n + 1 /\ i # n + 2
    BY <1>1, <1>3
  <2>2. n + 1 \in DOMAIN c /\ n + 2 \in DOMAIN c
    BY <1>1, <1>3
  <2>3. HeadsApart(l)
    BY <1>1, <1>3, <1>5, <2>1 DEF HeadsApart
  <2>4. ASSUME NEW i \in DOMAIN l
        PROVE  HeadOf(l[i]) \notin {FilterIdent(d), "ObserverSubscriptionToken"}
    <3>1. i \in DOMAIN c /\ i # n + 1 /\ i # n + 2 /\ c[i] = l[i]
      BY <1>1, <1>3, <2>1
    <3>2. HeadOf(c[i]) # HeadOf(c[n + 1]) /\ HeadOf(c[i]) # HeadOf(c[n + 2])
      BY <1>5, <2>2, <3>1 DEF HeadsApart
    <3> QED
      BY <1>3, <1>4, <3>1, <3>2
  <2>5. FilterIdent(d) # "ObserverSubscriptionToken"
    <3>1. n + 1 # n + 2
      BY <1>1
    <3> QED
      BY <1>3, <1>4, <1>5, <2>2, <3>1 DEF HeadsApart
  <2> QED
    BY <2>3, <2>4, <2>5
<1>6. ASSUME HeadsApart(l), FilterIdent(d) # "ObserverSubscriptionToken",
             \A i \in DOMAIN l :
               HeadOf(l[i]) \notin {FilterIdent(d), "ObserverSubscriptionToken"},
             NEW i \in DOMAIN c, NEW j \in DOMAIN c, HeadOf(c[i]) = HeadOf(c[j])
      PROVE  i = j
  <2>1. \A k \in DOMAIN c : k \in 1 .. n \/ k = n + 1 \/ k = n + 2
    BY <1>1, <1>3
  <2>2. ASSUME NEW k \in 1 .. n
        PROVE  HeadOf(c[k]) # FilterIdent(d) /\ HeadOf(c[k]) # "ObserverSubscriptionToken"
    BY <1>1, <1>3, <1>6, <2>2
  <2>3. HeadOf(c[n + 1]) = FilterIdent(d) /\ HeadOf(c[n + 2]) = "ObserverSubscriptionToken"
    BY <1>3, <1>4
  <2>4. CASE i \in 1 .. n /\ j \in 1 .. n
    BY <1>1, <1>3, <1>6, <2>4 DEF HeadsApart
  <2>5. CASE i \in 1 .. n /\ j \notin 1 .. n
    BY <1>6, <2>1, <2>2, <2>3, <2>5
  <2>6. CASE i \notin 1 .. n /\ j \in 1 .. n
    BY <1>6, <2>1, <2>2, <2>3, <2>6
  <2>7. CASE i \notin 1 .. n /\ j \notin 1 .. n
    BY <1>6, <2>1, <2>3, <2>7
  <2> QED
    BY <2>4, <2>5, <2>6, <2>7
<1>7. HeadsApart(c) <=>
        /\ HeadsApart(l) /\ FilterIdent(d) # "ObserverSubscriptionToken"
        /\ \A i \in DOMAIN l : HeadOf(l[i]) \notin {FilterIdent(d), "ObserverSubscriptionToken"}
  BY <1>5, <1>6 DEF HeadsApart
<1> QED
  BY <1>7 DEF c, m

\* How far the claim of macros/README.md carries: the record heads of an emitted
\* channel are unique exactly for the declarations that keep them apart themselves.
\* No check of validate.rs does it for them.
THEOREM RecordHeadsCondition ==
  Spec => [](phase = "emitted" => (RecordHeadsUnique <=> HeadsDiffer(channel)))
<1>1. IInv => (phase = "emitted" => (RecordHeadsUnique <=> HeadsDiffer(channel)))
  <2> SUFFICES ASSUME IInv, phase = "emitted" PROVE RecordHeadsUnique <=> HeadsDiffer(channel)
    OBVIOUS
  <2>1. IsChannel(channel) /\ emitted = Augmented(channel)
    BY DEF IInv
  <2>2. RecordHeadsUnique <=> HeadsApart(emitted.request)
    BY DEF RecordHeadsUnique, HeadsApart, HeadOf
  <2>3. CASE ~ channel.observable.declared
    BY <2>1, <2>2, <2>3, NotAugmented DEF HeadsDiffer
  <2>4. CASE channel.observable.declared
    <3>1. emitted.request = channel.request \o AddedOperations(channel) /\ IsList(channel.request)
      BY <2>1, <2>4, AugmentedParts DEF IsChannel
    <3> QED
      BY <2>2, <2>4, <3>1, HeadsWithObserver DEF HeadsDiffer
  <2> QED
    BY <2>3, <2>4
<1> QED
  BY <1>1, ChannelInvariant, PTL

\* The emitted stream tables close over themselves, the observer stream's
\* entries included.
THEOREM EmittedResolve == Spec => []EmittedStreamsResolve
<1>1. IInv => EmittedStreamsResolve
  <2> SUFFICES ASSUME IInv, phase = "emitted" PROVE EmittedStreamsResolve
    BY DEF EmittedStreamsResolve
  <2>1. Resolves(emitted)
    BY ExpansionResolves DEF IInv
  <2>2. ASSUME NEW i \in DOMAIN emitted.request, OpenedStream(emitted, i) # NoName
        PROVE  \E s \in Elements(emitted.streams) :
                 s.name = OpenedStream(emitted, i) /\ s.opened \in NamesOf(emitted.reply.variants)
    <3>1. emitted.request[i] \in Elements(emitted.request)
      BY DEF Elements
    <3> QED
      BY <2>1, <2>2, <3>1 DEF Resolves, OpenedStream
  <2>3. ASSUME NEW i \in DOMAIN emitted.event.variants
        PROVE  StreamKind(emitted, i) \in NamesOf(emitted.streams)
    <3>1. emitted.event.variants[i] \in Elements(emitted.event.variants)
      BY DEF Elements
    <3> QED
      BY <2>1, <3>1 DEF Resolves, StreamKind
  <2>4. ASSUME NEW s \in Elements(emitted.streams)
        PROVE  \E i \in DOMAIN emitted.request : OpenedStream(emitted, i) = s.name
    <3>1. PICK v \in Elements(emitted.request) : v.opens = s.name
      BY <2>1 DEF Resolves
    <3> QED
      BY <3>1 DEF Elements, OpenedStream
  <2>5. ASSUME NEW s \in Elements(emitted.streams), NEW e \in Elements(s.events)
        PROVE  \E i \in DOMAIN emitted.event.variants :
                 emitted.event.variants[i].name = e /\ StreamKind(emitted, i) = s.name
    <3>1. PICK v \in Elements(emitted.event.variants) : v.name = e /\ v.belongs = s.name
      BY <2>1 DEF Resolves
    <3> QED
      BY <3>1 DEF Elements, StreamKind
  <2> QED
    BY <2>2, <2>3, <2>4, <2>5 DEF EmittedStreamsResolve
<1> QED
  BY <1>1, ChannelInvariant, PTL

\* The stream lists of an emitted channel are lists.
LEMMA EmittedLists ==
  ASSUME IInv, phase = "emitted"
  PROVE  IsList(emitted.request) /\ IsList(emitted.streams)
<1>1. IsChannel(channel) /\ emitted = Augmented(channel)
  BY DEF IInv
<1>2. CASE channel.observable.declared
  BY <1>1, <1>2, ExpandedElements
<1>3. CASE ~ channel.observable.declared
  BY <1>1, <1>3, NotAugmented DEF IsChannel
<1> QED
  BY <1>2, <1>3

\* Every stream can be closed, and by an operation that carries its token: the
\* generated match takes the first stream that names the operation.
THEOREM ClosersCarry == Spec => []ClosersCarryTheirToken
<1>1. IInv => ClosersCarryTheirToken
  <2> SUFFICES ASSUME IInv, phase = "emitted" PROVE ClosersCarryTheirToken
    BY DEF ClosersCarryTheirToken
  <2> DEFINE arms(i) == {k \in DOMAIN emitted.streams : emitted.streams[k].close = emitted.request[i].name}
             first(i) == CHOOSE k \in arms(i) : \A l \in arms(i) : k <= l
  <2>1. Closes(emitted)
    BY ExpansionResolves DEF IInv
  <2>2. \A i : ClosedStream(emitted, i) = IF arms(i) = {} THEN NoName ELSE emitted.streams[first(i)].name
    BY DEF ClosedStream
  <2>3. DOMAIN emitted.streams \subseteq Nat
    BY EmittedLists, ListFacts
  <2>4. ASSUME NEW i, arms(i) # {} PROVE first(i) \in arms(i)
    <3>1. arms(i) \subseteq Nat
      BY <2>3
    <3> HIDE DEF arms
    <3>2. \E k \in arms(i) : \A l \in arms(i) : k <= l
      BY <2>4, <3>1, LeastArm
    <3> QED
      BY <3>2
  <2>5. ASSUME NEW s \in Elements(emitted.streams)
        PROVE  \E i \in DOMAIN emitted.request :
                 emitted.request[i].name = s.close /\ ClosedStream(emitted, i) # NoName
    <3>1. PICK i \in DOMAIN emitted.request : emitted.request[i].name = s.close
      BY <2>1 DEF Closes, NamesOf, Elements
    <3>2. arms(i) # {}
      BY <3>1 DEF Elements
    <3>3. first(i) \in arms(i)
      BY <2>4, <3>2
    <3>4. emitted.streams[first(i)] \in Elements(emitted.streams)
      BY <3>3 DEF Elements
    <3> HIDE DEF arms, first
    <3>5. ClosedStream(emitted, i) # NoName
      BY <2>1, <2>2, <3>2, <3>4 DEF Closes
    <3> QED
      BY <3>1, <3>5
  <2>6. ASSUME NEW i \in DOMAIN emitted.request, ClosedStream(emitted, i) # NoName
        PROVE  \E s \in Elements(emitted.streams) :
                 s.name = ClosedStream(emitted, i) /\ s.token = emitted.request[i].payload
    <3>1. arms(i) # {} /\ ClosedStream(emitted, i) = emitted.streams[first(i)].name
      <4> HIDE DEF arms, first
      <4> QED
        BY <2>2, <2>6
    <3> DEFINE s == emitted.streams[first(i)]
    <3>2. first(i) \in DOMAIN emitted.streams /\ s.close = emitted.request[i].name
      <4>1. first(i) \in arms(i)
        BY <2>4, <3>1
      <4> HIDE DEF first
      <4> QED
        BY <4>1
    <3> HIDE DEF first
    <3>3. s \in Elements(emitted.streams) /\ emitted.request[i] \in Elements(emitted.request)
      BY <3>2 DEF Elements
    <3>4. s.token = emitted.request[i].payload
      BY <2>1, <3>2, <3>3 DEF Closes
    <3> QED
      BY <3>1, <3>3, <3>4
  <2> QED
    BY <2>5, <2>6 DEF ClosersCarryTheirToken
<1> QED
  BY <1>1, ChannelInvariant, PTL

\* An operation keeps its root byte when its author adds an observable block.
THEOREM RootBytesStay == Spec => []RootBytesUnmoved
<1>1. IInv => RootBytesUnmoved
  <2> SUFFICES ASSUME IInv, phase = "emitted", NEW i \in DOMAIN channel.request,
                      NEW j \in DOMAIN emitted.request,
                      emitted.request[j].name = channel.request[i].name
               PROVE  RootByte(emitted, j) = RootByte(channel, i)
    BY DEF RootBytesUnmoved
  <2>1. IsChannel(channel) /\ Validate(channel) = "none" /\ emitted = Augmented(channel)
    BY DEF IInv
  <2>2. Unique(emitted.request)
    BY <2>1, ExpansionUnique DEF DuplicateVariant
  <2>3. i \in DOMAIN emitted.request /\ emitted.request[i] = channel.request[i]
    <3>1. CASE channel.observable.declared
      <4>1. emitted.request = channel.request \o AddedOperations(channel)
        BY <2>1, <3>1, AugmentedParts
      <4>2. IsList(channel.request) /\ IsList(AddedOperations(channel))
        BY <2>1, AddedLists DEF IsChannel
      <4>3. /\ DOMAIN channel.request = 1 .. Len(channel.request) /\ Len(channel.request) \in Nat
            /\ Len(AddedOperations(channel)) \in Nat
        BY <4>2, ListFacts
      <4>4. /\ DOMAIN (channel.request \o AddedOperations(channel)) = 1 .. Len(channel.request) + Len(AddedOperations(channel))
            /\ \A k \in 1 .. Len(channel.request) :
                 (channel.request \o AddedOperations(channel))[k] = channel.request[k]
        BY <4>2, ConcatFacts
      <4> QED
        BY <4>1, <4>3, <4>4
    <3>2. CASE ~ channel.observable.declared
      BY <2>1, <3>2, NotAugmented
    <3> QED
      BY <3>1, <3>2
  <2>4. i = j
    BY <2>2, <2>3 DEF Unique
  <2> QED
    BY <2>4 DEF RootByte
<1> QED
  BY <1>1, ChannelInvariant, PTL

=============================================================================

--------------------------- MODULE MCChannelMacro ----------------------------
(***************************************************************************)
(* A small world of declarations for ChannelMacro: operation lists and     *)
(* blocks that fit together in the good cases and miss each other by one   *)
(* name, one type or one annotation in the bad ones.                       *)
(***************************************************************************)
EXTENDS ChannelMacro

Token == <<"Token">>

Operation(name, payload, opens) == [name |-> name, payload |-> payload, opens |-> opens]

\* An opening operation and one that carries the token, under various names, and
\* a channel with more operations than a root byte has values.
MCOperations ==
  {<<Operation("Put", <<"Entry">>, NoName)>>,
   <<Operation("Put", <<"Entry">>, NoName), Operation("Keep", <<"old", "Entry">>, NoName)>>,
   <<Operation("Tap", <<"Entry">>, NoName)>>,
   <<Operation("Close", Token, "Feed")>>,
   <<Operation("Close", Token, "ObserverStream")>>,
   <<Operation("Open", <<"Entry">>, "Feed"), Operation("Close", Token, NoName),
     Operation("Put", <<"Entry">>, NoName), Operation("Keep", <<"Entry">>, NoName)>>}
    \cup
  {<<Operation("Open", <<"Entry">>, first), Operation(close, token, second)>> :
     first \in {"Feed", "Log"}, second \in {NoName, "Log"},
     close \in {"Close", "Open"}, token \in {Token, <<"other", "Token">>}}

Block(kind, body) == [kind |-> kind, body |-> body]

Variants(list) == [declared |-> TRUE, variants |-> list]

ReplyNamed(name) == [name |-> name, payload |-> <<"Entry">>]

Event(name, payload, belongs) == [name |-> name, payload |-> payload, belongs |-> belongs]

Stream(name, events) ==
  [name |-> name, token |-> Token, opened |-> "Opened", events |-> events, close |-> "Close"]

Observable(filter, operation_event, effect_event) ==
  [declared |-> TRUE, filter |-> filter, operation_event |-> operation_event,
   effect_event |-> effect_event]

MCBlocks ==
  {Block("malformed", <<>>),
   Block("reply", Variants(<<ReplyNamed("Opened")>>)),
   Block("reply", Variants(<<ReplyNamed("Opened"), ReplyNamed("ObserverSubscriptionOpened")>>)),
   Block("reply", Variants(<<ReplyNamed("Done"), ReplyNamed("Done")>>)),
   Block("event", Variants(<<Event("Item", <<"Item">>, "Feed")>>)),
   Block("event", Variants(<<Event("Item", <<"Item">>, "Log"), Event("Received", <<"Item">>, "Feed")>>)),
   Block("event", Variants(<<Event("Item", <<"Item">>, "Feed"), Event("Line", <<"m", "Item">>, "Log")>>)),
   Block("event", Variants(<<Event("Item", <<"Item">>, NoName)>>)),
   Block("event", Variants(<<Event("Item", <<"Item">>, "ObserverStream")>>)),
   Block("stream", Stream("Feed", <<"Item">>)),
   Block("stream", [Stream("Feed", <<"Item">>) EXCEPT !.close = "Open"]),
   Block("stream", [Stream("Feed", <<"Item">>) EXCEPT !.opened = "Done"]),
   Block("stream", Stream("Feed", <<>>)),
   Block("stream", Stream("Log", <<"Line">>)),
   Block("stream", Stream("ObserverStream", <<"Item">>)),
   Block("observable", Observable("default", "Received", "Emitted")),
   Block("observable", Observable("Entry", "Item", "Emitted")),
   Block("observable", Observable("default", "Received", "Received")),
   Block("observable", Observable("default", "ObserverSubscriptionToken", "Emitted"))}

=============================================================================

-------------------------- MODULE ValidatedIngress --------------------------
(***************************************************************************)
(* What the generated wire ingress promises, without the frames' layout:   *)
(* every peer's messages are answered one by one in the order they were    *)
(* sent; a message in Acceptable is handed to the handler as exactly the   *)
(* operation it carries, any other message is refused with an error and    *)
(* the handler never hears of it.  FrameIngress implements this.           *)
(***************************************************************************)
EXTENDS Naturals, Sequences

CONSTANTS
  Peers,        \* the connections
  Messages,     \* what a peer may send
  Acceptable,   \* the messages that carry one well-addressed operation
  Carried,      \* the operation each of them carries
  Refusals,     \* the errors a message may be refused with
  MaxFrames     \* bound on the messages of one peer

VARIABLES
  sent,         \* per peer, every message sent so far
  verdicts      \* per peer, what became of the messages answered so far

vars == <<sent, verdicts>>

Init ==
  /\ sent = [p \in Peers |-> <<>>]
  /\ verdicts = [p \in Peers |-> <<>>]

Send(p, message) ==
  /\ Len(sent[p]) < MaxFrames
  /\ sent' = [sent EXCEPT ![p] = Append(@, message)]
  /\ UNCHANGED verdicts

\* The oldest message of p that has no verdict yet.
Pending(p) == sent[p][Len(verdicts[p]) + 1]

Handle(p) ==
  /\ Len(verdicts[p]) < Len(sent[p])
  /\ Pending(p) \in Acceptable
  /\ verdicts' = [verdicts EXCEPT ![p] = Append(@,
       [outcome |-> "Handled", operations |-> <<Carried[Pending(p)]>>])]
  /\ UNCHANGED sent

Refuse(p) ==
  /\ Len(verdicts[p]) < Len(sent[p])
  /\ Pending(p) \notin Acceptable
  /\ \E error \in Refusals :
       verdicts' = [verdicts EXCEPT ![p] = Append(@,
         [outcome |-> error, operations |-> <<>>])]
  /\ UNCHANGED sent

Next == \E p \in Peers :
  \/ \E message \in Messages : Send(p, message)
  \/ Handle(p)
  \/ Refuse(p)

Spec == Init /\ [][Next]_vars

=============================================================================

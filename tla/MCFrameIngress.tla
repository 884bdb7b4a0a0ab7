--------------------------- MODULE MCFrameIngress ---------------------------
(***************************************************************************)
(* An instance of FrameIngress with identifiers of two or three values, so *)
(* that three operations do not fit the root byte.                         *)
(***************************************************************************)
EXTENDS FrameIngress

MCBinding == [contract |-> 2, revision |-> 2]

Request(operations) == [kind |-> "Request", operations |-> operations]

MCBodies ==
  {Request(<<operation>>) : operation \in Operations}
    \cup {Request(<<0, 1>>), [kind |-> "Reply", operations |-> <<>>]}

\* The longest archive a prefix of twelve values can declare.
ArchiveBytes == 3

OwnMessages ==
  {ArchivedMessage(Binding, route, body, ArchiveBytes) : route \in Routes, body \in MCBodies}

\* Another contract, another revision, no binding at all.
ForeignSchemas ==
  {[contract |-> 1, revision |-> 2], [contract |-> 2, revision |-> 1],
   [contract |-> 0, revision |-> 0], [contract |-> 2, revision |-> 0]}

ForeignMessages ==
  {ArchivedMessage(schema, [root |-> 0, variant |-> 0], Request(<<1>>), ArchiveBytes) :
     schema \in ForeignSchemas}

\* Inside the prefix, inside the header, inside the archive, a byte too many.
\* Nothing but the first two fields differs from a good message.
CutMessages ==
  LET whole == RequestFrame(0, ArchiveBytes) IN
  {[whole EXCEPT !.size = size] : size \in {2, 9, whole.size - 1, whole.size + 1}}
    \cup {[whole EXCEPT !.size = 6, !.declared = 2]}

DamagedMessages ==
  {ArchivedMessage(Binding, [root |-> 0, variant |-> 0], Unreadable, ArchiveBytes)}

MCMessages == OwnMessages \cup ForeignMessages \cup CutMessages \cup DamagedMessages

\* Fewer messages, for longer queues and the temporal properties.
FewMessages ==
  {RequestFrame(operation, ArchiveBytes) : operation \in Operations}
    \cup {ArchivedMessage([contract |-> 2, revision |-> 1], [root |-> 0, variant |-> 0],
                          Request(<<1>>), ArchiveBytes),
          [RequestFrame(0, ArchiveBytes) EXCEPT !.size = 9]}

=============================================================================

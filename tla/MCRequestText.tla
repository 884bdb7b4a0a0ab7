---------------------------- MODULE MCRequestText -----------------------------
(***************************************************************************)
(* A working contract with observers and a meta contract that share an     *)
(* operation whose payload types overlap, and every text of a small        *)
(* grammar: records, braces and brackets, brackets in brackets, roots that *)
(* are too many, with one atom that names no operation.                    *)
(***************************************************************************)
EXTENDS RequestText, TLC

Text == Atom("t")
List == Wrap("SquareBracket", <<Text, Text>>)

MCDeclared == [c \in Contracts |->
  IF c = Working THEN "Submit" :> {Text} @@ "Keep" :> {Text, List}
  ELSE "Keep" :> {List} @@ "Grant" :> {Text}]

MCReplies == [c \in Contracts |->
  IF c = Working THEN "Accepted" :> {Text, List} @@ "NotFound" :> {Unit}
  ELSE "Granted" :> {Unit}]

MCTokens == {Atom("7")}

Delimiters == {"Parenthesis", "SquareBracket", "Brace"}

\* The sequences of at most n of the given blocks.
UpTo(blocks, n) == UNION {[1 .. k -> blocks] : k \in 0 .. n}

Wrapped(sequences) == {Wrap(d, objects) : d \in Delimiters, objects \in sequences}

Atoms == {Atom(a) : a \in {"Submit", "Keep", "Grant", "t"}}

\* Records with a head and up to one payload too many, and what looks like one.
Records ==
  Wrapped(UpTo(Atoms, 2)) \cup
  {Wrap("Parenthesis", <<head, payload>>) : head \in Atoms, payload \in {List}} \cup
  {Wrap("Parenthesis", <<head, Text, Text>>) : head \in Atoms} \cup
  {Wrap("Parenthesis", <<Atom("Tap"), Atom("All")>>),
   Wrap("Parenthesis", <<Atom("Untap"), TokenBlock(Atom("7"))>>)}

Sequenced == {Wrap("SquareBracket", <<r>>) : r \in Records}
  \cup {Wrap("SquareBracket", <<r, s>>) : r \in Records \cup Atoms,
          s \in {b \in Records : b.delimiter = "Parenthesis"}}

Nested == {Wrap(d, <<b>>) : d \in Delimiters, b \in Sequenced}

MCDocuments ==
  {<<>>} \cup {<<b>> : b \in UNION {Atoms, Records, Sequenced, Nested}}
    \cup {<<b, c>> : b \in Records, c \in Atoms}

=============================================================================

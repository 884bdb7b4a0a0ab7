---------------------------- MODULE MCClientShape ----------------------------
(***************************************************************************)
(* A small instance of ClientShape: two working operations, one that both  *)
(* contracts name (Tap, which every observable contract has), one of the   *)
(* meta contract, one whose log variant fits no short header, and a batch  *)
(* that is too long to be framed.                                          *)
(***************************************************************************)
EXTENDS ClientShape, TLC

AnyOrder == Permutations(Invocations)

MCWorkingHeads == {"Put", "Tap", "Wide"}
MCMetaHeads == {"Tap", "Configure"}
MCUnroutableHeads == {"Wide"}
MCOversized == {<<"Put", "Put", "Put">>}

Argument(form, heads) == [form |-> form, heads |-> heads, decodes |-> TRUE]

\* Arguments that end the run before it connects.
BadArguments ==
  {Argument("none", <<>>), Argument("flag", <<>>), Argument("unreadable", <<>>),
   Argument("malformed", <<>>), Argument("inline", <<>>),
   Argument("inline", <<"Tap">>), Argument("inline", <<"Nothing">>),
   Argument("inline", <<"Put", "Configure">>),
   [Argument("inline", <<"Put">>) EXCEPT !.decodes = FALSE]}

\* Arguments that are submitted, the last two only as far as the frame.
GoodArguments ==
  {Argument("inline", <<"Put">>), Argument("file", <<"Put", "Tap">>),
   Argument("inline", <<"Configure">>), Argument("inline", <<"Wide">>),
   Argument("file", <<"Put", "Put", "Put">>)}

MCArguments == BadArguments \cup GoodArguments

FewArguments ==
  {Argument("inline", <<"Tap">>), Argument("file", <<"Put", "Put">>),
   Argument("inline", <<"Wide">>), Argument("file", <<"Put", "Put", "Put">>)}

OneArgument == {Argument("inline", <<"Put">>)}

=============================================================================

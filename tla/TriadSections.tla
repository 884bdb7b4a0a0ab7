---------------------------- MODULE TriadSections -----------------------------
(***************************************************************************)
(* The sections of the root byte that the two contracts of a component     *)
(* claim (src/namespace.rs), beside the root bytes their channels are      *)
(* emitted with (macros/src/emit.rs): the daemon that depends on both is   *)
(* compiled only if the claims are opposite, and a request then carries    *)
(* the position of its operation.                                          *)
(***************************************************************************)
EXTENDS Integers

CONSTANTS
  OperationCounts,   \* how many operations a contract may declare
  ByteSpan,          \* values of a byte: 2^8
  SectionCutoff      \* SECTION_CUTOFF: 100

VARIABLES
  phase,      \* declared, compiled or refused
  section,    \* CONTRACT_SECTION of the two contracts
  operations, \* how many operations each declares
  root        \* the root byte of the last request of each, if there was one

vars == <<phase, section, operations, root>>

Contracts == {"ordinary", "meta"}
Sections == {"Small", "Big"}
NoRequest == -1

\* classify.
Classify(byte) == IF byte < SectionCutoff THEN "Small" ELSE "Big"

\* The index of an operation, as a byte of the log variant.
RootByte(index) == index % ByteSpan

Init ==
  /\ phase = "declared"
  /\ section \in [Contracts -> Sections]
  /\ operations \in [Contracts -> OperationCounts]
  /\ root = [contract \in Contracts |-> NoRequest]

\* assert_triad_sections! compares the two claims.
CompileDaemon ==
  /\ phase = "declared"
  /\ phase' = IF section["ordinary"] # section["meta"] THEN "compiled" ELSE "refused"
  /\ UNCHANGED <<section, operations, root>>

\* A client of one of the contracts sends its request.
SendRequest(contract) ==
  /\ phase = "compiled"
  /\ \E index \in 0 .. operations[contract] - 1 :
       root' = [root EXCEPT ![contract] = RootByte(index)]
  /\ UNCHANGED <<phase, section, operations>>

Next == CompileDaemon \/ \E contract \in Contracts : SendRequest(contract)

Spec == Init /\ [][Next]_vars

\* What namespace.rs says of the two contracts: they divide the root bytes
\* between them, so that the byte of a request lies in the section its contract
\* claims.
SectionsDivideRootBytes ==
  \A contract \in Contracts :
    root[contract] # NoRequest => Classify(root[contract]) = section[contract]

=============================================================================

---------------------------- MODULE WireFrame ----------------------------
(***************************************************************************)
(* The bound wire frame of src/frame.rs and src/binding.rs as pure         *)
(* operators: the packing of the short header, the projection of a log     *)
(* variant to a route, and the checks a decoder makes, in their order,     *)
(* before it reads the archived body.  There is no state here; the         *)
(* modules that send and receive frames EXTEND this one.                   *)
(*                                                                         *)
(* The integer widths of the code are parameters, so that TLC can work     *)
(* with small ones while the theorems hold for the real ones:              *)
(*   ContractSpan = 2^32, RevisionSpan = 2^16, ByteSpan = 2^8,             *)
(*   LengthSpan = 2^32.                                                    *)
(***************************************************************************)
EXTENDS Integers, Sequences

CONSTANTS
  ContractSpan,   \* number of values of the contract field (u32)
  RevisionSpan,   \* number of values of the revision field (u16)
  ByteSpan,       \* number of values of the root and of the variant (u8)
  LengthSpan      \* number of values of the length prefix (u32)

\* A width of one would leave no identifier beside the reserved zero.
ASSUME SpanAssumption ==
  /\ ContractSpan \in Nat \ {0, 1}
  /\ RevisionSpan \in Nat \ {0, 1}
  /\ ByteSpan \in Nat \ {0, 1}
  /\ LengthSpan \in Nat

PrefixBytes == 4
HeaderBytes == 8

(***************************************************************************)
(* Bindings and routes.  Zero is reserved in both identifiers: a raw       *)
(* binding may hold it, a production binding never does.                   *)
(***************************************************************************)
RawBindings == [contract : 0 .. ContractSpan - 1, revision : 0 .. RevisionSpan - 1]
Bindings    == [contract : 1 .. ContractSpan - 1, revision : 1 .. RevisionSpan - 1]
Routes      == [root : 0 .. ByteSpan - 1, variant : 0 .. ByteSpan - 1]

\* ShortHeader::bound: contract | revision << 32 | variant << 48 | root << 56.
Header(binding, route) ==
  binding.contract
    + ContractSpan * (binding.revision
        + RevisionSpan * (route.variant + ByteSpan * route.root))

\* The identifiers in the low 48 bits, as the u32 and u16 casts read them.
HeaderBinding(header) ==
  [contract |-> header % ContractSpan,
   revision |-> (header \div ContractSpan) % RevisionSpan]

\* The route in the high sixteen bits.
HeaderRoute(header) ==
  [variant |-> ((header \div ContractSpan) \div RevisionSpan) % ByteSpan,
   root    |-> (((header \div ContractSpan) \div RevisionSpan) \div ByteSpan) % ByteSpan]

\* RawShortHeader::validate: a zero identifier never becomes a ShortHeader.
HeaderIsBound(header) == HeaderBinding(header) \in Bindings

\* WireRoute::try_from_log_variant: only the low sixteen bits may be set.
LogVariantIsRoute(value) == value < ByteSpan * ByteSpan
RouteOfLogVariant(value) ==
  [root |-> value % ByteSpan, variant |-> (value \div ByteSpan) % ByteSpan]

(***************************************************************************)
(* A message is what a reader holds of one length-prefixed frame:          *)
(*   size      the number of bytes at hand, the four of the prefix counted *)
(*   declared  the length the prefix declares                              *)
(*   header    the raw short header the producer wrote                     *)
(*   schema    the raw binding whose types the body was archived with      *)
(*   body      the body that was archived                                  *)
(* Schema and body stand for the archive's bytes.  A payload without its   *)
(* tail still shows its header, and a frame cut short has no readable body.*)
(***************************************************************************)

\* The archives that are framed at all: length_prefix refuses one whose length,
\* the header counted, the prefix cannot hold.
ArchiveLengths == {n \in Nat : HeaderBytes + n < LengthSpan}

\* encode_frame_archive and length_prefix, for one of the ArchiveLengths.
ArchivedMessage(schema, route, body, archiveBytes) ==
  [size     |-> PrefixBytes + HeaderBytes + archiveBytes,
   declared |-> HeaderBytes + archiveBytes,
   header   |-> Header(schema, route),
   schema   |-> schema,
   body     |-> body]

\* Seeded fault: the revision is not compared.
BindingVerdictContractOnly(binding, header) ==
  IF HeaderBinding(header).contract # binding.contract THEN "ContractMismatch" ELSE "Accepted"

\* ContractBinding::validate_header: the contract is compared first.
BindingVerdict(binding, header) ==
  LET found == HeaderBinding(header) IN
  IF found.contract # binding.contract THEN "ContractMismatch"
  ELSE IF found.revision # binding.revision THEN "UnsupportedWireRevision"
  ELSE "Accepted"

\* decode_length_prefixed up to the call of the archive decoder: the first
\* check that fails names the error, "Accepted" lets the decoder run.
PrefixVerdict(binding, message) ==
  IF message.size < PrefixBytes THEN "ShortLengthPrefix"
  ELSE IF message.size - PrefixBytes # message.declared THEN "LengthMismatch"
  ELSE IF message.declared < HeaderBytes THEN "ShortHeaderTooShort"
  ELSE IF ~ HeaderIsBound(message.header) THEN "UnboundHeader"
  ELSE BindingVerdict(binding, message.header)

(***************************************************************************)
(* What rkyv may make of an archive.  Bytes archived with the reader's own *)
(* types read back as the body that was archived; bytes archived with      *)
(* other types are refused by bytecheck or read as any body at all, which  *)
(* is why the header is validated first.  External: the rkyv library.      *)
(***************************************************************************)
Unreadable == [kind |-> "Unreadable", operations |-> <<>>]

ArchiveReadings(binding, message, bodies) ==
  IF message.schema = binding THEN {message.body} ELSE bodies \cup {Unreadable}

=============================================================================

----------------------------- MODULE ProtocolV5 -----------------------------
(***************************************************************************)
(* The vocabulary of ecaludp's wire protocol: the header layouts of        *)
(* header_common.h and header_v5.h, the error codes of error.h and the     *)
(* arithmetic on the header's 32-bit fields.  It has no state.             *)
(*                                                                         *)
(* A datagram is a record of the header fields the receiver reads, plus    *)
(* `size', the number of bytes of the whole datagram, and `payload', a     *)
(* token standing for the bytes behind the header.                         *)
(***************************************************************************)
EXTENDS Integers, Sequences

CONSTANT UINT32_MAX     \* largest value of a uint32_t header field

ASSUME UInt32Assumption == UINT32_MAX \in Nat \ {0}

UInt32 == 0 .. UINT32_MAX

(* n + 1 in uint32_t arithmetic: wraps to 0. *)
Inc32(n) == (n + 1) % (UINT32_MAX + 1)

HeaderCommonSize == 5   \* sizeof(HeaderCommon): magic[4], version
HeaderSize       == 24  \* sizeof(v5::Header), packed

(* enum datagram_type_uint32t; every other value is an invalid type. *)
datagram_type_unknown                 == 0
datagram_type_fragmented_message_info == 1
datagram_type_fragment                == 2
datagram_type_non_fragmented_message  == 3

(* The error codes a call to handle_datagram can leave in `error'. *)
ErrorCode == { "OK", "GENERIC_ERROR", "UNSUPPORTED_PROTOCOL_VERSION",
               "DUPLICATE_DATAGRAM", "MALFORMED_DATAGRAM",
               "MALFORMED_REASSEMBLED_MESSAGE" }

Malformed == { "MALFORMED_DATAGRAM", "MALFORMED_REASSEMBLED_MESSAGE" }

(* strncmp(a, b, 4) == 0, on byte sequences of equal length: bytes are     *)
(* compared up to and including the first NUL byte; what follows a NUL in  *)
(* both is not looked at.                                                  *)
StrncmpEqual(a, b) ==
  \A i \in DOMAIN a :
     a[i] = b[i] \/ \E j \in 1 .. (i - 1) : a[j] = 0 /\ b[j] = 0

=============================================================================

--------------------------- MODULE DatagramBuilder ---------------------------
(***************************************************************************)
(* create_datagram_list of datagram_builder_v5.cpp: how the buffers of a   *)
(* message are cut into datagrams without being copied.  The first step    *)
(* does all that comes before the loop; then each step is one round of it. *)
(*                                                                         *)
(* A buffer is its size; a part is a slice of a buffer, as an asio buffer  *)
(* behind a datagram's header is.                                          *)
(***************************************************************************)
EXTENDS ProtocolV5, FiniteSets, SequencesExt

CONSTANTS
  BufferSequences,   \* the buffer sequences a user may send (sequences of sizes)
  MaxDatagramSizes   \* the max_udp_datagram_size_ a user may have set

ASSUME InputAssumption == /\ BufferSequences \subseteq Seq(Nat)
                          /\ MaxDatagramSizes \subseteq Nat

VARIABLES
  pc,                        \* "start", "loop", "done", "invalid_argument"
  buffer_sequence,           \* from "loop" on, without zero-sized buffers
  max_udp_datagram_size,
  datagram_list,
  buffer_index,              \* counted from 1
  offset_in_current_buffer

vars == << pc, buffer_sequence, max_udp_datagram_size, datagram_list,
           buffer_index, offset_in_current_buffer >>

Sum(sizes) == FoldLeft(LAMBDA sum, size : sum + size, 0, sizes)

AsUInt32(n) == n % (UINT32_MAX + 1)

NonEmpty(buffers) ==
  FoldLeft(LAMBDA list, size : IF size > 0 THEN Append(list, size) ELSE list, << >>, buffers)

PartSize(part) == part.length

(* DatagramDescription::size(): the header's buffer and the payload's.     *)
SizeOf(datagram) ==
  HeaderSize + Sum([i \in DOMAIN datagram.parts |-> PartSize(datagram.parts[i])])

Part(buffer, offset, length) == [buffer |-> buffer, offset |-> offset, length |-> length]

Whole(buffers) == [i \in DOMAIN buffers |-> Part(i, 0, buffers[i])]

PayloadBytesPerDatagram == max_udp_datagram_size - HeaderSize

(* Fault: rounds down.                                                     *)
NeededFragmentCountRoundedDown(total_size) == AsUInt32(total_size) \div PayloadBytesPerDatagram

(* A division that rounds up, in uint32_t arithmetic.                      *)
NeededFragmentCount(total_size) ==
  AsUInt32(total_size + (PayloadBytesPerDatagram - 1)) \div PayloadBytesPerDatagram

-----------------------------------------------------------------------------

Init == /\ pc = "start"
        /\ buffer_sequence \in BufferSequences
        /\ max_udp_datagram_size \in MaxDatagramSizes
        /\ datagram_list = << >>
        /\ buffer_index = 1
        /\ offset_in_current_buffer = 0

Refuse == /\ max_udp_datagram_size <= HeaderSize
          /\ pc' = "invalid_argument"
          /\ UNCHANGED << buffer_sequence, datagram_list >>

create_non_fragmented_datagram(buffers) ==
  /\ pc' = "done"
  /\ datagram_list' = << [ type  |-> datagram_type_non_fragmented_message,
                           num   |-> 1,
                           len   |-> AsUInt32(Sum(buffers)),
                           parts |-> Whole(buffers) ] >>

(* The info datagram; the fragments are made by the loop.                  *)
create_fragmented_datagram_list(buffers) ==
  /\ pc' = "loop"
  /\ datagram_list' = << [ type  |-> datagram_type_fragmented_message_info,
                           num   |-> NeededFragmentCount(AsUInt32(Sum(buffers))),
                           len   |-> AsUInt32(Sum(buffers)),
                           parts |-> << >> ] >>

create_datagram_list ==
  /\ pc = "start"
  /\ \/ Refuse
     \/ /\ max_udp_datagram_size > HeaderSize
        /\ buffer_sequence' = NonEmpty(buffer_sequence)
        /\ \/ /\ Sum(buffer_sequence') + HeaderSize <= max_udp_datagram_size
              /\ create_non_fragmented_datagram(buffer_sequence')
           \/ /\ Sum(buffer_sequence') + HeaderSize > max_udp_datagram_size
              /\ create_fragmented_datagram_list(buffer_sequence')
  /\ UNCHANGED << max_udp_datagram_size, buffer_index, offset_in_current_buffer >>

(* The list with a datagram at its end that has room.                      *)
WithRoom(list) ==
  IF Len(list) <= 1 \/ SizeOf(Last(list)) >= max_udp_datagram_size
  THEN Append(list, [ type  |-> datagram_type_fragment,
                      num   |-> AsUInt32(Len(list) - 1),
                      len   |-> 0,
                      parts |-> << >> ])
  ELSE list

(* Fault: the header is not part of the datagram.                          *)
BytesToFitWithoutHeader(datagram) ==
  LET room == max_udp_datagram_size - (SizeOf(datagram) - HeaderSize)
      left == buffer_sequence[buffer_index] - offset_in_current_buffer
  IN  IF room <= left THEN room ELSE left

(* Fault: what is left is measured from the start of the buffer.           *)
BytesToFitFromStart(datagram) ==
  LET room == max_udp_datagram_size - SizeOf(datagram)
      left == buffer_sequence[buffer_index]
  IN  IF room <= left THEN room ELSE left

BytesToFit(datagram) ==
  LET room == max_udp_datagram_size - SizeOf(datagram)
      left == buffer_sequence[buffer_index] - offset_in_current_buffer
  IN  IF room <= left THEN room ELSE left

WithPart(datagram, length) ==
  [datagram EXCEPT !.parts = Append(@, Part(buffer_index, offset_in_current_buffer, length)),
                   !.len   = AsUInt32(@ + length)]

FillDatagram ==
  /\ pc = "loop"
  /\ buffer_index <= Len(buffer_sequence)
  /\ LET list  == WithRoom(datagram_list)
         bytes == BytesToFit(Last(list))
     IN  /\ datagram_list' = Append(Front(list), WithPart(Last(list), bytes))
         /\ \/ /\ offset_in_current_buffer + bytes >= buffer_sequence[buffer_index]
               /\ buffer_index' = buffer_index + 1
               /\ offset_in_current_buffer' = 0
            \/ /\ offset_in_current_buffer + bytes < buffer_sequence[buffer_index]
               /\ offset_in_current_buffer' = offset_in_current_buffer + bytes
               /\ UNCHANGED buffer_index
  /\ UNCHANGED << pc, buffer_sequence, max_udp_datagram_size >>

(* Fault: off by one in the loop's condition.                              *)
LeaveLoopLate ==
  /\ pc = "loop"
  /\ buffer_index > Len(buffer_sequence) + 1
  /\ pc' = "done"
  /\ UNCHANGED << buffer_sequence, max_udp_datagram_size, datagram_list,
                  buffer_index, offset_in_current_buffer >>

LeaveLoop ==
  /\ pc = "loop"
  /\ buffer_index > Len(buffer_sequence)
  /\ pc' = "done"
  /\ UNCHANGED << buffer_sequence, max_udp_datagram_size, datagram_list,
                  buffer_index, offset_in_current_buffer >>

Next == create_datagram_list \/ FillDatagram \/ LeaveLoop

Spec == Init /\ [][Next]_vars /\ WF_vars(Next)

-----------------------------------------------------------------------------
(* Correctness.                                                            *)

(* The bytes of a part, each named by its buffer and its place in it.      *)
BytesOf(part) == [i \in 1 .. part.length |-> << part.buffer, part.offset + i >>]

Payload(datagram) == FlattenSeq([i \in DOMAIN datagram.parts |-> BytesOf(datagram.parts[i])])

PayloadOfList(list) == FlattenSeq([i \in DOMAIN list |-> Payload(list[i])])

AllBytes == FlattenSeq([i \in DOMAIN buffer_sequence |->
                          BytesOf(Part(i, 0, buffer_sequence[i]))])

Fragments == IF datagram_list = << >> THEN << >> ELSE Tail(datagram_list)

(* Put together in their order, the payloads of the finished list are the  *)
(* user's bytes: none is left out, repeated or moved, wherever the buffer  *)
(* boundaries lie; and the list is never ahead of that.                    *)
PayloadIsTheUsersBytes ==
  /\ IsPrefix(PayloadOfList(datagram_list), AllBytes)
  /\ pc = "done" => PayloadOfList(datagram_list) = AllBytes

(* No datagram is larger than the user allows, and every fragment but the  *)
(* last is as large as the user allows.                                    *)
DatagramsAreAsLargeAsAllowed ==
  /\ \A i \in DOMAIN datagram_list : SizeOf(datagram_list[i]) <= max_udp_datagram_size
  /\ \A i \in DOMAIN Fragments : i < Len(Fragments) =>
        SizeOf(Fragments[i]) = max_udp_datagram_size

(* Rounding up the number of fragments does not leave the uint32_t.        *)
FarFromTheLimit == Sum(buffer_sequence) + PayloadBytesPerDatagram - 1 <= UINT32_MAX

(* The info's num and len, which are computed before the loop, agree with  *)
(* the fragments the loop then makes, wherever buffers and datagrams end:  *)
(* so many bytes, so many fragments if the rounding does not overflow, and *)
(* each fragment has the number that follows the one before.  The receiver *)
(* relies on it to know when a message is complete.                        *)
InfoAnnouncesTheFragments ==
  (pc = "done" /\ Len(datagram_list) > 1 /\ Sum(buffer_sequence) <= UINT32_MAX) =>
     /\ datagram_list[1].type = datagram_type_fragmented_message_info
     /\ datagram_list[1].len = Sum([i \in DOMAIN Fragments |-> Fragments[i].len])
     /\ FarFromTheLimit => datagram_list[1].num = Len(Fragments)
     /\ \A i \in 2 .. Len(Fragments) : Fragments[i].num = Fragments[i - 1].num + 1

(* What the README says of a fragmented message's headers, of whatever     *)
(* size up to the limit (README.md:7): the info's num is the amount of     *)
(* fragments (README.md:123), and the fragments are numbered from 1 to n   *)
(* (README.md:132).  The code differs in both: the rounding in             *)
(* create_fragmented_datagram_list overflows when the size is within a     *)
(* datagram's payload of the limit, and its loop numbers from 0.           *)
HeadersAreAsDocumented ==
  (pc = "done" /\ Len(datagram_list) > 1 /\ Sum(buffer_sequence) <= UINT32_MAX) =>
     /\ datagram_list[1].num = Len(Fragments)
     /\ \A i \in DOMAIN Fragments : Fragments[i].num = i

(* The loop ends.                                                          *)
BuilderTerminates == <>(pc \in {"done", "invalid_argument"})

=============================================================================

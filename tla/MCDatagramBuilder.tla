------------------------- MODULE MCDatagramBuilder -------------------------
(***************************************************************************)
(* DatagramBuilder for every sequence of up to MCMaxBuffers buffers of up  *)
(* to MCMaxBufferSize bytes, empty ones included, whose sum is in          *)
(* MCTotals.                                                               *)
(***************************************************************************)
EXTENDS DatagramBuilder

CONSTANTS MCMaxBuffers, MCMaxBufferSize, MCTotals

MCBufferSequences ==
  {buffers \in UNION {[1 .. n -> 0 .. MCMaxBufferSize] : n \in 0 .. MCMaxBuffers} :
      Sum(buffers) \in MCTotals}

(* One size at which not even the header fits, and small payloads.         *)
MCSizes == {HeaderSize, HeaderSize + 1, HeaderSize + 2, HeaderSize + 3, HeaderSize + 5}

=============================================================================

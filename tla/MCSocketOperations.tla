------------------------ MODULE MCSocketOperations ------------------------
(***************************************************************************)
(* SocketOperations with a whole message and an empty datagram.            *)
(***************************************************************************)
EXTENDS SocketOperations

CONSTANTS e1, p0, p1

MCMagic == << 69, 67, 65, 76 >>

MCDatagram(type, num, len, payload, size) ==
  [magic |-> MCMagic, version |-> 5, type |-> type, id |-> 1,
   num |-> num, len |-> len, payload |-> payload, size |-> size]

MCEmpty    == MCDatagram(1, 0, 0, p0, 0)
MCWhole    == MCDatagram(3, 1, 1, p1, 25)

MCDatagrams == {MCEmpty, MCWhole}
MCPackets   == {e1} \X MCDatagrams

=============================================================================

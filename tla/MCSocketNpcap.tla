--------------------------- MODULE MCSocketNpcap ---------------------------
(***************************************************************************)
(* SocketNpcap with a message of two fragments from e1 and a message of    *)
(* one datagram with the same id from e2.                                  *)
(***************************************************************************)
EXTENDS SocketNpcap

CONSTANTS e1, e2, p0, p1, q0

MCMagic == << 69, 67, 65, 76 >>

MCDatagram(magic, type, num, len, payload, size) ==
  [magic |-> magic, version |-> 5, type |-> type, id |-> 1,
   num |-> num, len |-> len, payload |-> payload, size |-> size]

MCFirst  == { MCDatagram(MCMagic, 1, 2, 2, p0, 24), MCDatagram(MCMagic, 2, 0, 1, p0, 25),
              MCDatagram(MCMagic, 2, 1, 1, p1, 25) }
MCSecond == { MCDatagram(MCMagic, 3, 1, 1, q0, 25) }

MCDatagrams == MCFirst \cup MCSecond
MCPackets   == ({e1} \X MCFirst) \cup ({e2} \X MCSecond)

=============================================================================

----------------------------- MODULE MCSocket -----------------------------
(***************************************************************************)
(* Socket with the datagrams of one message of two fragments, a fragment   *)
(* that is shorter than it says, and datagrams the socket should not take: *)
(* alien magic bytes, a later protocol version, a datagram too short.      *)
(***************************************************************************)
EXTENDS Socket

CONSTANTS p0, p1

(* 'ECAL', the magic of the samples. *)
MCMagic      == << 69, 67, 65, 76 >>
MCAlienMagic == << 69, 67, 65, 77 >>

MCDatagram(magic, version, type, num, len, payload, size) ==
  [magic |-> magic, version |-> version, type |-> type, id |-> 1,
   num |-> num, len |-> len, payload |-> payload, size |-> size]

MCOwn == { MCDatagram(MCMagic, 5, 1, 2, 3, p0, 24), MCDatagram(MCMagic, 5, 2, 0, 1, p0, 25),
           MCDatagram(MCMagic, 5, 2, 1, 2, p1, 26), MCDatagram(MCMagic, 5, 2, 1, 2, p0, 25) }

MCForeign == { MCDatagram(MCAlienMagic, 5, 2, 0, 1, p1, 25), MCDatagram(MCAlienMagic, 5, 3, 1, 1, p1, 25),
               MCDatagram(MCMagic, 6, 2, 0, 1, p1, 25), MCDatagram(MCMagic, 5, 2, 0, 1, p1, 4) }

MCDatagrams == MCOwn \cup MCForeign

=============================================================================

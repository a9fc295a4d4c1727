--------------------------- MODULE MCReassembly ---------------------------
(***************************************************************************)
(* Reassembly on its own: two announcements for one id that disagree, and  *)
(* fragments that are too large, too far out or shorter than they say.     *)
(***************************************************************************)
EXTENDS Reassembly

CONSTANTS p0, p1

MCDatagram(type, num, len, payload, size) ==
  [type |-> type, id |-> 1, num |-> num, len |-> len, payload |-> payload, size |-> size]

MCInfos == { MCDatagram(1, 2, 3, p0, 24), MCDatagram(1, 1, 1, p0, 24), MCDatagram(1, 0, 0, p0, 24) }

MCFragments == { MCDatagram(2, 0, 1, p0, 25), MCDatagram(2, 1, 2, p1, 26),
                 MCDatagram(2, 1, 1, p0, 26), MCDatagram(2, 2, 2, p0, 25),
                 MCDatagram(2, 2, 1, p1, 25), MCDatagram(2, UINT32_MAX, 1, p1, 25) }

MCOthers == { MCDatagram(3, 1, 1, p0, 25), MCDatagram(3, 1, 2, p0, 25),
              MCDatagram(0, 1, 1, p0, 25), MCDatagram(1, 2, 3, p0, 23) }

MCDatagrams == MCInfos \cup MCFragments \cup MCOthers

=============================================================================

------------------------------ MODULE MCLink ------------------------------
(***************************************************************************)
(* Links with some of four messages: `long', `short' and `twin' are       *)
(* fragmented and come from the same endpoint, `tiny' fits into one       *)
(* datagram.                                                               *)
(***************************************************************************)
EXTENDS EcaludpLink

CONSTANTS e1, e2, long, short, tiny, twin

MCData == { "a", "b", "c", "d", "e", "f", "g", "h", "x" }

MCView(data, size) == [data |-> data, size |-> size]

MCChunks == [ m \in Messages |->
                CASE m = long  -> << MCView("a", 2), MCView("b", 2), MCView("c", 1) >>
                  [] m = short -> << MCView("d", 2), MCView("e", 2) >>
                  [] m = twin  -> << MCView("g", 2), MCView("h", 2) >>
                  [] m = tiny  -> << MCView("f", 1) >> ]

MCSenderOf == [ m \in Messages |-> IF m = tiny THEN e2 ELSE e1 ]

MCMagic == << 69, 67, 65, 76 >>

(* A fragment of a program with other magic bytes, for an id in use.       *)
MCAliens == { [magic |-> << 69, 67, 65, 77 >>, version |-> 5, type |-> 2, id |-> 1,
               num |-> 0, len |-> 1, payload |-> "x", size |-> 25] }

=============================================================================

----------------------------- MODULE Connection -----------------------------
(***************************************************************************)
(* One direction of a connection: the io.Writer at one end, the io.Reader  *)
(* at the other.                                                           *)
(***************************************************************************)
EXTENDS Frame

CONSTANT MaxWire  \* bound: what is written begins on a wire shorter than this

VARIABLES
  wire,    \* every cell written to the connection so far
  closed   \* the writing end has been closed: the wire is final

(* The cells of the wire from position p, n of them. *)
Cells(p, n) == SubSeq(wire, p + 1, p + n)

HeaderAt(p) == HeaderOf(Cells(p, MessageHeaderSize))
=============================================================================

---------------------------- MODULE JsonPrintbuf ----------------------------
(* json-c: the growing buffer that values are printed into and tokens are     *)
(* collected in (printbuf.c, printbuf.h).  Only sizes matter.  Allocations     *)
(* succeed.                                                                   *)
EXTENDS Integers, Sequences

CONSTANTS
  PrintbufSize,      \* 32 in printbuf_new
  PieceLengths,      \* lengths of the pieces that are appended
  MaxText            \* longest text the client builds

ASSUME PbAssumption == PrintbufSize \in Nat \ {0} /\ PieceLengths \subseteq Nat /\ MaxText \in Nat

VARIABLES
  pbuf,              \* struct printbuf: size, bpos; closed: a terminator follows the
                     \* text; inside: no byte has been written behind the end
  pwanted            \* length of the text the client has asked for since the reset
pbVars == <<pbuf, pwanted>>

Bytes(p, len) ==
  [p EXCEPT !.bpos = @ + len, !.closed = FALSE, !.inside = @ /\ p.bpos + len <= p.size]
Close(p) == [p EXCEPT !.closed = TRUE, !.inside = @ /\ p.bpos < p.size]
printbuf_extend(p, min_size) ==
  IF p.size >= min_size THEN p
  ELSE [p EXCEPT !.size = IF 2 * @ < min_size + 8 THEN min_size + 8 ELSE 2 * @]
printbuf_memappend(p, len) ==
  LET q == IF p.size <= p.bpos + len + 1 THEN printbuf_extend(p, p.bpos + len + 1) ELSE p
  IN  Close(Bytes(q, len))
\* Takes a piece that leaves no room for the terminator.
Bug_printbuf_memappend_fast(p, len) ==
  IF p.size - p.bpos >= len
  THEN Close(Bytes(p, len))
  ELSE printbuf_memappend(p, len)
printbuf_memappend_fast(p, len) ==
  IF p.size - p.bpos > len
  THEN Close(Bytes(p, len))
  ELSE printbuf_memappend(p, len)

\* At the end of the text, as indent calls it; writes no terminator.
printbuf_memset(p, len) ==
  LET q == IF p.size < p.bpos + len THEN printbuf_extend(p, p.bpos + len) ELSE p
  IN  Bytes(q, len)
printbuf_reset(p) == Close([p EXCEPT !.bpos = 0])

PbInit ==
  /\ pbuf = [size |-> PrintbufSize, bpos |-> 0, closed |-> FALSE, inside |-> TRUE]
  /\ pwanted = 0

Want(n) == pwanted + n <= MaxText /\ pwanted' = pwanted + n
PbReset == pbuf' = printbuf_reset(pbuf) /\ pwanted' = 0
PbAppend ==
  \E n \in PieceLengths : /\ Want(n)
                          /\ pbuf' \in {printbuf_memappend(pbuf, n), printbuf_memappend_fast(pbuf, n)}
\* indent, which the printers always follow with another piece (sprintbuf).
PbIndent ==
  \E n, k \in PieceLengths :
    Want(n + k) /\ pbuf' = printbuf_memappend(printbuf_memset(pbuf, n), k)
PbNext == PbReset \/ PbAppend \/ PbIndent
PbSpec == PbInit /\ [][PbNext]_pbVars

\* What was asked for is all there, closed by a terminator and inside the
\* allocation, whatever pieces the text came in.
TextWholeAndClosed ==
  pbuf.inside /\ pbuf.bpos = pwanted /\ (pwanted > 0 => pbuf.closed)
=============================================================================

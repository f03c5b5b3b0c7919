------------------------------- MODULE Window -------------------------------
(***************************************************************************)
(* Window.c: the sender's window, a circular array of the packets sent and *)
(* not yet acknowledged.  The array is indexed by seq % size.  lower is    *)
(* the first packet not acknowledged, current the next one to be sent, and *)
(* upper the first one the window has no room for.                         *)
(*                                                                         *)
(* An entry keeps the packet's sequence number and payload: every packet   *)
(* of the window is a DATA packet, so the rest of it is known.             *)
(***************************************************************************)
EXTENDS Packet

\* A WindowEntry as calloc leaves it.
EmptyEntry == [seq |-> 0, used |-> FALSE, data |-> Nil]

\* struct RcopyInfo before filename_state: memset 0, no array.
no_window == [entry |-> <<>>, size |-> 0, lower |-> 0, current |-> 0, upper |-> 0]

window_init(size, start_seq) ==
    [ entry   |-> [spot \in 0 .. size - 1 |-> EmptyEntry],
      size    |-> size,
      lower   |-> start_seq,
      current |-> start_seq,
      upper   |-> Add32(start_seq, size) ]

\* Slip: one packet too many.
window_open_slip(w) == w.current <= w.upper

window_open(w) == w.current < w.upper

window_empty(w) == w.lower = w.current

window_add(w, seq, data) ==
    [w EXCEPT !.entry[seq % w.size] = [seq |-> seq, used |-> TRUE, data |-> data],
              !.current = IF seq = @ THEN Add32(@, 1) ELSE @]

\* Whether the entry of seq holds seq.
window_find(w, seq) ==
    /\ w.entry[seq % w.size].used
    /\ w.entry[seq % w.size].seq = seq

\* The packets window_lowest's loop would stop at; it returns the least, NULL if none.
window_unacked(w) == {seq \in w.lower .. w.current - 1 : window_find(w, seq)}

\* Slip: the RR's own number, which is the packet still expected, is freed too.
Acked_slip(w, spot, rr_seq) ==
    /\ w.entry[spot].seq \in w.lower .. w.current - 1
    /\ w.entry[spot].seq <= rr_seq
    /\ w.entry[spot].seq % w.size = spot

\* Whether the first loop of window_rr clears this entry.
Acked(w, spot, rr_seq) ==
    /\ w.entry[spot].seq \in w.lower .. w.current - 1
    /\ w.entry[spot].seq < rr_seq
    /\ w.entry[spot].seq % w.size = spot

window_cleared(w, rr_seq) ==
    [w EXCEPT !.entry = [spot \in 0 .. w.size - 1 |->
        [w.entry[spot] EXCEPT !.used = @ /\ ~Acked(w, spot, rr_seq)]]]

\* The second loop moves lower to the first packet still held, or to current.
window_slid(w) ==
    LET lower == IF w.lower < w.current THEN Min(window_unacked(w) \cup {w.current})
                                        ELSE w.lower
    IN  [w EXCEPT !.lower = lower, !.upper = Add32(lower, w.size)]

\* Slip: the lower edge follows every RR, an old one too.
window_rr_slip(w, rr_seq) ==
    [window_cleared(w, rr_seq) EXCEPT !.lower = rr_seq, !.upper = Add32(rr_seq, w.size)]

window_rr(w, rr_seq) == window_slid(window_cleared(w, rr_seq))

\* The type of a window whose packets carry data of D.
IsWindow(w, D) ==
    /\ w \in [entry : {w.entry}, size : Nat, lower : SeqNum, current : SeqNum, upper : SeqNum]
    /\ w.entry \in [0 .. w.size - 1 -> [seq : SeqNum, used : BOOLEAN, data : D]]
=============================================================================

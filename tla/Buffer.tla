------------------------------- MODULE Buffer -------------------------------
(***************************************************************************)
(* Buffer.c: the receiver's buffer, a circular array of the packets that   *)
(* have arrived and are not yet written to the output file.  expected is   *)
(* the next packet to write; missing_seq and missing_active remember which *)
(* packet was last asked for with a reject (SREJ).                         *)
(***************************************************************************)
EXTENDS Packet

\* A BufferEntry as calloc leaves it.
FreeEntry == [seq |-> 0, used |-> FALSE, data |-> Nil]

\* struct ServerInfo before filename_state: memset 0, no array.
no_buffer == [entry |-> <<>>, size |-> 0, expected |-> 0,
              missing_seq |-> 0, missing_active |-> FALSE]

buffer_init(size, start_seq) ==
    [ entry          |-> [spot \in 0 .. size - 1 |-> FreeEntry],
      size           |-> size,
      expected       |-> start_seq,
      missing_seq    |-> 0,
      missing_active |-> FALSE ]

buffer_expected(b) == b.expected

buffer_in_window(b, seq) ==
    /\ seq >= b.expected
    /\ seq < Add32(b.expected, b.size)

buffer_has(b, seq) ==
    /\ b.entry[seq % b.size].used
    /\ b.entry[seq % b.size].seq = seq

buffer_has_later(b) ==
    \E spot \in DOMAIN b.entry :
        /\ b.entry[spot].used
        /\ b.entry[spot].seq > b.expected

buffer_save(b, seq, data) ==
    IF buffer_has(b, seq)
    THEN b
    ELSE [b EXCEPT !.entry[seq % b.size] = [seq |-> seq, used |-> TRUE, data |-> data]]

\* Slip: the array is not indexed.
buffer_ready_slip(b) == b.entry[0].data

\* The payload that the loop of buffer_write_ready writes next.
buffer_ready(b) == b.entry[b.expected % b.size].data

\* Slip: the written entry is not freed.
buffer_wrote_slip(b) == [b EXCEPT !.expected = Add32(@, 1)]

\* What one turn of that loop does to the buffer.
buffer_wrote(b) ==
    [b EXCEPT !.entry[b.expected % b.size].used = FALSE,
              !.expected = Add32(@, 1)]

\* buffer_need_reject: what it returns, and the request it then remembers.
buffer_need_reject(b) ==
    \/ ~b.missing_active
    \/ b.missing_seq # b.expected

buffer_rejected(b) ==
    [b EXCEPT !.missing_active = TRUE, !.missing_seq = b.expected]

\* Slip: the request is never forgotten.
buffer_clear_reject_slip(b, seq) == b

buffer_clear_reject(b, seq) ==
    [b EXCEPT !.missing_active = @ /\ b.missing_seq # seq]

\* The type of a buffer whose packets carry data of D.
IsBuffer(b, D) ==
    /\ b \in [entry : {b.entry}, size : Nat, expected : SeqNum,
              missing_seq : SeqNum, missing_active : BOOLEAN]
    /\ b.entry \in [0 .. b.size - 1 -> [seq : SeqNum, used : BOOLEAN, data : D]]
=============================================================================

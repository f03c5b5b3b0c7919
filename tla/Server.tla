------------------------------- MODULE Server -------------------------------
(***************************************************************************)
(* server.c: the main process, which forks a child for every good FILENAME *)
(* packet it receives, and the children, each of which receives one file.  *)
(* The children share the file system: all of them write the output file   *)
(* that the FILENAME names, each through its own descriptor and offset.    *)
(*                                                                         *)
(* A child blocks in recvfrom or in a pollCall with a time-out, except     *)
(* while buffer_write_ready writes: "writing" is that loop, in which every *)
(* write is a step, since another child may truncate the file in between.  *)
(*                                                                         *)
(* Bound: there are as many forks as there are members of Child; a         *)
(* FILENAME that arrives later is dropped, as if the network had lost it.  *)
(***************************************************************************)
EXTENDS Buffer, Network

CONSTANTS
    ServerTries    \* MAX_TRIES of server.h

ASSUME ServerAssumption == ServerTries \in Nat \ {0}

FIRST_DATA_SEQ == 2

VARIABLES
    child_state,   \* the STATE of process_client, or "UNUSED" before the fork
    asked_size,    \* the window size in first_packet
    writing,       \* whether the child is in buffer_write_ready
    buffer,        \* info.buffer
    offset,        \* the offset of output_file, in halves of chunks
    child_retry,   \* info.retry_count
    failed,        \* whether the child ended in an error
    disk           \* the output file, place by place; Nil where nothing has been written

serverVars == <<child_state, asked_size, writing, buffer, offset, child_retry,
                failed, disk>>

ServerInit ==
    /\ child_state = [c \in Child |-> "UNUSED"]
    /\ asked_size = [c \in Child |-> 0]
    /\ writing = [c \in Child |-> FALSE]
    /\ buffer = [c \in Child |-> no_buffer]
    /\ offset = [c \in Child |-> 0]
    /\ child_retry = [c \in Child |-> 0]
    /\ failed = [c \in Child |-> FALSE]
    /\ disk = <<>>

\* Child c goes to state s; the network has the packets ps for rcopy.
GoesTo(c, s) == child_state' = [child_state EXCEPT ![c] = s]

\* Child c leaves process_client, or exits, because of an error.
Fails(c) ==
    /\ GoesTo(c, "DONE")
    /\ failed' = [failed EXCEPT ![c] = TRUE]

\* Child c answers rcopy with the packets ps; box is what its receive left.
child_sends(box, ps) == inbox' = Posted(box, Client, ps)

\* Slip: the RR names one packet more than has been written.
send_rr_slip(c, b) == make_packet(c, "RR", buffer_expected(b) + 1, Nil)

send_rr(c, b) == make_packet(c, "RR", buffer_expected(b), Nil)
send_reject(c, b) == make_packet(c, "SREJ", buffer_expected(b), Nil)
send_filename_response(c, value) == make_packet(c, "FILENAME_RESP", value, Nil)
send_eof_ack(c) == make_packet(c, "EOF_ACK", 0, Nil)

-----------------------------------------------------------------------------
(* process_server: the main process                                        *)

\* fork, and start_state of the child.
fork(c, p) ==
    /\ child_state[c] = "UNUSED"
    /\ GoesTo(c, "FILENAME")
    /\ asked_size' = [asked_size EXCEPT ![c] = p.num]

main_recv(p) ==
    /\ Arrives(Main, p)
    /\ inbox' = Taken(Main)
    /\ \/ IsGood(p, "FILENAME") /\ \E c \in Child : fork(c, p)
       \/ /\ IsGood(p, "FILENAME") => \A c \in Child : child_state[c] # "UNUSED"
          /\ UNCHANGED <<child_state, asked_size>>
    /\ UNCHANGED <<writing, buffer, offset, child_retry, failed, disk, faults>>

-----------------------------------------------------------------------------
(* filename_state of a child                                               *)

\* open with O_CREAT and O_TRUNC.
filename_open(c) ==
    /\ child_state[c] = "FILENAME"
    /\ disk' = <<>>
    /\ child_sends(inbox, <<send_filename_response(c, 0)>>)
    /\ buffer' = [buffer EXCEPT ![c] = buffer_init(asked_size[c], FIRST_DATA_SEQ)]
    /\ GoesTo(c, "RECV_DATA")
    /\ UNCHANGED <<asked_size, writing, offset, child_retry, failed, faults>>

filename_open_error(c) ==
    /\ "open" \in IoFaults
    /\ child_state[c] = "FILENAME"
    /\ child_sends(inbox, <<send_filename_response(c, 1)>>)
    /\ Fails(c)
    /\ UNCHANGED <<asked_size, writing, buffer, offset, child_retry, disk, faults>>

-----------------------------------------------------------------------------
(* recv_data_state and handle_data_packet                                  *)

may_receive(c, p, s) ==
    /\ child_state[c] = s
    /\ ~writing[c]
    /\ Arrives(c, p)

\* Already written, or beyond the buffer: answer with an RR.
data_outside(c, p) ==
    /\ ~buffer_in_window(buffer[c], p.num)
    /\ child_sends(Taken(c), <<send_rr(c, buffer[c])>>)
    /\ UNCHANGED <<buffer, writing>>

\* The expected packet: save it and go on to write.
data_expected(c, p) ==
    /\ buffer_in_window(buffer[c], p.num)
    /\ p.num = buffer_expected(buffer[c])
    /\ inbox' = Taken(c)
    /\ buffer' = [buffer EXCEPT ![c] =
                    buffer_clear_reject(buffer_save(@, p.num, p.data), p.num)]
    /\ writing' = [writing EXCEPT ![c] = TRUE]

\* A later packet: save it, and ask once for the expected one.
data_later(c, p) ==
    LET saved == buffer_save(buffer[c], p.num, p.data) IN
    /\ buffer_in_window(buffer[c], p.num)
    /\ p.num # buffer_expected(buffer[c])
    /\ IF buffer_need_reject(saved)
       THEN /\ child_sends(Taken(c), <<send_reject(c, saved)>>)
            /\ buffer' = [buffer EXCEPT ![c] = buffer_rejected(saved)]
       ELSE /\ inbox' = Taken(c)
            /\ buffer' = [buffer EXCEPT ![c] = saved]
    /\ UNCHANGED writing

recv_data(c, p) ==
    /\ may_receive(c, p, "RECV_DATA")
    /\ IsGood(p, "DATA")
    /\ data_outside(c, p) \/ data_expected(c, p) \/ data_later(c, p)
    /\ UNCHANGED <<child_state, asked_size, offset, child_retry, failed, disk, faults>>

\* handle_eof_packet does not look at the buffer.
recv_eof(c, p) ==
    /\ may_receive(c, p, "RECV_DATA")
    /\ IsGood(p, "EOF")
    /\ child_sends(Taken(c), <<send_eof_ack(c)>>)
    /\ child_retry' = [child_retry EXCEPT ![c] = 0]
    /\ GoesTo(c, "WAIT_ON_DONE")
    /\ UNCHANGED <<asked_size, writing, buffer, offset, failed, disk, faults>>

\* A damaged packet, or one of another kind.
recv_data_ignore(c, p) ==
    /\ may_receive(c, p, "RECV_DATA")
    /\ ~IsGood(p, "DATA") /\ ~IsGood(p, "EOF")
    /\ inbox' = Taken(c)
    /\ UNCHANGED <<serverVars, faults>>

\* Slip: the time-out is not acted upon.
recv_data_timeout_slip(c) ==
    /\ child_state[c] = "RECV_DATA" /\ ~writing[c]
    /\ UNCHANGED <<serverVars, networkVars>>

\* Ten seconds without a packet.
recv_data_timeout(c) ==
    /\ child_state[c] = "RECV_DATA" /\ ~writing[c]
    /\ Fails(c)
    /\ UNCHANGED <<asked_size, writing, buffer, offset, child_retry, disk, networkVars>>

-----------------------------------------------------------------------------
(* buffer_write_ready, and what handle_data_packet does after it           *)

\* A chunk is two halves, each of which fills a place of the output file: enough
\* to tell a write that stores all of it from one that stores a part or nothing.
halves(chunk) == << <<chunk, 1>>, <<chunk, 2>> >>

\* The file after the halves in data are written to it at the offset pos.
WriteAt(pos, data) ==
    IF data = <<>> THEN disk
    ELSE [i \in 1 .. Max({Len(disk), pos + Len(data)}) |->
            IF i \in pos + 1 .. pos + Len(data) THEN data[i - pos]
            ELSE IF i <= Len(disk) THEN disk[i] ELSE Nil]

may_write(c) == writing[c] /\ buffer_has(buffer[c], buffer_expected(buffer[c]))

\* One turn of the loop, whose write puts data into the file; the offset of
\* output_file moves by as much.
writes(c, data) ==
    /\ may_write(c)
    /\ disk' = WriteAt(offset[c], data)
    /\ offset' = [offset EXCEPT ![c] = @ + Len(data)]
    /\ buffer' = [buffer EXCEPT ![c] = buffer_wrote(@)]
    /\ UNCHANGED <<child_state, asked_size, writing, child_retry, failed, networkVars>>

write_ready(c) == writes(c, halves(buffer_ready(buffer[c])))

\* A write that stores the first half of the chunk, or nothing, is taken for a
\* success: what this child writes next goes to where the rest belongs.
write_short(c) ==
    /\ "short write" \in IoFaults
    /\ writes(c, << halves(buffer_ready(buffer[c]))[1] >>) \/ writes(c, <<>>)

\* Slip: a failed write is passed over.
write_error_slip(c) ==
    /\ "write" \in IoFaults
    /\ may_write(c)
    /\ buffer' = [buffer EXCEPT ![c] = buffer_wrote(@)]
    /\ UNCHANGED <<child_state, asked_size, writing, offset, child_retry, failed, disk,
                   networkVars>>

\* A write that returns -1: exit(-1).
write_error(c) ==
    /\ "write" \in IoFaults
    /\ may_write(c)
    /\ Fails(c)
    /\ writing' = [writing EXCEPT ![c] = FALSE]
    /\ UNCHANGED <<asked_size, buffer, offset, child_retry, disk, networkVars>>

\* Nothing more to write: acknowledge, and ask for the next gap if there is one.
write_done(c) ==
    /\ writing[c] /\ ~may_write(c)
    /\ writing' = [writing EXCEPT ![c] = FALSE]
    /\ IF buffer_has_later(buffer[c]) /\ buffer_need_reject(buffer[c])
       THEN /\ child_sends(inbox, <<send_rr(c, buffer[c]), send_reject(c, buffer[c])>>)
            /\ buffer' = [buffer EXCEPT ![c] = buffer_rejected(@)]
       ELSE /\ child_sends(inbox, <<send_rr(c, buffer[c])>>)
            /\ UNCHANGED buffer
    /\ UNCHANGED <<child_state, asked_size, offset, child_retry, failed, disk, faults>>

-----------------------------------------------------------------------------
(* wait_on_done_state                                                      *)

recv_done(c, p) ==
    /\ may_receive(c, p, "WAIT_ON_DONE")
    /\ IsGood(p, "DONE")
    /\ inbox' = Taken(c)
    /\ GoesTo(c, "DONE")
    /\ UNCHANGED <<asked_size, writing, buffer, offset, child_retry, failed, disk, faults>>

\* rcopy asks again: resend_last_ack.
recv_eof_again(c, p) ==
    /\ may_receive(c, p, "WAIT_ON_DONE")
    /\ IsGood(p, "EOF")
    /\ child_sends(Taken(c), <<send_eof_ack(c)>>)
    /\ UNCHANGED <<serverVars, faults>>

wait_on_done_ignore(c, p) ==
    /\ may_receive(c, p, "WAIT_ON_DONE")
    /\ ~IsGood(p, "DONE") /\ ~IsGood(p, "EOF")
    /\ inbox' = Taken(c)
    /\ UNCHANGED <<serverVars, faults>>

\* Slip: the child stops as if DONE had come.
wait_on_done_timeout_slip(c) ==
    /\ child_state[c] = "WAIT_ON_DONE"
    /\ GoesTo(c, "DONE")
    /\ UNCHANGED <<asked_size, writing, buffer, offset, child_retry, failed, disk,
                   networkVars>>

wait_on_done_timeout(c) ==
    /\ child_state[c] = "WAIT_ON_DONE"
    /\ child_retry' = [child_retry EXCEPT ![c] = @ + 1]
    /\ IF child_retry[c] + 1 >= ServerTries
       THEN Fails(c) /\ UNCHANGED inbox
       ELSE /\ child_sends(inbox, <<send_eof_ack(c)>>)
            /\ UNCHANGED <<child_state, failed>>
    /\ UNCHANGED <<asked_size, writing, buffer, offset, disk, faults>>

-----------------------------------------------------------------------------
MainStep == \E p \in InFlight(Main) : main_recv(p)

\* What child c does without its pollCall running out.
ChildStep(c) ==
    \/ filename_open(c) \/ filename_open_error(c)
    \/ \E p \in InFlight(c) :
          \/ recv_data(c, p) \/ recv_eof(c, p) \/ recv_data_ignore(c, p)
          \/ recv_done(c, p) \/ recv_eof_again(c, p) \/ wait_on_done_ignore(c, p)
    \/ write_ready(c) \/ write_short(c) \/ write_error(c) \/ write_done(c)
=============================================================================

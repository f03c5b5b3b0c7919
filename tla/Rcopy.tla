------------------------------- MODULE Rcopy -------------------------------
(***************************************************************************)
(* rcopy.c: the client.  It asks the server to open the output file, sends *)
(* the input file through a sliding window and ends with EOF, EOF_ACK and  *)
(* DONE.                                                                   *)
(*                                                                         *)
(* "state" is the STATE of process_file's loop.  Where rcopy stands inside *)
(* that state's function is "at":                                          *)
(*   "run"   at the top of its loop, about to send;                        *)
(*   "wait"  blocked in the pollCall that has the one-second time-out;     *)
(*   "poll"  in process_controls' loop, at pollCall(POLL_NOW).             *)
(* A state function runs alone between two system calls that other         *)
(* processes can see, so an action reaches from one send or receive to the *)
(* next.                                                                   *)
(***************************************************************************)
EXTENDS Window, Network

CONSTANTS
    File,         \* the input file: the sequence of what successive reads return
    WindowSize,   \* the window size of the command line
    RcopyTries    \* MAX_TRIES of rcopy.h

ASSUME RcopyAssumption ==
    /\ File \in Seq(Range(File))
    /\ Nil \notin Range(File)
    /\ WindowSize \in Nat \ {0}
    /\ WindowSize < SeqSpace
    /\ RcopyTries \in Nat \ {0}

FIRST_SEQ == 1

VARIABLES
    state,         \* the STATE of process_file
    at,            \* where in that state's function, see above
    server,        \* info->server: where rcopy sends to
    window,        \* info->window
    read_pos,      \* how much of the input file has been read
    file_done,     \* info->file_done
    had_error,     \* info->had_error: what rcopy's exit status reports
    retry_count,   \* info->retry_count
    tries,         \* the local tries of send_filename_packet and send_eof_state
    got_control    \* whether process_controls' count is above 0

rcopyVars == <<state, at, server, window, read_pos, file_done, had_error,
               retry_count, tries, got_control>>

\* start_state has opened the input file and the socket.
RcopyInit ==
    /\ state = "FILENAME" /\ at = "run"
    /\ server = Main
    /\ window = no_window
    /\ read_pos = 0 /\ file_done = FALSE
    /\ had_error = FALSE
    /\ retry_count = 0 /\ tries = 0
    /\ got_control = FALSE

\* safeSendto to info->server; the queues are those left by the receive, if any.
rcopy_sends(box, flag, num, data) ==
    inbox' = Posted(box, server, <<make_packet(Client, flag, num, data)>>)

Finish(error) ==
    /\ state' = "DONE"
    /\ had_error' = (had_error \/ error)

-----------------------------------------------------------------------------
(* filename_state and send_filename_packet                                 *)

filename_send ==
    /\ state = "FILENAME" /\ at = "run"
    /\ rcopy_sends(inbox, "FILENAME", WindowSize, Nil)
    /\ at' = "wait"
    /\ UNCHANGED <<state, server, window, read_pos, file_done, had_error,
                   retry_count, tries, got_control, faults>>

\* tries++ and the test of the loop.
filename_try_again ==
    /\ tries' = tries + 1
    /\ IF tries + 1 < RcopyTries THEN at' = "run" /\ UNCHANGED <<state, had_error>>
                                 ELSE Finish(TRUE) /\ UNCHANGED at
    /\ UNCHANGED <<window, read_pos, file_done, retry_count, got_control, faults>>

filename_timeout ==
    /\ state = "FILENAME" /\ at = "wait"
    /\ filename_try_again
    /\ UNCHANGED <<server, inbox>>

\* A good response decides the set-up, by its status byte; the second window
\* number is control_seq, incremented once.
filename_response(p) ==
    /\ IF p.num = 0
       THEN /\ window' = window_init(WindowSize, FIRST_SEQ + 1)
            /\ state' = "SEND_DATA" /\ at' = "run"
            /\ UNCHANGED had_error
       ELSE Finish(TRUE) /\ UNCHANGED <<at, window>>
    /\ UNCHANGED <<read_pos, file_done, retry_count, tries, got_control, faults>>

\* recvfrom stores the sender's address in info->server before the packet is
\* checked.
filename_recv(p) ==
    /\ state = "FILENAME" /\ at = "wait"
    /\ Arrives(Client, p)
    /\ inbox' = Taken(Client)
    /\ server' = p.from
    /\ IF IsGood(p, "FILENAME_RESP") THEN filename_response(p) ELSE filename_try_again

-----------------------------------------------------------------------------
(* send_data_state                                                         *)

may_send == window_open(window) /\ ~file_done

\* Slip: EOF follows the last read, whatever is still unacknowledged.
after_sending_slip(done) ==
    /\ state' = IF done THEN "SEND_EOF" ELSE "WAIT_ON_ACK"
    /\ at' = IF done THEN "run" ELSE "wait"
    /\ tries' = 0

\* Slip: EOF follows an empty window, whatever is left to read.
after_sending_unread_slip(done) ==
    /\ state' = IF window_empty(window) THEN "SEND_EOF" ELSE "WAIT_ON_ACK"
    /\ at' = IF window_empty(window) THEN "run" ELSE "wait"
    /\ tries' = 0

\* The state that follows the loop of send_data_state.
after_sending(done) ==
    /\ state' = IF done /\ window_empty(window) THEN "SEND_EOF" ELSE "WAIT_ON_ACK"
    /\ at' = IF done /\ window_empty(window) THEN "run" ELSE "wait"
    /\ tries' = 0

\* One turn of the loop up to process_controls: read, make_packet, send, add.
send_data ==
    /\ state = "SEND_DATA" /\ at = "run"
    /\ may_send
    /\ read_pos < Len(File)
    /\ read_pos' = read_pos + 1
    /\ rcopy_sends(inbox, "DATA", window.current, File[read_pos + 1])
    /\ window' = window_add(window, window.current, File[read_pos + 1])
    /\ retry_count' = 0
    /\ at' = "poll"
    /\ UNCHANGED <<state, server, file_done, had_error, tries, got_control, faults>>

\* Slip: file_done is not set.
send_data_end_of_file_slip ==
    /\ state = "SEND_DATA" /\ at = "run"
    /\ may_send
    /\ read_pos = Len(File)
    /\ after_sending(FALSE)
    /\ UNCHANGED <<server, window, read_pos, file_done, had_error, retry_count,
                   got_control, networkVars>>

\* read returns 0.
send_data_end_of_file ==
    /\ state = "SEND_DATA" /\ at = "run"
    /\ may_send
    /\ read_pos = Len(File)
    /\ file_done' = TRUE
    /\ after_sending(TRUE)
    /\ UNCHANGED <<server, window, read_pos, had_error, retry_count, got_control,
                   networkVars>>

\* read returns -1.
send_data_read_error ==
    /\ "read" \in IoFaults
    /\ state = "SEND_DATA" /\ at = "run"
    /\ may_send
    /\ Finish(TRUE)
    /\ UNCHANGED <<at, server, window, read_pos, file_done, retry_count, tries,
                   got_control, networkVars>>

\* The window is closed or the file is at its end.
send_data_leave ==
    /\ state = "SEND_DATA" /\ at = "run"
    /\ ~may_send
    /\ after_sending(file_done)
    /\ UNCHANGED <<server, window, read_pos, file_done, had_error, retry_count,
                   got_control, networkVars>>

-----------------------------------------------------------------------------
(* process_controls, called by send_data_state and wait_on_ack_state       *)

in_process_controls ==
    \/ at = "poll"
    \/ state = "WAIT_ON_ACK" /\ at = "wait"

handle_rr(p) ==
    /\ window' = window_rr(window, p.num)
    /\ inbox' = Taken(Client)

\* Slip: the time-out is counted and nothing is sent.
resend_packet_slip(box, seq) == inbox' = box

resend_packet(box, seq) ==
    rcopy_sends(box, "DATA", seq, window.entry[seq % window.size].data)

\* Slip: the packet asked for is not looked up first.
handle_reject_slip(p) ==
    /\ inbox' = Posted(Taken(Client), p.from,
                       <<make_packet(Client, "DATA", p.num,
                                     window.entry[p.num % window.size].data)>>)
    /\ UNCHANGED window

\* The resend goes to the sender of the reject: recvfrom has just stored it.
handle_reject(p) ==
    /\ IF window_find(window, p.num)
       THEN inbox' = Posted(Taken(Client), p.from,
                            <<make_packet(Client, "DATA", p.num,
                                          window.entry[p.num % window.size].data)>>)
       ELSE inbox' = Taken(Client)
    /\ UNCHANGED window

process_controls_recv(p) ==
    /\ state \in {"SEND_DATA", "WAIT_ON_ACK"} /\ in_process_controls
    /\ Arrives(Client, p)
    /\ server' = p.from
    /\ at' = "poll"
    /\ \/ IsGood(p, "RR") /\ handle_rr(p) /\ got_control' = TRUE
       \/ IsGood(p, "SREJ") /\ handle_reject(p) /\ got_control' = TRUE
       \/ /\ ~IsGood(p, "RR") /\ ~IsGood(p, "SREJ")
          /\ inbox' = Taken(Client)
          /\ UNCHANGED <<window, got_control>>
    /\ UNCHANGED <<state, read_pos, file_done, had_error, retry_count, tries, faults>>

\* send_data_state: pollCall(POLL_NOW) finds nothing more; the count is not used.
send_data_drained ==
    /\ state = "SEND_DATA" /\ at = "poll"
    /\ at' = "run" /\ got_control' = FALSE
    /\ UNCHANGED <<state, server, window, read_pos, file_done, had_error,
                   retry_count, tries, networkVars>>

-----------------------------------------------------------------------------
(* wait_on_ack_state                                                       *)

to_send_data ==
    /\ state' = "SEND_DATA" /\ at' = "run"
    /\ UNCHANGED had_error

\* process_controls has returned 0: resend the lowest packet not acknowledged,
\* unless there is none or it has been tried too often.
not_answered ==
    \/ /\ window_unacked(window) = {}
       /\ to_send_data
       /\ UNCHANGED <<retry_count, inbox>>
    \/ /\ window_unacked(window) # {}
       /\ retry_count' = retry_count + 1
       /\ IF retry_count + 1 >= RcopyTries
          THEN Finish(TRUE) /\ UNCHANGED <<at, inbox>>
          ELSE /\ resend_packet(inbox, Min(window_unacked(window)))
               /\ at' = "wait"
               /\ UNCHANGED <<state, had_error>>

wait_on_ack_timeout ==
    /\ state = "WAIT_ON_ACK" /\ at = "wait"
    /\ not_answered
    /\ got_control' = FALSE
    /\ UNCHANGED <<server, window, read_pos, file_done, tries, faults>>

wait_on_ack_drained ==
    /\ state = "WAIT_ON_ACK" /\ at = "poll"
    /\ \/ got_control /\ retry_count' = 0 /\ to_send_data /\ UNCHANGED inbox
       \/ ~got_control /\ not_answered
    /\ got_control' = FALSE
    /\ UNCHANGED <<server, window, read_pos, file_done, tries, faults>>

-----------------------------------------------------------------------------
(* send_eof_state                                                          *)

eof_send ==
    /\ state = "SEND_EOF" /\ at = "run"
    /\ rcopy_sends(inbox, "EOF", 0, Nil)
    /\ at' = "wait"
    /\ UNCHANGED <<state, server, window, read_pos, file_done, had_error,
                   retry_count, tries, got_control, faults>>

\* Slip: one try too many.
eof_try_again_slip ==
    /\ tries' = tries + 1
    /\ IF tries + 1 <= RcopyTries THEN at' = "run" /\ UNCHANGED <<state, had_error>>
                                  ELSE Finish(TRUE) /\ UNCHANGED at

\* tries++ and the test of the loop: whatever packet was received used up a try.
eof_try_again ==
    /\ tries' = tries + 1
    /\ IF tries + 1 < RcopyTries THEN at' = "run" /\ UNCHANGED <<state, had_error>>
                                 ELSE Finish(TRUE) /\ UNCHANGED at

eof_timeout ==
    /\ state = "SEND_EOF" /\ at = "wait"
    /\ eof_try_again
    /\ UNCHANGED <<server, window, read_pos, file_done, retry_count, got_control,
                   networkVars>>

\* EOF_ACK: send_final_done to the sender of the EOF_ACK.
send_final_done(p) ==
    /\ inbox' = Posted(Taken(Client), p.from, <<make_packet(Client, "DONE", 0, Nil)>>)
    /\ Finish(FALSE)
    /\ UNCHANGED <<at, tries>>

eof_recv(p) ==
    /\ state = "SEND_EOF" /\ at = "wait"
    /\ Arrives(Client, p)
    /\ server' = p.from
    /\ \/ IsGood(p, "EOF_ACK") /\ send_final_done(p)
       \/ ~IsGood(p, "EOF_ACK") /\ eof_try_again /\ inbox' = Taken(Client)
    /\ UNCHANGED <<window, read_pos, file_done, retry_count, got_control, faults>>

-----------------------------------------------------------------------------
\* The steps in which a one-second pollCall of rcopy runs out.
RcopyTimeout == filename_timeout \/ wait_on_ack_timeout \/ eof_timeout

RcopyStep ==
    \/ filename_send
    \/ \E p \in InFlight(Client) : filename_recv(p) \/ process_controls_recv(p) \/ eof_recv(p)
    \/ send_data \/ send_data_end_of_file \/ send_data_read_error \/ send_data_leave
    \/ send_data_drained
    \/ wait_on_ack_drained
    \/ eof_send
=============================================================================

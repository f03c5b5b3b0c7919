----------------------------- MODULE EndProofs ------------------------------
(***************************************************************************)
(* The end of a transfer that has one child: EOF is acknowledged only when *)
(* all data are written, exit status 0 means that the output file is a     *)
(* copy of the input file, and the protocol implements FileCopy.  Last,    *)
(* what short writes leave of the input file is in order.                  *)
(***************************************************************************)
EXTENDS CopyProofs, FiniteSetTheorems

\* The FILENAME packet has made no second child.
OneChild == \E c : Child = {c}

-----------------------------------------------------------------------------
(* The inductive invariant.                                                *)

\* Everything has been sent and acknowledged.
Ended == window.size > 0 /\ window.lower = EndSeq

Succeeded == state = "DONE" /\ ~had_error

RcopyEnds ==
    /\ window.size > 0 => \A c \in Child : serves(c) /\ window.lower <= buffer[c].expected
    /\ file_done => read_pos = Len(File)
    /\ had_error => state = "DONE"
    /\ state = "SEND_EOF" \/ Succeeded => Ended

\* The first n places of the input file.
Start(n) == [i \in 1 .. n |-> Contents[i]]

ChildEnds(c) ==
    /\ child_state[c] = "WAIT_ON_DONE" => Ended
    /\ child_state[c] = "DONE" /\ ~failed[c] => Succeeded
    /\ ~serves(c) => disk = <<>>
    /\ serves(c) /\ WholeWrites => disk = Start(offset[c])

\* What an undamaged packet tells about the progress of the transfer.
EndPacket(p) ==
    /\ p.good /\ p.flag = "FILENAME_RESP" /\ p.num = 0 => p.from \in Child /\ serves(p.from)
    /\ p.good /\ p.flag = "EOF" => Ended
    /\ p.good /\ p.flag = "DONE" => Succeeded

EndTruth == [a \in Address |-> {p \in Sent[a] : EndPacket(p)}]

NetworkEnds == Carries(inbox, EndTruth)

EndInv == RcopyEnds /\ (\A c \in Child : ChildEnds(c)) /\ NetworkEnds

-----------------------------------------------------------------------------
(* What stays true.                                                        *)

\* What no step takes back.
Stable ==
    /\ \A c \in Child : serves(c) => serves(c)'
    /\ Ended => Ended'
    /\ Succeeded => Succeeded'

\* What the packets in flight tell stays true.
LEMMA EndTruthKept ==
    ASSUME Stable, NEW box, Carries(box, EndTruth)
    PROVE  Carries(box, EndTruth')
<1>1. ASSUME NEW a \in Address, NEW p \in Sent[a], EndPacket(p)
      PROVE  EndPacket(p)'
  BY <1>1 DEF EndPacket, Stable
<1>2. \A a \in Address : EndTruth[a] \subseteq EndTruth'[a]
  BY <1>1 DEF EndTruth
<1> QED
  BY <1>2, CarriesMore

\* A packet that tells nothing of the end.
LEMMA SendsOther ==
    ASSUME NEW box, Carries(box, EndTruth'), NEW from \in Address, NEW to \in Address,
           NEW flag \in Flag, NEW num \in SeqNum, NEW data \in Chunk,
           flag = "FILENAME" => num = WindowSize,
           EndPacket(make_packet(from, flag, num, data))'
    PROVE  Carries(Posted(box, to, <<make_packet(from, flag, num, data)>>), EndTruth')
<1> DEFINE p == make_packet(from, flag, num, data)
<1>1. p \in Sent[to]
  BY PacketMade
<1>2. EndPacket(p)'
  OBVIOUS
<1> HIDE DEF p
<1>3. p \in EndTruth'[to]
  BY <1>1, <1>2 DEF EndTruth
<1>4. Carries(Posted(box, to, <<p>>), EndTruth')
  BY <1>3, CarriesPostedOne
<1> QED
  BY <1>4 DEF p

\* A packet received tells the truth about the end.
LEMMA ReceivedEnd ==
    ASSUME NetworkEnds, NEW a \in Address, NEW p, Arrives(a, p)
    PROVE  Carries(Taken(a), EndTruth) /\ EndPacket(p) /\ p \in PacketType
<1>1. Carries(Taken(a), EndTruth) /\ Head(inbox[a]) \in EndTruth[a]
  BY CarriesTaken DEF NetworkEnds, Arrives
<1> QED
  BY <1>1 DEF Arrives, Sent, EndTruth

\* The window of a transfer that has ended has nothing left to send.
LEMMA EndedStays ==
    ASSUME FileFits, CopyInv, CopyInv', Onward, Ended, window'.size > 0
    PROVE  Ended'
<1>1. window'.lower >= EndSeq
  BY DEF Onward, Ended
<1>2. IsWindow(window, Chunk)' /\ WindowHolds(window, Payload)'
  BY DEF CopyInv, RcopyRight, TypeInv, TypeOK, RcopyTypeOK
<1>3. window'.lower \in Nat /\ window'.current \in Nat /\ window'.lower <= window'.current
  BY <1>2, PacketAssumption DEF IsWindow, WindowHolds, SeqNum
<1>4. window'.current <= EndSeq
  <2>1. window'.current = FIRST_DATA_SEQ + read_pos'
    BY DEF CopyInv, RcopyRight
  <2>2. read_pos' \in 0 .. Len(File)
    BY DEF CopyInv, TypeInv, TypeOK, RcopyTypeOK
  <2> QED
    BY <2>1, <2>2, Fits
<1> QED
  BY <1>1, <1>3, <1>4, Fits DEF Ended

\* In the beginning nothing has ended.
LEMMA EndInit == FileFits /\ Init => EndInv
<1> SUFFICES ASSUME FileFits, Init PROVE EndInv
  OBVIOUS
<1>1. RcopyEnds
  BY DEF Init, RcopyInit, no_window, RcopyEnds, Succeeded
<1>2. \A c \in Child : ChildEnds(c)
  BY DEF Init, ServerInit, no_buffer, serves, ChildEnds
<1>3. NetworkEnds
  <2>1. \A T : <<>> \in Seq(T)
    OBVIOUS
  <2>2. inbox = [a \in Address |-> <<>>]
    BY DEF Init, NetworkInit
  <2> QED
    BY <2>1, <2>2 DEF NetworkEnds, Carries
<1> QED
  BY <1>1, <1>2, <1>3 DEF EndInv

-----------------------------------------------------------------------------
(* The steps of rcopy.                                                     *)

\* How rcopy comes to its last states: SEND_EOF only with the whole file sent and
\* acknowledged, DONE without an error only from SEND_EOF.
LEMMA RcopyDoes ==
    ASSUME CopyInv, RcopyEnds, RcopyNext
    PROVE  /\ state # "DONE"
           /\ file_done' => read_pos' = Len(File)
           /\ had_error' => state' = "DONE"
           /\ state' = "SEND_EOF" =>
                 \/ state = "SEND_EOF" /\ UNCHANGED window
                 \/ /\ file_done' /\ window_empty(window) /\ window.size > 0
                    /\ UNCHANGED window
           /\ state' = "DONE" /\ ~had_error' => state = "SEND_EOF" /\ UNCHANGED window
<1> DEFINE Goal ==
           /\ state # "DONE"
           /\ file_done' => read_pos' = Len(File)
           /\ had_error' => state' = "DONE"
           /\ state' = "SEND_EOF" =>
                 \/ state = "SEND_EOF" /\ UNCHANGED window
                 \/ /\ file_done' /\ window_empty(window) /\ window.size > 0
                    /\ UNCHANGED window
           /\ state' = "DONE" /\ ~had_error' => state = "SEND_EOF" /\ UNCHANGED window
<1>0. /\ had_error \in BOOLEAN /\ had_error => state = "DONE"
      /\ file_done => read_pos = Len(File)
      /\ state \in {"SEND_DATA", "WAIT_ON_ACK", "SEND_EOF"} => window.size > 0
  BY Bounds DEF CopyInv, TypeInv, TypeOK, RcopyTypeOK, RcopyReady, RcopyEnds
<1>1. CASE filename_send
  BY <1>0, <1>1 DEF filename_send
<1>2. CASE filename_timeout
  BY <1>0, <1>2 DEF filename_timeout, filename_try_again, Finish
<1>3. ASSUME NEW p, filename_recv(p) PROVE Goal
  <2>1. CASE filename_try_again
    BY <1>0, <1>3, <2>1 DEF filename_recv, filename_try_again, Finish
  <2>2. CASE filename_response(p)
    BY <1>0, <1>3, <2>2 DEF filename_recv, filename_response, Finish
  <2> QED
    BY <1>3, <2>1, <2>2 DEF filename_recv
<1>4. CASE send_data
  BY <1>0, <1>4 DEF send_data, may_send
<1>5. CASE send_data_end_of_file
  BY <1>0, <1>5 DEF send_data_end_of_file, after_sending
<1>6. CASE send_data_read_error
  BY <1>0, <1>6 DEF send_data_read_error, Finish
<1>7. CASE send_data_leave
  BY <1>0, <1>7 DEF send_data_leave, after_sending
<1>8. CASE send_data_drained
  BY <1>0, <1>8 DEF send_data_drained
<1>9. ASSUME NEW p, process_controls_recv(p) PROVE Goal
  BY <1>0, <1>9 DEF process_controls_recv
<1>10. CASE wait_on_ack_timeout
  BY <1>0, <1>10 DEF wait_on_ack_timeout, not_answered, to_send_data, Finish
<1>11. CASE wait_on_ack_drained
  BY <1>0, <1>11 DEF wait_on_ack_drained, not_answered, to_send_data, Finish
<1>12. CASE eof_send
  BY <1>0, <1>12 DEF eof_send
<1>13. CASE eof_timeout
  BY <1>0, <1>13 DEF eof_timeout, eof_try_again, Finish
<1>14. ASSUME NEW p, eof_recv(p) PROVE Goal
  BY <1>0, <1>14 DEF eof_recv, eof_try_again, send_final_done, Finish
<1> QED
  BY <1>1, <1>2, <1>3, <1>4, <1>5, <1>6, <1>7, <1>8, <1>9, <1>10, <1>11, <1>12, <1>13, <1>14
  DEF RcopyNext, RcopyStep, RcopyTimeout

\* The three ways in which rcopy changes its window.
LEMMA WindowChanges ==
    ASSUME RcopyNext
    PROVE  \/ UNCHANGED window
           \/ send_data
           \/ \E p : /\ Arrives(Client, p) /\ IsGood(p, "FILENAME_RESP") /\ p.num = 0
                     /\ window' = window_init(WindowSize, FIRST_SEQ + 1)
           \/ \E p : process_controls_recv(p) /\ IsGood(p, "RR") /\ handle_rr(p)
<1>1. ASSUME NEW p, filename_recv(p)
      PROVE  \/ UNCHANGED window
             \/ /\ Arrives(Client, p) /\ IsGood(p, "FILENAME_RESP") /\ p.num = 0
                /\ window' = window_init(WindowSize, FIRST_SEQ + 1)
  BY <1>1 DEF filename_recv, filename_response, filename_try_again
<1>2. ASSUME NEW p, process_controls_recv(p)
      PROVE  UNCHANGED window \/ (IsGood(p, "RR") /\ handle_rr(p))
  BY <1>2 DEF process_controls_recv, handle_reject
<1>3. ASSUME NEW p, eof_recv(p) PROVE UNCHANGED window
  BY <1>3 DEF eof_recv
<1>4. \/ filename_send \/ filename_timeout \/ send_data_end_of_file \/ send_data_read_error
      \/ send_data_leave \/ send_data_drained \/ wait_on_ack_timeout \/ wait_on_ack_drained
      \/ eof_send \/ eof_timeout
      => UNCHANGED window
  BY DEF filename_send, filename_timeout, filename_try_again, send_data_end_of_file,
         send_data_read_error, send_data_leave, send_data_drained, wait_on_ack_timeout,
         wait_on_ack_drained, eof_send, eof_timeout
<1> QED
  BY <1>1, <1>2, <1>3, <1>4 DEF RcopyNext, RcopyStep, RcopyTimeout

\* rcopy's lower edge does not pass the packet that its only child expects: an RR
\* names no more than that child has written.
LEMMA LowerStaysBelow ==
    ASSUME FileFits, OneChild, CopyInv, EndInv, RcopyNext, window'.size > 0, NEW c \in Child
    PROVE  serves(c) /\ window'.lower <= buffer[c].expected
<1> USE DEF CopyInv
<1>0. Client \in Address /\ \A d \in Child : d = c
  BY DEF Address, OneChild
<1>1. ASSUME window.size > 0 PROVE serves(c) /\ window.lower <= buffer[c].expected
  BY <1>1 DEF EndInv, RcopyEnds
<1>2. CASE UNCHANGED window
  BY <1>1, <1>2
<1>3. CASE send_data
  <2>1. window.size > 0
    BY <1>3, Bounds DEF send_data, TypeInv, RcopyReady
  <2>2. window'.lower = window.lower
    BY <1>3, <2>1, SendDataRight
  <2> QED
    BY <1>1, <2>1, <2>2
<1>4. ASSUME NEW p, Arrives(Client, p), IsGood(p, "FILENAME_RESP"), p.num = 0,
             window' = window_init(WindowSize, FIRST_SEQ + 1)
      PROVE  serves(c) /\ window'.lower <= buffer[c].expected
  <2>1. serves(c)
    BY <1>0, <1>4, ReceivedEnd DEF EndInv, EndPacket, IsGood, check_packet, get_flag
  <2>2. buffer[c].expected >= FIRST_DATA_SEQ
    BY <2>1, Fits DEF ServerRight, ChildRight
  <2>3. window'.lower = FIRST_DATA_SEQ
    BY <1>4, Fits DEF window_init, FIRST_SEQ
  <2> QED
    BY <2>1, <2>2, <2>3, Fits
<1>5. ASSUME NEW p, process_controls_recv(p), IsGood(p, "RR"), handle_rr(p)
      PROVE  serves(c) /\ window'.lower <= buffer[c].expected
  <2>1. /\ window.size > 0 /\ IsWindow(window, Chunk)
    BY <1>5, Bounds DEF process_controls_recv, TypeInv, TypeOK, RcopyTypeOK, RcopyReady
  <2>2. p \in PacketType /\ TruePacket(p)
    BY <1>0, <1>5, ReceivedTrue DEF process_controls_recv
  <2>3. p.num \in SeqNum /\ p.num \in Nat /\ p.from = c /\ p.num <= buffer[c].expected
    <3>1. p.num \in SeqNum /\ p.num \in Nat
      BY <2>2, PacketAssumption DEF PacketType, SeqNum
    <3>2. p.from \in Child /\ p.num <= buffer[p.from].expected
      BY <1>5, <2>2 DEF TruePacket, IsGood, check_packet, get_flag
    <3> QED
      BY <1>0, <3>1, <3>2
  <2>4. /\ WindowHolds(window, Payload)
        /\ window.current + window.size < SeqSpace /\ window.lower \in Nat
    BY <2>1, WindowBounds DEF RcopyRight
  <2>5. window' = window_rr(window, p.num)
    BY <1>5 DEF handle_rr
  <2>6. window'.lower <= window.lower \/ window'.lower <= p.num
    BY <2>1, <2>3, <2>4, <2>5, WindowRRHolds
  <2>7. window'.lower \in window.lower .. window.current
    BY <2>1, <2>3, <2>4, <2>5, WindowRRHolds
  <2>8. /\ window'.lower \in Int
        /\ buffer[c].expected \in Nat
    <3>1. window.current \in Int
      BY <2>1, WindowBounds, Fits
    <3> QED
      BY <2>4, <2>7, <3>1, BufferBounds
  <2> QED
    BY <1>1, <2>1, <2>3, <2>4, <2>6, <2>8
<1> QED
  BY <1>2, <1>3, <1>4, <1>5, WindowChanges

\* What rcopy sends before EOF tells nothing of the end.
LEMMA SendsQuietly ==
    ASSUME NEW box, Carries(box, EndTruth'), NEW to \in Address,
           NEW flag \in {"FILENAME", "DATA"}, NEW num \in SeqNum, NEW data \in Chunk,
           flag = "FILENAME" => num = WindowSize
    PROVE  Carries(Posted(box, to, <<make_packet(Client, flag, num, data)>>), EndTruth')
<1>1. EndPacket(make_packet(Client, flag, num, data))'
  BY DEF EndPacket, make_packet
<1>2. Client \in Address /\ flag \in Flag
  BY DEF Address, Flag
<1> QED
  BY <1>1, <1>2, SendsOther

\* rcopy sends EOF when all data are acknowledged, and DONE when it succeeds.
LEMMA RcopyMail ==
    ASSUME CopyInv, EndInv, RcopyNext, Stable, state' = "SEND_EOF" => Ended'
    PROVE  NetworkEnds'
<1> USE DEF CopyInv, TypeInv, TypeOK, RcopyTypeOK
<1> SUFFICES Carries(inbox', EndTruth')
  BY DEF NetworkEnds
<1>0. /\ Client \in Address /\ Nil \in Chunk /\ 0 \in SeqNum /\ WindowSize \in SeqNum
      /\ server \in Address /\ IsWindow(window, Chunk)
  BY PacketAssumption, Bounds DEF Address, Chunk, SeqNum
<1>1. Carries(inbox, EndTruth')
  BY EndTruthKept DEF EndInv, NetworkEnds
<1>2. ASSUME NEW p, Arrives(Client, p)
      PROVE  /\ Carries(Taken(Client), EndTruth')
             /\ p.from \in Address /\ p.num \in SeqNum
  <2>1. Carries(Taken(Client), EndTruth) /\ p \in PacketType
    BY <1>0, <1>2, ReceivedEnd DEF EndInv
  <2> QED
    BY <2>1, EndTruthKept DEF PacketType
<1>3. CASE filename_send
  BY <1>0, <1>1, <1>3, SendsQuietly DEF filename_send, rcopy_sends
<1>4. CASE send_data
  <2>1. read_pos + 1 \in 1 .. Len(File)
    BY <1>4, Bounds DEF send_data
  <2>2. File[read_pos + 1] \in Chunk /\ window.current \in SeqNum
    BY <1>0, <2>1, FilePart DEF IsWindow
  <2> QED
    BY <1>0, <1>1, <1>4, <2>2, SendsQuietly DEF send_data, rcopy_sends
<1>5. CASE \/ filename_timeout \/ send_data_end_of_file \/ send_data_read_error
           \/ send_data_leave \/ send_data_drained \/ eof_timeout
  <2>1. inbox' = inbox
    BY <1>5 DEF filename_timeout, send_data_end_of_file, send_data_read_error,
                send_data_leave, send_data_drained, eof_timeout, networkVars
  <2> QED
    BY <1>1, <2>1
<1>6. ASSUME NEW p, filename_recv(p) PROVE Carries(inbox', EndTruth')
  BY <1>2, <1>6 DEF filename_recv
<1>7. ASSUME NEW p, process_controls_recv(p) PROVE Carries(inbox', EndTruth')
  <2>1. CASE inbox' = Taken(Client)
    BY <1>2, <1>7, <2>1 DEF process_controls_recv
  <2>2. CASE inbox' # Taken(Client)
    <3>1. inbox' = Posted(Taken(Client), p.from,
                          <<make_packet(Client, "DATA", p.num,
                                        window.entry[p.num % window.size].data)>>)
      BY <1>7, <2>2 DEF process_controls_recv, handle_rr, handle_reject
    <3>2. window.size = WindowSize
      BY <1>7 DEF process_controls_recv, RcopyReady
    <3>3. Carries(Taken(Client), EndTruth') /\ p.from \in Address /\ p.num \in SeqNum
      BY <1>2, <1>7 DEF process_controls_recv
    <3>4. window.entry[p.num % window.size].data \in Chunk
      BY <3>2, <3>3, SlotData
    <3> QED
      BY <3>1, <3>3, <3>4, SendsQuietly
  <2> QED
    BY <2>1, <2>2
<1>8. CASE wait_on_ack_timeout \/ wait_on_ack_drained
  <2> DEFINE seq == Min(window_unacked(window))
  <2>1. window.size = WindowSize
    BY <1>8 DEF wait_on_ack_timeout, wait_on_ack_drained, RcopyReady
  <2>2. inbox' = inbox \/ (window_unacked(window) # {} /\ resend_packet(inbox, seq))
    BY <1>8 DEF wait_on_ack_timeout, wait_on_ack_drained, not_answered
  <2>3. window_unacked(window) # {} => seq \in SeqNum
    BY <1>0, UnackedType
  <2> HIDE DEF seq
  <2>4. seq \in SeqNum => window.entry[seq % window.size].data \in Chunk
    BY <2>1, SlotData
  <2> QED
    BY <1>0, <1>1, <2>2, <2>3, <2>4, SendsQuietly DEF resend_packet, rcopy_sends
<1>9. CASE eof_send
  <2>1. Ended'
    BY <1>9 DEF eof_send
  <2>2. EndPacket(make_packet(Client, "EOF", 0, Nil))'
    BY <2>1 DEF EndPacket, make_packet
  <2> QED
    BY <1>0, <1>1, <1>9, <2>2, SendsOther DEF eof_send, rcopy_sends, Flag
<1>10. ASSUME NEW p, eof_recv(p) PROVE Carries(inbox', EndTruth')
  <2>1. Carries(Taken(Client), EndTruth') /\ p.from \in Address
    BY <1>2, <1>10 DEF eof_recv
  <2>2. CASE inbox' = Taken(Client)
    BY <2>1, <2>2
  <2>3. CASE send_final_done(p)
    <3>1. Succeeded'
      BY <1>10, <2>3 DEF eof_recv, send_final_done, Finish, Succeeded, EndInv, RcopyEnds
    <3>2. EndPacket(make_packet(Client, "DONE", 0, Nil))'
      BY <3>1 DEF EndPacket, make_packet
    <3> QED
      BY <1>0, <2>1, <2>3, <3>2, SendsOther DEF send_final_done, Flag
  <2> QED
    BY <1>10, <2>2, <2>3 DEF eof_recv
<1> QED
  BY <1>3, <1>4, <1>5, <1>6, <1>7, <1>8, <1>9, <1>10 DEF RcopyNext, RcopyStep, RcopyTimeout

\* The window keeps its array.
LEMMA WindowStays ==
    ASSUME CopyInv, RcopyNext, window.size > 0
    PROVE  window'.size > 0
<1> USE DEF CopyInv, TypeInv, TypeOK, RcopyTypeOK
<1>1. IsWindow(window, Chunk) /\ Client \in Address
  BY DEF Address
<1>2. CASE send_data
  <2>1. read_pos + 1 \in 1 .. Len(File)
    BY <1>2, Bounds DEF send_data
  <2>2. File[read_pos + 1] \in Chunk /\ window.current \in SeqNum
    BY <1>1, <2>1, FilePart DEF IsWindow
  <2> QED
    BY <1>1, <1>2, <2>2, WindowAddType DEF send_data
<1>3. ASSUME NEW p, process_controls_recv(p), handle_rr(p) PROVE window'.size > 0
  <2>1. p.num \in SeqNum
    BY <1>1, <1>3, Received DEF process_controls_recv, PacketType
  <2> QED
    BY <1>1, <1>3, <2>1, WindowRRType DEF handle_rr
<1>4. CASE window' = window_init(WindowSize, FIRST_SEQ + 1)
  BY <1>4, Bounds DEF window_init
<1> QED
  BY <1>2, <1>3, <1>4, WindowChanges

\* Every step of rcopy.
LEMMA RcopyStepEnds ==
    ASSUME FileFits, OneChild, CopyInv, CopyInv', Onward, EndInv, RcopyNext
    PROVE  EndInv'
<1>1. UNCHANGED <<child_state, buffer, offset, failed, disk>>
  BY DEF RcopyNext, serverVars
<1>2. Ended => Ended'
  <2>1. Ended => window'.size > 0
    BY WindowStays DEF Ended
  <2> QED
    BY <2>1, EndedStays
<1>3. Stable
  BY <1>1, <1>2, RcopyDoes DEF Stable, EndInv, serves, Succeeded
<1>4. state' = "SEND_EOF" \/ Succeeded' => Ended'
  <2>1. CASE state = "SEND_EOF" /\ UNCHANGED window
    BY <2>1 DEF EndInv, RcopyEnds, Ended
  <2>2. CASE file_done' /\ window_empty(window) /\ window.size > 0 /\ UNCHANGED window
    <3>1. window'.size > 0 /\ window'.lower = window'.current
      BY <2>2 DEF window_empty
    <3>2. read_pos' = Len(File)
      BY <2>2, RcopyDoes DEF EndInv
    <3>3. window'.current = FIRST_DATA_SEQ + read_pos'
      BY <3>1 DEF CopyInv, RcopyRight
    <3> QED
      BY <3>1, <3>2, <3>3, Fits DEF Ended
  <2> QED
    BY <2>1, <2>2, RcopyDoes DEF EndInv, Succeeded
<1>5. RcopyEnds'
  <2>1. window'.size > 0 => \A c \in Child : serves(c)' /\ window'.lower <= buffer'[c].expected
    BY <1>1, LowerStaysBelow DEF serves
  <2>2. file_done' => read_pos' = Len(File)
    BY RcopyDoes DEF EndInv
  <2>3. had_error' => state' = "DONE"
    BY RcopyDoes DEF EndInv
  <2> QED
    BY <1>4, <2>1, <2>2, <2>3 DEF RcopyEnds
<1>6. \A c \in Child : ChildEnds(c)'
  BY <1>1, <1>3 DEF Stable, EndInv, ChildEnds, serves, Start
<1>7. NetworkEnds'
  BY <1>3, <1>4, RcopyMail
<1> QED
  BY <1>5, <1>6, <1>7 DEF EndInv

-----------------------------------------------------------------------------
(* The other steps.                                                        *)

\* A step that is not rcopy's.
LEMMA OthersEnd ==
    ASSUME FileFits, CopyInv, CopyInv', Onward, EndInv, UNCHANGED rcopyVars
    PROVE  RcopyEnds' /\ Stable /\ Carries(inbox, EndTruth')
<1>1. UNCHANGED <<state, window, read_pos, file_done, had_error>>
  BY DEF rcopyVars
<1>2. ASSUME NEW c \in Child, serves(c)
      PROVE  serves(c)' /\ buffer'[c].expected >= buffer[c].expected
  <2>1. buffer[c].expected \in FIRST_DATA_SEQ .. EndSeq
    BY <1>2 DEF CopyInv, ServerRight, ChildRight
  <2>2. buffer'[c].expected >= buffer[c].expected
    BY <1>2 DEF Onward
  <2>3. ~serves(c)' => buffer'[c].expected = 0
    BY DEF CopyInv, ServerRight, ChildRight
  <2> QED
    BY <2>1, <2>2, <2>3, Fits
<1>3. ASSUME window.size > 0, NEW c \in Child
      PROVE  serves(c)' /\ window'.lower <= buffer'[c].expected
  <2>1. serves(c) /\ window.lower <= buffer[c].expected
    BY <1>3 DEF EndInv, RcopyEnds
  <2>2. window.lower \in Int
    BY PacketAssumption DEF CopyInv, TypeInv, TypeOK, RcopyTypeOK, IsWindow, SeqNum
  <2>3. /\ buffer[c].expected \in Int
        /\ buffer'[c].expected \in Int
    BY PacketAssumption DEF CopyInv, TypeInv, TypeOK, ServerTypeOK, IsBuffer, SeqNum
  <2> QED
    BY <1>1, <1>2, <2>1, <2>2, <2>3
<1>4. Stable
  BY <1>1, <1>2 DEF Stable, Ended, Succeeded
<1>5. RcopyEnds'
  BY <1>1, <1>3 DEF EndInv, RcopyEnds, Ended, Succeeded
<1>6. Carries(inbox, EndTruth')
  BY <1>4, EndTruthKept DEF EndInv, NetworkEnds
<1> QED
  BY <1>4, <1>5, <1>6

\* A step that changes nothing of a child but may fork it.
LEMMA ChildEndsStays ==
    ASSUME Stable, NEW c \in Child, ChildEnds(c),
           UNCHANGED <<buffer, offset, disk, failed>>,
           child_state'[c] \in {child_state[c], "FILENAME"}
    PROVE  ChildEnds(c)'
BY DEF Stable, ChildEnds, serves, Start

\* The main process forks; it touches neither file nor window.
LEMMA MainStepEnds ==
    ASSUME FileFits, CopyInv, CopyInv', Onward, EndInv, MainNext
    PROVE  EndInv'
<1>1. PICK p : main_recv(p)
  BY DEF MainNext, MainStep
<1>2. RcopyEnds' /\ Stable /\ Carries(inbox, EndTruth')
  BY OthersEnd DEF MainNext
<1>3. Carries(inbox', EndTruth')
  <2>1. Carries(inbox', EndTruth)
    BY <1>1, ReceivedEnd DEF main_recv, EndInv, Address
  <2> QED
    BY <1>2, <2>1, EndTruthKept
<1>4. ASSUME NEW c \in Child PROVE child_state'[c] \in {child_state[c], "FILENAME"}
  BY <1>1, <1>4 DEF main_recv, fork, GoesTo, CopyInv, TypeInv, TypeOK, ServerTypeOK
<1>5. \A c \in Child : ChildEnds(c)'
  BY <1>1, <1>2, <1>4, ChildEndsStays DEF main_recv, EndInv
<1> QED
  BY <1>2, <1>3, <1>5 DEF EndInv, NetworkEnds

\* A damaged packet tells nothing; lost, doubled and late ones tell nothing new.
LEMMA FaultStepEnds ==
    ASSUME FileFits, CopyInv, CopyInv', Onward, EndInv, FaultNext
    PROVE  EndInv'
<1>1. UNCHANGED rcopyVars /\ UNCHANGED <<child_state, buffer, offset, disk, failed>>
  BY DEF FaultNext, serverVars
<1>2. RcopyEnds' /\ Stable /\ Carries(inbox, EndTruth')
  BY <1>1, OthersEnd
<1>3. ASSUME NEW a \in Address, NEW p \in EndTruth[a] PROVE Damaged(p) \in EndTruth[a]
  <2>1. p \in Sent[a] /\ p \in PacketType
    BY <1>3 DEF EndTruth, Sent
  <2>2. Damaged(p) \in PacketType /\ Damaged(p).flag = p.flag /\ Damaged(p).num = p.num
    BY <2>1 DEF Damaged, PacketType, Chunk
  <2>3. ~Damaged(p).good
    BY <2>1 DEF Damaged, PacketType
  <2>4. Damaged(p) \in Sent[a]
    BY <2>1, <2>2 DEF Sent
  <2> QED
    BY <2>3, <2>4 DEF EndTruth, EndPacket
<1>4. Carries(inbox', EndTruth)
  BY <1>3, CarriesFault DEF FaultNext, EndInv, NetworkEnds
<1>5. Carries(inbox', EndTruth')
  BY <1>2, <1>4, EndTruthKept
<1>6. \A c \in Child : ChildEnds(c)'
  BY <1>1, <1>2, ChildEndsStays DEF EndInv
<1> QED
  BY <1>2, <1>5, <1>6 DEF EndInv, NetworkEnds

\* How a child comes to its last states: only by EOF, by DONE, or in an error.
LEMMA ChildDoes ==
    ASSUME TypeInv, NEW c \in Child, ChildNext(c)
    PROVE  \/ child_state'[c] = child_state[c] /\ failed'[c] = failed[c]
           \/ child_state'[c] = "RECV_DATA"
           \/ child_state'[c] = "DONE" /\ failed'[c]
           \/ /\ child_state'[c] = "WAIT_ON_DONE"
              /\ \E p : Arrives(c, p) /\ IsGood(p, "EOF")
           \/ /\ child_state'[c] = "DONE"
              /\ \E p : Arrives(c, p) /\ IsGood(p, "DONE")
<1> USE DEF TypeInv, TypeOK, ServerTypeOK
<1>1. filename_open(c) => child_state'[c] = "RECV_DATA"
  BY DEF filename_open, GoesTo
<1>2. Fails(c) => child_state'[c] = "DONE" /\ failed'[c]
  BY DEF Fails, GoesTo
<1>3. filename_open_error(c) \/ recv_data_timeout(c) \/ write_error(c) => Fails(c)
  BY DEF filename_open_error, recv_data_timeout, write_error
<1>4. wait_on_done_timeout(c) => Fails(c) \/ UNCHANGED <<child_state, failed>>
  BY DEF wait_on_done_timeout
<1>5. ASSUME NEW p
      PROVE  \/ recv_data(c, p) \/ recv_data_ignore(c, p) \/ recv_eof_again(c, p)
             \/ wait_on_done_ignore(c, p)
             => UNCHANGED <<child_state, failed>>
  BY DEF recv_data, recv_data_ignore, recv_eof_again, wait_on_done_ignore, serverVars
<1>6. write_ready(c) \/ write_short(c) \/ write_done(c) => UNCHANGED <<child_state, failed>>
  BY DEF write_ready, write_short, write_done, writes
<1>7. ASSUME NEW p
      PROVE  /\ recv_eof(c, p) => /\ child_state'[c] = "WAIT_ON_DONE"
                                  /\ Arrives(c, p) /\ IsGood(p, "EOF")
             /\ recv_done(c, p) => /\ child_state'[c] = "DONE"
                                   /\ Arrives(c, p) /\ IsGood(p, "DONE")
  BY DEF recv_eof, recv_done, may_receive, GoesTo
<1> QED
  BY <1>1, <1>2, <1>3, <1>4, <1>5, <1>6, <1>7 DEF ChildNext, ChildStep

\* Writing the next chunk at the end of the first pos chunks.
LEMMA StartGrows ==
    ASSUME disk \in Seq(Place), NEW pos \in Nat, pos < Len(File), disk = Start(2 * pos)
    PROVE  WriteAt(2 * pos, halves(File[pos + 1])) = Start(2 * pos + 2)
<1> DEFINE n == 2 * pos
           data == halves(File[pos + 1])
<1>1. /\ Contents[n + 1] = data[1] /\ Contents[n + 2] = data[2]
      /\ Len(data) = 2 /\ data # <<>>
  <2>1. pos + 1 \in 1 .. Len(File) /\ 2 * (pos + 1) = n + 2 /\ 2 * (pos + 1) - 1 = n + 1
    BY Bounds
  <2> QED
    BY <2>1, ContentsOf
<1>2. n \in Nat
  OBVIOUS
<1> HIDE DEF n, data
<1>3. Len(disk) = n
  <2>1. DOMAIN disk = 1 .. n
    BY DEF Start, n
  <2>2. Len(disk) \in Nat /\ DOMAIN disk = 1 .. Len(disk)
    BY LenProperties
  <2> QED
    BY <1>2, <2>1, <2>2
<1> DEFINE m == Max({Len(disk), n + 2})
<1>4. m = n + 2
  <2>1. \E k \in {Len(disk), n + 2} : \A j \in {Len(disk), n + 2} : k >= j
    BY <1>2, <1>3
  <2>2. m \in {Len(disk), n + 2} /\ m >= n + 2
    BY <1>2, <1>3, <2>1 DEF Max
  <2> QED
    BY <1>2, <1>3, <2>2
<1>5. WriteAt(n, data) =
        [i \in 1 .. m |-> IF i \in n + 1 .. n + 2 THEN data[i - n]
                          ELSE IF i <= Len(disk) THEN disk[i] ELSE Nil]
  BY <1>1 DEF WriteAt
<1> HIDE DEF m
<1>6. ASSUME NEW i \in 1 .. n + 2
      PROVE  (IF i \in n + 1 .. n + 2 THEN data[i - n]
              ELSE IF i <= Len(disk) THEN disk[i] ELSE Nil) = Contents[i]
  <2>1. CASE i = n + 1
    BY <1>1, <1>2, <2>1
  <2>2. CASE i = n + 2
    BY <1>1, <1>2, <2>2
  <2>3. CASE i \in 1 .. n
    <3>1. disk[i] = Contents[i]
      BY <2>3 DEF Start, n
    <3> QED
      BY <1>2, <1>3, <2>3, <3>1
  <2> QED
    BY <1>2, <2>1, <2>2, <2>3
<1>7. WriteAt(n, data) = Start(n + 2)
  BY <1>4, <1>5, <1>6 DEF Start
<1> QED
  BY <1>7 DEF n, data

\* The chunk of a DATA packet, counted from the beginning of the file.
LEMMA ChunkPlace ==
    ASSUME FileFits, NEW seq \in FIRST_DATA_SEQ .. EndSeq, seq < EndSeq
    PROVE  /\ seq \in FIRST_DATA_SEQ .. EndSeq - 1
           /\ seq - FIRST_DATA_SEQ \in Nat /\ seq - FIRST_DATA_SEQ < Len(File)
           /\ (seq - FIRST_DATA_SEQ) + 1 = seq - 1
           /\ (seq + 1) - FIRST_DATA_SEQ = seq - 1
           /\ seq - 1 \in 1 .. Len(File)
<1>1. ASSUME NEW n \in Nat, NEW k \in 2 .. n + 2, k < n + 2
      PROVE  /\ k \in 2 .. (n + 2) - 1 /\ k - 2 \in Nat /\ k - 2 < n
             /\ (k - 2) + 1 = k - 1 /\ (k + 1) - 2 = k - 1 /\ k - 1 \in 1 .. n
  BY <1>1
<1>2. EndSeq = Len(File) + 2 /\ FIRST_DATA_SEQ = 2 /\ Len(File) \in Nat
  BY Fits
<1> QED
  BY <1>1, <1>2

\* A write puts the next chunk at the end of the file.
LEMMA WritesNext ==
    ASSUME FileFits, WholeWrites, CopyInv, NEW c \in Child, ChildEnds(c), write_ready(c)
    PROVE  /\ offset[c] \in Nat /\ offset[c] + 2 <= 2 * Len(File)
           /\ disk = Start(offset[c]) /\ disk' = Start(offset[c] + 2)
           /\ offset'[c] = offset[c] + 2
<1> USE DEF CopyInv, TypeInv, TypeOK, ServerTypeOK
<1>1. child_state[c] = "RECV_DATA"
  BY DEF write_ready, writes, may_write, ServerReady, ChildReady
<1>2. /\ IsBuffer(buffer[c], Chunk) /\ serves(c) /\ buffer[c].size > 0
      /\ buffer[c].expected \in SeqNum /\ buffer[c].expected + buffer[c].size < SeqSpace
  BY <1>1, BufferBounds DEF serves
<1> DEFINE pos == buffer[c].expected - FIRST_DATA_SEQ
<1>3. /\ BufferHolds(buffer[c], Payload, EndSeq)
      /\ buffer[c].expected \in FIRST_DATA_SEQ .. EndSeq
      /\ offset[c] = 2 * pos
  BY <1>2 DEF ServerRight, ChildRight
<1>4. buffer_has(buffer[c], buffer[c].expected)
  BY DEF write_ready, writes, may_write, buffer_expected
<1>5. /\ buffer[c].expected < EndSeq
      /\ buffer_ready(buffer[c]) = Payload[buffer[c].expected]
  BY <1>2, <1>3, <1>4, Fits, BufferWroteHolds
<1>6. /\ pos \in Nat /\ pos < Len(File) /\ pos + 1 = buffer[c].expected - 1
      /\ buffer[c].expected \in FIRST_DATA_SEQ .. EndSeq - 1
  BY <1>3, <1>5, ChunkPlace
<1>7. buffer_ready(buffer[c]) = File[pos + 1]
  BY <1>5, <1>6, DataNumber
<1>8. /\ disk' = WriteAt(offset[c], halves(File[pos + 1]))
      /\ offset'[c] = offset[c] + 2
  <2>1. offset'[c] = offset[c] + Len(halves(File[pos + 1]))
    BY <1>7 DEF write_ready, writes
  <2>2. Len(halves(File[pos + 1])) = 2
    BY DEF halves
  <2> QED
    BY <1>7, <2>1, <2>2 DEF write_ready, writes
<1>9. disk = Start(offset[c]) /\ disk \in Seq(Place)
  BY <1>2 DEF ChildEnds
<1> HIDE DEF pos
<1>10. offset[c] \in Nat /\ offset[c] + 2 <= 2 * Len(File)
  BY <1>3, <1>6, Bounds
<1> QED
  BY <1>3, <1>6, <1>8, <1>9, <1>10, StartGrows

\* What the only child has written is the beginning of the file.
LEMMA FileGrows ==
    ASSUME FileFits, WholeWrites, CopyInv, NEW c \in Child, ChildEnds(c), ChildNext(c), serves(c)'
    PROVE  disk' = Start(offset'[c])
<1> USE DEF CopyInv, TypeInv, TypeOK, ServerTypeOK
<1>1. ASSUME serves(c), UNCHANGED <<offset, disk>> PROVE disk' = Start(offset'[c])
  BY <1>1 DEF ChildEnds
<1>2. CASE filename_open(c)
  <2>1. ~serves(c) /\ offset[c] = 0
    BY <1>2 DEF filename_open, ServerRight, ChildRight
  <2>2. disk' = <<>> /\ offset' = offset
    BY <1>2 DEF filename_open
  <2>3. Start(0) = <<>>
    BY DEF Start
  <2> QED
    BY <2>1, <2>2, <2>3
<1>3. CASE write_ready(c)
  BY <1>3, WritesNext
<1>4. CASE write_short(c)
  BY <1>4 DEF write_short, WholeWrites
<1>5. CASE write_done(c) \/ \E p : recv_data(c, p)
  <2>1. child_state[c] = "RECV_DATA"
    BY <1>5 DEF write_done, recv_data, may_receive, ServerReady, ChildReady
  <2>2. serves(c)
    BY <2>1, BufferBounds
  <2>3. UNCHANGED <<offset, disk>>
    BY <1>5 DEF write_done, recv_data
  <2> QED
    BY <1>1, <2>2, <2>3
<1>6. CASE UNCHANGED <<buffer, offset, disk>>
  BY <1>1, <1>6 DEF serves
<1>7. \/ filename_open_error(c) \/ write_error(c) \/ recv_data_timeout(c)
      \/ wait_on_done_timeout(c)
      \/ \E p : \/ recv_eof(c, p) \/ recv_data_ignore(c, p) \/ recv_done(c, p)
                \/ recv_eof_again(c, p) \/ wait_on_done_ignore(c, p)
      => UNCHANGED <<buffer, offset, disk>>
  BY DEF filename_open_error, write_error, recv_data_timeout, wait_on_done_timeout, recv_eof,
         recv_data_ignore, recv_done, recv_eof_again, wait_on_done_ignore, serverVars
<1> QED
  BY <1>2, <1>3, <1>4, <1>5, <1>6, <1>7 DEF ChildNext, ChildStep

\* Until a child opens it, the file is empty.
LEMMA UnopenedStays ==
    ASSUME FileFits, CopyInv, Stable, NEW c \in Child, ChildEnds(c), ChildNext(c), ~serves(c)'
    PROVE  disk' = <<>>
<1> USE DEF CopyInv, TypeInv, TypeOK, ServerTypeOK
<1>1. ~serves(c) /\ disk = <<>>
  BY DEF Stable, ChildEnds
<1>2. filename_open(c) => disk' = <<>>
  BY DEF filename_open
<1>3. ~write_ready(c) /\ ~write_short(c)
  <2>1. write_ready(c) \/ write_short(c) => child_state[c] = "RECV_DATA"
    BY DEF write_ready, write_short, writes, may_write, ServerReady, ChildReady
  <2> QED
    BY <1>1, <2>1, BufferBounds
<1>4. \/ filename_open_error(c) \/ write_error(c) \/ write_done(c) \/ recv_data_timeout(c)
      \/ wait_on_done_timeout(c)
      \/ \E p : \/ recv_data(c, p) \/ recv_eof(c, p) \/ recv_data_ignore(c, p)
                \/ recv_done(c, p) \/ recv_eof_again(c, p) \/ wait_on_done_ignore(c, p)
      => UNCHANGED disk
  BY DEF filename_open_error, write_error, write_done, recv_data_timeout, wait_on_done_timeout,
         recv_data, recv_eof, recv_data_ignore, recv_done, recv_eof_again,
         wait_on_done_ignore, serverVars
<1> QED
  BY <1>1, <1>2, <1>3, <1>4 DEF ChildNext, ChildStep

\* What a child sends tells nothing of the end, unless it opens the file.
LEMMA AnswersQuietly ==
    ASSUME NEW box, Carries(box, EndTruth'), NEW c \in Child,
           NEW flag \in {"RR", "SREJ", "EOF_ACK", "FILENAME_RESP"}, NEW num \in SeqNum,
           flag = "FILENAME_RESP" /\ num = 0 => serves(c)'
    PROVE  Carries(Posted(box, Client, <<make_packet(c, flag, num, Nil)>>), EndTruth')
<1>1. EndPacket(make_packet(c, flag, num, Nil))'
  BY DEF EndPacket, make_packet
<1>2. c \in Address /\ Client \in Address /\ Nil \in Chunk /\ flag \in Flag
  BY DEF Address, Chunk, Flag
<1> QED
  BY <1>1, <1>2, SendsOther

\* Every packet a child sends is true about the end.
LEMMA ChildMail ==
    ASSUME FileFits, CopyInv, EndInv, Stable, NEW c \in Child, ChildNext(c)
    PROVE  NetworkEnds'
<1> USE DEF CopyInv
<1> SUFFICES Carries(inbox', EndTruth')
  BY DEF NetworkEnds
<1>0. /\ Client \in Address /\ c \in Address /\ Nil \in Chunk
      /\ 0 \in SeqNum /\ 1 \in SeqNum
  BY PacketAssumption DEF Address, Chunk, SeqNum
<1>1. Carries(inbox, EndTruth')
  BY EndTruthKept DEF EndInv, NetworkEnds
<1>2. ASSUME NEW p, Arrives(c, p)
      PROVE  /\ Carries(Taken(c), EndTruth')
             /\ p \in PacketType
  <2>1. Carries(Taken(c), EndTruth) /\ p \in PacketType
    BY <1>0, <1>2, ReceivedEnd DEF EndInv
  <2> QED
    BY <2>1, EndTruthKept
<1>3. IsBuffer(buffer[c], Chunk) /\ buffer[c].expected \in SeqNum
  BY BufferBounds
<1>4. CASE filename_open(c)
  <2>1. buffer'[c].size > 0
    <3>1. asked_size[c] = WindowSize
      BY <1>4 DEF filename_open, TypeInv, ServerReady, ChildReady
    <3>2. buffer'[c] = buffer_init(WindowSize, FIRST_DATA_SEQ)
      BY <1>4, <3>1 DEF filename_open, TypeInv, TypeOK, ServerTypeOK
    <3> QED
      BY <3>2, Bounds DEF buffer_init
  <2> QED
    BY <1>0, <1>1, <1>4, <2>1, AnswersQuietly
    DEF filename_open, child_sends, send_filename_response, serves
<1>5. CASE filename_open_error(c)
  BY <1>0, <1>1, <1>5, AnswersQuietly
  DEF filename_open_error, child_sends, send_filename_response
<1>6. CASE recv_data_timeout(c) \/ write_ready(c) \/ write_short(c) \/ write_error(c)
  <2>1. inbox' = inbox
    BY <1>6 DEF recv_data_timeout, write_ready, write_short, write_error, writes, networkVars
  <2> QED
    BY <1>1, <2>1
<1>7. CASE wait_on_done_timeout(c)
  BY <1>0, <1>1, <1>7, AnswersQuietly DEF wait_on_done_timeout, child_sends, send_eof_ack
<1>8. ASSUME NEW p, \/ recv_eof(c, p) \/ recv_data_ignore(c, p) \/ recv_done(c, p)
                    \/ recv_eof_again(c, p) \/ wait_on_done_ignore(c, p)
      PROVE  Carries(inbox', EndTruth')
  <2>1. Carries(Taken(c), EndTruth')
    BY <1>2, <1>8 DEF recv_eof, recv_data_ignore, recv_done, recv_eof_again,
                      wait_on_done_ignore, may_receive
  <2>2. inbox' = Taken(c) \/ child_sends(Taken(c), <<send_eof_ack(c)>>)
    BY <1>8 DEF recv_eof, recv_data_ignore, recv_done, recv_eof_again, wait_on_done_ignore
  <2> QED
    BY <1>0, <2>1, <2>2, AnswersQuietly DEF child_sends, send_eof_ack
<1>9. ASSUME NEW p, recv_data(c, p) PROVE Carries(inbox', EndTruth')
  <2> DEFINE saved == buffer_save(buffer[c], p.num, p.data)
  <2>1. Carries(Taken(c), EndTruth') /\ p \in PacketType
    BY <1>2, <1>9 DEF recv_data, may_receive
  <2>2. saved.expected \in SeqNum
    <3>1. serves(c) /\ buffer[c].size > 0
      BY <1>9, BufferBounds DEF recv_data, may_receive, serves
    <3>2. p.num \in SeqNum /\ p.data \in Chunk
      BY <2>1 DEF PacketType
    <3>3. IsBuffer(saved, Chunk)
      BY <1>3, <3>1, <3>2, BufferSaveType
    <3> HIDE DEF saved
    <3> QED
      BY <3>3 DEF IsBuffer
  <2> HIDE DEF saved
  <2>3. CASE data_outside(c, p)
    BY <1>3, <2>1, <2>3, AnswersQuietly DEF data_outside, child_sends, send_rr, buffer_expected
  <2>4. CASE data_expected(c, p)
    BY <2>1, <2>4 DEF data_expected
  <2>5. CASE data_later(c, p)
    BY <2>1, <2>2, <2>5, AnswersQuietly
    DEF data_later, saved, child_sends, send_reject, buffer_expected
  <2> QED
    BY <1>9, <2>3, <2>4, <2>5 DEF recv_data
<1>10. CASE write_done(c)
  <2> DEFINE rr == make_packet(c, "RR", buffer[c].expected, Nil)
             srej == make_packet(c, "SREJ", buffer[c].expected, Nil)
  <2>1. Carries(Posted(inbox, Client, <<rr>>), EndTruth')
    BY <1>1, <1>3, AnswersQuietly
  <2>2. Carries(Posted(Posted(inbox, Client, <<rr>>), Client, <<srej>>), EndTruth')
    BY <1>3, <2>1, AnswersQuietly
  <2>3. \/ inbox' = Posted(inbox, Client, <<rr, srej>>)
        \/ inbox' = Posted(inbox, Client, <<rr>>)
    BY <1>10 DEF write_done, child_sends, send_rr, send_reject, buffer_expected
  <2>4. Posted(Posted(inbox, Client, <<rr>>), Client, <<srej>>) =
          Posted(inbox, Client, <<rr, srej>>)
    <3>1. rr \in Sent[Client] /\ srej \in Sent[Client]
      BY <1>0, <1>3, PacketMade DEF Flag
    <3>2. Carries(inbox, Sent)
      BY DEF TypeInv, NetworkReady
    <3> HIDE DEF rr, srej
    <3> QED
      BY <1>0, <3>1, <3>2, PostedTwice
  <2> HIDE DEF rr, srej
  <2> QED
    BY <2>1, <2>2, <2>3, <2>4
<1> QED
  BY <1>4, <1>5, <1>6, <1>7, <1>8, <1>9, <1>10 DEF ChildNext, ChildStep

\* Every step of the only child.
LEMMA ChildStepEnds ==
    ASSUME FileFits, OneChild, CopyInv, CopyInv', Onward, EndInv, NEW c \in Child, ChildNext(c)
    PROVE  EndInv'
<1>1. RcopyEnds' /\ Stable
  BY OthersEnd DEF ChildNext
<1>2. NetworkEnds'
  BY <1>1, ChildMail
<1>3. ASSUME NEW p, Arrives(c, p) PROVE EndPacket(p)
  BY <1>3, ReceivedEnd DEF EndInv, Address
<1>4. child_state'[c] = "WAIT_ON_DONE" => Ended'
  BY <1>1, <1>3, ChildDoes
  DEF CopyInv, EndInv, ChildEnds, Stable, EndPacket, IsGood, check_packet, get_flag
<1>5. child_state'[c] = "DONE" /\ ~failed'[c] => Succeeded'
  BY <1>1, <1>3, ChildDoes
  DEF CopyInv, EndInv, ChildEnds, Stable, EndPacket, IsGood, check_packet, get_flag
<1>6. WholeWrites /\ serves(c)' => disk' = Start(offset'[c])
  BY FileGrows DEF EndInv
<1>7. ~serves(c)' => disk' = <<>>
  BY <1>1, UnopenedStays DEF EndInv
<1>8. ChildEnds(c)'
  BY <1>4, <1>5, <1>6, <1>7 DEF ChildEnds, Start, WholeWrites
<1>9. \A d \in Child : d = c
  BY DEF OneChild
<1> QED
  BY <1>1, <1>2, <1>8, <1>9 DEF EndInv

\* Every step.
LEMMA EndStep ==
    ASSUME FileFits, OneChild, CopyInv, CopyInv', Onward, EndInv, [Next]_vars
    PROVE  EndInv'
<1>1. CASE UNCHANGED vars
  <2>1. UNCHANGED rcopyVars /\ UNCHANGED <<child_state, buffer, offset, disk, failed>>
        /\ inbox' = inbox
    BY <1>1 DEF vars, serverVars, networkVars
  <2>2. RcopyEnds' /\ Stable /\ Carries(inbox, EndTruth')
    BY <2>1, OthersEnd
  <2>3. \A c \in Child : ChildEnds(c)'
    BY <2>1, <2>2, ChildEndsStays DEF EndInv
  <2> QED
    BY <2>1, <2>2, <2>3 DEF EndInv, NetworkEnds
<1> QED
  BY <1>1, RcopyStepEnds, MainStepEnds, ChildStepEnds, FaultStepEnds DEF Next, Finished

\* The inductive invariant holds for ever.
LEMMA EndInvariant ==
    ASSUME FileFits, OneChild
    PROVE  Spec => [](CopyInv /\ EndInv)
<1>1. Init => CopyInv /\ EndInv
  BY CopyInit, EndInit
<1>2. CopyInv /\ EndInv /\ [Next]_vars => (CopyInv /\ EndInv)'
  BY CopyStep, EndStep
<1> QED
  BY <1>1, <1>2, PTL DEF Spec

-----------------------------------------------------------------------------
(* The theorems.                                                           *)

\* Once everything is acknowledged, the child has written everything.
LEMMA EndedMeansWritten ==
    ASSUME FileFits, CopyInv, EndInv, Ended, NEW c \in Child
    PROVE  /\ serves(c) /\ buffer[c].expected = EndSeq
           /\ WholeWrites => offset[c] = 2 * Len(File)
<1>1. serves(c) /\ EndSeq <= buffer[c].expected
  BY DEF Ended, EndInv, RcopyEnds
<1>2. /\ buffer[c].expected \in FIRST_DATA_SEQ .. EndSeq
      /\ WholeWrites => offset[c] = 2 * (buffer[c].expected - FIRST_DATA_SEQ)
  BY <1>1 DEF CopyInv, ServerRight, ChildRight
<1> QED
  BY <1>1, <1>2, Fits

\* Once everything is acknowledged, the output file is the input file.
LEMMA EndedMeansCopied ==
    ASSUME FileFits, OneChild, WholeWrites, CopyInv, EndInv, Ended
    PROVE  disk = Contents
<1>1. PICK c \in Child : TRUE
  BY DEF OneChild
<1>2. serves(c) /\ offset[c] = 2 * Len(File)
  BY EndedMeansWritten
<1>3. disk = Start(2 * Len(File))
  BY <1>2 DEF EndInv, ChildEnds
<1> QED
  BY <1>3 DEF Start, Contents

\* A child acknowledges EOF only with the whole file written, for every file that
\* fits, window size and network, as long as the FILENAME has made one child:
\* handle_eof_packet need not test it.
THEOREM EofCorrect ==
    ASSUME FileFits, OneChild
    PROVE  Spec => []EofAfterAllData
<1>1. CopyInv /\ EndInv => EofAfterAllData
  BY EndedMeansWritten DEF EofAfterAllData, EndInv, ChildEnds
<1> QED
  BY <1>1, EndInvariant, PTL

\* A child that ends without an error has served an rcopy that exits with 0.
THEOREM CleanEndCorrect ==
    ASSUME FileFits, OneChild
    PROVE  Spec => []CleanEndMeansSuccess
<1>1. CopyInv /\ EndInv => CleanEndMeansSuccess
  BY DEF CleanEndMeansSuccess, EndInv, ChildEnds, Succeeded
<1> QED
  BY <1>1, EndInvariant, PTL

\* rcopy exits with status 0 only if the output file is a copy of the input file,
\* as long as there is one child and write stores all it is given or fails.
THEOREM SuccessCorrect ==
    ASSUME FileFits, OneChild, WholeWrites
    PROVE  Spec => []SuccessMeansCopied
<1>1. CopyInv /\ EndInv => SuccessMeansCopied
  BY EndedMeansCopied DEF SuccessMeansCopied, EndInv, RcopyEnds, Succeeded
<1> QED
  BY <1>1, EndInvariant, PTL

-----------------------------------------------------------------------------
(* The protocol implements FileCopy.                                       *)

\* The first n places are a part of the input file.
LEMMA StartIsPart ==
    ASSUME NEW n \in Nat
    PROVE  /\ Len(Start(n)) = n
           /\ Start(n) = SubSeq(Contents, 1, n)
<1>1. Len(Start(n)) = n
  BY DEF Start
<1>2. SubSeq(Contents, 1, n) = [i \in 1 .. n |-> Contents[i]]
  <2> HIDE DEF Contents
  <2> QED
    OBVIOUS
<1> QED
  BY <1>1, <1>2 DEF Start

\* Only a write changes the file once it is open.
LEMMA DiskChanges ==
    ASSUME FileFits, WholeWrites, CopyInv, NEW c \in Child, ChildEnds(c), ChildNext(c)
    PROVE  UNCHANGED disk \/ write_ready(c)
<1>1. filename_open(c) => UNCHANGED disk
  BY DEF filename_open, CopyInv, ServerRight, ChildRight, ChildEnds
<1>2. ~write_short(c)
  BY DEF write_short, WholeWrites
<1>3. \/ filename_open_error(c) \/ write_error(c) \/ write_done(c) \/ recv_data_timeout(c)
      \/ wait_on_done_timeout(c)
      \/ \E p : \/ recv_data(c, p) \/ recv_eof(c, p) \/ recv_data_ignore(c, p)
                \/ recv_done(c, p) \/ recv_eof_again(c, p) \/ wait_on_done_ignore(c, p)
      => UNCHANGED disk
  BY DEF filename_open_error, write_error, write_done, recv_data_timeout, wait_on_done_timeout,
         recv_data, recv_eof, recv_data_ignore, recv_done, recv_eof_again,
         wait_on_done_ignore, serverVars
<1> QED
  BY <1>1, <1>2, <1>3 DEF ChildNext, ChildStep

\* Every step of the protocol is a step of FileCopy or leaves its state alone.
LEMMA StepCopies ==
    ASSUME FileFits, OneChild, WholeWrites, CopyInv, EndInv, [Next]_vars
    PROVE  [Copy!CopyNext]_(Copy!copyVars)
<1>1. ASSUME UNCHANGED rcopyVars PROVE result' = result
  BY <1>1 DEF rcopyVars, result
<1>2. CASE RcopyNext
  <2>1. state # "DONE" /\ UNCHANGED disk
    BY <1>2, RcopyDoes DEF EndInv, RcopyNext, serverVars
  <2>2. CASE state' # "DONE"
    BY <2>1, <2>2 DEF result, Copy!copyVars
  <2>3. CASE state' = "DONE" /\ had_error'
    BY <2>1, <2>3 DEF result, Copy!CopyNext, Copy!Fail
  <2>4. CASE state' = "DONE" /\ ~had_error'
    <3>1. Ended
      BY <1>2, <2>4, RcopyDoes DEF EndInv, RcopyEnds
    <3>2. disk = Contents
      BY <3>1, EndedMeansCopied
    <3> QED
      BY <2>1, <2>4, <3>2 DEF result, Copy!CopyNext, Copy!Succeed
  <2> QED
    BY <2>2, <2>3, <2>4
<1>3. CASE MainNext \/ FaultNext \/ UNCHANGED vars
  <2>1. UNCHANGED rcopyVars /\ UNCHANGED disk
    BY <1>3 DEF MainNext, MainStep, main_recv, FaultNext, vars, serverVars
  <2> QED
    BY <1>1, <2>1 DEF Copy!copyVars
<1>4. ASSUME NEW c \in Child, ChildNext(c) PROVE [Copy!CopyNext]_(Copy!copyVars)
  <2>1. result' = result
    BY <1>1, <1>4 DEF ChildNext
  <2>2. CASE UNCHANGED disk
    BY <2>1, <2>2 DEF Copy!copyVars
  <2>3. CASE write_ready(c)
    <3> DEFINE n == offset[c]
    <3>1. /\ n \in Nat /\ n + 2 <= 2 * Len(File)
          /\ disk = Start(n) /\ disk' = Start(n + 2)
      BY <2>3, WritesNext DEF EndInv
    <3> HIDE DEF n
    <3>2. Len(disk) = n /\ disk' = SubSeq(Contents, 1, n + 2)
      BY <3>1, StartIsPart
    <3>3. Len(Contents) = 2 * Len(File)
      BY Bounds DEF Contents
    <3>4. n + 2 \in Len(disk) + 1 .. Len(Contents)
      BY <3>1, <3>2, <3>3, Bounds
    <3> QED
      BY <2>1, <3>2, <3>4 DEF Copy!CopyNext, Copy!WriteNext
  <2> QED
    BY <1>4, <2>2, <2>3, DiskChanges DEF EndInv
<1> QED
  BY <1>2, <1>3, <1>4 DEF Next, Finished

\* Seen from outside, the whole protocol does what FileCopy promises: the output
\* file grows by its next part and never shrinks, and rcopy reports success on
\* a complete copy only; with one child and a write that stores all or fails.
THEOREM CopyImplemented ==
    ASSUME FileFits, OneChild, WholeWrites
    PROVE  Spec => ImplementsFileCopy
<1>1. Init => Copy!CopyInit
  BY DEF Init, RcopyInit, ServerInit, result, Copy!CopyInit
<1>2. CopyInv /\ EndInv /\ [Next]_vars => [Copy!CopyNext]_(Copy!copyVars)
  BY StepCopies
<1> QED
  BY <1>1, <1>2, EndInvariant, PTL DEF Spec, ImplementsFileCopy, Copy!CopySpec

-----------------------------------------------------------------------------
(* What rcopy keeps for its child.                                         *)

\* The number of the packet that rcopy reads next.
SentEnd == FIRST_DATA_SEQ + read_pos

\* No child knows of a packet that has not been sent, nor is there one on its way.
OnlySent == [a \in Address |->
                {p \in Sent[a] : a \in Child /\ p.good /\ p.flag = "DATA" => p.num < SentEnd}]

SentInv ==
    /\ \A c \in Child : serves(c) => Below(buffer[c], SentEnd)
    /\ Carries(inbox, OnlySent)

\* More has been sent: what was known of before still was.
LEMMA SentMore ==
    ASSUME TypeInv, SentInv, read_pos' = read_pos \/ read_pos' = read_pos + 1
    PROVE  /\ SentEnd \in Nat /\ SentEnd' \in Nat /\ SentEnd <= SentEnd'
           /\ Carries(inbox, OnlySent')
           /\ \A c \in Child : serves(c) => Below(buffer[c], SentEnd')
<1>1. SentEnd \in Nat /\ SentEnd' \in Nat /\ SentEnd <= SentEnd'
  <2>1. read_pos \in Nat
    BY Bounds DEF TypeInv, TypeOK, RcopyTypeOK
  <2> QED
    BY <2>1 DEF SentEnd, FIRST_DATA_SEQ
<1>2. ASSUME NEW a \in Address PROVE OnlySent[a] \subseteq OnlySent'[a]
  <2>1. \A p \in Sent[a] : p.num \in Nat
    BY PacketAssumption DEF Sent, PacketType, SeqNum
  <2> QED
    BY <1>1, <2>1 DEF OnlySent
<1>3. Carries(inbox, OnlySent')
  BY <1>2, CarriesMore DEF SentInv
<1>4. ASSUME NEW c \in Child, serves(c) PROVE Below(buffer[c], SentEnd')
  <2>1. /\ buffer[c].expected \in Nat
        /\ \A spot \in DOMAIN buffer[c].entry : buffer[c].entry[spot].seq \in Nat
    <3>1. IsBuffer(buffer[c], Chunk)
      BY DEF TypeInv, TypeOK, ServerTypeOK
    <3>2. SeqNum \subseteq Nat
      BY PacketAssumption DEF SeqNum
    <3>3. \A spot \in DOMAIN buffer[c].entry : buffer[c].entry[spot].seq \in SeqNum
      BY <3>1 DEF IsBuffer
    <3> QED
      BY <3>1, <3>2, <3>3 DEF IsBuffer
  <2> QED
    BY <1>1, <1>4, <2>1 DEF SentInv, Below
<1> QED
  BY <1>1, <1>3, <1>4

LEMMA SentInit == TypeInv /\ Init => SentInv
<1> SUFFICES ASSUME TypeInv, Init PROVE SentInv
  OBVIOUS
<1>1. \A c \in Child : ~serves(c)
  BY DEF Init, ServerInit, serves, no_buffer
<1>2. inbox = [a \in Address |-> <<>>] /\ \A T : <<>> \in Seq(T)
  BY DEF Init, NetworkInit
<1>3. Carries(inbox, OnlySent)
  BY <1>2 DEF Carries
<1> QED
  BY <1>1, <1>3 DEF SentInv

\* It is enough to look at the queues of the children.
LEMMA OnlySentQueues ==
    ASSUME TypeInv', \A c \in Child : inbox'[c] \in Seq(OnlySent'[c])
    PROVE  Carries(inbox', OnlySent')
<1>1. Carries(inbox', Sent)
  BY DEF TypeInv, NetworkReady
<1>2. \A a \in Address \ Child : OnlySent'[a] = Sent[a]
  BY DEF OnlySent, Sent
<1> QED
  BY <1>1, <1>2 DEF Carries

\* rcopy reads on, or not.
LEMMA RcopyReadsOn ==
    ASSUME RcopyNext
    PROVE  read_pos' = read_pos \/ read_pos' = read_pos + 1
<1>1. \A p : filename_recv(p) \/ process_controls_recv(p) \/ eof_recv(p) => read_pos' = read_pos
  BY DEF filename_recv, filename_response, filename_try_again, process_controls_recv, eof_recv
<1>2. send_data => read_pos' = read_pos + 1
  BY DEF send_data
<1>3. \/ filename_send \/ filename_timeout \/ send_data_end_of_file \/ send_data_read_error
      \/ send_data_leave \/ send_data_drained \/ wait_on_ack_timeout \/ wait_on_ack_drained
      \/ eof_send \/ eof_timeout
      => read_pos' = read_pos
  BY DEF filename_send, filename_timeout, filename_try_again, send_data_end_of_file,
         send_data_read_error, send_data_leave, send_data_drained, wait_on_ack_timeout,
         wait_on_ack_drained, eof_send, eof_timeout
<1> QED
  BY <1>1, <1>2, <1>3 DEF RcopyNext, RcopyStep, RcopyTimeout

\* rcopy sends no packet that it has not read.
LEMMA RcopyStepSent ==
    ASSUME FileFits, CopyInv, CopyInv', SentInv, RcopyNext
    PROVE  SentInv'
<1> USE DEF CopyInv
<1>1. /\ SentEnd' \in Nat /\ Carries(inbox, OnlySent')
      /\ \A c \in Child : serves(c) => Below(buffer[c], SentEnd')
  BY RcopyReadsOn, SentMore
<1>2. \A c \in Child : serves(c)' => Below(buffer[c], SentEnd)'
  BY <1>1 DEF RcopyNext, serverVars, serves, Below
<1>3. ASSUME NEW c \in Child, NEW p, Unacked(p), inbox'[c] = inbox[c] \o <<p>>
      PROVE  inbox'[c] \in Seq(OnlySent'[c])
  <2>1. c \in Address
    BY DEF Address
  <2>2. inbox[c] \in Seq(OnlySent'[c]) /\ inbox[c] \in Seq(Sent[c]) /\ inbox'[c] \in Seq(Sent[c])
    BY <1>1, <2>1 DEF TypeInv, NetworkReady, Carries
  <2>3. p \in Sent[c]
    <3>1. Len(inbox'[c]) = Len(inbox[c]) + 1 /\ inbox'[c][Len(inbox[c]) + 1] = p
      BY <1>3, <2>2, LastAppended
    <3>2. Len(inbox'[c]) \in 1 .. Len(inbox'[c])
      BY <2>2, <3>1, LenProperties
    <3> QED
      BY <2>2, <3>1, <3>2, ElementOfSeq
  <2>4. p.flag = "DATA" => p.num < SentEnd'
    <3>1. SUFFICES ASSUME p.flag = "DATA" PROVE p.num < SentEnd'
      OBVIOUS
    <3>2. window'.size > 0 /\ p.num \in window'.lower .. window'.current - 1
      BY <1>3, <3>1 DEF Unacked
    <3>3. window'.current = SentEnd' /\ window'.lower \in Int
      BY <3>2, PacketAssumption
      DEF RcopyRight, SentEnd, TypeInv, TypeOK, RcopyTypeOK, IsWindow, SeqNum
    <3> QED
      BY <1>1, <3>2, <3>3
  <2>5. p \in OnlySent'[c]
    BY <2>1, <2>3, <2>4 DEF OnlySent
  <2> QED
    BY <1>3, <2>2, <2>5, OnePacket, ConcatProperties
<1>4. \A c \in Child : inbox'[c] \in Seq(OnlySent'[c])
  <2>1. \A c \in Child : inbox[c] \in Seq(OnlySent'[c])
    BY <1>1 DEF Carries, Address
  <2> QED
    BY <1>3, <2>1, RcopyQueues
<1> QED
  BY <1>2, <1>4, OnlySentQueues DEF SentInv

\* A child knows only of what it had and of the packet that it receives.
LEMMA ChildStepBelow ==
    ASSUME FileFits, CopyInv, SentInv, read_pos' = read_pos, NEW d \in Child, ChildNext(d),
           NEW c \in Child, serves(c)'
    PROVE  Below(buffer[c], SentEnd)'
<1> USE DEF CopyInv
<1>1. SentEnd \in Nat /\ SentEnd' = SentEnd
  BY Bounds DEF TypeInv, TypeOK, RcopyTypeOK, SentEnd, FIRST_DATA_SEQ
<1> SUFFICES Below(buffer'[c], SentEnd)
  BY <1>1 DEF Below
<1>2. /\ buffer = [e \in Child |-> buffer[e]]
      /\ IsBuffer(buffer[d], Chunk) /\ d \in Address
  BY DEF TypeInv, TypeOK, ServerTypeOK, Address
<1>3. CASE buffer'[c] = buffer[c]
  BY <1>3 DEF SentInv, serves
<1>4. CASE filename_open(d) /\ c = d
  <2> DEFINE b == buffer_init(asked_size[d], FIRST_DATA_SEQ)
  <2>1. buffer'[c] = b
    BY <1>2, <1>4 DEF filename_open
  <2>2. FIRST_DATA_SEQ <= SentEnd
    BY Bounds DEF SentEnd, FIRST_DATA_SEQ, TypeInv, TypeOK, RcopyTypeOK
  <2>3. Below(b, SentEnd)
    BY <2>2 DEF Below, buffer_init, FreeEntry
  <2> QED
    BY <2>1, <2>3
<1>5. ASSUME NEW p, recv_data(d, p), c = d PROVE Below(buffer'[c], SentEnd)
  <2>1. /\ serves(c) /\ Below(buffer[c], SentEnd)
        /\ Arrives(c, p) /\ p.good /\ p.flag = "DATA" /\ c \in Address
    BY <1>2, <1>5, BufferBounds
    DEF recv_data, may_receive, IsGood, check_packet, get_flag, SentInv
  <2>2. p.num < SentEnd
    <3>1. p \in OnlySent[c]
      BY <2>1, CarriesTaken DEF SentInv, Arrives
    <3> QED
      BY <2>1, <3>1 DEF OnlySent
  <2> DEFINE saved == buffer_save(buffer[c], p.num, p.data)
  <2>3. IsBuffer(saved, Chunk) /\ Below(saved, SentEnd)
    <3>1. p.num \in SeqNum /\ p.data \in Chunk
      BY <2>1, Received DEF TypeInv, PacketType
    <3>2. buffer[c].size > 0
      BY <2>1 DEF serves
    <3> QED
      BY <1>2, <1>5, <2>1, <2>2, <3>1, <3>2, BufferSaveType, BufferSaveBelow
  <2>4. buffer'[c] \in {buffer[c], saved, buffer_rejected(saved), buffer_clear_reject(saved, p.num)}
    BY <1>2, <1>5 DEF recv_data, data_outside, data_expected, data_later
  <2> HIDE DEF saved
  <2> QED
    BY <2>1, <2>3, <2>4, BufferRejectBelow
<1>6. CASE c = d /\ (write_ready(d) \/ write_short(d))
  <2>1. /\ serves(c) /\ Below(buffer[c], SentEnd) /\ buffer[c].size > 0
        /\ buffer[c].expected + 1 < SeqSpace
    <3>1. child_state[c] = "RECV_DATA"
      BY <1>6 DEF write_ready, write_short, writes, may_write, TypeInv, ServerReady, ChildReady
    <3>2. serves(c) /\ buffer[c].expected \in Nat /\ buffer[c].size \in Nat \ {0}
          /\ buffer[c].expected + buffer[c].size < SeqSpace
      BY <3>1, BufferBounds, Fits
    <3> QED
      BY <3>2, Fits DEF SentInv
  <2>2. buffer'[c] = buffer_wrote(buffer[c]) /\ buffer_has(buffer[c], buffer[c].expected)
    BY <1>2, <1>6 DEF write_ready, write_short, writes, may_write, buffer_expected
  <2> QED
    BY <1>1, <1>2, <1>6, <2>1, <2>2, BufferWroteBelow
<1>7. CASE c = d /\ write_done(d)
  <2>1. buffer'[c] \in {buffer[c], buffer_rejected(buffer[c])}
    BY <1>2, <1>7 DEF write_done
  <2>2. serves(c)
    <3>1. child_state[c] = "RECV_DATA"
      BY <1>7 DEF write_done, TypeInv, ServerReady, ChildReady
    <3> QED
      BY <3>1, BufferBounds
  <2> QED
    BY <1>2, <1>7, <2>1, <2>2, BufferRejectBelow DEF SentInv
<1>8. UNCHANGED buffer \/ filename_open(d) \/ (\E p : recv_data(d, p))
      \/ write_ready(d) \/ write_short(d) \/ write_done(d)
  <2>1. \A p : recv_eof(d, p) \/ recv_data_ignore(d, p) \/ recv_done(d, p)
               \/ recv_eof_again(d, p) \/ wait_on_done_ignore(d, p) => UNCHANGED buffer
    BY DEF recv_eof, recv_data_ignore, recv_done, recv_eof_again, wait_on_done_ignore, serverVars
  <2>2. filename_open_error(d) \/ write_error(d) \/ recv_data_timeout(d) \/ wait_on_done_timeout(d)
           => UNCHANGED buffer
    BY DEF filename_open_error, write_error, recv_data_timeout, wait_on_done_timeout
  <2> QED
    BY <2>1, <2>2 DEF ChildNext, ChildStep
<1>9. c # d => buffer'[c] = buffer[c]
  <2>1. UNCHANGED buffer \/ \E b : buffer' = [buffer EXCEPT ![d] = b]
    <3>1. \A p : recv_data(d, p) => UNCHANGED buffer \/ \E b : buffer' = [buffer EXCEPT ![d] = b]
      BY DEF recv_data, data_outside, data_expected, data_later
    <3>2. filename_open(d) \/ write_ready(d) \/ write_short(d) \/ write_done(d)
             => UNCHANGED buffer \/ \E b : buffer' = [buffer EXCEPT ![d] = b]
      BY DEF filename_open, write_ready, write_short, writes, write_done
    <3> QED
      BY <1>8, <3>1, <3>2
  <2> QED
    BY <1>2, <2>1
<1> QED
  BY <1>3, <1>4, <1>5, <1>6, <1>7, <1>8, <1>9

LEMMA SentStep ==
    ASSUME FileFits, CopyInv, CopyInv', SentInv, [Next]_vars
    PROVE  SentInv'
<1> USE DEF CopyInv
<1>1. CASE RcopyNext
  BY <1>1, RcopyStepSent
<1>2. CASE MainNext \/ \E d \in Child : ChildNext(d)
  <2>1. read_pos' = read_pos
    BY <1>2 DEF MainNext, ChildNext, rcopyVars
  <2>2. SentEnd' = SentEnd /\ OnlySent' = OnlySent
    BY <2>1 DEF SentEnd, OnlySent
  <2>3. ASSUME NEW c \in Child PROVE inbox'[c] \in Seq(OnlySent'[c])
    <3>1. inbox[c] \in Seq(OnlySent[c])
      BY DEF SentInv, Carries, Address
    <3>2. inbox[c] # <<>> => Tail(inbox[c]) \in Seq(OnlySent[c])
      BY <3>1, HeadTailProperties
    <3> QED
      BY <1>2, <2>2, <3>1, <3>2, ServerSendsNoData
  <2>4. Carries(inbox', OnlySent')
    BY <2>3, OnlySentQueues
  <2>5. ASSUME NEW c \in Child, serves(c)' PROVE Below(buffer[c], SentEnd)'
    <3>1. CASE MainNext
      BY <2>2, <2>5, <3>1 DEF MainNext, MainStep, main_recv, SentInv, serves, Below
    <3>2. CASE \E d \in Child : ChildNext(d)
      BY <2>1, <2>5, <3>2, ChildStepBelow
    <3> QED
      BY <1>2, <3>1, <3>2
  <2> QED
    BY <2>4, <2>5 DEF SentInv
<1>3. CASE FaultNext \/ UNCHANGED vars
  <2>1. UNCHANGED <<read_pos, buffer>>
    BY <1>3 DEF FaultNext, vars, rcopyVars, serverVars
  <2>2. SentEnd' = SentEnd /\ OnlySent' = OnlySent
    BY <2>1 DEF SentEnd, OnlySent
  <2>3. Carries(inbox', OnlySent)
    <3>1. CASE FaultNext
      <4>1. ASSUME NEW a \in Address, NEW p \in OnlySent[a] PROVE Damaged(p) \in OnlySent[a]
        <5>1. p \in Sent[a]
          BY <4>1 DEF OnlySent
        <5>2. Damaged(p) \in Sent[a] /\ ~Damaged(p).good
          BY <5>1 DEF Sent, Damaged, PacketType, Chunk
        <5> QED
          BY <5>2 DEF OnlySent
      <4> QED
        BY <3>1, <4>1, CarriesFault DEF FaultNext, SentInv
    <3>2. CASE UNCHANGED vars
      BY <3>2 DEF vars, networkVars, SentInv
    <3> QED
      BY <1>3, <3>1, <3>2
  <2> QED
    BY <2>1, <2>2, <2>3 DEF SentInv, serves, Below
<1> QED
  BY <1>1, <1>2, <1>3 DEF Next, Finished

\* What the only child expects next is in rcopy's window, where it can be asked
\* for and is re-sent after a time-out, or is the packet that rcopy sends next.
THEOREM MissingKept ==
    ASSUME FileFits, OneChild
    PROVE  Spec => []SenderKeepsMissing
<1>1. Init => SentInv
  BY SentInit, TypeInit
<1>2. SentInv /\ CopyInv /\ CopyInv' /\ [Next]_vars => SentInv'
  BY SentStep
<1>3. CopyInv /\ EndInv /\ SentInv => SenderKeepsMissing
  <2>1. SUFFICES ASSUME CopyInv, EndInv, SentInv, NEW c \in Child, serves(c),
                        state \in {"SEND_DATA", "WAIT_ON_ACK"}
                 PROVE  /\ window.lower <= buffer[c].expected
                        /\ buffer[c].expected <= window.current
                        /\ buffer[c].expected < window.current =>
                              window_find(window, buffer[c].expected)
    BY DEF SenderKeepsMissing
  <2>2. window.size > 0
    BY <2>1, Bounds DEF CopyInv, TypeInv, RcopyReady
  <2>3. /\ window.lower <= buffer[c].expected /\ window.lower \in Nat
        /\ buffer[c].expected \in Nat /\ window.current \in Nat
    BY <2>1, <2>2, WindowBounds, BufferBounds, Fits DEF CopyInv, EndInv, RcopyEnds
  <2>4. buffer[c].expected <= window.current
    BY <2>1, <2>2 DEF CopyInv, RcopyRight, SentInv, SentEnd, Below
  <2>5. \A seq \in window.lower .. window.current - 1 : window_find(window, seq)
    BY <2>1, <2>2 DEF CopyInv, RcopyRight, WindowHolds
  <2> QED
    BY <2>3, <2>4, <2>5
<1> QED
  BY <1>1, <1>2, <1>3, EndInvariant, PTL DEF Spec

-----------------------------------------------------------------------------
(* Short writes leave something out, and that is all they do.              *)

\* The file out holds, in order, the places in kept of the input file.
Keeps(kept, out) ==
    /\ Len(out) = Cardinality(kept)
    /\ \A k \in kept : out[Cardinality({j \in kept : j <= k})] = Contents[k]

\* How many places of the input file the child has given to write.
Given(c) == IF serves(c) THEN 2 * (buffer[c].expected - FIRST_DATA_SEQ) ELSE 0

OrderInv ==
    \A c \in Child :
        /\ serves(c) => offset[c] = Len(disk)
        /\ \E kept \in SUBSET (1 .. Given(c)) : Keeps(kept, disk)

\* The next place, added at the end.
LEMMA KeepsOneMore ==
    ASSUME NEW S, NEW out \in Seq(S), NEW n \in Nat, NEW kept \in SUBSET (1 .. n),
           Keeps(kept, out), Contents[n + 1] \in S
    PROVE  /\ kept \cup {n + 1} \in SUBSET (1 .. n + 1)
           /\ Keeps(kept \cup {n + 1}, Append(out, Contents[n + 1]))
<1> DEFINE x == Contents[n + 1]
           more == kept \cup {n + 1}
           longer == Append(out, x)
           upto(set, k) == {j \in set : j <= k}
<1>1. more \in SUBSET (1 .. n + 1) /\ n + 1 \notin kept
  OBVIOUS
<1>2. IsFiniteSet(kept)
  <2>1. IsFiniteSet(1 .. n)
    BY FS_Interval
  <2> QED
    BY <2>1, FS_Subset
<1>3. Cardinality(more) = Cardinality(kept) + 1
  BY <1>1, <1>2, FS_AddElement
<1> HIDE DEF x
<1>4. /\ Len(longer) = Len(out) + 1 /\ Len(out) \in Nat
      /\ \A i \in 1 .. Len(out) : longer[i] = out[i]
      /\ longer[Len(out) + 1] = x
  BY AppendProperties, LenProperties DEF x
<1> HIDE DEF longer
<1>5. ASSUME NEW k \in kept PROVE longer[Cardinality(upto(more, k))] = Contents[k]
  <2>1. upto(more, k) = upto(kept, k)
    BY <1>1
  <2>2. upto(kept, k) \in SUBSET kept /\ k \in upto(kept, k)
    BY <1>1
  <2>3. IsFiniteSet(upto(kept, k)) /\ Cardinality(upto(kept, k)) <= Cardinality(kept)
    BY <1>2, <2>2, FS_Subset
  <2>4. Cardinality(upto(kept, k)) \in Nat \ {0}
    BY <2>2, <2>3, FS_CardinalityType, FS_EmptySet
  <2>5. Cardinality(upto(kept, k)) \in 1 .. Len(out)
    BY <1>4, <2>3, <2>4 DEF Keeps
  <2>6. out[Cardinality(upto(kept, k))] = Contents[k]
    BY DEF Keeps
  <2> QED
    BY <1>4, <2>1, <2>5, <2>6
<1>6. longer[Cardinality(upto(more, n + 1))] = Contents[n + 1]
  <2>1. \A j \in more : j <= n + 1
    BY <1>1
  <2>2. upto(more, n + 1) = more
    BY <2>1
  <2> QED
    BY <1>3, <1>4, <2>2 DEF Keeps, x
<1>7. Keeps(more, longer)
  BY <1>3, <1>4, <1>5, <1>6 DEF Keeps
<1> QED
  BY <1>1, <1>7 DEF longer, x

\* Writing one place or two at the end of the file.
LEMMA WritesAtEnd ==
    ASSUME disk \in Seq(Place), NEW x \in Place, NEW y \in Place
    PROVE  /\ WriteAt(Len(disk), <<>>) = disk
           /\ WriteAt(Len(disk), <<x>>) = Append(disk, x)
           /\ WriteAt(Len(disk), <<x, y>>) = Append(Append(disk, x), y)
<1> DEFINE n == Len(disk)
           At(m, data) == [i \in 1 .. m |->
                             IF i \in n + 1 .. n + Len(data) THEN data[i - n]
                             ELSE IF i <= n THEN disk[i] ELSE Nil]
<1>1. n \in Nat
  BY LenProperties
<1>2. ASSUME NEW k \in Nat PROVE Max({n, n + k}) = n + k
  <2>1. \E m \in {n, n + k} : \A j \in {n, n + k} : m >= j
    BY <1>1
  <2>2. Max({n, n + k}) \in {n, n + k} /\ Max({n, n + k}) >= n + k
    BY <1>1, <2>1 DEF Max
  <2> QED
    BY <1>1, <2>2
<1>3. WriteAt(n, <<x>>) = At(n + 1, <<x>>)
  <2>1. Len(<<x>>) = 1 /\ <<x>> # <<>>
    OBVIOUS
  <2> QED
    BY <1>2, <2>1 DEF WriteAt
<1>4. WriteAt(n, <<x, y>>) = At(n + 2, <<x, y>>)
  <2>1. Len(<<x, y>>) = 2 /\ <<x, y>> # <<>>
    OBVIOUS
  <2> QED
    BY <1>2, <2>1 DEF WriteAt
<1> DEFINE one == Append(disk, x)
           two == Append(one, y)
<1>5. /\ one \in Seq(Place) /\ Len(one) = n + 1 /\ one[n + 1] = x
      /\ \A i \in 1 .. n : one[i] = disk[i]
  BY AppendProperties
<1>6. /\ two \in Seq(Place) /\ Len(two) = n + 2 /\ two[n + 2] = y /\ two[n + 1] = x
      /\ \A i \in 1 .. n : two[i] = disk[i]
  <2> HIDE DEF one
  <2>1. /\ two \in Seq(Place) /\ Len(two) = n + 1 + 1 /\ two[n + 1 + 1] = y
        /\ \A i \in 1 .. n + 1 : two[i] = one[i]
    BY <1>5, AppendProperties
  <2> QED
    BY <1>1, <1>5, <2>1
<1> HIDE DEF one, two
<1>7. one = [i \in 1 .. n + 1 |-> one[i]] /\ two = [i \in 1 .. n + 2 |-> two[i]]
  BY <1>1, <1>5, <1>6
<1> HIDE DEF n
<1>8. At(n + 1, <<x>>) = one
  <2>1. ASSUME NEW i \in 1 .. n + 1
        PROVE  (IF i \in n + 1 .. n + Len(<<x>>) THEN <<x>>[i - n]
                ELSE IF i <= n THEN disk[i] ELSE Nil) = one[i]
    <3>1. CASE i = n + 1
      BY <1>1, <1>5, <3>1
    <3>2. CASE i \in 1 .. n
      BY <1>1, <1>5, <3>2
    <3> QED
      BY <1>1, <3>1, <3>2
  <2> QED
    BY <1>7, <2>1
<1>9. At(n + 2, <<x, y>>) = two
  <2>1. ASSUME NEW i \in 1 .. n + 2
        PROVE  (IF i \in n + 1 .. n + Len(<<x, y>>) THEN <<x, y>>[i - n]
                ELSE IF i <= n THEN disk[i] ELSE Nil) = two[i]
    <3>1. CASE i = n + 1
      BY <1>1, <1>6, <3>1
    <3>2. CASE i = n + 2
      BY <1>1, <1>6, <3>2
    <3>3. CASE i \in 1 .. n
      BY <1>1, <1>6, <3>3
    <3> QED
      BY <1>1, <3>1, <3>2, <3>3
  <2> QED
    BY <1>7, <2>1
<1>10. WriteAt(n, <<>>) = disk
  BY DEF WriteAt
<1> QED
  BY <1>3, <1>4, <1>8, <1>9, <1>10 DEF one, two, n

\* What a child has given to write never shrinks.
LEMMA GivenGrows ==
    ASSUME FileFits, CopyInv, CopyInv', Onward, NEW c \in Child
    PROVE  /\ Given(c) \in Nat /\ Given(c)' \in Nat /\ Given(c) <= Given(c)'
           /\ serves(c) => serves(c)'
<1>1. /\ serves(c) => buffer[c].expected \in FIRST_DATA_SEQ .. EndSeq
      /\ serves(c)' => buffer'[c].expected \in FIRST_DATA_SEQ .. EndSeq
      /\ ~serves(c)' => buffer'[c].expected = 0
  BY DEF CopyInv, ServerRight, ChildRight
<1>2. serves(c) => buffer'[c].expected >= buffer[c].expected
  BY DEF Onward
<1>3. serves(c) => serves(c)'
  BY <1>1, <1>2, Fits
<1>4. CASE serves(c)
  <2> DEFINE e == buffer[c].expected
             f == buffer'[c].expected
  <2>1. e \in 2 .. EndSeq /\ f \in 2 .. EndSeq /\ f >= e
    BY <1>1, <1>2, <1>3, <1>4, Fits
  <2>2. Given(c) = 2 * (e - 2) /\ Given(c)' = 2 * (f - 2)
    BY <1>3, <1>4, Fits DEF Given
  <2> HIDE DEF e, f
  <2>3. 2 * (e - 2) \in Nat /\ 2 * (f - 2) \in Nat /\ 2 * (e - 2) <= 2 * (f - 2)
    BY <2>1, Fits
  <2> QED
    BY <1>3, <2>2, <2>3
<1>5. CASE ~serves(c)
  BY <1>1, <1>5, Fits DEF Given
<1> QED
  BY <1>3, <1>4, <1>5

\* A write, whole or short, puts the next places of the input file, the first of
\* them or none at the end of the output file.
LEMMA WriteOrders ==
    ASSUME FileFits, CopyInv, CopyInv', Onward, OrderInv, NEW c \in Child,
           write_ready(c) \/ write_short(c)
    PROVE  /\ offset'[c] = Len(disk')
           /\ \E kept \in SUBSET (1 .. Given(c)') : Keeps(kept, disk')
<1>1. child_state[c] = "RECV_DATA"
  BY DEF write_ready, write_short, writes, may_write, CopyInv, TypeInv, ServerReady, ChildReady
<1>2. /\ IsBuffer(buffer[c], Chunk) /\ serves(c) /\ buffer[c].size > 0
      /\ buffer[c].expected \in SeqNum /\ buffer[c].expected + buffer[c].size < SeqSpace
  BY <1>1, BufferBounds DEF CopyInv, serves
<1>3. /\ BufferHolds(buffer[c], Payload, EndSeq)
      /\ buffer[c].expected \in FIRST_DATA_SEQ .. EndSeq
  BY <1>2 DEF CopyInv, ServerRight, ChildRight
<1>4. buffer_has(buffer[c], buffer[c].expected)
  BY DEF write_ready, write_short, writes, may_write, buffer_expected
<1> DEFINE pos == buffer[c].expected - FIRST_DATA_SEQ
           k == pos + 1
           n == 2 * pos
           x == Contents[n + 1]
           y == Contents[n + 2]
<1>5. /\ buffer[c].expected < EndSeq
      /\ buffer_ready(buffer[c]) = Payload[buffer[c].expected]
      /\ buffer_wrote(buffer[c]).expected = buffer[c].expected + 1
  BY <1>2, <1>3, <1>4, Fits, BufferWroteHolds
<1>6. /\ k \in 1 .. Len(File) /\ k = buffer[c].expected - 1
      /\ buffer[c].expected \in FIRST_DATA_SEQ .. EndSeq - 1
      /\ n \in Nat /\ 2 * k = n + 2 /\ 2 * k - 1 = n + 1
  <2>1. pos \in Nat /\ k \in 1 .. Len(File) /\ k = buffer[c].expected - 1
        /\ buffer[c].expected \in FIRST_DATA_SEQ .. EndSeq - 1
    BY <1>3, <1>5, ChunkPlace
  <2> HIDE DEF pos
  <2>2. n \in Nat /\ 2 * k = n + 2 /\ 2 * k - 1 = n + 1
    BY <2>1
  <2> QED
    BY <2>1, <2>2
<1>7. /\ x = <<File[k], 1>> /\ y = <<File[k], 2>>
      /\ halves(buffer_ready(buffer[c])) = <<x, y>>
  <2>1. buffer_ready(buffer[c]) = File[k]
    BY <1>5, <1>6, DataNumber
  <2>2. x = <<File[k], 1>> /\ y = <<File[k], 2>>
    BY <1>6, ContentsOf
  <2> QED
    BY <2>1, <2>2 DEF halves
<1>8. x \in Place /\ y \in Place
  <2>1. File[k] \in Chunk
    BY <1>6, FilePart
  <2> QED
    BY <1>7, <2>1 DEF Place
<1>9. Given(c) = n
  BY <1>2 DEF Given
<1>10. Given(c)' = n + 2
  <2>1. buffer'[c] = buffer_wrote(buffer[c])
    BY DEF write_ready, write_short, writes, CopyInv, TypeInv, TypeOK, ServerTypeOK
  <2>2. serves(c)'
    BY <1>2, GivenGrows
  <2>3. buffer'[c].expected = buffer[c].expected + 1
    BY <1>5, <2>1
  <2>4. 2 * (buffer'[c].expected - FIRST_DATA_SEQ) = n + 2
    <3>1. buffer'[c].expected - FIRST_DATA_SEQ = k
      <4> HIDE DEF k
      <4> QED
        BY <1>3, <1>5, <1>6, <2>3, ChunkPlace
    <3> HIDE DEF k
    <3> QED
      BY <1>6, <3>1
  <2> QED
    BY <2>2, <2>4 DEF Given
<1>11. PICK kept \in SUBSET (1 .. n) : Keeps(kept, disk)
  BY <1>9 DEF OrderInv
<1>12. offset[c] = Len(disk) /\ disk \in Seq(Place) /\ offset \in [Child -> Nat]
  BY <1>2 DEF OrderInv, CopyInv, TypeInv, TypeOK, ServerTypeOK
<1> HIDE DEF n, x, y, k
<1>13. /\ kept \cup {n + 1} \in SUBSET (1 .. n + 1)
       /\ Keeps(kept \cup {n + 1}, Append(disk, x))
  BY <1>6, <1>8, <1>11, <1>12, KeepsOneMore DEF x
<1>14. /\ (kept \cup {n + 1}) \cup {n + 2} \in SUBSET (1 .. n + 2)
       /\ Keeps((kept \cup {n + 1}) \cup {n + 2}, Append(Append(disk, x), y))
  <2> DEFINE more == kept \cup {n + 1}
             longer == Append(disk, x)
             m == n + 1
  <2>1. longer \in Seq(Place)
    BY <1>8, <1>12, AppendProperties
  <2>2. m \in Nat /\ m + 1 = n + 2
    BY <1>6
  <2>3. more \in SUBSET (1 .. m) /\ Keeps(more, longer)
    BY <1>13
  <2> HIDE DEF more, longer, m
  <2>4. /\ more \cup {m + 1} \in SUBSET (1 .. m + 1)
        /\ Keeps(more \cup {m + 1}, Append(longer, Contents[m + 1]))
    BY <1>8, <2>1, <2>2, <2>3, KeepsOneMore DEF y
  <2> QED
    BY <2>2, <2>4 DEF more, longer, y
<1>15. \/ /\ disk' = disk /\ offset'[c] = Len(disk)
       \/ /\ disk' = Append(disk, x) /\ offset'[c] = Len(disk) + 1
       \/ /\ disk' = Append(Append(disk, x), y) /\ offset'[c] = Len(disk) + 2
  <2>1. ASSUME NEW data, writes(c, data)
        PROVE  disk' = WriteAt(Len(disk), data) /\ offset'[c] = Len(disk) + Len(data)
    BY <1>12, <2>1 DEF writes
  <2>2. <<x, y>>[1] = x /\ Len(<<x, y>>) = 2 /\ Len(<<x>>) = 1 /\ Len(<<>>) = 0
    OBVIOUS
  <2>3. writes(c, <<x, y>>) \/ writes(c, <<x>>) \/ writes(c, <<>>)
    BY <1>7, <2>2 DEF write_ready, write_short
  <2>4. /\ WriteAt(Len(disk), <<>>) = disk
        /\ WriteAt(Len(disk), <<x>>) = Append(disk, x)
        /\ WriteAt(Len(disk), <<x, y>>) = Append(Append(disk, x), y)
    BY <1>8, <1>12, WritesAtEnd
  <2>5. Len(disk) + 0 = Len(disk)
    BY <1>12, LenProperties
  <2>6. CASE writes(c, <<x, y>>)
    BY <2>1, <2>2, <2>4, <2>6
  <2>7. CASE writes(c, <<x>>)
    BY <2>1, <2>2, <2>4, <2>7
  <2>8. CASE writes(c, <<>>)
    <3>1. disk' = WriteAt(Len(disk), <<>>) /\ offset'[c] = Len(disk) + Len(<<>>)
      BY <2>1, <2>8
    <3> QED
      BY <2>2, <2>4, <2>5, <3>1
  <2> QED
    BY <2>3, <2>6, <2>7, <2>8
<1>16. offset'[c] = Len(disk')
  <2> DEFINE longer == Append(disk, x)
  <2>1. longer \in Seq(Place) /\ Len(longer) = Len(disk) + 1 /\ Len(disk) \in Nat
    BY <1>8, <1>12, AppendProperties, LenProperties
  <2> HIDE DEF longer
  <2>2. Len(Append(longer, y)) = Len(disk) + 2
    BY <1>8, <2>1, AppendProperties
  <2> QED
    BY <1>15, <2>1, <2>2 DEF longer
<1>17. kept \in SUBSET (1 .. n + 2) /\ kept \cup {n + 1} \in SUBSET (1 .. n + 2)
  <2>1. 1 .. n \subseteq 1 .. n + 2 /\ 1 .. n + 1 \subseteq 1 .. n + 2
    BY <1>6
  <2> QED
    BY <1>11, <1>13, <2>1
<1> QED
  BY <1>10, <1>11, <1>13, <1>14, <1>15, <1>16, <1>17

LEMMA OrderStep ==
    ASSUME FileFits, OneChild, CopyInv, CopyInv', Onward, EndInv, OrderInv, [Next]_vars
    PROVE  OrderInv'
<1>1. CASE UNCHANGED <<offset, disk>>
  <2> SUFFICES ASSUME NEW c \in Child
               PROVE  /\ serves(c)' => offset[c] = Len(disk)
                      /\ \E kept \in SUBSET (1 .. Given(c)') : Keeps(kept, disk)
    BY <1>1 DEF OrderInv, Keeps
  <2>1. serves(c)' => offset[c] = Len(disk)
    <3>1. ~serves(c) => offset[c] = 0 /\ disk = <<>>
      BY DEF CopyInv, ServerRight, ChildRight, EndInv, ChildEnds
    <3> QED
      BY <3>1 DEF OrderInv
  <2>2. PICK kept \in SUBSET (1 .. Given(c)) : Keeps(kept, disk)
    BY DEF OrderInv
  <2>3. kept \in SUBSET (1 .. Given(c)')
    BY <2>2, GivenGrows
  <2> QED
    BY <2>1, <2>2, <2>3
<1>2. CASE \E c \in Child : write_ready(c) \/ write_short(c)
  <2>1. PICK c \in Child : write_ready(c) \/ write_short(c)
    BY <1>2
  <2>2. \A d \in Child : d = c
    BY DEF OneChild
  <2>3. /\ offset'[c] = Len(disk')
        /\ \E kept \in SUBSET (1 .. Given(c)') : Keeps(kept, disk')
    BY <2>1, WriteOrders
  <2> QED
    BY <2>2, <2>3 DEF OrderInv, Keeps
<1>3. ASSUME NEW c \in Child, ChildNext(c), ~(write_ready(c) \/ write_short(c))
      PROVE  UNCHANGED <<offset, disk>>
  <2>1. filename_open(c) => UNCHANGED <<offset, disk>>
    BY DEF filename_open, CopyInv, ServerRight, ChildRight, EndInv, ChildEnds
  <2>2. \/ filename_open_error(c) \/ write_error(c) \/ write_done(c) \/ recv_data_timeout(c)
        \/ wait_on_done_timeout(c)
        \/ \E p : \/ recv_data(c, p) \/ recv_eof(c, p) \/ recv_data_ignore(c, p)
                  \/ recv_done(c, p) \/ recv_eof_again(c, p) \/ wait_on_done_ignore(c, p)
        => UNCHANGED <<offset, disk>>
    BY DEF filename_open_error, write_error, write_done, recv_data_timeout,
           wait_on_done_timeout, recv_data, recv_eof, recv_data_ignore, recv_done,
           recv_eof_again, wait_on_done_ignore, serverVars
  <2> QED
    BY <1>3, <2>1, <2>2 DEF ChildNext, ChildStep
<1>4. CASE RcopyNext \/ MainNext \/ FaultNext \/ UNCHANGED vars
  BY <1>1, <1>4 DEF RcopyNext, MainNext, MainStep, main_recv, FaultNext, vars, serverVars
<1> QED
  BY <1>1, <1>2, <1>3, <1>4 DEF Next, Finished

\* Whatever calls on files fail or store less than they are given: the one child
\* writes nothing twice and nothing out of order, so that the output file is the
\* input file with some places left out.
THEOREM OrderCorrect ==
    ASSUME FileFits, OneChild
    PROVE  Spec => []OutputKeepsOrder
<1>1. Init => OrderInv
  <2> SUFFICES ASSUME Init, NEW c \in Child
               PROVE  ~serves(c) /\ \E kept \in SUBSET (1 .. Given(c)) : Keeps(kept, <<>>)
    BY DEF Init, ServerInit, OrderInv, Keeps
  <2>1. ~serves(c)
    BY DEF Init, ServerInit, no_buffer, serves
  <2>2. Keeps({}, <<>>)
    BY FS_EmptySet DEF Keeps
  <2> QED
    BY <2>1, <2>2
<1>2. CopyInv /\ EndInv /\ OrderInv /\ [Next]_vars => OrderInv'
  <2>1. ASSUME CopyInv, EndInv, OrderInv, [Next]_vars PROVE OrderInv'
    BY <2>1, CopyStep, OrderStep
  <2> QED
    BY <2>1
<1>3. CopyInv /\ EndInv /\ OrderInv => OutputKeepsOrder
  <2> SUFFICES ASSUME CopyInv, OrderInv PROVE OutputKeepsOrder
    OBVIOUS
  <2>1. PICK c \in Child : TRUE
    BY DEF OneChild
  <2>2. PICK kept \in SUBSET (1 .. Given(c)) : Keeps(kept, disk)
    BY DEF OrderInv
  <2>3. Given(c) \in Nat /\ Given(c) <= 2 * Len(File)
    <3>1. serves(c) => buffer[c].expected \in FIRST_DATA_SEQ .. EndSeq
      BY DEF CopyInv, ServerRight, ChildRight
    <3> QED
      BY <3>1, Fits DEF Given
  <2>4. DOMAIN Contents = 1 .. 2 * Len(File)
    BY DEF Contents
  <2>5. kept \in SUBSET DOMAIN Contents
    BY <2>2, <2>3, <2>4, Bounds
  <2> QED
    BY <2>2, <2>5 DEF Keeps, OutputKeepsOrder
<1> QED
  BY <1>1, <1>2, <1>3, EndInvariant, PTL DEF Spec
=============================================================================

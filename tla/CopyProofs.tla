----------------------------- MODULE CopyProofs -----------------------------
(***************************************************************************)
(* What window, buffer, packets and output file hold, for every file that  *)
(* fits the sequence numbers, and every window size, number of children,   *)
(* number and kind of network faults, failing calls on files and           *)
(* time-outs.                                                              *)
(***************************************************************************)
EXTENDS TransferProofs

\* No number that window or buffer compute passes the end of the sequence space.
FileFits == EndSeq + WindowSize < SeqSpace

\* A write stores all it is given or fails.
WholeWrites == "short write" \notin IoFaults

-----------------------------------------------------------------------------
(* The inductive invariant.                                                *)

\* The payload of each DATA packet.
Payload == [seq \in Nat |-> ChunkOf(seq)]

\* rcopy's window holds what has been read and is not acknowledged.
RcopyRight ==
    /\ state = "FILENAME" => window.size = 0 /\ read_pos = 0
    /\ window.size > 0 => /\ WindowHolds(window, Payload)
                          /\ window.lower >= FIRST_DATA_SEQ
                          /\ window.current = FIRST_DATA_SEQ + read_pos

\* A child's buffer holds later packets of the file, and its file offset, if no
\* write is short, is that of the packet it expects.
ChildRight(c) ==
    /\ serves(c) => /\ BufferHolds(buffer[c], Payload, EndSeq)
                    /\ buffer[c].expected \in FIRST_DATA_SEQ .. EndSeq
                    /\ WholeWrites => offset[c] = 2 * (buffer[c].expected - FIRST_DATA_SEQ)
    /\ ~serves(c) => offset[c] = 0 /\ buffer[c].expected = 0
    /\ child_state[c] \in {"UNUSED", "FILENAME"} => ~serves(c)

ServerRight == \A c \in Child : ChildRight(c)

\* An undamaged DATA packet carries its own chunk; an undamaged RR or SREJ speaks
\* of no more than its sender has given to write.
TruePacket(p) ==
    /\ p.good /\ p.flag = "DATA" =>
          p.num \in FIRST_DATA_SEQ .. EndSeq - 1 /\ p.data = ChunkOf(p.num)
    /\ p.good /\ p.flag \in {"RR", "SREJ"} =>
          p.from \in Child /\ p.num <= buffer[p.from].expected

Truthful == [a \in Address |-> {p \in Sent[a] : TruePacket(p)}]

NetworkRight == Carries(inbox, Truthful)

OutputRight == WholeWrites => DiskNeverWrong

CopyInv == TypeInv /\ RcopyRight /\ ServerRight /\ NetworkRight /\ OutputRight

-----------------------------------------------------------------------------
(* Packets.                                                                *)

LEMMA Fits ==
    ASSUME FileFits
    PROVE  /\ EndSeq \in Nat /\ EndSeq = Len(File) + 2 /\ FIRST_DATA_SEQ = 2
           /\ EndSeq + WindowSize < SeqSpace /\ SeqSpace \in Nat
           /\ WindowSize \in Nat \ {0} /\ Len(File) \in Nat
<1>1. SeqSpace \in Nat
  BY PacketAssumption
<1> QED
  BY <1>1, Bounds DEF FileFits, EndSeq, FIRST_DATA_SEQ

\* The numbers of DATA packets are sequence numbers, and their payload is a part
\* of the file.
LEMMA DataNumber ==
    ASSUME FileFits, NEW seq \in FIRST_DATA_SEQ .. EndSeq - 1
    PROVE  /\ seq \in SeqNum
           /\ Payload[seq] = ChunkOf(seq)
           /\ ChunkOf(seq) = File[seq - 1] /\ seq - 1 \in 1 .. Len(File)
           /\ ChunkOf(seq) \in Chunk
<1>1. seq \in Nat /\ seq \in SeqNum /\ seq - 1 \in 1 .. Len(File)
  BY Fits DEF SeqNum
<1>2. File[seq - 1] \in Chunk
  BY <1>1, FilePart
<1> QED
  BY <1>1, <1>2 DEF Payload, ChunkOf, FIRST_SEQ

\* A packet received is true.
LEMMA ReceivedTrue ==
    ASSUME NetworkRight, NEW a \in Address, NEW p, Arrives(a, p)
    PROVE  /\ Carries(Taken(a), Truthful)
           /\ TruePacket(p)
           /\ p \in PacketType
           /\ p.flag = "FILENAME" => p.num = WindowSize
<1>1. Carries(Taken(a), Truthful) /\ Head(inbox[a]) \in Truthful[a]
  BY CarriesTaken DEF NetworkRight, Arrives
<1> QED
  BY <1>1 DEF Arrives, Sent, Truthful

\* Sending a packet that says nothing about data.
LEMMA SendsControl ==
    ASSUME NEW box, Carries(box, Truthful), NEW from \in Address, NEW to \in Address,
           NEW flag \in Flag \ {"DATA", "RR", "SREJ"}, NEW num \in SeqNum,
           flag = "FILENAME" => num = WindowSize
    PROVE  Carries(Posted(box, to, <<make_packet(from, flag, num, Nil)>>), Truthful)
<1> DEFINE p == make_packet(from, flag, num, Nil)
<1>1. Nil \in Chunk
  BY DEF Chunk
<1>2. p \in Sent[to]
  BY <1>1, PacketMade
<1>3. TruePacket(p)
  BY DEF TruePacket, make_packet
<1> HIDE DEF p
<1>4. p \in Truthful[to]
  BY <1>2, <1>3 DEF Truthful
<1>5. Carries(Posted(box, to, <<p>>), Truthful)
  BY <1>4, CarriesPostedOne
<1> QED
  BY <1>5 DEF p

\* rcopy sends or re-sends data with its own number.
LEMMA SendsData ==
    ASSUME FileFits, NEW box, Carries(box, Truthful), NEW to \in Address,
           NEW num \in FIRST_DATA_SEQ .. EndSeq - 1
    PROVE  Carries(Posted(box, to, <<make_packet(Client, "DATA", num, ChunkOf(num))>>), Truthful)
<1> DEFINE p == make_packet(Client, "DATA", num, ChunkOf(num))
<1>1. num \in SeqNum /\ ChunkOf(num) \in Chunk
  BY DataNumber
<1>2. Client \in Address /\ "DATA" \in Flag
  BY DEF Address, Flag
<1>3. p \in Sent[to]
  BY <1>1, <1>2, PacketMade
<1>4. TruePacket(p)
  BY DEF TruePacket, make_packet
<1> HIDE DEF p
<1>5. p \in Truthful[to]
  BY <1>3, <1>4 DEF Truthful
<1>6. Carries(Posted(box, to, <<p>>), Truthful)
  BY <1>5, CarriesPostedOne
<1> QED
  BY <1>6 DEF p

\* send_rr and send_reject: a child speaks of the packet it expects.
LEMMA AnswerTrue ==
    ASSUME NEW c \in Child, buffer[c].expected \in SeqNum, NEW flag \in {"RR", "SREJ"}
    PROVE  make_packet(c, flag, buffer[c].expected, Nil) \in Truthful[Client]
<1> DEFINE p == make_packet(c, flag, buffer[c].expected, Nil)
<1>1. c \in Address /\ Client \in Address /\ Nil \in Chunk /\ flag \in Flag
  BY DEF Address, Chunk, Flag
<1>2. p \in Sent[Client]
  BY <1>1, PacketMade
<1>3. buffer[c].expected <= buffer[c].expected
  BY PacketAssumption DEF SeqNum
<1>4. TruePacket(p)
  BY <1>3 DEF TruePacket, make_packet
<1> HIDE DEF p
<1>5. p \in Truthful[Client]
  BY <1>1, <1>2, <1>4 DEF Truthful
<1> QED
  BY <1>5 DEF p

LEMMA SendsAnswer ==
    ASSUME NEW box, Carries(box, Truthful), NEW c \in Child,
           buffer[c].expected \in SeqNum, NEW flag \in {"RR", "SREJ"}
    PROVE  Carries(Posted(box, Client, <<make_packet(c, flag, buffer[c].expected, Nil)>>), Truthful)
<1>1. Client \in Address
  BY DEF Address
<1> QED
  BY <1>1, AnswerTrue, CarriesPostedOne

\* What is true stays true while no child's expected packet goes back.
LEMMA TrueStaysTrue ==
    ASSUME TypeInv, TypeInv', Carries(inbox', Truthful),
           \A c \in Child : buffer[c].expected <= buffer'[c].expected
    PROVE  NetworkRight'
<1>1. ASSUME NEW c \in Child
      PROVE  buffer[c].expected \in Int /\ buffer'[c].expected \in Int
  BY PacketAssumption DEF TypeInv, TypeOK, ServerTypeOK, IsBuffer, SeqNum
<1>2. ASSUME NEW a \in Address, NEW p \in Sent[a], TruePacket(p)
      PROVE  TruePacket(p)'
  <2>1. p.num \in Int
    BY PacketAssumption DEF Sent, PacketType, SeqNum
  <2> QED
    BY <1>1, <1>2, <2>1 DEF TruePacket
<1>3. \A a \in Address : Truthful[a] \subseteq Truthful'[a]
  BY <1>2 DEF Truthful
<1>4. Carries(inbox', Truthful')
  BY <1>3, CarriesMore
<1> QED
  BY <1>4 DEF NetworkRight

LEMMA CopyInit == FileFits /\ Init => CopyInv
<1> SUFFICES ASSUME FileFits, Init PROVE CopyInv
  OBVIOUS
<1>1. TypeInv
  BY TypeInit
<1>2. RcopyRight
  BY DEF Init, RcopyInit, no_window, RcopyRight
<1>3. ServerRight
  BY DEF Init, ServerInit, no_buffer, serves, ServerRight, ChildRight
<1>4. NetworkRight
  <2>1. \A T : <<>> \in Seq(T)
    OBVIOUS
  <2>2. inbox = [a \in Address |-> <<>>]
    BY DEF Init, NetworkInit
  <2> QED
    BY <2>1, <2>2 DEF NetworkRight, Carries
<1>5. OutputRight
  BY DEF Init, ServerInit, OutputRight, DiskNeverWrong
<1> QED
  BY <1>1, <1>2, <1>3, <1>4, <1>5 DEF CopyInv

-----------------------------------------------------------------------------
(* The steps of rcopy.                                                     *)

\* A packet of the window can be sent again: it carries what it was sent with.
LEMMA Resends ==
    ASSUME FileFits, TypeInv, RcopyRight, window.size > 0,
           NEW seq \in SeqNum, window_find(window, seq),
           NEW box, Carries(box, Truthful), NEW to \in Address
    PROVE  Carries(Posted(box, to,
                     <<make_packet(Client, "DATA", seq, window.entry[seq % window.size].data)>>),
                   Truthful)
<1>1. IsWindow(window, Chunk) /\ read_pos \in 0 .. Len(File)
  BY DEF TypeInv, TypeOK, RcopyTypeOK
<1>2. /\ WindowHolds(window, Payload) /\ window.lower >= FIRST_DATA_SEQ
      /\ window.current = FIRST_DATA_SEQ + read_pos
  BY DEF RcopyRight
<1>3. /\ seq \in window.lower .. window.current - 1
      /\ window.entry[seq % window.size].data = Payload[seq]
  BY <1>1, <1>2, WindowFound
<1>4. seq \in FIRST_DATA_SEQ .. EndSeq - 1
  <2>1. window.lower \in Nat /\ window.current \in Nat
    BY <1>1, PacketAssumption DEF IsWindow, SeqNum
  <2> QED
    BY <1>1, <1>2, <1>3, <2>1, Fits
<1>5. window.entry[seq % window.size].data = ChunkOf(seq)
  BY <1>3, <1>4, DataNumber
<1> QED
  BY <1>4, <1>5, SendsData

\* A step that changes neither the window nor what has been read.
LEMMA RcopyStays ==
    ASSUME RcopyRight, UNCHANGED <<window, read_pos>>,
           state' = "FILENAME" => state = "FILENAME"
    PROVE  RcopyRight'
BY DEF RcopyRight

LEMMA FilenameRight ==
    ASSUME FileFits, CopyInv,
           \/ filename_send \/ filename_timeout
           \/ \E p \in InFlight(Client) : filename_recv(p)
    PROVE  RcopyRight' /\ Carries(inbox', Truthful)
<1> USE DEF CopyInv
<1>0. /\ Client \in Address /\ 0 \in SeqNum /\ WindowSize \in SeqNum
      /\ server \in Address
  BY PacketAssumption, Bounds DEF Address, SeqNum, TypeInv, TypeOK, RcopyTypeOK
<1>1. CASE filename_send
  <2>1. Carries(inbox', Truthful)
    BY <1>0, <1>1, SendsControl DEF filename_send, rcopy_sends, NetworkRight, Flag
  <2>2. RcopyRight'
    BY <1>1, RcopyStays DEF filename_send
  <2> QED
    BY <2>1, <2>2
<1>2. ASSUME filename_try_again, state = "FILENAME" PROVE RcopyRight'
  BY <1>2, RcopyStays DEF filename_try_again
<1>3. CASE filename_timeout
  BY <1>2, <1>3 DEF filename_timeout, NetworkRight
<1>4. ASSUME NEW p, filename_recv(p) PROVE RcopyRight' /\ Carries(inbox', Truthful)
  <2>1. Carries(inbox', Truthful)
    BY <1>0, <1>4, ReceivedTrue DEF filename_recv
  <2>2. CASE filename_try_again
    BY <1>2, <1>4, <2>1, <2>2 DEF filename_recv
  <2>3. CASE filename_response(p)
    <3> DEFINE w == window_init(WindowSize, FIRST_SEQ + 1)
    <3>1. state = "FILENAME" /\ window.size = 0 /\ read_pos = 0 /\ read_pos' = 0
      BY <1>4, <2>3 DEF filename_recv, filename_response, RcopyRight
    <3>2. /\ WindowHolds(w, Payload)
          /\ w.lower = FIRST_DATA_SEQ /\ w.current = FIRST_DATA_SEQ
      <4>1. FIRST_SEQ + 1 = FIRST_DATA_SEQ /\ FIRST_SEQ + 1 + WindowSize < SeqSpace
        BY Fits DEF FIRST_SEQ
      <4>2. WindowHolds(w, Payload)
        BY <4>1, Bounds, WindowInitHolds
      <4>3. w.lower = FIRST_SEQ + 1 /\ w.current = FIRST_SEQ + 1
        BY DEF window_init
      <4> QED
        BY <4>1, <4>2, <4>3
    <3>3. state' # "FILENAME" /\ window' \in {w, window}
      BY <2>3 DEF filename_response, Finish
    <3> HIDE DEF w
    <3>4. RcopyRight'
      BY <3>1, <3>2, <3>3, Fits DEF RcopyRight
    <3> QED
      BY <2>1, <3>4
  <2> QED
    BY <1>4, <2>2, <2>3 DEF filename_recv
<1> QED
  BY <1>1, <1>3, <1>4

\* The bounds of an initialised window.
LEMMA WindowBounds ==
    ASSUME FileFits, TypeInv, RcopyRight, window.size > 0
    PROVE  /\ window.size = WindowSize
           /\ window.lower \in Nat /\ window.current \in FIRST_DATA_SEQ .. EndSeq
           /\ window.current + window.size < SeqSpace
<1>1. /\ IsWindow(window, Chunk) /\ window.size \in {0, WindowSize}
      /\ read_pos \in 0 .. Len(File)
  BY DEF TypeInv, TypeOK, RcopyTypeOK
<1>2. window.lower \in Nat
  BY <1>1, PacketAssumption DEF IsWindow, SeqNum
<1>3. window.current = FIRST_DATA_SEQ + read_pos
  BY DEF RcopyRight
<1>4. window.size = WindowSize
  BY <1>1
<1> QED
  BY <1>1, <1>2, <1>3, <1>4, Fits

LEMMA SendDataRight ==
    ASSUME FileFits, CopyInv,
           \/ send_data \/ send_data_end_of_file \/ send_data_read_error
           \/ send_data_leave \/ send_data_drained
    PROVE  /\ RcopyRight' /\ Carries(inbox', Truthful)
           /\ window.size > 0 => window'.lower = window.lower
<1> USE DEF CopyInv
<1>1. CASE send_data
  <2>1. /\ window.size > 0 /\ IsWindow(window, Chunk) /\ server \in Address
        /\ read_pos \in 0 .. Len(File)
    BY <1>1, Bounds DEF send_data, TypeInv, TypeOK, RcopyTypeOK, RcopyReady
  <2>2. /\ WindowHolds(window, Payload) /\ window.lower >= FIRST_DATA_SEQ
        /\ window.current = FIRST_DATA_SEQ + read_pos
    BY <2>1 DEF RcopyRight
  <2>3. window.current \in FIRST_DATA_SEQ .. EndSeq - 1
    BY <1>1, <2>1, <2>2, Fits DEF send_data
  <2>4. File[read_pos + 1] = ChunkOf(window.current)
    BY <2>1, <2>2, Fits DEF ChunkOf, FIRST_SEQ
  <2>5. /\ ChunkOf(window.current) \in Chunk
        /\ ChunkOf(window.current) = Payload[window.current]
    BY <2>3, DataNumber
  <2> DEFINE w == window_add(window, window.current, ChunkOf(window.current))
  <2>6. /\ WindowHolds(w, Payload) /\ w.current = window.current + 1
        /\ w.lower = window.lower
    BY <1>1, <2>1, <2>2, <2>5, WindowAddHolds DEF send_data, may_send
  <2>7. window' = w /\ read_pos' = read_pos + 1 /\ state' = "SEND_DATA"
    BY <1>1, <2>4 DEF send_data
  <2> HIDE DEF w
  <2>8. RcopyRight'
    BY <2>1, <2>2, <2>6, <2>7, Fits DEF RcopyRight
  <2>9. Carries(inbox', Truthful)
    BY <1>1, <2>1, <2>3, <2>4, SendsData DEF send_data, rcopy_sends, NetworkRight
  <2> QED
    BY <2>6, <2>7, <2>8, <2>9
<1>2. CASE send_data_end_of_file \/ send_data_read_error \/ send_data_leave \/ send_data_drained
  <2>1. /\ UNCHANGED <<window, read_pos, inbox>>
        /\ state' # "FILENAME"
    BY <1>2 DEF send_data_end_of_file, send_data_read_error, send_data_leave,
                send_data_drained, after_sending, Finish, networkVars
  <2> QED
    BY <2>1, RcopyStays DEF NetworkRight
<1> QED
  BY <1>1, <1>2

LEMMA ProcessControlsRight ==
    ASSUME FileFits, CopyInv, NEW p, process_controls_recv(p)
    PROVE  /\ RcopyRight' /\ Carries(inbox', Truthful)
           /\ window.size > 0 => window'.lower >= window.lower
<1> USE DEF CopyInv
<1>1. Carries(Taken(Client), Truthful) /\ p \in PacketType
  <2>1. Client \in Address
    BY DEF Address
  <2> QED
    BY <2>1, ReceivedTrue DEF process_controls_recv
<1>2. p.from \in Address /\ p.num \in SeqNum
  BY <1>1 DEF PacketType
<1>3. /\ state # "FILENAME" /\ state' = state /\ read_pos' = read_pos
      /\ window.size > 0 /\ IsWindow(window, Chunk)
  BY Bounds DEF process_controls_recv, TypeInv, TypeOK, RcopyTypeOK, RcopyReady
<1>4. /\ WindowHolds(window, Payload) /\ window.lower >= FIRST_DATA_SEQ
      /\ window.current = FIRST_DATA_SEQ + read_pos
      /\ window.lower \in Nat
  BY <1>3, WindowBounds DEF RcopyRight
<1>5. CASE handle_rr(p)
  <2> DEFINE w == window_rr(window, p.num)
  <2>1. /\ WindowHolds(w, Payload) /\ w.current = window.current
        /\ w.lower \in window.lower .. window.current
    BY <1>2, <1>3, <1>4, WindowBounds, WindowRRHolds
  <2>2. window' = w /\ inbox' = Taken(Client)
    BY <1>5 DEF handle_rr
  <2> HIDE DEF w
  <2>3. w.lower >= window.lower /\ w.lower >= FIRST_DATA_SEQ
    BY <1>3, <1>4, <2>1, WindowBounds, Fits
  <2>4. RcopyRight'
    BY <1>3, <1>4, <2>1, <2>2, <2>3 DEF RcopyRight
  <2> QED
    BY <1>1, <2>2, <2>3, <2>4
<1>6. CASE handle_reject(p)
  <2>1. Carries(inbox', Truthful)
    BY <1>1, <1>2, <1>3, <1>6, Resends DEF handle_reject
  <2>2. window' = window
    BY <1>6 DEF handle_reject
  <2> QED
    BY <1>3, <1>4, <2>1, <2>2, RcopyStays
<1>7. CASE inbox' = Taken(Client) /\ UNCHANGED window
  BY <1>1, <1>3, <1>4, <1>7, RcopyStays
<1> QED
  BY <1>5, <1>6, <1>7 DEF process_controls_recv

LEMMA WaitOnAckRight ==
    ASSUME FileFits, CopyInv, wait_on_ack_timeout \/ wait_on_ack_drained
    PROVE  RcopyRight' /\ Carries(inbox', Truthful) /\ UNCHANGED window
<1> USE DEF CopyInv
<1>1. /\ state = "WAIT_ON_ACK" /\ UNCHANGED <<window, read_pos>>
      /\ window.size > 0 /\ server \in Address /\ IsWindow(window, Chunk)
  BY Bounds DEF wait_on_ack_timeout, wait_on_ack_drained, TypeInv, TypeOK, RcopyTypeOK, RcopyReady
<1>2. CASE to_send_data /\ inbox' = inbox
  <2>1. state' # "FILENAME"
    BY <1>2 DEF to_send_data
  <2> QED
    BY <1>1, <1>2, <2>1, RcopyStays DEF NetworkRight
<1>3. CASE window_unacked(window) # {} /\ not_answered
  <2> DEFINE seq == Min(window_unacked(window))
  <2>1. seq \in SeqNum /\ window_find(window, seq)
    BY <1>1, <1>3, UnackedType DEF window_unacked
  <2>2. \/ Finish(TRUE) /\ inbox' = inbox
        \/ resend_packet(inbox, seq) /\ state' = state
    BY <1>3 DEF not_answered
  <2> HIDE DEF seq
  <2>3. state' # "FILENAME"
    BY <1>1, <2>2 DEF Finish
  <2>4. Carries(inbox', Truthful)
    BY <1>1, <2>1, <2>2, Resends DEF resend_packet, rcopy_sends, NetworkRight
  <2> QED
    BY <1>1, <2>3, <2>4, RcopyStays
<1> QED
  BY <1>1, <1>2, <1>3 DEF wait_on_ack_timeout, wait_on_ack_drained, not_answered

LEMMA EofRight ==
    ASSUME FileFits, CopyInv,
           eof_send \/ eof_timeout \/ \E p \in InFlight(Client) : eof_recv(p)
    PROVE  RcopyRight' /\ Carries(inbox', Truthful) /\ UNCHANGED window
<1> USE DEF CopyInv
<1>0. Client \in Address /\ 0 \in SeqNum /\ server \in Address
  BY PacketAssumption DEF Address, SeqNum, TypeInv, TypeOK, RcopyTypeOK
<1>1. /\ UNCHANGED <<window, read_pos>>
      /\ state' # "FILENAME"
  BY DEF eof_send, eof_timeout, eof_recv, eof_try_again, send_final_done, Finish
<1>2. RcopyRight'
  BY <1>1, RcopyStays
<1>3. CASE eof_send
  BY <1>0, <1>1, <1>2, <1>3, SendsControl DEF eof_send, rcopy_sends, NetworkRight, Flag
<1>4. CASE eof_timeout
  BY <1>1, <1>2, <1>4 DEF eof_timeout, networkVars, NetworkRight
<1>5. ASSUME NEW p, eof_recv(p) PROVE Carries(inbox', Truthful)
  <2>1. Carries(Taken(Client), Truthful) /\ p.from \in Address
    BY <1>0, <1>5, ReceivedTrue DEF eof_recv, PacketType
  <2> QED
    BY <1>0, <1>5, <2>1, SendsControl DEF eof_recv, send_final_done, Flag
<1> QED
  BY <1>1, <1>2, <1>3, <1>4, <1>5

LEMMA RcopyStepRight ==
    ASSUME FileFits, CopyInv, RcopyNext
    PROVE  /\ CopyInv'
           /\ window.size > 0 => window'.lower >= window.lower
<1>1. RcopyStep \/ RcopyTimeout
  BY DEF RcopyNext
<1>2. UNCHANGED serverVars
  BY DEF RcopyNext
<1>3. TypeInv'
  BY RcopyStepType DEF CopyInv
<1>4. window.lower \in Int
  BY PacketAssumption DEF CopyInv, TypeInv, TypeOK, RcopyTypeOK, IsWindow, SeqNum
<1>5. /\ RcopyRight' /\ Carries(inbox', Truthful)
      /\ window.size > 0 => window'.lower >= window.lower
  <2>1. CASE \/ filename_send \/ filename_timeout
             \/ \E p \in InFlight(Client) : filename_recv(p)
    <3>1. window.size = 0
      BY <2>1 DEF filename_send, filename_timeout, filename_recv, CopyInv, RcopyRight
    <3> QED
      BY <2>1, <3>1, FilenameRight
  <2> QED
    BY <1>1, <1>4, <2>1, SendDataRight, ProcessControlsRight, WaitOnAckRight, EofRight
    DEF RcopyStep, RcopyTimeout
<1>6. \A c \in Child : buffer[c].expected <= buffer'[c].expected
  BY <1>2, PacketAssumption
  DEF serverVars, CopyInv, TypeInv, TypeOK, ServerTypeOK, IsBuffer, SeqNum
<1>7. NetworkRight'
  BY <1>3, <1>5, <1>6, TrueStaysTrue DEF CopyInv
<1>8. ServerRight'
  BY <1>2 DEF serverVars, CopyInv, ServerRight, ChildRight, serves
<1>9. OutputRight'
  BY <1>2 DEF serverVars, CopyInv, OutputRight, DiskNeverWrong
<1> QED
  BY <1>3, <1>5, <1>7, <1>8, <1>9 DEF CopyInv

-----------------------------------------------------------------------------
(* The steps of the server's main process and of its children.             *)

LEMMA MainStepRight ==
    ASSUME FileFits, CopyInv, MainNext
    PROVE  CopyInv'
<1> USE DEF CopyInv
<1>1. PICK p : main_recv(p)
  BY DEF MainNext, MainStep
<1>2. Main \in Address
  BY DEF Address
<1>3. Carries(inbox', Truthful)
  BY <1>1, <1>2, ReceivedTrue DEF main_recv
<1>4. UNCHANGED <<buffer, offset, disk>>
  BY <1>1 DEF main_recv
<1>5. TypeInv'
  BY MainStepType
<1>6. \A c \in Child : buffer[c].expected <= buffer'[c].expected
  BY <1>4, PacketAssumption DEF TypeInv, TypeOK, ServerTypeOK, IsBuffer, SeqNum
<1>7. NetworkRight'
  BY <1>3, <1>5, <1>6, TrueStaysTrue
<1>8. RcopyRight'
  BY DEF MainNext, rcopyVars, RcopyRight
<1>9. ServerRight'
  <2>1. \A c \in Child : child_state'[c] \in {"UNUSED", "FILENAME"} =>
                            child_state[c] \in {"UNUSED", "FILENAME"}
    BY <1>1 DEF main_recv, fork, GoesTo, TypeInv, TypeOK, ServerTypeOK
  <2> QED
    BY <1>4, <2>1 DEF ServerRight, ChildRight, serves
<1>10. OutputRight'
  BY <1>4 DEF OutputRight, DiskNeverWrong
<1> QED
  BY <1>5, <1>7, <1>8, <1>9, <1>10

\* The numbers of a child's buffer once it is initialised.
LEMMA BufferBounds ==
    ASSUME FileFits, TypeInv, ServerRight, NEW c \in Child
    PROVE  /\ IsBuffer(buffer[c], Chunk) /\ buffer[c].expected \in SeqNum
           /\ buffer[c].expected \in Nat
           /\ child_state[c] = "RECV_DATA" => serves(c)
           /\ serves(c) => /\ buffer[c].size = WindowSize
                           /\ buffer[c].expected + buffer[c].size < SeqSpace
<1>1. IsBuffer(buffer[c], Chunk) /\ buffer[c].size \in {0, WindowSize}
  BY DEF TypeInv, TypeOK, ServerTypeOK
<1>2. buffer[c].expected \in SeqNum /\ buffer[c].expected \in Nat
  BY <1>1, PacketAssumption DEF IsBuffer, SeqNum
<1>3. child_state[c] = "RECV_DATA" => serves(c)
  BY Bounds DEF TypeInv, ServerReady, ChildReady, serves
<1>4. serves(c) => buffer[c].size = WindowSize /\ buffer[c].expected <= EndSeq
  BY <1>1, <1>2, Fits DEF ServerRight, ChildRight, serves
<1> QED
  BY <1>1, <1>2, <1>3, <1>4, Fits

\* Only the child that acts changes; its buffer becomes b.
LEMMA ServerStaysRight ==
    ASSUME FileFits, TypeInv, ServerRight, NEW c \in Child, NEW b,
           buffer' = [buffer EXCEPT ![c] = b],
           BufferHolds(b, Payload, EndSeq), b.size = buffer[c].size, serves(c),
           b.expected \in buffer[c].expected .. EndSeq,
           WholeWrites => offset'[c] = 2 * (b.expected - FIRST_DATA_SEQ),
           child_state'[c] \notin {"UNUSED", "FILENAME"},
           \A d \in Child \ {c} : child_state'[d] = child_state[d] /\ offset'[d] = offset[d]
    PROVE  /\ ServerRight'
           /\ \A d \in Child : buffer[d].expected <= buffer'[d].expected
<1>1. /\ buffer'[c] = b
      /\ \A d \in Child \ {c} : buffer'[d] = buffer[d]
  BY DEF TypeInv, TypeOK, ServerTypeOK
<1>2. buffer[c].expected \in FIRST_DATA_SEQ .. EndSeq
  BY DEF ServerRight, ChildRight
<1>3. ChildRight(c)'
  BY <1>1, <1>2, Fits DEF ChildRight, serves
<1>4. \A d \in Child \ {c} : ChildRight(d)'
  BY <1>1 DEF ServerRight, ChildRight, serves
<1>5. \A d \in Child : buffer[d].expected <= buffer'[d].expected
  BY <1>1, <1>2, BufferBounds, Fits
<1> QED
  BY <1>3, <1>4, <1>5 DEF ServerRight

\* A step that changes neither a buffer, an offset nor the file, and takes no
\* child back to its beginning.
LEMMA ServerStays ==
    ASSUME FileFits, TypeInv, ServerRight, OutputRight, UNCHANGED <<buffer, offset, disk>>,
           \A d \in Child : child_state'[d] \in {"UNUSED", "FILENAME"} =>
                               child_state[d] \in {"UNUSED", "FILENAME"}
    PROVE  /\ ServerRight' /\ OutputRight'
           /\ \A d \in Child : buffer[d].expected <= buffer'[d].expected
<1>1. ServerRight'
  BY DEF ServerRight, ChildRight, serves
<1>2. OutputRight'
  BY DEF OutputRight, DiskNeverWrong
<1>3. \A d \in Child : buffer[d].expected <= buffer'[d].expected
  BY BufferBounds
<1> QED
  BY <1>1, <1>2, <1>3

\* filename_state of a child; opening the file empties it.
LEMMA ChildFilenameRight ==
    ASSUME FileFits, CopyInv, NEW c \in Child, filename_open(c) \/ filename_open_error(c)
    PROVE  /\ ServerRight' /\ OutputRight' /\ Carries(inbox', Truthful)
           /\ \A d \in Child : buffer[d].expected <= buffer'[d].expected
<1> USE DEF CopyInv
<1>0. 0 \in SeqNum /\ 1 \in SeqNum /\ c \in Address /\ Client \in Address
  BY PacketAssumption DEF SeqNum, Address
<1>1. Carries(inbox', Truthful)
  BY <1>0, SendsControl
  DEF filename_open, filename_open_error, child_sends, send_filename_response, NetworkRight, Flag
<1>2. child_state[c] = "FILENAME" /\ ~serves(c) /\ offset[c] = 0 /\ buffer[c].expected = 0
  BY DEF filename_open, filename_open_error, ServerRight, ChildRight
<1>3. CASE filename_open(c)
  <2> DEFINE b == buffer_init(WindowSize, FIRST_DATA_SEQ)
  <2>1. /\ BufferHolds(b, Payload, EndSeq) /\ b.expected = FIRST_DATA_SEQ
        /\ b.size = WindowSize
    BY Bounds, BufferInitHolds DEF buffer_init
  <2>2. buffer' = [buffer EXCEPT ![c] = b]
    BY <1>2, <1>3 DEF filename_open, TypeInv, ServerReady, ChildReady
  <2> HIDE DEF b
  <2>3. /\ buffer'[c] = b
        /\ \A d \in Child \ {c} : buffer'[d] = buffer[d]
    BY <2>2 DEF TypeInv, TypeOK, ServerTypeOK
  <2>4. /\ child_state'[c] = "RECV_DATA" /\ offset' = offset /\ disk' = <<>>
        /\ \A d \in Child \ {c} : child_state'[d] = child_state[d]
    BY <1>3 DEF filename_open, GoesTo, TypeInv, TypeOK, ServerTypeOK
  <2>5. ChildRight(c)'
    BY <1>2, <2>1, <2>3, <2>4, Fits DEF ChildRight, serves
  <2>6. \A d \in Child \ {c} : ChildRight(d)'
    BY <2>3, <2>4 DEF ServerRight, ChildRight, serves
  <2>7. OutputRight'
    BY <2>4 DEF OutputRight, DiskNeverWrong
  <2>8. \A d \in Child : buffer[d].expected <= buffer'[d].expected
    BY <1>2, <2>1, <2>3, BufferBounds, Fits
  <2> QED
    BY <1>1, <2>5, <2>6, <2>7, <2>8 DEF ServerRight
<1>4. CASE filename_open_error(c)
  <2>1. UNCHANGED <<buffer, offset, disk>>
    BY <1>4 DEF filename_open_error
  <2>2. \A d \in Child : child_state'[d] \in {"UNUSED", "FILENAME"} =>
                            child_state[d] \in {"UNUSED", "FILENAME"}
    BY <1>4 DEF filename_open_error, Fails, GoesTo, TypeInv, TypeOK, ServerTypeOK
  <2> QED
    BY <1>1, <2>1, <2>2, ServerStays
<1> QED
  BY <1>3, <1>4

\* handle_data_packet.
LEMMA RecvDataRight ==
    ASSUME FileFits, CopyInv, NEW c \in Child, NEW p, recv_data(c, p)
    PROVE  /\ ServerRight' /\ OutputRight' /\ Carries(inbox', Truthful)
           /\ \A d \in Child : buffer[d].expected <= buffer'[d].expected
<1> USE DEF CopyInv
<1>1. /\ child_state[c] = "RECV_DATA" /\ Arrives(c, p) /\ p.good /\ p.flag = "DATA"
      /\ c \in Address
  BY DEF recv_data, may_receive, IsGood, check_packet, get_flag, Address
<1>2. /\ Carries(Taken(c), Truthful)
      /\ p.num \in FIRST_DATA_SEQ .. EndSeq - 1 /\ p.data = ChunkOf(p.num)
  BY <1>1, ReceivedTrue DEF TruePacket
<1>3. p.num \in SeqNum /\ p.data \in Chunk /\ p.data = Payload[p.num]
  BY <1>2, DataNumber
<1>4. /\ IsBuffer(buffer[c], Chunk) /\ buffer[c].expected \in SeqNum
      /\ serves(c) /\ buffer[c].size > 0 /\ buffer[c].size = WindowSize
      /\ buffer[c].expected + buffer[c].size < SeqSpace
  BY <1>1, BufferBounds DEF serves
<1>5. /\ BufferHolds(buffer[c], Payload, EndSeq)
      /\ buffer[c].expected \in FIRST_DATA_SEQ .. EndSeq
      /\ WholeWrites => offset[c] = 2 * (buffer[c].expected - FIRST_DATA_SEQ)
  BY <1>4 DEF ServerRight, ChildRight
<1> DEFINE saved == buffer_save(buffer[c], p.num, p.data)
<1>6. ASSUME buffer_in_window(buffer[c], p.num)
      PROVE  /\ BufferHolds(saved, Payload, EndSeq) /\ saved.expected = buffer[c].expected
             /\ IsBuffer(saved, Chunk) /\ saved.size = buffer[c].size
  <2>1. IsBuffer(saved, Chunk) /\ saved.size = buffer[c].size
    BY <1>3, <1>4, BufferSaveType
  <2>2. p.num < EndSeq
    BY <1>2, Fits
  <2>3. BufferHolds(saved, Payload, EndSeq) /\ saved.expected = buffer[c].expected
    BY <1>3, <1>4, <1>5, <1>6, <2>2, BufferSaveHolds
  <2> QED
    BY <2>1, <2>3
<1> HIDE DEF saved
<1>7. PICK b : /\ buffer' = [buffer EXCEPT ![c] = b]
               /\ BufferHolds(b, Payload, EndSeq)
               /\ b.size = buffer[c].size /\ b.expected = buffer[c].expected
  <2>1. CASE data_outside(c, p)
    <3>1. buffer' = [buffer EXCEPT ![c] = buffer[c]]
      BY <2>1 DEF data_outside, TypeInv, TypeOK, ServerTypeOK
    <3> QED
      BY <1>5, <3>1
  <2>2. CASE data_expected(c, p)
    <3> DEFINE b == buffer_clear_reject(saved, p.num)
    <3>1. buffer' = [buffer EXCEPT ![c] = b] /\ buffer_in_window(buffer[c], p.num)
      BY <2>2 DEF data_expected, saved
    <3>2. BufferHolds(b, Payload, EndSeq) /\ b.expected = saved.expected /\ b.size = saved.size
      BY <1>6, <3>1, BufferRejectHolds, BufferClearRejectType
    <3> HIDE DEF b
    <3> QED
      BY <1>6, <3>1, <3>2
  <2>3. CASE data_later(c, p)
    <3> DEFINE b == buffer_rejected(saved)
    <3>1. buffer_in_window(buffer[c], p.num)
      BY <2>3 DEF data_later
    <3>2. buffer' = [buffer EXCEPT ![c] = b] \/ buffer' = [buffer EXCEPT ![c] = saved]
      BY <2>3 DEF data_later, saved
    <3>3. BufferHolds(b, Payload, EndSeq) /\ b.expected = saved.expected /\ b.size = saved.size
      BY <1>6, <3>1, BufferRejectHolds, BufferRejectedType
    <3> HIDE DEF b
    <3> QED
      BY <1>6, <3>1, <3>2, <3>3
  <2> QED
    BY <2>1, <2>2, <2>3 DEF recv_data
<1>8. UNCHANGED <<child_state, offset, disk>>
  BY DEF recv_data
<1>9. b.expected \in buffer[c].expected .. EndSeq
  BY <1>5, <1>7, Fits
<1>10. /\ ServerRight'
       /\ \A d \in Child : buffer[d].expected <= buffer'[d].expected
  BY <1>1, <1>4, <1>5, <1>7, <1>8, <1>9, ServerStaysRight
<1>11. OutputRight'
  BY <1>8 DEF OutputRight, DiskNeverWrong
<1>12. Carries(inbox', Truthful)
  <2>1. CASE data_outside(c, p)
    BY <1>2, <1>4, <2>1, SendsAnswer
    DEF data_outside, child_sends, send_rr, buffer_expected
  <2>2. CASE data_expected(c, p)
    BY <1>2, <2>2 DEF data_expected
  <2>3. CASE data_later(c, p)
    <3>1. saved.expected = buffer[c].expected
      BY <1>6, <2>3 DEF data_later
    <3> QED
      BY <1>2, <1>4, <2>3, <3>1, SendsAnswer
      DEF data_later, saved, child_sends, send_reject, buffer_expected
  <2> QED
    BY <2>1, <2>2, <2>3 DEF recv_data
<1> QED
  BY <1>10, <1>11, <1>12

\* The places of the input file that a chunk fills.
LEMMA ContentsOf ==
    ASSUME NEW k \in 1 .. Len(File)
    PROVE  /\ 2 * k - 1 \in DOMAIN Contents /\ 2 * k \in DOMAIN Contents
           /\ Contents[2 * k - 1] = <<File[k], 1>> /\ Contents[2 * k] = <<File[k], 2>>
           /\ Len(halves(File[k])) = 2 /\ halves(File[k]) # <<>>
           /\ halves(File[k])[1] = <<File[k], 1>> /\ halves(File[k])[2] = <<File[k], 2>>
<1>1. Len(File) \in Nat
  BY Bounds
<1>2. \A chunk : /\ Len(halves(chunk)) = 2 /\ halves(chunk) # <<>>
                 /\ halves(chunk)[1] = <<chunk, 1>> /\ halves(chunk)[2] = <<chunk, 2>>
  BY DEF halves
<1>3. /\ 2 * k - 1 \in 1 .. 2 * Len(File) /\ 2 * k \in 1 .. 2 * Len(File)
      /\ (2 * k - 1 + 1) \div 2 = k /\ (2 * k + 1) \div 2 = k
      /\ 2 - ((2 * k - 1) % 2) = 1 /\ 2 - ((2 * k) % 2) = 2
  BY <1>1
<1>4. Contents[2 * k - 1] = halves(File[k])[1] /\ Contents[2 * k] = halves(File[k])[2]
  BY <1>3 DEF Contents
<1>5. 2 * k - 1 \in DOMAIN Contents /\ 2 * k \in DOMAIN Contents
  BY <1>3 DEF Contents
<1> QED
  BY <1>2, <1>4, <1>5

\* A write that stores all of a chunk puts it where the input file has it.
LEMMA DiskStaysRight ==
    ASSUME TypeInv, DiskNeverWrong, NEW pos \in Nat, pos < Len(File),
           disk' = WriteAt(2 * pos, halves(File[pos + 1]))
    PROVE  DiskNeverWrong'
<1> DEFINE data == halves(File[pos + 1])
           n == Max({Len(disk), 2 * pos + 2})
<1>0. pos + 1 \in 1 .. Len(File) /\ 2 * (pos + 1) = 2 * pos + 2
      /\ 2 * (pos + 1) - 1 = 2 * pos + 1
  BY Bounds
<1>1. /\ 2 * pos + 1 \in DOMAIN Contents /\ 2 * pos + 2 \in DOMAIN Contents
      /\ Contents[2 * pos + 1] = data[1] /\ Contents[2 * pos + 2] = data[2]
      /\ Len(data) = 2 /\ data # <<>>
  BY <1>0, ContentsOf
<1> HIDE DEF data
<1>2. disk \in Seq(Place)
  BY DEF TypeInv, TypeOK, ServerTypeOK
<1>3. disk' = [i \in 1 .. n |->
                 IF i \in 2 * pos + 1 .. 2 * pos + 2 THEN data[i - 2 * pos]
                 ELSE IF i <= Len(disk) THEN disk[i] ELSE Nil]
  BY <1>1 DEF WriteAt, data
<1>4. n \in Nat
  <2>1. \E m \in {Len(disk), 2 * pos + 2} : \A k \in {Len(disk), 2 * pos + 2} : m >= k
    BY <1>2
  <2> QED
    BY <1>2, <2>1 DEF Max
<1> HIDE DEF n
<1>5. ASSUME NEW i \in 1 .. n
      PROVE  disk'[i] = Nil \/ (i \in DOMAIN Contents /\ disk'[i] = Contents[i])
  <2>1. disk'[i] = IF i \in 2 * pos + 1 .. 2 * pos + 2 THEN data[i - 2 * pos]
                   ELSE IF i <= Len(disk) THEN disk[i] ELSE Nil
    BY <1>3
  <2>2. CASE i = 2 * pos + 1
    BY <1>1, <2>1, <2>2
  <2>3. CASE i = 2 * pos + 2
    BY <1>1, <2>1, <2>3
  <2>4. CASE i \notin 2 * pos + 1 .. 2 * pos + 2 /\ i <= Len(disk)
    BY <1>2, <1>4, <2>1, <2>4 DEF DiskNeverWrong
  <2>5. CASE i \notin 2 * pos + 1 .. 2 * pos + 2 /\ ~(i <= Len(disk))
    BY <2>1, <2>5
  <2> QED
    BY <1>4, <2>2, <2>3, <2>4, <2>5
<1>6. DOMAIN disk' = 1 .. n
  BY <1>3
<1> QED
  BY <1>5, <1>6 DEF DiskNeverWrong, Contents

\* buffer_write_ready, and what handle_data_packet does after it.
LEMMA WriteRight ==
    ASSUME FileFits, CopyInv, NEW c \in Child,
           write_ready(c) \/ write_short(c) \/ write_error(c) \/ write_done(c)
    PROVE  /\ ServerRight' /\ OutputRight' /\ Carries(inbox', Truthful)
           /\ \A d \in Child : buffer[d].expected <= buffer'[d].expected
<1> USE DEF CopyInv
<1>1. child_state[c] = "RECV_DATA"
  BY DEF write_ready, write_short, write_error, write_done, writes, may_write,
         TypeInv, ServerReady, ChildReady
<1>2. /\ IsBuffer(buffer[c], Chunk) /\ buffer[c].expected \in SeqNum
      /\ serves(c) /\ buffer[c].size > 0 /\ buffer[c].size = WindowSize
      /\ buffer[c].expected + buffer[c].size < SeqSpace
  BY <1>1, BufferBounds DEF serves
<1>3. /\ BufferHolds(buffer[c], Payload, EndSeq)
      /\ buffer[c].expected \in FIRST_DATA_SEQ .. EndSeq
      /\ WholeWrites => offset[c] = 2 * (buffer[c].expected - FIRST_DATA_SEQ)
  BY <1>2 DEF ServerRight, ChildRight
<1>4. ASSUME NEW data, writes(c, data),
             WholeWrites => data = halves(buffer_ready(buffer[c]))
      PROVE  /\ ServerRight' /\ OutputRight' /\ Carries(inbox', Truthful)
             /\ \A d \in Child : buffer[d].expected <= buffer'[d].expected
  <2> DEFINE b == buffer_wrote(buffer[c])
  <2>1. buffer_has(buffer[c], buffer[c].expected)
    BY <1>4 DEF writes, may_write, buffer_expected
  <2>2. /\ BufferHolds(b, Payload, EndSeq)
        /\ b.expected = buffer[c].expected + 1
        /\ buffer[c].expected < EndSeq
        /\ buffer_ready(buffer[c]) = Payload[buffer[c].expected]
        /\ b.size = buffer[c].size
    BY <1>2, <1>3, <2>1, Fits, BufferWroteHolds, BufferWroteType
  <2>3. buffer' = [buffer EXCEPT ![c] = b]
    BY <1>4 DEF writes
  <2> HIDE DEF b
  <2>4. /\ UNCHANGED <<child_state, inbox>>
        /\ offset'[c] = offset[c] + Len(data)
        /\ \A d \in Child \ {c} : offset'[d] = offset[d]
        /\ disk' = WriteAt(offset[c], data)
    BY <1>4 DEF writes, networkVars, TypeInv, TypeOK, ServerTypeOK
  <2> DEFINE pos == buffer[c].expected - FIRST_DATA_SEQ
  <2>5. /\ buffer[c].expected \in FIRST_DATA_SEQ .. EndSeq - 1
        /\ pos \in Nat /\ pos < Len(File) /\ pos + 1 = buffer[c].expected - 1
    BY <1>3, <2>2, Fits
  <2>6. buffer_ready(buffer[c]) = File[pos + 1]
    BY <2>2, <2>5, DataNumber
  <2>7. b.expected \in buffer[c].expected .. EndSeq
    BY <1>3, <2>2, Fits
  <2>8. ASSUME WholeWrites
        PROVE  /\ data = halves(File[pos + 1]) /\ Len(data) = 2
               /\ offset[c] = 2 * pos
               /\ offset'[c] = 2 * (b.expected - FIRST_DATA_SEQ)
    <3>1. data = halves(File[pos + 1]) /\ Len(data) = 2
      BY <1>4, <2>6, <2>8 DEF halves
    <3>2. offset[c] = 2 * pos
      BY <1>3, <2>8
    <3>3. b.expected - FIRST_DATA_SEQ = pos + 1
      BY <2>2, <2>5, Fits
    <3> HIDE DEF pos
    <3>4. offset'[c] = 2 * pos + 2 /\ 2 * pos + 2 = 2 * (pos + 1)
      BY <2>4, <2>5, <3>1, <3>2
    <3> QED
      BY <3>1, <3>2, <3>3, <3>4
  <2> HIDE DEF pos
  <2>9. /\ ServerRight'
        /\ \A d \in Child : buffer[d].expected <= buffer'[d].expected
    BY <1>1, <1>2, <2>2, <2>3, <2>4, <2>7, <2>8, ServerStaysRight
  <2>10. OutputRight'
    BY <2>4, <2>5, <2>8, DiskStaysRight DEF OutputRight
  <2> QED
    BY <2>4, <2>9, <2>10 DEF NetworkRight
<1>5. CASE write_ready(c)
  BY <1>4, <1>5 DEF write_ready
<1>6. CASE write_short(c)
  BY <1>4, <1>6 DEF write_short, WholeWrites
<1>7. CASE write_error(c)
  <2>1. UNCHANGED <<buffer, offset, disk, inbox>>
    BY <1>7 DEF write_error, networkVars
  <2>2. \A d \in Child : child_state'[d] \in {"UNUSED", "FILENAME"} =>
                            child_state[d] \in {"UNUSED", "FILENAME"}
    BY <1>7 DEF write_error, Fails, GoesTo, TypeInv, TypeOK, ServerTypeOK
  <2> QED
    BY <2>1, <2>2, ServerStays DEF NetworkRight
<1>8. CASE write_done(c)
  <2>1. PICK b : /\ buffer' = [buffer EXCEPT ![c] = b]
                 /\ BufferHolds(b, Payload, EndSeq)
                 /\ b.size = buffer[c].size /\ b.expected = buffer[c].expected
    <3> DEFINE b == buffer_rejected(buffer[c])
    <3>1. buffer' = [buffer EXCEPT ![c] = b] \/ buffer' = [buffer EXCEPT ![c] = buffer[c]]
      BY <1>8 DEF write_done, TypeInv, TypeOK, ServerTypeOK
    <3>2. /\ BufferHolds(b, Payload, EndSeq) /\ b.expected = buffer[c].expected
          /\ b.size = buffer[c].size
      BY <1>2, <1>3, BufferRejectHolds, BufferRejectedType
    <3> HIDE DEF b
    <3> QED
      BY <1>3, <3>1, <3>2
  <2>2. UNCHANGED <<child_state, offset, disk>>
    BY <1>8 DEF write_done
  <2>3. b.expected \in buffer[c].expected .. EndSeq
    BY <1>3, <2>1, Fits
  <2>4. /\ ServerRight'
        /\ \A d \in Child : buffer[d].expected <= buffer'[d].expected
    BY <1>1, <1>2, <1>3, <2>1, <2>2, <2>3, ServerStaysRight
  <2> DEFINE rr == make_packet(c, "RR", buffer[c].expected, Nil)
             srej == make_packet(c, "SREJ", buffer[c].expected, Nil)
  <2>5. rr \in Truthful[Client] /\ srej \in Truthful[Client] /\ Client \in Address
    BY <1>2, AnswerTrue DEF Address
  <2>6. \/ inbox' = Posted(inbox, Client, <<rr, srej>>)
        \/ inbox' = Posted(inbox, Client, <<rr>>)
    BY <1>8 DEF write_done, child_sends, send_rr, send_reject, buffer_expected
  <2> HIDE DEF rr, srej
  <2>7. Carries(Posted(inbox, Client, <<rr>>), Truthful)
    BY <2>5, CarriesPostedOne DEF NetworkRight
  <2>8. Carries(Posted(Posted(inbox, Client, <<rr>>), Client, <<srej>>), Truthful)
    BY <2>5, <2>7, CarriesPostedOne
  <2>9. Carries(inbox', Truthful)
    BY <2>5, <2>6, <2>7, <2>8, PostedTwice DEF NetworkRight
  <2>10. OutputRight'
    BY <2>2 DEF OutputRight, DiskNeverWrong
  <2> QED
    BY <2>4, <2>9, <2>10
<1> QED
  BY <1>5, <1>6, <1>7, <1>8

\* The other steps of a child: EOF, DONE, time-outs, packets ignored.
LEMMA TeardownRight ==
    ASSUME FileFits, CopyInv, NEW c \in Child,
           \/ recv_data_timeout(c) \/ wait_on_done_timeout(c)
           \/ \E p : \/ recv_eof(c, p) \/ recv_data_ignore(c, p) \/ recv_done(c, p)
                     \/ recv_eof_again(c, p) \/ wait_on_done_ignore(c, p)
    PROVE  /\ ServerRight' /\ OutputRight' /\ Carries(inbox', Truthful)
           /\ \A d \in Child : buffer[d].expected <= buffer'[d].expected
<1> USE DEF CopyInv
<1>0. 0 \in SeqNum /\ c \in Address /\ Client \in Address
  BY PacketAssumption DEF SeqNum, Address
<1>1. UNCHANGED <<buffer, offset, disk>>
  BY DEF recv_data_timeout, wait_on_done_timeout, recv_eof, recv_data_ignore, recv_done,
         recv_eof_again, wait_on_done_ignore, serverVars
<1>2. \A d \in Child : child_state'[d] \in {"UNUSED", "FILENAME"} =>
                          child_state[d] \in {"UNUSED", "FILENAME"}
  BY DEF recv_data_timeout, wait_on_done_timeout, recv_eof, recv_data_ignore, recv_done,
         recv_eof_again, wait_on_done_ignore, serverVars, Fails, GoesTo,
         TypeInv, TypeOK, ServerTypeOK
<1>3. Carries(inbox', Truthful)
  <2>1. CASE recv_data_timeout(c)
    BY <2>1 DEF recv_data_timeout, networkVars, NetworkRight
  <2>2. CASE wait_on_done_timeout(c)
    BY <1>0, <2>2, SendsControl
    DEF wait_on_done_timeout, child_sends, send_eof_ack, NetworkRight, Flag
  <2>3. ASSUME NEW p, \/ recv_eof(c, p) \/ recv_data_ignore(c, p) \/ recv_done(c, p)
                      \/ recv_eof_again(c, p) \/ wait_on_done_ignore(c, p)
        PROVE  Carries(inbox', Truthful)
    <3>1. Arrives(c, p)
      BY <2>3 DEF recv_eof, recv_data_ignore, recv_done, recv_eof_again,
                  wait_on_done_ignore, may_receive
    <3>2. Carries(Taken(c), Truthful)
      BY <1>0, <3>1, ReceivedTrue
    <3>3. inbox' = Taken(c) \/ child_sends(Taken(c), <<send_eof_ack(c)>>)
      BY <2>3 DEF recv_eof, recv_data_ignore, recv_done, recv_eof_again, wait_on_done_ignore
    <3> QED
      BY <1>0, <3>2, <3>3, SendsControl DEF child_sends, send_eof_ack, Flag
  <2> QED
    BY <2>1, <2>2, <2>3
<1> QED
  BY <1>1, <1>2, <1>3, ServerStays

LEMMA ChildStepRight ==
    ASSUME FileFits, CopyInv, NEW c \in Child, ChildNext(c)
    PROVE  /\ CopyInv'
           /\ \A d \in Child : buffer[d].expected <= buffer'[d].expected
<1>1. /\ ServerRight' /\ OutputRight' /\ Carries(inbox', Truthful)
      /\ \A d \in Child : buffer[d].expected <= buffer'[d].expected
  BY ChildFilenameRight, RecvDataRight, WriteRight, TeardownRight DEF ChildNext, ChildStep
<1>2. TypeInv'
  BY ChildStepType DEF CopyInv
<1>3. NetworkRight'
  BY <1>1, <1>2, TrueStaysTrue DEF CopyInv
<1>4. RcopyRight'
  BY DEF ChildNext, rcopyVars, CopyInv, RcopyRight
<1> QED
  BY <1>1, <1>2, <1>3, <1>4 DEF CopyInv

-----------------------------------------------------------------------------
(* The faults, and every step.                                             *)

LEMMA FaultStepRight ==
    ASSUME FileFits, CopyInv, FaultNext
    PROVE  CopyInv'
<1> USE DEF CopyInv
<1>1. ASSUME NEW a \in Address, NEW p \in Truthful[a] PROVE Damaged(p) \in Truthful[a]
  <2>1. p \in Sent[a] /\ p \in PacketType
    BY <1>1 DEF Truthful, Sent
  <2>2. Damaged(p) \in PacketType /\ Damaged(p).flag = p.flag /\ Damaged(p).num = p.num
    BY <2>1 DEF Damaged, PacketType, Chunk
  <2>3. ~Damaged(p).good
    BY <2>1 DEF Damaged, PacketType
  <2>4. Damaged(p) \in Sent[a]
    BY <2>1, <2>2 DEF Sent
  <2> QED
    BY <2>3, <2>4 DEF Truthful, TruePacket
<1>2. Carries(inbox', Truthful)
  BY <1>1, CarriesFault DEF FaultNext, NetworkRight
<1>3. TypeInv'
  BY FaultStepType
<1>4. UNCHANGED rcopyVars /\ UNCHANGED serverVars
  BY DEF FaultNext
<1>5. RcopyRight'
  BY <1>4 DEF rcopyVars, RcopyRight
<1>6. ServerRight' /\ OutputRight'
  BY <1>4 DEF serverVars, ServerRight, ChildRight, serves, OutputRight, DiskNeverWrong
<1>7. \A c \in Child : buffer[c].expected <= buffer'[c].expected
  BY <1>4, BufferBounds DEF serverVars
<1>8. NetworkRight'
  BY <1>2, <1>3, <1>7, TrueStaysTrue
<1> QED
  BY <1>3, <1>5, <1>6, <1>8

\* An edge of the window or of a buffer never goes back.
Onward ==
    /\ window.size > 0 => window'.lower >= window.lower
    /\ \A c \in Child : serves(c) => buffer'[c].expected >= buffer[c].expected

LEMMA CopyStep ==
    ASSUME FileFits, CopyInv, [Next]_vars
    PROVE  CopyInv' /\ Onward
<1>0. /\ window.lower \in Int
      /\ \A c \in Child : buffer[c].expected \in Int
  <2>1. window.lower \in Int
    BY PacketAssumption DEF CopyInv, TypeInv, TypeOK, RcopyTypeOK, IsWindow, SeqNum
  <2> QED
    BY <2>1, BufferBounds DEF CopyInv
<1>1. ASSUME NEW c \in Child, buffer'[c] = buffer[c] PROVE buffer'[c].expected >= buffer[c].expected
  BY <1>0, <1>1
<1>2. CASE RcopyNext
  <2>1. UNCHANGED serverVars
    BY <1>2 DEF RcopyNext
  <2> QED
    BY <1>1, <1>2, <2>1, RcopyStepRight DEF Onward, serverVars
<1>3. CASE MainNext
  <2>1. UNCHANGED <<window, buffer>>
    BY <1>3 DEF MainNext, MainStep, main_recv, rcopyVars
  <2> QED
    BY <1>0, <1>1, <1>3, <2>1, MainStepRight DEF Onward
<1>4. CASE \E c \in Child : ChildNext(c)
  <2>1. UNCHANGED window
    BY <1>4 DEF ChildNext, rcopyVars
  <2>2. CopyInv' /\ \A d \in Child : buffer[d].expected <= buffer'[d].expected
    BY <1>4, ChildStepRight
  <2>3. \A d \in Child : buffer'[d].expected \in Int
    BY <2>2, PacketAssumption DEF CopyInv, TypeInv, TypeOK, ServerTypeOK, IsBuffer, SeqNum
  <2> QED
    BY <1>0, <2>1, <2>2, <2>3 DEF Onward
<1>5. CASE FaultNext
  <2>1. UNCHANGED <<window, buffer>>
    BY <1>5 DEF FaultNext, rcopyVars, serverVars
  <2> QED
    BY <1>0, <1>1, <1>5, <2>1, FaultStepRight DEF Onward
<1>6. CASE UNCHANGED vars
  <2>1. UNCHANGED rcopyVars /\ UNCHANGED serverVars /\ UNCHANGED networkVars
    BY <1>6 DEF vars
  <2>2. TypeInv'
    BY <1>6, TypeStep DEF CopyInv
  <2>3. RcopyRight'
    BY <2>1 DEF rcopyVars, CopyInv, RcopyRight
  <2>4. ServerRight' /\ OutputRight'
    BY <2>1 DEF serverVars, CopyInv, ServerRight, ChildRight, serves, OutputRight, DiskNeverWrong
  <2>5. Carries(inbox', Truthful)
    BY <2>1 DEF networkVars, CopyInv, NetworkRight
  <2>6. UNCHANGED <<window, buffer>>
    BY <2>1 DEF rcopyVars, serverVars
  <2>7. \A c \in Child : buffer[c].expected <= buffer'[c].expected
    BY <1>0, <2>6
  <2>8. NetworkRight'
    BY <2>2, <2>5, <2>7, TrueStaysTrue DEF CopyInv
  <2> QED
    BY <1>0, <1>1, <2>2, <2>3, <2>4, <2>6, <2>8 DEF CopyInv, Onward
<1> QED
  BY <1>2, <1>3, <1>4, <1>5, <1>6 DEF Next, Finished

LEMMA CopyInvariant ==
    ASSUME FileFits
    PROVE  Spec => []CopyInv
<1>1. Init => CopyInv
  BY CopyInit
<1>2. CopyInv /\ [Next]_vars => CopyInv'
  BY CopyStep
<1> QED
  BY <1>1, <1>2, PTL DEF Spec

-----------------------------------------------------------------------------
(* The theorems.                                                           *)

\* rcopy's window holds exactly the packets sent and not acknowledged, each with
\* the chunk it was sent with: window_add never overwrites a packet that may be
\* asked for again, and window_rr frees no other than the acknowledged ones.
THEOREM WindowCorrect ==
    ASSUME FileFits
    PROVE  Spec => []WindowHoldsUnacked
<1>1. CopyInv => WindowHoldsUnacked
  <2>1. SUFFICES ASSUME CopyInv, window.size > 0
                 PROVE  /\ window.lower <= window.current
                        /\ \A seq \in window.lower .. window.current - 1 :
                              /\ window_find(window, seq)
                              /\ window.entry[seq % window.size].data = ChunkOf(seq)
                        /\ \A spot \in DOMAIN window.entry :
                              window.entry[spot].used =>
                                 window.entry[spot].seq \in window.lower .. window.current - 1
    BY DEF WindowHoldsUnacked
  <2>2. IsWindow(window, Chunk)
    BY <2>1 DEF CopyInv, TypeInv, TypeOK, RcopyTypeOK
  <2>3. WindowHolds(window, Payload) /\ window.lower >= FIRST_DATA_SEQ
    BY <2>1 DEF CopyInv, RcopyRight
  <2>4. window.lower \in Nat /\ window.current \in FIRST_DATA_SEQ .. EndSeq
    BY <2>1, WindowBounds DEF CopyInv
  <2>5. ASSUME NEW seq \in window.lower .. window.current - 1
        PROVE  /\ window_find(window, seq)
               /\ window.entry[seq % window.size].data = ChunkOf(seq)
    <3>1. seq \in FIRST_DATA_SEQ .. EndSeq - 1
      BY <2>3, <2>4, Fits
    <3>2. window_find(window, seq)
      BY <2>3 DEF WindowHolds
    <3>3. seq \in SeqNum /\ Payload[seq] = ChunkOf(seq)
      BY <3>1, DataNumber
    <3> QED
      BY <2>2, <2>3, <3>2, <3>3, WindowFound
  <2>6. DOMAIN window.entry = 0 .. window.size - 1
    BY <2>2 DEF IsWindow
  <2> QED
    BY <2>3, <2>5, <2>6 DEF WindowHolds
<1> QED
  BY <1>1, CopyInvariant, PTL

\* A child's buffer holds only packets that it has not written and that fit, each
\* with the chunk rcopy sent, whichever child it is and whatever the network does.
THEOREM BufferCorrect ==
    ASSUME FileFits
    PROVE  Spec => []BufferHoldsLater
<1>1. CopyInv => BufferHoldsLater
  <2>1. SUFFICES ASSUME CopyInv, NEW c \in Child, NEW spot \in DOMAIN buffer[c].entry,
                        buffer[c].entry[spot].used
                 PROVE  /\ buffer[c].entry[spot].seq \in
                              buffer[c].expected .. buffer[c].expected + buffer[c].size - 1
                        /\ buffer[c].entry[spot].seq % buffer[c].size = spot
                        /\ buffer[c].entry[spot].data = ChunkOf(buffer[c].entry[spot].seq)
    BY DEF BufferHoldsLater
  <2>2. IsBuffer(buffer[c], Chunk)
    BY BufferBounds, <2>1 DEF CopyInv
  <2>3. DOMAIN buffer[c].entry = 0 .. buffer[c].size - 1 /\ buffer[c].size \in Nat
    BY <2>2 DEF IsBuffer
  <2>4. serves(c)
    BY <2>1, <2>3 DEF serves
  <2>5. /\ BufferHolds(buffer[c], Payload, EndSeq)
        /\ buffer[c].expected \in FIRST_DATA_SEQ .. EndSeq
    BY <2>1, <2>4 DEF CopyInv, ServerRight, ChildRight
  <2> DEFINE e == buffer[c].entry[spot]
  <2>6. /\ e.seq \in buffer[c].expected .. buffer[c].expected + buffer[c].size - 1
        /\ e.seq < EndSeq /\ e.seq % buffer[c].size = spot /\ e.data = Payload[e.seq]
    BY <2>1, <2>3, <2>5 DEF BufferHolds
  <2> HIDE DEF e
  <2>7. e.seq \in FIRST_DATA_SEQ .. EndSeq - 1
    BY <2>3, <2>5, <2>6, Fits
  <2> QED
    BY <2>6, <2>7, DataNumber DEF e
<1> QED
  BY <1>1, CopyInvariant, PTL

\* No RR or SREJ, however old, speaks of a packet that its sender has not written
\* or reached.
THEOREM AcksCorrect ==
    ASSUME FileFits
    PROVE  Spec => []AcksAreTrue
<1>1. CopyInv => AcksAreTrue
  <2>1. SUFFICES ASSUME CopyInv, NEW p \in InFlight(Client), IsGood(p, "RR") \/ IsGood(p, "SREJ")
                 PROVE  p.num <= buffer[p.from].expected
    BY DEF AcksAreTrue
  <2>2. Client \in Address
    BY DEF Address
  <2>3. p \in Truthful[Client]
    BY <2>1, <2>2, CarriesInFlight DEF CopyInv, NetworkRight
  <2> QED
    BY <2>1, <2>2, <2>3 DEF Truthful, TruePacket, IsGood, check_packet, get_flag
<1> QED
  BY <1>1, CopyInvariant, PTL

\* As long as no write is short, each place of the output file holds what the
\* input file has there or nothing, also if several children write the file and
\* calls on it fail.
THEOREM DiskCorrect ==
    ASSUME FileFits, WholeWrites
    PROVE  Spec => []DiskNeverWrong
<1>1. CopyInv => DiskNeverWrong
  BY DEF CopyInv, OutputRight
<1> QED
  BY <1>1, CopyInvariant, PTL

\* rcopy's lower edge and a child's expected packet never go back, in whatever
\* order old RRs and data arrive.
THEOREM ProgressCorrect ==
    ASSUME FileFits
    PROVE  Spec => ProgressIsKept
<1>1. CopyInv /\ [Next]_vars =>
         [ /\ window.size > 0 => window'.lower >= window.lower
           /\ \A c \in Child : serves(c) => buffer'[c].expected >= buffer[c].expected ]_vars
  BY CopyStep DEF Onward
<1> QED
  BY <1>1, CopyInvariant, PTL DEF Spec, ProgressIsKept

-----------------------------------------------------------------------------
(* Rejects.                                                                *)

\* A child that still works: while it writes it has asked for nothing, and between
\* two packets for its expected packet exactly if there is a gap.
ChildAsks(c) ==
    serves(c) /\ ~failed[c] =>
        IF writing[c] THEN ~buffer[c].missing_active ELSE AsksForGap(buffer[c])

RejectInv == \A c \in Child : ChildAsks(c)

\* Only the child that acts changes; its buffer becomes b.
LEMMA OnlyChildAsks ==
    ASSUME TypeInv, RejectInv, NEW c \in Child, NEW b,
           buffer' = [buffer EXCEPT ![c] = b],
           failed' = failed,
           \A d \in Child \ {c} : writing'[d] = writing[d],
           ~failed[c] => IF writing'[c] THEN ~b.missing_active ELSE AsksForGap(b)
    PROVE  RejectInv'
<1>1. /\ buffer'[c] = b
      /\ \A d \in Child \ {c} : buffer'[d] = buffer[d]
  BY DEF TypeInv, TypeOK, ServerTypeOK
<1>2. ChildAsks(c)'
  BY <1>1 DEF ChildAsks, AsksForGap, buffer_has_later
<1>3. \A d \in Child \ {c} : ChildAsks(d)'
  BY <1>1 DEF RejectInv, ChildAsks, serves, AsksForGap, buffer_has_later
<1> QED
  BY <1>2, <1>3 DEF RejectInv

\* No buffer changes, no child begins or ends to write, unless it fails.
LEMMA NobodyAsks ==
    ASSUME TypeInv, RejectInv, UNCHANGED buffer,
           \A d \in Child : \/ failed'[d]
                            \/ failed'[d] = failed[d] /\ writing'[d] = writing[d]
    PROVE  RejectInv'
BY DEF RejectInv, ChildAsks, serves, AsksForGap, buffer_has_later

\* handle_data_packet: a later packet makes or keeps a gap, the expected one closes
\* it, and any other changes nothing.
LEMMA RecvDataAsks ==
    ASSUME TypeInv, RejectInv, NEW c \in Child, NEW p, recv_data(c, p)
    PROVE  RejectInv'
<1>1. /\ child_state[c] = "RECV_DATA" /\ ~writing[c] /\ Arrives(c, p) /\ c \in Address
      /\ failed' = failed
  BY DEF recv_data, may_receive, Address
<1>2. p.num \in SeqNum /\ p.data \in Chunk
  BY <1>1, Received DEF TypeInv, PacketType
<1>3. IsBuffer(buffer[c], Chunk) /\ buffer[c].size > 0
  BY <1>1, Bounds DEF TypeInv, TypeOK, ServerTypeOK, ServerReady, ChildReady
<1>4. ~failed[c] => AsksForGap(buffer[c])
  BY <1>1, <1>3 DEF RejectInv, ChildAsks, serves
<1> DEFINE saved == buffer_save(buffer[c], p.num, p.data)
<1>5. ASSUME buffer_in_window(buffer[c], p.num)
      PROVE  /\ IsBuffer(saved, Chunk)
             /\ saved.expected = buffer[c].expected
             /\ saved.missing_active = buffer[c].missing_active
             /\ saved.missing_seq = buffer[c].missing_seq
             /\ p.num # buffer[c].expected => buffer_has_later(saved)
  BY <1>2, <1>3, <1>5, BufferSaveType, BufferSaveAsks
<1> HIDE DEF saved
<1>6. CASE data_outside(c, p)
  BY <1>1, <1>6, NobodyAsks DEF data_outside
<1>7. CASE data_expected(c, p)
  <2> DEFINE b == buffer_clear_reject(saved, p.num)
  <2>1. /\ buffer' = [buffer EXCEPT ![c] = b]
        /\ buffer_in_window(buffer[c], p.num) /\ p.num = buffer[c].expected
        /\ writing' = [writing EXCEPT ![c] = TRUE]
    BY <1>7 DEF data_expected, buffer_expected, saved
  <2>2. ~failed[c] => ~b.missing_active
    BY <1>4, <1>5, <2>1, BufferFillsGap DEF AsksForGap
  <2>3. /\ writing'[c]
        /\ \A d \in Child \ {c} : writing'[d] = writing[d]
    BY <2>1 DEF TypeInv, TypeOK, ServerTypeOK
  <2> HIDE DEF b
  <2> QED
    BY <1>1, <2>1, <2>2, <2>3, OnlyChildAsks
<1>8. CASE data_later(c, p)
  <2>1. /\ buffer_in_window(buffer[c], p.num) /\ p.num # buffer[c].expected
        /\ UNCHANGED writing
    BY <1>8 DEF data_later, buffer_expected
  <2>2. PICK b : buffer' = [buffer EXCEPT ![c] = b] /\ AsksForGap(b)
    <3>1. CASE buffer_need_reject(saved)
      <4>1. buffer' = [buffer EXCEPT ![c] = buffer_rejected(saved)]
        BY <1>8, <3>1 DEF data_later, saved
      <4> QED
        BY <1>5, <2>1, <4>1, BufferRejectAsks
    <3>2. CASE ~buffer_need_reject(saved)
      <4>1. buffer' = [buffer EXCEPT ![c] = saved]
        BY <1>8, <3>2 DEF data_later, saved
      <4> QED
        BY <1>5, <2>1, <3>2, <4>1, BufferRejectAsks
    <3> QED
      BY <3>1, <3>2
  <2> QED
    BY <1>1, <2>1, <2>2, OnlyChildAsks
<1> QED
  BY <1>6, <1>7, <1>8 DEF recv_data

\* buffer_write_ready, and the end of handle_data_packet: the next gap, if there is
\* one, is asked for.
LEMMA WriteAsks ==
    ASSUME TypeInv, RejectInv, NEW c \in Child,
           write_ready(c) \/ write_short(c) \/ write_error(c) \/ write_done(c)
    PROVE  RejectInv'
<1>1. writing[c] /\ child_state[c] = "RECV_DATA"
  BY DEF write_ready, write_short, writes, may_write, write_error, write_done,
         TypeInv, ServerReady, ChildReady
<1>2. IsBuffer(buffer[c], Chunk) /\ buffer[c].size > 0
  BY <1>1, Bounds DEF TypeInv, TypeOK, ServerTypeOK, ServerReady, ChildReady
<1>3. ~failed[c] => ~buffer[c].missing_active
  BY <1>1, <1>2 DEF RejectInv, ChildAsks, serves
<1>4. CASE write_ready(c) \/ write_short(c)
  <2> DEFINE b == buffer_wrote(buffer[c])
  <2>1. buffer' = [buffer EXCEPT ![c] = b] /\ UNCHANGED <<writing, failed>>
    BY <1>4 DEF write_ready, write_short, writes
  <2>2. b.missing_active = buffer[c].missing_active
    BY <1>2, BufferFillsGap
  <2> HIDE DEF b
  <2> QED
    BY <1>1, <1>3, <2>1, <2>2, OnlyChildAsks
<1>5. CASE write_error(c)
  <2>1. /\ UNCHANGED buffer
        /\ failed'[c]
        /\ \A d \in Child \ {c} : failed'[d] = failed[d] /\ writing'[d] = writing[d]
    BY <1>5 DEF write_error, Fails, TypeInv, TypeOK, ServerTypeOK
  <2> QED
    BY <2>1, NobodyAsks
<1>6. CASE write_done(c)
  <2>1. /\ failed' = failed /\ ~writing'[c]
        /\ \A d \in Child \ {c} : writing'[d] = writing[d]
    BY <1>6 DEF write_done, TypeInv, TypeOK, ServerTypeOK
  <2>2. CASE buffer_has_later(buffer[c]) /\ buffer_need_reject(buffer[c])
    <3> DEFINE b == buffer_rejected(buffer[c])
    <3>1. buffer' = [buffer EXCEPT ![c] = b]
      BY <1>6, <2>2 DEF write_done
    <3>2. AsksForGap(b)
      BY <1>2, <2>2, BufferRejectAsks
    <3> HIDE DEF b
    <3> QED
      BY <2>1, <3>1, <3>2, OnlyChildAsks
  <2>3. CASE ~(buffer_has_later(buffer[c]) /\ buffer_need_reject(buffer[c]))
    <3>1. buffer' = buffer
      BY <1>6, <2>3 DEF write_done
    <3>2. buffer' = [buffer EXCEPT ![c] = buffer[c]]
      BY <3>1 DEF TypeInv, TypeOK, ServerTypeOK
    <3>3. ~failed[c] => ~buffer_has_later(buffer[c])
      BY <1>3, <2>3 DEF buffer_need_reject
    <3>4. ~failed[c] => AsksForGap(buffer[c])
      BY <1>2, <1>3, <3>3, BufferRejectAsks
    <3> QED
      BY <2>1, <3>2, <3>4, OnlyChildAsks
  <2> QED
    BY <2>2, <2>3
<1> QED
  BY <1>4, <1>5, <1>6

\* Every other step of a child.
LEMMA OtherChildAsks ==
    ASSUME TypeInv, RejectInv, NEW c \in Child, ChildNext(c),
           ~(write_ready(c) \/ write_short(c) \/ write_error(c) \/ write_done(c)),
           \A p : ~recv_data(c, p)
    PROVE  RejectInv'
<1>1. CASE filename_open(c)
  <2> DEFINE b == buffer_init(asked_size[c], FIRST_DATA_SEQ)
  <2>1. buffer' = [buffer EXCEPT ![c] = b] /\ UNCHANGED <<writing, failed>> /\ ~writing[c]
    BY <1>1 DEF filename_open, TypeInv, ServerReady, ChildReady
  <2>2. AsksForGap(b)
    BY BufferInitAsks
  <2> HIDE DEF b
  <2> QED
    BY <2>1, <2>2, OnlyChildAsks
<1>2. CASE UNCHANGED <<buffer, writing, failed>>
  BY <1>2, NobodyAsks
<1>3. CASE Fails(c) /\ UNCHANGED <<buffer, writing>>
  <2>1. failed'[c] /\ \A d \in Child \ {c} : failed'[d] = failed[d]
    BY <1>3 DEF Fails, TypeInv, TypeOK, ServerTypeOK
  <2> QED
    BY <1>3, <2>1, NobodyAsks
<1>4. filename_open_error(c) => Fails(c) /\ UNCHANGED <<buffer, writing>>
  BY DEF filename_open_error
<1>5. ASSUME NEW p PROVE recv_eof(c, p) \/ recv_data_ignore(c, p) \/ recv_done(c, p)
                            \/ recv_eof_again(c, p) \/ wait_on_done_ignore(c, p)
                         => UNCHANGED <<buffer, writing, failed>>
  BY DEF recv_eof, recv_data_ignore, recv_done, recv_eof_again, wait_on_done_ignore, serverVars
<1>6. recv_data_timeout(c) => Fails(c) /\ UNCHANGED <<buffer, writing>>
  BY DEF recv_data_timeout
<1>7. wait_on_done_timeout(c) => /\ Fails(c) \/ UNCHANGED failed
                                 /\ UNCHANGED <<buffer, writing>>
  BY DEF wait_on_done_timeout
<1> QED
  BY <1>1, <1>2, <1>3, <1>4, <1>5, <1>6, <1>7 DEF ChildNext, ChildStep

LEMMA RejectStep == TypeInv /\ RejectInv /\ [Next]_vars => RejectInv'
<1> SUFFICES ASSUME TypeInv, RejectInv, [Next]_vars PROVE RejectInv'
  OBVIOUS
<1>1. CASE RcopyNext \/ FaultNext \/ UNCHANGED vars
  <2>1. UNCHANGED <<buffer, writing, failed>>
    BY <1>1 DEF RcopyNext, FaultNext, vars, serverVars
  <2> QED
    BY <2>1, NobodyAsks
<1>2. CASE MainNext
  <2>1. UNCHANGED <<buffer, writing, failed>>
    BY <1>2 DEF MainNext, MainStep, main_recv
  <2> QED
    BY <2>1, NobodyAsks
<1>3. CASE \E c \in Child : ChildNext(c)
  BY <1>3, RecvDataAsks, WriteAsks, OtherChildAsks
<1> QED
  BY <1>1, <1>2, <1>3 DEF Next, Finished

\* Between two packets a receiving child remembers having asked for its expected
\* packet exactly if it holds a later one, whatever is lost, repeated or late:
\* no gap is asked for twice, and none is forgotten.
THEOREM RejectCorrect == Spec => []RejectExactlyWhenGap
<1>1. Init => TypeInv /\ RejectInv
  <2>1. Init => RejectInv
    BY DEF Init, ServerInit, RejectInv, ChildAsks, serves, no_buffer
  <2> QED
    BY <2>1, TypeInit
<1>2. TypeInv /\ RejectInv /\ [Next]_vars => TypeInv' /\ RejectInv'
  BY TypeStep, RejectStep
<1>3. RejectInv => RejectExactlyWhenGap
  BY DEF RejectInv, ChildAsks, AsksForGap, RejectExactlyWhenGap
<1> QED
  BY <1>1, <1>2, <1>3, PTL DEF Spec

-----------------------------------------------------------------------------
(* What rcopy sends again.                                                 *)

\* A packet that is, if it carries data, in rcopy's window after the step.
Unacked(p) ==
    p.flag = "DATA" => window'.size > 0 /\ p.num \in window'.lower .. window'.current - 1

\* rcopy's step sends at most one packet, after it has received one or none.
SendsUnacked ==
    \E box \in {inbox, Taken(Client)} :
        \/ inbox' = box
        \/ \E to, p : inbox' = Posted(box, to, <<p>>) /\ Unacked(p)

LEMMA RcopySendsUnacked ==
    ASSUME FileFits, CopyInv, RcopyNext
    PROVE  SendsUnacked
<1> USE DEF CopyInv
<1>0. ASSUME NEW p, p.flag # "DATA" PROVE Unacked(p)
  BY <1>0 DEF Unacked
<1>1. CASE filename_send
  BY <1>0, <1>1 DEF filename_send, rcopy_sends, make_packet, SendsUnacked
<1>2. CASE eof_send
  BY <1>0, <1>2 DEF eof_send, rcopy_sends, make_packet, SendsUnacked
<1>3. ASSUME NEW p, eof_recv(p) PROVE SendsUnacked
  BY <1>0, <1>3 DEF eof_recv, send_final_done, make_packet, SendsUnacked
<1>4. ASSUME NEW p, filename_recv(p) PROVE SendsUnacked
  BY <1>4 DEF filename_recv, SendsUnacked
<1>5. CASE inbox' = inbox
  BY <1>5 DEF SendsUnacked
<1>6. CASE send_data
  <2> DEFINE p == make_packet(Client, "DATA", window.current, File[read_pos + 1])
  <2>1. inbox' = Posted(inbox, server, <<p>>)
    BY <1>6 DEF send_data, rcopy_sends
  <2>2. /\ window'.size > 0
        /\ window'.current = window.current + 1 /\ window'.lower = window.lower
        /\ window.lower <= window.current /\ window.current \in Nat /\ window.lower \in Nat
    <3>1. /\ window.size > 0 /\ IsWindow(window, Chunk)
          /\ read_pos \in 0 .. Len(File)
      BY <1>6, Bounds DEF send_data, TypeInv, TypeOK, RcopyTypeOK, RcopyReady
    <3>2. /\ WindowHolds(window, Payload) /\ window.current = FIRST_DATA_SEQ + read_pos
          /\ window.lower \in Nat /\ window.current \in FIRST_DATA_SEQ .. EndSeq
      BY <3>1, WindowBounds DEF RcopyRight
    <3>3. window.current \in FIRST_DATA_SEQ .. EndSeq - 1
      BY <1>6, <3>1, <3>2, Fits DEF send_data
    <3>4. File[read_pos + 1] = ChunkOf(window.current)
      BY <3>1, <3>2, Fits DEF ChunkOf, FIRST_SEQ
    <3>5. /\ ChunkOf(window.current) \in Chunk
          /\ ChunkOf(window.current) = Payload[window.current]
      BY <3>3, DataNumber
    <3> DEFINE w == window_add(window, window.current, ChunkOf(window.current))
    <3>6. WindowHolds(w, Payload) /\ w.current = window.current + 1 /\ w.lower = window.lower
      BY <1>6, <3>1, <3>2, <3>5, WindowAddHolds DEF send_data, may_send
    <3>7. window' = w
      BY <1>6, <3>4 DEF send_data
    <3> HIDE DEF w
    <3>8. window.lower <= window.current /\ w.size > 0
      BY <3>2, <3>6 DEF WindowHolds
    <3> QED
      BY <3>1, <3>2, <3>6, <3>7, <3>8, Fits
  <2>3. p.num = window.current
    BY DEF make_packet
  <2> HIDE DEF p
  <2>4. Unacked(p)
    BY <2>2, <2>3 DEF Unacked
  <2> QED
    BY <2>1, <2>4 DEF SendsUnacked
<1>7. ASSUME NEW box \in {inbox, Taken(Client)}, NEW to, NEW seq \in SeqNum, NEW data,
             window.size > 0, window' = window, window_find(window, seq),
             inbox' = Posted(box, to, <<make_packet(Client, "DATA", seq, data)>>)
      PROVE  SendsUnacked
  <2> DEFINE p == make_packet(Client, "DATA", seq, data)
  <2>1. IsWindow(window, Chunk) /\ WindowHolds(window, Payload)
    BY <1>7 DEF TypeInv, TypeOK, RcopyTypeOK, RcopyRight
  <2>2. seq \in window.lower .. window.current - 1
    BY <1>7, <2>1, WindowFound
  <2>3. p.num = seq
    BY DEF make_packet
  <2> HIDE DEF p
  <2>4. Unacked(p)
    BY <1>7, <2>2, <2>3 DEF Unacked
  <2> QED
    BY <1>7, <2>4 DEF SendsUnacked, p
<1>8. ASSUME NEW p, process_controls_recv(p) PROVE SendsUnacked
  <2>1. CASE inbox' = Taken(Client)
    BY <2>1 DEF SendsUnacked
  <2>2. CASE handle_reject(p) /\ window_find(window, p.num)
    <3>1. Client \in Address
      BY DEF Address
    <3>2. p.num \in SeqNum
      BY <1>8, <3>1, Received DEF process_controls_recv, TypeInv, PacketType
    <3>3. window.size > 0
      BY <1>8, Bounds DEF process_controls_recv, TypeInv, RcopyReady
    <3> QED
      BY <1>7, <2>2, <3>2, <3>3 DEF handle_reject
  <2> QED
    BY <1>8, <2>1, <2>2 DEF process_controls_recv, handle_rr, handle_reject
<1>9. CASE wait_on_ack_timeout \/ wait_on_ack_drained
  <2>1. /\ window' = window /\ window.size > 0 /\ IsWindow(window, Chunk)
    BY <1>9, Bounds
    DEF wait_on_ack_timeout, wait_on_ack_drained, TypeInv, TypeOK, RcopyTypeOK, RcopyReady
  <2> DEFINE seq == Min(window_unacked(window))
  <2>2. \/ inbox' = inbox
        \/ window_unacked(window) # {} /\ resend_packet(inbox, seq)
    BY <1>9 DEF wait_on_ack_timeout, wait_on_ack_drained, not_answered
  <2>3. CASE window_unacked(window) # {} /\ resend_packet(inbox, seq)
    <3>1. seq \in SeqNum /\ window_find(window, seq)
      BY <2>1, <2>3, UnackedType DEF window_unacked
    <3> HIDE DEF seq
    <3> QED
      BY <1>7, <2>1, <2>3, <3>1 DEF resend_packet, rcopy_sends
  <2> QED
    BY <1>5, <2>2, <2>3
<1>10. \/ filename_timeout \/ send_data_end_of_file \/ send_data_read_error
       \/ send_data_leave \/ send_data_drained \/ eof_timeout
       => inbox' = inbox
  BY DEF filename_timeout, send_data_end_of_file, send_data_read_error, send_data_leave,
         send_data_drained, eof_timeout, networkVars
<1> QED
  BY <1>1, <1>2, <1>3, <1>4, <1>5, <1>6, <1>8, <1>9, <1>10 DEF RcopyNext, RcopyStep, RcopyTimeout

\* What rcopy does to a child's queue.
LEMMA RcopyQueues ==
    ASSUME FileFits, CopyInv, RcopyNext, NEW c \in Child
    PROVE  inbox'[c] = inbox[c] \/ \E p : Unacked(p) /\ inbox'[c] = inbox[c] \o <<p>>
<1>1. inbox = [a \in Address |-> inbox[a]] /\ c \in Address /\ c # Client
  BY PacketAssumption DEF CopyInv, TypeInv, NetworkReady, Carries, Address
<1>2. PICK box \in {inbox, Taken(Client)} :
        \/ inbox' = box
        \/ \E to, p : inbox' = Posted(box, to, <<p>>) /\ Unacked(p)
  BY RcopySendsUnacked DEF SendsUnacked
<1>3. box[c] = inbox[c] /\ box = [a \in Address |-> box[a]]
  BY <1>1 DEF Taken
<1>4. ASSUME NEW to, NEW p, inbox' = Posted(box, to, <<p>>)
      PROVE  inbox'[c] = inbox[c] \/ inbox'[c] = inbox[c] \o <<p>>
  BY <1>1, <1>3, <1>4 DEF Posted
<1> QED
  BY <1>2, <1>3, <1>4

\* The steps of the server put nothing into a child's queue.
LEMMA ServerSendsNoData ==
    ASSUME TypeInv, MainNext \/ \E d \in Child : ChildNext(d), NEW c \in Child
    PROVE  inbox'[c] = inbox[c] \/ (inbox[c] # <<>> /\ inbox'[c] = Tail(inbox[c]))
<1> USE DEF TypeInv
<1>0. inbox = [a \in Address |-> inbox[a]] /\ c \in Address /\ c # Main /\ c # Client
  BY PacketAssumption DEF NetworkReady, Carries, Address
<1>1. CASE MainNext
  BY <1>0, <1>1 DEF MainNext, MainStep, main_recv, Taken
<1>2. ASSUME NEW d \in Child, ChildNext(d)
      PROVE  inbox'[c] = inbox[c] \/ (inbox[c] # <<>> /\ inbox'[c] = Tail(inbox[c]))
  <2>1. \/ inbox' = inbox
        \/ inbox[d] # <<>> /\ inbox' = Taken(d)
        \/ \E ps : inbox' = Posted(inbox, Client, ps)
        \/ inbox[d] # <<>> /\ \E ps : inbox' = Posted(Taken(d), Client, ps)
    <3>1. \A p : recv_data(d, p) \/ recv_eof(d, p) \/ recv_data_ignore(d, p)
                 \/ recv_done(d, p) \/ recv_eof_again(d, p) \/ wait_on_done_ignore(d, p)
              => /\ inbox[d] # <<>>
                 /\ inbox' = Taken(d) \/ \E ps : inbox' = Posted(Taken(d), Client, ps)
      BY DEF recv_data, data_outside, data_expected, data_later, recv_eof, recv_data_ignore,
             recv_done, recv_eof_again, wait_on_done_ignore, may_receive, Arrives, child_sends
    <3>2. filename_open(d) \/ filename_open_error(d) \/ write_done(d) \/ wait_on_done_timeout(d)
              => inbox' = inbox \/ \E ps : inbox' = Posted(inbox, Client, ps)
      BY DEF filename_open, filename_open_error, write_done, wait_on_done_timeout, child_sends
    <3>3. write_ready(d) \/ write_short(d) \/ write_error(d) \/ recv_data_timeout(d)
              => inbox' = inbox
      BY DEF write_ready, write_short, writes, write_error, recv_data_timeout, networkVars
    <3> QED
      BY <1>2, <3>1, <3>2, <3>3 DEF ChildNext, ChildStep
  <2>2. d \in Address
    BY DEF Address
  <2> QED
    BY <1>0, <2>1, <2>2 DEF Taken, Posted
<1> QED
  BY <1>1, <1>2

\* The packet that has been queued last.
LEMMA LastAppended ==
    ASSUME NEW S, NEW s \in Seq(S), NEW p
    PROVE  Len(s \o <<p>>) = Len(s) + 1 /\ (s \o <<p>>)[Len(s) + 1] = p
<1>1. s \in Seq(S \cup {p}) /\ <<p>> \in Seq(S \cup {p})
  BY SeqMonotonic
<1>2. Len(<<p>>) = 1 /\ <<p>>[1] = p
  OBVIOUS
<1> QED
  BY <1>1, <1>2, ConcatProperties, LenProperties

LEMMA NewestUnacked ==
    ASSUME FileFits, CopyInv, [Next]_vars, faults' = faults, NEW c \in Child,
           Len(inbox'[c]) > Len(inbox[c])
    PROVE  Unacked(inbox'[c][Len(inbox'[c])])
<1> USE DEF CopyInv
<1>0. /\ inbox = [a \in Address |-> inbox[a]] /\ c \in Address /\ c # Client
      /\ inbox[c] \in Seq(Sent[c])
  BY PacketAssumption DEF TypeInv, NetworkReady, Carries, Address
<1>1. inbox'[c] # inbox[c] /\ ~(inbox[c] # <<>> /\ inbox'[c] = Tail(inbox[c]))
  <2>1. Len(inbox[c]) \in Nat /\ (inbox[c] # <<>> => Len(Tail(inbox[c])) = Len(inbox[c]) - 1)
    BY <1>0, HeadTailProperties, LenProperties
  <2> DEFINE old == Len(inbox[c])
             new == Len(inbox'[c])
  <2>2. inbox'[c] = inbox[c] => new = old
    OBVIOUS
  <2>3. inbox[c] # <<>> /\ inbox'[c] = Tail(inbox[c]) => new = old - 1
    BY <2>1
  <2>4. old \in Nat /\ new > old
    BY <2>1
  <2> HIDE DEF old, new
  <2>5. new # old /\ new # old - 1
    BY <2>4
  <2> QED
    BY <2>2, <2>3, <2>5
<1>2. ~MainNext /\ ~(\E d \in Child : ChildNext(d)) /\ inbox' # inbox
  BY <1>1, ServerSendsNoData
<1>3. ~FaultNext
  <2>1. faults \in Nat
    BY Bounds DEF TypeInv, TypeOK, NetworkTypeOK
  <2>2. FaultNext => faults' = faults + 1
    BY DEF FaultNext, NetworkNext, LosePacket, DamagePacket, DuplicatePacket, DelayPacket, MayFail
  <2> QED
    BY <2>1, <2>2
<1>4. RcopyNext
  BY <1>2, <1>3 DEF Next, Finished, vars, networkVars
<1>5. PICK p : Unacked(p) /\ inbox'[c] = inbox[c] \o <<p>>
  BY <1>1, <1>4, RcopyQueues
<1>6. Len(inbox'[c]) = Len(inbox[c]) + 1 /\ inbox'[c][Len(inbox'[c])] = p
  BY <1>0, <1>5, LastAppended
<1> QED
  BY <1>5, <1>6

\* rcopy sends no packet that has been acknowledged, even if an old SREJ asks for
\* it, and none that is not yet in its window.
THEOREM ResendsCorrect ==
    ASSUME FileFits
    PROVE  Spec => NeverResendsAcked
<1>1. CopyInv /\ [Next]_vars =>
         [ faults' = faults =>
              \A c \in Child :
                 LET p == inbox'[c][Len(inbox'[c])] IN
                 Len(inbox'[c]) > Len(inbox[c]) /\ p.flag = "DATA" =>
                    p.num \in window'.lower .. window'.current - 1 ]_vars
  BY NewestUnacked DEF Unacked
<1> QED
  BY <1>1, CopyInvariant, PTL DEF Spec, NeverResendsAcked
=============================================================================

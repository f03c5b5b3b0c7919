--------------------------- MODULE TransferProofs ---------------------------
(***************************************************************************)
(* Theorems about Transfer, for every file, window size, number of         *)
(* children, number and kind of faults, and whatever calls on files fail.  *)
(***************************************************************************)
EXTENDS Transfer, ArrayProofs, SequenceTheorems

-----------------------------------------------------------------------------
(* The packets in flight: what sending, receiving and the network's faults *)
(* do to them.  T[a] stands for the packets that may be on their way to a: *)
(* if every queue carries only such packets, it still does after any of    *)
(* these steps.  An invariant about packets is a choice of T.              *)

\* Every queue of box carries packets of T only.
Carries(box, T) ==
    /\ box = [a \in Address |-> box[a]]
    /\ \A a \in Address : box[a] \in Seq(T[a])

LEMMA OnePacket ==
    ASSUME NEW S, NEW p \in S
    PROVE  <<p>> \in Seq(S)
OBVIOUS

LEMMA TwoPackets ==
    ASSUME NEW S, NEW p \in S, NEW q \in S
    PROVE  <<p>> \o <<q>> = <<p, q>>
<1>1. <<p>> \in Seq(S) /\ <<q>> \in Seq(S)
  OBVIOUS
<1>2. <<p, q>> \in Seq(S)
  OBVIOUS
<1>3. /\ <<p>> \o <<q>> \in Seq(S) /\ Len(<<p>> \o <<q>>) = 2
      /\ (<<p>> \o <<q>>)[1] = p /\ (<<p>> \o <<q>>)[2] = q
  BY <1>1, ConcatProperties
<1>4. Len(<<p, q>>) = 2 /\ <<p, q>>[1] = p /\ <<p, q>>[2] = q
  OBVIOUS
<1> DEFINE s == <<p>> \o <<q>>
           t == <<p, q>>
<1>5. Len(s) = Len(t) /\ \A i \in 1 .. Len(s) : s[i] = t[i]
  BY <1>3, <1>4
<1> HIDE DEF s, t
<1>6. s = t
  BY <1>2, <1>3, <1>5, SeqEqual DEF s, t
<1> QED
  BY <1>6 DEF s, t

\* Receiving: the packet received is one of T, and so are the others.
LEMMA CarriesTaken ==
    ASSUME NEW T, Carries(inbox, T), NEW a \in Address, inbox[a] # <<>>
    PROVE  Carries(Taken(a), T) /\ Head(inbox[a]) \in T[a]
<1>1. inbox[a] \in Seq(T[a])
  BY DEF Carries
<1>2. Tail(inbox[a]) \in Seq(T[a]) /\ Head(inbox[a]) \in T[a]
  BY <1>1, HeadTailProperties
<1> QED
  BY <1>2 DEF Carries, Taken

\* Sending packets of T.
LEMMA CarriesPosted ==
    ASSUME NEW T, NEW box, Carries(box, T), NEW b \in Address, NEW ps \in Seq(T[b])
    PROVE  Carries(Posted(box, b, ps), T)
<1>1. box[b] \o ps \in Seq(T[b])
  BY ConcatProperties DEF Carries
<1> QED
  BY <1>1 DEF Carries, Posted

\* One packet sent.
LEMMA CarriesPostedOne ==
    ASSUME NEW T, NEW box, Carries(box, T), NEW b \in Address, NEW p \in T[b]
    PROVE  Carries(Posted(box, b, <<p>>), T)
<1>1. <<p>> \in Seq(T[b])
  BY OnePacket
<1> QED
  BY <1>1, CarriesPosted

\* A state in which more packets are allowed.
LEMMA CarriesMore ==
    ASSUME NEW T, NEW U, NEW box, Carries(box, T),
           \A a \in Address : T[a] \subseteq U[a]
    PROVE  Carries(box, U)
<1>1. ASSUME NEW a \in Address PROVE box[a] \in Seq(U[a])
  BY <1>1, SeqMonotonic DEF Carries
<1> QED
  BY <1>1 DEF Carries

\* The faults, if a packet of T is still one of T when it is damaged.
LEMMA CarriesFault ==
    ASSUME NEW T, Carries(inbox, T),
           \A a \in Address : \A p \in T[a] : Damaged(p) \in T[a],
           NetworkNext
    PROVE  Carries(inbox', T)
<1>1. PICK a \in Address :
         LosePacket(a) \/ DamagePacket(a) \/ DuplicatePacket(a) \/ DelayPacket(a)
  BY DEF NetworkNext
<1>2. inbox[a] # <<>>
  BY <1>1 DEF LosePacket, DamagePacket, DuplicatePacket, DelayPacket, MayFail
<1>3. Carries(Taken(a), T) /\ Head(inbox[a]) \in T[a]
  BY <1>2, CarriesTaken
<1>4. CASE LosePacket(a)
  BY <1>3, <1>4 DEF LosePacket
<1>5. CASE DamagePacket(a)
  <2>1. Damaged(Head(inbox[a])) \in T[a]
    BY <1>3
  <2>2. <<Damaged(Head(inbox[a]))>> \in Seq(T[a])
    BY <2>1, OnePacket
  <2>3. Tail(inbox[a]) \in Seq(T[a])
    BY <1>2, HeadTailProperties DEF Carries
  <2>4. <<Damaged(Head(inbox[a]))>> \o Tail(inbox[a]) \in Seq(T[a])
    BY <2>2, <2>3, ConcatProperties
  <2> QED
    BY <1>5, <2>4 DEF DamagePacket, Carries
<1>6. CASE DuplicatePacket(a)
  BY <1>3, <1>6, CarriesPostedOne DEF DuplicatePacket
<1>7. CASE DelayPacket(a)
  BY <1>3, <1>7, CarriesPostedOne DEF DelayPacket
<1> QED
  BY <1>1, <1>4, <1>5, <1>6, <1>7

\* A packet on its way to a is one of T.
LEMMA CarriesInFlight ==
    ASSUME NEW T, Carries(inbox, T), NEW a \in Address
    PROVE  InFlight(a) \subseteq T[a]
<1>1. \A i \in DOMAIN inbox[a] : inbox[a][i] \in T[a]
  BY ElementOfSeq, LenProperties DEF Carries
<1> QED
  BY <1>1 DEF InFlight, Range

\* Two sendtos to the same address are one of two packets.
LEMMA PostedTwice ==
    ASSUME NEW T, NEW box, Carries(box, T), NEW b \in Address,
           NEW p \in T[b], NEW q \in T[b]
    PROVE  Posted(Posted(box, b, <<p>>), b, <<q>>) = Posted(box, b, <<p, q>>)
<1>1. box[b] \in Seq(T[b]) /\ <<p>> \in Seq(T[b]) /\ <<q>> \in Seq(T[b])
  BY OnePacket DEF Carries
<1>2. (box[b] \o <<p>>) \o <<q>> = box[b] \o (<<p>> \o <<q>>)
  BY <1>1, ConcatAssociative
<1>3. <<p>> \o <<q>> = <<p, q>>
  BY TwoPackets
<1> QED
  BY <1>2, <1>3 DEF Carries, Posted

-----------------------------------------------------------------------------
(* Type correctness.                                                       *)

\* The packets that may be on their way to an address: the server allocates
\* what a FILENAME asks for.
Sent == [a \in Address |->
            {p \in PacketType : p.flag = "FILENAME" => p.num = WindowSize}]

\* The arrays have been allocated in the states that use them, and a try counter
\* is below its limit as long as its loop goes on.
RcopyReady ==
    /\ state \in {"SEND_DATA", "WAIT_ON_ACK", "SEND_EOF"} => window.size = WindowSize
    /\ state # "DONE" => retry_count < RcopyTries /\ tries < RcopyTries

ChildReady(c) ==
    /\ child_state[c] = "FILENAME" => asked_size[c] = WindowSize
    /\ child_state[c] = "RECV_DATA" => buffer[c].size = WindowSize
    /\ child_state[c] \in {"FILENAME", "RECV_DATA", "UNUSED"} => child_retry[c] = 0
    /\ child_state[c] = "WAIT_ON_DONE" => child_retry[c] < ServerTries
    /\ writing[c] => child_state[c] = "RECV_DATA"

ServerReady == \A c \in Child : ChildReady(c)

NetworkReady == Carries(inbox, Sent)

\* The inductive strengthening of TypeOK.
TypeInv == TypeOK /\ NetworkReady /\ RcopyReady /\ ServerReady

LEMMA FilePart ==
    ASSUME NEW i \in 1 .. Len(File)
    PROVE  File[i] \in Chunk
BY RcopyAssumption DEF Chunk, Range

\* A packet that rcopy or a child makes.
LEMMA PacketMade ==
    ASSUME NEW from \in Address, NEW flag \in Flag, NEW num \in SeqNum, NEW data \in Chunk,
           flag = "FILENAME" => num = WindowSize, NEW a \in Address
    PROVE  make_packet(from, flag, num, data) \in Sent[a]
BY DEF make_packet, PacketType, Sent

\* The bounds of the counters are numbers.
LEMMA Bounds ==
    /\ MaxFaults \in Nat
    /\ RcopyTries \in Nat \ {0} /\ ServerTries \in Nat \ {0}
    /\ WindowSize \in Nat \ {0} /\ WindowSize \in SeqNum
    /\ FIRST_SEQ + 1 \in SeqNum /\ FIRST_DATA_SEQ \in SeqNum
    /\ Len(File) \in Nat
<1>1. MaxFaults \in Nat
  BY NetworkAssumption
<1>2. RcopyTries \in Nat \ {0} /\ WindowSize \in Nat \ {0} /\ WindowSize < SeqSpace
  BY RcopyAssumption
<1>3. ServerTries \in Nat \ {0}
  BY ServerAssumption
<1>4. SeqSpace \in Nat /\ SeqSpace > 2
  BY PacketAssumption
<1>5. Len(File) \in Nat
  BY RcopyAssumption
<1> QED
  BY <1>1, <1>2, <1>3, <1>4, <1>5 DEF SeqNum, FIRST_SEQ, FIRST_DATA_SEQ

\* Queues of packets that may be sent are queues of packets.
LEMMA SentType ==
    ASSUME NEW box, Carries(box, Sent)
    PROVE  box \in [Address -> Seq(PacketType)]
<1> DEFINE U == [a \in Address |-> PacketType]
<1>1. \A a \in Address : Sent[a] \subseteq U[a]
  BY DEF Sent
<1>2. Carries(box, U)
  BY <1>1, CarriesMore
<1>3. ASSUME NEW a \in Address PROVE box[a] \in Seq(PacketType)
  BY <1>2, <1>3 DEF Carries
<1>4. box = [a \in Address |-> box[a]]
  BY DEF Carries
<1> QED
  BY <1>3, <1>4

LEMMA TypeInit == Init => TypeInv
<1> SUFFICES ASSUME Init PROVE TypeInv
  OBVIOUS
<1> USE DEF Init
<1>1. NetworkTypeOK /\ NetworkReady
  <2>1. \A T : <<>> \in Seq(T)
    OBVIOUS
  <2>2. inbox = [a \in Address |-> <<>>] /\ faults = 0
    BY DEF NetworkInit
  <2>3. Carries(inbox, Sent)
    BY <2>1, <2>2 DEF Carries
  <2>4. MaxFaults \in Nat
    BY Bounds
  <2>5. faults \in 0 .. MaxFaults
    BY <2>2, <2>4
  <2> QED
    BY <2>3, <2>5, SentType DEF NetworkTypeOK, NetworkReady
<1>2. RcopyTypeOK /\ RcopyReady
  <2>1. IsWindow(no_window, Chunk)
    BY PacketAssumption DEF no_window, IsWindow, SeqNum
  <2>2. no_window.size = 0
    BY DEF no_window
  <2>3. window.size = 0 /\ IsWindow(window, Chunk)
    BY <2>1, <2>2 DEF RcopyInit
  <2>4. read_pos \in 0 .. Len(File)
    BY Bounds DEF RcopyInit
  <2>5. retry_count \in 0 .. RcopyTries /\ tries \in 0 .. RcopyTries
    BY Bounds DEF RcopyInit
  <2>6. retry_count < RcopyTries /\ tries < RcopyTries
    BY Bounds DEF RcopyInit
  <2>7. state = "FILENAME" /\ at = "run" /\ server \in Address
    BY DEF RcopyInit, Address
  <2>8. file_done \in BOOLEAN /\ had_error \in BOOLEAN /\ got_control \in BOOLEAN
    BY DEF RcopyInit
  <2>9. RcopyTypeOK
    BY <2>3, <2>4, <2>5, <2>7, <2>8 DEF RcopyTypeOK
  <2>10. RcopyReady
    BY <2>6, <2>7 DEF RcopyReady
  <2> QED
    BY <2>9, <2>10
<1>3. ServerTypeOK /\ ServerReady
  <2>1. IsBuffer(no_buffer, Chunk)
    BY PacketAssumption DEF no_buffer, IsBuffer, SeqNum
  <2>2. no_buffer.size = 0
    BY DEF no_buffer
  <2>3. <<>> \in Seq(Place)
    OBVIOUS
  <2> QED
    BY <2>1, <2>2, <2>3, ServerAssumption
    DEF ServerInit, ServerTypeOK, ServerReady, ChildReady
<1> QED
  BY <1>1, <1>2, <1>3 DEF TypeInv, TypeOK

-----------------------------------------------------------------------------
(* The steps of rcopy.                                                     *)

\* A packet received is one that may have been sent.
LEMMA Received ==
    ASSUME NetworkReady, NEW a \in Address, NEW p, Arrives(a, p)
    PROVE  /\ Carries(Taken(a), Sent)
           /\ p \in PacketType
           /\ p.flag = "FILENAME" => p.num = WindowSize
<1>1. Carries(Taken(a), Sent) /\ Head(inbox[a]) \in Sent[a]
  BY CarriesTaken DEF NetworkReady, Arrives
<1> QED
  BY <1>1 DEF Arrives, Sent

\* What rcopy sends is a packet that may be sent, whatever it has received before.
LEMMA RcopySends ==
    ASSUME NEW box, Carries(box, Sent), NEW to \in Address,
           NEW flag \in Flag, NEW num \in SeqNum, NEW data \in Chunk,
           flag = "FILENAME" => num = WindowSize
    PROVE  Carries(Posted(box, to, <<make_packet(Client, flag, num, data)>>), Sent)
<1>1. Client \in Address
  BY DEF Address
<1>2. make_packet(Client, flag, num, data) \in Sent[to]
  BY <1>1, PacketMade
<1> QED
  BY <1>2, CarriesPostedOne

\* filename_state and send_filename_packet.
LEMMA FilenameType ==
    ASSUME TypeInv,
           \/ filename_send \/ filename_timeout
           \/ \E p \in InFlight(Client) : filename_recv(p)
    PROVE  RcopyTypeOK' /\ RcopyReady' /\ NetworkReady' /\ faults' = faults
<1> USE DEF TypeInv, TypeOK
<1>0. Client \in Address /\ Nil \in Chunk /\ 0 \in SeqNum
  BY PacketAssumption DEF Address, Chunk, SeqNum
<1>1. CASE filename_send
  <2>1. Carries(inbox', Sent)
    BY <1>0, <1>1, Bounds, RcopySends
    DEF filename_send, rcopy_sends, NetworkReady, RcopyTypeOK, Flag
  <2>2. RcopyTypeOK'
    BY <1>1 DEF filename_send, RcopyTypeOK
  <2>3. RcopyReady'
    BY <1>1 DEF filename_send, RcopyReady
  <2> QED
    BY <1>1, <2>1, <2>2, <2>3 DEF NetworkReady, filename_send
<1>2. ASSUME filename_try_again, server' \in Address, state = "FILENAME"
      PROVE  RcopyTypeOK' /\ RcopyReady'
  <2>1. tries' \in 0 .. RcopyTries
    BY <1>2, Bounds DEF filename_try_again, RcopyTypeOK, RcopyReady
  <2>2. state' # "DONE" => tries' < RcopyTries
    BY <1>2 DEF filename_try_again, Finish
  <2>3. /\ state' \in {"FILENAME", "DONE"} /\ at' \in {"run", at}
        /\ had_error' \in BOOLEAN
    BY <1>2 DEF filename_try_again, Finish, RcopyTypeOK
  <2>4. RcopyTypeOK'
    BY <1>2, <2>1, <2>3 DEF filename_try_again, RcopyTypeOK
  <2>5. RcopyReady'
    BY <1>2, <2>2, <2>3 DEF filename_try_again, RcopyReady
  <2> QED
    BY <2>4, <2>5
<1>3. CASE filename_timeout
  <2>1. server' \in Address /\ inbox' = inbox /\ faults' = faults
    BY <1>3 DEF filename_timeout, filename_try_again, RcopyTypeOK
  <2> QED
    BY <1>2, <1>3, <2>1 DEF filename_timeout, NetworkReady
<1>4. ASSUME NEW p, filename_recv(p)
      PROVE  RcopyTypeOK' /\ RcopyReady' /\ NetworkReady' /\ faults' = faults
  <2>1. Carries(Taken(Client), Sent) /\ p \in PacketType
    BY <1>0, <1>4, Received DEF filename_recv
  <2>2. server' \in Address /\ NetworkReady'
    BY <1>4, <2>1 DEF filename_recv, PacketType, NetworkReady
  <2>3. CASE filename_try_again
    BY <1>2, <1>4, <2>2, <2>3 DEF filename_recv, filename_try_again
  <2>4. CASE filename_response(p)
    <3> DEFINE w == window_init(WindowSize, FIRST_SEQ + 1)
    <3>1. IsWindow(w, Chunk) /\ w.size = WindowSize
      BY <1>0, Bounds, WindowInitType DEF window_init
    <3>2. window' \in {w, window}
      BY <2>4 DEF filename_response
    <3>3. IsWindow(window', Chunk) /\ window'.size \in {0, WindowSize}
      BY <3>1, <3>2 DEF RcopyTypeOK
    <3>4. /\ state' = "DONE" \/ (state' = "SEND_DATA" /\ window' = w)
          /\ at' \in {"run", at} /\ had_error' \in BOOLEAN
          /\ UNCHANGED <<read_pos, file_done, retry_count, tries, got_control, faults>>
      BY <2>4 DEF filename_response, Finish, RcopyTypeOK
    <3> HIDE DEF w
    <3>5. RcopyTypeOK'
      BY <2>2, <3>3, <3>4 DEF RcopyTypeOK
    <3>6. RcopyReady'
      BY <1>4, <3>1, <3>4 DEF RcopyReady, filename_recv
    <3> QED
      BY <2>2, <3>4, <3>5, <3>6
  <2> QED
    BY <1>4, <2>3, <2>4 DEF filename_recv
<1> QED
  BY <1>1, <1>3, <1>4

\* send_data_state, up to its call of process_controls.
LEMMA SendDataType ==
    ASSUME TypeInv,
           \/ send_data \/ send_data_end_of_file \/ send_data_read_error
           \/ send_data_leave \/ send_data_drained
    PROVE  RcopyTypeOK' /\ RcopyReady' /\ NetworkReady' /\ faults' = faults
<1> USE DEF TypeInv, TypeOK
<1>1. CASE send_data
  <2>1. read_pos + 1 \in 1 .. Len(File)
    BY <1>1, Bounds DEF send_data, RcopyTypeOK
  <2>2. File[read_pos + 1] \in Chunk /\ window.current \in SeqNum
    BY <2>1, FilePart DEF RcopyTypeOK, IsWindow
  <2>3. NetworkReady'
    BY <1>1, <2>2, RcopySends
    DEF send_data, rcopy_sends, NetworkReady, RcopyTypeOK, Flag
  <2>4. IsWindow(window', Chunk) /\ window'.size = window.size
    BY <1>1, <2>2, WindowAddType DEF send_data, RcopyTypeOK
  <2>5. read_pos' \in 0 .. Len(File) /\ retry_count' \in 0 .. RcopyTries
    BY <1>1, <2>1, Bounds DEF send_data
  <2>6. RcopyTypeOK'
    BY <1>1, <2>4, <2>5 DEF send_data, RcopyTypeOK
  <2>7. RcopyReady'
    BY <1>1, <2>4, Bounds DEF send_data, RcopyReady
  <2> QED
    BY <1>1, <2>3, <2>6, <2>7 DEF send_data
<1>2. ASSUME NEW done, after_sending(done), state = "SEND_DATA", file_done' \in BOOLEAN,
             UNCHANGED <<server, window, read_pos, had_error, retry_count, got_control>>
      PROVE  RcopyTypeOK' /\ RcopyReady'
  <2>1. tries' \in 0 .. RcopyTries /\ tries' < RcopyTries
    BY <1>2, Bounds DEF after_sending
  <2>2. state' \in {"WAIT_ON_ACK", "SEND_EOF"} /\ at' \in {"run", "wait"}
    BY <1>2 DEF after_sending
  <2>3. RcopyTypeOK'
    BY <1>2, <2>1, <2>2 DEF RcopyTypeOK
  <2>4. RcopyReady'
    BY <1>2, <2>1, <2>2 DEF RcopyReady
  <2> QED
    BY <2>3, <2>4
<1>3. CASE send_data_end_of_file
  BY <1>2, <1>3 DEF send_data_end_of_file, networkVars, NetworkReady
<1>4. CASE send_data_leave
  BY <1>2, <1>4 DEF send_data_leave, networkVars, NetworkReady, RcopyTypeOK
<1>5. CASE send_data_read_error
  <2>1. RcopyTypeOK'
    BY <1>5 DEF send_data_read_error, Finish, RcopyTypeOK
  <2> QED
    BY <1>5, <2>1 DEF send_data_read_error, Finish, RcopyReady, networkVars, NetworkReady
<1>6. CASE send_data_drained
  <2>1. RcopyTypeOK'
    BY <1>6 DEF send_data_drained, RcopyTypeOK
  <2> QED
    BY <1>6, <2>1 DEF send_data_drained, RcopyReady, networkVars, NetworkReady
<1> QED
  BY <1>1, <1>3, <1>4, <1>5, <1>6

\* The slot of a number holds data of a chunk once the window is initialised.
LEMMA SlotData ==
    ASSUME RcopyTypeOK, window.size = WindowSize, NEW seq \in SeqNum
    PROVE  window.entry[seq % window.size].data \in Chunk
<1>1. seq \in Nat
  BY PacketAssumption DEF SeqNum
<1>2. seq % window.size \in 0 .. window.size - 1
  BY <1>1, Bounds
<1> QED
  BY <1>2 DEF RcopyTypeOK, IsWindow

\* process_controls.
LEMMA ProcessControlsType ==
    ASSUME TypeInv, NEW p, process_controls_recv(p)
    PROVE  RcopyTypeOK' /\ RcopyReady' /\ NetworkReady' /\ faults' = faults
<1> USE DEF TypeInv, TypeOK
<1>1. Carries(Taken(Client), Sent) /\ p \in PacketType
  <2>1. Client \in Address
    BY DEF Address
  <2> QED
    BY <2>1, Received DEF process_controls_recv
<1>2. p.from \in Address /\ p.num \in SeqNum
  BY <1>1 DEF PacketType
<1>3. window.size = WindowSize
  BY DEF process_controls_recv, RcopyReady
<1>4. NetworkReady' /\ IsWindow(window', Chunk) /\ window'.size = window.size
  <2>1. CASE handle_rr(p)
    BY <1>1, <1>2, <2>1, WindowRRType DEF handle_rr, NetworkReady, RcopyTypeOK
  <2>2. CASE handle_reject(p)
    <3>1. window.entry[p.num % window.size].data \in Chunk
      BY <1>2, <1>3, SlotData
    <3>2. Carries(inbox', Sent)
      BY <1>1, <1>2, <2>2, <3>1, RcopySends DEF handle_reject, Flag
    <3> QED
      BY <2>2, <3>2 DEF handle_reject, NetworkReady, RcopyTypeOK
  <2>3. CASE inbox' = Taken(Client) /\ UNCHANGED window
    BY <1>1, <2>3 DEF NetworkReady, RcopyTypeOK
  <2> QED
    BY <2>1, <2>2, <2>3 DEF process_controls_recv
<1>5. got_control' \in BOOLEAN
  BY DEF process_controls_recv, RcopyTypeOK
<1>6. RcopyTypeOK'
  BY <1>2, <1>4, <1>5 DEF process_controls_recv, RcopyTypeOK
<1>7. RcopyReady'
  BY <1>4 DEF process_controls_recv, RcopyReady
<1> QED
  BY <1>4, <1>6, <1>7 DEF process_controls_recv

\* wait_on_ack_state.
LEMMA WaitOnAckType ==
    ASSUME TypeInv, wait_on_ack_timeout \/ wait_on_ack_drained
    PROVE  RcopyTypeOK' /\ RcopyReady' /\ NetworkReady' /\ faults' = faults
<1> USE DEF TypeInv, TypeOK
<1>1. state = "WAIT_ON_ACK" /\ window.size = WindowSize
  BY DEF wait_on_ack_timeout, wait_on_ack_drained, RcopyReady
<1>2. /\ UNCHANGED <<server, window, read_pos, file_done, tries, faults>>
      /\ got_control' = FALSE
  BY DEF wait_on_ack_timeout, wait_on_ack_drained
<1>3. CASE /\ to_send_data
           /\ inbox' = inbox
           /\ retry_count' \in {0, retry_count}
  <2>1. retry_count' \in 0 .. RcopyTries /\ retry_count' < RcopyTries
    BY <1>1, <1>3, Bounds DEF RcopyTypeOK, RcopyReady
  <2>2. RcopyTypeOK'
    BY <1>2, <1>3, <2>1 DEF to_send_data, RcopyTypeOK
  <2>3. RcopyReady'
    BY <1>1, <1>2, <1>3, <2>1 DEF to_send_data, RcopyReady
  <2> QED
    BY <1>2, <1>3, <2>2, <2>3 DEF NetworkReady
<1>4. CASE window_unacked(window) # {} /\ not_answered
  <2> DEFINE seq == Min(window_unacked(window))
  <2>0. /\ retry_count' = retry_count + 1
        /\ IF retry_count + 1 >= RcopyTries
           THEN Finish(TRUE) /\ UNCHANGED <<at, inbox>>
           ELSE resend_packet(inbox, seq) /\ at' = "wait" /\ UNCHANGED <<state, had_error>>
    BY <1>4 DEF not_answered
  <2> HIDE DEF seq
  <2>1. retry_count' \in 0 .. RcopyTries
    <3>1. retry_count \in Nat /\ retry_count < RcopyTries /\ RcopyTries \in Nat
      BY <1>1, Bounds DEF RcopyTypeOK, RcopyReady
    <3> QED
      BY <2>0, <3>1
  <2>2. /\ state' \in {"WAIT_ON_ACK", "DONE"} /\ at' \in {"wait", at}
        /\ had_error' \in BOOLEAN
        /\ state' # "DONE" => retry_count' < RcopyTries
    <3>1. retry_count \in Nat /\ RcopyTries \in Nat /\ had_error \in BOOLEAN
      BY Bounds DEF RcopyTypeOK
    <3>2. CASE retry_count + 1 >= RcopyTries
      BY <2>0, <3>1, <3>2 DEF Finish
    <3>3. CASE ~(retry_count + 1 >= RcopyTries)
      <4>1. retry_count' < RcopyTries
        BY <2>0, <3>1, <3>3
      <4> QED
        BY <1>1, <2>0, <3>1, <3>3, <4>1
    <3> QED
      BY <3>2, <3>3
  <2>3. RcopyTypeOK'
    BY <1>2, <2>1, <2>2 DEF RcopyTypeOK
  <2>4. RcopyReady'
    BY <1>1, <1>2, <2>2 DEF RcopyReady
  <2>5. ASSUME resend_packet(inbox, seq) PROVE Carries(inbox', Sent)
    <3>1. seq \in SeqNum
      BY <1>4, UnackedType DEF seq, RcopyTypeOK
    <3>2. window.entry[seq % window.size].data \in Chunk
      BY <1>1, <3>1, SlotData
    <3> QED
      BY <2>5, <3>1, <3>2, RcopySends
      DEF resend_packet, rcopy_sends, NetworkReady, RcopyTypeOK, Flag
  <2>6. NetworkReady'
    BY <2>0, <2>5 DEF NetworkReady
  <2> QED
    BY <1>2, <2>3, <2>4, <2>6
<1> QED
  BY <1>3, <1>4 DEF wait_on_ack_timeout, wait_on_ack_drained, not_answered

\* send_eof_state.
LEMMA EofType ==
    ASSUME TypeInv,
           eof_send \/ eof_timeout \/ \E p \in InFlight(Client) : eof_recv(p)
    PROVE  RcopyTypeOK' /\ RcopyReady' /\ NetworkReady' /\ faults' = faults
<1> USE DEF TypeInv, TypeOK
<1>0. Client \in Address /\ Nil \in Chunk /\ 0 \in SeqNum
  BY PacketAssumption DEF Address, Chunk, SeqNum
<1>1. CASE eof_send
  <2>1. Carries(inbox', Sent)
    BY <1>0, <1>1, RcopySends DEF eof_send, rcopy_sends, NetworkReady, RcopyTypeOK, Flag
  <2>2. RcopyTypeOK'
    BY <1>1 DEF eof_send, RcopyTypeOK
  <2>3. RcopyReady'
    BY <1>1 DEF eof_send, RcopyReady
  <2> QED
    BY <1>1, <2>1, <2>2, <2>3 DEF NetworkReady, eof_send
<1>2. ASSUME eof_try_again \/ (Finish(FALSE) /\ UNCHANGED <<at, tries>>),
             server' \in Address, state = "SEND_EOF",
             UNCHANGED <<window, read_pos, file_done, retry_count, got_control>>
      PROVE  RcopyTypeOK' /\ RcopyReady'
  <2>1. tries' \in 0 .. RcopyTries
    <3>1. tries \in Nat /\ tries < RcopyTries /\ RcopyTries \in Nat
      BY <1>2, Bounds DEF RcopyTypeOK, RcopyReady
    <3>2. tries' \in {tries, tries + 1}
      BY <1>2 DEF eof_try_again
    <3> QED
      BY <3>1, <3>2
  <2>2. /\ state' \in {"SEND_EOF", "DONE"} /\ at' \in {"run", at}
        /\ had_error' \in BOOLEAN
        /\ state' # "DONE" => tries' < RcopyTries
    BY <1>2 DEF eof_try_again, Finish, RcopyTypeOK
  <2>3. RcopyTypeOK'
    BY <1>2, <2>1, <2>2 DEF RcopyTypeOK
  <2>4. RcopyReady'
    BY <1>2, <2>2 DEF RcopyReady
  <2> QED
    BY <2>3, <2>4
<1>3. CASE eof_timeout
  BY <1>2, <1>3 DEF eof_timeout, networkVars, NetworkReady, RcopyTypeOK
<1>4. ASSUME NEW p, eof_recv(p)
      PROVE  RcopyTypeOK' /\ RcopyReady' /\ NetworkReady' /\ faults' = faults
  <2>1. Carries(Taken(Client), Sent) /\ p \in PacketType
    BY <1>0, <1>4, Received DEF eof_recv
  <2>2. server' \in Address /\ p.from \in Address
    BY <1>4, <2>1 DEF eof_recv, PacketType
  <2>3. RcopyTypeOK' /\ RcopyReady'
    BY <1>2, <1>4, <2>2 DEF eof_recv, send_final_done
  <2>4. Carries(inbox', Sent)
    BY <1>0, <1>4, <2>1, <2>2, RcopySends DEF eof_recv, send_final_done, Flag
  <2> QED
    BY <1>4, <2>3, <2>4 DEF eof_recv, NetworkReady
<1> QED
  BY <1>1, <1>3, <1>4

\* Every step of rcopy.
LEMMA RcopyStepType ==
    ASSUME TypeInv, RcopyNext
    PROVE  TypeInv'
<1>1. RcopyStep \/ RcopyTimeout
  BY DEF RcopyNext
<1>2. RcopyTypeOK' /\ RcopyReady' /\ NetworkReady' /\ faults' = faults
  BY <1>1, FilenameType, SendDataType, ProcessControlsType, WaitOnAckType, EofType
  DEF RcopyStep, RcopyTimeout
<1>3. UNCHANGED serverVars
  BY DEF RcopyNext
<1>4. ServerTypeOK'
  BY <1>3 DEF TypeInv, TypeOK, ServerTypeOK, serverVars
<1>5. ServerReady'
  BY <1>3 DEF TypeInv, ServerReady, ChildReady, serverVars
<1>6. NetworkTypeOK'
  BY <1>2, SentType DEF NetworkReady, NetworkTypeOK, TypeInv, TypeOK
<1> QED
  BY <1>2, <1>4, <1>5, <1>6 DEF TypeInv, TypeOK

-----------------------------------------------------------------------------
(* The steps of the server's main process and of its children.             *)

\* The main process: what a child is forked with.
LEMMA MainStepType ==
    ASSUME TypeInv, MainNext
    PROVE  TypeInv'
<1> USE DEF TypeInv, TypeOK
<1>1. PICK p : main_recv(p)
  BY DEF MainNext, MainStep
<1>2. Main \in Address
  BY DEF Address
<1>3. Carries(Taken(Main), Sent) /\ (p.flag = "FILENAME" => p.num = WindowSize)
  BY <1>1, <1>2, Received DEF main_recv
<1>4. NetworkReady' /\ faults' = faults
  BY <1>1, <1>3 DEF main_recv, NetworkReady
<1>5. NetworkTypeOK'
  BY <1>4, SentType DEF NetworkTypeOK, NetworkReady
<1>6. UNCHANGED rcopyVars
  BY DEF MainNext
<1>7. RcopyTypeOK'
  BY <1>6 DEF RcopyTypeOK, rcopyVars
<1>8. RcopyReady'
  BY <1>6 DEF RcopyReady, rcopyVars
<1>9. UNCHANGED <<writing, buffer, offset, child_retry, failed, disk>>
  BY <1>1 DEF main_recv
<1>10. CASE \E c \in Child : fork(c, p) /\ p.num = WindowSize
  <2>1. PICK c \in Child : fork(c, p) /\ p.num = WindowSize
    BY <1>10
  <2>2. /\ child_state' = [child_state EXCEPT ![c] = "FILENAME"]
        /\ asked_size' = [asked_size EXCEPT ![c] = WindowSize]
        /\ child_state[c] = "UNUSED"
    BY <2>1 DEF fork, GoesTo
  <2>3. ServerTypeOK'
    BY <1>9, <2>2 DEF ServerTypeOK
  <2>4. ServerReady'
    BY <1>9, <2>2 DEF ServerTypeOK, ServerReady, ChildReady
  <2> QED
    BY <1>4, <1>5, <1>7, <1>8, <2>3, <2>4
<1>11. CASE UNCHANGED <<child_state, asked_size>>
  <2>1. ServerTypeOK'
    BY <1>9, <1>11 DEF ServerTypeOK
  <2>2. ServerReady'
    BY <1>9, <1>11 DEF ServerReady, ChildReady
  <2> QED
    BY <1>4, <1>5, <1>7, <1>8, <2>1, <2>2
<1> QED
  BY <1>1, <1>3, <1>10, <1>11 DEF main_recv, IsGood, get_flag

\* What a child sends rcopy is a packet that may be sent.
LEMMA ChildSends ==
    ASSUME NEW box, Carries(box, Sent), NEW c \in Child,
           NEW flag \in Flag \ {"FILENAME"}, NEW num \in SeqNum
    PROVE  Carries(Posted(box, Client, <<make_packet(c, flag, num, Nil)>>), Sent)
<1>1. Client \in Address /\ c \in Address /\ Nil \in Chunk
  BY DEF Address, Chunk
<1>2. make_packet(c, flag, num, Nil) \in Sent[Client]
  BY <1>1, PacketMade
<1> QED
  BY <1>1, <1>2, CarriesPostedOne

\* Only the child that acts changes, and it keeps what its state requires.
LEMMA OnlyChild ==
    ASSUME ServerReady, NEW c \in Child, ChildReady(c)',
           \A d \in Child \ {c} :
              /\ child_state'[d] = child_state[d] /\ asked_size'[d] = asked_size[d]
              /\ buffer'[d] = buffer[d] /\ child_retry'[d] = child_retry[d]
              /\ writing'[d] = writing[d]
    PROVE  ServerReady'
BY DEF ServerReady, ChildReady

\* The buffers when that of child c becomes b.
LEMMA BufferChanged ==
    ASSUME ServerTypeOK, NEW c \in Child, NEW b, IsBuffer(b, Chunk),
           b.size \in {0, WindowSize}, buffer' = [buffer EXCEPT ![c] = b]
    PROVE  /\ buffer' = [d \in Child |-> buffer'[d]]
           /\ \A d \in Child : IsBuffer(buffer'[d], Chunk) /\ buffer'[d].size \in {0, WindowSize}
           /\ buffer'[c] = b
           /\ \A d \in Child \ {c} : buffer'[d] = buffer[d]
BY DEF ServerTypeOK

\* filename_state of a child.
LEMMA ChildFilenameType ==
    ASSUME TypeInv, NEW c \in Child, filename_open(c) \/ filename_open_error(c)
    PROVE  ServerTypeOK' /\ ServerReady' /\ NetworkReady' /\ faults' = faults
<1> USE DEF TypeInv, TypeOK
<1>0. 0 \in SeqNum /\ 1 \in SeqNum /\ Nil \in Chunk
  BY PacketAssumption DEF SeqNum, Chunk
<1>1. CASE filename_open(c)
  <2> DEFINE b == buffer_init(WindowSize, FIRST_DATA_SEQ)
  <2>1. IsBuffer(b, Chunk) /\ b.size = WindowSize
    BY <1>0, Bounds, BufferInitType DEF buffer_init
  <2>2. buffer' = [buffer EXCEPT ![c] = b]
    BY <1>1 DEF filename_open, ServerReady, ChildReady
  <2> HIDE DEF b
  <2>3. /\ buffer' = [d \in Child |-> buffer'[d]]
        /\ \A d \in Child : IsBuffer(buffer'[d], Chunk) /\ buffer'[d].size \in {0, WindowSize}
        /\ buffer'[c] = b
        /\ \A d \in Child \ {c} : buffer'[d] = buffer[d]
    BY <2>1, <2>2, BufferChanged
  <2>4. <<>> \in Seq(Place)
    OBVIOUS
  <2>5. ServerTypeOK'
    BY <1>1, <2>3, <2>4 DEF filename_open, GoesTo, ServerTypeOK
  <2>6. ChildReady(c)'
    BY <1>1, <2>1, <2>3 DEF filename_open, GoesTo, ServerTypeOK, ServerReady, ChildReady
  <2>7. ServerReady'
    BY <1>1, <2>3, <2>6, OnlyChild DEF filename_open, GoesTo, ServerTypeOK
  <2>8. NetworkReady'
    BY <1>0, <1>1, ChildSends
    DEF filename_open, child_sends, send_filename_response, NetworkReady, Flag
  <2> QED
    BY <1>1, <2>5, <2>7, <2>8 DEF filename_open
<1>2. CASE filename_open_error(c)
  <2>1. ServerTypeOK'
    BY <1>2 DEF filename_open_error, Fails, GoesTo, ServerTypeOK
  <2>2. ServerReady'
    BY <1>2 DEF filename_open_error, Fails, GoesTo, ServerTypeOK, ServerReady, ChildReady
  <2>3. NetworkReady'
    BY <1>0, <1>2, ChildSends
    DEF filename_open_error, child_sends, send_filename_response, NetworkReady, Flag
  <2> QED
    BY <1>2, <2>1, <2>2, <2>3 DEF filename_open_error
<1> QED
  BY <1>1, <1>2

\* recv_data_state: what is received, and what is done with it.
LEMMA RecvDataType ==
    ASSUME TypeInv, NEW c \in Child, NEW p,
           recv_data(c, p) \/ recv_eof(c, p) \/ recv_data_ignore(c, p)
    PROVE  ServerTypeOK' /\ ServerReady' /\ NetworkReady' /\ faults' = faults
<1> USE DEF TypeInv, TypeOK
<1>0. 0 \in SeqNum /\ c \in Address
  BY PacketAssumption DEF SeqNum, Address
<1>1. may_receive(c, p, "RECV_DATA")
  BY DEF recv_data, recv_eof, recv_data_ignore
<1>2. child_state[c] = "RECV_DATA" /\ ~writing[c]
  BY <1>1 DEF may_receive
<1>3. Carries(Taken(c), Sent) /\ p.num \in SeqNum /\ p.data \in Chunk
  BY <1>0, <1>1, Received DEF may_receive, PacketType
<1>4. IsBuffer(buffer[c], Chunk) /\ buffer[c].size = WindowSize
  BY <1>2 DEF ServerTypeOK, ServerReady, ChildReady
<1>5. CASE recv_data(c, p)
  <2> DEFINE saved == buffer_save(buffer[c], p.num, p.data)
  <2>1. IsBuffer(saved, Chunk) /\ saved.size = WindowSize
    BY <1>3, <1>4, BufferSaveType
  <2> HIDE DEF saved
  <2>2. /\ buffer[c].expected \in SeqNum /\ saved.expected \in SeqNum
    BY <1>4, <2>1 DEF IsBuffer
  <2>3. PICK b : /\ IsBuffer(b, Chunk) /\ b.size = WindowSize
                 /\ buffer' = [buffer EXCEPT ![c] = b]
    <3>1. CASE data_outside(c, p)
      <4>1. buffer' = [buffer EXCEPT ![c] = buffer[c]]
        BY <3>1 DEF data_outside, ServerTypeOK
      <4> QED
        BY <1>4, <4>1
    <3>2. CASE data_expected(c, p)
      <4> DEFINE b == buffer_clear_reject(saved, p.num)
      <4>1. IsBuffer(b, Chunk) /\ b.size = WindowSize
        BY <2>1, BufferClearRejectType
      <4>2. buffer' = [buffer EXCEPT ![c] = b]
        BY <3>2 DEF data_expected, saved
      <4> HIDE DEF b
      <4> QED
        BY <4>1, <4>2
    <3>3. CASE data_later(c, p)
      <4> DEFINE b == buffer_rejected(saved)
      <4>1. IsBuffer(b, Chunk) /\ b.size = WindowSize
        BY <2>1, BufferRejectedType
      <4>2. buffer' = [buffer EXCEPT ![c] = b] \/ buffer' = [buffer EXCEPT ![c] = saved]
        BY <3>3 DEF data_later, saved
      <4> HIDE DEF b
      <4> QED
        BY <2>1, <4>1, <4>2
    <3> QED
      BY <1>5, <3>1, <3>2, <3>3 DEF recv_data
  <2>4. /\ buffer' = [d \in Child |-> buffer'[d]]
        /\ \A d \in Child : IsBuffer(buffer'[d], Chunk) /\ buffer'[d].size \in {0, WindowSize}
        /\ buffer'[c] = b
        /\ \A d \in Child \ {c} : buffer'[d] = buffer[d]
    BY <2>3, BufferChanged
  <2>5. writing' \in {writing, [writing EXCEPT ![c] = TRUE]}
    BY <1>5 DEF recv_data, data_outside, data_expected, data_later
  <2>6. UNCHANGED <<child_state, asked_size, offset, child_retry, failed, disk, faults>>
    BY <1>5 DEF recv_data
  <2>7. ServerTypeOK'
    BY <2>4, <2>5, <2>6 DEF ServerTypeOK
  <2>8. ChildReady(c)'
    BY <1>2, <2>3, <2>4, <2>6 DEF ServerReady, ChildReady
  <2>9. ServerReady'
    BY <2>4, <2>5, <2>6, <2>8, OnlyChild DEF ServerTypeOK
  <2>10. NetworkReady'
    <3>1. CASE data_outside(c, p)
      BY <1>3, <2>2, <3>1, ChildSends
      DEF data_outside, child_sends, send_rr, buffer_expected, NetworkReady, Flag
    <3>2. CASE data_expected(c, p)
      BY <1>3, <3>2 DEF data_expected, NetworkReady
    <3>3. CASE data_later(c, p)
      BY <1>3, <2>2, <3>3, ChildSends
      DEF data_later, saved, child_sends, send_reject, buffer_expected, NetworkReady, Flag
    <3> QED
      BY <1>5, <3>1, <3>2, <3>3 DEF recv_data
  <2> QED
    BY <2>6, <2>7, <2>9, <2>10
<1>6. CASE recv_eof(c, p)
  <2>1. ServerTypeOK'
    <3>1. 0 \in 0 .. ServerTries
      BY Bounds
    <3>2. child_retry' \in [Child -> 0 .. ServerTries]
      BY <1>6, <3>1 DEF recv_eof, ServerTypeOK
    <3> QED
      BY <1>6, <3>2 DEF recv_eof, GoesTo, ServerTypeOK
  <2>2. ChildReady(c)'
    <3>1. child_retry'[c] < ServerTries
      BY <1>6, Bounds DEF recv_eof, ServerTypeOK
    <3>2. child_state'[c] = "WAIT_ON_DONE" /\ writing'[c] = writing[c]
      BY <1>6 DEF recv_eof, GoesTo, ServerTypeOK
    <3> QED
      BY <1>2, <3>1, <3>2 DEF ChildReady
  <2>3. ServerReady'
    BY <1>6, <2>2, OnlyChild DEF recv_eof, GoesTo, ServerTypeOK
  <2>4. NetworkReady'
    BY <1>0, <1>3, <1>6, ChildSends DEF recv_eof, child_sends, send_eof_ack, NetworkReady, Flag
  <2> QED
    BY <1>6, <2>1, <2>3, <2>4 DEF recv_eof
<1>7. CASE recv_data_ignore(c, p)
  BY <1>3, <1>7
  DEF recv_data_ignore, serverVars, ServerTypeOK, ServerReady, ChildReady, NetworkReady
<1> QED
  BY <1>5, <1>6, <1>7

\* The time-out of recv_data_state.
LEMMA RecvDataTimeoutType ==
    ASSUME TypeInv, NEW c \in Child, recv_data_timeout(c)
    PROVE  ServerTypeOK' /\ ServerReady' /\ NetworkReady' /\ faults' = faults
<1> USE DEF TypeInv, TypeOK
<1>1. ServerTypeOK'
  BY DEF recv_data_timeout, Fails, GoesTo, ServerTypeOK
<1>2. ServerReady'
  BY DEF recv_data_timeout, Fails, GoesTo, ServerTypeOK, ServerReady, ChildReady
<1> QED
  BY <1>1, <1>2 DEF recv_data_timeout, networkVars, NetworkReady

\* What a write stores: a chunk, its first half, or nothing.
LEMMA HalvesType ==
    ASSUME NEW chunk \in Chunk
    PROVE  /\ halves(chunk) \in Seq(Place) /\ Len(halves(chunk)) = 2
           /\ << halves(chunk)[1] >> \in Seq(Place) /\ <<>> \in Seq(Place)
<1>1. <<chunk, 1>> \in Place /\ <<chunk, 2>> \in Place
  BY DEF Place
<1> DEFINE first == <<chunk, 1>>
           second == <<chunk, 2>>
<1>2. halves(chunk) = <<first, second>>
  BY DEF halves
<1> HIDE DEF first, second
<1>3. first \in Place /\ second \in Place
  BY <1>1 DEF first, second
<1> QED
  BY <1>2, <1>3

\* The output file stays a sequence of places.
LEMMA WriteAtType ==
    ASSUME disk \in Seq(Place), NEW pos \in Nat, NEW data \in Seq(Place)
    PROVE  WriteAt(pos, data) \in Seq(Place)
<1> DEFINE n == Max({Len(disk), pos + Len(data)})
<1>1. n \in {Len(disk), pos + Len(data)} /\ n >= Len(disk) /\ n >= pos + Len(data)
  <2>1. \E m \in {Len(disk), pos + Len(data)} : \A k \in {Len(disk), pos + Len(data)} : m >= k
    OBVIOUS
  <2> QED
    BY <2>1 DEF Max
<1>2. n \in Nat
  BY <1>1
<1> HIDE DEF n
<1>3. ASSUME NEW i \in 1 .. n
      PROVE  (IF i \in pos + 1 .. pos + Len(data) THEN data[i - pos]
              ELSE IF i <= Len(disk) THEN disk[i] ELSE Nil) \in Place
  <2>1. i <= Len(disk) => disk[i] \in Place
    BY <1>2
  <2>2. i \in pos + 1 .. pos + Len(data) => data[i - pos] \in Place
    BY <1>2
  <2> QED
    BY <2>1, <2>2 DEF Place
<1>4. data # <<>> => WriteAt(pos, data) \in [1 .. n -> Place]
  BY <1>3 DEF WriteAt, n
<1>5. CASE data = <<>>
  BY <1>5 DEF WriteAt
<1>6. CASE data # <<>>
  BY <1>2, <1>4, <1>6, IsASeq
<1> QED
  BY <1>5, <1>6

\* buffer_write_ready, and what handle_data_packet does after it.
LEMMA WriteType ==
    ASSUME TypeInv, NEW c \in Child,
           write_ready(c) \/ write_short(c) \/ write_error(c) \/ write_done(c)
    PROVE  ServerTypeOK' /\ ServerReady' /\ NetworkReady' /\ faults' = faults
<1> USE DEF TypeInv, TypeOK
<1>1. IsBuffer(buffer[c], Chunk) /\ buffer[c].size = WindowSize /\ offset[c] \in Nat
  BY DEF write_ready, write_short, write_error, write_done, writes, may_write,
         ServerTypeOK, ServerReady, ChildReady
<1>2. ASSUME NEW data \in Seq(Place), writes(c, data)
      PROVE  ServerTypeOK' /\ ServerReady' /\ NetworkReady' /\ faults' = faults
  <2> DEFINE b == buffer_wrote(buffer[c])
  <2>1. IsBuffer(b, Chunk) /\ b.size = WindowSize
    BY <1>1, BufferWroteType
  <2>2. buffer' = [buffer EXCEPT ![c] = b]
    BY <1>2 DEF writes
  <2> HIDE DEF b
  <2>3. /\ buffer' = [d \in Child |-> buffer'[d]]
        /\ \A d \in Child : IsBuffer(buffer'[d], Chunk) /\ buffer'[d].size \in {0, WindowSize}
        /\ buffer'[c] = b
        /\ \A d \in Child \ {c} : buffer'[d] = buffer[d]
    BY <2>1, <2>2, BufferChanged
  <2>4. disk' \in Seq(Place)
    BY <1>1, <1>2, WriteAtType DEF writes, ServerTypeOK
  <2>5. offset' \in [Child -> Nat]
    BY <1>1, <1>2, LenProperties DEF writes, ServerTypeOK
  <2>6. UNCHANGED <<child_state, asked_size, writing, child_retry, failed, inbox, faults>>
    BY <1>2 DEF writes, networkVars
  <2>7. ServerTypeOK'
    BY <2>3, <2>4, <2>5, <2>6 DEF ServerTypeOK
  <2>8. ServerReady'
    BY <2>1, <2>3, <2>6 DEF ServerReady, ChildReady
  <2> QED
    BY <2>6, <2>7, <2>8 DEF NetworkReady
<1> DEFINE chunk == buffer_ready(buffer[c])
<1>3. /\ halves(chunk) \in Seq(Place)
      /\ << halves(chunk)[1] >> \in Seq(Place) /\ <<>> \in Seq(Place)
  <2>1. buffer[c].expected \in Nat
    BY <1>1, PacketAssumption DEF IsBuffer, SeqNum
  <2>2. buffer[c].expected % buffer[c].size \in 0 .. buffer[c].size - 1
    BY <1>1, <2>1, Bounds
  <2>3. chunk \in Chunk
    BY <1>1, <2>2 DEF buffer_ready, IsBuffer
  <2> HIDE DEF chunk
  <2> QED
    BY <2>3, HalvesType
<1>4. CASE write_ready(c) \/ write_short(c)
  BY <1>2, <1>3, <1>4 DEF write_ready, write_short
<1>5. CASE write_error(c)
  <2>1. ServerTypeOK'
    BY <1>5 DEF write_error, Fails, GoesTo, ServerTypeOK
  <2>2. ServerReady'
    BY <1>5 DEF write_error, Fails, GoesTo, ServerTypeOK, ServerReady, ChildReady
  <2> QED
    BY <1>5, <2>1, <2>2 DEF write_error, networkVars, NetworkReady
<1>6. CASE write_done(c)
  <2> DEFINE b == buffer_rejected(buffer[c])
  <2>1. IsBuffer(b, Chunk) /\ b.size = WindowSize
    BY <1>1, BufferRejectedType
  <2>2. buffer' = [buffer EXCEPT ![c] = b] \/ buffer' = [buffer EXCEPT ![c] = buffer[c]]
    BY <1>6 DEF write_done, ServerTypeOK
  <2> HIDE DEF b
  <2>3. /\ buffer' = [d \in Child |-> buffer'[d]]
        /\ \A d \in Child : IsBuffer(buffer'[d], Chunk) /\ buffer'[d].size \in {0, WindowSize}
        /\ buffer'[c].size = WindowSize
        /\ \A d \in Child \ {c} : buffer'[d] = buffer[d]
    <3>1. CASE buffer' = [buffer EXCEPT ![c] = b]
      BY <2>1, <3>1, BufferChanged
    <3>2. CASE buffer' = [buffer EXCEPT ![c] = buffer[c]]
      BY <1>1, <3>2, BufferChanged
    <3> QED
      BY <2>2, <3>1, <3>2
  <2>4. /\ writing' = [writing EXCEPT ![c] = FALSE]
        /\ UNCHANGED <<child_state, asked_size, offset, child_retry, failed, disk, faults>>
    BY <1>6 DEF write_done
  <2>5. ServerTypeOK'
    BY <2>3, <2>4 DEF ServerTypeOK
  <2>6. ServerReady'
    BY <2>3, <2>4 DEF ServerTypeOK, ServerReady, ChildReady
  <2>7. buffer[c].expected \in SeqNum
    BY <1>1 DEF IsBuffer
  <2> DEFINE rr == send_rr(c, buffer[c])
             srej == send_reject(c, buffer[c])
  <2>8. Carries(Posted(inbox, Client, <<rr>>), Sent)
    BY <2>7, ChildSends DEF send_rr, buffer_expected, NetworkReady, Flag
  <2>9. Carries(Posted(Posted(inbox, Client, <<rr>>), Client, <<srej>>), Sent)
    BY <2>7, <2>8, ChildSends DEF send_reject, buffer_expected, Flag
  <2> HIDE DEF rr, srej
  <2>10. Posted(Posted(inbox, Client, <<rr>>), Client, <<srej>>) = Posted(inbox, Client, <<rr, srej>>)
    <3>1. Client \in Address /\ c \in Address /\ Nil \in Chunk
      BY DEF Address, Chunk
    <3>2. rr \in Sent[Client] /\ srej \in Sent[Client]
      BY <2>7, <3>1, PacketMade DEF rr, srej, send_rr, send_reject, buffer_expected, Flag
    <3> QED
      BY <3>1, <3>2, PostedTwice DEF NetworkReady
  <2>11. NetworkReady'
    BY <1>6, <2>8, <2>9, <2>10 DEF write_done, child_sends, rr, srej, NetworkReady
  <2> QED
    BY <2>4, <2>5, <2>6, <2>11
<1> QED
  BY <1>3, <1>4, <1>5, <1>6

\* wait_on_done_state.
LEMMA WaitOnDoneType ==
    ASSUME TypeInv, NEW c \in Child,
           \/ wait_on_done_timeout(c)
           \/ \E p : recv_done(c, p) \/ recv_eof_again(c, p) \/ wait_on_done_ignore(c, p)
    PROVE  ServerTypeOK' /\ ServerReady' /\ NetworkReady' /\ faults' = faults
<1> USE DEF TypeInv, TypeOK
<1>0. 0 \in SeqNum /\ c \in Address
  BY PacketAssumption DEF SeqNum, Address
<1>1. CASE wait_on_done_timeout(c)
  <2>1. child_retry[c] \in Nat /\ child_retry[c] < ServerTries /\ ServerTries \in Nat
    BY <1>1, Bounds DEF wait_on_done_timeout, ServerTypeOK, ServerReady, ChildReady
  <2>2. child_retry[c] + 1 \in 0 .. ServerTries
    BY <2>1
  <2>3. child_retry' \in [Child -> 0 .. ServerTries]
    BY <1>1, <2>2 DEF wait_on_done_timeout, ServerTypeOK
  <2>4. ServerTypeOK'
    BY <1>1, <2>3 DEF wait_on_done_timeout, Fails, GoesTo, ServerTypeOK
  <2>5. child_state'[c] # "DONE" => child_retry'[c] < ServerTries
    BY <1>1, <2>1 DEF wait_on_done_timeout, Fails, GoesTo, ServerTypeOK
  <2>6. /\ child_state'[c] \in {"WAIT_ON_DONE", "DONE"}
        /\ writing'[c] = writing[c] /\ ~writing[c]
    BY <1>1 DEF wait_on_done_timeout, Fails, GoesTo, ServerTypeOK, ServerReady, ChildReady
  <2>7. ChildReady(c)'
    BY <2>5, <2>6 DEF ChildReady
  <2>8. ServerReady'
    BY <1>1, <2>7, OnlyChild DEF wait_on_done_timeout, Fails, GoesTo, ServerTypeOK
  <2>9. NetworkReady'
    BY <1>0, <1>1, ChildSends
    DEF wait_on_done_timeout, child_sends, send_eof_ack, NetworkReady, Flag
  <2> QED
    BY <1>1, <2>4, <2>8, <2>9 DEF wait_on_done_timeout
<1>2. ASSUME NEW p, recv_done(c, p) \/ recv_eof_again(c, p) \/ wait_on_done_ignore(c, p)
      PROVE  ServerTypeOK' /\ ServerReady' /\ NetworkReady' /\ faults' = faults
  <2>1. may_receive(c, p, "WAIT_ON_DONE")
    BY <1>2 DEF recv_done, recv_eof_again, wait_on_done_ignore
  <2>2. Carries(Taken(c), Sent)
    BY <1>0, <2>1, Received DEF may_receive
  <2>3. CASE recv_done(c, p)
    <3>1. ServerTypeOK'
      BY <2>3 DEF recv_done, GoesTo, ServerTypeOK
    <3>2. ServerReady'
      BY <2>1, <2>3 DEF recv_done, may_receive, GoesTo, ServerTypeOK, ServerReady, ChildReady
    <3> QED
      BY <2>2, <2>3, <3>1, <3>2 DEF recv_done, NetworkReady
  <2>4. CASE recv_eof_again(c, p) \/ wait_on_done_ignore(c, p)
    <3>1. UNCHANGED <<child_state, asked_size, writing, buffer, offset, child_retry,
                      failed, disk, faults>>
      BY <2>4 DEF recv_eof_again, wait_on_done_ignore, serverVars
    <3>2. ServerTypeOK'
      BY <3>1 DEF ServerTypeOK
    <3>3. ServerReady'
      BY <3>1 DEF ServerReady, ChildReady
    <3>4. NetworkReady'
      BY <1>0, <2>2, <2>4, ChildSends
      DEF recv_eof_again, wait_on_done_ignore, child_sends, send_eof_ack, NetworkReady, Flag
    <3> QED
      BY <3>1, <3>2, <3>3, <3>4
  <2> QED
    BY <1>2, <2>3, <2>4
<1> QED
  BY <1>1, <1>2

\* Every step of a child.
LEMMA ChildStepType ==
    ASSUME TypeInv, NEW c \in Child, ChildNext(c)
    PROVE  TypeInv'
<1>1. ServerTypeOK' /\ ServerReady' /\ NetworkReady' /\ faults' = faults
  BY ChildFilenameType, RecvDataType, RecvDataTimeoutType, WriteType, WaitOnDoneType
  DEF ChildNext, ChildStep
<1>2. UNCHANGED rcopyVars
  BY DEF ChildNext
<1>3. RcopyTypeOK'
  BY <1>2 DEF TypeInv, TypeOK, RcopyTypeOK, rcopyVars
<1>4. RcopyReady'
  BY <1>2 DEF TypeInv, RcopyReady, rcopyVars
<1>5. NetworkTypeOK'
  BY <1>1, SentType DEF NetworkReady, NetworkTypeOK, TypeInv, TypeOK
<1> QED
  BY <1>1, <1>3, <1>4, <1>5 DEF TypeInv, TypeOK

-----------------------------------------------------------------------------
(* The faults, and the theorem.                                            *)

LEMMA FaultStepType ==
    ASSUME TypeInv, FaultNext
    PROVE  TypeInv'
<1> USE DEF TypeInv, TypeOK
<1>1. ASSUME NEW a \in Address, NEW p \in Sent[a] PROVE Damaged(p) \in Sent[a]
  <2>1. Damaged(p) \in PacketType
    BY <1>1 DEF Sent, Damaged, PacketType, Chunk
  <2>2. Damaged(p).flag = p.flag /\ Damaged(p).num = p.num
    BY <1>1 DEF Sent, Damaged, PacketType
  <2> QED
    BY <1>1, <2>1, <2>2 DEF Sent
<1>2. NetworkReady'
  BY <1>1, CarriesFault DEF FaultNext, NetworkReady
<1>3. faults' \in 0 .. MaxFaults
  <2>1. faults < MaxFaults /\ faults' = faults + 1
    BY DEF FaultNext, NetworkNext, LosePacket, DamagePacket, DuplicatePacket, DelayPacket, MayFail
  <2> QED
    BY <2>1, Bounds DEF NetworkTypeOK
<1>4. NetworkTypeOK'
  BY <1>2, <1>3, SentType DEF NetworkReady, NetworkTypeOK
<1>5. UNCHANGED rcopyVars /\ UNCHANGED serverVars
  BY DEF FaultNext
<1>6. RcopyTypeOK' /\ RcopyReady'
  BY <1>5 DEF RcopyTypeOK, RcopyReady, rcopyVars
<1>7. ServerTypeOK' /\ ServerReady'
  BY <1>5 DEF ServerTypeOK, ServerReady, ChildReady, serverVars
<1> QED
  BY <1>2, <1>4, <1>6, <1>7

LEMMA TypeStep == TypeInv /\ [Next]_vars => TypeInv'
<1> SUFFICES ASSUME TypeInv, [Next]_vars PROVE TypeInv'
  OBVIOUS
<1>1. CASE RcopyNext
  BY <1>1, RcopyStepType
<1>2. CASE MainNext
  BY <1>2, MainStepType
<1>3. CASE \E c \in Child : ChildNext(c)
  BY <1>3, ChildStepType
<1>4. CASE FaultNext
  BY <1>4, FaultStepType
<1>5. CASE UNCHANGED vars
  <2>1. UNCHANGED rcopyVars /\ UNCHANGED serverVars /\ UNCHANGED networkVars
    BY <1>5 DEF vars
  <2>2. RcopyTypeOK' /\ RcopyReady'
    BY <2>1 DEF TypeInv, TypeOK, RcopyTypeOK, RcopyReady, rcopyVars
  <2>3. ServerTypeOK' /\ ServerReady'
    BY <2>1 DEF TypeInv, TypeOK, ServerTypeOK, ServerReady, ChildReady, serverVars
  <2>4. NetworkTypeOK' /\ NetworkReady'
    BY <2>1 DEF TypeInv, TypeOK, NetworkTypeOK, NetworkReady, networkVars
  <2> QED
    BY <2>2, <2>3, <2>4 DEF TypeInv, TypeOK
<1> QED
  BY <1>1, <1>2, <1>3, <1>4, <1>5 DEF Next, Finished

\* Whatever the file, the window, the network and the time-outs do, every
\* variable keeps its type: sequence numbers stay 32-bit numbers, the try counters
\* of rcopy and of the children stay at or below MAX_TRIES, and the arrays keep
\* the size the FILENAME packet announced.
THEOREM TypeCorrect == Spec => []TypeOK
<1>1. Init => TypeInv
  BY TypeInit
<1>2. TypeInv /\ [Next]_vars => TypeInv'
  BY TypeStep
<1>3. TypeInv => TypeOK
  BY DEF TypeInv
<1> QED
  BY <1>1, <1>2, <1>3, PTL DEF Spec
=============================================================================

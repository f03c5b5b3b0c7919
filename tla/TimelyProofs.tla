---------------------------- MODULE TimelyProofs ----------------------------
(***************************************************************************)
(* Theorems about Transfer for a network and processes that are faster     *)
(* than the timers (Timely): what the number of faults has to do with the  *)
(* number of children that are forked and with the errors rcopy reports.   *)
(***************************************************************************)
EXTENDS CopyProofs, FiniteSetTheorems

-----------------------------------------------------------------------------
(* Who sends to whom: rcopy is only sent packets by children, and sends to *)
(* the main process only until a child has answered it.                    *)

From(s, C) == \A i \in 1 .. Len(s) : s[i].from \in C

RoutesInv ==
    /\ From(inbox[Client], Child)
    /\ server \in {Main} \cup Child
    /\ state \in {"SEND_DATA", "WAIT_ON_ACK", "SEND_EOF"} => server \in Child

LEMMA Addresses ==
    /\ Client \in Address /\ Main \in Address /\ Child \subseteq Address
    /\ Client # Main /\ Client \notin Child /\ Main \notin Child
BY PacketAssumption DEF Address

\* Every queue is a sequence of packets.
LEMMA Queues ==
    ASSUME TypeInv
    PROVE  /\ inbox = [a \in Address |-> inbox[a]]
           /\ \A a \in Address : inbox[a] \in Seq(PacketType)
BY DEF TypeInv, TypeOK, NetworkTypeOK

\* Receiving.
LEMMA FromTaken ==
    ASSUME NEW S, NEW s \in Seq(S), s # <<>>, NEW C, From(s, C)
    PROVE  From(Tail(s), C) /\ Head(s).from \in C
<1>1. Head(s) = s[1] /\ 1 \in 1 .. Len(s)
  BY HeadTailProperties, EmptySeq
<1>2. /\ Len(Tail(s)) = Len(s) - 1 /\ Len(s) \in Nat
      /\ \A i \in 1 .. Len(Tail(s)) : Tail(s)[i] = s[i + 1]
  BY HeadTailProperties
<1>3. \A i \in 1 .. Len(Tail(s)) : i + 1 \in 1 .. Len(s)
  BY <1>2
<1> QED
  BY <1>1, <1>2, <1>3 DEF From

\* A child sending one packet, or two.
LEMMA FromSent ==
    ASSUME NEW s \in Seq(PacketType), NEW C, From(s, C), NEW p, NEW q,
           p.from \in C, q.from \in C, NEW ps \in {<<p>>, <<p, q>>}
    PROVE  From(s \o ps, C) /\ s \o ps # <<>>
<1> DEFINE U == PacketType \cup {p, q}
           S == {r \in U : r.from \in C}
<1>1. s \in Seq(S)
  <2>1. \A i \in 1 .. Len(s) : s[i] \in S
    BY ElementOfSeq DEF From
  <2> HIDE DEF S
  <2> QED
    BY <2>1, IsASeq, SeqDef
<1>2. p \in S /\ q \in S
  OBVIOUS
<1> HIDE DEF S
<1>3. ps \in Seq(S) /\ Len(ps) > 0
  <2>1. <<p>> \in Seq(S) /\ <<p, q>> \in Seq(S)
    BY <1>2
  <2>2. Len(<<p>>) > 0 /\ Len(<<p, q>>) > 0
    OBVIOUS
  <2>3. CASE ps = <<p>>
    BY <2>1, <2>2, <2>3
  <2>4. CASE ps = <<p, q>>
    BY <2>1, <2>2, <2>4
  <2> QED
    BY <2>3, <2>4
<1>4. s \o ps \in Seq(S) /\ Len(s \o ps) = Len(s) + Len(ps)
  BY <1>1, <1>3, ConcatProperties
<1>5. \A i \in 1 .. Len(s \o ps) : (s \o ps)[i] \in S
  BY <1>4, ElementOfSeq
<1>6. From(s \o ps, C)
  BY <1>5 DEF From, S
<1>7. s \o ps # <<>>
  BY <1>1, <1>3, <1>4, LenProperties, EmptySeq
<1> QED
  BY <1>6, <1>7

\* A packet that rcopy receives comes from a child.
LEMMA ComesFromChild ==
    ASSUME TypeInv, RoutesInv, NEW p, Arrives(Client, p)
    PROVE  p.from \in Child /\ From(Taken(Client)[Client], Child)
<1>1. /\ inbox[Client] \in Seq(PacketType) /\ inbox = [a \in Address |-> inbox[a]]
      /\ Client \in Address
  BY Queues, Addresses
<1>2. From(Tail(inbox[Client]), Child) /\ Head(inbox[Client]).from \in Child
  BY <1>1, FromTaken DEF Arrives, RoutesInv
<1>3. Taken(Client)[Client] = Tail(inbox[Client])
  BY <1>1 DEF Taken
<1> QED
  BY <1>2, <1>3 DEF Arrives

LEMMA RoutesInit == Init => RoutesInv
BY DEF Init, RcopyInit, NetworkInit, RoutesInv, From, Address

-----------------------------------------------------------------------------
(* The steps of rcopy.                                                     *)

\* Whom rcopy sends to, and what is left in the queues of rcopy and the main
\* process.
LEMMA RcopyRoutes ==
    ASSUME TypeInv, RoutesInv, RcopyNext
    PROVE  /\ server' \in {Main} \cup Child
           /\ state' \in {"SEND_DATA", "WAIT_ON_ACK", "SEND_EOF"} => server' \in Child
           /\ \/ /\ filename_send /\ server = Main
                 /\ inbox'[Client] = inbox[Client]
                 /\ \E p : inbox'[Main] = inbox[Main] \o <<p>>
              \/ /\ inbox'[Main] = inbox[Main]
                 /\ \/ inbox'[Client] = inbox[Client]
                    \/ inbox'[Client] = Taken(Client)[Client] /\ server' \in Child
                       /\ \E p : Arrives(Client, p)
           /\ state' = "FILENAME" =>
                 state = "FILENAME" /\ (filename_send \/ filename_timeout \/ server' \in Child)
           /\ faults' = faults
<1> DEFINE Quietly ==
             /\ inbox'[Main] = inbox[Main]
             /\ \/ inbox'[Client] = inbox[Client]
                \/ inbox'[Client] = Taken(Client)[Client] /\ server' \in Child
                   /\ \E p : Arrives(Client, p)
           Asks == /\ filename_send /\ server = Main
                   /\ inbox'[Client] = inbox[Client]
                   /\ \E p : inbox'[Main] = inbox[Main] \o <<p>>
           Goal ==
             /\ server' \in {Main} \cup Child
             /\ state' \in {"SEND_DATA", "WAIT_ON_ACK", "SEND_EOF"} => server' \in Child
             /\ Asks \/ Quietly
             /\ state' = "FILENAME" =>
                   state = "FILENAME" /\ (filename_send \/ filename_timeout \/ server' \in Child)
             /\ faults' = faults
<1>1. /\ inbox = [a \in Address |-> inbox[a]]
      /\ Taken(Client) = [a \in Address |-> Taken(Client)[a]]
      /\ Taken(Client)[Main] = inbox[Main]
  BY Queues, Addresses DEF Taken
<1>2. ASSUME NEW box \in {inbox, Taken(Client)}, NEW to \in Child,
             inbox' = box \/ \E q : inbox' = Posted(box, to, <<q>>)
      PROVE  inbox'[Main] = inbox[Main] /\ inbox'[Client] = box[Client]
  <2>1. box = [a \in Address |-> box[a]] /\ box[Main] = inbox[Main]
    BY <1>1
  <2>2. CASE inbox' = box
    BY <2>1, <2>2
  <2>3. CASE \E q : inbox' = Posted(box, to, <<q>>)
    <3>1. PICK q : inbox' = Posted(box, to, <<q>>)
      BY <2>3
    <3> QED
      BY <2>1, <3>1, Addresses DEF Posted
  <2> QED
    BY <1>2, <2>2, <2>3
<1>3. ASSUME NEW p, Arrives(Client, p) PROVE p.from \in Child
  BY <1>3, ComesFromChild
<1>4. server \in {Main} \cup Child
      /\ (state \in {"SEND_DATA", "WAIT_ON_ACK", "SEND_EOF"} => server \in Child)
  BY DEF RoutesInv
<1>5. CASE filename_send
  <2>1. inbox' = Posted(inbox, server, <<make_packet(Client, "FILENAME", WindowSize, Nil)>>)
    BY <1>5 DEF filename_send, rcopy_sends
  <2>2. state = "FILENAME" /\ state' = "FILENAME" /\ server' = server /\ faults' = faults
    BY <1>5 DEF filename_send
  <2>3. CASE server = Main
    <3>1. Asks
      BY <1>1, <1>5, <2>1, <2>3, Addresses DEF Posted
    <3> QED
      BY <1>4, <1>5, <2>2, <3>1
  <2>4. CASE server \in Child
    <3>1. inbox'[Main] = inbox[Main] /\ inbox'[Client] = inbox[Client]
      BY <1>2, <2>1, <2>4
    <3> QED
      BY <1>5, <2>2, <2>4, <3>1
  <2> QED
    BY <1>4, <2>3, <2>4
<1>6. CASE filename_timeout
  BY <1>4, <1>6 DEF filename_timeout, filename_try_again, Finish
<1>7. ASSUME NEW p, filename_recv(p) PROVE Goal
  <2>1. server' \in Child
    BY <1>3, <1>7 DEF filename_recv
  <2>2. state = "FILENAME" /\ Arrives(Client, p) /\ inbox' = Taken(Client) /\ faults' = faults
    BY <1>7 DEF filename_recv, filename_response, filename_try_again
  <2> QED
    BY <1>1, <2>1, <2>2
<1>8. CASE send_data
  <2>1. server \in Child /\ server' = server /\ state' # "FILENAME" /\ faults' = faults
    BY <1>4, <1>8 DEF send_data
  <2>2. \E q : inbox' = Posted(inbox, server, <<q>>)
    BY <1>8 DEF send_data, rcopy_sends
  <2>3. inbox'[Main] = inbox[Main] /\ inbox'[Client] = inbox[Client]
    BY <1>2, <2>1, <2>2
  <2> QED
    BY <2>1, <2>3
<1>9. CASE \/ send_data_end_of_file \/ send_data_read_error \/ send_data_leave
           \/ send_data_drained \/ eof_timeout
  <2>1. /\ state \in {"SEND_DATA", "SEND_EOF"} /\ state' # "FILENAME"
        /\ server' = server /\ inbox' = inbox /\ faults' = faults
    BY <1>9 DEF send_data_end_of_file, send_data_read_error, send_data_leave,
                send_data_drained, eof_timeout, eof_try_again, after_sending, Finish, networkVars
  <2> QED
    BY <1>4, <2>1
<1>10. ASSUME NEW p, process_controls_recv(p) PROVE Goal
  <2>1. server' = p.from /\ p.from \in Child /\ Arrives(Client, p)
        /\ state' # "FILENAME" /\ faults' = faults
    BY <1>3, <1>10 DEF process_controls_recv
  <2>2. inbox' = Taken(Client) \/ \E q : inbox' = Posted(Taken(Client), p.from, <<q>>)
    BY <1>10 DEF process_controls_recv, handle_rr, handle_reject
  <2>3. inbox'[Main] = inbox[Main] /\ inbox'[Client] = Taken(Client)[Client]
    BY <1>2, <2>1, <2>2
  <2> QED
    BY <2>1, <2>3
<1>11. CASE wait_on_ack_timeout \/ wait_on_ack_drained
  <2>1. server \in Child /\ server' = server /\ state' # "FILENAME" /\ faults' = faults
    BY <1>4, <1>11
    DEF wait_on_ack_timeout, wait_on_ack_drained, not_answered, to_send_data, Finish
  <2>2. inbox' = inbox \/ \E q : inbox' = Posted(inbox, server, <<q>>)
    BY <1>11
    DEF wait_on_ack_timeout, wait_on_ack_drained, not_answered, resend_packet, rcopy_sends
  <2>3. inbox'[Main] = inbox[Main] /\ inbox'[Client] = inbox[Client]
    BY <1>2, <2>1, <2>2
  <2> QED
    BY <2>1, <2>3
<1>12. CASE eof_send
  <2>1. server \in Child /\ server' = server /\ state' # "FILENAME" /\ faults' = faults
    BY <1>4, <1>12 DEF eof_send
  <2>2. \E q : inbox' = Posted(inbox, server, <<q>>)
    BY <1>12 DEF eof_send, rcopy_sends
  <2>3. inbox'[Main] = inbox[Main] /\ inbox'[Client] = inbox[Client]
    BY <1>2, <2>1, <2>2
  <2> QED
    BY <2>1, <2>3
<1>13. ASSUME NEW p, eof_recv(p) PROVE Goal
  <2>1. server' = p.from /\ p.from \in Child /\ Arrives(Client, p) /\ faults' = faults
    BY <1>3, <1>13 DEF eof_recv
  <2>2. state' # "FILENAME"
    BY <1>13 DEF eof_recv, send_final_done, eof_try_again, Finish
  <2>3. inbox' = Taken(Client) \/ \E q : inbox' = Posted(Taken(Client), p.from, <<q>>)
    BY <1>13 DEF eof_recv, send_final_done
  <2>4. inbox'[Main] = inbox[Main] /\ inbox'[Client] = Taken(Client)[Client]
    BY <1>2, <2>1, <2>3
  <2> QED
    BY <2>1, <2>2, <2>4
<1> QED
  BY <1>5, <1>6, <1>7, <1>8, <1>9, <1>10, <1>11, <1>12, <1>13
  DEF RcopyNext, RcopyStep, RcopyTimeout

-----------------------------------------------------------------------------
(* The steps of the children.                                              *)

\* What a child sends goes to rcopy and comes from the child.
LEMMA ChildSendsOwn ==
    ASSUME NEW c \in Child, ChildNext(c)
    PROVE  \/ inbox' \in {inbox, Taken(c)}
           \/ \E box \in {inbox, Taken(c)} : \E p, q : \E ps \in {<<p>>, <<p, q>>} :
                 /\ p.from = c /\ q.from = c
                 /\ inbox' = Posted(box, Client, ps)
<1> DEFINE Own == \/ inbox' \in {inbox, Taken(c)}
                  \/ \E box \in {inbox, Taken(c)} : \E p, q : \E ps \in {<<p>>, <<p, q>>} :
                        /\ p.from = c /\ q.from = c
                        /\ inbox' = Posted(box, Client, ps)
<1>1. ASSUME NEW box \in {inbox, Taken(c)}, NEW p, p.from = c, child_sends(box, <<p>>)
      PROVE  Own
  BY <1>1 DEF child_sends
<1>2. ASSUME NEW box \in {inbox, Taken(c)}, NEW p, NEW q, p.from = c, q.from = c,
             child_sends(box, <<p, q>>)
      PROVE  Own
  BY <1>2 DEF child_sends
<1>3. \A flag, num : make_packet(c, flag, num, Nil).from = c
  BY DEF make_packet
<1> HIDE DEF Own
<1>4. ASSUME filename_open(c) \/ filename_open_error(c) PROVE Own
  BY <1>1, <1>3, <1>4 DEF filename_open, filename_open_error, send_filename_response
<1>5. ASSUME NEW p, recv_data(c, p) \/ recv_eof(c, p) \/ recv_data_ignore(c, p)
      PROVE  Own
  <2>1. recv_data_ignore(c, p) \/ data_expected(c, p) => Own
    BY DEF recv_data_ignore, data_expected, Own
  <2>2. data_outside(c, p) => Own
    BY <1>1, <1>3 DEF data_outside, send_rr
  <2>3. data_later(c, p) => inbox' = Taken(c) \/ \E b : child_sends(Taken(c), <<send_reject(c, b)>>)
    BY DEF data_later
  <2>4. data_later(c, p) => Own
    BY <1>1, <1>3, <2>3 DEF send_reject, Own
  <2>5. recv_eof(c, p) => Own
    BY <1>1, <1>3 DEF recv_eof, send_eof_ack
  <2> QED
    BY <1>5, <2>1, <2>2, <2>4, <2>5 DEF recv_data
<1>6. ASSUME NEW p, recv_done(c, p) \/ recv_eof_again(c, p) \/ wait_on_done_ignore(c, p)
      PROVE  Own
  <2>1. recv_done(c, p) \/ wait_on_done_ignore(c, p) => Own
    BY DEF recv_done, wait_on_done_ignore, Own
  <2>2. recv_eof_again(c, p) => Own
    BY <1>1, <1>3 DEF recv_eof_again, send_eof_ack
  <2> QED
    BY <1>6, <2>1, <2>2
<1>7. ASSUME write_ready(c) \/ write_short(c) \/ write_error(c) \/ recv_data_timeout(c)
      PROVE  Own
  BY <1>7 DEF write_ready, write_short, writes, write_error, recv_data_timeout, networkVars, Own
<1>8. ASSUME write_done(c) PROVE Own
  BY <1>1, <1>2, <1>3, <1>8 DEF write_done, send_rr, send_reject
<1>9. ASSUME wait_on_done_timeout(c) PROVE Own
  <2>1. inbox' = inbox \/ child_sends(inbox, <<send_eof_ack(c)>>)
    BY <1>9 DEF wait_on_done_timeout
  <2> QED
    BY <1>1, <1>3, <2>1 DEF send_eof_ack, Own
<1> QED
  <2>1. Own
    BY <1>4, <1>5, <1>6, <1>7, <1>8, <1>9 DEF ChildNext, ChildStep
  <2> QED
    BY <2>1 DEF Own

\* A child forks nobody, and answers the FILENAME it was forked with.
LEMMA ChildAnswers ==
    ASSUME TypeInv, NEW c \in Child, ChildNext(c)
    PROVE  /\ faults' = faults
           /\ \A d \in Child : child_state'[d] = "UNUSED" <=> child_state[d] = "UNUSED"
           /\ \/ \A d \in Child : child_state'[d] = "FILENAME" <=> child_state[d] = "FILENAME"
              \/ \E p : p.from = c /\ inbox' = Posted(inbox, Client, <<p>>)
<1> DEFINE Stays ==
             /\ faults' = faults
             /\ \A d \in Child : child_state'[d] = "UNUSED" <=> child_state[d] = "UNUSED"
             /\ \A d \in Child : child_state'[d] = "FILENAME" <=> child_state[d] = "FILENAME"
<1> USE DEF TypeInv, TypeOK, ServerTypeOK
<1>1. ASSUME NEW s \in {"RECV_DATA", "WAIT_ON_DONE", "DONE"}, GoesTo(c, s),
             child_state[c] \notin {"UNUSED", "FILENAME"}, faults' = faults
      PROVE  Stays
  BY <1>1 DEF GoesTo
<1>2. CASE filename_open(c) \/ filename_open_error(c)
  <2>1. child_state[c] = "FILENAME" /\ faults' = faults
        /\ (GoesTo(c, "RECV_DATA") \/ GoesTo(c, "DONE"))
    BY <1>2 DEF filename_open, filename_open_error, Fails
  <2>2. \E p : p.from = c /\ inbox' = Posted(inbox, Client, <<p>>)
    BY <1>2 DEF filename_open, filename_open_error, child_sends, send_filename_response, make_packet
  <2> QED
    BY <2>1, <2>2 DEF GoesTo
<1>3. ASSUME NEW p, \/ recv_data(c, p) \/ recv_data_ignore(c, p) \/ recv_eof_again(c, p)
                    \/ wait_on_done_ignore(c, p)
      PROVE  Stays
  BY <1>3 DEF recv_data, recv_data_ignore, recv_eof_again, wait_on_done_ignore, serverVars
<1>4. ASSUME NEW p, recv_eof(c, p) \/ recv_done(c, p) PROVE Stays
  <2>1. child_state[c] \notin {"UNUSED", "FILENAME"} /\ faults' = faults
        /\ (GoesTo(c, "WAIT_ON_DONE") \/ GoesTo(c, "DONE"))
    BY <1>4 DEF recv_eof, recv_done, may_receive
  <2> QED
    BY <1>1, <2>1
<1>5. CASE write_ready(c) \/ write_short(c) \/ write_done(c)
  BY <1>5 DEF write_ready, write_short, writes, write_done, networkVars
<1>6. CASE write_error(c) \/ recv_data_timeout(c)
  <2>1. child_state[c] = "RECV_DATA" /\ faults' = faults /\ GoesTo(c, "DONE")
    BY <1>6 DEF write_error, recv_data_timeout, may_write, Fails, networkVars, ServerReady, ChildReady
  <2> QED
    BY <1>1, <2>1
<1>7. CASE wait_on_done_timeout(c)
  <2>1. child_state[c] = "WAIT_ON_DONE" /\ faults' = faults
        /\ (GoesTo(c, "DONE") \/ child_state' = child_state)
    BY <1>7 DEF wait_on_done_timeout, Fails
  <2> QED
    BY <1>1, <2>1
<1> QED
  BY <1>2, <1>3, <1>4, <1>5, <1>6, <1>7 DEF ChildNext, ChildStep

-----------------------------------------------------------------------------
(* The main process and the faults; every queue of rcopy's still comes from *)
(* children.                                                               *)

\* The main process takes a FILENAME and may fork one child.
LEMMA MainForks ==
    ASSUME TypeInv, MainNext
    PROVE  /\ inbox[Main] # <<>> /\ inbox'[Main] = Tail(inbox[Main])
           /\ inbox'[Client] = inbox[Client] /\ faults' = faults
           /\ \/ child_state' = child_state
              \/ \E c \in Child : /\ child_state[c] = "UNUSED"
                                  /\ child_state' = [child_state EXCEPT ![c] = "FILENAME"]
<1>1. PICK p : main_recv(p)
  BY DEF MainNext, MainStep
<1>2. inbox = [a \in Address |-> inbox[a]]
  BY Queues
<1>3. inbox' = Taken(Main) /\ inbox[Main] # <<>> /\ faults' = faults
  BY <1>1 DEF main_recv, Arrives
<1>4. \/ child_state' = child_state
      \/ \E c \in Child : /\ child_state[c] = "UNUSED"
                          /\ child_state' = [child_state EXCEPT ![c] = "FILENAME"]
  BY <1>1 DEF main_recv, fork, GoesTo
<1> QED
  BY <1>2, <1>3, <1>4, Addresses DEF Taken

\* A fault concerns one packet.
LEMMA FaultRoutes ==
    ASSUME TypeInv, RoutesInv, FaultNext
    PROVE  /\ From(inbox'[Client], Child)
           /\ \/ Len(inbox'[Main]) <= Len(inbox[Main])
              \/ Len(inbox'[Main]) = Len(inbox[Main]) + 1
           /\ faults' = faults + 1
<1> DEFINE T == [a \in Address |-> {p \in PacketType : a = Client => p.from \in Child}]
<1>0. /\ inbox = [a \in Address |-> inbox[a]]
      /\ \A a \in Address : inbox[a] \in Seq(PacketType)
  BY Queues
<1>1. Carries(inbox, T)
  <2>1. ASSUME NEW a \in Address PROVE inbox[a] \in Seq(T[a])
    <3>1. \A i \in 1 .. Len(inbox[a]) : inbox[a][i] \in T[a]
      BY <1>0, <2>1, ElementOfSeq DEF RoutesInv, From
    <3> DEFINE s == inbox[a]
               U == T[a]
    <3>2. s \in Seq(PacketType) /\ \A i \in 1 .. Len(s) : s[i] \in U
      BY <1>0, <3>1
    <3> HIDE DEF s, U
    <3>3. s \in Seq(U)
      BY <3>2, IsASeq, SeqDef
    <3> QED
      BY <3>3 DEF s, U
  <2> QED
    BY <1>0, <2>1 DEF Carries
<1>2. ASSUME NEW a \in Address, NEW p \in T[a] PROVE Damaged(p) \in T[a]
  <2>1. p \in PacketType /\ (a = Client => p.from \in Child)
    BY <1>2
  <2>2. Damaged(p) \in PacketType /\ Damaged(p).from = p.from
    BY <2>1 DEF Damaged, PacketType, Chunk
  <2> QED
    BY <2>1, <2>2
<1> HIDE DEF T
<1>3. Carries(inbox', T)
  BY <1>1, <1>2, CarriesFault DEF FaultNext
<1>4. From(inbox'[Client], Child)
  <2>1. inbox'[Client] \in Seq(T[Client])
    BY <1>3, Addresses DEF Carries
  <2>2. \A i \in 1 .. Len(inbox'[Client]) : inbox'[Client][i] \in T[Client]
    BY <2>1, ElementOfSeq
  <2> QED
    BY <2>2, Addresses DEF From, T
<1>5. PICK a \in Address :
         LosePacket(a) \/ DamagePacket(a) \/ DuplicatePacket(a) \/ DelayPacket(a)
  BY DEF FaultNext, NetworkNext
<1>6. inbox[a] # <<>> /\ faults' = faults + 1
  BY <1>5 DEF LosePacket, DamagePacket, DuplicatePacket, DelayPacket, MayFail
<1>7. /\ inbox[a] \in Seq(PacketType) /\ Head(inbox[a]) \in PacketType
      /\ Tail(inbox[a]) \in Seq(PacketType)
      /\ Len(Tail(inbox[a])) = Len(inbox[a]) - 1
      /\ Len(inbox[a]) \in Nat
  BY <1>0, <1>6, HeadTailProperties, LenProperties
<1>8. \A b \in Address \ {a} : inbox'[b] = inbox[b]
  BY <1>0, <1>5 DEF LosePacket, DamagePacket, DuplicatePacket, DelayPacket, Taken, Posted
<1>9. Len(inbox'[a]) <= Len(inbox[a]) \/ Len(inbox'[a]) = Len(inbox[a]) + 1
  <2> DEFINE h == Head(inbox[a])
             d == Damaged(Head(inbox[a]))
             t == Tail(inbox[a])
             s == inbox[a]
  <2>1. d \in PacketType
    BY <1>7 DEF Damaged, PacketType, Chunk
  <2>2. inbox'[a] \in {t, <<d>> \o t, s \o <<h>>, t \o <<h>>}
    BY <1>0, <1>5 DEF LosePacket, DamagePacket, DuplicatePacket, DelayPacket, Taken, Posted
  <2>3. s \in Seq(PacketType) /\ t \in Seq(PacketType) /\ h \in PacketType
    BY <1>7
  <2> HIDE DEF s, t, h, d
  <2>4. <<d>> \in Seq(PacketType) /\ <<h>> \in Seq(PacketType)
    BY <2>1, <2>3
  <2>5. Len(<<d>>) = 1 /\ Len(<<h>>) = 1
    OBVIOUS
  <2>6. /\ Len(<<d>> \o t) = 1 + Len(t) /\ Len(s \o <<h>>) = Len(s) + 1
        /\ Len(t \o <<h>>) = Len(t) + 1
    BY <2>3, <2>4, <2>5, ConcatProperties
  <2>7. Len(s) \in Nat /\ Len(t) = Len(s) - 1
    BY <1>7 DEF s, t
  <2>8. Len(inbox'[a]) \in {Len(t), 1 + Len(t), Len(s) + 1, Len(t) + 1}
    BY <2>2, <2>6
  <2> QED
    BY <2>7, <2>8 DEF s
<1>10. Len(inbox[Main]) \in Nat
  BY <1>0, Addresses, LenProperties
<1> QED
  BY <1>4, <1>6, <1>8, <1>9, <1>10, Addresses

LEMMA RoutesStep == TypeInv /\ RoutesInv /\ [Next]_vars => RoutesInv'
<1> SUFFICES ASSUME TypeInv, RoutesInv, [Next]_vars PROVE RoutesInv'
  OBVIOUS
<1>1. ASSUME UNCHANGED rcopyVars, From(inbox'[Client], Child) PROVE RoutesInv'
  BY <1>1 DEF RoutesInv, rcopyVars
<1>2. CASE RcopyNext
  <2>1. From(inbox'[Client], Child)
    BY <1>2, RcopyRoutes, ComesFromChild DEF RoutesInv
  <2> QED
    BY <1>2, <2>1, RcopyRoutes DEF RoutesInv
<1>3. CASE MainNext
  BY <1>1, <1>3, MainForks DEF MainNext, RoutesInv
<1>4. ASSUME NEW c \in Child, ChildNext(c) PROVE RoutesInv'
  <2>0. /\ inbox = [a \in Address |-> inbox[a]] /\ inbox[Client] \in Seq(PacketType)
        /\ From(inbox[Client], Child)
    BY Queues, Addresses DEF RoutesInv
  <2>1. \A box \in {inbox, Taken(c)} :
           box = [a \in Address |-> box[a]] /\ box[Client] = inbox[Client]
    BY <2>0, Addresses DEF Taken
  <2>2. CASE inbox' \in {inbox, Taken(c)}
    BY <1>1, <1>4, <2>0, <2>1, <2>2 DEF ChildNext
  <2>3. CASE \E box \in {inbox, Taken(c)} : \E p, q : \E ps \in {<<p>>, <<p, q>>} :
               p.from = c /\ q.from = c /\ inbox' = Posted(box, Client, ps)
    <3>1. PICK box \in {inbox, Taken(c)} : \E p, q : \E ps \in {<<p>>, <<p, q>>} :
               p.from = c /\ q.from = c /\ inbox' = Posted(box, Client, ps)
      BY <2>3
    <3>2. PICK p, q : \E ps \in {<<p>>, <<p, q>>} :
               p.from = c /\ q.from = c /\ inbox' = Posted(box, Client, ps)
      BY <3>1
    <3>3. PICK ps \in {<<p>>, <<p, q>>} :
               p.from = c /\ q.from = c /\ inbox' = Posted(box, Client, ps)
      BY <3>2
    <3>4. inbox'[Client] = inbox[Client] \o ps
      BY <2>1, <3>3, Addresses DEF Posted
    <3> QED
      BY <1>1, <1>4, <2>0, <3>3, <3>4, FromSent DEF ChildNext
  <2> QED
    BY <1>4, <2>2, <2>3, ChildSendsOwn
<1>5. CASE FaultNext
  BY <1>1, <1>5, FaultRoutes DEF FaultNext
<1>6. CASE Finished \/ UNCHANGED vars
  BY <1>1, <1>6 DEF Finished, vars, networkVars, RoutesInv
<1> QED
  BY <1>2, <1>3, <1>4, <1>5, <1>6 DEF Next

-----------------------------------------------------------------------------
(* The forks.                                                              *)

Forked == {c \in Child : child_state[c] # "UNUSED"}

\* The children that have been forked and the FILENAMEs that may fork one.
Asked == Cardinality(Forked) + Len(inbox[Main])

\* The server owes rcopy nothing: no FILENAME and no answer to one is on its way.
Idle ==
    /\ inbox[Client] = <<>> /\ inbox[Main] = <<>>
    /\ \A c \in Child : child_state[c] # "FILENAME"

\* rcopy sends a further FILENAME only when the one before, or its answer, has
\* been lost: each is paid for by a fault.
ForkInv ==
    /\ IsFiniteSet(Forked)
    /\ Asked <= 1 + faults
    /\ state = "FILENAME" /\ server = Main /\ (at = "run" \/ Idle) => Asked <= faults

LEMMA ForkInit == Init => ForkInv
<1> SUFFICES ASSUME Init PROVE ForkInv
  OBVIOUS
<1>1. Forked = {} /\ inbox[Main] = <<>> /\ faults = 0
  BY Addresses DEF Init, ServerInit, NetworkInit, Forked
<1>2. IsFiniteSet(Forked) /\ Cardinality(Forked) = 0
  BY <1>1, FS_EmptySet
<1>3. Len(inbox[Main]) = 0
  BY <1>1
<1>4. Asked = 0
  BY <1>2, <1>3 DEF Asked
<1> QED
  BY <1>1, <1>2, <1>4 DEF ForkInv

\* Asked is a number.
LEMMA Numbers ==
    ASSUME TypeInv, ForkInv
    PROVE  /\ Cardinality(Forked) \in Nat /\ Len(inbox[Main]) \in Nat
           /\ Asked \in Nat /\ faults \in Nat
<1>1. Cardinality(Forked) \in Nat
  BY FS_CardinalityType DEF ForkInv
<1>2. Len(inbox[Main]) \in Nat
  BY Queues, Addresses, LenProperties
<1>3. faults \in Nat
  BY Bounds DEF TypeInv, TypeOK, NetworkTypeOK
<1> QED
  BY <1>1, <1>2, <1>3 DEF Asked

\* A step that forks nobody and sends the main process nothing.
LEMMA NothingAsked ==
    ASSUME ForkInv, Forked' = Forked, inbox'[Main] = inbox[Main], faults' = faults,
           state' = "FILENAME" /\ server' = Main /\ (at' = "run" \/ Idle') =>
              state = "FILENAME" /\ server = Main /\ (at = "run" \/ Idle)
    PROVE  ForkInv'
BY DEF ForkInv, Asked

LEMMA RcopyForks ==
    ASSUME Timely, TypeInv, RoutesInv, ForkInv, RcopyNext
    PROVE  ForkInv'
<1>1. Forked' = Forked
  BY DEF RcopyNext, serverVars, Forked
<1>2. CASE filename_send /\ server = Main
  <2>1. PICK p : inbox'[Main] = inbox[Main] \o <<p>>
    BY <1>2, RcopyRoutes, Addresses DEF filename_send, rcopy_sends, Posted, TypeInv, TypeOK, NetworkTypeOK
  <2>2. inbox[Main] \in Seq(PacketType)
    BY Queues, Addresses
  <2>3. Len(inbox'[Main]) = Len(inbox[Main]) + 1
    <3> DEFINE U == PacketType \cup {p}
    <3>1. inbox[Main] \in Seq(U)
      BY <2>2, SeqMonotonic
    <3>2. <<p>> \in Seq(U) /\ Len(<<p>>) = 1
      BY OnePacket
    <3> HIDE DEF U
    <3> QED
      BY <2>1, <3>1, <3>2, ConcatProperties
  <2>4. Asked' = Asked + 1
    BY <1>1, <2>3, Numbers DEF Asked
  <2>5. Asked <= faults /\ faults' = faults
    BY <1>2 DEF filename_send, ForkInv
  <2>6. at' # "run" /\ ~Idle'
    <3>1. Len(inbox'[Main]) # 0
      BY <2>2, <2>3, LenProperties
    <3> QED
      BY <1>2, <3>1 DEF filename_send, Idle
  <2>7. Asked' <= 1 + faults'
    BY <2>4, <2>5, Numbers
  <2> QED
    BY <1>1, <2>6, <2>7 DEF ForkInv
<1>3. CASE ~(filename_send /\ server = Main)
  <2>1. inbox'[Main] = inbox[Main] /\ faults' = faults
    BY <1>3, RcopyRoutes
  <2>2. ASSUME state' = "FILENAME", server' = Main
        PROVE  state = "FILENAME" /\ server = Main /\ Idle
    <3>1. server' \notin Child
      BY <2>2, Addresses
    <3>2. filename_timeout
      BY <1>3, <2>2, <3>1, RcopyRoutes DEF filename_send
    <3>3. OneSecondOver
      <4>1. state = "FILENAME" /\ at = "wait"
        BY <3>2 DEF filename_timeout
      <4>2. \A p : ~filename_recv(p)
        BY <3>1, ComesFromChild DEF filename_recv
      <4>3. ~RcopyStep
        BY <4>1, <4>2
        DEF RcopyStep, filename_send, process_controls_recv, eof_recv, send_data,
            send_data_end_of_file, send_data_read_error, send_data_leave,
            send_data_drained, wait_on_ack_drained, eof_send
      <4> QED
        BY <4>3 DEF RcopyNext
    <3>4. Quiet
      BY <3>3 DEF OneSecondOver
    <3>5. state = "FILENAME" /\ server = Main
      BY <2>2, <3>2 DEF filename_timeout
    <3> QED
      BY <3>4, <3>5 DEF Quiet, Idle, live
  <2> QED
    BY <1>1, <2>1, <2>2, NothingAsked
<1> QED
  BY <1>2, <1>3

LEMMA MainForksOne ==
    ASSUME TypeInv, ForkInv, MainNext
    PROVE  ForkInv'
<1>1. /\ Len(inbox'[Main]) = Len(inbox[Main]) - 1
      /\ inbox[Main] # <<>> /\ faults' = faults
  <2>1. inbox[Main] \in Seq(PacketType)
    BY Queues, Addresses
  <2> QED
    BY <2>1, MainForks, HeadTailProperties
<1>2. UNCHANGED <<state, server, at>>
  BY DEF MainNext, rcopyVars
<1>3. CASE child_state' = child_state
  <2>1. Forked' = Forked
    BY <1>3 DEF Forked
  <2>2. Asked' = Asked - 1
    BY <1>1, <2>1, Numbers DEF Asked
  <2>3. Asked' <= faults'
    <3>1. Asked <= 1 + faults
      BY DEF ForkInv
    <3> QED
      BY <1>1, <2>2, <3>1, Numbers
  <2>4. Asked' <= 1 + faults'
    BY <1>1, <2>2, Numbers DEF ForkInv
  <2> QED
    BY <2>1, <2>3, <2>4 DEF ForkInv
<1>4. CASE \E c \in Child : /\ child_state[c] = "UNUSED"
                            /\ child_state' = [child_state EXCEPT ![c] = "FILENAME"]
  <2>1. PICK c \in Child : /\ child_state[c] = "UNUSED"
                           /\ child_state' = [child_state EXCEPT ![c] = "FILENAME"]
    BY <1>4
  <2>2. Forked' = Forked \cup {c} /\ c \notin Forked /\ child_state'[c] = "FILENAME"
    BY <2>1 DEF Forked, TypeInv, TypeOK, ServerTypeOK
  <2>3. IsFiniteSet(Forked') /\ Cardinality(Forked') = Cardinality(Forked) + 1
    BY <2>2, FS_AddElement DEF ForkInv
  <2>4. Asked' = Asked
    BY <1>1, <2>3, Numbers DEF Asked
  <2>5. ~Idle'
    BY <2>2 DEF Idle
  <2> QED
    BY <1>1, <1>2, <2>3, <2>4, <2>5 DEF ForkInv
<1> QED
  BY <1>3, <1>4, MainForks

LEMMA ChildrenFork ==
    ASSUME TypeInv, RoutesInv, ForkInv, NEW c \in Child, ChildNext(c)
    PROVE  ForkInv'
<1>0. /\ inbox = [a \in Address |-> inbox[a]] /\ inbox[Client] \in Seq(PacketType)
      /\ From(inbox[Client], Child)
  BY Queues, Addresses DEF RoutesInv
<1>1. UNCHANGED <<state, server, at>>
  BY DEF ChildNext, rcopyVars
<1>2. Forked' = Forked /\ faults' = faults
  BY ChildAnswers DEF Forked
<1>3. \A box \in {inbox, Taken(c)} :
         /\ box = [a \in Address |-> box[a]]
         /\ box[Client] = inbox[Client] /\ box[Main] = inbox[Main]
  BY <1>0, Addresses DEF Taken
<1>4. ASSUME NEW box \in {inbox, Taken(c)}, NEW p, NEW q, NEW ps \in {<<p>>, <<p, q>>},
             p.from = c, q.from = c, inbox' = Posted(box, Client, ps)
      PROVE  inbox'[Main] = inbox[Main] /\ inbox'[Client] # <<>>
  <2>1. inbox'[Client] = inbox[Client] \o ps /\ inbox'[Main] = inbox[Main]
    BY <1>3, <1>4, Addresses DEF Posted
  <2> QED
    BY <1>0, <1>4, <2>1, FromSent
<1>5. CASE ~ \A d \in Child : child_state'[d] = "FILENAME" <=> child_state[d] = "FILENAME"
  <2>1. PICK p : p.from = c /\ inbox' = Posted(inbox, Client, <<p>>)
    BY <1>5, ChildAnswers
  <2>2. inbox'[Main] = inbox[Main] /\ inbox'[Client] # <<>>
    BY <1>4, <2>1
  <2>3. ~Idle'
    BY <2>2 DEF Idle
  <2> QED
    BY <1>1, <1>2, <2>2, <2>3, NothingAsked
<1>6. CASE \A d \in Child : child_state'[d] = "FILENAME" <=> child_state[d] = "FILENAME"
  <2>1. inbox'[Main] = inbox[Main] /\ (inbox'[Client] = <<>> => inbox[Client] = <<>>)
    <3>1. CASE inbox' \in {inbox, Taken(c)}
      BY <1>3, <3>1
    <3>2. CASE \E box \in {inbox, Taken(c)} : \E p, q : \E ps \in {<<p>>, <<p, q>>} :
                  p.from = c /\ q.from = c /\ inbox' = Posted(box, Client, ps)
      BY <1>4, <3>2
    <3> QED
      BY <3>1, <3>2, ChildSendsOwn
  <2>2. Idle' => Idle
    BY <1>6, <2>1 DEF Idle
  <2> QED
    BY <1>1, <1>2, <2>1, <2>2, NothingAsked
<1> QED
  BY <1>5, <1>6

LEMMA FaultForks ==
    ASSUME TypeInv, TypeInv', RoutesInv, ForkInv, FaultNext
    PROVE  ForkInv'
<1>1. UNCHANGED <<state, server, at>> /\ Forked' = Forked
  BY DEF FaultNext, rcopyVars, serverVars, Forked
<1>2. /\ Len(inbox'[Main]) <= Len(inbox[Main]) \/ Len(inbox'[Main]) = Len(inbox[Main]) + 1
      /\ faults' = faults + 1
  BY FaultRoutes
<1>3. Len(inbox'[Main]) \in Nat /\ (inbox'[Main] = <<>> => Len(inbox'[Main]) = 0)
  <2>1. inbox'[Main] \in Seq(PacketType)
    BY Addresses DEF TypeInv, TypeOK, NetworkTypeOK
  <2> QED
    BY <2>1, LenProperties
<1> DEFINE n == Cardinality(Forked)
           m == Len(inbox[Main])
           k == Len(inbox'[Main])
<1>4. n \in Nat /\ m \in Nat /\ k \in Nat /\ faults \in Nat
  BY <1>3, Numbers
<1>5. n + m <= 1 + faults /\ (k <= m \/ k = m + 1)
  BY <1>2 DEF ForkInv, Asked
<1>6. Asked = n + m /\ Asked' = n + k
  BY <1>1 DEF Asked
<1> HIDE DEF n, m, k
<1>7. Asked' <= 1 + (faults + 1)
  BY <1>4, <1>5, <1>6
<1>8. ASSUME state = "FILENAME", server = Main, at = "run" \/ Idle' PROVE Asked' <= faults + 1
  <2>1. CASE at = "run"
    <3>1. n + m <= faults
      BY <1>6, <1>8, <2>1 DEF ForkInv
    <3> QED
      BY <1>4, <1>5, <1>6, <3>1
  <2>2. CASE Idle'
    <3>1. k = 0
      BY <1>3, <2>2 DEF Idle, k
    <3> QED
      BY <1>4, <1>5, <1>6, <3>1
  <2> QED
    BY <1>8, <2>1, <2>2
<1> QED
  BY <1>1, <1>2, <1>7, <1>8 DEF ForkInv

LEMMA ForkStep ==
    Timely /\ TypeInv /\ RoutesInv /\ ForkInv /\ [Next]_vars => ForkInv'
<1> SUFFICES ASSUME Timely, TypeInv, RoutesInv, ForkInv, [Next]_vars PROVE ForkInv'
  OBVIOUS
<1>1. TypeInv'
  BY TypeStep
<1>2. CASE Finished \/ UNCHANGED vars
  BY <1>2 DEF Finished, vars, rcopyVars, serverVars, networkVars, ForkInv, Asked, Forked, Idle
<1> QED
  BY <1>1, <1>2, RcopyForks, MainForksOne, ChildrenFork, FaultForks DEF Next

\* SecondChildNeedsLoss holds in every reachable state of a server whose network
\* and processes are faster than rcopy's timer, whatever the network does to the
\* packets, however many children there are and whichever calls on files fail:
\* process_server forks no more children than one and the faults.
THEOREM ForksCorrect ==
    ASSUME Timely
    PROVE  Spec => []SecondChildNeedsLoss
<1>1. Init => TypeInv /\ RoutesInv /\ ForkInv
  BY TypeInit, RoutesInit, ForkInit
<1>2. TypeInv /\ RoutesInv /\ ForkInv /\ [Next]_vars => (TypeInv /\ RoutesInv /\ ForkInv)'
  BY TypeStep, RoutesStep, ForkStep
<1>3. TypeInv /\ ForkInv => SecondChildNeedsLoss
  <2> SUFFICES ASSUME TypeInv, ForkInv PROVE SecondChildNeedsLoss
    OBVIOUS
  <2>1. Cardinality(Forked) + Len(inbox[Main]) <= 1 + faults
    BY DEF ForkInv, Asked
  <2>2. Cardinality(Forked) <= 1 + faults
    BY <2>1, Numbers
  <2> QED
    BY <2>2 DEF SecondChildNeedsLoss, Forked
<1> QED
  BY <1>1, <1>2, <1>3, PTL DEF Spec

-----------------------------------------------------------------------------
(* The two lines between rcopy and the child it sends to.  If packets can  *)
(* only be lost, they arrive in the order in which they were sent.  In the *)
(* following, q is the queue of a child that expects packet e, holds the   *)
(* packets H and has asked for e if "asked"; low and end are the edges of  *)
(* rcopy's window, and r is rcopy's queue.                                 *)

\* The DATA packets on their way to the child are new to it and in order, after
\* all that it holds; only the packet it has asked for may come behind others.
DataLine(q, H, e, end, asked) ==
    /\ \A i \in 1 .. Len(q) :
          /\ IsGood(q[i], "DATA")
          /\ q[i].num \in e .. end - 1 /\ q[i].num \notin H
          /\ (q[i].num = e /\ asked) \/ (\A seq \in H : seq < q[i].num)
    /\ \A i, j \in 1 .. Len(q) : i < j =>
          /\ q[i].num # q[j].num
          /\ q[i].num < q[j].num \/ (q[j].num = e /\ asked)

\* The RRs on their way to rcopy each acknowledge more than rcopy knows of and
\* than those before; a SREJ is the last, and what it asks for is not under way.
AnswerLine(r, q, e, low, asked) ==
    /\ \A i \in 1 .. Len(r) :
          \/ IsGood(r[i], "RR") /\ low < r[i].num /\ r[i].num <= e
          \/ /\ IsGood(r[i], "SREJ") /\ r[i].num = e
             /\ i = Len(r) /\ asked
             /\ \A j \in 1 .. Len(q) : q[j].num # e
    /\ \A i, j \in 1 .. Len(r) : i < j => r[i].num < r[j].num \/ IsGood(r[j], "SREJ")

LEMMA TailIndex ==
    ASSUME NEW S, NEW s \in Seq(S), s # <<>>
    PROVE  /\ Len(s) \in Nat \ {0} /\ Len(Tail(s)) = Len(s) - 1
           /\ Head(s) = s[1] /\ 1 \in 1 .. Len(s)
           /\ Tail(s) \in Seq(S)
           /\ \A i \in 1 .. Len(Tail(s)) : i + 1 \in 1 .. Len(s) /\ Tail(s)[i] = s[i + 1]
<1>1. Len(s) \in Nat /\ Len(s) # 0 /\ Tail(s) \in Seq(S)
  BY LenProperties, EmptySeq, HeadTailProperties
<1>2. /\ Len(Tail(s)) = Len(s) - 1
      /\ \A i \in 1 .. Len(Tail(s)) : Tail(s)[i] = s[i + 1]
      /\ Head(s) = s[1]
  BY HeadTailProperties
<1> QED
  BY <1>1, <1>2

LEMMA AppendIndex ==
    ASSUME NEW S, NEW s \in Seq(S), NEW p \in S
    PROVE  /\ Len(s) \in Nat /\ Len(s \o <<p>>) = Len(s) + 1
           /\ s \o <<p>> \in Seq(S)
           /\ \A i \in 1 .. Len(s \o <<p>>) :
                 \/ i \in 1 .. Len(s) /\ (s \o <<p>>)[i] = s[i]
                 \/ i = Len(s) + 1 /\ (s \o <<p>>)[i] = p
<1>1. <<p>> \in Seq(S) /\ Len(<<p>>) = 1 /\ <<p>>[1] = p
  BY OnePacket
<1> DEFINE t == <<p>>
<1>2. t \in Seq(S) /\ Len(t) = 1 /\ t[1] = p
  BY <1>1
<1> HIDE DEF t
<1>3. /\ s \o t \in Seq(S) /\ Len(s \o t) = Len(s) + Len(t)
      /\ \A i \in 1 .. Len(s) + Len(t) :
            (s \o t)[i] = IF i <= Len(s) THEN s[i] ELSE t[i - Len(s)]
  BY <1>2, ConcatProperties
<1>4. Len(s) \in Nat
  BY LenProperties
<1>5. ASSUME NEW i \in 1 .. Len(s \o t)
      PROVE  \/ i \in 1 .. Len(s) /\ (s \o t)[i] = s[i]
             \/ i = Len(s) + 1 /\ (s \o t)[i] = p
  BY <1>2, <1>3, <1>4
<1> QED
  BY <1>2, <1>3, <1>4, <1>5 DEF t

LEMMA Nums ==
    ASSUME NEW q \in Seq(PacketType)
    PROVE  \A i \in 1 .. Len(q) : q[i] \in PacketType /\ q[i].num \in Nat
<1>1. \A i \in 1 .. Len(q) : q[i] \in PacketType
  BY ElementOfSeq
<1>2. \A p \in PacketType : p.num \in Nat
  BY PacketAssumption DEF PacketType, SeqNum
<1> QED
  BY <1>1, <1>2

\* An empty queue, and one with a single packet.
LEMMA LinesEmpty ==
    ASSUME NEW H, NEW e, NEW end, NEW low, NEW asked, NEW q
    PROVE  DataLine(<<>>, H, e, end, asked) /\ AnswerLine(<<>>, q, e, low, asked)
<1>1. Len(<<>>) = 0 /\ 1 .. 0 = {}
  OBVIOUS
<1> QED
  BY <1>1 DEF DataLine, AnswerLine

LEMMA DataAlone ==
    ASSUME NEW H, NEW e \in Nat, NEW end \in Nat, NEW asked, NEW p,
           IsGood(p, "DATA"), p.num = e, e < end, e \notin H, asked \/ H = {}
    PROVE  DataLine(<<p>>, H, e, end, asked)
<1>1. Len(<<p>>) = 1 /\ <<p>>[1] = p /\ 1 .. 1 = {1}
  OBVIOUS
<1> DEFINE q == <<p>>
<1>2. Len(q) = 1 /\ q[1] = p
  BY <1>1
<1> HIDE DEF q
<1>3. DataLine(q, H, e, end, asked)
  BY <1>2 DEF DataLine
<1> QED
  BY <1>3 DEF q

LEMMA AnswerAlone ==
    ASSUME NEW q, NEW e \in Nat, NEW low \in Nat, NEW asked, NEW p,
           IsGood(p, "RR"), p.num = e, low < e
    PROVE  AnswerLine(<<p>>, q, e, low, asked)
<1> DEFINE r == <<p>>
<1>1. Len(r) = 1 /\ r[1] = p
  OBVIOUS
<1> HIDE DEF r
<1>2. AnswerLine(r, q, e, low, asked)
  BY <1>1 DEF AnswerLine
<1> QED
  BY <1>2 DEF r

\* rcopy sends the next packet.
LEMMA LinesSent ==
    ASSUME NEW q \in Seq(PacketType), NEW r \in Seq(PacketType), NEW H \in SUBSET Nat,
           NEW e \in Nat, NEW end \in Nat, NEW low \in Nat, NEW asked,
           DataLine(q, H, e, end, asked), AnswerLine(r, q, e, low, asked),
           e <= end, asked => e < end, \A seq \in H : seq < end,
           NEW p \in PacketType, IsGood(p, "DATA"), p.num = end
    PROVE  /\ DataLine(q \o <<p>>, H, e, end + 1, asked)
           /\ AnswerLine(r, q \o <<p>>, e, low, asked)
<1> DEFINE t == q \o <<p>>
<1>1. /\ Len(q) \in Nat /\ Len(t) = Len(q) + 1
      /\ \A i \in 1 .. Len(t) : \/ i \in 1 .. Len(q) /\ t[i] = q[i]
                                \/ i = Len(q) + 1 /\ t[i] = p
  BY AppendIndex
<1>2. \A i \in 1 .. Len(q) : q[i].num \in Nat
  BY Nums
<1> HIDE DEF t
<1>3. ASSUME NEW i \in 1 .. Len(t)
      PROVE  /\ IsGood(t[i], "DATA")
             /\ t[i].num \in e .. end + 1 - 1 /\ t[i].num \notin H
             /\ (t[i].num = e /\ asked) \/ (\A seq \in H : seq < t[i].num)
  <2>1. CASE i \in 1 .. Len(q) /\ t[i] = q[i]
    BY <1>2, <2>1 DEF DataLine
  <2>2. CASE t[i] = p
    BY <2>2
  <2> QED
    BY <1>1, <2>1, <2>2
<1>4. ASSUME NEW i \in 1 .. Len(t), NEW j \in 1 .. Len(t), i < j
      PROVE  t[i].num # t[j].num /\ (t[i].num < t[j].num \/ (t[j].num = e /\ asked))
  <2>0. i \in 1 .. Len(q) /\ t[i] = q[i]
    BY <1>1, <1>4
  <2>1. CASE j \in 1 .. Len(q) /\ t[j] = q[j]
    BY <1>4, <2>0, <2>1 DEF DataLine
  <2>2. CASE t[j] = p
    BY <1>2, <2>0, <2>2 DEF DataLine
  <2> QED
    BY <1>1, <2>1, <2>2
<1>5. AnswerLine(r, t, e, low, asked)
  <2>1. asked => \A j \in 1 .. Len(t) : t[j].num = e => \E i \in 1 .. Len(q) : q[i].num = e
    BY <1>1
  <2> QED
    BY <2>1 DEF AnswerLine
<1>6. DataLine(t, H, e, end + 1, asked)
  BY <1>3, <1>4 DEF DataLine
<1> QED
  BY <1>5, <1>6 DEF t

\* rcopy sends again what the child has asked for.
LEMMA LinesResent ==
    ASSUME NEW q \in Seq(PacketType), NEW H, NEW e \in Nat, NEW end \in Nat, NEW asked, asked,
           DataLine(q, H, e, end, asked), \A i \in 1 .. Len(q) : q[i].num # e,
           e < end, e \notin H,
           NEW p \in PacketType, IsGood(p, "DATA"), p.num = e
    PROVE  DataLine(q \o <<p>>, H, e, end, asked)
<1> DEFINE t == q \o <<p>>
<1>1. /\ Len(q) \in Nat /\ Len(t) = Len(q) + 1
      /\ \A i \in 1 .. Len(t) : \/ i \in 1 .. Len(q) /\ t[i] = q[i]
                                \/ i = Len(q) + 1 /\ t[i] = p
  BY AppendIndex
<1> HIDE DEF t
<1>2. ASSUME NEW i \in 1 .. Len(t)
      PROVE  /\ IsGood(t[i], "DATA")
             /\ t[i].num \in e .. end - 1 /\ t[i].num \notin H
             /\ (t[i].num = e /\ asked) \/ (\A seq \in H : seq < t[i].num)
  <2>1. CASE i \in 1 .. Len(q) /\ t[i] = q[i]
    BY <2>1 DEF DataLine
  <2>2. CASE t[i] = p
    BY <2>2
  <2> QED
    BY <1>1, <2>1, <2>2
<1>3. ASSUME NEW i \in 1 .. Len(t), NEW j \in 1 .. Len(t), i < j
      PROVE  t[i].num # t[j].num /\ (t[i].num < t[j].num \/ (t[j].num = e /\ asked))
  <2>0. i \in 1 .. Len(q) /\ t[i] = q[i]
    BY <1>1, <1>3
  <2>1. CASE j \in 1 .. Len(q) /\ t[j] = q[j]
    BY <1>3, <2>0, <2>1 DEF DataLine
  <2>2. CASE t[j] = p
    BY <2>0, <2>2
  <2> QED
    BY <1>1, <2>1, <2>2
<1>4. DataLine(t, H, e, end, asked)
  BY <1>2, <1>3 DEF DataLine
<1> QED
  BY <1>4 DEF t

\* The head of the line to the child leaves it, lost or received.
LEMMA DataTaken ==
    ASSUME NEW q \in Seq(PacketType), q # <<>>, NEW H, NEW e, NEW end, NEW asked,
           DataLine(q, H, e, end, asked)
    PROVE  DataLine(Tail(q), H, e, end, asked)
<1> DEFINE t == Tail(q)
<1>1. Len(q) \in Nat /\ \A i \in 1 .. Len(t) : i + 1 \in 1 .. Len(q) /\ t[i] = q[i + 1]
  BY TailIndex
<1>2. Len(t) \in Nat
  BY TailIndex
<1> HIDE DEF t
<1>3. ASSUME NEW i \in 1 .. Len(t)
      PROVE  /\ IsGood(t[i], "DATA")
             /\ t[i].num \in e .. end - 1 /\ t[i].num \notin H
             /\ (t[i].num = e /\ asked) \/ (\A seq \in H : seq < t[i].num)
  BY <1>1 DEF DataLine
<1>4. ASSUME NEW i \in 1 .. Len(t), NEW j \in 1 .. Len(t), i < j
      PROVE  t[i].num # t[j].num /\ (t[i].num < t[j].num \/ (t[j].num = e /\ asked))
  <2> DEFINE n == i + 1
             m == j + 1
  <2>1. n < m /\ n \in 1 .. Len(q) /\ m \in 1 .. Len(q) /\ t[i] = q[n] /\ t[j] = q[m]
    BY <1>1, <1>2, <1>4
  <2> HIDE DEF n, m
  <2> QED
    BY <2>1 DEF DataLine
<1>5. DataLine(t, H, e, end, asked)
  BY <1>3, <1>4 DEF DataLine
<1> QED
  BY <1>5 DEF t

\* It is the packet that the child expects.
LEMMA DataExpected ==
    ASSUME NEW q \in Seq(PacketType), q # <<>>, NEW H \in SUBSET Nat, NEW e \in Nat,
           NEW end \in Nat, NEW asked,
           DataLine(q, H, e, end, asked), Head(q).num = e
    PROVE  DataLine(Tail(q), H \cup {e}, e, end, FALSE)
<1> DEFINE t == Tail(q)
<1>1. Len(q) \in Nat /\ \A i \in 1 .. Len(t) : i + 1 \in 1 .. Len(q) /\ t[i] = q[i + 1]
  BY TailIndex
<1>2. Len(t) \in Nat /\ 1 \in 1 .. Len(q) /\ q[1].num = e
  BY TailIndex
<1>3. \A i \in 1 .. Len(q) : q[i].num \in Nat
  BY Nums
<1> HIDE DEF t
<1>4. ASSUME NEW i \in 1 .. Len(t)
      PROVE  IsGood(t[i], "DATA") /\ t[i].num \in e .. end - 1 /\ t[i].num \notin H
             /\ t[i].num # e /\ (\A seq \in H : seq < t[i].num)
  <2>1. 1 < i + 1 /\ i + 1 \in 1 .. Len(q) /\ t[i] = q[i + 1]
    BY <1>1, <1>2
  <2> DEFINE n == i + 1
  <2>2. 1 < n /\ n \in 1 .. Len(q) /\ t[i] = q[n]
    BY <2>1
  <2> HIDE DEF n
  <2>3. q[n].num # q[1].num
    BY <1>2, <2>2 DEF DataLine
  <2> QED
    BY <1>2, <2>2, <2>3 DEF DataLine
<1>5. ASSUME NEW i \in 1 .. Len(t), NEW j \in 1 .. Len(t), i < j
      PROVE  t[i].num # t[j].num /\ t[i].num < t[j].num
  <2> DEFINE n == i + 1
             m == j + 1
  <2>1. n < m /\ n \in 1 .. Len(q) /\ m \in 1 .. Len(q) /\ t[i] = q[n] /\ t[j] = q[m]
    BY <1>1, <1>2, <1>5
  <2> HIDE DEF n, m
  <2> QED
    BY <1>4, <2>1 DEF DataLine
<1>6. ASSUME NEW i \in 1 .. Len(t) PROVE \A seq \in H \cup {e} : seq < t[i].num
  <2>1. t[i].num \in e .. end - 1 /\ t[i].num # e
    BY <1>4
  <2>2. e < t[i].num
    BY <2>1
  <2> QED
    BY <1>4, <2>2
<1>7. DataLine(t, H \cup {e}, e, end, FALSE)
  BY <1>4, <1>5, <1>6 DEF DataLine
<1> QED
  BY <1>7 DEF t

\* It is a later packet.
LEMMA DataLater ==
    ASSUME NEW q \in Seq(PacketType), q # <<>>, NEW H \in SUBSET Nat, NEW e \in Nat,
           NEW end \in Nat, NEW asked,
           DataLine(q, H, e, end, asked), Head(q).num # e
    PROVE  /\ DataLine(Tail(q), H \cup {Head(q).num}, e, end, TRUE)
           /\ ~asked => \A i \in 1 .. Len(Tail(q)) : Tail(q)[i].num # e
<1> DEFINE t == Tail(q)
           m == Head(q).num
<1>1. Len(q) \in Nat /\ \A i \in 1 .. Len(t) : i + 1 \in 1 .. Len(q) /\ t[i] = q[i + 1]
  BY TailIndex
<1>2. Len(t) \in Nat /\ 1 \in 1 .. Len(q) /\ q[1].num = m
  BY TailIndex
<1>3. \A i \in 1 .. Len(q) : q[i].num \in Nat
  BY Nums
<1>4. m # e
  OBVIOUS
<1> HIDE DEF t, m
<1>5. m \in e .. end - 1 /\ m \in Nat
  BY <1>2, <1>3 DEF DataLine
<1>6. ASSUME NEW i \in 1 .. Len(t)
      PROVE  /\ IsGood(t[i], "DATA")
             /\ t[i].num \in e .. end - 1 /\ t[i].num \notin H \cup {m}
             /\ (t[i].num = e /\ asked) \/ (\A seq \in H \cup {m} : seq < t[i].num)
  <2> DEFINE n == i + 1
  <2>1. 1 < n /\ n \in 1 .. Len(q) /\ t[i] = q[n]
    BY <1>1, <1>2
  <2> HIDE DEF n
  <2>2. q[n].num # m /\ (m < q[n].num \/ (q[n].num = e /\ asked))
    BY <1>2, <2>1 DEF DataLine
  <2> QED
    BY <2>1, <2>2 DEF DataLine
<1>7. ASSUME NEW i \in 1 .. Len(t), NEW j \in 1 .. Len(t), i < j
      PROVE  t[i].num # t[j].num /\ (t[i].num < t[j].num \/ t[j].num = e)
  <2> DEFINE n == i + 1
             o == j + 1
  <2>1. n < o /\ n \in 1 .. Len(q) /\ o \in 1 .. Len(q) /\ t[i] = q[n] /\ t[j] = q[o]
    BY <1>1, <1>2, <1>7
  <2> HIDE DEF n, o
  <2> QED
    BY <2>1 DEF DataLine
<1>8. DataLine(t, H \cup {m}, e, end, TRUE)
  BY <1>6, <1>7 DEF DataLine
<1>9. ASSUME ~asked, NEW i \in 1 .. Len(t) PROVE t[i].num # e
  <2>1. m < t[i].num
    BY <1>6, <1>9
  <2> QED
    BY <1>5, <2>1
<1> QED
  BY <1>8, <1>9 DEF t, m

\* The child writes the packet it expects.
LEMMA DataWritten ==
    ASSUME NEW q \in Seq(PacketType), NEW H \in SUBSET Nat, NEW e \in Nat, NEW end \in Nat,
           DataLine(q, H, e, end, FALSE), e \in H
    PROVE  DataLine(q, H \ {e}, e + 1, end, FALSE)
<1>1. \A i \in 1 .. Len(q) : q[i].num \in Nat
  BY Nums
<1>2. ASSUME NEW i \in 1 .. Len(q)
      PROVE  IsGood(q[i], "DATA") /\ q[i].num \in e + 1 .. end - 1 /\ q[i].num \notin H
             /\ (\A seq \in H : seq < q[i].num)
  <2>1. IsGood(q[i], "DATA") /\ q[i].num \in e .. end - 1 /\ q[i].num \notin H
        /\ (\A seq \in H : seq < q[i].num)
    BY DEF DataLine
  <2>2. e < q[i].num
    BY <2>1
  <2> QED
    BY <2>1, <2>2
<1>3. \A i, j \in 1 .. Len(q) : i < j => q[i].num # q[j].num /\ q[i].num < q[j].num
  BY DEF DataLine
<1> QED
  BY <1>2, <1>3 DEF DataLine

\* The child, which holds later packets, asks for the one it expects.
LEMMA DataAsked ==
    ASSUME NEW q \in Seq(PacketType), NEW H \in SUBSET Nat, NEW e \in Nat, NEW end \in Nat,
           DataLine(q, H, e, end, FALSE), NEW s \in H, s > e
    PROVE  /\ DataLine(q, H, e, end, TRUE)
           /\ \A i \in 1 .. Len(q) : q[i].num # e
<1>1. \A i \in 1 .. Len(q) : q[i].num \in Nat
  BY Nums
<1>2. ASSUME NEW i \in 1 .. Len(q) PROVE q[i].num # e
  <2>1. s < q[i].num
    BY DEF DataLine
  <2> QED
    BY <1>1, <2>1
<1>3. DataLine(q, H, e, end, TRUE)
  BY DEF DataLine
<1> QED
  BY <1>2, <1>3

\* The line to rcopy when the other one gets shorter.
LEMMA AnswerStays ==
    ASSUME NEW q \in Seq(PacketType), q # <<>>, NEW r, NEW e, NEW low, NEW asked,
           AnswerLine(r, q, e, low, asked)
    PROVE  AnswerLine(r, Tail(q), e, low, asked)
<1> DEFINE t == Tail(q)
<1>1. \A i \in 1 .. Len(t) : i + 1 \in 1 .. Len(q) /\ t[i] = q[i + 1]
  BY TailIndex
<1> HIDE DEF t
<1>2. ASSUME \A j \in 1 .. Len(q) : q[j].num # e PROVE \A j \in 1 .. Len(t) : t[j].num # e
  BY <1>1, <1>2
<1>3. AnswerLine(r, t, e, low, asked)
  BY <1>2 DEF AnswerLine
<1> QED
  BY <1>3 DEF t

\* The head of the line to rcopy leaves it: lost, or an RR that moves rcopy's lower
\* edge to low2.
LEMMA AnswerTaken ==
    ASSUME NEW r \in Seq(PacketType), r # <<>>, NEW q, NEW e \in Nat, NEW low \in Nat, NEW asked,
           NEW low2, low2 = low \/ (IsGood(Head(r), "RR") /\ low2 = Head(r).num),
           AnswerLine(r, q, e, low, asked)
    PROVE  AnswerLine(Tail(r), q, e, low2, asked)
<1> DEFINE t == Tail(r)
<1>1. /\ Len(r) \in Nat /\ Len(t) = Len(r) - 1 /\ Len(t) \in Nat
      /\ 1 \in 1 .. Len(r) /\ Head(r) = r[1]
      /\ \A i \in 1 .. Len(t) : i + 1 \in 1 .. Len(r) /\ t[i] = r[i + 1]
  BY TailIndex
<1>2. \A i \in 1 .. Len(r) : r[i].num \in Nat
  BY Nums
<1> HIDE DEF t
<1>3. ASSUME NEW i \in 1 .. Len(t)
      PROVE  \/ IsGood(t[i], "RR") /\ low2 < t[i].num /\ t[i].num <= e
             \/ /\ IsGood(t[i], "SREJ") /\ t[i].num = e
                /\ i = Len(t) /\ asked
                /\ \A j \in 1 .. Len(q) : q[j].num # e
  <2> DEFINE n == i + 1
  <2>1. 1 < n /\ n \in 1 .. Len(r) /\ t[i] = r[n]
    BY <1>1
  <2>2. n = Len(r) => i = Len(t)
    BY <1>1
  <2> HIDE DEF n
  <2>3. IsGood(r[n], "SREJ") \/ low2 < r[n].num
    BY <1>1, <2>1 DEF AnswerLine
  <2>4. ~(IsGood(r[n], "RR") /\ IsGood(r[n], "SREJ"))
    BY DEF IsGood, get_flag
  <2>5. CASE IsGood(r[n], "SREJ")
    BY <2>1, <2>2, <2>4, <2>5 DEF AnswerLine
  <2>6. CASE ~IsGood(r[n], "SREJ")
    BY <2>1, <2>3, <2>6 DEF AnswerLine
  <2> QED
    BY <2>5, <2>6
<1>4. ASSUME NEW i \in 1 .. Len(t), NEW j \in 1 .. Len(t), i < j
      PROVE  t[i].num < t[j].num \/ IsGood(t[j], "SREJ")
  <2> DEFINE n == i + 1
             m == j + 1
  <2>1. n < m /\ n \in 1 .. Len(r) /\ m \in 1 .. Len(r) /\ t[i] = r[n] /\ t[j] = r[m]
    BY <1>1, <1>4
  <2> HIDE DEF n, m
  <2> QED
    BY <2>1 DEF AnswerLine
<1>5. AnswerLine(t, q, e, low2, asked)
  BY <1>3, <1>4 DEF AnswerLine
<1> QED
  BY <1>5 DEF t

\* What rcopy receives is an RR beyond its lower edge, or a SREJ, the last of the line.
LEMMA AnswerHead ==
    ASSUME NEW r \in Seq(PacketType), r # <<>>, NEW q, NEW e \in Nat, NEW low \in Nat, NEW asked,
           AnswerLine(r, q, e, low, asked)
    PROVE  \/ IsGood(Head(r), "RR") /\ low < Head(r).num /\ Head(r).num <= e
           \/ /\ IsGood(Head(r), "SREJ") /\ Head(r).num = e /\ Tail(r) = <<>> /\ asked
              /\ \A j \in 1 .. Len(q) : q[j].num # e
<1>1. /\ Len(r) \in Nat /\ Len(Tail(r)) = Len(r) - 1 /\ Tail(r) \in Seq(PacketType)
      /\ 1 \in 1 .. Len(r) /\ Head(r) = r[1]
  BY TailIndex
<1>2. Len(r) = 1 => Tail(r) = <<>>
  <2>1. Len(r) = 1 => Len(Tail(r)) = 0
    BY <1>1
  <2> QED
    BY <1>1, <2>1, EmptySeq
<1> QED
  BY <1>1, <1>2 DEF AnswerLine

\* The child receives what it expects, and forgets that it has asked for it.
LEMMA AnswerCleared ==
    ASSUME NEW q \in Seq(PacketType), q # <<>>, NEW r, NEW e, NEW low, NEW asked,
           AnswerLine(r, q, e, low, asked), Head(q).num = e
    PROVE  AnswerLine(r, Tail(q), e, low, FALSE)
<1>1. 1 \in 1 .. Len(q) /\ Head(q) = q[1]
  BY TailIndex
<1> QED
  BY <1>1 DEF AnswerLine

\* The child writes the packet it expects.
LEMMA AnswerWritten ==
    ASSUME NEW q, NEW r \in Seq(PacketType), NEW e \in Nat, NEW low \in Nat,
           AnswerLine(r, q, e, low, FALSE)
    PROVE  /\ AnswerLine(r, q, e + 1, low, FALSE)
           /\ \A i \in 1 .. Len(r) : r[i].num < e + 1
<1>1. \A i \in 1 .. Len(r) : r[i].num \in Nat
  BY Nums
<1>2. ASSUME NEW i \in 1 .. Len(r)
      PROVE  IsGood(r[i], "RR") /\ low < r[i].num /\ r[i].num <= e + 1 /\ r[i].num < e + 1
  BY <1>1 DEF AnswerLine
<1>3. \A i, j \in 1 .. Len(r) : i < j => r[i].num < r[j].num
  <2>1. \A i, j \in 1 .. Len(r) : i < j => r[i].num < r[j].num \/ IsGood(r[j], "SREJ")
    BY DEF AnswerLine
  <2> QED
    BY <1>2, <2>1 DEF IsGood, get_flag
<1> QED
  BY <1>2, <1>3 DEF AnswerLine

\* The child acknowledges what it has written.
LEMMA AnswerAcked ==
    ASSUME NEW q, NEW r \in Seq(PacketType), NEW e \in Nat, NEW low \in Nat,
           AnswerLine(r, q, e, low, FALSE), low < e, \A i \in 1 .. Len(r) : r[i].num < e,
           NEW p \in PacketType, IsGood(p, "RR"), p.num = e
    PROVE  AnswerLine(r \o <<p>>, q, e, low, FALSE)
<1> DEFINE t == r \o <<p>>
<1>1. /\ Len(r) \in Nat /\ Len(t) = Len(r) + 1
      /\ \A i \in 1 .. Len(t) : \/ i \in 1 .. Len(r) /\ t[i] = r[i]
                                \/ i = Len(r) + 1 /\ t[i] = p
  BY AppendIndex
<1> HIDE DEF t
<1>2. ASSUME NEW i \in 1 .. Len(t)
      PROVE  IsGood(t[i], "RR") /\ low < t[i].num /\ t[i].num <= e
  <2>1. CASE i \in 1 .. Len(r) /\ t[i] = r[i]
    BY <2>1 DEF AnswerLine
  <2>2. CASE t[i] = p
    BY <2>2
  <2> QED
    BY <1>1, <2>1, <2>2
<1>3. ASSUME NEW i \in 1 .. Len(t), NEW j \in 1 .. Len(t), i < j
      PROVE  t[i].num < t[j].num \/ IsGood(t[j], "SREJ")
  <2>0. i \in 1 .. Len(r) /\ t[i] = r[i]
    BY <1>1, <1>3
  <2>1. CASE j \in 1 .. Len(r) /\ t[j] = r[j]
    BY <1>3, <2>0, <2>1 DEF AnswerLine
  <2>2. CASE t[j] = p
    BY <2>0, <2>2
  <2> QED
    BY <1>1, <2>1, <2>2
<1>4. AnswerLine(t, q, e, low, FALSE)
  BY <1>2, <1>3 DEF AnswerLine
<1> QED
  BY <1>4 DEF t

\* The child asks for what is missing.
LEMMA AnswerAsked ==
    ASSUME NEW q, NEW r \in Seq(PacketType), NEW e \in Nat, NEW low \in Nat,
           AnswerLine(r, q, e, low, FALSE), \A j \in 1 .. Len(q) : q[j].num # e,
           NEW p \in PacketType, IsGood(p, "SREJ"), p.num = e
    PROVE  AnswerLine(r \o <<p>>, q, e, low, TRUE)
<1> DEFINE t == r \o <<p>>
<1>1. /\ Len(r) \in Nat /\ Len(t) = Len(r) + 1
      /\ \A i \in 1 .. Len(t) : \/ i \in 1 .. Len(r) /\ t[i] = r[i]
                                \/ i = Len(r) + 1 /\ t[i] = p
  BY AppendIndex
<1> HIDE DEF t
<1>2. ASSUME NEW i \in 1 .. Len(t)
      PROVE  \/ IsGood(t[i], "RR") /\ low < t[i].num /\ t[i].num <= e
             \/ IsGood(t[i], "SREJ") /\ t[i].num = e /\ i = Len(t)
  <2>1. CASE i \in 1 .. Len(r) /\ t[i] = r[i]
    BY <2>1 DEF AnswerLine
  <2>2. CASE i = Len(r) + 1 /\ t[i] = p
    BY <1>1, <2>2
  <2> QED
    BY <1>1, <2>1, <2>2
<1>3. ASSUME NEW i \in 1 .. Len(t), NEW j \in 1 .. Len(t), i < j
      PROVE  t[i].num < t[j].num \/ IsGood(t[j], "SREJ")
  <2>0. i \in 1 .. Len(r) /\ t[i] = r[i]
    BY <1>1, <1>3
  <2>1. CASE j \in 1 .. Len(r) /\ t[j] = r[j]
    BY <1>3, <2>0, <2>1 DEF AnswerLine
  <2>2. CASE t[j] = p
    BY <2>2
  <2> QED
    BY <1>1, <2>1, <2>2
<1>4. AnswerLine(t, q, e, low, TRUE)
  BY <1>2, <1>3 DEF AnswerLine
<1> QED
  BY <1>4 DEF t

-----------------------------------------------------------------------------
(* Both lines together, with all that holds of them while rcopy sends data: *)
(* busy if the child is writing, waits if rcopy waits for an answer; k is   *)
(* rcopy's retry counter and f the number of faults.                        *)

\* The edges of rcopy's window, and what the child holds.
Edges(H, e, low, end, asked, busy) ==
    /\ low <= e /\ e <= end
    /\ \A seq \in H : e <= seq /\ seq < end
    /\ busy => ~asked
    /\ ~busy => e \notin H /\ (asked <=> H # {})

\* A time-out has made rcopy repeat a packet that the child has written already.
Late(q, r, e, low, busy, waits, k) ==
    /\ waits /\ k >= 1 /\ ~busy /\ r = <<>>
    /\ q # <<>> /\ Tail(q) = <<>>
    /\ IsGood(Head(q), "DATA") /\ Head(q).num = low /\ low < e

\* The child is about to acknowledge more than it ever has.
Acknowledges(r, H, e, low, busy) ==
    busy /\ e \notin H => low < e /\ \A i \in 1 .. Len(r) : r[i].num < e

\* Each of rcopy's time-outs is paid for by a fault, and so is the next one if
\* nothing is left to come.
Paid(q, r, low, busy, k, f) ==
    /\ \A i \in 1 .. Len(q) : q[i].num = low
    /\ k <= f
    /\ q = <<>> /\ r = <<>> /\ ~busy => k + 1 <= f

\* Without a fault nothing is missing.
Intact(q, r, H, e, low, end, busy) ==
    /\ \A seq \in e .. end - 1 : seq \in H \/ \E i \in 1 .. Len(q) : q[i].num = seq
    /\ ~busy => low = e \/ \E i \in 1 .. Len(r) : IsGood(r[i], "RR") /\ r[i].num = e

Lines(q, r, H, e, low, end, asked, busy, waits, k, f) ==
    /\ Edges(H, e, low, end, asked, busy)
    /\ Late(q, r, e, low, busy, waits, k) \/ DataLine(q, H, e, end, asked)
    /\ AnswerLine(r, q, e, low, asked)
    /\ Acknowledges(r, H, e, low, busy)
    /\ waits => low < end
    /\ waits /\ k >= 1 => Paid(q, r, low, busy, k, f)
    /\ f = 0 => Intact(q, r, H, e, low, end, busy)

\* Nothing is on its way.
Rest(q, r) == q = <<>> /\ r = <<>>

\* The child asks with p unless it has asked already.
AsksOnce(r, r2, p, asked) == r2 = IF asked THEN r ELSE r \o <<p>>

\* The child acknowledges with p, and asks with s.
Answers(r, r2, p, s, asks, H) ==
    /\ asks <=> H # {}
    /\ r2 = IF asks THEN (r \o <<p>>) \o <<s>> ELSE r \o <<p>>

With(H, n) == H \cup {n}
Without(H, n) == H \ {n}

\* Hypotheses of the lemmas below that have names of their own, as the provers
\* would substitute them otherwise.
IsTrue(b) == b = TRUE
Numbered(p, n) == p.num = n

\* Nothing has been sent.
LEMMA LinesStart ==
    ASSUME NEW e \in Nat, NEW f \in Nat, NEW k
    PROVE  Lines(<<>>, <<>>, {}, e, e, e, FALSE, FALSE, FALSE, k, f)
<1>1. DataLine(<<>>, {}, e, e, FALSE) /\ AnswerLine(<<>>, <<>>, e, e, FALSE)
  BY LinesEmpty
<1>2. e .. e - 1 = {}
  OBVIOUS
<1>3. Intact(<<>>, <<>>, {}, e, e, e, FALSE)
  BY <1>2 DEF Intact
<1>4. Edges({}, e, e, e, FALSE, FALSE)
  BY DEF Edges
<1>5. Acknowledges(<<>>, {}, e, e, FALSE)
  BY DEF Acknowledges
<1> QED
  BY <1>1, <1>3, <1>4, <1>5, Zenon DEF Lines

\* rcopy reads and sends the next packet.
LEMMA LinesSend ==
    ASSUME NEW q \in Seq(PacketType), NEW r \in Seq(PacketType), NEW H \in SUBSET Nat,
           NEW e \in Nat, NEW low \in Nat, NEW end \in Nat, NEW asked \in BOOLEAN,
           NEW busy \in BOOLEAN, NEW waits, ~waits, NEW k, NEW k2, NEW f \in Nat,
           Lines(q, r, H, e, low, end, asked, busy, waits, k, f),
           NEW p \in PacketType, IsGood(p, "DATA"), p.num = end
    PROVE  Lines(q \o <<p>>, r, H, e, low, end + 1, asked, busy, waits, k2, f)
<1> DEFINE t == q \o <<p>>
<1>1. Edges(H, e, low, end, asked, busy) /\ DataLine(q, H, e, end, asked)
      /\ AnswerLine(r, q, e, low, asked) /\ Acknowledges(r, H, e, low, busy)
      /\ (f = 0 => Intact(q, r, H, e, low, end, busy))
  BY DEF Lines, Late
<1>2. asked => e < end
  <2> SUFFICES ASSUME asked PROVE e < end
    OBVIOUS
  <2>1. ~busy /\ H # {} /\ e \notin H
    BY <1>1 DEF Edges
  <2>2. PICK seq \in H : TRUE
    BY <2>1
  <2>3. e <= seq /\ seq < end /\ seq # e /\ seq \in Nat
    BY <1>1, <2>1, <2>2 DEF Edges
  <2> QED
    BY <2>3
<1>3. DataLine(t, H, e, end + 1, asked) /\ AnswerLine(r, t, e, low, asked)
  <2>1. e <= end /\ \A seq \in H : seq < end
    BY <1>1 DEF Edges
  <2> QED
    BY <1>1, <1>2, <2>1, LinesSent
<1>4. Edges(H, e, low, end + 1, asked, busy)
  BY <1>1 DEF Edges
<1>5. /\ Len(q) \in Nat /\ Len(t) = Len(q) + 1
      /\ \A i \in 1 .. Len(t) : \/ i \in 1 .. Len(q) /\ t[i] = q[i]
                                \/ i = Len(q) + 1 /\ t[i] = p
  BY AppendIndex
<1> HIDE DEF t
<1>6. ASSUME f = 0 PROVE Intact(t, r, H, e, low, end + 1, busy)
  <2>1. Intact(q, r, H, e, low, end, busy)
    BY <1>1, <1>6
  <2>2. ASSUME NEW seq \in e .. end + 1 - 1 PROVE seq \in H \/ \E i \in 1 .. Len(t) : t[i].num = seq
    <3>1. CASE seq = end
      BY <1>5, <3>1
    <3>2. CASE seq # end
      <4>1. seq \in e .. end - 1
        BY <3>2
      <4>2. seq \in H \/ \E i \in 1 .. Len(q) : q[i].num = seq
        BY <2>1, <4>1 DEF Intact
      <4> QED
        BY <1>5, <4>2
    <3> QED
      BY <3>1, <3>2
  <2> QED
    BY <2>1, <2>2 DEF Intact
<1>7. Lines(t, r, H, e, low, end + 1, asked, busy, waits, k2, f)
  BY <1>1, <1>3, <1>4, <1>6 DEF Lines
<1> QED
  BY <1>7 DEF t

\* rcopy begins to wait for an answer, or stops waiting.
LEMMA LinesTurn ==
    ASSUME NEW q, NEW r, NEW H, NEW e \in Nat, NEW low \in Nat, NEW end \in Nat, NEW asked,
           NEW busy, NEW waits \in BOOLEAN, NEW k, NEW f,
           Lines(q, r, H, e, low, end, asked, busy, waits, k, f),
           ~Late(q, r, e, low, busy, waits, k),
           NEW waits2 \in BOOLEAN, NEW k2 \in Nat, waits2 => low # end /\ k2 = 0
    PROVE  Lines(q, r, H, e, low, end, asked, busy, waits2, k2, f)
<1>1. low <= e /\ e <= end
  BY DEF Lines, Edges
<1>2. waits2 => low < end
  BY <1>1
<1>3. ~(waits2 /\ k2 >= 1)
  OBVIOUS
<1> QED
  BY <1>2, <1>3 DEF Lines

\* rcopy receives an RR, which moves its lower edge.
LEMMA LinesAcked ==
    ASSUME NEW q \in Seq(PacketType), NEW r \in Seq(PacketType), r # <<>>,
           NEW H \in SUBSET Nat,
           NEW e \in Nat, NEW low \in Nat, NEW end \in Nat, NEW asked \in BOOLEAN,
           NEW busy \in BOOLEAN, NEW waits \in BOOLEAN, NEW waits2, ~waits2, NEW k, NEW f \in Nat,
           Lines(q, r, H, e, low, end, asked, busy, waits, k, f),
           IsGood(Head(r), "RR")
    PROVE  /\ Lines(q, Tail(r), H, e, Head(r).num, end, asked, busy, waits2, k, f)
           /\ low < Head(r).num /\ Head(r).num <= e
<1> DEFINE t == Tail(r)
           n == Head(r).num
<1>1. /\ Edges(H, e, low, end, asked, busy) /\ DataLine(q, H, e, end, asked)
      /\ AnswerLine(r, q, e, low, asked) /\ Acknowledges(r, H, e, low, busy)
      /\ (f = 0 => Intact(q, r, H, e, low, end, busy))
  BY DEF Lines, Late
<1>2. /\ Len(r) \in Nat /\ Len(t) = Len(r) - 1 /\ Len(t) \in Nat
      /\ 1 \in 1 .. Len(r) /\ r[1].num = n
      /\ \A i \in 1 .. Len(t) : i + 1 \in 1 .. Len(r) /\ t[i] = r[i + 1]
  BY TailIndex
<1>3. n \in Nat
  BY <1>2, Nums
<1>4. AnswerLine(t, q, e, n, asked)
  BY <1>1, AnswerTaken
<1>5. low < n /\ n <= e
  <2>1. ~IsGood(Head(r), "SREJ")
    BY DEF IsGood, get_flag
  <2> QED
    BY <1>1, <2>1, AnswerHead
<1> HIDE DEF t, n
<1>6. Edges(H, e, n, end, asked, busy)
  BY <1>1, <1>5 DEF Edges
<1>7. Acknowledges(t, H, e, n, busy)
  <2> SUFFICES ASSUME busy, e \notin H PROVE n < e /\ \A i \in 1 .. Len(t) : t[i].num < e
    BY DEF Acknowledges
  <2>1. \A i \in 1 .. Len(r) : r[i].num < e
    BY <1>1 DEF Acknowledges
  <2> QED
    BY <1>2, <2>1
<1>8. ASSUME f = 0 PROVE Intact(q, t, H, e, n, end, busy)
  <2>1. Intact(q, r, H, e, low, end, busy)
    BY <1>1, <1>8
  <2>2. ASSUME ~busy, n # e PROVE \E i \in 1 .. Len(t) : IsGood(t[i], "RR") /\ t[i].num = e
    <3>1. low # e
      BY <1>3, <1>5
    <3>2. PICK i \in 1 .. Len(r) : IsGood(r[i], "RR") /\ r[i].num = e
      BY <2>1, <2>2, <3>1 DEF Intact
    <3>3. i # 1
      BY <1>2, <2>2, <3>2
    <3> DEFINE j == i - 1
    <3>4. j \in 1 .. Len(t) /\ j + 1 = i
      BY <1>2, <3>3
    <3>5. t[j] = r[i]
      BY <1>2, <3>4
    <3> QED
      BY <3>2, <3>4, <3>5
  <2> QED
    BY <2>1, <2>2 DEF Intact
<1>9. Lines(q, t, H, e, n, end, asked, busy, waits2, k, f)
  BY <1>1, <1>4, <1>6, <1>7, <1>8 DEF Lines
<1> QED
  BY <1>5, <1>9 DEF t, n

\* rcopy receives a SREJ and sends the packet again.
LEMMA LinesRejected ==
    ASSUME NEW q \in Seq(PacketType), NEW r \in Seq(PacketType), r # <<>>,
           NEW H \in SUBSET Nat,
           NEW e \in Nat, NEW low \in Nat, NEW end \in Nat, NEW asked \in BOOLEAN,
           NEW busy \in BOOLEAN, NEW waits \in BOOLEAN, NEW waits2, ~waits2, NEW k, NEW f \in Nat,
           Lines(q, r, H, e, low, end, asked, busy, waits, k, f),
           ~IsGood(Head(r), "RR"),
           NEW p \in PacketType, IsGood(p, "DATA"), Numbered(p, Head(r).num)
    PROVE  /\ IsGood(Head(r), "SREJ") /\ Head(r).num = e /\ low <= e /\ e < end
           /\ Lines(q \o <<p>>, Tail(r), H, e, low, end, asked, busy, waits2, k, f)
<1> p.num = Head(r).num
  BY DEF Numbered
<1>1. /\ Edges(H, e, low, end, asked, busy) /\ DataLine(q, H, e, end, asked)
      /\ AnswerLine(r, q, e, low, asked) /\ Acknowledges(r, H, e, low, busy)
      /\ (f = 0 => Intact(q, r, H, e, low, end, busy))
  BY DEF Lines, Late
<1>2. /\ IsGood(Head(r), "SREJ") /\ Head(r).num = e /\ Tail(r) = <<>> /\ asked
      /\ \A j \in 1 .. Len(q) : q[j].num # e
  BY <1>1, AnswerHead
<1>3. ~busy /\ H # {} /\ e \notin H
  BY <1>1, <1>2 DEF Edges
<1>4. e < end /\ low <= e
  <2>1. PICK seq \in H : TRUE
    BY <1>3
  <2>2. e <= seq /\ seq < end /\ seq # e /\ seq \in Nat
    BY <1>1, <1>3, <2>1 DEF Edges
  <2> QED
    BY <1>1, <2>2 DEF Edges
<1>5. p.num = e
  BY <1>2
<1>6. Lines(q \o <<p>>, Tail(r), H, e, low, end, asked, busy, waits2, k, f)
  <2> DEFINE t == q \o <<p>>
  <2>1. DataLine(t, H, e, end, asked)
    BY <1>1, <1>2, <1>3, <1>4, <1>5, LinesResent
  <2>2. /\ Len(q) \in Nat /\ Len(t) = Len(q) + 1
        /\ \A i \in 1 .. Len(q) : i \in 1 .. Len(t)
        /\ \A i \in 1 .. Len(q) : t[i] = q[i]
    <3>1. /\ Len(q) \in Nat /\ Len(t) = Len(q) + 1
          /\ \A i \in 1 .. Len(t) : \/ i \in 1 .. Len(q) /\ t[i] = q[i]
                                    \/ i = Len(q) + 1 /\ t[i] = p
      BY <1>5, AppendIndex
    <3> HIDE DEF t
    <3> QED
      BY <3>1
  <2> HIDE DEF t
  <2>3. AnswerLine(<<>>, t, e, low, asked)
    BY LinesEmpty
  <2>4. Acknowledges(<<>>, H, e, low, busy)
    BY <1>3 DEF Acknowledges
  <2>5. ASSUME f = 0 PROVE Intact(t, <<>>, H, e, low, end, busy)
    <3>1. Intact(q, r, H, e, low, end, busy)
      BY <1>1, <2>5
    <3>2. Len(r) = 1
      <4>1. Len(Tail(r)) = Len(r) - 1 /\ Len(r) \in Nat
        BY TailIndex
      <4> QED
        BY <1>2, <4>1
    <3>3. ~ \E i \in 1 .. Len(r) : IsGood(r[i], "RR") /\ r[i].num = e
      <4>1. Head(r) = r[1]
        BY TailIndex
      <4> QED
        BY <3>2, <4>1
    <3>4. low = e
      BY <1>3, <3>1, <3>3 DEF Intact
    <3>5. \A seq \in e .. end - 1 : seq \in H \/ \E i \in 1 .. Len(t) : t[i].num = seq
      BY <2>2, <3>1 DEF Intact
    <3> QED
      BY <3>4, <3>5 DEF Intact
  <2>6. Lines(t, <<>>, H, e, low, end, asked, busy, waits2, k, f)
    BY <1>1, <2>1, <2>3, <2>4, <2>5 DEF Lines
  <2> QED
    BY <1>2, <2>6 DEF t
<1> QED
  BY <1>2, <1>4, <1>6

\* rcopy's timer runs out: there is a fault for it, and rcopy sends its lowest
\* packet again.
LEMMA LinesOver ==
    ASSUME NEW q, NEW r, Rest(q, r), NEW H \in SUBSET Nat,
           NEW e \in Nat, NEW low \in Nat, NEW end \in Nat, NEW asked \in BOOLEAN,
           NEW busy, ~busy, NEW waits, IsTrue(waits), NEW k \in Nat, NEW f \in Nat,
           Lines(q, r, H, e, low, end, asked, busy, waits, k, f)
    PROVE  k + 1 <= f /\ low < end
<1> waits
  BY DEF IsTrue
<1>1. /\ Edges(H, e, low, end, asked, busy) /\ low < end
      /\ k >= 1 => Paid(<<>>, <<>>, low, busy, k, f)
      /\ f = 0 => Intact(<<>>, <<>>, H, e, low, end, busy)
  BY DEF Lines, Rest
<1>2. f # 0
  <2> SUFFICES ASSUME f = 0 PROVE FALSE
    OBVIOUS
  <2>1. 1 .. Len(<<>>) = {}
    OBVIOUS
  <2>2. low = e /\ \A seq \in e .. end - 1 : seq \in H
    BY <1>1, <2>1 DEF Intact
  <2>3. e \in e .. end - 1
    BY <1>1, <2>2
  <2> QED
    BY <1>1, <2>2, <2>3 DEF Edges
<1>3. k + 1 <= f
  BY <1>1, <1>2 DEF Paid
<1> QED
  BY <1>1, <1>3

\* and it repeats its lowest packet.
LEMMA LinesTimeout ==
    ASSUME NEW q, NEW r, Rest(q, r), NEW H \in SUBSET Nat,
           NEW e \in Nat, NEW low \in Nat, NEW end \in Nat, NEW asked \in BOOLEAN,
           NEW busy, ~busy, NEW waits, IsTrue(waits), NEW k \in Nat, NEW f \in Nat,
           Lines(q, r, H, e, low, end, asked, busy, waits, k, f),
           NEW p \in PacketType, IsGood(p, "DATA"), Numbered(p, low)
    PROVE  Lines(<<p>>, r, H, e, low, end, asked, busy, waits, k + 1, f)
<1>0. k + 1 <= f /\ low < end
  BY LinesOver
<1> waits
  BY DEF IsTrue
<1>1. /\ Edges(H, e, low, end, asked, busy) /\ low < end
      /\ k >= 1 => Paid(<<>>, <<>>, low, busy, k, f)
      /\ f = 0 => Intact(<<>>, <<>>, H, e, low, end, busy)
  BY DEF Lines, Rest
<1>2. k + 1 <= f /\ f # 0
  BY <1>0
<1>4. Lines(<<p>>, r, H, e, low, end, asked, busy, waits, k + 1, f)
  <2>0. p.num = low
    BY DEF Numbered
  <2> DEFINE t == <<p>>
  <2>1. t # <<>> /\ Head(t) = p /\ Tail(t) = <<>> /\ Len(t) = 1 /\ t[1] = p
    OBVIOUS
  <2>2. low = e => DataLine(t, H, e, end, asked)
    <3> SUFFICES ASSUME low = e PROVE DataLine(t, H, e, end, asked)
      OBVIOUS
    <3>1. e < end /\ e \notin H /\ (asked \/ H = {})
      BY <1>1 DEF Edges
    <3> QED
      BY <2>0, <3>1, DataAlone
  <2> HIDE DEF t
  <2>3. low # e => Late(t, r, e, low, busy, waits, k + 1)
    BY <1>1, <2>0, <2>1 DEF Late, Edges, Rest
  <2>4. AnswerLine(r, t, e, low, asked)
    BY LinesEmpty DEF Rest
  <2>5. Acknowledges(r, H, e, low, busy)
    BY DEF Acknowledges
  <2>6. Paid(t, r, low, busy, k + 1, f)
    BY <1>2, <2>0, <2>1 DEF Paid
  <2>7. Late(t, r, e, low, busy, waits, k + 1) \/ DataLine(t, H, e, end, asked)
    BY <2>2, <2>3
  <2>8. Lines(t, r, H, e, low, end, asked, busy, waits, k + 1, f)
    BY <1>1, <1>2, <2>4, <2>5, <2>6, <2>7 DEF Lines
  <2> QED
    BY <2>8 DEF t
<1> QED
  BY <1>4

\* What the child receives.
LEMMA LinesHead ==
    ASSUME NEW q \in Seq(PacketType), q # <<>>, NEW r, NEW H,
           NEW e \in Nat, NEW low \in Nat, NEW end \in Nat, NEW asked,
           NEW busy, NEW waits, NEW k, NEW f,
           Lines(q, r, H, e, low, end, asked, busy, waits, k, f)
    PROVE  /\ IsGood(Head(q), "DATA")
           /\ Head(q).num < e => Late(q, r, e, low, busy, waits, k)
           /\ Head(q).num >= e => /\ ~Late(q, r, e, low, busy, waits, k)
                                  /\ Head(q).num < end /\ Head(q).num \notin H
<1>1. 1 \in 1 .. Len(q) /\ Head(q) = q[1]
  BY TailIndex
<1>2. q[1].num \in Nat
  BY <1>1, Nums
<1>3. CASE Late(q, r, e, low, busy, waits, k)
  BY <1>1, <1>2, <1>3 DEF Late
<1>4. CASE ~Late(q, r, e, low, busy, waits, k)
  <2>1. IsGood(q[1], "DATA") /\ q[1].num \in e .. end - 1 /\ q[1].num \notin H
    BY <1>1, <1>4 DEF Lines, DataLine
  <2> QED
    BY <1>1, <1>2, <1>4, <2>1
<1> QED
  BY <1>3, <1>4

\* It has written that packet already, and answers with an RR.
LEMMA LinesOutside ==
    ASSUME NEW q \in Seq(PacketType), q # <<>>, NEW r \in Seq(PacketType), NEW H \in SUBSET Nat,
           NEW e \in Nat, NEW low \in Nat, NEW end \in Nat, NEW asked \in BOOLEAN,
           NEW busy \in BOOLEAN, NEW waits \in BOOLEAN, NEW k \in Nat, NEW f \in Nat,
           Lines(q, r, H, e, low, end, asked, busy, waits, k, f),
           Head(q).num < e,
           NEW p \in PacketType, IsGood(p, "RR"), p.num = e
    PROVE  Lines(Tail(q), r \o <<p>>, H, e, low, end, asked, busy, waits, k, f)
<1>1. Late(q, r, e, low, busy, waits, k)
  BY LinesHead
<1>2. waits /\ k >= 1 /\ ~busy /\ r = <<>> /\ Tail(q) = <<>> /\ low < e
  BY <1>1 DEF Late
<1>3. r \o <<p>> = <<p>>
  BY <1>2
<1>4. Edges(H, e, low, end, asked, busy) /\ low < end /\ Paid(q, r, low, busy, k, f)
  BY <1>2 DEF Lines
<1>5. f # 0
  BY <1>2, <1>4 DEF Paid
<1>6. DataLine(<<>>, H, e, end, asked)
  BY LinesEmpty
<1>7. AnswerLine(<<p>>, <<>>, e, low, asked)
  BY <1>2, AnswerAlone
<1>8. Acknowledges(<<p>>, H, e, low, busy)
  BY <1>2 DEF Acknowledges
<1> DEFINE t == <<p>>
<1>9. t # <<>> /\ 1 .. Len(<<>>) = {}
  OBVIOUS
<1> HIDE DEF t
<1>10. Paid(<<>>, t, low, busy, k, f)
  BY <1>4, <1>9 DEF Paid
<1>11. Lines(<<>>, t, H, e, low, end, asked, busy, waits, k, f)
  BY <1>4, <1>5, <1>6, <1>7, <1>8, <1>10 DEF Lines, t
<1> QED
  BY <1>2, <1>3, <1>11 DEF t

\* It expects that packet, and goes on to write it.
LEMMA LinesExpected ==
    ASSUME NEW q \in Seq(PacketType), q # <<>>, NEW r \in Seq(PacketType), NEW H \in SUBSET Nat,
           NEW e \in Nat, NEW low \in Nat, NEW end \in Nat, NEW asked \in BOOLEAN,
           NEW busy, ~busy, NEW asked2 \in BOOLEAN, ~asked2, NEW busy2, IsTrue(busy2), NEW waits \in BOOLEAN, NEW k \in Nat, NEW f \in Nat,
           Lines(q, r, H, e, low, end, asked, busy, waits, k, f),
           Head(q).num = e
    PROVE  Lines(Tail(q), r, With(H, e), e, low, end, asked2, busy2, waits, k, f)
<1> busy2
  BY DEF IsTrue
<1> DEFINE t == Tail(q)
           G == H \cup {e}
<1>1. ~Late(q, r, e, low, busy, waits, k) /\ e < end
  <2>1. Head(q).num >= e => ~Late(q, r, e, low, busy, waits, k) /\ Head(q).num < end
    BY LinesHead, Zenon
  <2>2. e >= e
    OBVIOUS
  <2> QED
    BY <2>1, <2>2
<1>2. /\ Edges(H, e, low, end, asked, busy) /\ DataLine(q, H, e, end, asked)
      /\ AnswerLine(r, q, e, low, asked)
      /\ waits => low < end
      /\ waits /\ k >= 1 => Paid(q, r, low, busy, k, f)
      /\ f = 0 => Intact(q, r, H, e, low, end, busy)
  BY <1>1 DEF Lines
<1>3. DataLine(t, G, e, end, asked2)
  <2>1. DataLine(t, G, e, end, FALSE)
    BY <1>2, DataExpected
  <2>2. asked2 = FALSE
    OBVIOUS
  <2> QED
    BY <2>1, <2>2
<1>4. AnswerLine(r, t, e, low, asked2)
  <2>1. AnswerLine(r, t, e, low, FALSE)
    BY <1>2, AnswerCleared
  <2>2. asked2 = FALSE
    OBVIOUS
  <2> QED
    BY <2>1, <2>2
<1>5. /\ Len(q) \in Nat /\ Len(t) = Len(q) - 1 /\ Len(t) \in Nat
      /\ q[1].num = e
      /\ \A i \in 1 .. Len(t) : i + 1 \in 1 .. Len(q) /\ t[i] = q[i + 1]
  BY TailIndex
<1> HIDE DEF t
<1>6. Edges(G, e, low, end, asked2, busy2)
  BY <1>1, <1>2 DEF Edges
<1>7. Acknowledges(r, G, e, low, busy2)
  BY DEF Acknowledges
<1>8. ASSUME waits, k >= 1 PROVE Paid(t, r, low, busy2, k, f)
  BY <1>2, <1>5, <1>8 DEF Paid
<1>9. ASSUME f = 0 PROVE Intact(t, r, G, e, low, end, busy2)
  <2>1. ASSUME NEW seq \in e .. end - 1, seq \notin G PROVE \E i \in 1 .. Len(t) : t[i].num = seq
    <3>1. PICK i \in 1 .. Len(q) : q[i].num = seq
      BY <1>2, <1>9, <2>1 DEF Intact
    <3>2. i # 1
      BY <1>5, <2>1, <3>1
    <3> DEFINE j == i - 1
    <3>3. j \in 1 .. Len(t) /\ j + 1 = i
      BY <1>5, <3>2
    <3>4. t[j] = q[i]
      BY <1>5, <3>3
    <3> QED
      BY <3>1, <3>3, <3>4
  <2> QED
    BY <2>1 DEF Intact
<1> HIDE DEF G
<1>10. Lines(t, r, G, e, low, end, asked2, busy2, waits, k, f)
  BY <1>2, <1>3, <1>4, <1>6, <1>7, <1>8, <1>9 DEF Lines
<1> QED
  BY <1>10 DEF t, G, With

\* It is a later packet: the child keeps it, and asks for what is missing unless it
\* has done so.
LEMMA LinesLater ==
    ASSUME NEW q \in Seq(PacketType), q # <<>>, NEW r \in Seq(PacketType), NEW H \in SUBSET Nat,
           NEW e \in Nat, NEW low \in Nat, NEW end \in Nat, NEW asked \in BOOLEAN,
           NEW busy, ~busy, NEW asked2, IsTrue(asked2), NEW waits \in BOOLEAN, NEW k \in Nat, NEW f \in Nat,
           Lines(q, r, H, e, low, end, asked, busy, waits, k, f),
           Head(q).num > e,
           NEW p \in PacketType, IsGood(p, "SREJ"), p.num = e,
           NEW r2 \in Seq(PacketType), AsksOnce(r, r2, p, asked)
    PROVE  Lines(Tail(q), r2, With(H, Head(q).num), e, low, end, asked2, busy, waits, k, f)
<1> asked2 = TRUE
  BY DEF IsTrue
<1> DEFINE t == Tail(q)
           n == Head(q).num
           G == H \cup {n}
<1>1. /\ Len(q) \in Nat /\ Len(t) = Len(q) - 1 /\ Len(t) \in Nat
      /\ 1 \in 1 .. Len(q) /\ q[1].num = n
      /\ \A i \in 1 .. Len(t) : i + 1 \in 1 .. Len(q) /\ t[i] = q[i + 1]
  BY TailIndex
<1>2. n \in Nat /\ n > e /\ n >= e
  <2>1. n \in Nat
    BY <1>1, Nums
  <2> QED
    BY <2>1
<1>3. ~Late(q, r, e, low, busy, waits, k) /\ n < end
  <2>1. Head(q).num >= e => ~Late(q, r, e, low, busy, waits, k) /\ Head(q).num < end
    BY LinesHead, Zenon
  <2> QED
    BY <1>2, <2>1
<1>4. /\ Edges(H, e, low, end, asked, busy) /\ DataLine(q, H, e, end, asked)
      /\ AnswerLine(r, q, e, low, asked)
      /\ waits => low < end
      /\ waits /\ k >= 1 => Paid(q, r, low, busy, k, f)
      /\ f = 0 => Intact(q, r, H, e, low, end, busy)
  BY <1>3 DEF Lines
<1>5. n # e
  BY <1>2
<1>6. DataLine(t, G, e, end, asked2) /\ (~asked => \A i \in 1 .. Len(t) : t[i].num # e)
  BY <1>4, <1>5, DataLater
<1>7. AnswerLine(r, t, e, low, asked)
  BY <1>4, AnswerStays
<1>8. AnswerLine(r2, t, e, low, asked2)
  <2>1. CASE asked
    BY <1>7, <2>1 DEF AsksOnce
  <2>2. CASE ~asked
    <3>1. AnswerLine(r, t, e, low, FALSE)
      BY <1>7, <2>2
    <3> HIDE DEF t
    <3> QED
      BY <1>6, <2>2, <3>1, AnswerAsked DEF AsksOnce
  <2> QED
    BY <2>1, <2>2
<1>9. Edges(G, e, low, end, asked2, busy)
  <2>1. low <= e /\ e <= end /\ e \notin H /\ \A seq \in H : e <= seq /\ seq < end
    BY <1>4 DEF Edges
  <2>2. \A seq \in G : e <= seq /\ seq < end
    BY <1>2, <1>3, <2>1
  <2>3. e \notin G /\ G # {}
    BY <1>5, <2>1
  <2> HIDE DEF G
  <2> QED
    BY <2>1, <2>2, <2>3 DEF Edges
<1>10. Acknowledges(r2, G, e, low, busy)
  BY DEF Acknowledges
<1> HIDE DEF t, n
<1>11. ~(waits /\ k >= 1)
  <2> SUFFICES ASSUME waits, k >= 1 PROVE FALSE
    OBVIOUS
  <2>1. q[1].num = low /\ low <= e
    BY <1>1, <1>4 DEF Paid, Edges
  <2> QED
    BY <1>1, <1>2, <2>1
<1>12. ASSUME f = 0 PROVE Intact(t, r2, G, e, low, end, busy)
  <2>1. Intact(q, r, H, e, low, end, busy)
    BY <1>4, <1>12
  <2>2. ASSUME NEW seq \in e .. end - 1, seq \notin G PROVE \E i \in 1 .. Len(t) : t[i].num = seq
    <3>1. PICK i \in 1 .. Len(q) : q[i].num = seq
      BY <2>1, <2>2 DEF Intact
    <3>2. i # 1
      BY <1>1, <2>2, <3>1
    <3> DEFINE j == i - 1
    <3>3. j \in 1 .. Len(t) /\ j + 1 = i
      BY <1>1, <3>2
    <3>4. t[j] = q[i]
      BY <1>1, <3>3
    <3> QED
      BY <3>1, <3>3, <3>4
  <2>3. ASSUME NEW i \in 1 .. Len(r) PROVE i \in 1 .. Len(r2) /\ r2[i] = r[i]
    <3>1. /\ Len(r) \in Nat /\ Len(r \o <<p>>) = Len(r) + 1
          /\ \A j \in 1 .. Len(r \o <<p>>) : \/ j \in 1 .. Len(r) /\ (r \o <<p>>)[j] = r[j]
                                             \/ j = Len(r) + 1 /\ (r \o <<p>>)[j] = p
      BY AppendIndex
    <3> DEFINE s == r \o <<p>>
    <3>2. Len(r) \in Nat /\ Len(s) = Len(r) + 1
          /\ \A j \in 1 .. Len(s) : (j \in 1 .. Len(r) /\ s[j] = r[j]) \/ j = Len(r) + 1
      BY <3>1
    <3> HIDE DEF s
    <3>3. i \in 1 .. Len(s) /\ s[i] = r[i]
      BY <3>2
    <3> QED
      BY <3>3 DEF s, AsksOnce
  <2>4. low = e \/ \E i \in 1 .. Len(r2) : IsGood(r2[i], "RR") /\ r2[i].num = e
    BY <2>1, <2>3 DEF Intact
  <2> QED
    BY <2>2, <2>4 DEF Intact
<1> HIDE DEF G
<1>13. Lines(t, r2, G, e, low, end, asked2, busy, waits, k, f)
  BY <1>4, <1>6, <1>8, <1>9, <1>10, <1>11, <1>12 DEF Lines
<1> QED
  BY <1>13 DEF t, n, G, With

\* The child writes a packet.
LEMMA LinesWrite ==
    ASSUME NEW q \in Seq(PacketType), NEW r \in Seq(PacketType), NEW H \in SUBSET Nat,
           NEW e \in Nat, NEW low \in Nat, NEW end \in Nat, NEW asked \in BOOLEAN,
           NEW busy, IsTrue(busy), NEW waits \in BOOLEAN, NEW k \in Nat, NEW f \in Nat,
           Lines(q, r, H, e, low, end, asked, busy, waits, k, f),
           e \in H
    PROVE  Lines(q, r, Without(H, e), e + 1, low, end, asked, busy, waits, k, f)
<1> busy
  BY DEF IsTrue
<1> DEFINE G == H \ {e}
<1>1. /\ Edges(H, e, low, end, asked, busy) /\ DataLine(q, H, e, end, asked)
      /\ AnswerLine(r, q, e, low, asked)
      /\ waits => low < end
      /\ waits /\ k >= 1 => Paid(q, r, low, busy, k, f)
      /\ f = 0 => Intact(q, r, H, e, low, end, busy)
  BY DEF Lines, Late
<1>2. asked = FALSE /\ low <= e /\ e < end
  BY <1>1 DEF Edges
<1>3. DataLine(q, H, e, end, FALSE) /\ AnswerLine(r, q, e, low, FALSE)
  BY <1>1, <1>2
<1>4. DataLine(q, G, e + 1, end, FALSE)
  BY <1>3, DataWritten
<1>5. AnswerLine(r, q, e + 1, low, FALSE) /\ \A i \in 1 .. Len(r) : r[i].num < e + 1
  BY <1>3, AnswerWritten
<1>6. Edges(G, e + 1, low, end, FALSE, busy)
  <2>1. ASSUME NEW seq \in G PROVE e + 1 <= seq /\ seq < end
    <3>1. e <= seq /\ seq < end /\ seq # e /\ seq \in Nat
      BY <1>1, <2>1 DEF Edges
    <3> QED
      BY <3>1
  <2>2. low <= e + 1 /\ e + 1 <= end
    BY <1>2
  <2> HIDE DEF G
  <2> QED
    BY <2>1, <2>2 DEF Edges
<1>7. Acknowledges(r, G, e + 1, low, busy)
  BY <1>2, <1>5 DEF Acknowledges
<1>8. ASSUME f = 0 PROVE Intact(q, r, G, e + 1, low, end, busy)
  <2>1. ASSUME NEW seq \in e + 1 .. end - 1 PROVE seq \in G \/ \E i \in 1 .. Len(q) : q[i].num = seq
    <3>1. seq \in e .. end - 1 /\ seq # e
      BY <2>1
    <3> QED
      BY <1>1, <1>8, <3>1 DEF Intact
  <2> QED
    BY <2>1 DEF Intact
<1> DEFINE n == e + 1
<1>9. /\ Edges(G, n, low, end, FALSE, busy) /\ DataLine(q, G, n, end, FALSE)
      /\ AnswerLine(r, q, n, low, FALSE) /\ Acknowledges(r, G, n, low, busy)
      /\ (f = 0 => Intact(q, r, G, n, low, end, busy))
  BY <1>4, <1>5, <1>6, <1>7, <1>8
<1> HIDE DEF G, n
<1>10. Lines(q, r, G, n, low, end, asked, busy, waits, k, f)
  BY <1>1, <1>2, <1>9 DEF Lines
<1> QED
  BY <1>10 DEF G, n, Without

\* The child has written all it can: it acknowledges, and asks for the next gap if
\* it holds anything.
LEMMA LinesAnswer ==
    ASSUME NEW q \in Seq(PacketType), NEW r \in Seq(PacketType), NEW H \in SUBSET Nat,
           NEW e \in Nat, NEW low \in Nat, NEW end \in Nat, NEW asked \in BOOLEAN,
           NEW busy, IsTrue(busy), NEW busy2, ~busy2, NEW waits \in BOOLEAN, NEW k \in Nat, NEW f \in Nat,
           Lines(q, r, H, e, low, end, asked, busy, waits, k, f),
           e \notin H,
           NEW p \in PacketType, IsGood(p, "RR"), p.num = e,
           NEW s \in PacketType, IsGood(s, "SREJ"), s.num = e,
           NEW asked2 \in BOOLEAN, NEW r2 \in Seq(PacketType), Answers(r, r2, p, s, asked2, H)
    PROVE  Lines(q, r2, H, e, low, end, asked2, busy2, waits, k, f)
<1> busy
  BY DEF IsTrue
<1> DEFINE t == r \o <<p>>
<1>1. /\ Edges(H, e, low, end, asked, busy) /\ DataLine(q, H, e, end, asked)
      /\ AnswerLine(r, q, e, low, asked) /\ Acknowledges(r, H, e, low, busy)
      /\ waits => low < end
      /\ waits /\ k >= 1 => Paid(q, r, low, busy, k, f)
      /\ f = 0 => Intact(q, r, H, e, low, end, busy)
  BY DEF Lines, Late
<1>2. asked = FALSE
  BY <1>1 DEF Edges
<1>3. DataLine(q, H, e, end, FALSE) /\ AnswerLine(r, q, e, low, FALSE)
  BY <1>1, <1>2
<1>4. low < e /\ \A i \in 1 .. Len(r) : r[i].num < e
  BY <1>1 DEF Acknowledges
<1>5. /\ Len(r) \in Nat /\ Len(t) = Len(r) + 1 /\ t \in Seq(PacketType)
      /\ \A i \in 1 .. Len(t) : \/ i \in 1 .. Len(r) /\ t[i] = r[i]
                                \/ i = Len(r) + 1 /\ t[i] = p
  BY AppendIndex
<1>6. AnswerLine(t, q, e, low, FALSE)
  BY <1>3, <1>4, AnswerAcked
<1> HIDE DEF t
<1>7. r2 = IF asked2 THEN t \o <<s>> ELSE t
  BY DEF t, Answers
<1>a. asked2 <=> H # {}
  BY DEF Answers
<1>8. AnswerLine(r2, q, e, low, asked2) /\ DataLine(q, H, e, end, asked2)
  <2>1. CASE ~asked2
    <3>1. asked2 = FALSE /\ r2 = t
      BY <1>7, <2>1
    <3> QED
      BY <1>3, <1>6, <3>1
  <2>2. CASE asked2
    <3>1. asked2 = TRUE /\ r2 = t \o <<s>>
      BY <1>7, <2>2
    <3>2. PICK m \in H : m > e
      <4>1. PICK m \in H : TRUE
        BY <2>2, <1>a
      <4>2. e <= m /\ m # e /\ m \in Nat
        BY <1>1, <4>1 DEF Edges
      <4> QED
        BY <4>1, <4>2
    <3>3. DataLine(q, H, e, end, TRUE) /\ \A i \in 1 .. Len(q) : q[i].num # e
      BY <1>3, <3>2, DataAsked
    <3>4. AnswerLine(t \o <<s>>, q, e, low, TRUE)
      BY <1>5, <1>6, <3>3, AnswerAsked
    <3> QED
      BY <3>1, <3>3, <3>4
  <2> QED
    BY <2>1, <2>2
<1>9. \E i \in 1 .. Len(r2) : IsGood(r2[i], "RR") /\ r2[i].num = e
  <2> DEFINE n == Len(r) + 1
  <2>1. n \in 1 .. Len(t) /\ t[n] = p
    BY <1>5
  <2>2. Len(t) \in Nat /\ Len(t \o <<s>>) = Len(t) + 1
        /\ \A i \in 1 .. Len(t \o <<s>>) : \/ i \in 1 .. Len(t) /\ (t \o <<s>>)[i] = t[i]
                                           \/ i = Len(t) + 1 /\ (t \o <<s>>)[i] = s
    BY <1>5, AppendIndex
  <2> HIDE DEF n
  <2> DEFINE u == t \o <<s>>
  <2>3. n \in 1 .. Len(u) /\ u[n] = p
    <3>1. Len(t) \in Nat /\ Len(u) = Len(t) + 1
          /\ \A i \in 1 .. Len(u) : (i \in 1 .. Len(t) /\ u[i] = t[i]) \/ i = Len(t) + 1
      BY <2>2
    <3> HIDE DEF u
    <3> QED
      BY <2>1, <3>1
  <2>4. n \in 1 .. Len(r2) /\ r2[n] = p
    <3>1. r2 \in {t, u}
      BY <1>7
    <3> HIDE DEF u
    <3> QED
      BY <2>1, <2>3, <3>1
  <2> QED
    BY <2>4
<1>10. Edges(H, e, low, end, asked2, busy2)
  BY <1>1, <1>a DEF Edges
<1>11. Acknowledges(r2, H, e, low, busy2)
  BY DEF Acknowledges
<1>12. r2 # <<>>
  BY <1>9
<1>13. ASSUME waits, k >= 1 PROVE Paid(q, r2, low, busy2, k, f)
  BY <1>1, <1>12, <1>13 DEF Paid
<1>14. ASSUME f = 0 PROVE Intact(q, r2, H, e, low, end, busy2)
  BY <1>1, <1>9, <1>14 DEF Intact
<1> QED
  BY <1>1, <1>8, <1>10, <1>11, <1>13, <1>14 DEF Lines

\* A packet to the child is lost.
LEMMA LinesLoseData ==
    ASSUME NEW q \in Seq(PacketType), q # <<>>, NEW r \in Seq(PacketType), NEW H \in SUBSET Nat,
           NEW e \in Nat, NEW low \in Nat, NEW end \in Nat, NEW asked \in BOOLEAN,
           NEW busy \in BOOLEAN, NEW waits \in BOOLEAN, NEW k \in Nat, NEW f \in Nat,
           Lines(q, r, H, e, low, end, asked, busy, waits, k, f)
    PROVE  Lines(Tail(q), r, H, e, low, end, asked, busy, waits, k, f + 1)
<1> DEFINE t == Tail(q)
<1>1. /\ Edges(H, e, low, end, asked, busy) /\ AnswerLine(r, q, e, low, asked)
      /\ Acknowledges(r, H, e, low, busy) /\ (waits => low < end)
      /\ waits /\ k >= 1 => Paid(q, r, low, busy, k, f)
  BY DEF Lines
<1>2. DataLine(t, H, e, end, asked)
  <2>1. CASE Late(q, r, e, low, busy, waits, k)
    BY <2>1, LinesEmpty DEF Late
  <2>2. CASE ~Late(q, r, e, low, busy, waits, k)
    BY <2>2, DataTaken DEF Lines
  <2> QED
    BY <2>1, <2>2
<1>3. AnswerLine(r, t, e, low, asked)
  BY <1>1, AnswerStays
<1>4. \A i \in 1 .. Len(t) : i + 1 \in 1 .. Len(q) /\ t[i] = q[i + 1]
  BY TailIndex
<1> HIDE DEF t
<1>5. ASSUME waits, k >= 1 PROVE Paid(t, r, low, busy, k, f + 1)
  BY <1>1, <1>4, <1>5 DEF Paid
<1>6. f + 1 # 0
  OBVIOUS
<1> DEFINE g == f + 1
<1>7. g # 0 /\ (waits /\ k >= 1 => Paid(t, r, low, busy, k, g))
  BY <1>5, <1>6
<1> HIDE DEF g
<1>8. Lines(t, r, H, e, low, end, asked, busy, waits, k, g)
  BY <1>1, <1>2, <1>3, <1>7 DEF Lines
<1> QED
  BY <1>8 DEF t, g

\* A packet to rcopy is lost.
LEMMA LinesLoseAnswer ==
    ASSUME NEW q \in Seq(PacketType), NEW r \in Seq(PacketType), r # <<>>, NEW H \in SUBSET Nat,
           NEW e \in Nat, NEW low \in Nat, NEW end \in Nat, NEW asked \in BOOLEAN,
           NEW busy \in BOOLEAN, NEW waits \in BOOLEAN, NEW k \in Nat, NEW f \in Nat,
           Lines(q, r, H, e, low, end, asked, busy, waits, k, f)
    PROVE  Lines(q, Tail(r), H, e, low, end, asked, busy, waits, k, f + 1)
<1> DEFINE t == Tail(r)
<1>1. /\ Edges(H, e, low, end, asked, busy) /\ AnswerLine(r, q, e, low, asked)
      /\ DataLine(q, H, e, end, asked)
      /\ Acknowledges(r, H, e, low, busy) /\ (waits => low < end)
      /\ waits /\ k >= 1 => Paid(q, r, low, busy, k, f)
  BY DEF Lines, Late
<1>2. AnswerLine(t, q, e, low, asked)
  BY <1>1, AnswerTaken
<1>3. \A i \in 1 .. Len(t) : i + 1 \in 1 .. Len(r) /\ t[i] = r[i + 1]
  BY TailIndex
<1> HIDE DEF t
<1>4. Acknowledges(t, H, e, low, busy)
  BY <1>1, <1>3 DEF Acknowledges
<1>5. ASSUME waits, k >= 1 PROVE Paid(q, t, low, busy, k, f + 1)
  BY <1>1, <1>5 DEF Paid
<1>6. f + 1 # 0
  OBVIOUS
<1> DEFINE g == f + 1
<1>7. g # 0 /\ (waits /\ k >= 1 => Paid(q, t, low, busy, k, g))
  BY <1>5, <1>6
<1> HIDE DEF g
<1>8. Lines(q, t, H, e, low, end, asked, busy, waits, k, g)
  BY <1>1, <1>2, <1>4, <1>7 DEF Lines
<1> QED
  BY <1>8 DEF t, g

-----------------------------------------------------------------------------
(* The phases of a copy as long as there have been fewer faults than rcopy  *)
(* has tries.                                                               *)

\* The network does nothing but lose packets, and files can be opened, read and
\* written, if only in part.
LossOnly == FaultKinds \subseteq {"lose"} /\ IoFaults \subseteq {"short write"}

\* A child waits for DONE as often as rcopy repeats EOF.
Patient == RcopyTries <= ServerTries

\* The model has a child for each FILENAME that rcopy can send.
EnoughChildren == IsFiniteSet(Child) => Cardinality(Child) >= RcopyTries

Waits == state = "WAIT_ON_ACK" /\ at = "wait"

\* A child that rcopy does not talk to: all it can do is end, after ten seconds.
Orphan(d) ==
    /\ inbox[d] = <<>> /\ ~writing[d]
    /\ child_state[d] \in {"UNUSED", "RECV_DATA", "DONE"}

\* rcopy talks to one child and only this one talks to it.
Solitary ==
    /\ server \in Child
    /\ inbox[Main] = <<>>
    /\ \A d \in Child \ {server} : Orphan(d)
    /\ From(inbox[Client], {server})

\* rcopy sends data.
DataPhase ==
    /\ child_state[server] = "RECV_DATA" /\ ~failed[server]
    /\ state = "SEND_DATA" => at \in {"run", "poll"} /\ retry_count = 0
    /\ state = "WAIT_ON_ACK" => at = "wait" \/ (at = "poll" /\ got_control)
    /\ Lines(inbox[server], inbox[Client], Held(buffer[server]), buffer[server].expected,
             window.lower, window.current, buffer[server].missing_active,
             writing[server], Waits, retry_count, faults)

Resting == inbox[server] = <<>> /\ inbox[Client] = <<>>

\* rcopy sends EOF until the child acknowledges it: either of them repeats itself
\* only if the EOF or the EOF_ACK has been lost.
EofPhase ==
    /\ child_state[server] \in {"RECV_DATA", "WAIT_ON_DONE"} /\ ~writing[server]
    /\ tries + child_retry[server] <= faults
    /\ \/ at = "run" /\ Resting
       \/ at = "wait" /\ Resting /\ tries + child_retry[server] + 1 <= faults
       \/ /\ at = "wait" /\ inbox[Client] = <<>>
          /\ inbox[server] = <<make_packet(Client, "EOF", 0, Nil)>>
       \/ /\ at = "wait" /\ inbox[server] = <<>>
          /\ inbox[Client] = <<send_eof_ack(server)>>
          /\ child_state[server] = "WAIT_ON_DONE"

\* The numbers and sets of this phase.
LEMMA DataFacts ==
    ASSUME FileFits, CopyInv, Solitary, child_state[server] = "RECV_DATA",
           state \in {"SEND_DATA", "WAIT_ON_ACK"}
    PROVE  /\ server \in Child /\ server \in Address
           /\ inbox[server] \in Seq(PacketType) /\ inbox[Client] \in Seq(PacketType)
           /\ IsBuffer(buffer[server], Chunk) /\ serves(server)
           /\ buffer[server].size = WindowSize
           /\ BufferHolds(buffer[server], Payload, EndSeq)
           /\ buffer[server].expected \in SeqNum /\ buffer[server].expected \in Nat
           /\ buffer[server].expected + buffer[server].size < SeqSpace
           /\ Held(buffer[server]) \in SUBSET Nat
           /\ buffer[server].missing_active \in BOOLEAN /\ writing[server] \in BOOLEAN
           /\ IsWindow(window, Chunk) /\ window.size = WindowSize
           /\ WindowHolds(window, Payload)
           /\ window.lower \in Nat /\ window.current \in Nat
           /\ window.lower \in SeqNum /\ window.current \in SeqNum
           /\ window.current + window.size < SeqSpace
           /\ window.current = FIRST_DATA_SEQ + read_pos
           /\ WindowSize \in Nat \ {0}
           /\ retry_count \in Nat /\ faults \in Nat /\ RcopyTries \in Nat
<1> USE DEF CopyInv
<1>1. server \in Child /\ server \in Address /\ Client \in Address
  BY Addresses DEF Solitary
<1>2. inbox[server] \in Seq(PacketType) /\ inbox[Client] \in Seq(PacketType)
  BY <1>1, Queues
<1>3. /\ IsBuffer(buffer[server], Chunk) /\ serves(server)
      /\ buffer[server].size = WindowSize
      /\ buffer[server].expected \in SeqNum /\ buffer[server].expected \in Nat
      /\ buffer[server].expected + buffer[server].size < SeqSpace
  BY <1>1, BufferBounds
<1>4. BufferHolds(buffer[server], Payload, EndSeq)
  BY <1>1, <1>3 DEF ServerRight, ChildRight
<1>5. WindowSize \in Nat \ {0} /\ RcopyTries \in Nat
  BY Bounds
<1>6. Held(buffer[server]) \in SUBSET Nat
  <2>1. Held(buffer[server]) \subseteq
            buffer[server].expected .. buffer[server].expected + buffer[server].size - 1
    BY <1>3, <1>4, <1>5, HeldIs
  <2> QED
    BY <1>3, <2>1
<1>7. buffer[server].missing_active \in BOOLEAN /\ writing[server] \in BOOLEAN
  BY <1>1, <1>3 DEF IsBuffer, TypeInv, TypeOK, ServerTypeOK
<1>8. IsWindow(window, Chunk) /\ window.size = WindowSize
  BY DEF TypeInv, TypeOK, RcopyTypeOK, RcopyReady
<1>9. WindowHolds(window, Payload) /\ window.current = FIRST_DATA_SEQ + read_pos
  BY <1>5, <1>8 DEF RcopyRight
<1>10. window.lower \in SeqNum /\ window.current \in SeqNum
  BY <1>8 DEF IsWindow
<1>11. window.lower \in Nat /\ window.current \in Nat
  BY <1>10, PacketAssumption DEF SeqNum
<1>12. window.current + window.size < SeqSpace
  BY <1>5, <1>8, WindowBounds
<1>13. retry_count \in Nat /\ faults \in Nat
  BY Bounds DEF TypeInv, TypeOK, RcopyTypeOK, NetworkTypeOK
<1> QED
  BY <1>1, <1>2, <1>3, <1>4, <1>5, <1>6, <1>7, <1>8, <1>9, <1>10, <1>11, <1>12, <1>13

\* A step of rcopy, which takes at most one packet from its queue and sends at most
\* one to its child.
LEMMA RcopySolitary ==
    ASSUME TypeInv, Solitary, UNCHANGED serverVars, server' = server,
           NEW box \in {inbox, Taken(Client)}, box = inbox \/ inbox[Client] # <<>>,
           inbox' = box \/ \E p : inbox' = Posted(box, server, <<p>>)
    PROVE  Solitary' /\ inbox'[Client] = box[Client] /\ box[server] = inbox[server]
<1>1. inbox = [a \in Address |-> inbox[a]] /\ \A a \in Address : inbox[a] \in Seq(PacketType)
  BY Queues
<1>2. /\ box = [a \in Address |-> box[a]]
      /\ \A a \in Address \ {Client} : box[a] = inbox[a]
  BY <1>1 DEF Taken
<1>3. \A a \in Address \ {server} : inbox'[a] = box[a]
  BY <1>2, Addresses DEF Posted, Solitary
<1>4. server # Client /\ server # Main /\ server \in Address
  BY Addresses DEF Solitary
<1>5. From(box[Client], {server})
  <2>1. CASE box = inbox
    BY <2>1 DEF Solitary
  <2>2. CASE box = Taken(Client) /\ inbox[Client] # <<>>
    <3>1. From(Tail(inbox[Client]), {server})
      BY <1>1, <2>2, Addresses, FromTaken DEF Solitary
    <3> QED
      BY <1>1, <2>2, <3>1, Addresses DEF Taken
  <2> QED
    BY <2>1, <2>2
<1>6. \A d \in Child \ {server} : Orphan(d)'
  BY <1>2, <1>3, Addresses DEF Solitary, Orphan, serverVars
<1>7. inbox'[Main] = <<>> /\ inbox'[Client] = box[Client]
  BY <1>2, <1>3, <1>4, Addresses DEF Solitary
<1>8. From(inbox'[Client], {server'})
  BY <1>5, <1>7
<1> QED
  BY <1>2, <1>4, <1>6, <1>7, <1>8 DEF Solitary

\* The truth value of "waits" is what counts.
LEMMA LinesSame ==
    ASSUME NEW q, NEW r, NEW H, NEW e, NEW low, NEW end, NEW asked, NEW busy,
           NEW waits, NEW waits2, NEW k, NEW f, waits <=> waits2,
           Lines(q, r, H, e, low, end, asked, busy, waits, k, f)
    PROVE  Lines(q, r, H, e, low, end, asked, busy, waits2, k, f)
BY DEF Lines, Late

\* send_data_state sends the next packet.
LEMMA SendPhase ==
    ASSUME FileFits, CopyInv, Solitary, DataPhase, send_data, UNCHANGED serverVars
    PROVE  Solitary' /\ DataPhase' /\ state' = "SEND_DATA"
<1> DEFINE q == inbox[server]
           r == inbox[Client]
           H == Held(buffer[server])
           e == buffer[server].expected
           low == window.lower
           end == window.current
           asked == buffer[server].missing_active
           busy == writing[server]
           w == Waits
           k == retry_count
           f == faults
           p == make_packet(Client, "DATA", window.current, File[read_pos + 1])
<1>1. /\ state = "SEND_DATA" /\ state' = "SEND_DATA" /\ at' = "poll" /\ retry_count' = 0
      /\ server' = server /\ faults' = faults /\ read_pos' = read_pos + 1
      /\ read_pos < Len(File)
      /\ inbox' = Posted(inbox, server, <<p>>)
      /\ window' = window_add(window, window.current, File[read_pos + 1])
  BY DEF send_data, rcopy_sends
<1>2. UNCHANGED <<child_state, writing, buffer, failed>>
  BY DEF serverVars
<1>3. /\ server \in Address /\ q \in Seq(PacketType) /\ r \in Seq(PacketType)
      /\ H \in SUBSET Nat /\ e \in Nat /\ asked \in BOOLEAN /\ busy \in BOOLEAN
      /\ low \in Nat /\ end \in Nat /\ end \in SeqNum
      /\ end = FIRST_DATA_SEQ + read_pos
      /\ window.size = WindowSize /\ WindowSize \in Nat \ {0}
      /\ f \in Nat /\ IsWindow(window, Chunk)
  BY <1>1, DataFacts DEF DataPhase
<1>4. Solitary' /\ inbox'[Client] = r
  BY <1>1, RcopySolitary DEF CopyInv
<1>5. inbox'[server] = q \o <<p>>
  BY <1>1, <1>3, Queues DEF Posted, CopyInv
<1>6. p \in PacketType /\ IsGood(p, "DATA") /\ p.num = end
  <2>1. read_pos \in Nat
    BY DEF CopyInv, TypeInv, TypeOK, RcopyTypeOK
  <2>2. File[read_pos + 1] \in Chunk
    BY <1>1, <2>1, Bounds, FilePart
  <2> QED
    BY <1>3, <2>2, Addresses DEF make_packet, PacketType, Flag, IsGood, check_packet, get_flag
<1>7. window'.lower = low /\ window'.current = end + 1
  <2>1. window'.size = window.size /\ window.size > 0
    BY <1>1, <1>3 DEF window_add, IsWindow
  <2>2. RcopyRight' /\ window'.lower = window.lower
    BY <2>1, SendDataRight
  <2>3. window'.current = FIRST_DATA_SEQ + read_pos'
    BY <2>1, <2>2 DEF RcopyRight
  <2> QED
    BY <1>1, <1>3, <2>2, <2>3 DEF FIRST_DATA_SEQ, CopyInv, TypeInv, TypeOK, RcopyTypeOK
<1>8. w = FALSE /\ Waits' = FALSE
  BY <1>1 DEF Waits
<1>9. Lines(q, r, H, e, low, end, asked, busy, w, k, f)
  BY DEF DataPhase
<1>10. child_state'[server'] = "RECV_DATA" /\ ~failed'[server']
  BY <1>1, <1>2 DEF DataPhase
<1>11. /\ Held(buffer'[server']) = H /\ buffer'[server'].expected = e
       /\ buffer'[server'].missing_active = asked /\ writing'[server'] = busy
       /\ faults' = f
  BY <1>1, <1>2
<1> HIDE DEF q, r, H, e, low, end, asked, busy, w, k, f, p
<1>13. Lines(q \o <<p>>, r, H, e, low, end + 1, asked, busy, w, 0, f)
  BY <1>3, <1>6, <1>8, <1>9, LinesSend
<1>14. Lines(inbox'[server'], inbox'[Client], Held(buffer'[server']), buffer'[server'].expected,
             window'.lower, window'.current, buffer'[server'].missing_active,
             writing'[server'], Waits', retry_count', faults')
  BY <1>1, <1>4, <1>5, <1>7, <1>8, <1>11, <1>13
<1>15. DataPhase'
  BY <1>1, <1>10, <1>14 DEF DataPhase
<1> QED
  BY <1>1, <1>4, <1>15

\* rcopy goes on without sending or receiving.
LEMMA TurnPhase ==
    ASSUME FileFits, CopyInv, Solitary, DataPhase, ~Waits,
           state \in {"SEND_DATA", "WAIT_ON_ACK"},
           UNCHANGED <<serverVars, inbox, faults, server, window>>, retry_count' = 0,
           \/ state' = "SEND_DATA" /\ at' \in {"run", "poll"}
           \/ state' = "WAIT_ON_ACK" /\ at' = "wait" /\ window.lower # window.current
    PROVE  Solitary' /\ DataPhase'
<1> DEFINE q == inbox[server]
           r == inbox[Client]
           H == Held(buffer[server])
           e == buffer[server].expected
           low == window.lower
           end == window.current
           asked == buffer[server].missing_active
           busy == writing[server]
           w == Waits
           w2 == Waits'
           k == retry_count
           k2 == retry_count'
           f == faults
<1>1. UNCHANGED <<child_state, writing, buffer, failed>>
  BY DEF serverVars
<1>2. Solitary'
  BY <1>1 DEF Solitary, Orphan
<1>3. /\ e \in Nat /\ low \in Nat /\ end \in Nat /\ w \in BOOLEAN /\ w2 \in BOOLEAN /\ k2 \in Nat
      /\ k2 = 0 /\ (w2 => low # end)
  BY DataFacts DEF DataPhase, Waits
<1>4. Lines(q, r, H, e, low, end, asked, busy, w, k, f) /\ ~w
  BY DEF DataPhase
<1>5. /\ inbox'[server'] = q /\ inbox'[Client] = r /\ Held(buffer'[server']) = H
      /\ buffer'[server'].expected = e /\ window'.lower = low /\ window'.current = end
      /\ buffer'[server'].missing_active = asked /\ writing'[server'] = busy
      /\ Waits' = w2 /\ retry_count' = k2 /\ faults' = f
  BY <1>1
<1>6. child_state'[server'] = "RECV_DATA" /\ ~failed'[server']
  BY <1>1 DEF DataPhase
<1> HIDE DEF q, r, H, e, low, end, asked, busy, w, w2, k, k2, f
<1>7. ~Late(q, r, e, low, busy, w, k)
  BY <1>4 DEF Late
<1>8. Lines(q, r, H, e, low, end, asked, busy, w2, k2, f)
  BY <1>3, <1>4, <1>7, LinesTurn
<1>9. DataPhase'
  BY <1>5, <1>6, <1>8 DEF DataPhase
<1> QED
  BY <1>2, <1>9

\* The phases that follow the data.
LEMMA AllAcknowledged ==
    ASSUME FileFits, CopyInv, Solitary, DataPhase, ~Waits,
           state \in {"SEND_DATA", "WAIT_ON_ACK"}, window.lower = window.current
    PROVE  inbox[server] = <<>> /\ inbox[Client] = <<>> /\ ~writing[server]
<1> DEFINE q == inbox[server]
           r == inbox[Client]
           H == Held(buffer[server])
           e == buffer[server].expected
           low == window.lower
           end == window.current
           asked == buffer[server].missing_active
           busy == writing[server]
           w == Waits
           k == retry_count
           f == faults
<1>1. /\ e \in Nat /\ low \in Nat /\ end \in Nat /\ low = end /\ H \in SUBSET Nat
      /\ q \in Seq(PacketType) /\ r \in Seq(PacketType) /\ asked \in BOOLEAN /\ busy \in BOOLEAN
  BY DataFacts DEF DataPhase
<1>2. Lines(q, r, H, e, low, end, asked, busy, w, k, f) /\ ~w
  BY DEF DataPhase
<1> HIDE DEF q, r, H, e, low, end, asked, busy, w, k, f
<1>3. /\ Edges(H, e, low, end, asked, busy) /\ DataLine(q, H, e, end, asked)
      /\ AnswerLine(r, q, e, low, asked) /\ Acknowledges(r, H, e, low, busy)
  BY <1>2 DEF Lines, Late
<1>4. e = low /\ H = {} /\ ~busy /\ ~asked
  <2>1. e = low
    BY <1>1, <1>3 DEF Edges
  <2>2. H = {}
    <3>1. ASSUME NEW seq \in H PROVE FALSE
      BY <1>1, <1>3, <2>1, <3>1 DEF Edges
    <3> QED
      BY <3>1
  <2>3. ~busy
    BY <1>1, <1>3, <2>1, <2>2 DEF Acknowledges
  <2> QED
    BY <1>3, <2>1, <2>2, <2>3 DEF Edges
<1>5. q = <<>>
  <2> SUFFICES ASSUME q # <<>> PROVE FALSE
    OBVIOUS
  <2>1. 1 \in 1 .. Len(q)
    BY <1>1, TailIndex
  <2>2. q[1].num \in e .. end - 1
    BY <1>3, <2>1 DEF DataLine
  <2> QED
    BY <1>1, <1>4, <2>2
<1>6. r = <<>>
  <2> SUFFICES ASSUME r # <<>> PROVE FALSE
    OBVIOUS
  <2>1. CASE IsGood(Head(r), "RR")
    <3>1. ~IsGood(Head(r), "SREJ")
      BY <2>1 DEF IsGood, get_flag
    <3>2. low < Head(r).num /\ Head(r).num <= e
      BY <1>1, <1>3, <3>1, AnswerHead
    <3>3. Head(r).num \in Nat
      BY <1>1, TailIndex, Nums
    <3> QED
      BY <1>1, <1>4, <3>2, <3>3
  <2>2. CASE ~IsGood(Head(r), "RR")
    BY <1>1, <1>3, <1>4, <2>2, AnswerHead
  <2> QED
    BY <2>1, <2>2
<1> QED
  BY <1>4, <1>5, <1>6 DEF q, r, busy

\* process_controls: an RR moves the window, a SREJ is answered with the packet it
\* asks for, and nothing else comes.
LEMMA ControlPhase ==
    ASSUME FileFits, CopyInv, Solitary, DataPhase, NEW p, process_controls_recv(p),
           UNCHANGED serverVars
    PROVE  Solitary' /\ DataPhase' /\ state' = state /\ UNCHANGED <<had_error, faults>>
<1> DEFINE q == inbox[server]
           r == inbox[Client]
           H == Held(buffer[server])
           e == buffer[server].expected
           low == window.lower
           end == window.current
           asked == buffer[server].missing_active
           busy == writing[server]
           w == Waits
           w2 == Waits'
           k == retry_count
           f == faults
           n == p.num
           sent == make_packet(Client, "DATA", p.num, window.entry[p.num % window.size].data)
<1>1. /\ state \in {"SEND_DATA", "WAIT_ON_ACK"} /\ Arrives(Client, p) /\ server' = p.from
      /\ at' = "poll" /\ UNCHANGED <<state, had_error, retry_count, faults>>
      /\ \/ IsGood(p, "RR") /\ handle_rr(p) /\ got_control'
         \/ IsGood(p, "SREJ") /\ handle_reject(p) /\ got_control'
         \/ ~IsGood(p, "RR") /\ ~IsGood(p, "SREJ")
  BY DEF process_controls_recv
<1>2. UNCHANGED <<child_state, writing, buffer, failed>>
  BY DEF serverVars
<1>3. /\ server \in Address /\ q \in Seq(PacketType) /\ r \in Seq(PacketType)
      /\ H \in SUBSET Nat /\ e \in Nat /\ asked \in BOOLEAN /\ busy \in BOOLEAN
      /\ low \in Nat /\ end \in Nat /\ end + window.size < SeqSpace
      /\ window.size = WindowSize /\ WindowSize \in Nat \ {0}
      /\ f \in Nat /\ IsWindow(window, Chunk) /\ WindowHolds(window, Payload)
      /\ w \in BOOLEAN
  BY <1>1, DataFacts DEF DataPhase, Waits
<1>4. r # <<>> /\ Head(r) = p /\ p \in PacketType /\ n \in SeqNum
  <2>1. r # <<>> /\ Head(r) = p
    BY <1>1 DEF Arrives
  <2>2. p \in PacketType
    BY <1>3, <2>1, TailIndex, Nums
  <2> QED
    BY <2>1, <2>2 DEF PacketType
<1>5. server' = server
  <2>1. Head(r).from \in {server}
    BY <1>3, <1>4, FromTaken DEF Solitary
  <2> QED
    BY <1>1, <1>4, <2>1
<1>6. Lines(q, r, H, e, low, end, asked, busy, w, k, f)
  BY DEF DataPhase
<1>7. sent \in PacketType /\ IsGood(sent, "DATA") /\ Numbered(sent, n)
  <2>1. window.entry[p.num % window.size].data \in Chunk
    BY <1>3, <1>4, SlotData DEF CopyInv, TypeInv, TypeOK
  <2> QED
    BY <1>4, <2>1, Addresses
       DEF make_packet, PacketType, Flag, IsGood, check_packet, get_flag, Numbered
<1>8. ~w2
  BY <1>1 DEF Waits
<1>9. child_state'[server'] = "RECV_DATA" /\ ~failed'[server']
  BY <1>2, <1>5 DEF DataPhase
<1>10. /\ Held(buffer'[server']) = H /\ buffer'[server'].expected = e
       /\ buffer'[server'].missing_active = asked /\ writing'[server'] = busy
       /\ Waits' = w2 /\ retry_count' = k /\ faults' = f
  BY <1>1, <1>2, <1>5
<1>11. inbox = [a \in Address |-> inbox[a]] /\ TypeInv /\ server # Client
  BY Queues, Addresses DEF CopyInv, Solitary
<1>12. Taken(Client)[Client] = Tail(r) /\ Taken(Client)[server] = q
  BY <1>3, <1>11, Addresses DEF Taken
<1>13. \A i \in low .. end - 1 : window_find(window, i)
  BY <1>3 DEF WindowHolds
<1> DEFINE Control == state' = "SEND_DATA" => at' \in {"run", "poll"} /\ retry_count' = 0
<1>14. Control
  BY <1>1 DEF DataPhase
<1>15. CASE IsGood(p, "RR")
  <2>1. handle_rr(p) /\ got_control'
    BY <1>1, <1>15 DEF IsGood, get_flag
  <2>2. Solitary' /\ inbox'[Client] = Tail(r) /\ inbox'[server'] = q
    <3>1. inbox' = Taken(Client)
      BY <2>1 DEF handle_rr
    <3>2. Solitary'
      BY <1>4, <1>5, <1>11, <3>1, RcopySolitary
    <3> QED
      BY <1>5, <1>12, <3>1, <3>2
  <2>3. /\ Lines(q, Tail(r), H, e, Head(r).num, end, asked, busy, w2, k, f)
        /\ low < Head(r).num /\ Head(r).num <= e
    <3> HIDE DEF q, r, H, e, low, end, asked, busy, w, w2, k, f, n, sent
    <3> QED
      BY <1>3, <1>4, <1>6, <1>8, <1>15, LinesAcked
  <2>4. n \in low .. end
    <3>1. e <= end
      BY <1>6 DEF Lines, Edges
    <3>2. n \in Nat
      BY <1>4, PacketAssumption DEF SeqNum
    <3> QED
      BY <1>3, <1>4, <2>3, <3>1, <3>2
  <2>5. window'.lower = n /\ window'.current = end
    <3>1. window' = window_rr(window, p.num)
      BY <2>1 DEF handle_rr
    <3> QED
      BY <1>3, <1>4, <2>4, <3>1, WindowRRHolds
  <2>6. Lines(q, Tail(r), H, e, n, end, asked, busy, w2, k, f)
    BY <1>4, <2>3
  <2> HIDE DEF q, r, H, e, low, end, asked, busy, w, w2, k, f, n, sent
  <2>7. DataPhase'
    BY <1>1, <1>9, <1>10, <1>14, <2>1, <2>2, <2>5, <2>6 DEF DataPhase
  <2> QED
    BY <1>1, <2>2, <2>7
<1>16. CASE ~IsGood(p, "RR")
  <2>1. /\ IsGood(Head(r), "SREJ") /\ Head(r).num = e /\ low <= e /\ e < end
        /\ Lines(q \o <<sent>>, Tail(r), H, e, low, end, asked, busy, w2, k, f)
    <3> HIDE DEF q, r, H, e, low, end, asked, busy, w, w2, k, f, n, sent
    <3>1. ~IsGood(Head(r), "RR") /\ Numbered(sent, Head(r).num)
      BY <1>4, <1>7, <1>16 DEF n
    <3>2. /\ q \in Seq(PacketType) /\ r \in Seq(PacketType) /\ r # <<>> /\ H \in SUBSET Nat
          /\ e \in Nat /\ low \in Nat /\ end \in Nat /\ asked \in BOOLEAN /\ busy \in BOOLEAN
          /\ w \in BOOLEAN /\ ~w2 /\ f \in Nat /\ sent \in PacketType /\ IsGood(sent, "DATA")
      BY <1>3, <1>4, <1>7, <1>8
    <3> QED
      BY <1>6, <3>1, <3>2, LinesRejected
  <2>2. handle_reject(p) /\ got_control'
    BY <1>1, <1>4, <1>16, <2>1
  <2>3. window_find(window, p.num)
    BY <1>3, <1>4, <1>13, <2>1
  <2>4. inbox' = Posted(Taken(Client), server, <<sent>>) /\ window' = window
    BY <1>1, <1>5, <2>2, <2>3 DEF handle_reject
  <2>5. Solitary' /\ inbox'[Client] = Tail(r)
    <3>1. Taken(Client) \in {inbox, Taken(Client)}
          /\ (Taken(Client) = inbox \/ inbox[Client] # <<>>)
      BY <1>4
    <3>2. inbox' = Taken(Client) \/ \E s : inbox' = Posted(Taken(Client), server, <<s>>)
      BY <2>4
    <3> QED
      BY <1>5, <1>11, <1>12, <3>1, <3>2, RcopySolitary
  <2>6. inbox'[server'] = q \o <<sent>>
    <3>1. Taken(Client) = [a \in Address |-> Taken(Client)[a]]
      BY <1>11 DEF Taken
    <3> QED
      BY <1>3, <1>5, <1>12, <2>4, <3>1 DEF Posted
  <2>7. window'.lower = low /\ window'.current = end
    BY <2>4
  <2> HIDE DEF q, r, H, e, low, end, asked, busy, w, w2, k, f, n, sent
  <2>8. DataPhase'
    BY <1>1, <1>9, <1>10, <1>14, <2>1, <2>2, <2>5, <2>6, <2>7 DEF DataPhase
  <2> QED
    BY <1>1, <2>5, <2>8
<1> QED
  BY <1>15, <1>16

\* wait_on_ack_state's timer runs out.
LEMMA TimeoutPhase ==
    ASSUME FileFits, Timely, CopyInv, Solitary, DataPhase, wait_on_ack_timeout, OneSecondOver,
           UNCHANGED serverVars, faults < RcopyTries
    PROVE  /\ Solitary' /\ DataPhase' /\ state' = "WAIT_ON_ACK"
           /\ UNCHANGED <<had_error, faults>>
<1> DEFINE q == inbox[server]
           r == inbox[Client]
           H == Held(buffer[server])
           e == buffer[server].expected
           low == window.lower
           end == window.current
           asked == buffer[server].missing_active
           busy == writing[server]
           w == Waits
           k == retry_count
           f == faults
           unacked == window_unacked(window)
           sent == make_packet(Client, "DATA", low, window.entry[low % window.size].data)
<1>1. /\ state = "WAIT_ON_ACK" /\ at = "wait" /\ not_answered
      /\ UNCHANGED <<server, window, faults>>
  BY DEF wait_on_ack_timeout
<1>2. UNCHANGED <<child_state, writing, buffer, failed>>
  BY DEF serverVars
<1>3. /\ server \in Address /\ server \in Child
      /\ q \in Seq(PacketType) /\ r \in Seq(PacketType)
      /\ H \in SUBSET Nat /\ e \in Nat /\ asked \in BOOLEAN /\ busy \in BOOLEAN
      /\ low \in Nat /\ low \in SeqNum /\ end \in Nat
      /\ window.size = WindowSize
      /\ k \in Nat /\ f \in Nat /\ RcopyTries \in Nat /\ WindowHolds(window, Payload)
  BY <1>1, DataFacts DEF DataPhase
<1>4. q = <<>> /\ r = <<>> /\ ~busy
  BY <1>1, <1>3 DEF OneSecondOver, Quiet, live, DataPhase
<1>5. Rest(q, r) /\ IsTrue(w)
  BY <1>1, <1>4 DEF Rest, IsTrue, Waits
<1>6. Lines(q, r, H, e, low, end, asked, busy, w, k, f)
  BY DEF DataPhase
<1>7. k + 1 <= f /\ low < end
  <2> HIDE DEF q, r, H, e, low, end, asked, busy, w, k, f
  <2> QED
    BY <1>3, <1>4, <1>5, <1>6, LinesOver
<1>8. unacked # {} /\ Min(unacked) = low
  <2>1. unacked \in SUBSET Nat /\ \A n \in unacked : low <= n
    BY <1>3 DEF window_unacked
  <2>2. low \in unacked
    BY <1>3, <1>7 DEF window_unacked, WindowHolds
  <2> HIDE DEF unacked, low
  <2>3. Min(unacked) \in unacked /\ \A n \in unacked : Min(unacked) <= n
    BY <2>1, <2>2, MinProperties
  <2>4. Min(unacked) \in Nat /\ low \in Nat /\ Min(unacked) <= low /\ low <= Min(unacked)
    BY <2>1, <2>2, <2>3
  <2> QED
    BY <2>2, <2>4
<1>9. /\ retry_count' = k + 1 /\ ~(k + 1 >= RcopyTries)
      /\ resend_packet(inbox, low) /\ at' = "wait" /\ UNCHANGED <<state, had_error>>
  <2>1. ~(retry_count + 1 >= RcopyTries)
    BY <1>3, <1>7
  <2>2. /\ retry_count' = retry_count + 1
        /\ IF retry_count + 1 >= RcopyTries
           THEN Finish(TRUE) /\ UNCHANGED <<at, inbox>>
           ELSE /\ resend_packet(inbox, Min(unacked))
                /\ at' = "wait"
                /\ UNCHANGED <<state, had_error>>
    BY <1>1, <1>8 DEF not_answered
  <2>3. resend_packet(inbox, Min(unacked)) /\ at' = "wait" /\ UNCHANGED <<state, had_error>>
    BY <2>1, <2>2
  <2> HIDE DEF unacked
  <2> QED
    BY <1>8, <2>1, <2>2, <2>3
<1>10. sent \in PacketType /\ IsGood(sent, "DATA") /\ Numbered(sent, low)
  <2>1. window.entry[low % window.size].data \in Chunk
    BY <1>3, SlotData DEF CopyInv, TypeInv, TypeOK
  <2> QED
    BY <1>3, <2>1, Addresses
       DEF make_packet, PacketType, Flag, IsGood, check_packet, get_flag, Numbered
<1>11. inbox' = Posted(inbox, server, <<sent>>)
  BY <1>9 DEF resend_packet, rcopy_sends
<1>12. Solitary' /\ inbox'[Client] = r
  BY <1>1, <1>11, RcopySolitary DEF CopyInv
<1>13. inbox'[server] = <<sent>>
  BY <1>3, <1>4, <1>11, Queues DEF Posted, CopyInv
<1>14. child_state'[server] = "RECV_DATA" /\ ~failed'[server']
  BY <1>1, <1>2 DEF DataPhase
<1>15. Waits' = w
  BY <1>1, <1>9 DEF Waits
<1>16. /\ Held(buffer'[server']) = H /\ buffer'[server'].expected = e
       /\ buffer'[server'].missing_active = asked /\ writing'[server'] = busy
       /\ faults' = f /\ window'.lower = low /\ window'.current = end /\ server' = server
  BY <1>1, <1>2
<1> HIDE DEF q, r, H, e, low, end, asked, busy, w, k, f, sent
<1>17. Lines(<<sent>>, r, H, e, low, end, asked, busy, w, k + 1, f)
  BY <1>3, <1>4, <1>5, <1>6, <1>10, LinesTimeout
<1>18. DataPhase'
  BY <1>1, <1>9, <1>12, <1>13, <1>14, <1>15, <1>16, <1>17 DEF DataPhase
<1> QED
  BY <1>1, <1>9, <1>12, <1>18

\* send_data_state's loop ends.
LEMMA LeavePhase ==
    ASSUME FileFits, CopyInv, Solitary, DataPhase, send_data_end_of_file \/ send_data_leave,
           UNCHANGED serverVars
    PROVE  /\ Solitary' /\ UNCHANGED <<had_error, faults>>
           /\ \/ state' = "WAIT_ON_ACK" /\ DataPhase'
              \/ state' = "SEND_EOF" /\ EofPhase'
<1>1. /\ state = "SEND_DATA" /\ at = "run" /\ tries' = 0
      /\ UNCHANGED <<server, window, had_error, retry_count, inbox, faults>>
      /\ \E done \in BOOLEAN : after_sending(done) /\ (done \/ ~window_open(window))
  BY DEF send_data_end_of_file, send_data_leave, after_sending, networkVars, may_send,
         CopyInv, TypeInv, TypeOK, RcopyTypeOK
<1>2. /\ retry_count = 0 /\ ~Waits /\ child_state[server] = "RECV_DATA"
  BY <1>1 DEF DataPhase, Waits
<1>3. /\ WindowHolds(window, Payload) /\ window.lower \in Nat /\ window.current \in Nat
      /\ window.size = WindowSize /\ WindowSize \in Nat \ {0} /\ server \in Child
      /\ faults \in Nat
  BY <1>1, <1>2, DataFacts
<1>4. UNCHANGED <<child_state, writing, buffer, failed, child_retry>>
  BY DEF serverVars
<1>5. PICK done \in BOOLEAN : after_sending(done) /\ (done \/ ~window_open(window))
  BY <1>1
<1>6. CASE done /\ window_empty(window)
  <2>1. window.lower = window.current
    BY <1>6 DEF window_empty
  <2>2. Resting /\ ~writing[server]
    BY <1>1, <1>2, <2>1, AllAcknowledged DEF Resting
  <2>3. state' = "SEND_EOF" /\ at' = "run"
    BY <1>5, <1>6 DEF after_sending
  <2>4. child_retry[server] = 0
    BY <1>2, <1>3 DEF CopyInv, TypeInv, ServerReady, ChildReady
  <2>5. 0 + 0 <= faults
    BY <1>3
  <2>6. EofPhase'
    BY <1>1, <1>2, <1>4, <2>2, <2>3, <2>4, <2>5 DEF EofPhase, Resting
  <2>7. Solitary'
    BY <1>1, <1>4 DEF Solitary, Orphan
  <2> QED
    BY <1>1, <2>3, <2>6, <2>7
<1>7. CASE ~(done /\ window_empty(window))
  <2>1. window.lower # window.current
    <3>1. ~window_open(window) => window.lower # window.current
      BY <1>3 DEF window_open, WindowHolds
    <3> QED
      BY <1>5, <1>7, <3>1 DEF window_empty
  <2>2. state' = "WAIT_ON_ACK" /\ at' = "wait"
    BY <1>5, <1>7 DEF after_sending
  <2>3. Solitary' /\ DataPhase'
    BY <1>1, <1>2, <2>1, <2>2, TurnPhase
  <2> QED
    BY <1>1, <2>2, <2>3
<1> QED
  BY <1>6, <1>7

\* Whatever rcopy does while it sends data.
LEMMA RcopyData ==
    ASSUME FileFits, Timely, LossOnly, CopyInv, Solitary, DataPhase, RcopyNext,
           state \in {"SEND_DATA", "WAIT_ON_ACK"}, faults < RcopyTries
    PROVE  /\ Solitary' /\ UNCHANGED <<had_error, faults>>
           /\ \/ state' \in {"SEND_DATA", "WAIT_ON_ACK"} /\ DataPhase'
              \/ state' = "SEND_EOF" /\ EofPhase'
<1>1. UNCHANGED serverVars
  BY DEF RcopyNext
<1>2. CASE send_data
  <2>1. UNCHANGED <<had_error, faults>>
    BY <1>2 DEF send_data
  <2> QED
    BY <1>1, <1>2, <2>1, SendPhase
<1>3. CASE send_data_end_of_file \/ send_data_leave
  BY <1>1, <1>3, LeavePhase
<1>4. CASE send_data_drained
  <2>1. /\ state = "SEND_DATA" /\ state' = "SEND_DATA" /\ at' = "run"
        /\ UNCHANGED <<server, window, had_error, retry_count, inbox, faults>>
    BY <1>4 DEF send_data_drained, networkVars
  <2>2. ~Waits /\ retry_count = 0
    BY <2>1 DEF Waits, DataPhase
  <2> QED
    BY <1>1, <2>1, <2>2, TurnPhase
<1>5. CASE wait_on_ack_drained
  <2>1. state = "WAIT_ON_ACK" /\ at = "poll" /\ UNCHANGED <<server, window, faults>>
    BY <1>5 DEF wait_on_ack_drained
  <2>2. got_control
    BY <2>1 DEF DataPhase
  <2>3. retry_count' = 0 /\ state' = "SEND_DATA" /\ at' = "run" /\ UNCHANGED <<had_error, inbox>>
    BY <1>5, <2>2 DEF wait_on_ack_drained, to_send_data
  <2>4. ~Waits
    BY <2>1 DEF Waits
  <2> QED
    BY <1>1, <2>1, <2>3, <2>4, TurnPhase
<1>6. ASSUME NEW p, process_controls_recv(p)
      PROVE  /\ Solitary' /\ UNCHANGED <<had_error, faults>>
             /\ state' \in {"SEND_DATA", "WAIT_ON_ACK"} /\ DataPhase'
  BY <1>1, <1>6, ControlPhase
<1>7. CASE OneSecondOver /\ wait_on_ack_timeout
  BY <1>1, <1>7, TimeoutPhase
<1>8. ~send_data_read_error
  BY DEF send_data_read_error, LossOnly
<1>9. /\ ~filename_send /\ ~filename_timeout /\ ~eof_send /\ ~eof_timeout
      /\ \A p : ~filename_recv(p) /\ ~eof_recv(p)
  BY DEF filename_send, filename_timeout, eof_send, eof_timeout, filename_recv, eof_recv
<1> QED
  BY <1>2, <1>3, <1>4, <1>5, <1>6, <1>7, <1>8, <1>9 DEF RcopyNext, RcopyStep, RcopyTimeout

-----------------------------------------------------------------------------
(* The children while rcopy sends data.                                    *)

\* What a child does concerns its own state only.
LEMMA ChildOwn ==
    ASSUME TypeInv, NEW c \in Child, ChildNext(c)
    PROVE  /\ UNCHANGED rcopyVars /\ faults' = faults
           /\ \A d \in Child \ {c} :
                 /\ child_state'[d] = child_state[d] /\ writing'[d] = writing[d]
                 /\ buffer'[d] = buffer[d] /\ failed'[d] = failed[d]
                 /\ child_retry'[d] = child_retry[d]
<1> DEFINE Own == \A d \in Child \ {c} :
                     /\ child_state'[d] = child_state[d] /\ writing'[d] = writing[d]
                     /\ buffer'[d] = buffer[d] /\ failed'[d] = failed[d]
                     /\ child_retry'[d] = child_retry[d]
<1>1. /\ child_state = [d \in Child |-> child_state[d]] /\ writing = [d \in Child |-> writing[d]]
      /\ buffer = [d \in Child |-> buffer[d]] /\ failed = [d \in Child |-> failed[d]]
      /\ child_retry = [d \in Child |-> child_retry[d]]
  BY DEF TypeInv, TypeOK, ServerTypeOK
<1>2. filename_open(c) \/ filename_open_error(c) => Own /\ faults' = faults
  BY <1>1 DEF filename_open, filename_open_error, Fails, GoesTo
<1>3. ASSUME NEW p, recv_data(c, p) PROVE Own /\ faults' = faults
  <2>1. /\ UNCHANGED <<child_state, failed, child_retry, faults>>
        /\ \/ UNCHANGED <<buffer, writing>>
           \/ (\E b : buffer' = [buffer EXCEPT ![c] = b])
              /\ (UNCHANGED writing \/ writing' = [writing EXCEPT ![c] = TRUE])
    BY <1>3 DEF recv_data, data_outside, data_expected, data_later
  <2> QED
    BY <1>1, <2>1
<1>4. ASSUME NEW p PROVE recv_eof(c, p) \/ recv_data_ignore(c, p) \/ recv_done(c, p)
                         \/ recv_eof_again(c, p) \/ wait_on_done_ignore(c, p) => Own /\ faults' = faults
  BY <1>1 DEF recv_eof, recv_data_ignore, recv_done, recv_eof_again, wait_on_done_ignore,
              GoesTo, serverVars
<1>5. write_ready(c) \/ write_short(c) \/ write_error(c) => Own /\ faults' = faults
  BY <1>1 DEF write_ready, write_short, writes, write_error, Fails, GoesTo, networkVars
<1>6. write_done(c) => Own /\ faults' = faults
  BY <1>1 DEF write_done
<1>7. recv_data_timeout(c) \/ wait_on_done_timeout(c) => Own /\ faults' = faults
  BY <1>1 DEF recv_data_timeout, wait_on_done_timeout, Fails, GoesTo, networkVars
<1> QED
  BY <1>2, <1>3, <1>4, <1>5, <1>6, <1>7 DEF ChildNext, ChildStep

\* rcopy's child takes at most one packet from its queue and sends rcopy packets
\* of its own.
LEMMA ChildSolitary ==
    ASSUME TypeInv, Solitary, ChildNext(server),
           NEW box \in {inbox, Taken(server)},
           inbox' = box \/ \E p, q : \E ps \in {<<p>>, <<p, q>>} :
              p.from = server /\ q.from = server /\ inbox' = Posted(box, Client, ps)
    PROVE  Solitary' /\ inbox'[server] = box[server] /\ box[Client] = inbox[Client]
<1>1. inbox = [a \in Address |-> inbox[a]] /\ \A a \in Address : inbox[a] \in Seq(PacketType)
  BY Queues
<1>2. /\ server # Client /\ server # Main /\ server \in Address /\ server \in Child
      /\ Client \in Address /\ Main \in Address /\ Client # Main
  BY Addresses DEF Solitary
<1>3. /\ box = [a \in Address |-> box[a]]
      /\ \A a \in Address \ {server} : box[a] = inbox[a]
  BY <1>1 DEF Taken
<1>4. \A a \in Address \ {Client} : inbox'[a] = box[a]
  BY <1>3 DEF Posted
<1>5. server' = server /\ \A d \in Child \ {server} :
         child_state'[d] = child_state[d] /\ writing'[d] = writing[d]
  BY <1>2, ChildOwn DEF rcopyVars
<1>6. From(inbox'[Client], {server})
  <2>1. inbox[Client] \in Seq(PacketType) /\ From(inbox[Client], {server})
        /\ box[Client] = inbox[Client]
    BY <1>1, <1>2, <1>3 DEF Solitary
  <2>2. CASE inbox' = box
    BY <2>1, <2>2
  <2>3. CASE \E p, q : \E ps \in {<<p>>, <<p, q>>} :
                p.from = server /\ q.from = server /\ inbox' = Posted(box, Client, ps)
    <3>1. PICK p, q : \E ps \in {<<p>>, <<p, q>>} :
                p.from = server /\ q.from = server /\ inbox' = Posted(box, Client, ps)
      BY <2>3
    <3>2. PICK ps \in {<<p>>, <<p, q>>} :
                p.from = server /\ q.from = server /\ inbox' = Posted(box, Client, ps)
      BY <3>1
    <3>3. inbox'[Client] = box[Client] \o ps
      BY <1>2, <1>3, <3>2 DEF Posted
    <3> DEFINE C == {server}
               r == inbox[Client]
    <3>4. /\ r \in Seq(PacketType) /\ From(r, C) /\ p.from \in C /\ q.from \in C
          /\ ps \in {<<p>>, <<p, q>>}
      BY <2>1, <3>2
    <3>5. inbox'[Client] = r \o ps
      BY <2>1, <3>3
    <3> HIDE DEF C, r
    <3>6. From(r \o ps, C)
      BY <3>4, FromSent
    <3> QED
      BY <3>5, <3>6 DEF C
  <2> QED
    BY <2>2, <2>3
<1>7. \A d \in Child \ {server} : Orphan(d)'
  BY <1>3, <1>4, <1>5, Addresses DEF Solitary, Orphan
<1>8. inbox'[Main] = <<>>
  BY <1>2, <1>3, <1>4 DEF Solitary
<1> QED
  BY <1>2, <1>3, <1>4, <1>5, <1>6, <1>7, <1>8 DEF Solitary

\* A child that rcopy does not talk to changes nothing for the others.
LEMMA OrphanStep ==
    ASSUME TypeInv, Solitary, NEW d \in Child \ {server}, ChildNext(d)
    PROVE  /\ Solitary'
           /\ UNCHANGED <<rcopyVars, inbox, faults>>
           /\ UNCHANGED <<child_state[server], writing[server], buffer[server], failed[server],
                          child_retry[server]>>
<1>1. /\ server \in Child \ {d} /\ d \in Child /\ inbox[d] = <<>> /\ ~writing[d]
      /\ child_state[d] \in {"UNUSED", "RECV_DATA", "DONE"}
  BY DEF Solitary, Orphan
<1>2. recv_data_timeout(d)
  <2>1. child_state[d] # "FILENAME" /\ child_state[d] # "WAIT_ON_DONE"
    BY <1>1
  <2>2. \A p : ~Arrives(d, p)
    BY <1>1 DEF Arrives
  <2> QED
    BY <1>1, <2>1, <2>2
    DEF ChildNext, ChildStep, filename_open, filename_open_error, may_receive, recv_data,
        recv_eof, recv_data_ignore, recv_done, recv_eof_again, wait_on_done_ignore,
        write_ready, write_short, writes, write_error, write_done, may_write,
        wait_on_done_timeout
<1>3. UNCHANGED inbox /\ UNCHANGED writing /\ child_state'[d] = "DONE"
  BY <1>2 DEF recv_data_timeout, Fails, GoesTo, networkVars, TypeInv, TypeOK, ServerTypeOK
<1>4. /\ UNCHANGED <<rcopyVars, faults>> /\ server' = server
      /\ \A c \in Child \ {d} : child_state'[c] = child_state[c]
      /\ UNCHANGED <<child_state[server], writing[server], buffer[server], failed[server],
                     child_retry[server]>>
  BY <1>1, ChildOwn DEF rcopyVars
<1>5. Solitary'
  BY <1>3, <1>4 DEF Solitary, Orphan
<1> QED
  BY <1>3, <1>4, <1>5

\* The next packet for rcopy's child carries data, which is old exactly if it lies
\* outside of the child's window.
LEMMA DataArrives ==
    ASSUME FileFits, CopyInv, Solitary, DataPhase, state \in {"SEND_DATA", "WAIT_ON_ACK"},
           NEW p, Arrives(server, p)
    PROVE  /\ inbox[server] # <<>> /\ Head(inbox[server]) = p
           /\ p \in PacketType /\ IsGood(p, "DATA") /\ p.num \in SeqNum /\ p.num \in Nat
           /\ buffer_in_window(buffer[server], p.num) <=> p.num >= buffer[server].expected
           /\ Taken(server) = [a \in Address |-> Taken(server)[a]]
           /\ Taken(server)[server] = Tail(inbox[server])
           /\ Taken(server)[Client] = inbox[Client]
<1> DEFINE q == inbox[server]
           r == inbox[Client]
           H == Held(buffer[server])
           e == buffer[server].expected
           low == window.lower
           end == window.current
           asked == buffer[server].missing_active
           busy == writing[server]
           w == Waits
           k == retry_count
           f == faults
           s == buffer[server].size
<1>1. /\ server \in Address /\ server # Client /\ Client \in Address
      /\ inbox = [a \in Address |-> inbox[a]]
  BY Queues, Addresses DEF Solitary, CopyInv
<1>2. /\ q \in Seq(PacketType) /\ e \in Nat /\ low \in Nat /\ end \in Nat /\ s \in Nat
      /\ e + s < SeqSpace /\ WindowHolds(window, Payload) /\ window.size = s
  BY DataFacts DEF DataPhase
<1>3. Lines(q, r, H, e, low, end, asked, busy, w, k, f)
  BY DEF DataPhase
<1>4. q # <<>> /\ Head(q) = p
  BY DEF Arrives
<1>5. p \in PacketType /\ p.num \in SeqNum /\ p.num \in Nat
  <2>1. p \in PacketType
    BY <1>2, <1>4, TailIndex, Nums
  <2> QED
    BY <2>1, PacketAssumption DEF PacketType, SeqNum
<1>6. end <= low + s /\ low <= e
  <2>1. end <= low + s
    BY <1>2 DEF WindowHolds
  <2>2. low <= e
    BY <1>3 DEF Lines, Edges
  <2> QED
    BY <2>1, <2>2
<1>7. Add32(e, s) = e + s
  BY <1>2, Add32NoWrap
<1> HIDE DEF q, r, H, e, low, end, asked, busy, w, k, f, s
<1>8. IsGood(p, "DATA") /\ (p.num >= e => p.num < end)
  BY <1>2, <1>3, <1>4, LinesHead
<1>9. p.num >= e => p.num < e + s
  BY <1>2, <1>5, <1>6, <1>8
<1>10. (p.num >= e /\ p.num < Add32(e, s)) <=> p.num >= e
  BY <1>7, <1>9
<1>11. buffer_in_window(buffer[server], p.num) <=> p.num >= e
  BY <1>10 DEF buffer_in_window, e, s
<1>12. /\ Taken(server) = [a \in Address |-> Taken(server)[a]]
       /\ Taken(server)[server] = Tail(inbox[server])
       /\ Taken(server)[Client] = inbox[Client]
  BY <1>1 DEF Taken
<1> QED
  BY <1>4, <1>5, <1>8, <1>11, <1>12 DEF q, e

\* handle_data_packet: old data is acknowledged again.
LEMMA OutsidePhase ==
    ASSUME FileFits, CopyInv, Solitary, DataPhase, state \in {"SEND_DATA", "WAIT_ON_ACK"},
           ChildNext(server), NEW p, recv_data(server, p), data_outside(server, p)
    PROVE  Solitary' /\ DataPhase'
<1> DEFINE q == inbox[server]
           r == inbox[Client]
           H == Held(buffer[server])
           e == buffer[server].expected
           low == window.lower
           end == window.current
           asked == buffer[server].missing_active
           busy == writing[server]
           w == Waits
           k == retry_count
           f == faults
           s == send_rr(server, buffer[server])
<1>1. /\ Arrives(server, p) /\ ~buffer_in_window(buffer[server], p.num)
      /\ inbox' = Posted(Taken(server), Client, <<s>>)
      /\ UNCHANGED <<buffer, writing, child_state, failed, faults>>
  BY DEF recv_data, may_receive, data_outside, child_sends
<1>2. UNCHANGED rcopyVars
  BY DEF ChildNext
<1>3. /\ q # <<>> /\ Head(q) = p /\ p.num \in Nat
      /\ ~(p.num >= e)
      /\ Taken(server) = [a \in Address |-> Taken(server)[a]]
      /\ Taken(server)[server] = Tail(q) /\ Taken(server)[Client] = r
  BY <1>1, DataArrives
<1>4. /\ server \in Child /\ server \in Address /\ q \in Seq(PacketType) /\ r \in Seq(PacketType)
      /\ H \in SUBSET Nat /\ e \in Nat /\ e \in SeqNum /\ asked \in BOOLEAN /\ busy \in BOOLEAN
      /\ low \in Nat /\ end \in Nat /\ k \in Nat /\ f \in Nat /\ w \in BOOLEAN
  BY DataFacts DEF DataPhase, Waits
<1>5. Lines(q, r, H, e, low, end, asked, busy, w, k, f)
  BY DEF DataPhase
<1>6. /\ s \in PacketType /\ IsGood(s, "RR") /\ s.num = e /\ s.from = server
  BY <1>4 DEF send_rr, make_packet, PacketType, Flag, Chunk, IsGood, check_packet, get_flag,
              buffer_expected
<1>7. Solitary' /\ inbox'[server] = Tail(q)
  <2>1. \E a, b : \E ps \in {<<a>>, <<a, b>>} :
           a.from = server /\ b.from = server /\ inbox' = Posted(Taken(server), Client, ps)
    BY <1>1, <1>6
  <2> QED
    BY <1>3, <2>1, ChildSolitary DEF CopyInv
<1>8. inbox'[Client] = r \o <<s>>
  BY <1>1, <1>3, Addresses DEF Posted
<1>9. /\ server' = server /\ Held(buffer'[server']) = H /\ buffer'[server'].expected = e
      /\ buffer'[server'].missing_active = asked /\ writing'[server'] = busy
      /\ window'.lower = low /\ window'.current = end
      /\ Waits' = w /\ retry_count' = k /\ faults' = f
      /\ child_state'[server'] = "RECV_DATA" /\ ~failed'[server']
  BY <1>1, <1>2 DEF rcopyVars, Waits, DataPhase
<1>10. /\ state' = "SEND_DATA" => at' \in {"run", "poll"} /\ retry_count' = 0
       /\ state' = "WAIT_ON_ACK" => at' = "wait" \/ (at' = "poll" /\ got_control')
  BY <1>2 DEF rcopyVars, DataPhase
<1> HIDE DEF q, r, H, e, low, end, asked, busy, w, k, f, s
<1>11. Lines(Tail(q), r \o <<s>>, H, e, low, end, asked, busy, w, k, f)
  <2>1. Head(q).num < e
    BY <1>3, <1>4
  <2> QED
    BY <1>3, <1>4, <1>5, <1>6, <2>1, LinesOutside
<1>12. DataPhase'
  BY <1>7, <1>8, <1>9, <1>10, <1>11 DEF DataPhase
<1> QED
  BY <1>7, <1>12

\* handle_data_packet: the packet expected is saved, and the request for it, if there
\* was one, forgotten.
LEMMA ExpectedPhase ==
    ASSUME FileFits, CopyInv, RejectInv, Solitary, DataPhase,
           state \in {"SEND_DATA", "WAIT_ON_ACK"},
           ChildNext(server), NEW p, recv_data(server, p), data_expected(server, p)
    PROVE  Solitary' /\ DataPhase'
<1> DEFINE q == inbox[server]
           r == inbox[Client]
           b == buffer[server]
           saved == buffer_save(b, p.num, p.data)
           b2 == buffer_clear_reject(saved, p.num)
           H == Held(b)
           e == b.expected
           low == window.lower
           end == window.current
           asked == b.missing_active
           asked2 == b2.missing_active
           busy == writing[server]
           busy2 == writing'[server]
           w == Waits
           k == retry_count
           f == faults
<1>1. /\ Arrives(server, p) /\ buffer_in_window(b, p.num) /\ p.num = e
      /\ ~writing[server]
      /\ inbox' = Taken(server)
      /\ buffer' = [buffer EXCEPT ![server] = b2]
      /\ writing' = [writing EXCEPT ![server] = TRUE]
      /\ UNCHANGED <<child_state, failed, faults>>
  BY DEF recv_data, may_receive, data_expected, buffer_expected
<1>2. UNCHANGED rcopyVars
  BY DEF ChildNext
<1>3. /\ q # <<>> /\ Head(q) = p /\ p.num \in SeqNum
      /\ Taken(server)[server] = Tail(q) /\ Taken(server)[Client] = r
      /\ p \in PacketType
  BY <1>1, DataArrives
<1>4. /\ server \in Child /\ server \in Address /\ q \in Seq(PacketType) /\ r \in Seq(PacketType)
      /\ H \in SUBSET Nat /\ e \in Nat /\ e \in SeqNum /\ asked \in BOOLEAN /\ busy \in BOOLEAN
      /\ low \in Nat /\ end \in Nat /\ k \in Nat /\ f \in Nat /\ w \in BOOLEAN
      /\ IsBuffer(b, Chunk) /\ b.size > 0 /\ serves(server)
      /\ BufferHolds(b, Payload, EndSeq) /\ b.expected + b.size < SeqSpace
  BY DataFacts DEF DataPhase, Waits, serves
<1>5. Lines(q, r, H, e, low, end, asked, busy, w, k, f)
  BY DEF DataPhase
<1>6. AsksForGap(b)
  BY <1>1, <1>4 DEF RejectInv, ChildAsks, DataPhase
<1>7. /\ IsBuffer(saved, Chunk) /\ saved.expected = e /\ Held(saved) = With(H, e)
      /\ saved.missing_active = asked /\ saved.missing_seq = b.missing_seq
  <2>1. p.data \in Chunk
    BY <1>3 DEF PacketType
  <2>2. Held(saved) = Held(b) \cup {p.num}
    BY <1>1, <1>3, <1>4, HeldSaved
  <2>3. Held(saved) = With(H, e)
    BY <1>1, <2>2 DEF With
  <2>4. IsBuffer(saved, Chunk)
    BY <1>3, <1>4, <2>1, BufferSaveType
  <2> QED
    BY <1>1, <1>3, <1>4, <2>3, <2>4, BufferSaveAsks
<1>8. /\ Held(b2) = With(H, e) /\ b2.expected = e /\ ~asked2 /\ asked2 \in BOOLEAN
  <2> HIDE DEF saved
  <2>1. Held(b2) = With(H, e)
    BY <1>7, HeldRejects
  <2>2. saved.missing_active => saved.missing_seq = saved.expected
    BY <1>6, <1>7 DEF AsksForGap
  <2>3. ~asked2
    BY <1>1, <1>7, <2>2, BufferFillsGap
  <2>4. IsBuffer(b2, Chunk)
    BY <1>7, BufferClearRejectType
  <2>5. b2.expected = saved.expected
    BY <1>7 DEF buffer_clear_reject, IsBuffer
  <2> QED
    BY <1>7, <2>1, <2>3, <2>4, <2>5 DEF IsBuffer
<1>9. Solitary' /\ inbox'[server] = Tail(q)
  <2>1. ~writing[server] /\ inbox' = Taken(server)
    BY <1>1
  <2> QED
    BY <1>3, <2>1, ChildSolitary DEF CopyInv
<1>10. inbox'[Client] = r
  BY <1>1, <1>3
<1>11. server' = server /\ buffer'[server] = b2 /\ IsTrue(busy2)
  BY <1>1, <1>2, <1>4 DEF rcopyVars, CopyInv, TypeInv, TypeOK, ServerTypeOK, IsTrue
<1>12. /\ window'.lower = low /\ window'.current = end
       /\ Waits' = w /\ retry_count' = k /\ faults' = f
       /\ child_state'[server'] = "RECV_DATA" /\ ~failed'[server']
  BY <1>1, <1>2 DEF rcopyVars, Waits, DataPhase
<1>13. /\ state' = "SEND_DATA" => at' \in {"run", "poll"} /\ retry_count' = 0
       /\ state' = "WAIT_ON_ACK" => at' = "wait" \/ (at' = "poll" /\ got_control')
  BY <1>2 DEF rcopyVars, DataPhase
<1>14. /\ Held(buffer'[server']) = With(H, e) /\ buffer'[server'].expected = e
       /\ buffer'[server'].missing_active = asked2 /\ writing'[server'] = busy2
  BY <1>8, <1>11
<1>15. ~busy
  BY <1>1
<1>16. Head(q).num = e
  BY <1>1, <1>3
<1> HIDE DEF q, r, H, e, low, end, asked, asked2, busy, busy2, w, k, f, b, b2, saved
<1>17. Lines(Tail(q), r, With(H, e), e, low, end, asked2, busy2, w, k, f)
  BY <1>3, <1>4, <1>5, <1>8, <1>11, <1>15, <1>16, LinesExpected
<1>18. DataPhase'
  BY <1>9, <1>10, <1>11, <1>12, <1>13, <1>14, <1>17 DEF DataPhase
<1> QED
  BY <1>9, <1>18

\* handle_data_packet: a later packet is saved, and the packet expected is asked for
\* unless it has been already.
LEMMA LaterPhase ==
    ASSUME FileFits, CopyInv, RejectInv, Solitary, DataPhase,
           state \in {"SEND_DATA", "WAIT_ON_ACK"},
           ChildNext(server), NEW p, recv_data(server, p), data_later(server, p)
    PROVE  Solitary' /\ DataPhase'
<1> DEFINE q == inbox[server]
           r == inbox[Client]
           r2 == inbox'[Client]
           b == buffer[server]
           saved == buffer_save(b, p.num, p.data)
           b2 == buffer'[server]
           H == Held(b)
           e == b.expected
           low == window.lower
           end == window.current
           asked == b.missing_active
           asked2 == b2.missing_active
           busy == writing[server]
           w == Waits
           k == retry_count
           f == faults
           s == send_reject(server, saved)
<1>1. /\ Arrives(server, p) /\ buffer_in_window(b, p.num) /\ p.num # e
      /\ ~writing[server]
      /\ IF buffer_need_reject(saved)
         THEN /\ inbox' = Posted(Taken(server), Client, <<s>>)
              /\ buffer' = [buffer EXCEPT ![server] = buffer_rejected(saved)]
         ELSE /\ inbox' = Taken(server)
              /\ buffer' = [buffer EXCEPT ![server] = saved]
      /\ UNCHANGED <<writing, child_state, failed, faults>>
  BY DEF recv_data, may_receive, data_later, buffer_expected, child_sends
<1>2. UNCHANGED rcopyVars
  BY DEF ChildNext
<1>3. /\ q # <<>> /\ Head(q) = p /\ p.num \in SeqNum /\ p.num \in Nat
      /\ p.num >= e
      /\ Taken(server) = [a \in Address |-> Taken(server)[a]]
      /\ Taken(server)[server] = Tail(q) /\ Taken(server)[Client] = r
      /\ p \in PacketType
  BY <1>1, DataArrives
<1>4. /\ server \in Child /\ server \in Address /\ q \in Seq(PacketType) /\ r \in Seq(PacketType)
      /\ H \in SUBSET Nat /\ e \in Nat /\ e \in SeqNum /\ asked \in BOOLEAN /\ busy \in BOOLEAN
      /\ low \in Nat /\ end \in Nat /\ k \in Nat /\ f \in Nat /\ w \in BOOLEAN
      /\ IsBuffer(b, Chunk) /\ b.size > 0 /\ serves(server)
      /\ BufferHolds(b, Payload, EndSeq) /\ b.expected + b.size < SeqSpace
  BY DataFacts DEF DataPhase, Waits, serves
<1>5. Lines(q, r, H, e, low, end, asked, busy, w, k, f)
  BY DEF DataPhase
<1>6. AsksForGap(b)
  BY <1>1, <1>4 DEF RejectInv, ChildAsks, DataPhase
<1>7. /\ IsBuffer(saved, Chunk) /\ saved.expected = e /\ Held(saved) = With(H, p.num)
      /\ saved.missing_active = asked /\ saved.missing_seq = b.missing_seq
  <2>1. p.data \in Chunk
    BY <1>3 DEF PacketType
  <2>2. Held(saved) = Held(b) \cup {p.num}
    BY <1>1, <1>3, <1>4, HeldSaved
  <2>3. Held(saved) = With(H, p.num)
    BY <2>2 DEF With
  <2>4. IsBuffer(saved, Chunk)
    BY <1>3, <1>4, <2>1, BufferSaveType
  <2> QED
    BY <1>1, <1>3, <1>4, <2>3, <2>4, BufferSaveAsks
<1>8. s \in PacketType /\ IsGood(s, "SREJ") /\ s.num = e /\ s.from = server
  BY <1>4, <1>7 DEF send_reject, make_packet, PacketType, Flag, Chunk, IsGood, check_packet,
              get_flag, buffer_expected
<1>9. buffer_need_reject(saved) <=> ~asked
  BY <1>6, <1>7 DEF buffer_need_reject, AsksForGap
<1>10. /\ Held(b2) = With(H, p.num) /\ b2.expected = e /\ IsTrue(asked2)
       /\ Solitary' /\ inbox'[server] = Tail(q) /\ r2 \in Seq(PacketType)
       /\ AsksOnce(r, r2, s, asked)
  <2>1. CASE ~asked
    <3>1. b2 = buffer_rejected(saved) /\ inbox' = Posted(Taken(server), Client, <<s>>)
      BY <1>1, <1>4, <1>9, <2>1 DEF CopyInv, TypeInv, TypeOK, ServerTypeOK
    <3>2. Held(b2) = With(H, p.num) /\ b2.expected = e /\ IsTrue(asked2)
      <4> HIDE DEF saved
      <4>1. Held(buffer_rejected(saved)) = With(H, p.num)
        BY <1>7, HeldRejects
      <4>2. buffer_rejected(saved).expected = e /\ buffer_rejected(saved).missing_active = TRUE
        BY <1>7 DEF buffer_rejected, IsBuffer
      <4> QED
        BY <3>1, <4>1, <4>2 DEF IsTrue
    <3>3. Solitary' /\ inbox'[server] = Tail(q)
      <4>1. \E a, c : \E ps \in {<<a>>, <<a, c>>} :
               a.from = server /\ c.from = server /\ inbox' = Posted(Taken(server), Client, ps)
        BY <1>8, <3>1
      <4> QED
        BY <1>3, <4>1, ChildSolitary DEF CopyInv
    <3>4. r2 = r \o <<s>>
      BY <1>3, <3>1, Addresses DEF Posted
    <3>5. r2 \in Seq(PacketType)
      BY <1>4, <1>8, <3>4, AppendIndex
    <3> QED
      BY <2>1, <3>2, <3>3, <3>4, <3>5 DEF AsksOnce
  <2>2. CASE asked
    <3>1. b2 = saved /\ inbox' = Taken(server)
      BY <1>1, <1>4, <1>9, <2>2 DEF CopyInv, TypeInv, TypeOK, ServerTypeOK
    <3>2. Held(b2) = With(H, p.num) /\ b2.expected = e /\ IsTrue(asked2)
      BY <1>4, <1>7, <2>2, <3>1 DEF IsTrue
    <3>3. Solitary' /\ inbox'[server] = Tail(q)
      BY <1>3, <3>1, ChildSolitary DEF CopyInv
    <3>4. r2 = r
      BY <1>3, <3>1
    <3> QED
      BY <1>4, <2>2, <3>2, <3>3, <3>4 DEF AsksOnce
  <2> QED
    BY <2>1, <2>2
<1>11. /\ server' = server /\ window'.lower = low /\ window'.current = end
       /\ Waits' = w /\ retry_count' = k /\ faults' = f
       /\ child_state'[server'] = "RECV_DATA" /\ ~failed'[server']
  BY <1>1, <1>2 DEF rcopyVars, Waits, DataPhase
<1>12. /\ state' = "SEND_DATA" => at' \in {"run", "poll"} /\ retry_count' = 0
       /\ state' = "WAIT_ON_ACK" => at' = "wait" \/ (at' = "poll" /\ got_control')
  BY <1>2 DEF rcopyVars, DataPhase
<1>13. /\ Held(buffer'[server']) = With(H, Head(q).num) /\ buffer'[server'].expected = e
       /\ buffer'[server'].missing_active = asked2 /\ writing'[server'] = busy
       /\ inbox'[server'] = Tail(q) /\ inbox'[Client] = r2
  BY <1>1, <1>3, <1>10, <1>11
<1>14. ~busy /\ Head(q).num > e
  <2>1. p.num > e
    BY <1>1, <1>3, <1>4
  <2> QED
    BY <1>1, <1>3, <2>1
<1> HIDE DEF q, r, r2, H, e, low, end, asked, asked2, busy, w, k, f, b, b2, saved, s
<1>15. Lines(Tail(q), r2, With(H, Head(q).num), e, low, end, asked2, busy, w, k, f)
  BY <1>3, <1>4, <1>5, <1>8, <1>10, <1>14, LinesLater
<1>16. DataPhase'
  BY <1>11, <1>12, <1>13, <1>15 DEF DataPhase
<1> QED
  BY <1>10, <1>16

\* buffer_write_ready writes the packet expected, or a part of it.
LEMMA WritePhase ==
    ASSUME FileFits, CopyInv, Solitary, DataPhase,
           state \in {"SEND_DATA", "WAIT_ON_ACK"},
           ChildNext(server), write_ready(server) \/ write_short(server)
    PROVE  Solitary' /\ DataPhase'
<1> DEFINE q == inbox[server]
           r == inbox[Client]
           b == buffer[server]
           b2 == buffer'[server]
           H == Held(b)
           e == b.expected
           low == window.lower
           end == window.current
           asked == b.missing_active
           busy == writing[server]
           w == Waits
           k == retry_count
           f == faults
<1>1. /\ writing[server] /\ buffer_has(b, b.expected)
      /\ buffer' = [buffer EXCEPT ![server] = buffer_wrote(b)]
      /\ UNCHANGED <<inbox, writing, child_state, failed, faults>>
  BY DEF write_ready, write_short, writes, may_write, buffer_expected, networkVars
<1>2. UNCHANGED rcopyVars
  BY DEF ChildNext
<1>3. /\ server \in Child /\ server \in Address /\ q \in Seq(PacketType) /\ r \in Seq(PacketType)
      /\ H \in SUBSET Nat /\ e \in Nat /\ e \in SeqNum /\ asked \in BOOLEAN /\ IsTrue(busy)
      /\ low \in Nat /\ end \in Nat /\ k \in Nat /\ f \in Nat /\ w \in BOOLEAN
      /\ IsBuffer(b, Chunk) /\ b.size > 0
      /\ BufferHolds(b, Payload, EndSeq) /\ b.expected + b.size < SeqSpace
  BY <1>1, DataFacts DEF DataPhase, Waits, serves, IsTrue
<1>4. Lines(q, r, H, e, low, end, asked, busy, w, k, f)
  BY DEF DataPhase
<1>5. e \in H
  BY <1>1, <1>3, HeldIs
<1>6. b2 = buffer_wrote(b)
  BY <1>1, <1>3 DEF CopyInv, TypeInv, TypeOK, ServerTypeOK
<1>7. Held(b2) = Without(H, e) /\ b2.expected = e + 1 /\ b2.missing_active = asked
  <2>1. Held(b2) = Without(H, e)
    BY <1>1, <1>3, <1>6, HeldWrote DEF Without
  <2>2. EndSeq \in Nat
    BY Fits
  <2>3. b2.expected = e + 1
    BY <1>1, <1>3, <1>6, <2>2, BufferWroteHolds
  <2>4. b2.missing_active = asked
    BY <1>3, <1>6, BufferFillsGap
  <2> QED
    BY <2>1, <2>3, <2>4
<1>8. Solitary'
  BY <1>1, ChildSolitary DEF CopyInv
<1>9. /\ server' = server /\ window'.lower = low /\ window'.current = end
      /\ Waits' = w /\ retry_count' = k /\ faults' = f
      /\ child_state'[server'] = "RECV_DATA" /\ ~failed'[server']
  BY <1>1, <1>2 DEF rcopyVars, Waits, DataPhase
<1>10. /\ state' = "SEND_DATA" => at' \in {"run", "poll"} /\ retry_count' = 0
       /\ state' = "WAIT_ON_ACK" => at' = "wait" \/ (at' = "poll" /\ got_control')
  BY <1>2 DEF rcopyVars, DataPhase
<1>11. /\ Held(buffer'[server']) = Without(H, e) /\ buffer'[server'].expected = e + 1
       /\ buffer'[server'].missing_active = asked /\ writing'[server'] = busy
       /\ inbox'[server'] = q /\ inbox'[Client] = r
  BY <1>1, <1>7, <1>9
<1> HIDE DEF q, r, H, e, low, end, asked, busy, w, k, f, b, b2
<1>12. Lines(q, r, Without(H, e), e + 1, low, end, asked, busy, w, k, f)
  BY <1>3, <1>4, <1>5, LinesWrite
<1>13. DataPhase'
  BY <1>9, <1>10, <1>11, <1>12 DEF DataPhase
<1> QED
  BY <1>8, <1>13

\* The end of handle_data_packet: the child acknowledges, and asks for the packet
\* expected if it holds later ones.
LEMMA AnswerPhase ==
    ASSUME FileFits, CopyInv, RejectInv, Solitary, DataPhase,
           state \in {"SEND_DATA", "WAIT_ON_ACK"},
           ChildNext(server), write_done(server)
    PROVE  Solitary' /\ DataPhase'
<1> DEFINE q == inbox[server]
           r == inbox[Client]
           r2 == inbox'[Client]
           b == buffer[server]
           b2 == buffer'[server]
           H == Held(b)
           e == b.expected
           low == window.lower
           end == window.current
           asked == b.missing_active
           asked2 == b2.missing_active
           busy == writing[server]
           busy2 == writing'[server]
           w == Waits
           k == retry_count
           f == faults
           p == send_rr(server, b)
           s == send_reject(server, b)
<1>1. /\ writing[server] /\ ~buffer_has(b, b.expected)
      /\ writing' = [writing EXCEPT ![server] = FALSE]
      /\ IF buffer_has_later(b) /\ buffer_need_reject(b)
         THEN /\ inbox' = Posted(inbox, Client, <<p, s>>)
              /\ buffer' = [buffer EXCEPT ![server] = buffer_rejected(b)]
         ELSE /\ inbox' = Posted(inbox, Client, <<p>>)
              /\ UNCHANGED buffer
      /\ UNCHANGED <<child_state, failed, faults>>
  BY DEF write_done, may_write, buffer_expected, child_sends
<1>2. UNCHANGED rcopyVars
  BY DEF ChildNext
<1>3. /\ server \in Child /\ server \in Address /\ q \in Seq(PacketType) /\ r \in Seq(PacketType)
      /\ H \in SUBSET Nat /\ e \in Nat /\ e \in SeqNum /\ asked \in BOOLEAN /\ IsTrue(busy)
      /\ low \in Nat /\ end \in Nat /\ k \in Nat /\ f \in Nat /\ w \in BOOLEAN
      /\ IsBuffer(b, Chunk) /\ b.size > 0 /\ serves(server)
      /\ BufferHolds(b, Payload, EndSeq)
  BY <1>1, DataFacts DEF DataPhase, Waits, serves, IsTrue
<1>4. Lines(q, r, H, e, low, end, asked, busy, w, k, f)
  BY DEF DataPhase
<1>5. /\ e \notin H
      /\ Held(b) \subseteq b.expected .. b.expected + b.size - 1
      /\ buffer_has_later(b) <=> \E seq \in Held(b) : seq > b.expected
  BY <1>1, <1>3, HeldIs
<1>6. buffer_has_later(b) <=> H # {}
  <2>1. \A seq \in H : seq \in Nat /\ seq >= e /\ seq # e
    BY <1>3, <1>5
  <2>2. \A seq \in H : seq > e
    BY <1>3, <2>1
  <2> QED
    BY <1>5, <2>2
<1>7. asked = FALSE
  BY <1>1, <1>3 DEF RejectInv, ChildAsks, DataPhase
<1>8. buffer_need_reject(b)
  BY <1>7 DEF buffer_need_reject
<1>9. /\ p \in PacketType /\ IsGood(p, "RR") /\ p.num = e /\ p.from = server
      /\ s \in PacketType /\ IsGood(s, "SREJ") /\ s.num = e /\ s.from = server
  BY <1>3 DEF send_rr, send_reject, make_packet, PacketType, Flag, Chunk, IsGood, check_packet,
              get_flag, buffer_expected
<1>10. busy2 = FALSE /\ ~busy2
  BY <1>1, <1>3 DEF CopyInv, TypeInv, TypeOK, ServerTypeOK
<1>11. inbox = [a \in Address |-> inbox[a]] /\ Client \in Address
  BY Queues, Addresses DEF CopyInv
<1>12. Solitary' /\ inbox'[server] = q
  <2>1. PICK ps \in {<<p>>, <<p, s>>} : inbox' = Posted(inbox, Client, ps)
    BY <1>1
  <2>2. \E a, c : \E qs \in {<<a>>, <<a, c>>} :
           a.from = server /\ c.from = server /\ inbox' = Posted(inbox, Client, qs)
    BY <1>9, <2>1
  <2> QED
    BY <2>2, ChildSolitary DEF CopyInv
<1>13. /\ Held(b2) = H /\ b2.expected = e /\ asked2 \in BOOLEAN
       /\ r2 \in Seq(PacketType) /\ Answers(r, r2, p, s, asked2, H)
  <2>1. r \o <<p>> \in Seq(PacketType)
    BY <1>3, <1>9, AppendIndex
  <2>2. CASE buffer_has_later(b)
    <3>1. b2 = buffer_rejected(b) /\ inbox' = Posted(inbox, Client, <<p, s>>)
      BY <1>1, <1>3, <1>8, <2>2 DEF CopyInv, TypeInv, TypeOK, ServerTypeOK
    <3>2. Held(b2) = H
      BY <1>3, <3>1, HeldRejects
    <3>3. b2.expected = e /\ asked2 = TRUE
      BY <1>3, <3>1 DEF buffer_rejected, IsBuffer
    <3>4. r2 = r \o <<p, s>>
      BY <1>11, <3>1 DEF Posted
    <3>5. r2 = (r \o <<p>>) \o <<s>>
      <4>1. <<p, s>> = <<p>> \o <<s>>
        BY <1>9, TwoPackets
      <4> DEFINE u == <<p>>
                 v == <<s>>
      <4>2. u \in Seq(PacketType) /\ v \in Seq(PacketType)
        BY <1>9, OnePacket
      <4>3. r \in Seq(PacketType)
        BY <1>3
      <4>4. r2 = r \o (u \o v)
        BY <3>4, <4>1
      <4> HIDE DEF u, v, r, r2
      <4>5. (r \o u) \o v = r \o (u \o v)
        BY <4>2, <4>3, ConcatAssociative
      <4> QED
        BY <4>4, <4>5 DEF u, v
    <3>6. r2 \in Seq(PacketType)
      <4> DEFINE t == r \o <<p>>
      <4>1. t \in Seq(PacketType)
        BY <2>1
      <4> HIDE DEF t
      <4>2. t \o <<s>> \in Seq(PacketType)
        BY <1>9, <4>1, AppendIndex
      <4> QED
        BY <3>5, <4>2 DEF t
    <3> HIDE DEF r2, p, s, H, asked2, b2
    <3>7. Answers(r, r2, p, s, asked2, H)
      BY <1>6, <2>2, <3>3, <3>5 DEF Answers
    <3> QED
      BY <3>2, <3>3, <3>6, <3>7
  <2>3. CASE ~buffer_has_later(b)
    <3>1. b2 = b /\ inbox' = Posted(inbox, Client, <<p>>)
      BY <1>1, <2>3
    <3>2. r2 = r \o <<p>>
      BY <1>11, <3>1 DEF Posted
    <3>3. asked2 = FALSE
      BY <1>7, <3>1
    <3> HIDE DEF r2, p, s, H, asked2
    <3>4. Answers(r, r2, p, s, asked2, H)
      BY <1>6, <2>3, <3>2, <3>3 DEF Answers
    <3> QED
      BY <2>1, <3>1, <3>2, <3>3, <3>4 DEF H
  <2> QED
    BY <2>2, <2>3
<1>14. /\ server' = server /\ window'.lower = low /\ window'.current = end
       /\ Waits' = w /\ retry_count' = k /\ faults' = f
       /\ child_state'[server'] = "RECV_DATA" /\ ~failed'[server']
  BY <1>1, <1>2 DEF rcopyVars, Waits, DataPhase
<1>15. /\ state' = "SEND_DATA" => at' \in {"run", "poll"} /\ retry_count' = 0
       /\ state' = "WAIT_ON_ACK" => at' = "wait" \/ (at' = "poll" /\ got_control')
  BY <1>2 DEF rcopyVars, DataPhase
<1>16. /\ Held(buffer'[server']) = H /\ buffer'[server'].expected = e
       /\ buffer'[server'].missing_active = asked2 /\ writing'[server'] = busy2
       /\ inbox'[server'] = q /\ inbox'[Client] = r2
  BY <1>12, <1>13, <1>14
<1> HIDE DEF q, r, r2, H, e, low, end, asked, asked2, busy, busy2, w, k, f, b, b2, p, s
<1>17. Lines(q, r2, H, e, low, end, asked2, busy2, w, k, f)
  BY <1>3, <1>4, <1>5, <1>9, <1>10, <1>13, LinesAnswer
<1>18. DataPhase'
  BY <1>14, <1>15, <1>16, <1>17 DEF DataPhase
<1> QED
  BY <1>12, <1>18

\* Whatever rcopy's child does while rcopy sends data.
LEMMA ChildData ==
    ASSUME FileFits, Timely, LossOnly, CopyInv, RejectInv, Solitary, DataPhase,
           state \in {"SEND_DATA", "WAIT_ON_ACK"}, ChildNext(server)
    PROVE  Solitary' /\ DataPhase'
<1>1. child_state[server] = "RECV_DATA"
  BY DEF DataPhase
<1>2. ASSUME NEW p, recv_data(server, p) PROVE Solitary' /\ DataPhase'
  <2>1. data_outside(server, p) \/ data_expected(server, p) \/ data_later(server, p)
    BY <1>2 DEF recv_data
  <2> QED
    BY <1>2, <2>1, OutsidePhase, ExpectedPhase, LaterPhase
<1>3. CASE write_ready(server) \/ write_short(server)
  BY <1>3, WritePhase
<1>4. CASE write_done(server)
  BY <1>4, AnswerPhase
<1>5. \A p : ~recv_eof(server, p) /\ ~recv_data_ignore(server, p)
  <2>1. \A p : Arrives(server, p) => IsGood(p, "DATA")
    BY DataArrives
  <2>2. \A p : Arrives(server, p) => ~IsGood(p, "EOF")
    BY <2>1 DEF IsGood, get_flag
  <2> QED
    BY <2>1, <2>2 DEF recv_eof, recv_data_ignore, may_receive
<1>6. /\ ~filename_open(server) /\ ~filename_open_error(server) /\ ~wait_on_done_timeout(server)
      /\ \A p : /\ ~recv_done(server, p) /\ ~recv_eof_again(server, p)
                /\ ~wait_on_done_ignore(server, p)
  BY <1>1 DEF filename_open, filename_open_error, wait_on_done_timeout, recv_done,
              recv_eof_again, wait_on_done_ignore, may_receive
<1>7. ~write_error(server)
  BY DEF write_error, LossOnly
<1>8. ~TenSecondsOver(server)
  BY DEF TenSecondsOver
<1> QED
  BY <1>2, <1>3, <1>4, <1>5, <1>6, <1>7, <1>8 DEF ChildNext, ChildStep

\* The only faults are losses.
LEMMA OneLost ==
    ASSUME TypeInv, LossOnly, FaultNext
    PROVE  /\ UNCHANGED <<rcopyVars, serverVars>> /\ faults' = faults + 1
           /\ \E a \in Address : inbox[a] # <<>> /\ inbox' = Taken(a)
<1>1. PICK a \in Address :
         LosePacket(a) \/ DamagePacket(a) \/ DuplicatePacket(a) \/ DelayPacket(a)
  BY DEF FaultNext, NetworkNext
<1>2. LosePacket(a)
  BY <1>1 DEF DamagePacket, DuplicatePacket, DelayPacket, MayFail, LossOnly
<1>3. faults' = faults + 1 /\ inbox[a] # <<>> /\ inbox' = Taken(a)
  BY <1>2 DEF LosePacket, MayFail
<1> QED
  BY <1>1, <1>3 DEF FaultNext

\* What is lost while rcopy talks to one child.
LEMMA LossSolitary ==
    ASSUME TypeInv, LossOnly, Solitary, FaultNext
    PROVE  /\ Solitary'
           /\ UNCHANGED <<rcopyVars, serverVars>> /\ faults' = faults + 1
           /\ \/ /\ inbox[server] # <<>> /\ inbox'[server] = Tail(inbox[server])
                 /\ inbox'[Client] = inbox[Client]
              \/ /\ inbox[Client] # <<>> /\ inbox'[Client] = Tail(inbox[Client])
                 /\ inbox'[server] = inbox[server]
<1>1. /\ UNCHANGED <<rcopyVars, serverVars>> /\ faults' = faults + 1
      /\ \E a \in Address : inbox[a] # <<>> /\ inbox' = Taken(a)
  BY OneLost
<1>2. PICK a \in Address : inbox[a] # <<>> /\ inbox' = Taken(a)
  BY <1>1
<1>3. /\ server \in Child /\ server \in Address /\ server # Client /\ server # Main
      /\ Client \in Address /\ Main \in Address /\ Client # Main
  BY Addresses DEF Solitary
<1>4. a = server \/ a = Client
  BY <1>2 DEF Solitary, Orphan, Address
<1>5. inbox = [c \in Address |-> inbox[c]] /\ inbox[Client] \in Seq(PacketType)
  BY <1>3, Queues
<1>6. /\ inbox'[a] = Tail(inbox[a])
      /\ \A c \in Address \ {a} : inbox'[c] = inbox[c]
  BY <1>2, <1>5 DEF Taken
<1>7. From(inbox'[Client], {server})
  <2>1. CASE a = Client
    BY <1>2, <1>5, <1>6, <2>1, FromTaken DEF Solitary
  <2>2. CASE a = server
    BY <1>3, <1>6, <2>2 DEF Solitary
  <2> QED
    BY <1>4, <2>1, <2>2
<1>8. /\ server' = server /\ inbox'[Main] = <<>>
      /\ \A d \in Child \ {server} : Orphan(d)'
  BY <1>1, <1>3, <1>4, <1>6, Addresses DEF Solitary, Orphan, rcopyVars, serverVars
<1>9. Solitary'
  BY <1>3, <1>7, <1>8 DEF Solitary
<1> QED
  BY <1>1, <1>2, <1>3, <1>4, <1>6, <1>9

\* A packet is lost while rcopy sends data.
LEMMA LossData ==
    ASSUME FileFits, LossOnly, CopyInv, Solitary, DataPhase,
           state \in {"SEND_DATA", "WAIT_ON_ACK"}, FaultNext
    PROVE  Solitary' /\ DataPhase'
<1> DEFINE q == inbox[server]
           r == inbox[Client]
           q2 == inbox'[server]
           r2 == inbox'[Client]
           H == Held(buffer[server])
           e == buffer[server].expected
           low == window.lower
           end == window.current
           asked == buffer[server].missing_active
           busy == writing[server]
           w == Waits
           k == retry_count
           f == faults
<1>1. /\ Solitary' /\ UNCHANGED <<rcopyVars, serverVars>> /\ faults' = f + 1
      /\ \/ q # <<>> /\ q2 = Tail(q) /\ r2 = r
         \/ r # <<>> /\ r2 = Tail(r) /\ q2 = q
  BY LossSolitary DEF CopyInv
<1>2. /\ q \in Seq(PacketType) /\ r \in Seq(PacketType)
      /\ H \in SUBSET Nat /\ e \in Nat /\ asked \in BOOLEAN /\ busy \in BOOLEAN
      /\ low \in Nat /\ end \in Nat /\ k \in Nat /\ f \in Nat /\ w \in BOOLEAN
  BY DataFacts DEF DataPhase, Waits
<1>3. Lines(q, r, H, e, low, end, asked, busy, w, k, f)
  BY DEF DataPhase
<1>4. /\ server' = server /\ Held(buffer'[server']) = H /\ buffer'[server'].expected = e
      /\ buffer'[server'].missing_active = asked /\ writing'[server'] = busy
      /\ window'.lower = low /\ window'.current = end
      /\ Waits' = w /\ retry_count' = k
      /\ child_state'[server'] = "RECV_DATA" /\ ~failed'[server']
      /\ inbox'[server'] = q2 /\ inbox'[Client] = r2
  BY <1>1 DEF rcopyVars, serverVars, Waits, DataPhase
<1>5. /\ state' = "SEND_DATA" => at' \in {"run", "poll"} /\ retry_count' = 0
      /\ state' = "WAIT_ON_ACK" => at' = "wait" \/ (at' = "poll" /\ got_control')
  BY <1>1 DEF rcopyVars, DataPhase
<1> HIDE DEF q, r, q2, r2, H, e, low, end, asked, busy, w, k, f
<1>6. Lines(q2, r2, H, e, low, end, asked, busy, w, k, f + 1)
  <2>1. CASE q # <<>> /\ q2 = Tail(q) /\ r2 = r
    <3>1. Lines(Tail(q), r, H, e, low, end, asked, busy, w, k, f + 1)
      BY <1>2, <1>3, <2>1, LinesLoseData
    <3> QED
      BY <2>1, <3>1
  <2>2. CASE r # <<>> /\ r2 = Tail(r) /\ q2 = q
    <3>1. Lines(q, Tail(r), H, e, low, end, asked, busy, w, k, f + 1)
      BY <1>2, <1>3, <2>2, LinesLoseAnswer
    <3> QED
      BY <2>2, <3>1
  <2> QED
    BY <1>1, <2>1, <2>2
<1>7. DataPhase'
  BY <1>1, <1>4, <1>5, <1>6 DEF DataPhase
<1> QED
  BY <1>1, <1>7

\* Every step while rcopy sends data.
LEMMA DataStep ==
    ASSUME FileFits, Timely, LossOnly, CopyInv, RejectInv, Solitary, DataPhase, Next,
           state \in {"SEND_DATA", "WAIT_ON_ACK"}, faults < RcopyTries
    PROVE  /\ Solitary' /\ had_error' = had_error
           /\ \/ state' \in {"SEND_DATA", "WAIT_ON_ACK"} /\ DataPhase'
              \/ state' = "SEND_EOF" /\ EofPhase'
<1>1. CASE RcopyNext
  BY <1>1, RcopyData
<1>2. ~MainNext
  BY MainForks DEF Solitary, CopyInv
<1>3. CASE ChildNext(server)
  <2>1. UNCHANGED rcopyVars
    BY <1>3 DEF ChildNext
  <2> QED
    BY <1>3, <2>1, ChildData DEF rcopyVars
<1>4. ASSUME NEW d \in Child \ {server}, ChildNext(d)
      PROVE  Solitary' /\ had_error' = had_error /\ state' = state /\ DataPhase'
  <2>1. /\ Solitary'
        /\ UNCHANGED <<rcopyVars, inbox, faults>>
        /\ UNCHANGED <<child_state[server], writing[server], buffer[server], failed[server]>>
    BY <1>4, OrphanStep DEF CopyInv
  <2>2. UNCHANGED <<state, at, server, window, had_error, retry_count, got_control>>
    BY <2>1 DEF rcopyVars
  <2>3. Waits' = Waits
    BY <2>2 DEF Waits
  <2>4. DataPhase'
    BY <2>1, <2>2, <2>3 DEF DataPhase
  <2> QED
    BY <2>1, <2>2, <2>4
<1>5. CASE FaultNext
  <2>1. UNCHANGED rcopyVars
    BY <1>5 DEF FaultNext
  <2> QED
    BY <1>5, <2>1, LossData DEF rcopyVars
<1>6. ~Finished
  BY DEF Finished
<1> QED
  BY <1>1, <1>2, <1>3, <1>4, <1>5, <1>6 DEF Next

-----------------------------------------------------------------------------
(* The end of a copy.                                                      *)

\* The numbers of this phase.
LEMMA EofFacts ==
    ASSUME TypeInv, Solitary
    PROVE  /\ server \in Child /\ server \in Address /\ server # Client /\ Client \in Address
           /\ inbox = [a \in Address |-> inbox[a]]
           /\ tries \in Nat /\ child_retry[server] \in Nat /\ faults \in Nat
           /\ RcopyTries \in Nat /\ ServerTries \in Nat /\ had_error \in BOOLEAN
<1>1. server \in Child /\ server \in Address /\ server # Client /\ Client \in Address
  BY Addresses DEF Solitary
<1>2. inbox = [a \in Address |-> inbox[a]]
  BY Queues
<1> QED
  BY <1>1, <1>2, Bounds DEF TypeInv, TypeOK, RcopyTypeOK, ServerTypeOK, NetworkTypeOK

\* send_eof_state.
LEMMA RcopyEof ==
    ASSUME Timely, TypeInv, Solitary, EofPhase, RcopyNext, state = "SEND_EOF",
           faults < RcopyTries
    PROVE  /\ had_error' = had_error
           /\ state' = "DONE" \/ (state' = "SEND_EOF" /\ Solitary' /\ EofPhase')
<1>1. UNCHANGED serverVars /\ UNCHANGED <<child_state, writing, child_retry>>
  BY DEF RcopyNext, serverVars
<1>2. /\ server \in Child /\ server \in Address /\ server # Client /\ Client \in Address
      /\ inbox = [a \in Address |-> inbox[a]]
      /\ tries \in Nat /\ child_retry[server] \in Nat /\ faults \in Nat
      /\ RcopyTries \in Nat /\ had_error \in BOOLEAN
  BY EofFacts
<1>3. CASE eof_send
  <2> DEFINE p == make_packet(Client, "EOF", 0, Nil)
  <2>1. /\ at = "run" /\ at' = "wait" /\ UNCHANGED <<state, server, had_error, tries, faults>>
        /\ inbox' = Posted(inbox, server, <<p>>)
    BY <1>3 DEF eof_send, rcopy_sends
  <2>2. Resting
    BY <2>1 DEF EofPhase
  <2>3. Solitary' /\ inbox'[Client] = inbox[Client]
    BY <1>1, <2>1, RcopySolitary
  <2>4. inbox'[server] = <<p>>
    <3> HIDE DEF p
    <3>1. inbox'[server] = <<>> \o <<p>>
      BY <1>2, <2>1, <2>2 DEF Posted, Resting
    <3> QED
      BY <3>1
  <2>5. EofPhase'
    BY <1>1, <2>1, <2>2, <2>3, <2>4 DEF EofPhase, Resting
  <2> QED
    BY <1>3, <2>1, <2>3, <2>5 DEF eof_send
<1>4. CASE OneSecondOver /\ eof_timeout
  <2>1. /\ at = "wait" /\ eof_try_again /\ UNCHANGED <<server, inbox, faults>>
    BY <1>4 DEF eof_timeout, networkVars
  <2>2. Resting
    BY <1>2, <1>4 DEF OneSecondOver, Quiet, live, EofPhase, Resting
  <2>3. tries + child_retry[server] + 1 <= faults
    BY <2>1, <2>2 DEF EofPhase, Resting
  <2>4. tries + 1 < RcopyTries /\ (tries + 1) + child_retry[server] <= faults
    BY <1>2, <2>3
  <2>5. tries' = tries + 1 /\ at' = "run" /\ UNCHANGED <<state, had_error>>
    BY <2>1, <2>4 DEF eof_try_again
  <2>6. Solitary'
    BY <1>1, <2>1 DEF Solitary, Orphan
  <2>7. EofPhase'
    BY <1>1, <2>1, <2>2, <2>4, <2>5 DEF EofPhase, Resting
  <2> QED
    BY <2>5, <2>6, <2>7
<1>5. ASSUME NEW p, eof_recv(p) PROVE had_error' = had_error /\ state' = "DONE"
  <2>1. Arrives(Client, p)
    BY <1>5 DEF eof_recv
  <2>2. inbox[Client] = <<send_eof_ack(server)>>
    BY <2>1 DEF EofPhase, Resting, Arrives
  <2>3. p = send_eof_ack(server)
    BY <2>1, <2>2 DEF Arrives
  <2>4. IsGood(p, "EOF_ACK")
    BY <2>3 DEF send_eof_ack, make_packet, IsGood, check_packet, get_flag
  <2>5. Finish(FALSE)
    BY <1>5, <2>4 DEF eof_recv, send_final_done
  <2> QED
    BY <1>2, <2>5 DEF Finish
<1>6. /\ ~filename_send /\ ~filename_timeout /\ ~send_data /\ ~send_data_end_of_file
      /\ ~send_data_read_error /\ ~send_data_leave /\ ~send_data_drained
      /\ ~wait_on_ack_drained /\ ~wait_on_ack_timeout
      /\ \A p : ~filename_recv(p) /\ ~process_controls_recv(p)
  BY DEF filename_send, filename_timeout, send_data, send_data_end_of_file,
         send_data_read_error, send_data_leave, send_data_drained, wait_on_ack_drained,
         wait_on_ack_timeout, filename_recv, process_controls_recv
<1> QED
  BY <1>3, <1>4, <1>5, <1>6 DEF RcopyNext, RcopyStep, RcopyTimeout

\* The child that is sent EOF: it acknowledges once for each that arrives, and for
\* each second in which neither a repeated EOF nor DONE arrives.
LEMMA ChildEof ==
    ASSUME Timely, Patient, TypeInv, Solitary, EofPhase, ChildNext(server),
           state = "SEND_EOF", faults < RcopyTries
    PROVE  Solitary' /\ EofPhase'
<1> DEFINE ack == send_eof_ack(server)
           eof == make_packet(Client, "EOF", 0, Nil)
<1>1. UNCHANGED rcopyVars /\ UNCHANGED <<server, tries, at>> /\ faults' = faults
      /\ server \in Child
  BY ChildOwn DEF rcopyVars, Solitary
<1>2. /\ server \in Child /\ server \in Address /\ server # Client /\ Client \in Address
      /\ inbox = [a \in Address |-> inbox[a]]
      /\ tries \in Nat /\ child_retry[server] \in Nat /\ faults \in Nat
      /\ RcopyTries \in Nat /\ ServerTries \in Nat
  BY EofFacts
<1>3. /\ child_state[server] \in {"RECV_DATA", "WAIT_ON_DONE"} /\ ~writing[server]
      /\ tries + child_retry[server] <= faults
  BY DEF EofPhase
<1>4. ack.from = server
  BY DEF send_eof_ack, make_packet
<1>5. /\ child_state = [c \in Child |-> child_state[c]]
      /\ child_retry = [c \in Child |-> child_retry[c]]
  BY DEF TypeInv, TypeOK, ServerTypeOK
<1>6. ASSUME NEW p, Arrives(server, p)
      PROVE  /\ inbox[server] = <<eof>> /\ inbox[Client] = <<>> /\ at = "wait"
             /\ IsGood(p, "EOF") /\ ~IsGood(p, "DATA") /\ ~IsGood(p, "DONE")
             /\ Tail(inbox[server]) = <<>>
  <2>1. inbox[server] = <<eof>> /\ inbox[Client] = <<>> /\ at = "wait"
    BY <1>6 DEF EofPhase, Resting, Arrives
  <2>2. p = eof
    BY <1>6, <2>1 DEF Arrives
  <2>3. IsGood(p, "EOF") /\ ~IsGood(p, "DATA") /\ ~IsGood(p, "DONE")
    BY <2>2 DEF make_packet, IsGood, check_packet, get_flag
  <2> HIDE DEF eof
  <2>4. Tail(inbox[server]) = <<>>
    BY <2>1
  <2> QED
    BY <2>1, <2>3, <2>4
<1>7. ASSUME NEW box \in {inbox, Taken(server)}, inbox' = Posted(box, Client, <<ack>>),
             box[server] = <<>>, inbox[Client] = <<>>, at = "wait",
             child_state'[server] = "WAIT_ON_DONE", writing' = writing,
             tries + child_retry'[server] <= faults
      PROVE  Solitary' /\ EofPhase'
  <2>1. \E p, q : \E ps \in {<<p>>, <<p, q>>} :
           p.from = server /\ q.from = server /\ inbox' = Posted(box, Client, ps)
    BY <1>4, <1>7
  <2>2. Solitary' /\ inbox'[server] = <<>> /\ box[Client] = <<>>
    BY <1>7, <2>1, ChildSolitary
  <2>3. inbox'[Client] = <<ack>>
    <3>1. box = [a \in Address |-> box[a]]
      BY <1>2, <1>7 DEF Taken
    <3> HIDE DEF ack
    <3>2. inbox'[Client] = <<>> \o <<ack>>
      BY <1>2, <1>7, <2>2, <3>1 DEF Posted
    <3> QED
      BY <3>2
  <2>4. EofPhase'
    BY <1>1, <1>3, <1>7, <2>2, <2>3 DEF EofPhase, Resting
  <2> QED
    BY <2>2, <2>4
<1>8. ASSUME NEW p, recv_eof(server, p) PROVE Solitary' /\ EofPhase'
  <2>1. /\ Arrives(server, p) /\ inbox' = Posted(Taken(server), Client, <<ack>>)
        /\ child_retry' = [child_retry EXCEPT ![server] = 0]
        /\ GoesTo(server, "WAIT_ON_DONE") /\ writing' = writing
    BY <1>8 DEF recv_eof, may_receive, child_sends
  <2>2. Taken(server)[server] = <<>> /\ inbox[Client] = <<>> /\ at = "wait"
    BY <1>2, <1>6, <2>1 DEF Taken
  <2>3. child_state'[server] = "WAIT_ON_DONE" /\ child_retry'[server] = 0
    BY <1>2, <1>5, <2>1 DEF GoesTo
  <2>4. tries + 0 <= faults
    BY <1>2, <1>3
  <2> HIDE DEF ack
  <2> QED
    BY <1>7, <2>1, <2>2, <2>3, <2>4
<1>9. ASSUME NEW p, recv_eof_again(server, p) PROVE Solitary' /\ EofPhase'
  <2>1. /\ Arrives(server, p) /\ inbox' = Posted(Taken(server), Client, <<ack>>)
        /\ child_state[server] = "WAIT_ON_DONE"
        /\ UNCHANGED <<child_state, child_retry, writing>>
    BY <1>9 DEF recv_eof_again, may_receive, child_sends, serverVars
  <2>2. Taken(server)[server] = <<>> /\ inbox[Client] = <<>> /\ at = "wait"
    BY <1>2, <1>6, <2>1 DEF Taken
  <2> HIDE DEF ack
  <2> QED
    BY <1>3, <1>7, <2>1, <2>2
<1>10. CASE OneSecondOver /\ wait_on_done_timeout(server)
  <2>1. /\ child_state[server] = "WAIT_ON_DONE"
        /\ child_retry' = [child_retry EXCEPT ![server] = @ + 1]
        /\ IF child_retry[server] + 1 >= ServerTries
           THEN Fails(server) /\ UNCHANGED inbox
           ELSE /\ child_sends(inbox, <<ack>>)
                /\ UNCHANGED <<child_state, failed>>
        /\ writing' = writing
    BY <1>10 DEF wait_on_done_timeout
  <2>2. Resting /\ at = "wait"
    BY <1>2, <1>3, <1>10, <2>1 DEF OneSecondOver, Quiet, live, Resting
  <2>3. tries + child_retry[server] + 1 <= faults
    BY <2>2 DEF EofPhase, Resting
  <2>4. /\ ~(child_retry[server] + 1 >= ServerTries)
        /\ tries + (child_retry[server] + 1) <= faults
    BY <1>2, <2>3 DEF Patient
  <2>5. inbox' = Posted(inbox, Client, <<ack>>) /\ UNCHANGED child_state
    BY <2>1, <2>4 DEF child_sends
  <2>6. child_retry'[server] = child_retry[server] + 1
    BY <1>2, <1>5, <2>1
  <2>7. inbox[server] = <<>> /\ inbox[Client] = <<>>
    BY <2>2 DEF Resting
  <2> HIDE DEF ack
  <2> QED
    BY <1>7, <2>1, <2>2, <2>4, <2>5, <2>6, <2>7
<1>11. /\ ~filename_open(server) /\ ~filename_open_error(server)
       /\ ~write_ready(server) /\ ~write_short(server) /\ ~write_error(server)
       /\ ~write_done(server)
  BY <1>3 DEF filename_open, filename_open_error, write_ready, write_short, writes,
              write_error, write_done, may_write
<1>12. \A p : /\ ~recv_data(server, p) /\ ~recv_data_ignore(server, p)
              /\ ~recv_done(server, p) /\ ~wait_on_done_ignore(server, p)
  BY <1>6 DEF recv_data, recv_data_ignore, recv_done, wait_on_done_ignore, may_receive
<1>13. ~TenSecondsOver(server)
  BY DEF TenSecondsOver
<1> QED
  BY <1>8, <1>9, <1>10, <1>11, <1>12, <1>13 DEF ChildNext, ChildStep

\* Every step while rcopy waits for the acknowledgement of EOF.
LEMMA EofStep ==
    ASSUME Timely, LossOnly, Patient, TypeInv, Solitary, EofPhase, Next,
           state = "SEND_EOF", faults < RcopyTries
    PROVE  /\ had_error' = had_error
           /\ state' = "DONE" \/ (state' = "SEND_EOF" /\ Solitary' /\ EofPhase')
<1>1. CASE RcopyNext
  BY <1>1, RcopyEof
<1>2. ~MainNext
  BY MainForks DEF Solitary
<1>3. CASE ChildNext(server)
  <2>1. UNCHANGED rcopyVars
    BY <1>3 DEF ChildNext
  <2> QED
    BY <1>3, <2>1, ChildEof DEF rcopyVars
<1>4. ASSUME NEW d \in Child \ {server}, ChildNext(d)
      PROVE  had_error' = had_error /\ state' = "SEND_EOF" /\ Solitary' /\ EofPhase'
  <2>1. /\ Solitary'
        /\ UNCHANGED <<rcopyVars, inbox, faults>>
        /\ UNCHANGED <<child_state[server], writing[server], child_retry[server]>>
    BY <1>4, OrphanStep
  <2>2. UNCHANGED <<state, at, server, had_error, tries>>
    BY <2>1 DEF rcopyVars
  <2>3. EofPhase'
    BY <2>1, <2>2 DEF EofPhase, Resting
  <2> QED
    BY <2>1, <2>2, <2>3
<1>5. CASE FaultNext
  <2>1. /\ Solitary' /\ UNCHANGED <<rcopyVars, serverVars>> /\ faults' = faults + 1
        /\ \/ /\ inbox[server] # <<>> /\ inbox'[server] = Tail(inbox[server])
              /\ inbox'[Client] = inbox[Client]
           \/ /\ inbox[Client] # <<>> /\ inbox'[Client] = Tail(inbox[Client])
              /\ inbox'[server] = inbox[server]
    BY <1>5, LossSolitary
  <2>2. /\ UNCHANGED <<state, at, server, had_error, tries>>
        /\ UNCHANGED <<child_state, writing, child_retry>>
    BY <2>1 DEF rcopyVars, serverVars
  <2>3. at = "wait" /\ inbox'[server] = <<>> /\ inbox'[Client] = <<>>
    <3> DEFINE ack == send_eof_ack(server)
               eof == make_packet(Client, "EOF", 0, Nil)
    <3>1. at = "wait" /\ \/ inbox[Client] = <<>> /\ inbox[server] = <<eof>>
                         \/ inbox[server] = <<>> /\ inbox[Client] = <<ack>>
      BY <2>1 DEF EofPhase, Resting
    <3> HIDE DEF ack, eof
    <3>2. \A p : Tail(<<p>>) = <<>>
      OBVIOUS
    <3>3. CASE inbox[Client] = <<>> /\ inbox[server] = <<eof>>
      BY <2>1, <3>1, <3>2, <3>3
    <3>4. CASE inbox[server] = <<>> /\ inbox[Client] = <<ack>>
      BY <2>1, <3>1, <3>2, <3>4
    <3> QED
      BY <3>1, <3>3, <3>4
  <2>4. tries + child_retry[server] <= faults + 1
        /\ tries + child_retry[server] + 1 <= faults + 1
    BY EofFacts DEF EofPhase
  <2>5. EofPhase'
    BY <2>1, <2>2, <2>3, <2>4 DEF EofPhase, Resting
  <2> QED
    BY <2>1, <2>2, <2>5
<1>6. ~Finished
  BY DEF Finished
<1> QED
  BY <1>1, <1>2, <1>3, <1>4, <1>5, <1>6 DEF Next

-----------------------------------------------------------------------------
(* The beginning of a copy.                                                *)

\* A child that has received nothing yet.
Fresh(d) ==
    /\ inbox[d] = <<>> /\ ~writing[d]
    /\ child_state[d] \in {"UNUSED", "FILENAME", "RECV_DATA", "DONE"}
    /\ child_state[d] = "RECV_DATA" => buffer[d] = buffer_init(WindowSize, FIRST_DATA_SEQ)
    /\ child_state[d] # "DONE" => ~failed[d]

Nobody == \A d \in Child : child_state[d] # "FILENAME"

\* rcopy's FILENAME is on its way, a child opens the file, or its answer is on its
\* way.
FilenameSent ==
    /\ inbox[Main] = <<make_packet(Client, "FILENAME", WindowSize, Nil)>>
    /\ inbox[Client] = <<>> /\ Nobody

Opening ==
    /\ inbox[Main] = <<>> /\ inbox[Client] = <<>>
    /\ \E d \in Child : \A c \in Child : child_state[c] = "FILENAME" <=> c = d

Answered ==
    /\ inbox[Main] = <<>> /\ Nobody
    /\ \E d \in Child : /\ child_state[d] = "RECV_DATA"
                        /\ inbox[Client] = <<send_filename_response(d, 0)>>

\* rcopy repeats its FILENAME only if the one before or its answer has been lost.
AskPhase ==
    /\ server = Main /\ retry_count = 0 /\ tries <= faults
    /\ \A d \in Child : Fresh(d)
    /\ \/ at = "run" /\ Idle
       \/ at = "wait" /\ Idle /\ tries + 1 <= faults
       \/ at = "wait" /\ (FilenameSent \/ Opening \/ Answered)

\* The numbers of this phase.
LEMMA AskFacts ==
    ASSUME TypeInv
    PROVE  /\ Client \in Address /\ Main \in Address /\ Client # Main
           /\ \A d \in Child : d \in Address /\ d # Client /\ d # Main
           /\ inbox = [a \in Address |-> inbox[a]]
           /\ child_state = [c \in Child |-> child_state[c]]
           /\ failed = [c \in Child |-> failed[c]]
           /\ buffer = [c \in Child |-> buffer[c]]
           /\ tries \in Nat /\ faults \in Nat /\ RcopyTries \in Nat
<1>1. inbox = [a \in Address |-> inbox[a]]
  BY Queues
<1> QED
  BY <1>1, Addresses, Bounds DEF TypeInv, TypeOK, RcopyTypeOK, ServerTypeOK, NetworkTypeOK

\* The first answer: the child that sent it has an empty buffer, and rcopy an empty
\* window, that begin with the same packet.
LEMMA FirstAnswer ==
    ASSUME TypeInv, AskPhase, NEW p, filename_recv(p), UNCHANGED serverVars
    PROVE  /\ had_error' = had_error
           /\ state' = "SEND_DATA" /\ Solitary' /\ DataPhase'
<1>1. /\ at = "wait" /\ Arrives(Client, p) /\ inbox' = Taken(Client) /\ server' = p.from
      /\ IF IsGood(p, "FILENAME_RESP") THEN filename_response(p) ELSE filename_try_again
  BY DEF filename_recv
<1>2. inbox[Client] # <<>> /\ p = Head(inbox[Client])
  BY <1>1 DEF Arrives
<1>3. Answered
  BY <1>1, <1>2 DEF AskPhase, Idle, FilenameSent, Opening
<1>4. PICK d \in Child : /\ child_state[d] = "RECV_DATA"
                         /\ inbox[Client] = <<send_filename_response(d, 0)>>
  BY <1>3 DEF Answered
<1>5. p = send_filename_response(d, 0)
  BY <1>2, <1>4
<1>6. p.from = d /\ p.num = 0 /\ IsGood(p, "FILENAME_RESP")
  BY <1>5 DEF send_filename_response, make_packet, IsGood, check_packet, get_flag
<1>7. /\ window' = window_init(WindowSize, FIRST_SEQ + 1)
      /\ state' = "SEND_DATA" /\ at' = "run"
      /\ UNCHANGED <<had_error, retry_count, faults>> /\ server' = d
  BY <1>1, <1>6 DEF filename_response
<1>8. /\ Client \in Address /\ Main \in Address /\ Client # Main
      /\ \A c \in Child : c \in Address /\ c # Client /\ c # Main
      /\ inbox = [a \in Address |-> inbox[a]] /\ faults \in Nat
  BY AskFacts
<1>9. inbox'[Client] = <<>> /\ \A a \in Address \ {Client} : inbox'[a] = inbox[a]
  <2>1. /\ inbox'[Client] = Tail(inbox[Client])
        /\ \A a \in Address \ {Client} : inbox'[a] = inbox[a]
    BY <1>1, <1>8 DEF Taken
  <2> DEFINE s == send_filename_response(d, 0)
  <2>2. inbox[Client] = <<s>>
    BY <1>4
  <2> HIDE DEF s
  <2> QED
    BY <2>1, <2>2
<1>10. UNCHANGED <<child_state, writing, buffer, failed>>
  BY DEF serverVars
<1>11. Solitary'
  <2>1. inbox'[Main] = <<>>
    BY <1>3, <1>8, <1>9 DEF Answered
  <2>2. \A c \in Child : inbox'[c] = <<>> /\ ~writing'[c]
                         /\ child_state'[c] \in {"UNUSED", "RECV_DATA", "DONE"}
    BY <1>3, <1>8, <1>9, <1>10 DEF AskPhase, Answered, Nobody, Fresh
  <2>3. From(inbox'[Client], {server'})
    BY <1>9 DEF From
  <2> QED
    BY <1>7, <2>1, <2>2, <2>3 DEF Solitary, Orphan
<1> DEFINE e == FIRST_DATA_SEQ
           k == retry_count
           f == faults
<1>12. /\ inbox'[server'] = <<>> /\ buffer'[server'] = buffer_init(WindowSize, FIRST_DATA_SEQ)
       /\ writing'[server'] = FALSE /\ child_state'[server'] = "RECV_DATA"
       /\ ~failed'[server']
  <2>1. Fresh(d) /\ writing[d] \in BOOLEAN
    BY DEF AskPhase, TypeInv, TypeOK, ServerTypeOK
  <2> QED
    BY <1>4, <1>7, <1>8, <1>9, <1>10, <2>1 DEF Fresh
<1>13. /\ Held(buffer'[server']) = {} /\ buffer'[server'].expected = e
       /\ buffer'[server'].missing_active = FALSE
  BY <1>12, HeldInit DEF buffer_init
<1>14. window'.lower = e /\ window'.current = e
  BY <1>7 DEF window_init, FIRST_DATA_SEQ, FIRST_SEQ
<1>15. Waits' = FALSE /\ retry_count' = k /\ retry_count' = 0 /\ faults' = f
  BY <1>7 DEF Waits, AskPhase
<1>16. e \in Nat /\ f \in Nat
  BY <1>8 DEF FIRST_DATA_SEQ
<1> HIDE DEF e, k, f
<1>17. Lines(<<>>, <<>>, {}, e, e, e, FALSE, FALSE, FALSE, k, f)
  BY <1>16, LinesStart
<1>18. DataPhase'
  BY <1>7, <1>9, <1>12, <1>13, <1>14, <1>15, <1>17 DEF DataPhase
<1> QED
  BY <1>7, <1>11, <1>18

\* filename_state.
LEMMA RcopyAsk ==
    ASSUME Timely, TypeInv, AskPhase, RcopyNext, state = "FILENAME", faults < RcopyTries
    PROVE  /\ had_error' = had_error
           /\ \/ state' = "FILENAME" /\ AskPhase'
              \/ state' = "SEND_DATA" /\ Solitary' /\ DataPhase'
<1>1. UNCHANGED serverVars /\ UNCHANGED <<child_state, writing, buffer, failed>>
  BY DEF RcopyNext, serverVars
<1>2. /\ Client \in Address /\ Main \in Address /\ Client # Main
      /\ \A d \in Child : d \in Address /\ d # Client /\ d # Main
      /\ inbox = [a \in Address |-> inbox[a]]
      /\ tries \in Nat /\ faults \in Nat /\ RcopyTries \in Nat
  BY AskFacts
<1>3. CASE filename_send
  <2> DEFINE p == make_packet(Client, "FILENAME", WindowSize, Nil)
  <2>1. /\ at = "run" /\ at' = "wait"
        /\ UNCHANGED <<state, server, had_error, retry_count, tries, faults>>
        /\ inbox' = Posted(inbox, server, <<p>>)
    BY <1>3 DEF filename_send, rcopy_sends
  <2>2. Idle /\ server = Main
    BY <2>1 DEF AskPhase
  <2>3. \A a \in Address \ {Main} : inbox'[a] = inbox[a]
    BY <1>2, <2>1, <2>2 DEF Posted
  <2>4. inbox'[Main] = <<p>>
    <3> HIDE DEF p
    <3>1. inbox'[Main] = <<>> \o <<p>>
      BY <1>2, <2>1, <2>2 DEF Posted, Idle
    <3> QED
      BY <3>1
  <2>5. \A d \in Child : Fresh(d)'
    BY <1>1, <1>2, <2>3 DEF AskPhase, Fresh
  <2>6. FilenameSent'
    BY <1>1, <1>2, <2>2, <2>3, <2>4 DEF FilenameSent, Idle, Nobody
  <2>7. AskPhase'
    BY <2>1, <2>5, <2>6 DEF AskPhase
  <2> QED
    BY <1>3, <2>1, <2>7 DEF filename_send
<1>4. CASE OneSecondOver /\ filename_timeout
  <2>1. /\ at = "wait" /\ filename_try_again /\ UNCHANGED <<server, inbox>>
        /\ UNCHANGED <<retry_count, faults>>
    BY <1>4 DEF filename_timeout, filename_try_again
  <2>2. Idle
    BY <1>4 DEF OneSecondOver, Quiet, live, Idle
  <2>3. tries + 1 <= faults
    BY <2>1, <2>2 DEF AskPhase, Idle, FilenameSent, Opening, Answered
  <2>4. tries + 1 < RcopyTries
    BY <1>2, <2>3
  <2>5. tries' = tries + 1 /\ at' = "run" /\ UNCHANGED <<state, had_error>>
    BY <2>1, <2>4 DEF filename_try_again
  <2>6. (\A d \in Child : Fresh(d)') /\ Idle'
    BY <1>1, <2>1, <2>2 DEF AskPhase, Fresh, Idle
  <2>7. AskPhase'
    BY <2>1, <2>3, <2>5, <2>6 DEF AskPhase
  <2> QED
    BY <2>5, <2>7
<1>5. ASSUME NEW p, filename_recv(p)
      PROVE  had_error' = had_error /\ state' = "SEND_DATA" /\ Solitary' /\ DataPhase'
  BY <1>1, <1>5, FirstAnswer
<1>6. /\ ~eof_send /\ ~eof_timeout /\ ~send_data /\ ~send_data_end_of_file
      /\ ~send_data_read_error /\ ~send_data_leave /\ ~send_data_drained
      /\ ~wait_on_ack_drained /\ ~wait_on_ack_timeout
      /\ \A p : ~eof_recv(p) /\ ~process_controls_recv(p)
  BY DEF eof_send, eof_timeout, send_data, send_data_end_of_file,
         send_data_read_error, send_data_leave, send_data_drained, wait_on_ack_drained,
         wait_on_ack_timeout, eof_recv, process_controls_recv
<1> QED
  BY <1>3, <1>4, <1>5, <1>6 DEF RcopyNext, RcopyStep, RcopyTimeout

\* The main process forks a child for the FILENAME: there is one left, as no more
\* FILENAMEs have been sent than faults happened, and one.
LEMMA MainAsk ==
    ASSUME EnoughChildren, TypeInv, ForkInv, AskPhase, MainNext, faults < RcopyTries
    PROVE  AskPhase'
<1> DEFINE filename == make_packet(Client, "FILENAME", WindowSize, Nil)
<1>1. /\ Client \in Address /\ Main \in Address /\ Client # Main
      /\ \A d \in Child : d \in Address /\ d # Client /\ d # Main
      /\ inbox = [a \in Address |-> inbox[a]]
      /\ child_state = [c \in Child |-> child_state[c]]
      /\ tries \in Nat /\ faults \in Nat /\ RcopyTries \in Nat
  BY AskFacts
<1>2. PICK p : main_recv(p)
  BY DEF MainNext, MainStep
<1>3. /\ Arrives(Main, p) /\ inbox' = Taken(Main)
      /\ UNCHANGED <<writing, buffer, failed, faults>> /\ UNCHANGED rcopyVars
  BY <1>2 DEF main_recv, MainNext
<1>4. FilenameSent /\ at = "wait" /\ inbox[Main] = <<filename>> /\ p = filename
  <2>1. inbox[Main] # <<>> /\ p = Head(inbox[Main])
    BY <1>3 DEF Arrives
  <2>2. FilenameSent /\ at = "wait"
    BY <2>1 DEF AskPhase, Idle, Opening, Answered
  <2> QED
    BY <2>1, <2>2 DEF FilenameSent
<1>5. IsGood(p, "FILENAME")
  BY <1>4 DEF make_packet, IsGood, check_packet, get_flag
<1>6. \E c \in Child : child_state[c] = "UNUSED"
  <2> SUFFICES ASSUME \A c \in Child : child_state[c] # "UNUSED" PROVE FALSE
    OBVIOUS
  <2>1. Forked = Child
    BY DEF Forked
  <2>2. IsFiniteSet(Child) /\ Cardinality(Child) + Len(inbox[Main]) <= 1 + faults
    BY <2>1 DEF ForkInv, Asked
  <2>3. Len(inbox[Main]) = 1
    <3> HIDE DEF filename
    <3> QED
      BY <1>4
  <2>4. Cardinality(Child) \in Nat
    BY <2>2, FS_CardinalityType
  <2>5. Cardinality(Child) >= RcopyTries
    BY <2>2 DEF EnoughChildren
  <2> DEFINE n == Cardinality(Child)
             m == Len(inbox[Main])
  <2>6. n \in Nat /\ m = 1 /\ n + m <= 1 + faults /\ n >= RcopyTries
    BY <2>2, <2>3, <2>4, <2>5
  <2> HIDE DEF n, m
  <2>7. n <= faults
    BY <1>1, <2>6
  <2> QED
    BY <1>1, <2>6, <2>7
<1>7. PICK c \in Child : child_state[c] = "UNUSED" /\ GoesTo(c, "FILENAME")
  BY <1>2, <1>5, <1>6 DEF main_recv, fork
<1>8. /\ inbox'[Main] = <<>> /\ \A a \in Address \ {Main} : inbox'[a] = inbox[a]
  <2>1. /\ inbox'[Main] = Tail(inbox[Main])
        /\ \A a \in Address \ {Main} : inbox'[a] = inbox[a]
    BY <1>1, <1>3 DEF Taken
  <2> HIDE DEF filename
  <2> QED
    BY <1>4, <2>1
<1>9. /\ child_state'[c] = "FILENAME"
      /\ \A d \in Child \ {c} : child_state'[d] = child_state[d]
  BY <1>1, <1>7 DEF GoesTo
<1>10. \A d \in Child : Fresh(d)'
  <2>1. \A d \in Child : Fresh(d)
    BY DEF AskPhase
  <2> QED
    BY <1>1, <1>3, <1>7, <1>8, <1>9, <2>1 DEF Fresh
<1>11. Opening'
  <2>1. \A d \in Child : child_state'[d] = "FILENAME" <=> d = c
    BY <1>4, <1>9 DEF FilenameSent, Nobody
  <2> QED
    BY <1>1, <1>4, <1>8, <2>1 DEF Opening, FilenameSent
<1> QED
  BY <1>3, <1>4, <1>10, <1>11 DEF AskPhase, rcopyVars

\* What a child does as long as rcopy has had no answer: it opens the file, or ends
\* after ten seconds.
LEMMA ChildAsk ==
    ASSUME Timely, LossOnly, TypeInv, AskPhase, NEW d \in Child, ChildNext(d),
           state = "FILENAME"
    PROVE  AskPhase'
<1> DEFINE resp == send_filename_response(d, 0)
<1>1. /\ Client \in Address /\ Main \in Address /\ Client # Main
      /\ \A c \in Child : c \in Address /\ c # Client /\ c # Main
      /\ inbox = [a \in Address |-> inbox[a]]
      /\ child_state = [c \in Child |-> child_state[c]]
      /\ failed = [c \in Child |-> failed[c]]
      /\ buffer = [c \in Child |-> buffer[c]]
  BY AskFacts
<1>2. UNCHANGED rcopyVars /\ faults' = faults
  BY ChildOwn
<1>3. \A c \in Child : Fresh(c)
  BY DEF AskPhase
<1>4. CASE filename_open(d)
  <2>1. /\ child_state[d] = "FILENAME"
        /\ inbox' = Posted(inbox, Client, <<resp>>)
        /\ buffer' = [buffer EXCEPT ![d] = buffer_init(asked_size[d], FIRST_DATA_SEQ)]
        /\ GoesTo(d, "RECV_DATA")
        /\ UNCHANGED <<writing, failed>>
    BY <1>4 DEF filename_open, child_sends
  <2>2. at = "wait" /\ Opening
    BY <2>1 DEF AskPhase, Idle, FilenameSent, Answered, Nobody
  <2>3. \A c \in Child : child_state[c] = "FILENAME" <=> c = d
    BY <2>1, <2>2 DEF Opening
  <2>4. asked_size[d] = WindowSize
    BY <2>1 DEF TypeInv, ServerReady, ChildReady
  <2>5. /\ child_state'[d] = "RECV_DATA" /\ buffer'[d] = buffer_init(WindowSize, FIRST_DATA_SEQ)
        /\ \A c \in Child \ {d} : child_state'[c] = child_state[c] /\ buffer'[c] = buffer[c]
    BY <1>1, <2>1, <2>4 DEF GoesTo
  <2>6. \A a \in Address \ {Client} : inbox'[a] = inbox[a]
    BY <1>1, <2>1 DEF Posted
  <2>7. inbox'[Client] = <<resp>>
    <3> HIDE DEF resp
    <3>1. inbox'[Client] = <<>> \o <<resp>>
      BY <1>1, <2>1, <2>2 DEF Posted, Opening
    <3> QED
      BY <3>1
  <2>8. \A c \in Child : Fresh(c)'
    BY <1>1, <1>3, <2>1, <2>5, <2>6 DEF Fresh
  <2>9. Answered'
    BY <1>1, <2>2, <2>3, <2>5, <2>6, <2>7 DEF Answered, Opening, Nobody
  <2> QED
    BY <1>2, <2>2, <2>8, <2>9 DEF AskPhase, rcopyVars
<1>5. CASE TenSecondsOver(d) /\ recv_data_timeout(d)
  <2>1. /\ GoesTo(d, "DONE") /\ failed' = [failed EXCEPT ![d] = TRUE]
        /\ UNCHANGED <<writing, buffer, inbox>>
    BY <1>5 DEF recv_data_timeout, Fails, networkVars
  <2>2. Idle /\ at = "wait"
    BY <1>5 DEF TenSecondsOver, Quiet, live, Idle
  <2>3. tries + 1 <= faults
    BY <2>2 DEF AskPhase, Idle, FilenameSent, Opening, Answered
  <2>4. /\ child_state'[d] = "DONE"
        /\ \A c \in Child \ {d} : child_state'[c] = child_state[c] /\ failed'[c] = failed[c]
    BY <1>1, <2>1 DEF GoesTo
  <2>5. \A c \in Child : Fresh(c)'
    BY <1>3, <2>1, <2>4 DEF Fresh
  <2>6. Idle'
    BY <2>1, <2>2, <2>4 DEF Idle
  <2> QED
    BY <1>2, <2>2, <2>3, <2>5, <2>6 DEF AskPhase, rcopyVars
<1>6. Fresh(d)
  BY <1>3
<1>7. /\ ~write_ready(d) /\ ~write_short(d) /\ ~write_error(d) /\ ~write_done(d)
      /\ ~wait_on_done_timeout(d)
  BY <1>6 DEF Fresh, write_ready, write_short, writes, write_error, write_done, may_write,
              wait_on_done_timeout
<1>8. \A p : ~Arrives(d, p)
  BY <1>6 DEF Fresh, Arrives
<1>9. \A p : /\ ~recv_data(d, p) /\ ~recv_eof(d, p) /\ ~recv_data_ignore(d, p)
             /\ ~recv_done(d, p) /\ ~recv_eof_again(d, p) /\ ~wait_on_done_ignore(d, p)
  BY <1>8 DEF recv_data, recv_eof, recv_data_ignore, recv_done, recv_eof_again,
              wait_on_done_ignore, may_receive
<1>10. ~filename_open_error(d)
  BY DEF filename_open_error, LossOnly
<1> QED
  BY <1>4, <1>5, <1>7, <1>9, <1>10 DEF ChildNext, ChildStep

\* The FILENAME or its answer is lost.
LEMMA LossAsk ==
    ASSUME LossOnly, TypeInv, AskPhase, FaultNext
    PROVE  AskPhase' /\ UNCHANGED rcopyVars
<1>1. /\ UNCHANGED <<rcopyVars, serverVars>> /\ faults' = faults + 1
      /\ \E a \in Address : inbox[a] # <<>> /\ inbox' = Taken(a)
  BY OneLost
<1>2. PICK a \in Address : inbox[a] # <<>> /\ inbox' = Taken(a)
  BY <1>1
<1>3. /\ Client \in Address /\ Main \in Address /\ Client # Main
      /\ \A d \in Child : d \in Address /\ d # Client /\ d # Main
      /\ inbox = [b \in Address |-> inbox[b]]
      /\ tries \in Nat /\ faults \in Nat
  BY AskFacts
<1>4. \A d \in Child : Fresh(d)
  BY DEF AskPhase
<1>5. a = Client \/ a = Main
  BY <1>2, <1>4 DEF Fresh, Address
<1>6. /\ inbox'[a] = Tail(inbox[a])
      /\ \A b \in Address \ {a} : inbox'[b] = inbox[b]
  BY <1>2, <1>3 DEF Taken
<1>7. at = "wait" /\ (FilenameSent \/ Answered)
  BY <1>2, <1>5 DEF AskPhase, Idle, Opening
<1>8. inbox'[Client] = <<>> /\ inbox'[Main] = <<>> /\ Nobody
  <2>1. \A p : Tail(<<p>>) = <<>>
    OBVIOUS
  <2>2. CASE FilenameSent
    <3> DEFINE p == make_packet(Client, "FILENAME", WindowSize, Nil)
    <3>1. inbox[Main] = <<p>> /\ inbox[Client] = <<>> /\ Nobody
      BY <2>2 DEF FilenameSent
    <3> HIDE DEF p
    <3> QED
      BY <1>2, <1>3, <1>5, <1>6, <2>1, <3>1
  <2>3. CASE Answered
    <3>1. PICK d \in Child : inbox[Client] = <<send_filename_response(d, 0)>>
      BY <2>3 DEF Answered
    <3> DEFINE p == send_filename_response(d, 0)
    <3>2. inbox[Client] = <<p>> /\ inbox[Main] = <<>> /\ Nobody
      BY <2>3, <3>1 DEF Answered
    <3> HIDE DEF p
    <3> QED
      BY <1>2, <1>3, <1>5, <1>6, <2>1, <3>2
  <2> QED
    BY <1>7, <2>2, <2>3
<1>9. /\ UNCHANGED <<server, retry_count, tries, at>>
      /\ UNCHANGED <<child_state, writing, buffer, failed>>
  BY <1>1 DEF rcopyVars, serverVars
<1>10. (\A d \in Child : Fresh(d)') /\ Idle'
  BY <1>3, <1>4, <1>5, <1>6, <1>8, <1>9 DEF Fresh, Idle, Nobody
<1>11. tries <= faults + 1 /\ tries + 1 <= faults + 1
  BY <1>3 DEF AskPhase
<1> QED
  BY <1>1, <1>7, <1>9, <1>10, <1>11 DEF AskPhase

\* Every step before rcopy has an answer.
LEMMA AskStep ==
    ASSUME Timely, LossOnly, EnoughChildren, TypeInv, ForkInv, AskPhase, Next,
           state = "FILENAME", faults < RcopyTries
    PROVE  /\ had_error' = had_error
           /\ \/ state' = "FILENAME" /\ AskPhase'
              \/ state' = "SEND_DATA" /\ Solitary' /\ DataPhase'
<1>1. CASE RcopyNext
  BY <1>1, RcopyAsk
<1>2. ASSUME UNCHANGED rcopyVars, AskPhase' PROVE had_error' = had_error /\ state' = state /\ AskPhase'
  BY <1>2 DEF rcopyVars
<1>3. CASE MainNext
  BY <1>2, <1>3, MainAsk DEF MainNext
<1>4. CASE \E d \in Child : ChildNext(d)
  BY <1>2, <1>4, ChildAsk DEF ChildNext
<1>5. CASE FaultNext
  BY <1>2, <1>5, LossAsk
<1>6. ~Finished
  BY DEF Finished
<1> QED
  BY <1>1, <1>2, <1>3, <1>4, <1>5, <1>6 DEF Next

-----------------------------------------------------------------------------
(* rcopy's errors.                                                         *)

\* As long as there have been fewer faults than rcopy has tries, it has not given
\* up, and each phase is what it should be.
GiveInv ==
    faults < RcopyTries =>
      /\ ~had_error
      /\ state = "FILENAME" => AskPhase
      /\ state \in {"SEND_DATA", "WAIT_ON_ACK"} => Solitary /\ DataPhase
      /\ state = "SEND_EOF" => Solitary /\ EofPhase

LEMMA GiveInit == Init => GiveInv
<1> SUFFICES ASSUME Init PROVE GiveInv
  OBVIOUS
<1>1. /\ state = "FILENAME" /\ at = "run" /\ server = Main /\ ~had_error
      /\ retry_count = 0 /\ tries = 0
  BY DEF Init, RcopyInit
<1>2. faults = 0 /\ \A a \in Address : inbox[a] = <<>>
  BY DEF Init, NetworkInit
<1>3. \A d \in Child : child_state[d] = "UNUSED" /\ ~writing[d] /\ ~failed[d]
  BY DEF Init, ServerInit
<1>4. (\A d \in Child : Fresh(d)) /\ Idle
  BY <1>2, <1>3, Addresses DEF Fresh, Idle
<1>5. AskPhase
  BY <1>1, <1>2, <1>4 DEF AskPhase
<1> QED
  BY <1>1, <1>5 DEF GiveInv

\* No step takes a fault back.
LEMMA FaultsGrow ==
    ASSUME TypeInv, RoutesInv, [Next]_vars
    PROVE  faults' >= faults
<1>1. faults \in Nat
  BY Bounds DEF TypeInv, TypeOK, NetworkTypeOK
<1>2. CASE RcopyNext
  BY <1>1, <1>2, RcopyRoutes
<1>3. CASE MainNext
  BY <1>1, <1>3, MainForks
<1>4. CASE \E c \in Child : ChildNext(c)
  BY <1>1, <1>4, ChildOwn
<1>5. CASE FaultNext
  BY <1>1, <1>5, FaultRoutes
<1>6. CASE Finished \/ UNCHANGED vars
  BY <1>1, <1>6 DEF Finished, vars, networkVars
<1> QED
  BY <1>2, <1>3, <1>4, <1>5, <1>6 DEF Next

LEMMA GiveStep ==
    ASSUME FileFits, Timely, LossOnly, Patient, EnoughChildren,
           CopyInv, RejectInv, RoutesInv, ForkInv, GiveInv, [Next]_vars
    PROVE  GiveInv'
<1> SUFFICES ASSUME faults' < RcopyTries
             PROVE  /\ ~had_error'
                    /\ state' = "FILENAME" => AskPhase'
                    /\ state' \in {"SEND_DATA", "WAIT_ON_ACK"} => Solitary' /\ DataPhase'
                    /\ state' = "SEND_EOF" => Solitary' /\ EofPhase'
  BY DEF GiveInv
<1>1. TypeInv
  BY DEF CopyInv
<1>2. faults < RcopyTries
  <2>1. faults' >= faults
    BY <1>1, FaultsGrow
  <2>2. faults \in Nat
    BY <1>1, Bounds DEF TypeInv, TypeOK, NetworkTypeOK
  <2>3. faults' \in Nat
    BY <1>1, TypeStep, Bounds DEF TypeInv, TypeOK, NetworkTypeOK
  <2>4. RcopyTries \in Nat
    BY Bounds
  <2> QED
    BY <2>1, <2>2, <2>3, <2>4
<1>3. /\ ~had_error
      /\ state = "FILENAME" => AskPhase
      /\ state \in {"SEND_DATA", "WAIT_ON_ACK"} => Solitary /\ DataPhase
      /\ state = "SEND_EOF" => Solitary /\ EofPhase
  BY <1>2 DEF GiveInv
<1>4. CASE UNCHANGED vars
  <2>1. /\ UNCHANGED <<rcopyVars, serverVars, networkVars>>
    BY <1>4 DEF vars
  <2>2. /\ AskPhase' = AskPhase /\ Solitary' = Solitary /\ DataPhase' = DataPhase
        /\ EofPhase' = EofPhase
    BY <2>1 DEF rcopyVars, serverVars, networkVars, AskPhase, Fresh, Idle, FilenameSent,
                Opening, Answered, Nobody, Solitary, Orphan, DataPhase, Waits, EofPhase, Resting
  <2> QED
    BY <1>3, <2>1, <2>2 DEF rcopyVars
<1>5. CASE Next /\ state = "FILENAME"
  BY <1>1, <1>2, <1>3, <1>5, AskStep
<1>6. CASE Next /\ state \in {"SEND_DATA", "WAIT_ON_ACK"}
  BY <1>2, <1>3, <1>6, DataStep
<1>7. CASE Next /\ state = "SEND_EOF"
  BY <1>1, <1>2, <1>3, <1>7, EofStep
<1>8. CASE Next /\ state = "DONE"
  <2>1. UNCHANGED rcopyVars
    <3>1. ~RcopyNext
      BY <1>8
      DEF RcopyNext, RcopyStep, RcopyTimeout, filename_send, filename_timeout, filename_recv,
          process_controls_recv, eof_recv, send_data, send_data_end_of_file,
          send_data_read_error, send_data_leave, send_data_drained, wait_on_ack_drained,
          wait_on_ack_timeout, eof_send, eof_timeout
    <3> QED
      BY <1>8, <3>1 DEF Next, MainNext, ChildNext, FaultNext, Finished, vars
  <2> QED
    BY <1>3, <1>8, <2>1 DEF rcopyVars
<1>9. state \in {"FILENAME", "SEND_DATA", "WAIT_ON_ACK", "SEND_EOF", "DONE"}
  BY <1>1 DEF TypeInv, TypeOK, RcopyTypeOK
<1> QED
  BY <1>4, <1>5, <1>6, <1>7, <1>8, <1>9

\* If packets and processes are faster than the timers, and the network does nothing
\* but lose packets, rcopy gives up (MAX_TRIES) only after that many losses: no time-out
\* and no try is spent on an answer that is only late, a retransmission that crosses an
\* acknowledgement, or an EOF that finds the child still writing.
THEOREM GiveUpCorrect ==
    ASSUME Timely, FileFits, LossOnly, Patient, EnoughChildren
    PROVE  Spec => []GiveUpOnlyAfterFaults
<1> DEFINE Inv == CopyInv /\ RejectInv /\ RoutesInv /\ ForkInv /\ GiveInv
<1>1. Init => Inv
  <2>1. Init => RejectInv
    BY DEF Init, ServerInit, RejectInv, ChildAsks, serves, no_buffer
  <2> QED
    BY <2>1, CopyInit, RoutesInit, ForkInit, GiveInit
<1>2. Inv /\ [Next]_vars => Inv'
  <2> SUFFICES ASSUME Inv, [Next]_vars PROVE Inv'
    OBVIOUS
  <2>1. TypeInv
    BY DEF CopyInv
  <2>2. CopyInv'
    BY CopyStep
  <2>3. RejectInv' /\ RoutesInv'
    BY <2>1, RejectStep, RoutesStep
  <2>4. ForkInv'
    BY <2>1, ForkStep
  <2>5. GiveInv'
    BY GiveStep
  <2> QED
    BY <2>2, <2>3, <2>4, <2>5
<1>3. Inv => GiveUpOnlyAfterFaults
  <2> SUFFICES ASSUME Inv PROVE GiveUpOnlyAfterFaults
    OBVIOUS
  <2>1. faults \in Nat /\ RcopyTries \in Nat
    BY Bounds DEF CopyInv, TypeInv, TypeOK, NetworkTypeOK
  <2>2. had_error => ~(faults < RcopyTries)
    BY DEF GiveInv
  <2> QED
    BY <2>1, <2>2 DEF GiveUpOnlyAfterFaults
<1> HIDE DEF Inv
<1> QED
  BY <1>1, <1>2, <1>3, PTL DEF Spec
=============================================================================

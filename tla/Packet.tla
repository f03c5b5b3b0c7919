------------------------------- MODULE Packet -------------------------------
(***************************************************************************)
(* The packets of Packet.c and Packet.h, and the 32-bit sequence-number    *)
(* arithmetic that Window.c and Buffer.c apply to them.                    *)
(*                                                                         *)
(* A packet is a record.  "num" is the one number its receiver acts on:    *)
(* the header's sequence number of a DATA packet, the payload of an RR or  *)
(* SREJ, the window size in a FILENAME, the status byte in a               *)
(* FILENAME_RESP.  The header sequence number of every other packet        *)
(* (control_seq) is never read by a receiver and is left out.  "good" is   *)
(* what check_packet computes from the checksum, "from" the UDP source     *)
(* address that recvfrom returns.                                          *)
(***************************************************************************)
EXTENDS Integers, FiniteSetsExt

CONSTANTS
    SeqSpace,   \* how many sequence numbers there are: 2^32 in the program
    Client,     \* the address of rcopy's socket
    Main,       \* the address of the server's main socket
    Child,      \* the addresses of the child sockets, one per forked child
    Nil         \* "no data": the payload of a control packet, a hole in a file

ASSUME PacketAssumption ==
    /\ SeqSpace \in Nat /\ SeqSpace > 2
    /\ Client # Main
    /\ Client \notin Child
    /\ Main \notin Child

Address == {Client, Main} \cup Child

SeqNum == 0 .. SeqSpace - 1

\* uint32_t addition of two numbers below 2^32.
Add32(a, b) == (a + b) % SeqSpace

Flag == {"DATA", "RR", "SREJ", "FILENAME", "FILENAME_RESP", "EOF", "EOF_ACK", "DONE"}

make_packet(from, flag, num, data) ==
    [from |-> from, flag |-> flag, num |-> num, data |-> data, good |-> TRUE]

\* A damaged packet keeps its source address, which is not among its bytes; its
\* payload is lost, and no checksum hides the damage.
Damaged(p) == [p EXCEPT !.good = FALSE, !.data = Nil]

\* Slip: the checksum is not looked at.
check_packet_slip(p) == TRUE

check_packet(p) == p.good

get_flag(p) == p.flag

IsGood(p, flag) == check_packet(p) /\ get_flag(p) = flag
=============================================================================

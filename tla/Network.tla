------------------------------ MODULE Network ------------------------------
(***************************************************************************)
(* The datagram service between rcopy and the server, as safeSendto,       *)
(* safeRecvfrom and pollCall show it to the program: one queue per socket  *)
(* address.  A queue holds the packets in flight to that socket and those  *)
(* that have arrived; a poll that finds nothing is therefore possible      *)
(* while the queue is not empty.                                           *)
(*                                                                         *)
(* Faults act on the head of a queue: a packet can be lost or damaged      *)
(* (what the cpe464 library's sendtoErr does on purpose), duplicated or    *)
(* delayed behind the others (what UDP may do).  FaultKinds selects which, *)
(* and MaxFaults bounds how many there are in one behaviour.  IoFaults     *)
(* selects the calls on files that may fail, which are not counted.        *)
(***************************************************************************)
EXTENDS Packet, Sequences

CONSTANTS
    FaultKinds,   \* the faults this network commits
    MaxFaults,    \* bound: how many faults one behaviour has
    IoFaults      \* the calls on files that may fail

ASSUME NetworkAssumption ==
    /\ FaultKinds \subseteq {"lose", "damage", "duplicate", "delay"}
    /\ MaxFaults \in Nat
    /\ IoFaults \subseteq {"open", "read", "write", "short write"}

VARIABLES
    inbox,    \* inbox[a]: the packets on their way to address a, oldest first
    faults    \* how many faults the network has committed

networkVars == <<inbox, faults>>

NetworkInit ==
    /\ inbox = [a \in Address |-> <<>>]
    /\ faults = 0

\* The packets on their way to address a.
InFlight(a) == Range(inbox[a])

\* safeRecvfrom: the next packet for address a.
Arrives(a, p) == inbox[a] # <<>> /\ p = Head(inbox[a])

\* The queues after address a has received its next packet.
Taken(a) == [inbox EXCEPT ![a] = Tail(@)]

\* safeSendto: queues box with the packets ps, in order, sent to address b.
Posted(box, b, ps) == [box EXCEPT ![b] = @ \o ps]

-----------------------------------------------------------------------------
(* The faults.                                                             *)

MayFail(kind, a) ==
    /\ kind \in FaultKinds
    /\ faults < MaxFaults
    /\ inbox[a] # <<>>
    /\ faults' = faults + 1

LosePacket(a) ==
    /\ MayFail("lose", a)
    /\ inbox' = Taken(a)

DamagePacket(a) ==
    /\ MayFail("damage", a)
    /\ check_packet(Head(inbox[a]))
    /\ inbox' = [inbox EXCEPT ![a] = <<Damaged(Head(@))>> \o Tail(@)]

DuplicatePacket(a) ==
    /\ MayFail("duplicate", a)
    /\ inbox' = Posted(inbox, a, <<Head(inbox[a])>>)

DelayPacket(a) ==
    /\ MayFail("delay", a)
    /\ Len(inbox[a]) > 1
    /\ inbox' = Posted(Taken(a), a, <<Head(inbox[a])>>)

NetworkNext ==
    \E a \in Address : LosePacket(a) \/ DamagePacket(a) \/ DuplicatePacket(a) \/ DelayPacket(a)
=============================================================================

------------------------------ MODULE Checksum ------------------------------
(***************************************************************************)
(* The checksum of a packet, byte by byte: in_cksum of libcpe464, and how  *)
(* make_packet and check_packet use it.  Between them the packet crosses   *)
(* the link, on which errorFlipBits may invert one of its bytes.           *)
(*                                                                         *)
(* A byte has Base values (256 in the program) and a 16-bit word Base      *)
(* squared.  Everything the module says depends on Base only through this. *)
(***************************************************************************)
EXTENDS Integers, Sequences

CONSTANTS
    Base,       \* how many values a byte has
    MaxData,    \* bound: the longest payload
    MaxFlips    \* bound: how many bytes are inverted; the link inverts one

Byte == 0 .. Base - 1
Word == Base * Base

SREJ_HEADER_LEN == 7

\* A packet is so short that the int in which its bytes are summed up is not
\* exceeded.
ASSUME ChecksumAssumption ==
    /\ Base \in Nat /\ Base > 1 /\ Base % 2 = 0
    /\ MaxData \in Nat
    /\ SREJ_HEADER_LEN + MaxData <= Word
    /\ MaxFlips \in Nat

\* Where the header keeps the checksum, low byte first.
ChecksumLow == 5
ChecksumHigh == 6

-----------------------------------------------------------------------------
(* in_cksum.                                                               *)

\* A word is read with its first byte as the low one; the last byte of an odd
\* length is put into the low half of a zero word.
Weight(i) == IF i % 2 = 1 THEN 1 ELSE Base

\* The sum after each number of bytes.
RunningSum(addr, len) ==
    LET sum[n \in 0 .. len] ==
          IF n = 0 THEN 0 ELSE sum[n - 1] + addr[n] * Weight(n)
    IN  sum

\* Slip: the odd byte is left out.
WordSum_slip(addr, len) == RunningSum(addr, len)[len - (len % 2)]

WordSum(addr, len) == RunningSum(addr, len)[len]

\* One addition of the carries to the low word.
FoldOnce(sum) == (sum \div Word) + (sum % Word)

\* Slip: the carry of the first addition is forgotten.
Folded_slip(sum) == FoldOnce(sum) % Word

\* The carries are added back twice, as the first time may carry again.
Folded(sum) == (FoldOnce(sum) + (FoldOnce(sum) \div Word)) % Word

Answer(sum) == Word - 1 - Folded(sum)

in_cksum(addr, len) == Answer(WordSum(addr, len))

-----------------------------------------------------------------------------
(* make_packet and check_packet.                                           *)

\* seq has four bytes, the field of the checksum is zero while it is computed.
Unsummed(seq, flag, data) == seq \o <<0, 0>> \o <<flag>> \o data

WithChecksum(p, sum) ==
    [p EXCEPT ![ChecksumLow] = sum % Base, ![ChecksumHigh] = sum \div Base]

make_packet(seq, flag, data) ==
    LET p == Unsummed(seq, flag, data) IN WithChecksum(p, in_cksum(p, Len(p)))

check_packet(addr, len) == len >= SREJ_HEADER_LEN /\ in_cksum(addr, len) = 0

-----------------------------------------------------------------------------
VARIABLES
    packet,    \* the packet as its sender made it, <<>> before
    wire,      \* the packet on the link
    flips      \* how many of its bytes the link has inverted

checksumVars == <<packet, wire, flips>>

ChecksumInit ==
    /\ packet = <<>>
    /\ wire = <<>>
    /\ flips = 0

Make(seq, flag, data) ==
    /\ packet = <<>>
    /\ packet' = make_packet(seq, flag, data)
    /\ wire' = packet'
    /\ UNCHANGED flips

\* ^= 0xFF
Inverted(b) == Base - 1 - b

Flip(i) ==
    /\ flips < MaxFlips
    /\ wire' = [wire EXCEPT ![i] = Inverted(@)]
    /\ flips' = flips + 1
    /\ UNCHANGED packet

Received == wire # <<>> /\ UNCHANGED checksumVars

ChecksumNext ==
    \/ \E seq \in [1 .. 4 -> Byte], flag \in Byte, n \in 0 .. MaxData :
          \E data \in [1 .. n -> Byte] : Make(seq, flag, data)
    \/ \E i \in DOMAIN wire : Flip(i)
    \/ Received

ChecksumSpec == ChecksumInit /\ [][ChecksumNext]_checksumVars

-----------------------------------------------------------------------------
\* The receiver's array after a packet has come: behind it is what an earlier,
\* longer packet has left there.
Stale(p) == {Append(p, b) : b \in Byte}

\* MadeIsAccepted: a packet that the link has left alone passes check_packet,
\* whatever its bytes and whatever lies behind an odd length of them.
MadeIsAccepted ==
    wire # <<>> /\ flips = 0 => \A addr \in Stale(wire) : check_packet(addr, Len(wire))

\* FlipIsNoticed: a packet in which the link has inverted one byte, be it of the
\* header, of the checksum itself or the odd last one, never passes.
FlipIsNoticed ==
    flips = 1 => \A addr \in Stale(wire) : ~check_packet(addr, Len(wire))
=============================================================================

------------------------------ MODULE Transfer ------------------------------
(***************************************************************************)
(* One copy of one file: rcopy, the server's main process and its children *)
(* over the network.                                                       *)
(*                                                                         *)
(* Time appears only as time-outs.  If Timely is FALSE a time-out may      *)
(* happen at any moment: packets and processes may be slower than any      *)
(* timer.  If Timely is TRUE, messages and processes are fast: a           *)
(* one-second timer runs out only when every process is waiting and there  *)
(* is nothing left to receive, and the ten-second timer of a child only    *)
(* if, besides, rcopy, which repeats itself every second, is not (or no    *)
(* longer) talking to that child.                                          *)
(***************************************************************************)
EXTENDS Rcopy, Server

CONSTANT Timely

ASSUME TimelyAssumption == Timely \in BOOLEAN

vars == <<rcopyVars, serverVars, networkVars>>

Init == RcopyInit /\ ServerInit /\ NetworkInit

live(c) == child_state[c] \in {"FILENAME", "RECV_DATA", "WAIT_ON_DONE"}

\* Everyone who is still there waits for a packet, and there is none.
Quiet ==
    /\ state # "DONE" => at = "wait" /\ inbox[Client] = <<>>
    /\ inbox[Main] = <<>>
    /\ \A c \in Child : live(c) =>
          child_state[c] # "FILENAME" /\ ~writing[c] /\ inbox[c] = <<>>

\* Slip: a poll without a time-out.
OneSecondOver_slip == TRUE

OneSecondOver == Timely => Quiet

TenSecondsOver(c) == Timely => Quiet /\ (state = "DONE" \/ server # c)

RcopyNext ==
    /\ RcopyStep \/ (OneSecondOver /\ RcopyTimeout)
    /\ UNCHANGED serverVars

MainNext == MainStep /\ UNCHANGED rcopyVars

ChildNext(c) ==
    /\ \/ ChildStep(c)
       \/ TenSecondsOver(c) /\ recv_data_timeout(c)
       \/ OneSecondOver /\ wait_on_done_timeout(c)
    /\ UNCHANGED rcopyVars

FaultNext == NetworkNext /\ UNCHANGED <<rcopyVars, serverVars>>

\* rcopy has returned and no child is left: the main process waits for ever.
Finished ==
    /\ state = "DONE"
    /\ \A c \in Child : ~live(c)
    /\ inbox[Main] = <<>>
    /\ UNCHANGED vars

Next ==
    \/ RcopyNext
    \/ MainNext
    \/ \E c \in Child : ChildNext(c)
    \/ FaultNext
    \/ Finished

Spec == Init /\ [][Next]_vars

\* Every process that can run is run: the operating system schedules them all,
\* and a time-out that is due happens if nothing else does.
Fairness ==
    /\ WF_vars(RcopyNext)
    /\ WF_vars(MainNext)
    /\ \A c \in Child : WF_vars(ChildNext(c))

FairSpec == Spec /\ Fairness

-----------------------------------------------------------------------------
Chunk == Range(File) \cup {Nil}

\* What a place of the output file can hold.
Place == (Chunk \X {1, 2}) \cup {Nil}

PacketType ==
    [from : Address, flag : Flag, num : SeqNum, data : Chunk, good : BOOLEAN]

NetworkTypeOK ==
    /\ inbox \in [Address -> Seq(PacketType)]
    /\ faults \in 0 .. MaxFaults

RcopyTypeOK ==
    /\ state \in {"FILENAME", "SEND_DATA", "WAIT_ON_ACK", "SEND_EOF", "DONE"}
    /\ at \in {"run", "wait", "poll"}
    /\ server \in Address
    /\ IsWindow(window, Chunk) /\ window.size \in {0, WindowSize}
    /\ read_pos \in 0 .. Len(File)
    /\ file_done \in BOOLEAN /\ had_error \in BOOLEAN /\ got_control \in BOOLEAN
    /\ retry_count \in 0 .. RcopyTries
    /\ tries \in 0 .. RcopyTries

ServerTypeOK ==
    /\ child_state \in
         [Child -> {"UNUSED", "FILENAME", "RECV_DATA", "WAIT_ON_DONE", "DONE"}]
    /\ asked_size \in [Child -> {0, WindowSize}]
    /\ writing \in [Child -> BOOLEAN]
    /\ buffer = [c \in Child |-> buffer[c]]
    /\ \A c \in Child : IsBuffer(buffer[c], Chunk) /\ buffer[c].size \in {0, WindowSize}
    /\ offset \in [Child -> Nat]
    /\ child_retry \in [Child -> 0 .. ServerTries]
    /\ failed \in [Child -> BOOLEAN]
    /\ disk \in Seq(Place)

\* TypeOK: every variable keeps the type its C declaration gives it; no sequence
\* number leaves its 32 bits, no try counter passes MAX_TRIES, and the arrays
\* keep the size that the FILENAME packet announced.
TypeOK == NetworkTypeOK /\ RcopyTypeOK /\ ServerTypeOK

-----------------------------------------------------------------------------
(* What the parts know of each other.                                      *)

\* The number that follows the last DATA packet.
EndSeq == FIRST_DATA_SEQ + Len(File)

\* The chunk that the DATA packet seq carries.
ChunkOf(seq) == File[seq - FIRST_SEQ]

\* The input file, place by place.
Contents == [i \in 1 .. 2 * Len(File) |-> halves(File[(i + 1) \div 2])[2 - (i % 2)]]

\* Child c has initialised its buffer.
serves(c) == buffer[c].size > 0

\* WindowHoldsUnacked: rcopy's window array holds exactly the packets sent and
\* not acknowledged, each under its own slot with the chunk it was sent with:
\* seq % size never lets a new packet overwrite one that may be asked for again.
WindowHoldsUnacked ==
    window.size > 0 =>
      /\ window.lower <= window.current
      /\ \A seq \in window.lower .. window.current - 1 :
            /\ window_find(window, seq)
            /\ window.entry[seq % window.size].data = ChunkOf(seq)
      /\ \A spot \in DOMAIN window.entry :
            window.entry[spot].used =>
               window.entry[spot].seq \in window.lower .. window.current - 1

\* BufferHoldsLater: a child's buffer array holds only packets it has not
\* written and that fit its window, each in its own slot and with the chunk
\* that rcopy sent under that number.
BufferHoldsLater ==
    \A c \in Child : \A spot \in DOMAIN buffer[c].entry :
        LET e == buffer[c].entry[spot] IN
        e.used => /\ e.seq \in buffer[c].expected .. buffer[c].expected + buffer[c].size - 1
                  /\ e.seq % buffer[c].size = spot
                  /\ e.data = ChunkOf(e.seq)

\* SenderKeepsMissing: what the child that rcopy sends to expects next is either
\* still in rcopy's window, so that it can be sent again, or not sent yet.
SenderKeepsMissing ==
    \A c \in Child :
        server = c /\ serves(c) /\ state \in {"SEND_DATA", "WAIT_ON_ACK"} =>
            /\ window.lower <= buffer[c].expected
            /\ buffer[c].expected <= window.current
            /\ buffer[c].expected < window.current =>
                  window_find(window, buffer[c].expected)

\* AcksAreTrue: no RR on its way to rcopy acknowledges a packet its sender has
\* not given to write, and no SREJ asks for one it has not yet reached.
AcksAreTrue ==
    \A p \in InFlight(Client) :
        IsGood(p, "RR") \/ IsGood(p, "SREJ") => p.num <= buffer[p.from].expected

\* RejectExactlyWhenGap: between two packets a receiving child remembers having
\* asked for its expected packet exactly if it holds a later one: each gap is
\* asked for once, and none is forgotten.
RejectExactlyWhenGap ==
    \A c \in Child : serves(c) /\ ~writing[c] /\ ~failed[c] =>
        /\ buffer[c].missing_active <=> buffer_has_later(buffer[c])
        /\ buffer[c].missing_active => buffer[c].missing_seq = buffer[c].expected

-----------------------------------------------------------------------------
(* What the transfer promises.                                             *)

\* DiskNeverWrong: whatever is lost, repeated or late, and however many children
\* write the file, a place of the output file holds what the input file holds
\* there, or nothing, as long as no write is short.
DiskNeverWrong ==
    \A i \in DOMAIN disk :
        disk[i] = Nil \/ (i \in DOMAIN Contents /\ disk[i] = Contents[i])

\* OutputKeepsOrder: short writes leave something out and move up what follows,
\* but nothing is written twice or out of order: the output file holds, in order,
\* the places in kept of the input file.
OutputKeepsOrder ==
    \E kept \in SUBSET DOMAIN Contents :
        /\ Len(disk) = Cardinality(kept)
        /\ \A k \in kept : disk[Cardinality({j \in kept : j <= k})] = Contents[k]

\* SuccessMeansCopied: when rcopy exits with status 0 the output file is a copy
\* of the input file.
SuccessMeansCopied == state = "DONE" /\ ~had_error => disk = Contents

\* EofAfterAllData: a child acknowledges EOF only when it has written all data,
\* although handle_eof_packet does not test it.
EofAfterAllData ==
    \A c \in Child : child_state[c] = "WAIT_ON_DONE" => buffer[c].expected = EndSeq

\* CleanEndMeansSuccess: a child that ends without reporting an error has served
\* an rcopy that exits with status 0.
CleanEndMeansSuccess ==
    \A c \in Child :
        child_state[c] = "DONE" /\ ~failed[c] => state = "DONE" /\ ~had_error

\* GiveUpOnlyAfterFaults: rcopy reports an error only after the network has
\* failed as many times as rcopy tries.
GiveUpOnlyAfterFaults == had_error => faults >= RcopyTries

\* SecondChildNeedsLoss: the server forks one child per file, and a further one,
\* which empties the file again, only for a fault of the network: as a rule, for
\* a FILENAME_RESP that is lost.
SecondChildNeedsLoss ==
    Cardinality({c \in Child : child_state[c] # "UNUSED"}) <= 1 + faults

\* What rcopy's exit status tells its user.
result == IF state # "DONE" THEN "copying" ELSE IF had_error THEN "failed" ELSE "copied"

Copy == INSTANCE FileCopy WITH Input <- Contents, output <- disk, result <- result

\* ImplementsFileCopy: seen from outside, the protocol does nothing but append
\* the next part of the input file to the output file and report success, on a complete copy, or
\* an error.
ImplementsFileCopy == Copy!CopySpec

\* NeverResendsAcked: rcopy sends no packet that has been acknowledged, even if
\* a late SREJ asks for it, and none beyond its window.
NeverResendsAcked ==
    [][ faults' = faults =>
          \A c \in Child :
             LET p == inbox'[c][Len(inbox'[c])] IN
             Len(inbox'[c]) > Len(inbox[c]) /\ p.flag = "DATA" =>
                p.num \in window'.lower .. window'.current - 1 ]_vars

\* ProgressIsKept: rcopy's lower edge and a child's expected packet only advance,
\* whatever the order in which old RRs and data arrive.
ProgressIsKept ==
    [][ /\ window.size > 0 => window'.lower >= window.lower
        /\ \A c \in Child : serves(c) => buffer'[c].expected >= buffer[c].expected ]_vars

\* RcopyTerminates: rcopy's loop reaches DONE, with or without an error.
RcopyTerminates == <>(state = "DONE")

\* ChildrenTerminate: no child outlives its transfer for ever.
ChildrenTerminate == \A c \in Child : live(c) ~> child_state[c] = "DONE"

\* EventuallyCopied: if fewer packets are lost than rcopy has tries, the file
\* arrives in the end, and rcopy says so.
EventuallyCopied ==
    [](faults < RcopyTries) => <>[](state = "DONE" /\ ~had_error /\ disk = Contents)
=============================================================================

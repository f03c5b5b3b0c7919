------------------------------ MODULE PollLib ------------------------------
(***************************************************************************)
(* pollLib.c: the array given to poll(2), indexed by descriptor.  A slot   *)
(* that is not in use, because its descriptor has not been added or has    *)
(* been removed, refers to descriptor 0 with no events asked for; poll     *)
(* reports an error or a hang-up of descriptor 0 in it all the same.       *)
(*                                                                         *)
(* A pollCall is one step, at the moment at which poll returns: it returns *)
(* at once if some slot has something to report, and otherwise when the    *)
(* time is over.  What its callers do with the answer is part of the       *)
(* module: if it is not negative, they receive from their socket, with a   *)
(* recvfrom that blocks until there is something to read.                  *)
(***************************************************************************)
EXTENDS Integers, FiniteSetsExt

CONSTANTS
    POLL_SET_SIZE,    \* how far the array grows at a time
    Descriptor,       \* the descriptors of the program, from 0
    Socket,           \* those that are added to the set
    HangUp            \* those that may be hung up: at most standard input

ASSUME PollLibAssumption ==
    /\ POLL_SET_SIZE \in Nat \ {0}
    /\ Descriptor \subseteq Nat
    /\ Socket \subseteq Descriptor
    /\ HangUp \subseteq {0}

VARIABLES
    pollFileDescriptors,    \* the array: for each slot its fd and whether POLLIN is asked
    maxFileDescriptor,      \* how many slots are given to poll
    currentPollSetSize,     \* how many slots there are
    readable,               \* the descriptors with something to read
    hung_up,                \* the descriptors that are hung up
    answer,                 \* what the last pollCall returned
    receiving               \* the socket of the recvfrom that follows it, or -1

pollSetVars == <<pollFileDescriptors, maxFileDescriptor, currentPollSetSize>>
pollVars == <<pollSetVars, readable, hung_up, answer, receiving>>

Unused == [fd |-> 0, pollin |-> FALSE]
Used(fd) == [fd |-> fd, pollin |-> TRUE]

\* setupPollSet, which the program calls first and once.
PollInit ==
    /\ pollFileDescriptors = [i \in 0 .. POLL_SET_SIZE - 1 |-> Unused]
    /\ maxFileDescriptor = 0
    /\ currentPollSetSize = POLL_SET_SIZE
    /\ readable = {}
    /\ hung_up = {}
    /\ answer = -1
    /\ receiving = -1

\* Slip: the whole array is cleared, not only what is new.
growPollSet_slip(size) == [i \in 0 .. size - 1 |-> Unused]

\* The array of a size that is greater than before.
growPollSet(size) ==
    [i \in 0 .. size - 1 |->
        IF i < currentPollSetSize THEN pollFileDescriptors[i] ELSE Unused]

\* Slip: the array grows to one slot less than is needed.
size_for_slip(fd) == IF fd >= currentPollSetSize THEN fd ELSE currentPollSetSize

\* How large the array is once fd is in it.
size_for(fd) ==
    IF fd >= currentPollSetSize THEN fd + POLL_SET_SIZE ELSE currentPollSetSize

addToPollSet(fd) ==
    /\ receiving = -1
    /\ currentPollSetSize' = size_for(fd)
    /\ maxFileDescriptor' = IF fd + 1 >= maxFileDescriptor THEN fd + 1 ELSE maxFileDescriptor
    /\ pollFileDescriptors' = [growPollSet(size_for(fd)) EXCEPT ![fd] = Used(fd)]
    /\ UNCHANGED <<readable, hung_up, answer, receiving>>

\* Called for a descriptor that has been added.
removeFromPollSet(fd) ==
    /\ receiving = -1
    /\ fd < maxFileDescriptor
    /\ pollFileDescriptors' = [pollFileDescriptors EXCEPT ![fd] = Unused]
    /\ UNCHANGED <<maxFileDescriptor, currentPollSetSize, readable, hung_up, answer,
                   receiving>>

\* poll sets revents of slot i: POLLIN if asked for, POLLHUP in any case.
revents(i) ==
    LET slot == pollFileDescriptors[i]
    IN  slot.fd \in hung_up \/ (slot.pollin /\ slot.fd \in readable)

\* The slots that poll looks at and has something to report in.
Reported == {i \in 0 .. maxFileDescriptor - 1 : revents(i)}

\* The descriptors that poll is asked to watch.
watched == {i \in 0 .. maxFileDescriptor - 1 : pollFileDescriptors[i].pollin}

\* Slip: poll's own result, how many descriptors have something to report.
pollCall_returns_slip == Cardinality(Reported)

\* The lowest descriptor that has something to report, -1 if the time is over.
pollCall_returns == IF Reported = {} THEN -1 ELSE Min(Reported)

\* A caller receives from the socket it is told, or, if that is none of its own,
\* from its own: rcopy and a child have one, and test only for -1.
pollCall ==
    /\ receiving = -1
    /\ answer' = pollCall_returns
    /\ IF answer' < 0 THEN receiving' = -1
       ELSE IF answer' \in watched THEN receiving' = answer'
       ELSE receiving' \in watched
    /\ UNCHANGED <<pollSetVars, readable, hung_up>>

\* safeRecvfrom: what came is read.
recvfrom ==
    /\ receiving \in readable
    /\ readable' = readable \ {receiving}
    /\ receiving' = -1
    /\ UNCHANGED <<pollSetVars, hung_up, answer>>

\* Something comes.
Arrival(fd) ==
    /\ readable' = readable \cup {fd}
    /\ UNCHANGED <<pollSetVars, hung_up, answer, receiving>>

\* Standard input is hung up, for good.
HangsUp ==
    /\ hung_up' = HangUp
    /\ UNCHANGED <<pollSetVars, readable, answer, receiving>>

PollNext ==
    \/ \E fd \in Socket : addToPollSet(fd) \/ removeFromPollSet(fd)
    \/ pollCall
    \/ recvfrom
    \/ \E fd \in Descriptor : Arrival(fd)
    \/ HangsUp

PollSpec == PollInit /\ [][PollNext]_pollVars

-----------------------------------------------------------------------------
\* PollTypeOK: poll is given no slot beyond the array, and each slot is unused or
\* belongs to the descriptor that is its index, however often the array has grown.
PollTypeOK ==
    /\ maxFileDescriptor \in 0 .. currentPollSetSize
    /\ DOMAIN pollFileDescriptors = 0 .. currentPollSetSize - 1
    /\ \A i \in DOMAIN pollFileDescriptors : pollFileDescriptors[i] \in {Unused, Used(i)}
    /\ readable \subseteq Descriptor /\ hung_up \subseteq HangUp
    /\ receiving \in watched \cup {-1}

\* ReadyMeansReadable: "returns the socket number if one is ready for read"
\* (pollLib.c:74): the recvfrom that follows a pollCall does not block, so that no
\* wait of the programs outlasts its time-out.
ReadyMeansReadable == receiving >= 0 => receiving \in readable

Promise == INSTANCE PollSet

\* ImplementsPollSet: as long as standard input is not hung up, the array behaves
\* as a set of descriptors, from which pollCall returns the lowest that is ready.
ImplementsPollSet == Promise!PollSetSpec
=============================================================================

---------------------------- MODULE SystemProofs ----------------------------
(***************************************************************************)
(* Theorems about the parts that the programs are built on, each for any   *)
(* size: PollLib, for any set of descriptors and any size by which the     *)
(* array grows; Zombies, for any number of children; Checksum, for bytes   *)
(* of any even number of values, any packet length the program has and any *)
(* content.                                                                *)
(***************************************************************************)
EXTENDS PollLib, Zombies, Checksum, NumberProofs, SequenceTheorems

-----------------------------------------------------------------------------
(* PollLib.                                                                *)

\* The slots that poll is not given have never been used: when the array's used
\* part grows over them, they refer to no descriptor that was not added.
PollInv ==
    /\ PollTypeOK
    /\ currentPollSetSize \in Nat
    /\ pollFileDescriptors = [i \in 0 .. currentPollSetSize - 1 |-> pollFileDescriptors[i]]
    /\ \A i \in maxFileDescriptor .. currentPollSetSize - 1 : pollFileDescriptors[i] = Unused

LEMMA PollInitInv == PollInit => PollInv
BY PollLibAssumption DEF PollInit, PollInv, PollTypeOK, Unused, Used, watched

LEMMA Slots ==
    /\ \A fd : Used(fd).fd = fd /\ Used(fd).pollin
    /\ Unused.fd = 0 /\ ~Unused.pollin
BY DEF Used, Unused

\* What addToPollSet makes of the array.
LEMMA AddGrows ==
    ASSUME PollInv, NEW fd \in Socket, addToPollSet(fd)
    PROVE  /\ fd \in Nat
           /\ currentPollSetSize' \in Nat /\ currentPollSetSize' >= currentPollSetSize
           /\ fd < currentPollSetSize'
           /\ pollFileDescriptors' =
                [i \in 0 .. currentPollSetSize' - 1 |->
                    IF i = fd THEN Used(fd)
                    ELSE IF i < currentPollSetSize THEN pollFileDescriptors[i] ELSE Unused]
           /\ maxFileDescriptor' \in maxFileDescriptor .. currentPollSetSize'
           /\ fd < maxFileDescriptor'
           /\ maxFileDescriptor' = maxFileDescriptor \/ maxFileDescriptor' = fd + 1
<1>1. fd \in Nat /\ POLL_SET_SIZE \in Nat \ {0} /\ currentPollSetSize \in Nat
      /\ maxFileDescriptor \in 0 .. currentPollSetSize
  BY PollLibAssumption DEF PollInv, PollTypeOK
<1> DEFINE size == size_for(fd)
<1>2. size \in Nat /\ size >= currentPollSetSize /\ fd < size
  BY <1>1 DEF size_for
<1>3. /\ currentPollSetSize' = size
      /\ pollFileDescriptors' = [growPollSet(size) EXCEPT ![fd] = Used(fd)]
      /\ maxFileDescriptor' = IF fd + 1 >= maxFileDescriptor THEN fd + 1 ELSE maxFileDescriptor
  BY DEF addToPollSet
<1> HIDE DEF size
<1>4. pollFileDescriptors' =
        [i \in 0 .. size - 1 |->
            IF i = fd THEN Used(fd)
            ELSE IF i < currentPollSetSize THEN pollFileDescriptors[i] ELSE Unused]
  BY <1>3 DEF growPollSet
<1>5. /\ maxFileDescriptor' \in maxFileDescriptor .. size
      /\ fd < maxFileDescriptor'
      /\ maxFileDescriptor' = maxFileDescriptor \/ maxFileDescriptor' = fd + 1
  BY <1>1, <1>2, <1>3
<1> QED
  BY <1>1, <1>2, <1>3, <1>4, <1>5

\* addToPollSet and removeFromPollSet change the set as their names say, although
\* the array grows and its used part never shrinks.
LEMMA AddWatches ==
    ASSUME PollInv, NEW fd \in Socket, addToPollSet(fd)
    PROVE  PollInv' /\ watched' = watched \cup {fd}
<1> DEFINE n == maxFileDescriptor
           n1 == maxFileDescriptor'
           old == pollFileDescriptors
           new == pollFileDescriptors'
           size == currentPollSetSize
           size1 == currentPollSetSize'
<1>1. /\ n \in 0 .. size /\ size \in Nat /\ fd \in Nat
      /\ \A i \in 0 .. size - 1 : old[i] \in {Unused, Used(i)}
      /\ \A i \in n .. size - 1 : old[i] = Unused
  BY AddGrows DEF PollInv, PollTypeOK
<1>2. /\ size1 \in Nat /\ size1 >= size /\ fd < size1
      /\ new = [i \in 0 .. size1 - 1 |->
                   IF i = fd THEN Used(fd) ELSE IF i < size THEN old[i] ELSE Unused]
      /\ n1 \in n .. size1 /\ fd < n1 /\ (n1 = n \/ n1 = fd + 1)
  BY AddGrows
<1>3. /\ UNCHANGED <<readable, hung_up, answer, receiving>> /\ receiving = -1
      /\ readable \subseteq Descriptor /\ hung_up \subseteq HangUp
  BY DEF addToPollSet, PollInv, PollTypeOK
<1>4. watched = {i \in 0 .. n - 1 : old[i].pollin} /\ watched' = {i \in 0 .. n1 - 1 : new[i].pollin}
  BY DEF watched
<1> HIDE DEF n, n1, old, new, size, size1
<1>5. n1 \in 0 .. size1
  BY <1>1, <1>2
<1>6. \A i \in 0 .. size1 - 1 : new[i] \in {Unused, Used(i)}
  BY <1>1, <1>2
<1>7. \A i \in n1 .. size1 - 1 : new[i] = Unused
  BY <1>1, <1>2
<1>8. ASSUME NEW i \in 0 .. n1 - 1 PROVE new[i].pollin <=> (i = fd \/ (i \in 0 .. n - 1 /\ old[i].pollin))
  <2>1. CASE i = fd
    BY <1>2, <2>1, Slots
  <2>2. CASE i # fd /\ i < n
    BY <1>1, <1>2, <2>2
  <2>3. CASE i # fd /\ i >= n
    <3>1. new[i] = Unused
      BY <1>1, <1>2, <2>3
    <3> QED
      BY <1>1, <2>3, <3>1, Slots
  <2> QED
    BY <1>1, <2>1, <2>2, <2>3
<1>9. watched' = watched \cup {fd}
  BY <1>1, <1>2, <1>4, <1>8
<1>10. PollInv'
  BY <1>2, <1>3, <1>5, <1>6, <1>7 DEF PollInv, PollTypeOK, n1, new, size1
<1> QED
  BY <1>9, <1>10

LEMMA RemoveUnwatches ==
    ASSUME PollInv, NEW fd \in Socket, removeFromPollSet(fd)
    PROVE  PollInv' /\ watched' = watched \ {fd}
<1> DEFINE n == maxFileDescriptor
           old == pollFileDescriptors
           new == pollFileDescriptors'
           size == currentPollSetSize
<1>1. /\ n \in 0 .. size /\ size \in Nat /\ fd \in Nat /\ fd < n
      /\ old = [i \in 0 .. size - 1 |-> old[i]]
      /\ \A i \in 0 .. size - 1 : old[i] \in {Unused, Used(i)}
      /\ \A i \in n .. size - 1 : old[i] = Unused
  BY PollLibAssumption DEF PollInv, PollTypeOK, removeFromPollSet
<1>2. new = [old EXCEPT ![fd] = Unused]
  BY DEF removeFromPollSet
<1>3. /\ maxFileDescriptor' = n /\ currentPollSetSize' = size
      /\ UNCHANGED <<readable, hung_up, answer, receiving>> /\ receiving = -1
      /\ readable \subseteq Descriptor /\ hung_up \subseteq HangUp
  BY DEF removeFromPollSet, PollInv, PollTypeOK
<1>4. watched = {i \in 0 .. n - 1 : old[i].pollin}
      /\ watched' = {i \in 0 .. n - 1 : new[i].pollin}
  BY <1>3 DEF watched
<1> HIDE DEF n, old, new, size
<1>5. new = [i \in 0 .. size - 1 |-> IF i = fd THEN Unused ELSE old[i]]
  BY <1>1, <1>2
<1>6. \A i \in 0 .. size - 1 : new[i] \in {Unused, Used(i)}
  BY <1>1, <1>5
<1>7. \A i \in n .. size - 1 : new[i] = Unused
  BY <1>1, <1>5
<1>8. \A i \in 0 .. n - 1 : new[i] = IF i = fd THEN Unused ELSE old[i]
  BY <1>1, <1>5
<1>9. watched' = watched \ {fd}
  BY <1>4, <1>8, Slots
<1>10. new = [i \in 0 .. size - 1 |-> new[i]]
  BY <1>5
<1>11. PollInv'
  BY <1>1, <1>3, <1>6, <1>7, <1>10 DEF PollInv, PollTypeOK, n, new, size
<1> QED
  BY <1>9, <1>11

\* The other steps leave the set alone.
LEMMA SetUnchanged ==
    ASSUME PollInv, UNCHANGED pollSetVars,
           readable' \subseteq Descriptor, hung_up' \subseteq HangUp,
           receiving' \in watched \cup {-1}
    PROVE  PollInv' /\ watched' = watched
<1>1. watched' = watched
  BY DEF watched, pollSetVars
<1>2. PollInv'
  BY <1>1 DEF PollInv, PollTypeOK, pollSetVars
<1> QED
  BY <1>1, <1>2

LEMMA PollStep ==
    ASSUME PollInv, [PollNext]_pollVars
    PROVE  PollInv'
<1>1. readable \subseteq Descriptor /\ hung_up \subseteq HangUp /\ receiving \in watched \cup {-1}
  BY DEF PollInv, PollTypeOK
<1>2. ASSUME NEW fd \in Socket, addToPollSet(fd) \/ removeFromPollSet(fd) PROVE PollInv'
  BY <1>2, AddWatches, RemoveUnwatches
<1>3. CASE pollCall
  <2>1. receiving' \in watched \cup {-1}
    BY <1>3 DEF pollCall
  <2> QED
    BY <1>1, <1>3, <2>1, SetUnchanged DEF pollCall
<1>4. CASE recvfrom
  BY <1>1, <1>4, SetUnchanged DEF recvfrom
<1>5. ASSUME NEW fd \in Descriptor, Arrival(fd) PROVE PollInv'
  BY <1>1, <1>5, SetUnchanged DEF Arrival
<1>6. CASE HangsUp
  BY <1>1, <1>6, SetUnchanged DEF HangsUp
<1>7. CASE UNCHANGED pollVars
  BY <1>1, <1>7, SetUnchanged DEF pollVars
<1> QED
  BY <1>2, <1>3, <1>4, <1>5, <1>6, <1>7 DEF PollNext

LEMMA PollInvariant == PollSpec => []PollInv
<1>1. PollInit => PollInv
  BY PollInitInv
<1>2. PollInv /\ [PollNext]_pollVars => PollInv'
  BY PollStep
<1> QED
  BY <1>1, <1>2, PTL DEF PollSpec

\* poll is given no slot beyond the array, and each slot is unused or belongs to
\* the descriptor that is its index, even if standard input is hung up.
THEOREM PollTypeCorrect == PollSpec => []PollTypeOK
<1>1. PollInv => PollTypeOK
  BY DEF PollInv
<1> QED
  BY <1>1, PollInvariant, PTL

-----------------------------------------------------------------------------
(***************************************************************************)
(* As long as nothing is hung up: what poll reports are the descriptors of *)
(* the set that have something to read.                                    *)
(***************************************************************************)
LEMMA ReportsTheReady ==
    ASSUME HangUp = {}, PollInv
    PROVE  Reported = watched \cap readable /\ Reported \subseteq Nat
<1>1. hung_up = {} /\ maxFileDescriptor \in 0 .. currentPollSetSize /\ currentPollSetSize \in Nat
      /\ \A i \in 0 .. currentPollSetSize - 1 : pollFileDescriptors[i] \in {Unused, Used(i)}
  BY DEF PollInv, PollTypeOK
<1>2. ASSUME NEW i \in 0 .. maxFileDescriptor - 1
      PROVE  revents(i) <=> (pollFileDescriptors[i].pollin /\ i \in readable)
  <2>1. i \in 0 .. currentPollSetSize - 1
    BY <1>1, <1>2
  <2>2. revents(i) <=> (pollFileDescriptors[i].pollin /\ pollFileDescriptors[i].fd \in readable)
    BY <1>1 DEF revents
  <2>3. pollFileDescriptors[i] = Unused \/ pollFileDescriptors[i] = Used(i)
    BY <1>1, <2>1
  <2> QED
    BY <2>2, <2>3, Slots
<1>3. Reported \subseteq Nat
  BY <1>1 DEF Reported
<1> QED
  BY <1>2, <1>3 DEF Reported, watched

\* If nothing is hung up, pollCall answers with the lowest of those, and the
\* recvfrom that follows is for that one.
LEMMA CallAnswers ==
    ASSUME HangUp = {}, PollInv, pollCall
    PROVE  /\ answer' = IF watched \cap readable = {} THEN -1 ELSE Min(watched \cap readable)
           /\ receiving' >= 0 => receiving' \in readable
<1>1. Reported = watched \cap readable /\ Reported \subseteq Nat
  BY ReportsTheReady
<1>2. answer' = IF Reported = {} THEN -1 ELSE Min(Reported)
  BY DEF pollCall, pollCall_returns
<1>3. CASE Reported = {}
  <2>1. receiving' = -1
    BY <1>2, <1>3 DEF pollCall
  <2> QED
    BY <1>1, <1>2, <2>1
<1>4. CASE Reported # {}
  <2>1. Min(Reported) \in Reported
    BY <1>1, <1>4, MinProperties
  <2>2. answer' \in watched \cap readable /\ answer' \in Nat
    BY <1>1, <1>2, <1>4, <2>1
  <2>3. receiving' = answer'
    BY <2>2 DEF pollCall
  <2> QED
    BY <1>1, <1>2, <2>2, <2>3
<1> QED
  BY <1>3, <1>4

LEMMA ReadyStep ==
    ASSUME HangUp = {}, PollInv, ReadyMeansReadable, [PollNext]_pollVars
    PROVE  ReadyMeansReadable'
<1> USE DEF ReadyMeansReadable
<1>1. ASSUME NEW fd \in Socket, addToPollSet(fd) \/ removeFromPollSet(fd) PROVE ReadyMeansReadable'
  BY <1>1 DEF addToPollSet, removeFromPollSet
<1>2. CASE pollCall
  <2>1. readable' = readable
    BY <1>2 DEF pollCall
  <2> QED
    BY <1>2, <2>1, CallAnswers
<1>3. CASE recvfrom
  BY <1>3 DEF recvfrom
<1>4. ASSUME NEW fd \in Descriptor, Arrival(fd) PROVE ReadyMeansReadable'
  BY <1>4 DEF Arrival
<1>5. CASE HangsUp
  BY <1>5 DEF HangsUp
<1>6. CASE UNCHANGED pollVars
  BY <1>6 DEF pollVars
<1> QED
  BY <1>1, <1>2, <1>3, <1>4, <1>5, <1>6 DEF PollNext

\* As long as standard input is not hung up, the recvfrom that follows a pollCall
\* does not block: "returns the socket number if one is ready for read".
THEOREM ReadyCorrect ==
    ASSUME HangUp = {}
    PROVE  PollSpec => []ReadyMeansReadable
<1>1. PollInit => ReadyMeansReadable
  BY DEF PollInit, ReadyMeansReadable
<1>2. PollInv /\ ReadyMeansReadable /\ [PollNext]_pollVars => ReadyMeansReadable'
  BY ReadyStep
<1> QED
  BY <1>1, <1>2, PollInvariant, PTL DEF PollSpec

\* Each step of the array is a step of the set, or does not change it.
LEMMA SetStep ==
    ASSUME HangUp = {}, PollInv, [PollNext]_pollVars
    PROVE  [Promise!PollSetNext]_<<watched, readable, answer>>
<1>1. readable \subseteq Descriptor /\ hung_up \subseteq HangUp /\ receiving \in watched \cup {-1}
  BY DEF PollInv, PollTypeOK
<1>2. UNCHANGED pollSetVars => watched' = watched
  BY DEF pollSetVars, watched
<1>3. ASSUME NEW fd \in Socket, addToPollSet(fd) PROVE Promise!Watch(fd)
  BY <1>3, AddWatches DEF addToPollSet, Promise!Watch
<1>4. ASSUME NEW fd \in Socket, removeFromPollSet(fd) PROVE Promise!Unwatch(fd)
  BY <1>4, RemoveUnwatches DEF removeFromPollSet, Promise!Unwatch
<1>5. CASE pollCall
  <2>1. Promise!Call
    BY <1>2, <1>5, CallAnswers
    DEF pollCall, pollSetVars, Promise!Call, Promise!Ready, Promise!Min, Min
  <2> QED
    BY <2>1 DEF Promise!PollSetNext
<1>6. CASE recvfrom \/ \E fd \in Descriptor : Arrival(fd)
  <2>1. Promise!Change
    BY <1>1, <1>2, <1>6 DEF recvfrom, Arrival, Promise!Change
  <2> QED
    BY <2>1 DEF Promise!PollSetNext
<1>7. CASE HangsUp \/ UNCHANGED pollVars
  BY <1>2, <1>7 DEF HangsUp, pollVars
<1>8. CASE \E fd \in Socket : addToPollSet(fd) \/ removeFromPollSet(fd)
  BY <1>3, <1>4, <1>8, PollLibAssumption DEF Promise!PollSetNext
<1> QED
  BY <1>5, <1>6, <1>7, <1>8 DEF PollNext

\* As long as standard input is not hung up, the array behaves as a set of
\* descriptors from which pollCall returns the lowest that is ready.
THEOREM PollSetImplemented ==
    ASSUME HangUp = {}
    PROVE  PollSpec => ImplementsPollSet
<1>1. PollInit => Promise!PollSetInit
  BY DEF PollInit, Promise!PollSetInit, watched
<1>2. PollInv /\ [PollNext]_pollVars => [Promise!PollSetNext]_<<watched, readable, answer>>
  BY SetStep
<1> QED
  BY <1>1, <1>2, PollInvariant, PTL DEF PollSpec, ImplementsPollSet, Promise!PollSetSpec

-----------------------------------------------------------------------------
(* Zombies.                                                                *)

\* Each step of the main process, of its handler and of a child.
LEMMA ZombieTypeStep ==
    ASSUME ZombieTypeOK, [ZombieNext]_zombieVars
    PROVE  ZombieTypeOK'
<1> USE DEF ZombieTypeOK
<1>1. ASSUME NEW c \in Child, process_server_fork(c) \/ child_exit(c) PROVE ZombieTypeOK'
  BY <1>1 DEF process_server_fork, child_exit
<1>2. CASE process_server_exit
  BY <1>2 DEF process_server_exit, in_main
<1>3. CASE handler_step
  <2>1. CASE handle_zombies
    BY <2>1 DEF handle_zombies, in_main
  <2>2. ASSUME NEW c \in Child, waitpid(c) PROVE ZombieTypeOK'
    BY <2>2 DEF waitpid
  <2>3. CASE waitpid_none \/ handler_returns
    BY <2>3 DEF waitpid_none, handler_returns
  <2> QED
    BY <1>3, <2>1, <2>2, <2>3 DEF handler_step
<1>4. CASE UNCHANGED zombieVars
  BY <1>4 DEF zombieVars
<1> QED
  BY <1>1, <1>2, <1>3, <1>4 DEF ZombieNext, Quiet

\* A child becomes a zombie only with a signal, the handler's loop begins when it
\* takes the signal away, and ends only when there is no zombie.
LEMMA ForgetsNoZombie ==
    ASSUME ZombieTypeOK, NoForgottenZombie, [ZombieNext]_zombieVars
    PROVE  NoForgottenZombie'
<1> USE DEF NoForgottenZombie
<1>1. ASSUME NEW c \in Child, process_server_fork(c) PROVE NoForgottenZombie'
  BY <1>1 DEF process_server_fork, in_main, ZombieTypeOK
<1>2. ASSUME NEW c \in Child, child_exit(c) PROVE NoForgottenZombie'
  BY <1>2 DEF child_exit, ZombieTypeOK
<1>3. CASE process_server_exit
  BY <1>3 DEF process_server_exit
<1>4. CASE handler_step
  <2>1. CASE handle_zombies
    BY <2>1 DEF handle_zombies
  <2>2. ASSUME NEW c \in Child, waitpid(c) PROVE NoForgottenZombie'
    BY <2>2 DEF waitpid
  <2>3. CASE waitpid_none
    BY <2>3 DEF waitpid_none
  <2>4. CASE handler_returns
    BY <2>4 DEF handler_returns
  <2> QED
    BY <1>4, <2>1, <2>2, <2>3, <2>4 DEF handler_step
<1>5. CASE UNCHANGED zombieVars
  BY <1>5 DEF zombieVars
<1> QED
  BY <1>1, <1>2, <1>3, <1>4, <1>5 DEF ZombieNext, Quiet

\* ZombieTypeCorrect: handle_zombies runs only in a main process that serves; no
\* step of any process leaves the types of what the system keeps of the children.
THEOREM ZombieTypeCorrect == ZombieSpec => []ZombieTypeOK
<1>1. ZombieInit => ZombieTypeOK
  BY DEF ZombieInit, ZombieTypeOK
<1>2. ZombieTypeOK /\ [ZombieNext]_zombieVars => ZombieTypeOK'
  BY ZombieTypeStep
<1> QED
  BY <1>1, <1>2, PTL DEF ZombieSpec

\* No child that has ended is forgotten, however many end in the time of one
\* signal and however that interleaves with handle_zombies.
THEOREM ZombiesNotForgotten == ZombieSpec => []NoForgottenZombie
<1>1. ZombieInit => NoForgottenZombie
  BY DEF ZombieInit, NoForgottenZombie
<1>2. ZombieTypeOK /\ NoForgottenZombie /\ [ZombieNext]_zombieVars => NoForgottenZombie'
  BY ForgetsNoZombie
<1> QED
  BY <1>1, <1>2, ZombieTypeCorrect, PTL DEF ZombieSpec

-----------------------------------------------------------------------------
(* Checksum: the running sum.                                              *)

LEMMA WeightType == \A i \in Nat : Weight(i) \in {1, Base}
BY DEF Weight

IsRunningSum(f, addr, len) ==
    f = [n \in 0 .. len |-> IF n = 0 THEN 0 ELSE f[n - 1] + addr[n] * Weight(n)]

\* What the loop computes is defined: for each length there is one running sum.
LEMMA RunningSumExists ==
    ASSUME NEW addr
    PROVE  \A len \in Nat : \E f : IsRunningSum(f, addr, len)
<1> DEFINE S == {len \in Nat : \E f : IsRunningSum(f, addr, len)}
<1>1. 0 \in S
  <2>1. IsRunningSum([n \in 0 .. 0 |-> 0], addr, 0)
    BY DEF IsRunningSum
  <2> QED
    BY <2>1
<1>2. ASSUME NEW k \in Nat, k \in S PROVE k + 1 \in S
  <2>1. PICK f : IsRunningSum(f, addr, k)
    BY <1>2
  <2> DEFINE g == [n \in 0 .. k + 1 |->
                     IF n = k + 1 THEN f[k] + addr[k + 1] * Weight(k + 1) ELSE f[n]]
  <2>2. ASSUME NEW n \in 0 .. k + 1
        PROVE  g[n] = IF n = 0 THEN 0 ELSE g[n - 1] + addr[n] * Weight(n)
    <3>1. CASE n = k + 1
      BY <3>1
    <3>2. CASE n # k + 1
      <4>1. n \in 0 .. k /\ (n # 0 => n - 1 \in 0 .. k)
        BY <3>2
      <4> QED
        BY <2>1, <3>2, <4>1 DEF IsRunningSum
    <3> QED
      BY <3>1, <3>2
  <2>3. g = [n \in 0 .. k + 1 |-> g[n]]
    OBVIOUS
  <2> HIDE DEF g
  <2>4. IsRunningSum(g, addr, k + 1)
    BY <2>2, <2>3 DEF IsRunningSum
  <2> QED
    BY <2>4
<1> HIDE DEF S
<1>3. Nat \subseteq S
  BY <1>1, <1>2, SetInduction
<1> QED
  BY <1>3 DEF S

LEMMA RunningSumDef ==
    ASSUME NEW addr, NEW len \in Nat
    PROVE  /\ RunningSum(addr, len)[0] = 0
           /\ \A n \in 0 .. len - 1 :
                 RunningSum(addr, len)[n + 1] =
                     RunningSum(addr, len)[n] + addr[n + 1] * Weight(n + 1)
<1> DEFINE f == RunningSum(addr, len)
<1>1. f = CHOOSE h : IsRunningSum(h, addr, len)
  BY DEF RunningSum, IsRunningSum
<1>2. IsRunningSum(f, addr, len)
  BY <1>1, RunningSumExists
<1> HIDE DEF f
<1>3. \A n \in 0 .. len : f[n] = IF n = 0 THEN 0 ELSE f[n - 1] + addr[n] * Weight(n)
  BY <1>2 DEF IsRunningSum
<1>4. f[0] = 0
  BY <1>3
<1>5. \A n \in 0 .. len - 1 : f[n + 1] = f[n] + addr[n + 1] * Weight(n + 1)
  BY <1>3
<1> QED
  BY <1>4, <1>5 DEF f


AreBytes(addr, len) == \A i \in 1 .. len : addr[i] \in Byte

LEMMA Sizes ==
    /\ Base \in Nat /\ Base >= 2
    /\ Word \in Nat /\ Word >= 4
    /\ (Base - 1) * Base = Word - Base
    /\ Word >= 2 * Base
<1>1. Base \in Nat /\ Base >= 2
  BY ChecksumAssumption
<1>2. Base * Base >= 2 * Base /\ Base * Base \in Nat /\ (Base - 1) * Base = Base * Base - Base
  BY <1>1
<1> QED
  BY <1>1, <1>2 DEF Word

\* What one byte adds.
LEMMA TermType ==
    ASSUME NEW b \in Byte, NEW i \in Nat
    PROVE  b * Weight(i) \in Nat /\ b * Weight(i) <= Word - 1
<1>1. b \in Nat /\ b <= Base - 1
  BY Sizes DEF Byte
<1>2. CASE Weight(i) = 1
  BY <1>1, <1>2, Sizes
<1>3. CASE Weight(i) = Base
  <2>1. b * Base \in Nat /\ b * Base <= (Base - 1) * Base
    BY <1>1, Sizes
  <2> QED
    BY <2>1, <1>3, Sizes
<1> QED
  BY <1>2, <1>3, WeightType

LEMMA SumType ==
    ASSUME NEW addr, NEW len \in Nat, AreBytes(addr, len)
    PROVE  WordSum(addr, len) \in Nat /\ WordSum(addr, len) <= len * (Word - 1)
<1> DEFINE f == RunningSum(addr, len)
           M == Word - 1
           S == {n \in Nat : n <= len => f[n] \in Nat /\ f[n] <= n * M}
<1>1. /\ f[0] = 0
      /\ \A n \in 0 .. len - 1 : f[n + 1] = f[n] + addr[n + 1] * Weight(n + 1)
  BY RunningSumDef
<1>2. M \in Nat
  BY Sizes
<1>3. \A n \in 0 .. len - 1 : addr[n + 1] * Weight(n + 1) \in Nat
                              /\ addr[n + 1] * Weight(n + 1) <= M
  BY TermType DEF AreBytes
<1> HIDE DEF f, M
<1>4. 0 \in S
  BY <1>1, <1>2
<1>5. ASSUME NEW n \in Nat, n \in S PROVE n + 1 \in S
  <2>1. SUFFICES ASSUME n + 1 <= len PROVE f[n + 1] \in Nat /\ f[n + 1] <= (n + 1) * M
    OBVIOUS
  <2>2. n \in 0 .. len - 1 /\ f[n] \in Nat /\ f[n] <= n * M
    BY <1>5, <2>1
  <2>3. PICK d \in Nat : d <= M /\ f[n + 1] = f[n] + d
    BY <1>1, <1>3, <2>2
  <2>4. (n + 1) * M = n * M + M /\ n * M \in Nat
    BY <1>2
  <2> QED
    BY <1>2, <2>2, <2>3, <2>4
<1> HIDE DEF S
<1>6. len \in S
  BY <1>4, <1>5, SetInduction
<1> QED
  BY <1>6 DEF S, WordSum, f, M

\* The sum depends only on the bytes summed up.
LEMMA SumAgree ==
    ASSUME NEW a, NEW b, NEW len \in Nat, \A i \in 1 .. len : a[i] = b[i]
    PROVE  WordSum(a, len) = WordSum(b, len)
<1> DEFINE f == RunningSum(a, len)
           g == RunningSum(b, len)
           S == {n \in Nat : n <= len => f[n] = g[n]}
<1>1. /\ f[0] = 0 /\ g[0] = 0
      /\ \A n \in 0 .. len - 1 :
            /\ f[n + 1] = f[n] + a[n + 1] * Weight(n + 1)
            /\ g[n + 1] = g[n] + b[n + 1] * Weight(n + 1)
  BY RunningSumDef
<1>2. \A n \in 0 .. len - 1 : a[n + 1] = b[n + 1]
  OBVIOUS
<1> HIDE DEF f, g
<1>3. 0 \in S
  BY <1>1
<1>4. ASSUME NEW n \in Nat, n \in S PROVE n + 1 \in S
  BY <1>1, <1>2, <1>4
<1> HIDE DEF S
<1>5. len \in S
  BY <1>3, <1>4, SetInduction
<1> QED
  BY <1>5 DEF S, WordSum, f, g

\* What another byte in one place changes.
LEMMA SumChange ==
    ASSUME NEW a, NEW b, NEW len \in Nat, NEW j \in 1 .. len,
           AreBytes(a, len), AreBytes(b, len),
           \A i \in 1 .. len : i # j => a[i] = b[i]
    PROVE  WordSum(b, len) = WordSum(a, len) + (b[j] - a[j]) * Weight(j)
<1> DEFINE f == RunningSum(a, len)
           g == RunningSum(b, len)
           d == (b[j] - a[j]) * Weight(j)
           S == {n \in Nat : n <= len => /\ f[n] \in Int /\ g[n] \in Int
                                         /\ g[n] = f[n] + (IF n < j THEN 0 ELSE d)}
<1>1. /\ f[0] = 0 /\ g[0] = 0
      /\ \A n \in 0 .. len - 1 :
            /\ f[n + 1] = f[n] + a[n + 1] * Weight(n + 1)
            /\ g[n + 1] = g[n] + b[n + 1] * Weight(n + 1)
  BY RunningSumDef
<1>2. \A i \in 1 .. len : a[i] * Weight(i) \in Int /\ b[i] * Weight(i) \in Int
  BY TermType DEF AreBytes
<1>3. d \in Int /\ b[j] * Weight(j) = a[j] * Weight(j) + d
  <2>1. a[j] \in Int /\ b[j] \in Int
    BY Sizes DEF AreBytes, Byte
  <2>2. Weight(j) \in Int
    BY WeightType, Sizes
  <2> QED
    BY <2>1, <2>2
<1> HIDE DEF f, g, d
<1>4. 0 \in S
  BY <1>1
<1>5. ASSUME NEW n \in Nat, n \in S PROVE n + 1 \in S
  <2>1. SUFFICES ASSUME n + 1 <= len
                 PROVE  /\ f[n + 1] \in Int /\ g[n + 1] \in Int
                        /\ g[n + 1] = f[n + 1] + (IF n + 1 < j THEN 0 ELSE d)
    OBVIOUS
  <2>2. /\ n \in 0 .. len - 1 /\ n + 1 \in 1 .. len
        /\ f[n] \in Int /\ g[n] \in Int
        /\ g[n] = f[n] + (IF n < j THEN 0 ELSE d)
    BY <1>5, <2>1
  <2> DEFINE u == a[n + 1] * Weight(n + 1)
             v == b[n + 1] * Weight(n + 1)
  <2>3. u \in Int /\ v \in Int /\ f[n + 1] = f[n] + u /\ g[n + 1] = g[n] + v
    BY <1>1, <1>2, <2>2
  <2>4. IF n + 1 = j THEN v = u + d ELSE u = v
    BY <1>3, <2>2
  <2> HIDE DEF u, v
  <2> QED
    BY <1>3, <2>2, <2>3, <2>4
<1> HIDE DEF S
<1>6. len \in S
  BY <1>4, <1>5, SetInduction
<1> QED
  BY <1>6 DEF S, WordSum, f, g, d

-----------------------------------------------------------------------------
(* The carries.                                                            *)

\* Numbers that the sum of a packet can be.
Sums == {s \in Nat : s < Word * Word}

LEMMA SmallQuotient ==
    ASSUME NEW w \in Nat, w >= 4, NEW s \in Nat, s < w * w
    PROVE  /\ s \div w \in Nat /\ s \div w < w
           /\ s % w \in 0 .. w - 1
           /\ s = w * (s \div w) + (s % w)
<1> DEFINE q == s \div w
           r == s % w
<1>1. q \in Int /\ r \in 0 .. w - 1 /\ s = w * q + r
  BY DivMod
<1> HIDE DEF q, r
<1>2. q >= 0
  <2>1. SUFFICES ASSUME q <= -1 PROVE FALSE
    BY <1>1
  <2>2. w * (q + 1) <= 0 /\ w * (q + 1) = w * q + w
    BY <1>1, <2>1, MultiplePositive
  <2> QED
    BY <1>1, <2>2
<1>3. q < w
  <2>1. SUFFICES ASSUME q >= w PROVE FALSE
    BY <1>1
  <2>2. w * (q - w) >= 0 /\ w * (q - w) = w * q - w * w /\ w * q \in Int /\ w * w \in Int
    BY <1>1, <2>1
  <2> QED
    BY <1>1, <2>2
<1> QED
  BY <1>1, <1>2, <1>3 DEF q, r

LEMMA SecondFold ==
    ASSUME NEW w \in Nat, w >= 4, NEW t \in 0 .. 2 * w - 2
    PROVE  (t + (t \div w)) % w = IF t < w THEN t ELSE t - (w - 1)
<1>1. CASE t < w
  <2>1. t \div w = 0
    BY <1>1
  <2> QED
    BY <1>1, <2>1
<1>2. CASE t >= w
  <2>1. t \div w = 1
    BY <1>2
  <2>2. t + 1 >= w /\ t + 1 < 2 * w
    BY <1>2
  <2>3. (t + 1) % w = t + 1 - w
    BY <2>2
  <2> QED
    BY <1>2, <2>1, <2>3
<1> QED
  BY <1>1, <1>2

\* Adding the carries takes away a multiple of Word - 1, and never reaches 0.
LEMMA FoldedValue ==
    ASSUME NEW s \in Sums
    PROVE  /\ Folded(s) \in 0 .. Word - 1
           /\ \E k \in Nat : s = Folded(s) + k * (Word - 1)
           /\ Folded(s) = 0 => s = 0
<1> DEFINE w == Word
           q == s \div w
           r == s % w
           t == q + r
<1>1. w \in Nat /\ w >= 4 /\ s \in Nat /\ s < w * w
  BY Sizes DEF Sums
<1>2. Folded(s) = (t + (t \div w)) % w
  BY DEF Folded, FoldOnce
<1>3. q \in Nat /\ q < w /\ r \in 0 .. w - 1 /\ s = w * q + r
  BY <1>1, SmallQuotient
<1> HIDE DEF w, q, r
<1>4. t \in 0 .. 2 * w - 2
  BY <1>1, <1>3
<1> DEFINE folded == Folded(s)
<1>5. folded = IF t < w THEN t ELSE t - (w - 1)
  BY <1>1, <1>2, <1>4, SecondFold
<1>6. s = t + q * (w - 1)
  BY <1>1, <1>3
<1> HIDE DEF folded
<1>7. folded \in 0 .. w - 1 /\ (folded = 0 => t = 0)
  BY <1>1, <1>4, <1>5
<1>8. folded = 0 => s = 0
  BY <1>1, <1>3, <1>7
<1>9. \E k \in Nat : s = folded + k * (w - 1)
  <2>1. CASE t < w
    BY <1>3, <1>5, <1>6, <2>1
  <2>2. CASE ~(t < w)
    <3>1. s = folded + (q + 1) * (w - 1)
      <4>1. (q + 1) * (w - 1) = q * (w - 1) + (w - 1)
        BY <1>1, <1>3
      <4>2. q * (w - 1) \in Int /\ t \in Int
        BY <1>1, <1>3
      <4> QED
        BY <1>1, <1>5, <1>6, <2>2, <4>1, <4>2
    <3> QED
      BY <1>3, <3>1
  <2> QED
    BY <2>1, <2>2
<1> QED
  BY <1>7, <1>8, <1>9 DEF folded, w

\* check_packet's zero: the sum is a multiple of Word - 1, but not 0.
LEMMA AnswerZero ==
    ASSUME NEW s \in Sums
    PROVE  Answer(s) = 0 <=> s # 0 /\ \E k \in Nat : s = k * (Word - 1)
<1> DEFINE folded == Folded(s)
           M == Word - 1
<1>1. M \in Nat /\ M >= 3 /\ s \in Nat
  BY Sizes DEF Sums
<1>2. PICK k \in Nat : s = folded + k * M
  BY FoldedValue
<1>3. folded \in 0 .. M /\ (folded = 0 => s = 0)
  BY FoldedValue
<1>4. Answer(s) = M - folded
  BY DEF Answer
<1> HIDE DEF folded, M
<1>5. Answer(s) = 0 <=> folded = M
  BY <1>1, <1>3, <1>4
<1>6. folded = M => s # 0 /\ \E j \in Nat : s = j * M
  <2>1. SUFFICES ASSUME folded = M PROVE s # 0 /\ \E j \in Nat : s = j * M
    OBVIOUS
  <2>2. s = (k + 1) * M /\ k * M \in Nat /\ s = M + k * M
    BY <1>1, <1>2, <2>1
  <2> QED
    BY <1>1, <2>2
<1>7. ASSUME s # 0, NEW j \in Nat, s = j * M PROVE folded = M
  <2>1. folded = M * (j - k) /\ j - k \in Int
    BY <1>1, <1>2, <1>3, <1>7
  <2>2. folded >= 1
    BY <1>3, <1>7
  <2>3. j - k >= 1
    BY <1>1, <2>1, <2>2, MultiplePositive
  <2>4. M * (j - k) >= M
    BY <1>1, <2>1, <2>3, MultiplePositive
  <2> QED
    BY <1>1, <1>3, <2>1, <2>4
<1> QED
  BY <1>5, <1>6, <1>7 DEF M

-----------------------------------------------------------------------------
(* Packets.                                                                *)

Lengths == SREJ_HEADER_LEN .. SREJ_HEADER_LEN + MaxData

IsPacket(p) == p \in Seq(Byte) /\ Len(p) \in Lengths

LEMMA PacketSum ==
    ASSUME NEW p, IsPacket(p)
    PROVE  /\ Len(p) \in Nat /\ AreBytes(p, Len(p))
           /\ WordSum(p, Len(p)) \in Sums
<1> DEFINE len == Len(p)
           M == Word - 1
           s == WordSum(p, len)
<1>1. len \in Nat /\ len <= Word
  BY ChecksumAssumption, Sizes DEF IsPacket, Lengths, SREJ_HEADER_LEN
<1>2. AreBytes(p, len)
  BY DEF IsPacket, AreBytes
<1>3. s \in Nat /\ s <= len * M
  BY <1>1, <1>2, SumType
<1>4. M \in Nat /\ Word = M + 1
  BY Sizes
<1> HIDE DEF len, M, s
<1>5. len * M <= Word * M /\ len * M \in Nat /\ Word * M \in Nat
  BY <1>1, <1>4
<1>6. Word * Word = Word * M + Word /\ Word > 0
  BY <1>4, Sizes
<1>7. s < Word * Word
  BY <1>3, <1>5, <1>6, Sizes
<1> QED
  BY <1>1, <1>2, <1>3, <1>7 DEF Sums, len, s

\* Whatever lies behind the packet in the receiver's array is not summed up.
LEMMA StaleIsNotRead ==
    ASSUME NEW p, IsPacket(p), NEW addr \in Stale(p)
    PROVE  check_packet(addr, Len(p)) <=> Answer(WordSum(p, Len(p))) = 0
<1>1. PICK b \in Byte : addr = Append(p, b)
  BY DEF Stale
<1>2. p \in Seq(Byte) /\ Len(p) \in Nat /\ Len(p) >= SREJ_HEADER_LEN
  BY ChecksumAssumption DEF IsPacket, Lengths, SREJ_HEADER_LEN
<1>3. \A i \in 1 .. Len(p) : addr[i] = p[i]
  BY <1>1, <1>2
<1>4. WordSum(addr, Len(p)) = WordSum(p, Len(p))
  BY <1>2, <1>3, SumAgree
<1> QED
  BY <1>2, <1>4 DEF check_packet, in_cksum

LEMMA ArrayIsSeq ==
    ASSUME NEW n \in Nat, NEW f \in [1 .. n -> Byte]
    PROVE  f \in Seq(Byte) /\ Len(f) = n
<1>1. f \in Seq(Byte)
  BY DEF Seq
<1> QED
  BY <1>1, LenProperties

LEMMA Concatenated ==
    ASSUME NEW s \in Seq(Byte), NEW t \in Seq(Byte)
    PROVE  /\ s \o t \in Seq(Byte) /\ Len(s \o t) = Len(s) + Len(t)
           /\ \A i \in 1 .. Len(s) : (s \o t)[i] = s[i]
           /\ \A i \in 1 .. Len(t) : (s \o t)[Len(s) + i] = t[i]
<1>1. \A i \in 1 .. Len(t) : Len(s) + i - Len(s) = i /\ Len(s) + i > Len(s)
                            /\ Len(s) + i \in 1 .. Len(s) + Len(t)
  OBVIOUS
<1> QED
  BY <1>1, ConcatProperties

LEMMA UnsummedType ==
    ASSUME NEW seq \in [1 .. 4 -> Byte], NEW flag \in Byte,
           NEW n \in 0 .. MaxData, NEW data \in [1 .. n -> Byte]
    PROVE  LET p == Unsummed(seq, flag, data)
           IN  IsPacket(p) /\ p[ChecksumLow] = 0 /\ p[ChecksumHigh] = 0
<1>1. seq \in Seq(Byte) /\ Len(seq) = 4
  BY ArrayIsSeq
<1>2. n \in Nat
  BY ChecksumAssumption
<1>3. data \in Seq(Byte) /\ Len(data) = n
  BY <1>2, ArrayIsSeq
<1>4. 0 \in Byte
  BY Sizes DEF Byte
<1> DEFINE zeros == <<0, 0>>
           flags == <<flag>>
           a == seq \o zeros
           b == a \o flags
           p == b \o data
<1>5. zeros \in Seq(Byte) /\ Len(zeros) = 2 /\ zeros[1] = 0 /\ zeros[2] = 0
  BY <1>4
<1>6. flags \in Seq(Byte) /\ Len(flags) = 1
  OBVIOUS
<1> HIDE DEF zeros, flags
<1>7. a \in Seq(Byte) /\ Len(a) = 6 /\ a[5] = 0 /\ a[6] = 0
  <2>1. /\ seq \o zeros \in Seq(Byte) /\ Len(seq \o zeros) = Len(seq) + Len(zeros)
        /\ \A i \in 1 .. Len(seq) : (seq \o zeros)[i] = seq[i]
        /\ \A i \in 1 .. Len(zeros) : (seq \o zeros)[Len(seq) + i] = zeros[i]
    BY <1>1, <1>5, Concatenated
  <2> QED
    <3>1. 1 \in 1 .. Len(zeros) /\ 2 \in 1 .. Len(zeros)
      BY <1>5
    <3>2. a[4 + 1] = 0 /\ a[4 + 2] = 0
      BY <1>1, <1>5, <2>1, <3>1
    <3> QED
      BY <1>1, <1>5, <2>1, <3>2
<1> HIDE DEF a
<1>8. b \in Seq(Byte) /\ Len(b) = 7 /\ b[5] = 0 /\ b[6] = 0
  <2>1. /\ a \o flags \in Seq(Byte) /\ Len(a \o flags) = Len(a) + Len(flags)
        /\ \A i \in 1 .. Len(a) : (a \o flags)[i] = a[i]
        /\ \A i \in 1 .. Len(flags) : (a \o flags)[Len(a) + i] = flags[i]
    BY <1>6, <1>7, Concatenated
  <2> QED
    BY <1>6, <1>7, <2>1
<1> HIDE DEF b
<1>9. p \in Seq(Byte) /\ Len(p) = 7 + n /\ p[5] = 0 /\ p[6] = 0
  <2>1. /\ b \o data \in Seq(Byte) /\ Len(b \o data) = Len(b) + Len(data)
        /\ \A i \in 1 .. Len(b) : (b \o data)[i] = b[i]
        /\ \A i \in 1 .. Len(data) : (b \o data)[Len(b) + i] = data[i]
    BY <1>3, <1>8, Concatenated
  <2> QED
    BY <1>2, <1>3, <1>8, <2>1
<1>10. p = Unsummed(seq, flag, data)
  BY DEF p, b, a, zeros, flags, Unsummed
<1> HIDE DEF p
<1>11. IsPacket(p)
  BY <1>2, <1>9, ChecksumAssumption DEF IsPacket, Lengths, SREJ_HEADER_LEN
<1> QED
  BY <1>9, <1>10, <1>11 DEF ChecksumLow, ChecksumHigh

\* A packet that passes check_packet.
Passes(p) == IsPacket(p) /\ Answer(WordSum(p, Len(p))) = 0

\* One byte of a packet is stored.
LEMMA StoreByte ==
    ASSUME NEW p, IsPacket(p), NEW j \in 1 .. Len(p), NEW b \in Byte
    PROVE  LET q == [p EXCEPT ![j] = b]
           IN  /\ IsPacket(q) /\ Len(q) = Len(p)
               /\ \A i \in 1 .. Len(p) : q[i] = IF i = j THEN b ELSE p[i]
               /\ WordSum(q, Len(q)) = WordSum(p, Len(p)) + (b - p[j]) * Weight(j)
<1> DEFINE q == [p EXCEPT ![j] = b]
<1>1. q \in Seq(Byte) /\ Len(q) = Len(p)
      /\ \A i \in 1 .. Len(p) : q[i] = IF i = j THEN b ELSE p[i]
  BY ExceptSeq DEF IsPacket
<1> HIDE DEF q
<1>2. IsPacket(q)
  BY <1>1 DEF IsPacket
<1>3. Len(p) \in Nat /\ AreBytes(p, Len(p)) /\ AreBytes(q, Len(p))
  BY <1>1, <1>2, PacketSum
<1>4. WordSum(q, Len(p)) = WordSum(p, Len(p)) + (q[j] - p[j]) * Weight(j)
  BY <1>1, <1>3, SumChange
<1>5. WordSum(q, Len(q)) = WordSum(p, Len(p)) + (b - p[j]) * Weight(j)
  BY <1>1, <1>4
<1> QED
  BY <1>1, <1>2, <1>5 DEF q

\* What completes a sum to a multiple of Word - 1.
LEMMA AnswerCompletes ==
    ASSUME NEW s \in Sums, s + Answer(s) \in Sums
    PROVE  Answer(s + Answer(s)) = 0
<1> DEFINE folded == Folded(s)
           M == Word - 1
           c == Answer(s)
<1>1. M \in Nat /\ M >= 3 /\ s \in Nat
  BY Sizes DEF Sums
<1>2. PICK k \in Nat : s = folded + k * M
  BY FoldedValue
<1>3. folded \in 0 .. M
  BY FoldedValue
<1>4. c = M - folded
  BY DEF Answer
<1> HIDE DEF folded, M, c
<1>5. s + c = (k + 1) * M
  <2>1. (k + 1) * M = k * M + M /\ k * M \in Int
    BY <1>1
  <2> QED
    BY <1>1, <1>2, <1>3, <1>4, <2>1
<1>6. (k + 1) * M >= M /\ (k + 1) * M = M * (k + 1)
  BY <1>1, MultiplePositive
<1> DEFINE t == s + c
<1>7. t # 0 /\ \E j \in Nat : t = j * M
  <2>1. k + 1 \in Nat /\ t = (k + 1) * M
    BY <1>5
  <2>2. t >= M
    BY <1>6, <2>1
  <2> HIDE DEF t
  <2>3. t # 0
    BY <1>1, <2>2
  <2> QED
    BY <2>1, <2>3
<1>8. t \in Sums
  BY DEF t, c
<1> HIDE DEF t
<1>9. Answer(t) = 0
  BY <1>7, <1>8, AnswerZero DEF M
<1> QED
  BY <1>9 DEF t, c

LEMMA AnswerBytes ==
    ASSUME NEW s \in Sums
    PROVE  LET c == Answer(s)
           IN  c % Base \in Byte /\ c \div Base \in Byte /\ c = (c % Base) + (c \div Base) * Base
<1> DEFINE c == Answer(s)
<1>1. c \in Nat /\ c < Base * Base
  BY FoldedValue, Sizes DEF Answer, Word
<1> HIDE DEF c
<1>2. c \div Base \in Nat /\ c = Base * (c \div Base) + (c % Base) /\ c % Base \in 0 .. Base - 1
  BY <1>1, Sizes, DivMod
<1>3. c \div Base < Base
  <2> DEFINE q == c \div Base
             r == c % Base
  <2>1. SUFFICES ASSUME q >= Base PROVE FALSE
    BY <1>2, Sizes
  <2>2. q \in Nat /\ r \in Nat /\ c = Base * q + r
    BY <1>2, Sizes
  <2> HIDE DEF q, r
  <2>3. Base * q >= Base * Base /\ Base * q \in Nat /\ Base * Base \in Nat
    BY <2>1, <2>2, Sizes
  <2> QED
    BY <1>1, <2>2, <2>3
<1> QED
  BY <1>2, <1>3, Sizes DEF c, Byte

LEMMA MakePasses ==
    ASSUME NEW seq \in [1 .. 4 -> Byte], NEW flag \in Byte,
           NEW n \in 0 .. MaxData, NEW data \in [1 .. n -> Byte]
    PROVE  Passes(make_packet(seq, flag, data))
<1> DEFINE p == Unsummed(seq, flag, data)
           s == WordSum(p, Len(p))
           c == Answer(s)
           low == c % Base
           high == c \div Base
           q == [p EXCEPT ![ChecksumLow] = low]
           made == [q EXCEPT ![ChecksumHigh] = high]
<1>1. IsPacket(p) /\ p[ChecksumLow] = 0 /\ p[ChecksumHigh] = 0
  BY UnsummedType
<1>2. make_packet(seq, flag, data) = made
  BY DEF make_packet, WithChecksum, in_cksum
<1> HIDE DEF p
<1>3. s \in Sums /\ Len(p) \in Nat
  BY <1>1, PacketSum
<1> HIDE DEF s
<1>4. low \in Byte /\ high \in Byte /\ c = low + high * Base
  BY <1>3, AnswerBytes
<1>5. ChecksumLow \in 1 .. Len(p) /\ ChecksumHigh \in 1 .. Len(p)
  BY <1>1, <1>3 DEF IsPacket, Lengths, SREJ_HEADER_LEN, ChecksumLow, ChecksumHigh
<1> HIDE DEF low, high
<1>6. /\ IsPacket(q) /\ Len(q) = Len(p) /\ q[ChecksumHigh] = 0
      /\ WordSum(q, Len(q)) = s + (low - 0) * Weight(ChecksumLow)
  <2>1. ChecksumLow # ChecksumHigh
    BY DEF ChecksumLow, ChecksumHigh
  <2> QED
    BY <1>1, <1>4, <1>5, <2>1, StoreByte DEF s
<1> HIDE DEF q
<1>7. /\ IsPacket(made)
      /\ WordSum(made, Len(made)) = WordSum(q, Len(q)) + (high - 0) * Weight(ChecksumHigh)
  BY <1>4, <1>5, <1>6, StoreByte
<1> HIDE DEF made
<1>8. Weight(ChecksumLow) = 1 /\ Weight(ChecksumHigh) = Base
  BY DEF Weight, ChecksumLow, ChecksumHigh
<1>9. WordSum(made, Len(made)) = s + c
  <2>1. s \in Int /\ low \in Int /\ high \in Int /\ high * Base \in Int
    BY <1>3, <1>4, Sizes DEF Sums, Byte
  <2> QED
    BY <1>4, <1>6, <1>7, <1>8, <2>1
<1>10. s + c \in Sums
  BY <1>7, <1>9, PacketSum
<1>11. Answer(s + c) = 0
  BY <1>3, <1>10, AnswerCompletes
<1> QED
  BY <1>2, <1>7, <1>9, <1>11 DEF Passes

\* Inverting a byte changes the sum, and by less than Word - 1.
LEMMA FlipChange ==
    ASSUME NEW b \in Byte, NEW i \in Nat
    PROVE  LET d == (Inverted(b) - b) * Weight(i)
           IN  d \in Int /\ d # 0 /\ d < Word - 1 /\ -d < Word - 1
<1> DEFINE e == Inverted(b) - b
<1>1. e \in Int /\ e # 0 /\ e <= Base - 1 /\ -e <= Base - 1
  BY ChecksumAssumption DEF Inverted, Byte
<1> HIDE DEF e
<1>2. CASE Weight(i) = 1
  BY <1>1, <1>2, Sizes DEF e
<1>3. CASE Weight(i) = Base
  <2>1. e * Base \in Int /\ e * Base # 0
    BY <1>1, Sizes
  <2>2. e * Base <= (Base - 1) * Base /\ -(e * Base) <= (Base - 1) * Base
    BY <1>1, Sizes
  <2> QED
    BY <1>3, <2>1, <2>2, Sizes DEF e
<1> QED
  BY <1>2, <1>3, WeightType

LEMMA FlipFails ==
    ASSUME NEW p, Passes(p), NEW i \in 1 .. Len(p)
    PROVE  LET q == [p EXCEPT ![i] = Inverted(p[i])] IN IsPacket(q) /\ ~Passes(q)
<1> DEFINE b == Inverted(p[i])
           q == [p EXCEPT ![i] = b]
           s == WordSum(p, Len(p))
           t == WordSum(q, Len(q))
           d == (b - p[i]) * Weight(i)
           M == Word - 1
<1>1. IsPacket(p) /\ s \in Sums /\ Len(p) \in Nat /\ p[i] \in Byte
  BY PacketSum DEF Passes, AreBytes
<1>2. b \in Byte
  BY <1>1, Sizes DEF Inverted, Byte
<1>3. d \in Int /\ d # 0 /\ d < M /\ -d < M
  BY <1>1, FlipChange
<1> HIDE DEF b
<1>4. IsPacket(q) /\ t = s + d
  BY <1>1, <1>2, StoreByte
<1> HIDE DEF q, d
<1>5. t \in Sums
  BY <1>4, PacketSum
<1> HIDE DEF s, t
<1>6. PICK k \in Nat : s = k * M
  BY <1>1, AnswerZero DEF Passes, s
<1>7. ASSUME NEW j \in Nat, t = j * M PROVE FALSE
  <2>1. M \in Nat \ {0}
    BY Sizes
  <2> HIDE DEF M
  <2>2. d = M * (j - k) /\ j - k \in Int
    BY <1>3, <1>4, <1>6, <1>7, <2>1
  <2>3. CASE j - k >= 1
    BY <1>3, <2>1, <2>2, <2>3, MultiplePositive
  <2>4. CASE j = k
    BY <1>3, <2>1, <2>2, <2>4
  <2>5. CASE k - j >= 1
    <3>1. M * (k - j) >= M /\ M * (k - j) = -(M * (j - k))
      BY <2>1, <2>5, MultiplePositive
    <3> QED
      BY <1>3, <2>1, <2>2, <3>1
  <2> QED
    BY <2>3, <2>4, <2>5
<1>8. Answer(t) # 0
  BY <1>5, <1>7, AnswerZero
<1> QED
  BY <1>4, <1>8 DEF Passes, q, t, b

-----------------------------------------------------------------------------
\* The link has left the packet as it was made, or inverted one of its bytes, or
\* more than one.
ChecksumInv ==
    /\ flips \in Nat
    /\ packet = <<>> => wire = <<>> /\ flips = 0
    /\ packet # <<>> => Passes(packet)
    /\ flips = 0 => wire = packet
    /\ flips = 1 =>
          \E i \in 1 .. Len(packet) : wire = [packet EXCEPT ![i] = Inverted(packet[i])]

LEMMA ChecksumStep ==
    ASSUME ChecksumInv, [ChecksumNext]_checksumVars
    PROVE  ChecksumInv'
<1>1. ASSUME NEW seq \in [1 .. 4 -> Byte], NEW flag \in Byte, NEW n \in 0 .. MaxData,
             NEW data \in [1 .. n -> Byte], Make(seq, flag, data)
      PROVE  ChecksumInv'
  <2>1. Passes(packet') /\ wire' = packet' /\ flips' = 0
    BY <1>1, MakePasses DEF Make, ChecksumInv
  <2>2. packet' # <<>>
    <3>1. Len(packet') >= 7
      BY <2>1, ChecksumAssumption DEF Passes, IsPacket, Lengths, SREJ_HEADER_LEN
    <3> QED
      BY <3>1
  <2> QED
    BY <2>1, <2>2 DEF ChecksumInv
<1>2. ASSUME NEW i \in DOMAIN wire, Flip(i) PROVE ChecksumInv'
  <2>1. packet # <<>>
    BY DEF ChecksumInv
  <2>2. CASE flips = 0
    <3>1. i \in 1 .. Len(packet)
      BY <2>1, <2>2 DEF ChecksumInv, Passes, IsPacket
    <3>2. /\ flips' = 1 /\ packet' = packet
          /\ wire' = [packet EXCEPT ![i] = Inverted(packet[i])]
      BY <1>2, <2>2 DEF ChecksumInv, Flip
    <3>3. Passes(packet')
      BY <2>1, <3>2 DEF ChecksumInv
    <3>4. \E j \in 1 .. Len(packet') :
             wire' = [packet' EXCEPT ![j] = Inverted(packet'[j])]
      BY <3>1, <3>2, Zenon
    <3>5. packet' # <<>>
      BY <2>1, <3>2
    <3>6. flips' \in Nat /\ flips' # 0
      BY <3>2
    <3> QED
      BY <3>3, <3>4, <3>5, <3>6, Zenon DEF ChecksumInv
  <2>3. CASE flips # 0
    BY <1>2, <2>1, <2>3 DEF ChecksumInv, Flip
  <2> QED
    BY <2>2, <2>3
<1>3. CASE UNCHANGED checksumVars
  BY <1>3 DEF ChecksumInv, checksumVars
<1> QED
  BY <1>1, <1>2, <1>3 DEF ChecksumNext, Received

LEMMA ChecksumInvMeans == ChecksumInv => MadeIsAccepted /\ FlipIsNoticed
<1>1. SUFFICES ASSUME ChecksumInv PROVE MadeIsAccepted /\ FlipIsNoticed
  OBVIOUS
<1>2. MadeIsAccepted
  <2>1. SUFFICES ASSUME wire # <<>>, flips = 0, NEW addr \in Stale(wire)
                 PROVE  check_packet(addr, Len(wire))
    BY DEF MadeIsAccepted
  <2>2. Passes(wire)
    BY <1>1, <2>1 DEF ChecksumInv
  <2> QED
    BY <2>1, <2>2, StaleIsNotRead DEF Passes
<1>3. FlipIsNoticed
  <2>1. SUFFICES ASSUME flips = 1, NEW addr \in Stale(wire)
                 PROVE  ~check_packet(addr, Len(wire))
    BY DEF FlipIsNoticed
  <2>2. PICK i \in 1 .. Len(packet) : wire = [packet EXCEPT ![i] = Inverted(packet[i])]
    BY <1>1, <2>1 DEF ChecksumInv
  <2>3. Passes(packet)
    BY <1>1, <2>1 DEF ChecksumInv
  <2>4. IsPacket(wire) /\ ~Passes(wire)
    BY <2>2, <2>3, FlipFails
  <2> QED
    BY <2>1, <2>4, StaleIsNotRead DEF Passes
<1> QED
  BY <1>2, <1>3

LEMMA ChecksumStart == ChecksumInit => ChecksumInv
BY DEF ChecksumInit, ChecksumInv

\* MadeAccepted: what make_packet makes passes check_packet, for bytes of any even
\* number of values and packets of every content and length that in_cksum can sum
\* up, whatever lies behind them in the receiver's array.
THEOREM MadeAccepted == ChecksumSpec => []MadeIsAccepted
<1>1. ChecksumInv /\ [ChecksumNext]_checksumVars => ChecksumInv'
  BY ChecksumStep
<1> QED
  BY <1>1, ChecksumStart, ChecksumInvMeans, PTL DEF ChecksumSpec

\* FlipNoticed: with one byte inverted on the link, be it of the header, of the
\* checksum itself or the odd last one, a packet never passes.
THEOREM FlipNoticed == ChecksumSpec => []FlipIsNoticed
<1>1. ChecksumInv /\ [ChecksumNext]_checksumVars => ChecksumInv'
  BY ChecksumStep
<1> QED
  BY <1>1, ChecksumStart, ChecksumInvMeans, PTL DEF ChecksumSpec
=============================================================================

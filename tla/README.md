# Selective-reject file copy: a verification development

The program copies a file over UDP with a selective-reject (sliding window)
protocol.  `rcopy` reads a local file and sends it; `server` forks one child per
file, and the child writes the file.  The link is made unreliable on purpose by
the cpe464 library, which drops packets and flips bits.  This directory holds
TLA+ modules translated from the C sources under `src/udpCode_spring26_v3` and the
C++ sources under `src/libcpe464_2_21b`, the TLC configurations that check them, and
proofs checked by TLAPS.

## 1. Inventory

| part | sources | state it keeps | operations |
|---|---|---|---|
| packet format | `Packet.c`, `Packet.h` | none | `make_packet`, `check_packet`, `get_flag` |
| sender window | `Window.c` | circular array of sent packets, `lower`, `current`, `upper` | `window_init`, `window_open`, `window_empty`, `window_add`, `window_find`, `window_lowest`, `window_rr` |
| receiver buffer | `Buffer.c` | circular array of packets not yet written, `expected`, the reject remembered | `buffer_init`, `buffer_in_window`, `buffer_has`, `buffer_has_later`, `buffer_save`, `buffer_write_ready`, `buffer_need_reject`, `buffer_clear_reject` |
| rcopy | `rcopy.c` | STATE, server address, window, `file_done`, `had_error`, `retry_count`, the local `tries` | FILENAME, SEND_DATA, WAIT_ON_ACK and SEND_EOF with `process_controls` |
| server main | `server.c` | the socket | receive FILENAME, `fork` |
| server child | `server.c` | STATE, client address, buffer, output descriptor, `retry_count` | FILENAME, RECV_DATA, WAIT_ON_DONE |
| zombies | `server.c` (`handle_zombies`) | the children in the system's table of processes, a pending SIGCHLD | `fork`, the child's `exit`, the delivery of SIGCHLD, the loop over `waitpid` |
| polling | `pollLib.c` | the array for `poll`, its size, how much of it is used | `setupPollSet`, `addToPollSet` with `growPollSet`, `removeFromPollSet`, `pollCall`, and the `recvfrom` that follows |
| link settings | `SettingsManager.cpp`, `network-hooks.c` | per process: rate, the list of constant and of random events, seed, next seed | `loadEnvData` before `main`, `sendErr_init`, `forkMod` |
| error-injecting link | `PacketManager.cpp`, `MsgEvents/*` | per process: the message number | `sendto_Err` with `processEvents`: drop, flip, pass |
| checksum | `checksum.c`, `Packet.c` | none | `in_cksum`, `make_packet`, `check_packet` |
| sockets, names, PDU helpers | `networks.c`, `gethostbyname.c`, `safeUtil.c`, `PDU.c` | none | system-call wrappers |

Interaction.  The processes share two things only: the network (datagrams in
both directions, each process with one socket) and the file system (all children
that were forked for one FILENAME write the same file, each with its own
descriptor and offset).  There are no threads; what is concurrent is rcopy, the
main process with its signal handler, every child and the network.  Below the
protocol, each process sends through its own copy of the error library, which a
child inherits at the fork and initialises again, and waits in `pollCall`; both are
set up once and then used by every send and every wait.

What is hard here: packets that are lost, damaged, doubled or overtaken;
time-outs that race with an answer that is merely late; a FILENAME repeated after
its first copy has already made a child; a second child that truncates the file
the first one writes; RRs and rejects of an earlier time, or of another child,
acting on a window that has moved; indices `seq % size` into arrays of exactly
the window's size; one shared retry counter reset in several places; a teardown
in which neither side knows whether its last packet arrived; failing or short
file operations in the middle of a batch of writes; 32-bit sequence numbers at
their end; children that end while the handler of an earlier SIGCHLD runs; settings
that come from the environment, from two initialisations and from a fork, in this
order; an array indexed by descriptor whose unused slots are not empty; a checksum
over an odd number of bytes.  `PROJECT.json` lists these hazards at their lines.

What makes each part correct:

- window: it holds exactly what is sent and not acknowledged (`WindowHoldsUnacked`),
  its lower edge never goes back (`ProgressIsKept`), it never re-sends what has
  been acknowledged (`NeverResendsAcked`);
- buffer: it holds only what is not yet written and fits (`BufferHoldsLater`), and
  remembers a reject exactly while there is a gap (`RejectExactlyWhenGap`);
- both together: what is missing can still be sent (`SenderKeepsMissing`), and
  acknowledgements are true (`AcksAreTrue`);
- the transfer: every place of the output file holds what the input file holds there, or
  nothing, as long as no write is short (`DiskNeverWrong`), short writes leave at least
  the order as it was (`OutputKeepsOrder`), exit status 0 means an equal file
  (`SuccessMeansCopied`), EOF is acknowledged only when all data are written
  (`EofAfterAllData`), a child that ends cleanly served an rcopy that succeeded
  (`CleanEndMeansSuccess`), an error is reported only if the network really failed that
  often (`GiveUpOnlyAfterFaults`), a second child needs a lost response
  (`SecondChildNeedsLoss`), and everybody ends (`RcopyTerminates`, `ChildrenTerminate`,
  `EventuallyCopied`);
- the link: a rate, a seed, a drop list and random events that the environment asks for
  are in force, and nothing of the program's beside them (`EnvironmentWins`), a drop
  list drops the messages it lists and no other (`OnlyListedDropped`), drops and flips
  are equally likely in a child although it is initialised twice (`SameOdds`), and a
  packet that is sent again does not gather damage (`AtMostOneFlip`);
- the checksum: an untouched packet is accepted, one inverted byte is noticed
  (`MadeIsAccepted`, `FlipIsNoticed`);
- polling: the array is a set of descriptors (`ImplementsPollSet`, `PollTypeOK`) and the
  `recvfrom` after a `pollCall` does not block (`ReadyMeansReadable`);
- zombies: no child that has ended is forgotten, and each is waited for
  (`NoForgottenZombie`, `ZombiesReaped`).

## 2. Modules

```
Packet  <-  Window   <-  Rcopy   \
        <-  Buffer   <-  Server   >  Transfer  <-  MCTransfer
        <-  Network  <-  (both)  /        |
                                     FileCopy (refined by Transfer)

Settings  <-  ErrorLink  <-  MCErrorLink      Checksum      Zombies
PollLib (refines PollSet)

NumberProofs <- ArrayProofs <- TransferProofs <- CopyProofs <- EndProofs
                                                 CopyProofs <- TimelyProofs
NumberProofs <- SystemProofs (PollLib, Zombies, Checksum)        LinkProofs
```

- **Packet.**  A packet is a record.  `num` is the one number its receiver acts
  on: the header's number of a DATA packet, the payload of an RR or SREJ, the
  window size of a FILENAME, the status byte of a FILENAME_RESP.  The header's
  number of control packets (`control_seq`) is sent but never read, and is left
  out.  `good` is the result of the checksum.  `Add32` is `uint32_t` addition, with
  `SeqSpace` for 2^32; every sum the C code makes of sequence numbers goes through
  it.
- **Network.**  One queue per socket address: the packets on their way and those
  that have arrived.  `LosePacket` and `DamagePacket` are what `sendtoErr` does;
  `DuplicatePacket` and `DelayPacket` are what UDP may do.
- **Window**, **Buffer.**  Every function of `Window.c` and `Buffer.c` as an
  operator on a record that has the fields of the C structure.
- **Rcopy.**  `state` is the STATE of `process_file`; `at` says where in the state's
  function rcopy is: about to send, blocked in the one-second `pollCall`, or in the
  loop of `process_controls` at `pollCall(POLL_NOW)`.  An action is the code from one
  system call that another process can notice to the next.  `pollCall(POLL_NOW)` may
  find nothing although a packet is in the queue: the packet is still on its way.
- **Server.**  `main_recv` with `fork`, and the child's states.  `writing` is the loop of
  `buffer_write_ready`, in which every `write` is one step.  `disk` is the output
  file, a sequence of places, and `offset` the place a child writes next.  A chunk fills
  two places (`halves`).  A short write stores the first half or nothing, and moves the
  offset by as much, so that everything after it goes to a place where it does not
  belong.  A write at an offset beyond the end (another child has truncated the file)
  leaves a hole, `Nil`.
- **Transfer.**  The composition, the time-outs, fairness and all properties.
- **FileCopy.**  What a user sees: the output grows by the next part of the input,
  and the result becomes "copied", only for a complete file, or "failed".
- **MCTransfer.**  Values of the constants for TLC.
- **Settings.**  The configuration of libcpe464 in one process as a record: rate, the
  two lists of message events, message number, seeds.  `loadEnvData_*` is the
  constructor of `SettingsManager`, which runs before `main`; `setUserMode_*` gives way
  to the environment; `sendErr_init` is the four of them in the order of
  `network-hooks.c`, with the seed; `processEvents` is the set of fates a message can
  have: every constant event runs, then at most one random event.  A variable of the
  environment is `Unset` or the sequence of the numbers between its commas.
- **ErrorLink.**  rcopy, the server's main process and its children, each with its own
  configuration: `init`, `forkMod`, `sendto_Err`.  `kept` is the packet in a window, which
  is sent again; `sendto_Err` works on a copy of it.
- **MCErrorLink.**  Six environments: none, the one `testRandError.sh` exports, the one
  its `clear_defs` leaves behind, two with drop lists and one with a flip list.
- **Checksum.**  `in_cksum` byte by byte, in base `Base` instead of 256, with the layout of
  the header, and the inversion of a byte.  `Stale` puts the rest of an earlier packet
  behind an odd length.
- **PollLib.**  The array given to `poll`, with its unused slots; one `pollCall` is one step,
  at the moment `poll` returns.  `receiving` is the blocking `recvfrom` the callers go on to
  if the answer is not -1.
- **PollSet.**  What `pollLib` promises: a set of descriptors, and a call that returns the
  lowest that is ready.
- **Zombies.**  The main process, its handler of SIGCHLD and the ends of its children.
  SIGCHLD is pending or not, not counted; it is blocked while the handler runs
  (`-std=gnu99` gives `signal` BSD semantics).
- **NumberProofs, ArrayProofs, TransferProofs, CopyProofs, EndProofs, TimelyProofs,
  SystemProofs, LinkProofs.**  Section 5.

`ErrorLink` and `Checksum` justify what `Network` assumes: a message that is sent arrives
as it was composed, or is lost, or has one byte inverted, which `check_packet` notices;
which of these happens is, for rates between 0 and 1, any choice.  `PollLib` justifies
that a `pollCall` in `Rcopy` and `Server` is a choice between a packet and a time-out.

Definitions whose name ends in `_slip` are wrong variants, each the original with a
plausible programming error.  No specification uses them: put in the place of the
original they show that a property notices the error (`PROJECT.json`, "mutants").

### Time

The program has one-second and ten-second timers.  The model has no clock.  With
`Timely = FALSE` any time-out may happen at any moment, whatever is on its way: all
safety properties of one child are checked so, since nothing in the code bounds the
delay of a packet.  With `Timely = TRUE` packets and processes are fast compared with
a second: a one-second timer runs out only when every process waits and no packet is
on its way, and the ten-second timer of a child only if, besides, rcopy does not
send to it.  Properties that depend on time-outs being late enough (that giving up
means the network has failed, that the copy is made in the end) hold only then, and
are checked only then.  In these runs `RcopyTries = ServerTries`, as in the program
(both MAX_TRIES are 10): with fewer tries a child waiting for DONE would give up
before rcopy does.

### Fairness

`FairSpec` of `Transfer` assumes weak fairness of each process: of rcopy, of the main
process and of every child.  The operating system runs a process that can run, and a
poll with a time-out returns.  The network is not fair in any sense: it need not commit
a fault, and nothing is assumed about repeated losses beyond their bounded number.
`udp` and `timely` use it.  `ZombieSpec` assumes weak fairness of the handler's next step:
a pending signal is delivered to a process that runs, and a handler that has begun goes
on.  Children need not end, and no client need come.

## 3. Runs

| run | module | bounds | question |
|---|---|---|---|
| `udp` | MCTransfer | 1 child, 3 chunks, any 2 of loss, damage, duplicate, delay; `open`/`read`/`write` fail at any call; untimely, fair | safety of window, buffer, data and teardown; `FileCopy` is implemented; rcopy and the child end |
| `children` | MCTransfer | 2 children, 2 chunks, 1 loss, any file call fails, no short write, untimely | what survives two children that write one file |
| `timely` | MCTransfer | 3 children, 3 chunks, 3 losses, 3 tries, timely, fair | rcopy gives up only after as many losses as tries, and with fewer the file is copied in the end |
| `wrap` | MCTransfer | 6 sequence numbers, 4 chunks, 2 faults | a file longer than the sequence space is never reported as copied wrongly |
| `link` | MCErrorLink | rcopy, server, 2 children, 6 environments, 2 seconds, 2 messages each, packets of 2 bytes | what settings each process has, and what happens to what it sends |
| `checksum` | Checksum | bytes of 4 values, all packets with 0 or 1 byte of payload, 1 inverted byte | an untouched packet passes, a damaged one does not |
| `poll` | PollLib | descriptors 0, 1, 3, 6; the array grows by 2 | the array is a set; no `recvfrom` blocks |
| `zombies` | Zombies | 4 places for children | no child that has ended is forgotten |

Why these bounds.  `File` has two to four chunks, the window two: the window closes and
opens again, a gap can be followed by a packet that fits and by one that does not, and
each slot is used for two packets (three with four chunks).  Two faults are enough for
one packet to be lost and its repetition too, for a packet to be repeated and the copy
delayed behind a whole window, and, with two tries, for rcopy to run out of tries.  Three
children are as many as two repeated FILENAMEs make; a FILENAME beyond the last child of
the model is dropped, which is the loss of a packet.  The children are symmetric, and
the symmetry is used only in the runs without fairness.

Two places for a chunk are enough for a write that stores all, a part or nothing: how
many bytes the part has makes no difference to which bytes follow which.  With two children
and short writes nothing is claimed: each child writes at an offset of its own, and what
one has moved up the other may overwrite.

`link`: two seconds make the seeds of two initialisations differ or agree; message
numbers up to 2 reach every entry of the drop lists; two sends are one send and one
repetition of a kept packet.  `checksum`: with no payload the length is odd (7), with one byte
even; in base 4 a word is 16, so that the first addition of the carries can carry again,
which the mutant of `Folded` confirms.  `poll`: descriptor 3 makes an array of 2 grow, and 6
an array of 5 again.  `zombies`: four children can end before one delivery, during the
loop, after its last `waitpid`, and after another fork.

### Disagreements found

Four further runs show behaviour that contradicts what the repository says of the
program; TLC's counterexample is the witness.

- `damaged_response`: one damaged FILENAME_RESP, nothing else, and rcopy fails after
  ten seconds.  `recvfrom` stores the sender's address in `info->server` before the
  packet is checked, so the nine repeated FILENAMEs go to the child, which ignores
  them in RECV_DATA.
- `late_child`: no loss at all, but a FILENAME_RESP that takes more than a second.
  The repeated FILENAME makes a second child for the same file ("forks one child per
  file", server.c:43), which opens the output file with O_TRUNC after rcopy has returned 0.
- `short_write`: `buffer_write_ready` takes a `write` that stored fewer bytes for a
  success; the next chunk follows the bytes that were stored, and rcopy returns 0 for an
  incomplete file.
- `poll_stdin`: with standard input hung up, `pollCall` returns 0, because the unused slots
  refer to descriptor 0 and `poll` reports a hang-up unasked; rcopy and the children take
  0 for their socket and block in `recvfrom`, past every time-out.

Observations that no run states, as they contradict no property of the copy, the text is
advice only, or the trace is short enough to be seen in the code:

- Near the end of the sequence numbers `lower + size` wraps, the window never opens
  again, and every packet is answered by an RR that resets rcopy's retry counter, so the
  transfer neither ends nor fails (`RcopyTerminates` does not hold in the bounds of
  `wrap`).  It takes a file of 2^32 packets.
- `forkMod` draws a new seed for each child, but the child then initialises the library
  with RSEED_ON (server.c:95), that is, with `time(NULL)` (network-hooks.c:195): children of
  one second make the same random choices.
- cpe464.h:78-79 asks for one call of `sendErr_init` in each program; a child makes a second
  one.  `SameOdds` and `EnvironmentWins` show that it does no harm: each list of events is
  appended to twice, in equal parts.
- SettingsManager.h:18 says of both list variables that their events happen to the
  messages in the list, but `loadEnvData_ErrFlip` does nothing with a list (the TODO at
  SettingsManager.cpp:240), and as the variable is set, random flips are off too.
- "Since no parameter undefines an environmental variable" (SettingsManager.h:18-19): but a
  list variable that is set to nothing counts as set and, like -1, asks for random events
  (SettingsManager.cpp:201).  With an empty drop variable alone, a child has one drop and
  two flips to choose from, where without it there would be two of each.
  `EnvironmentWins` says nothing about these two settings.
- checksum.c:37-40 says that packets must have an even number of bytes or a zero behind
  them.  The code at 75-79 handles the odd byte (`MadeIsAccepted` with `Stale`).
- An error rate of 0 still hits when `drand48` returns exactly 0 (`<=` at
  PacketManager.cpp:161).

## 4. Abstractions

- A chunk is a model value: what one `read` returns.  That `read` splits the file into
  chunks of `buffer_size` is not modelled.  In the output file a chunk fills two places, of
  which a short write stores the first or none.
- Damage is always noticed.  In `Transfer` damage clears the flag `good`.  That this is what
  happens is `AtMostOneFlip` of `ErrorLink` and `FlipIsNoticed` of `Checksum`, both proved.
- `DuplicatePacket`, `DelayPacket` and the choice which packet is lost are not tied to the
  random numbers of the library: any choice includes them.
- The client's and the children's addresses are model values; `recvfrom`'s source
  address is kept, because rcopy sends to it.
- Failing `malloc`, `sendto`, `recvfrom` and `poll` end the program in the code, and are not
  modelled; a failing `fork` is, in `Zombies` (`process_server_exit`).
- Rates are in tenths, message numbers modulo `MsgSpace`, times in seconds.
- Only one rcopy runs in `Transfer`.  Children of different clients share no state.

## 5. Proofs

TLAPS proves, for every file, window size, number of children, number and kind of
faults and failing file calls:

- `TypeCorrect`: `Spec => []TypeOK`.  The inductive invariant is `TypeInv`.  `TypeOK` alone
  is not inductive: that a window slot exists needs the array to be allocated
  (`RcopyReady`, `ChildReady`), that a counter stays within MAX_TRIES needs it to be
  smaller as long as its loop goes on, and that the child allocates what rcopy asked
  for needs the packets on their way to be of the right kind (`NetworkReady`).
- Under the hypothesis `FileFits`, that is, that no number window or buffer compute
  passes the end of the sequence space: `WindowCorrect`, `BufferCorrect`, `AcksCorrect`
  (`WindowHoldsUnacked`, `BufferHoldsLater`, `AcksAreTrue`) and `ProgressCorrect`
  (`ProgressIsKept`), and, if besides `WholeWrites` holds (no write stores less than it
  is given and returns no error), `DiskCorrect` (`DiskNeverWrong`), from the inductive
  invariant `CopyInv`.  None of the properties is inductive alone; the argument goes
  round: an undamaged DATA packet carries its own chunk because the window holds what
  was sent, under its number (`WindowHolds`), so what a child saves and writes is right
  (`BufferHolds`), at the place where it belongs as long as no write has been short
  (`ChildRight`), and what it acknowledges has been given to write (`TruePacket`).
  `WindowHolds` and `BufferHolds` rest on `SlotsDiffer`: numbers less than the array's
  size apart never share the slot `seq % size`.  Because the window is right after any
  RR whatever (`WindowRRHolds`), the proof needs nothing about the order or the origin
  of RRs, and holds for any number of children.
- Under `FileFits` and `OneChild` (the FILENAME has made one child): `EofCorrect`
  (`EofAfterAllData`) and `CleanEndCorrect` (`CleanEndMeansSuccess`).  If besides
  `WholeWrites` holds: `SuccessCorrect` (`SuccessMeansCopied`) and `CopyImplemented`:
  `Spec => ImplementsFileCopy`, the refinement of `FileCopy`, with the output file and
  rcopy's exit status as the refinement mapping.  The inductive invariant is `CopyInv /\
  EndInv`.  Its heart is that rcopy's lower edge never passes what the child expects: an
  RR moves it no further than its own number (`WindowRRHolds`), and no RR, however old,
  names more than the child has given to write (`TruePacket`).  SEND_EOF is entered with
  an empty window and the file read to its end, so then the lower edge, and with it
  `expected`, is `EndSeq` (`Ended`); an undamaged EOF proves `Ended`, an undamaged DONE
  proves that rcopy has succeeded (`EndPacket`), and neither is ever taken back
  (`Stable`).  With whole writes the file is always `Start(offset)`, the input file up
  to the child's offset.  The hypotheses are needed: without `OneChild` the run
  `late_child` violates `SuccessMeansCopied`, and in its bounds `EofAfterAllData` fails
  too (the EOF can reach the child that has not got the data); without `WholeWrites` the
  run `short_write` violates `SuccessMeansCopied`.  Only for `CleanEndMeansSuccess` is
  no counterexample with two children known.  `udp` satisfies all three hypotheses.
- Under `FileFits` and `OneChild`, with any writes short: `OrderCorrect`
  (`OutputKeepsOrder`, which no run checks).  The invariant, `OrderInv`, says that the
  child's offset is the length of the file, so that every write appends, and that the
  places in the file are in order among those the child has given to write so far
  (`Given`): a turn of the loop adds two to these, and two, one or none of them to the
  file (`WriteOrders`).  `OneChild` is needed for the offset: a second child writes at
  its own.
- `RejectCorrect` (`RejectExactlyWhenGap`), without `FileFits` and for any number of
  children.  The inductive strengthening, `RejectInv`, adds what holds in the middle of
  `buffer_write_ready`'s loop: a child that writes has no reject outstanding.
- Under `FileFits`: `ResendsCorrect` (`NeverResendsAcked`).  Each of rcopy's steps sends at most
  one packet, after it has taken at most one out of its own queue, and if that packet
  carries data it is in the window that the step leaves (`SendsUnacked`).  The step that
  handles an RR and the one that handles an SREJ are the interesting ones: the window
  may have moved past what an old SREJ asks for.
- Under `FileFits` and `OneChild`: `MissingKept` (`SenderKeepsMissing`).  Besides `CopyInv` and
  `EndInv` it needs that nobody is ahead of rcopy: `SentInv` says that no child expects or
  holds a packet beyond the last one sent, and none such is on its way.

- Under `Timely`, for any faults, any number of children and any failing file calls:
  `ForksCorrect` (`SecondChildNeedsLoss`).  Counting makes it inductive: `ForkInv` bounds the
  children that exist together with the FILENAMEs still on their way to the main process,
  by one more than the faults, and by the faults alone when rcopy is about to ask again,
  or may be because its timer can run out (`Idle`).  That rcopy's timer runs out before a
  child has answered means that a packet has been lost: an answer that has come would
  have turned rcopy to the child (`RoutesInv`: only children send to rcopy, and it sends to the
  main process only until one has answered).
- Under `Timely`, `FileFits` and three more hypotheses: `GiveUpCorrect`
  (`GiveUpOnlyAfterFaults`). `LossOnly`: the network only loses packets, and file calls
  fail at most in that a write is short.  `Patient`: `RcopyTries <= ServerTries`; in the
  program both are `MAX_TRIES`.  `EnoughChildren`: the model has a child for each
  FILENAME that rcopy can send, which bounds the model, not the code.  The run `timely`
  satisfies all five.  The invariant, `GiveInv`, says that with fewer than `RcopyTries`
  faults there has been no error, and of each state of rcopy what the processes and
  queues can hold (`AskPhase`, `DataPhase`, `EofPhase`).  Once a child has answered,
  rcopy talks to that one, and the others can only end after ten seconds (`Solitary`,
  `Orphan`).  Its heart is `Lines`: what the two queues between rcopy and the child can
  hold while data is sent, which is data and answers in order, or one packet that rcopy
  has repeated and the answer to it. `Paid` says that each time-out that rcopy has
  counted since the window last moved was preceded by a loss of its own, `Intact` that
  before the first loss nothing is missing.  The hypothesis about the faults is needed:
  the run `damaged_response` violates the property with one damaged packet.

About the other modules, for every value of their constants:

- `ZombieTypeCorrect` (`ZombieTypeOK`) and `LinkTypeCorrect` (`LinkTypeOK`).
- `ZombiesNotForgotten` (`NoForgottenZombie`).  With the type invariant it is inductive: a
  child becomes a zombie only with a signal, the handler takes the signal away only when
  its loop begins, and leaves the loop only when there is no zombie.
- `PollTypeCorrect` (`PollTypeOK`), and, if standard input is not hung up, `ReadyCorrect`
  (`ReadyMeansReadable`) and `PollSetImplemented` (`PollSpec => ImplementsPollSet`).  The
  invariant `PollInv` adds that the slots beyond `maxFileDescriptor` are unused: otherwise
  `addToPollSet`, which raises it over several of them at once, could let old
  descriptors into the set.  The refinement mapping is `watched`, the slots that ask for
  POLLIN.
- `EnvironmentHasPrecedence` (`EnvironmentWins`).  The invariant says of every process's
  configuration, in a process that does not exist yet too, that it obeys the environment
  (`Good`): the listed drop is among the constant events and is the only drop, or the
  random event asked for is the only one of its kind.  The constructor establishes it and
  each operation preserves it, an appended random event because its guard says that the
  environment does not set that kind.
- `OddsAreSame` (`SameOdds`): each initialisation adds one random event of each kind, and a
  child has those of its parent (`OddsInv`).
- `ListedDropped` (`OnlyListedDropped`), if no process sends more messages than there are
  message numbers.  The invariant `ListInv` says that the only event that drops is the one
  made from the list, and that the library's message number is the number of messages
  sent; in a child both hold because the main process, whose state it gets, has sent
  nothing.
- `MadeAccepted` (`MadeIsAccepted`) and `FlipNoticed` (`FlipIsNoticed`), for packets of every
  length up to MaxData, bytes of every base and any stale bytes.  `in_cksum` depends on
  its words only through their sum, folded (`Folded`, which gives the remainder by
  `Word - 1` that is not zero); the sum is a recursive function, about which the proof
  goes by induction over a hidden set of lengths (`SetInduction`): two packets that
  differ in one word have sums that differ by as much, and a difference of one inverted
  byte is no multiple of `Word - 1`.
- `OneFlipAtMost` (`AtMostOneFlip`), because no send changes the packet that is kept
  (`FlipInv`), and `processEvents` runs at most one random event.

The lemmas are in layers: `NumberProofs` (arithmetic modulo `size`; two numbers less
than `size` apart have different slots; the least element of a set), `ArrayProofs` (what
each operation of window and buffer returns and preserves), the beginning of
`TransferProofs` (if every queue carries only packets of a set, so it does after each
send, receive and fault), and one lemma per group of actions above them.  In
`TimelyProofs` what happens to the two queues is first proved about sequences alone
(the lemmas whose names begin with `Lines`), one lemma per kind of step, and the lemmas about
the actions only show which kind they are.

Assumptions are the named ones of the modules: `PacketAssumption`,
`NetworkAssumption`, `RcopyAssumption`, `ServerAssumption`, `TimelyAssumption`,
`SettingsAssumption`, `ErrorLinkAssumption`, `PollLibAssumption`, `ChecksumAssumption`.  TLC evaluates them in the
runs of these modules.

Only model-checked: liveness (`RcopyTerminates`, `ChildrenTerminate`, `EventuallyCopied`,
`ZombiesReaped`), which depends on fairness and ENABLED.

## 6. Not modelled

- Sockets and name resolution (`networks.c`, `gethostbyname.c`): system calls in a
  straight line before the protocol starts, with no state that a later step reads.  What
  the protocol uses of them, `safeRecvfrom` and `safeSendto`, is in `Network`.
- The PDU helpers (`PDU.c`) and the TCP parts of `networks.c` and `safeUtil.c`: linked into
  both programs, called by neither.
- In libcpe464, the hooks for `bind`, `select`, `send` and `recv`: the programs reach only
  `sendtoErr`, `sendtoErr_init` and `fork` through `cpe464.h`, which `networks.c` does not
  include.  Debug output is left out everywhere.
- The checks of the command line: each either exits or leaves a value that the
  constants of the models stand for.
- Two clients with different files: their children share neither a file nor a socket,
  and meet only in the main process's queue and in the table of processes (`Zombies`).
  Two clients that name the same output file behave like two children of one client.
- That children forked in the same second make the same random choices: `drand48` is
  modelled as any choice.
- The examples (`src/example`) and the test scripts.

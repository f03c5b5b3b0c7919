------------------------------ MODULE ErrorLink ------------------------------
(***************************************************************************)
(* The error-injecting link of rcopy and of the server's processes: each   *)
(* process has its own copy of libcpe464's state, a child of the server    *)
(* the one its parent had at the fork, and each process that sends calls   *)
(* sendErr_init first: rcopy and the main process in main, a child in      *)
(* process_client.  All of them run in one environment.                    *)
(*                                                                         *)
(* A packet is known by its bytes that differ from what its sender         *)
(* composed.  A process sends the packet it keeps any number of times, as  *)
(* rcopy does with the packets in its window.                              *)
(***************************************************************************)
EXTENDS Settings, FiniteSetsExt

CONSTANTS
    Rcopy,         \* the process of rcopy
    Server,        \* the server's main process
    Child,         \* the server's children
    Environments,  \* the environments in which the programs are started
    ErrorRate,     \* the programs' error-rate argument, in tenths
    PacketSize,    \* how many bytes a packet has
    StartTime,     \* time(NULL) when the programs are started
    LastTime,      \* bound: the last second
    MaxSends       \* bound: how often each process sends

ASSUME ErrorLinkAssumption ==
    /\ Rcopy # Server /\ Rcopy \notin Child /\ Server \notin Child
    /\ \A e \in Environments :
          {e.rate, e.drop, e.flip, e.seed} \subseteq {Unset} \cup Seq({NotNumber} \cup Int)
    /\ ErrorRate \in 0 .. AlwaysRate
    /\ PacketSize \in Nat \ {0}
    /\ StartTime \in Nat /\ LastTime \in Nat /\ StartTime <= LastTime
    /\ MaxSends \in Nat

VARIABLES
    env,      \* the environment
    now,      \* time(NULL)
    phase,    \* "none", "loaded" or "forked", "ready" to send
    pm,       \* the library's state of each process
    kept,     \* the changed bytes of the packet that a process keeps
    log       \* what became of each message that a process sent

linkVars == <<env, now, phase, pm, kept, log>>

Program == {Rcopy, Server}
Process == Program \cup Child
Sender == {Rcopy} \cup Child

DROP_ON == TRUE
FLIP_ON == TRUE
RSEED_ON == TRUE

LinkInit ==
    /\ env \in Environments
    /\ now = StartTime
    /\ phase = [p \in Process |-> IF p \in Program THEN "loaded" ELSE "none"]
    /\ pm = [p \in Process |-> Loaded(env, now)]
    /\ kept = [p \in Process |-> {}]
    /\ log = [p \in Process |-> <<>>]

Second == now < LastTime /\ now' = now + 1 /\ UNCHANGED <<env, phase, pm, kept, log>>

\* The call that both programs and the children make.
initialised(p) ==
    sendErr_init(pm[p], env, ErrorRate, DROP_ON, FLIP_ON, RSEED_ON, now)

\* The start of main, or of process_client in a child.
init(p) ==
    /\ phase[p] \in {"loaded", "forked"}
    /\ phase' = [phase EXCEPT ![p] = "ready"]
    /\ pm' = [pm EXCEPT ![p] = initialised(p)]
    /\ UNCHANGED <<env, now, kept, log>>

forkMod(c) ==
    /\ phase[Server] = "ready"
    /\ phase[c] = "none"
    /\ phase' = [phase EXCEPT ![c] = "forked"]
    /\ pm' = [pm EXCEPT ![Server] = forked_parent(@),
                        ![c] = forked_child(pm[Server], env)]
    /\ UNCHANGED <<env, now, kept, log>>

\* The bytes that differ after those in inverted have been inverted once more.
Xor(bytes, inverted) == (bytes \ inverted) \cup (inverted \ bytes)

\* What arrives of a packet with the changed bytes, or that nothing does.
Message(fate, bytes) == [dropped |-> fate.dropped, bytes |-> Xor(bytes, fate.inverted)]

may_send(p) == p \in Sender /\ phase[p] = "ready" /\ Len(log[p]) < MaxSends

\* Slip: the events are run on the caller's buffer, not on a copy.
sendto_Err_slip(p) ==
    /\ may_send(p)
    /\ \E fate \in processEvents(pm[p], next_msg_no(pm[p]), PacketSize) :
          /\ log' = [log EXCEPT ![p] = Append(@, Message(fate, kept[p]))]
          /\ kept' = [kept EXCEPT ![p] = Xor(@, fate.inverted)]
    /\ pm' = [pm EXCEPT ![p].msg_no = next_msg_no(pm[p])]
    /\ UNCHANGED <<env, now, phase>>

\* Slip: a dropped message is not counted.
sendto_Err_uncounted_slip(p) ==
    /\ may_send(p)
    /\ \E fate \in processEvents(pm[p], next_msg_no(pm[p]), PacketSize) :
          /\ log' = [log EXCEPT ![p] = Append(@, Message(fate, kept[p]))]
          /\ pm' = [pm EXCEPT ![p].msg_no =
                      IF fate.dropped THEN @ ELSE next_msg_no(pm[p])]
    /\ UNCHANGED <<env, now, phase, kept>>

sendto_Err(p) ==
    /\ may_send(p)
    /\ \E fate \in processEvents(pm[p], next_msg_no(pm[p]), PacketSize) :
          log' = [log EXCEPT ![p] = Append(@, Message(fate, kept[p]))]
    /\ pm' = [pm EXCEPT ![p].msg_no = next_msg_no(pm[p])]
    /\ UNCHANGED <<env, now, phase, kept>>

\* Everybody has sent what the bound allows.
LinkIdle == UNCHANGED linkVars

LinkNext ==
    \/ Second
    \/ \E p \in Process : init(p) \/ sendto_Err(p)
    \/ \E c \in Child : forkMod(c)
    \/ LinkIdle

LinkSpec == LinkInit /\ [][LinkNext]_linkVars

-----------------------------------------------------------------------------
exists(p) == phase[p] # "none"
ready(p) == phase[p] = "ready"

\* How many events of a kind are in the list.
Count(list, kind) == Cardinality({i \in DOMAIN list : list[i].kind = kind})

ListGiven(v) == is_set_list(v) /\ parserLong2Uint32(v) # {}

\* Numbers, none of which names a message: -1 asks for random events.
RandomGiven(v) == is_set_number(v) /\ parserLong2Uint32(v) = {}

\* LinkTypeOK: the library's state of each process has the shape of its
\* declarations, and only drop lists and infoSeqNo run on every message.
LinkTypeOK ==
    /\ env \in Environments /\ now \in StartTime .. LastTime
    /\ phase \in [Process -> {"none", "loaded", "forked", "ready"}]
    /\ \A p \in Process :
          /\ pm[p].rate \in Int /\ pm[p].msg_no \in 0 .. MsgSpace - 1
          /\ \A e \in Range(pm[p].constant) : e.kind \in {"info", "drop"}
          /\ \A e \in Range(pm[p].chance) : e.kind \in {"flip", "drop"} /\ e.all
          /\ kept[p] \subseteq 0 .. PacketSize - 1

\* EnvironmentWins: a rate, a seed, a list of messages to drop and random drops or
\* flips (-1) that the environment asks for are in force in every process, and
\* nothing that the program asks for beside them, however often that process and
\* its ancestors have called sendErr_init and fork (SettingsManager.h: it "will
\* always have precedence").  Nothing is said of a list of messages to flip, with
\* which the code does nothing, nor of a list variable that is set to nothing, which
\* it takes for -1 although SettingsManager.h calls it undefined.
EnvironmentWins ==
    \A p \in Process : exists(p) =>
        /\ is_set_number(env.rate) => pm[p].rate = Head(env.rate)
        /\ is_set_number(env.seed) => pm[p].seed = Head(env.seed)
        /\ ListGiven(env.drop) =>
              /\ setDropSpecific(parserLong2Uint32(env.drop)) \in Range(pm[p].constant)
              /\ Count(pm[p].constant, "drop") = 1 /\ Count(pm[p].chance, "drop") = 0
        /\ RandomGiven(env.drop) =>
              Count(pm[p].constant, "drop") = 0 /\ Count(pm[p].chance, "drop") = 1
        /\ RandomGiven(env.flip) => Count(pm[p].chance, "flip") = 1

\* OnlyListedDropped: with a list of messages to drop, the n-th packet that a
\* process sends, dropped ones and repetitions counted, is lost exactly if n is
\* in the list; the second initialisation in a child adds nothing to it.
OnlyListedDropped ==
    ListGiven(env.drop) =>
        \A p \in Process : \A n \in DOMAIN log[p] :
            log[p][n].dropped <=> n \in parserLong2Uint32(env.drop)

\* SameOdds: where the environment is silent a random event is as often a drop as
\* a flip, in a child, which has initialised the library twice, as in rcopy.
SameOdds ==
    ~is_set_list(env.drop) /\ ~is_set_list(env.flip) =>
        \A p \in Process : ready(p) =>
            /\ Count(pm[p].chance, "drop") > 0
            /\ Count(pm[p].chance, "drop") = Count(pm[p].chance, "flip")

\* AtMostOneFlip: what arrives differs from what its sender composed in one byte
\* at most, also if it was damaged when it was sent before: this is what the
\* checksum can notice.
AtMostOneFlip ==
    \A p \in Process : \A n \in DOMAIN log[p] : Cardinality(log[p][n].bytes) <= 1
=============================================================================

------------------------------ MODULE Settings ------------------------------
(***************************************************************************)
(* The configuration of libcpe464 in one process: SettingsManager, which   *)
(* reads the CPE464_OVERRIDE variables before main runs, the options that  *)
(* sendErr_init gives it afterwards, and the lists and numbers of the      *)
(* PacketManager that both fill in.                                        *)
(*                                                                         *)
(* An environment is a record with a value for each variable: Unset, or    *)
(* the sequence of the numbers between its commas, with NotNumber for a    *)
(* piece that strtol or strtof cannot read.  Rates are in tenths, so that  *)
(* AlwaysRate is 1.0.                                                      *)
(*                                                                         *)
(* The configuration of a process is a record with these fields:           *)
(*   rate         m_ErrorRate                                              *)
(*   constant     m_ErrorCase_Constant, run on every message               *)
(*   chance       m_ErrorCase_Chance, one of which is run at random        *)
(*   msg_no       m_MsgNo                                                  *)
(*   seed         the last argument of srand48                             *)
(*   next_seed    nextSeed of network-hooks.c                              *)
(***************************************************************************)
EXTENDS Integers, SequencesExt

CONSTANTS
    Unset,       \* getenv returned NULL
    NotNumber,   \* text that is not a number
    MsgSpace     \* how many message numbers there are: 2^32 in the program

ASSUME SettingsAssumption ==
    /\ Unset \notin Seq({NotNumber} \cup Int)
    /\ NotNumber \notin Int
    /\ MsgSpace \in Nat \ {0}

RANDOM_SEED == 10

AlwaysRate == 10

-----------------------------------------------------------------------------
(* The message events.                                                     *)

Event(kind, all, list) == [kind |-> kind, all |-> all, list |-> list]

infoSeqNo == Event("info", FALSE, {})
errorFlipBits == Event("flip", TRUE, {})
errorDrop == Event("drop", TRUE, {})
setDropSpecific(list) == Event("drop", FALSE, list)

addMsgEvent_Standard(pm, e) == [pm EXCEPT !.constant = Append(@, e)]
addMsgEvent_Random(pm, e) == [pm EXCEPT !.chance = Append(@, e)]
setErrorRate(pm, rate) == [pm EXCEPT !.rate = rate]
setRandSeed(pm, seed) == [pm EXCEPT !.seed = seed]

-----------------------------------------------------------------------------
(* loadEnvData: what counts as set.                                        *)

\* strtol and strtof read the number at the start of the text.
is_set_number(v) == v # Unset /\ v # <<>> /\ Head(v) # NotNumber

\* A list is set even if there is nothing in it.
is_set_list(v) == v # Unset

\* The numbers before the first piece that is not one.
parser2ListLong(v) ==
    LET bad == SelectInSeq(v, LAMBDA x : x = NotNumber)
    IN  IF bad = 0 THEN v ELSE SubSeq(v, 1, bad - 1)

\* The message numbers in a list; negative ones are passed over.
parserLong2Uint32(v) ==
    {x % MsgSpace : x \in {y \in Range(parser2ListLong(v)) : y >= 0}}

-----------------------------------------------------------------------------
(* The constructor of SettingsManager.                                     *)

loadEnvData_SeedRand(pm, env) ==
    IF is_set_number(env.seed) THEN setRandSeed(pm, Head(env.seed)) ELSE pm

loadEnvData_ErrRate(pm, env) ==
    IF is_set_number(env.rate) THEN setErrorRate(pm, Head(env.rate)) ELSE pm

\* Slip: the list becomes one of the random events.
loadEnvData_ErrDrop_slip(pm, env) ==
    IF ~is_set_list(env.drop) THEN pm
    ELSE addMsgEvent_Random(pm, setDropSpecific(parserLong2Uint32(env.drop)))

loadEnvData_ErrDrop(pm, env) ==
    IF ~is_set_list(env.drop) THEN pm
    ELSE IF parserLong2Uint32(env.drop) = {} THEN addMsgEvent_Random(pm, errorDrop)
    ELSE addMsgEvent_Standard(pm, setDropSpecific(parserLong2Uint32(env.drop)))

\* Messages to flip cannot be chosen: a list with a number does nothing.
loadEnvData_ErrFlip(pm, env) ==
    IF is_set_list(env.flip) /\ parserLong2Uint32(env.flip) = {}
    THEN addMsgEvent_Random(pm, errorFlipBits)
    ELSE pm

NewPacketManager(now) ==
    [rate |-> 0, constant |-> <<>>, chance |-> <<>>, msg_no |-> 0,
     seed |-> now, next_seed |-> RANDOM_SEED]

\* The library's state when main begins at the time now.
Loaded(env, now) ==
    loadEnvData_ErrFlip(
        loadEnvData_ErrDrop(
            loadEnvData_ErrRate(
                loadEnvData_SeedRand(NewPacketManager(now), env), env), env), env)

-----------------------------------------------------------------------------
(* What the program asks for gives way to what the environment sets.       *)

setUserMode_SeedRand(pm, env, seed) ==
    IF is_set_number(env.seed) THEN pm ELSE setRandSeed(pm, seed)

setUserMode_ErrRate(pm, env, rate) ==
    IF is_set_number(env.rate) THEN pm ELSE setErrorRate(pm, rate)

\* Slip: a list in the environment does not keep the program from dropping.
setUserMode_ErrDrop_slip(pm, env, enabled) ==
    IF enabled THEN addMsgEvent_Random(pm, errorDrop) ELSE pm

setUserMode_ErrDrop(pm, env, enabled) ==
    IF ~is_set_list(env.drop) /\ enabled THEN addMsgEvent_Random(pm, errorDrop) ELSE pm

\* Slip: the event of setUserMode_ErrDrop.
setUserMode_ErrFlip_slip(pm, env, enabled) ==
    IF ~is_set_list(env.flip) /\ enabled THEN addMsgEvent_Random(pm, errorDrop) ELSE pm

setUserMode_ErrFlip(pm, env, enabled) ==
    IF ~is_set_list(env.flip) /\ enabled THEN addMsgEvent_Random(pm, errorFlipBits) ELSE pm

\* nextSeed after sendErr_init at the time now.
NextSeed(pm, random, now) == IF random THEN now ELSE pm.next_seed + 1

sendErr_init(pm, env, rate, drop, flip, random, now) ==
    LET info == addMsgEvent_Standard(pm, infoSeqNo)
        rated == setUserMode_ErrRate(info, env, rate)
        dropping == setUserMode_ErrDrop(rated, env, drop)
        flipping == setUserMode_ErrFlip(dropping, env, flip)
        seed == IF random THEN now ELSE pm.next_seed
    IN  [setUserMode_SeedRand(flipping, env, seed)
            EXCEPT !.next_seed = NextSeed(pm, random, now)]

\* fork: parent and child after it.
forked_parent(pm) == [pm EXCEPT !.next_seed = @ + 1]
forked_child(pm, env) == setUserMode_SeedRand(forked_parent(pm), env, pm.next_seed)

-----------------------------------------------------------------------------
(* processEvents: what can become of message no, whose bytes are 0 ..      *)
(* size - 1: dropped, or sent with some bytes inverted.                    *)

Fate(dropped, inverted) == [dropped |-> dropped, inverted |-> inverted]

Drops(e, no) == e.kind = "drop" /\ (e.all \/ no \in e.list)

\* runMsgEvents over the constant events, none of which changes a message.
constant_drops(pm, no) == \E i \in DOMAIN pm.constant : Drops(pm.constant[i], no)

\* One event's run.
run(e, no, size) ==
    IF e.kind = "flip" THEN {Fate(FALSE, {b}) : b \in 0 .. size - 1}
    ELSE {Fate(Drops(e, no), {})}

\* drand48() is in [0, 1): it can be as small as any rate, and it is beyond
\* every rate less than 1.
may_hit(pm) == pm.chance # <<>> /\ pm.rate >= 0
may_miss(pm) == pm.chance = <<>> \/ pm.rate < AlwaysRate

by_chance(pm, no, size) ==
    (IF may_hit(pm) THEN UNION {run(e, no, size) : e \in Range(pm.chance)} ELSE {})
    \cup (IF may_miss(pm) THEN {Fate(FALSE, {})} ELSE {})

processEvents(pm, no, size) ==
    {Fate(f.dropped \/ constant_drops(pm, no), f.inverted) : f \in by_chance(pm, no, size)}

\* ++m_MsgNo
next_msg_no(pm) == (pm.msg_no + 1) % MsgSpace
=============================================================================

------------------------------ MODULE PollSet ------------------------------
(***************************************************************************)
(* What pollLib promises its caller: a set of descriptors, and a call that *)
(* returns the lowest of them that has something to read, or -1 when the   *)
(* time is over and none has.                                              *)
(***************************************************************************)
EXTENDS Integers, FiniteSetsExt

CONSTANT Descriptor    \* the descriptors a program can have, from 0

VARIABLES
    watched,     \* the descriptors in the set
    readable,    \* the descriptors with something to read
    answer       \* what the last call returned

Watch(fd) == watched' = watched \cup {fd} /\ UNCHANGED <<readable, answer>>

Unwatch(fd) == watched' = watched \ {fd} /\ UNCHANGED <<readable, answer>>

Ready == watched \cap readable

Call ==
    /\ answer' = IF Ready = {} THEN -1 ELSE Min(Ready)
    /\ UNCHANGED <<watched, readable>>

\* What happens outside the program.
Change == readable' \subseteq Descriptor /\ UNCHANGED <<watched, answer>>

PollSetInit == watched = {} /\ readable = {} /\ answer = -1

PollSetNext ==
    \/ \E fd \in Descriptor : Watch(fd) \/ Unwatch(fd)
    \/ Call
    \/ Change

PollSetSpec == PollSetInit /\ [][PollSetNext]_<<watched, readable, answer>>
=============================================================================

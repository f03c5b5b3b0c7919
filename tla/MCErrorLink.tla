---------------------------- MODULE MCErrorLink ----------------------------
(***************************************************************************)
(* ErrorLink with values for its constants, for TLC.                       *)
(***************************************************************************)
EXTENDS ErrorLink, TLC

Env(rate, drop, flip, seed) == [rate |-> rate, drop |-> drop, flip |-> flip, seed |-> seed]

NoEnvironment == Env(Unset, Unset, Unset, Unset)

\* What testRandError.sh exports, and what its clear_defs leaves behind.
TestScript == Env(<<9>>, <<-1>>, <<-1>>, <<10>>)
Cleared == Env(<<>>, <<>>, <<>>, <<>>)

DropList == Env(<<0>>, <<2>>, Unset, Unset)
DropListAndMore == Env(Unset, <<-1, 1, NotNumber, 2>>, <<>>, <<2>>)
FlipList == Env(Unset, <<-1>>, <<1, 2>>, Unset)

AllEnvironments ==
    {NoEnvironment, TestScript, Cleared, DropList, DropListAndMore, FlipList}

ChildSymmetry == Permutations(Child)
=============================================================================

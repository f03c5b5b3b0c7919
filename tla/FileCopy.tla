------------------------------ MODULE FileCopy ------------------------------
(***************************************************************************)
(* What the program promises its user, without packets, windows or         *)
(* processes: the output file grows by the next part of the input file,    *)
(* and rcopy ends either with status 0, when the copy is complete, or with *)
(* an error, at any time.  The part that has been written stays; after an  *)
(* error, data that were already on their way may still be written.        *)
(***************************************************************************)
EXTENDS Integers, Sequences

CONSTANT Input     \* the input file, a sequence of places

VARIABLES
    output,        \* the output file
    result         \* "copying", then "copied" or "failed"

copyVars == <<output, result>>

CopyInit ==
    /\ output = <<>>
    /\ result = "copying"

WriteNext ==
    /\ \E n \in Len(output) + 1 .. Len(Input) : output' = SubSeq(Input, 1, n)
    /\ UNCHANGED result

Succeed ==
    /\ result = "copying"
    /\ output = Input
    /\ result' = "copied"
    /\ UNCHANGED output

Fail ==
    /\ result = "copying"
    /\ result' = "failed"
    /\ UNCHANGED output

CopyNext == WriteNext \/ Succeed \/ Fail

CopySpec == CopyInit /\ [][CopyNext]_copyVars
=============================================================================

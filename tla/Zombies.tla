------------------------------ MODULE Zombies ------------------------------
(***************************************************************************)
(* The server's main process and the ends of its children: process_server  *)
(* forks, a child that ends stays a zombie, in the system's table of       *)
(* processes, until the main process waits for it, and handle_zombies does *)
(* that when SIGCHLD is delivered.                                         *)
(*                                                                         *)
(* SIGCHLD is only pending or not: several children that end before it is  *)
(* delivered make one delivery.  The program is compiled with -std=gnu99,  *)
(* so signal() keeps the handler installed and blocks SIGCHLD while it     *)
(* runs, and an interrupted recvfrom is started again.                     *)
(***************************************************************************)
EXTENDS Integers

CONSTANT Child    \* the places for children in the table of processes

VARIABLES
    proc,       \* what is in each place: "free", "running" or "zombie"
    pending,    \* SIGCHLD is pending for the main process
    handler,    \* "off", "loop" (of handle_zombies) or "signal" (its last call)
    main        \* "serving" or "exited"

zombieVars == <<proc, pending, handler, main>>

ZombieInit ==
    /\ proc = [c \in Child |-> "free"]
    /\ pending = FALSE
    /\ handler = "off"
    /\ main = "serving"

\* The main process executes process_server.
in_main == main = "serving" /\ handler = "off"

\* A good FILENAME packet: fork finds a place in the table,
process_server_fork(c) ==
    /\ in_main
    /\ proc[c] = "free"
    /\ proc' = [proc EXCEPT ![c] = "running"]
    /\ UNCHANGED <<pending, handler, main>>

\* or there is none: perror and exit.
process_server_exit ==
    /\ in_main
    /\ \A c \in Child : proc[c] # "free"
    /\ main' = "exited"
    /\ UNCHANGED <<proc, pending, handler>>

\* exit(0) of a child.  Without the main process nobody need wait for it.
child_exit(c) ==
    /\ proc[c] = "running"
    /\ IF main = "serving"
       THEN proc' = [proc EXCEPT ![c] = "zombie"] /\ pending' = TRUE
       ELSE proc' = [proc EXCEPT ![c] = "free"] /\ UNCHANGED pending
    /\ UNCHANGED <<handler, main>>

handle_zombies ==
    /\ in_main
    /\ pending
    /\ pending' = FALSE
    /\ handler' = "loop"
    /\ UNCHANGED <<proc, main>>

\* Slip: "if" for "while": one child for each delivery of the signal.
waitpid_slip(c) ==
    /\ handler = "loop"
    /\ proc[c] = "zombie"
    /\ proc' = [proc EXCEPT ![c] = "free"]
    /\ handler' = "signal"
    /\ UNCHANGED <<pending, main>>

\* waitpid(-1, NULL, WNOHANG) > 0: some child that has ended.
waitpid(c) ==
    /\ handler = "loop"
    /\ proc[c] = "zombie"
    /\ proc' = [proc EXCEPT ![c] = "free"]
    /\ UNCHANGED <<pending, handler, main>>

\* Slip: to have no child at all is taken for an error that ends the program.
waitpid_none_slip ==
    /\ handler = "loop"
    /\ \A c \in Child : proc[c] # "zombie"
    /\ main' = "exited"
    /\ UNCHANGED <<proc, pending, handler>>

\* There is none, or no child at all.
waitpid_none ==
    /\ handler = "loop"
    /\ \A c \in Child : proc[c] # "zombie"
    /\ handler' = "signal"
    /\ UNCHANGED <<proc, pending, main>>

\* signal(SIGCHLD, handle_zombies) and the return into process_server.
handler_returns ==
    /\ handler = "signal"
    /\ handler' = "off"
    /\ UNCHANGED <<proc, pending, main>>

handler_step ==
    \/ handle_zombies
    \/ \E c \in Child : waitpid(c)
    \/ waitpid_none
    \/ handler_returns

\* No FILENAME comes and no child ends.
Quiet == UNCHANGED zombieVars

ZombieNext ==
    \/ \E c \in Child : process_server_fork(c) \/ child_exit(c)
    \/ process_server_exit
    \/ handler_step
    \/ Quiet

\* A pending signal is delivered and its handler runs on; children need not end.
ZombieSpec ==
    ZombieInit /\ [][ZombieNext]_zombieVars /\ WF_zombieVars(handler_step)

-----------------------------------------------------------------------------
\* ZombieTypeOK: handle_zombies runs only in a main process that serves.
ZombieTypeOK ==
    /\ proc \in [Child -> {"free", "running", "zombie"}]
    /\ pending \in BOOLEAN
    /\ handler \in {"off", "loop", "signal"}
    /\ main \in {"serving", "exited"}
    /\ main = "exited" => handler = "off"

\* NoForgottenZombie: as long as a child waits to be waited for, SIGCHLD is pending
\* or handle_zombies still looks, also for a child that ends between the last
\* waitpid and the return, and for several that made one signal.
NoForgottenZombie ==
    main = "serving" /\ (\E c \in Child : proc[c] = "zombie") =>
        pending \/ handler = "loop"

\* ZombiesReaped: every place in the table is given back, unless the main process
\* ends: the server does not run out of processes by serving.
ZombiesReaped ==
    \A c \in Child : proc[c] = "zombie" ~> (proc[c] = "free" \/ main = "exited")
=============================================================================

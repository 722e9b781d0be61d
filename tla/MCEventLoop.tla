---------------------------- MODULE MCEventLoop ----------------------------
(***************************************************************************)
(* Small instances of EventLoop: the programs of the repository.           *)
(***************************************************************************)
EXTENDS EventLoop, TLC

CONSTANTS stdin, fast, slow, idle, once

\* bbs_run.c; event test6.c; the widgets' tests, which register a worker
\* from their input; and a program without an input.
MCPrograms == {<<stdin, slow, fast>>, <<stdin, fast, idle>>, <<stdin>>, <<fast>>}

MCInterval == [t \in Timers |-> IF t = slow THEN 2 ELSE 1]

MCHooks == <<"workbench", "terminal">>
=============================================================================

----------------------------- MODULE MCPipelines -----------------------------
(***************************************************************************)
(* Pipelines with the shell, the idle task and two programs.               *)
(***************************************************************************)
EXTENDS Pipelines

\* Everything but standard error.
MCNamed == {STDIN, STDOUT, 3, 4}

\* A program saves its standard output in a spare descriptor.
MCDups == {<<STDOUT, 3>>}

\* Command lines without redirections, and with every combination of them.
MCPlain == {{}}
MCRedirects == SUBSET {"<", ">"}

\* Nobody sleeps here, so no action's guard and no property reads the tick
\* counter: two states that differ in it alone are one.
MCView == <<sched, waiting, idle_pc, boot, fds, pipes, call, shell, apps>>

=============================================================================

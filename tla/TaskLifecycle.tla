---------------------------- MODULE TaskLifecycle ----------------------------
(***************************************************************************)
(* What the scheduler promises about a task id, whatever the scheduling:   *)
(* ids are issued in order and never again; a task terminates at most      *)
(* once, and the exit code it terminated with is kept unchanged until it   *)
(* is collected, which happens at most once; the idle task never           *)
(* terminates, and there is at most one.                                   *)
(***************************************************************************)
EXTENDS Integers

CONSTANTS
  MaxId,   \* ids are 1..MaxId - 1
  Codes    \* exit codes

VARIABLES
  life,    \* what has become of each id
  code     \* the exit code kept for it

Ids == 1..MaxId
NoCode == -1
Lives == {"unborn", "live", "idle", "zombie", "gone"}

LifecycleInit ==
  /\ life = [id \in Ids |-> "unborn"]
  /\ code = [id \in Ids |-> NoCode]

\* The oldest unborn id is issued, to an ordinary task or to the idle task.
Issue(kind) ==
  \E id \in Ids :
    /\ life[id] = "unborn"
    /\ \A older \in 1..(id - 1) : life[older] # "unborn"
    /\ kind = "idle" => \A other \in Ids : life[other] # "idle"
    /\ life' = [life EXCEPT ![id] = kind]
    /\ UNCHANGED code

\* Tasks terminate together, with the same code: one of them for an exit or
\* a kill, several for a group exit.
Terminate(c) ==
  /\ life' \in [Ids -> Lives]
  /\ code' \in [Ids -> Codes \cup {NoCode}]
  /\ \A id \in Ids :
       \/ life'[id] = life[id] /\ code'[id] = code[id]
       \/ life[id] = "live" /\ life'[id] = "zombie" /\ code'[id] = c

\* A terminated task, or the idle task, leaves the table.
Collect(id) ==
  /\ life[id] \in {"zombie", "idle"}
  /\ life' = [life EXCEPT ![id] = "gone"]
  /\ code' = [code EXCEPT ![id] = NoCode]

LifecycleNext ==
  \/ \E kind \in {"live", "idle"} : Issue(kind)
  \/ \E c \in Codes \cup {NoCode} : Terminate(c)
  \/ \E id \in Ids : Collect(id)

LifecycleSpec == LifecycleInit /\ [][LifecycleNext]_<<life, code>>

=============================================================================

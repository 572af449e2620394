-------------------------- MODULE WorkingDirectory --------------------------
(***************************************************************************)
(* Where the shell is (shell/mod.rs): resolve_path, which rewrites a path  *)
(* in one buffer from left to right, and the commands that depend on the   *)
(* current directory and its file system.  The initrd is read-only; the    *)
(* directories of the data disk come and go, also under the shell's feet.  *)
(* A path is the sequence of its characters.                               *)
(***************************************************************************)
EXTENDS Integers, FiniteSets, Sequences, SequencesExt

CONSTANTS
  Letters,         \* characters of names besides the dot
  Others,          \* characters no name may have, other than the slash
  INPUT_LENGTH,    \* bound: characters of an argument
  PATH_CAPACITY,
  NAME_CAPACITY,   \* 100 in the code
  MAX_DIRECTORIES, \* bound: directories of the data disk besides the root
  Initrd           \* directories of the initrd, the root among them

\* What the constants must satisfy.
WorkingDirectoryAssumption ==
  /\ PATH_CAPACITY \in Nat /\ NAME_CAPACITY \in Nat /\ MAX_DIRECTORIES \in Nat
  /\ <<>> \in Initrd

VARIABLES
  current_dir,
  current_dir_is_ext2,
  ext2,    \* directories of the data disk
  lost     \* the current directory was removed since the shell entered it

vars == <<current_dir, current_dir_is_ext2, ext2, lost>>

Inputs == BoundedSeq(Letters \cup Others \cup {"/", "."}, INPUT_LENGTH)

(* ----------------------------- resolve_path ---------------------------- *)

Components(path) ==
  FoldLeft(LAMBDA names, c : IF c = "/" THEN Append(names, <<>>)
                             ELSE Append(Front(names), Append(Last(names), c)),
           <<<<>>>>, path)

None == [ok |-> FALSE, path |-> <<>>]
Some(path) == [ok |-> TRUE, path |-> path]

\* Up to the last slash of what is resolved so far, or everything.
Parent(path) ==
  LET slashes == {i \in DOMAIN path : path[i] = "/"}
  IN  IF slashes = {} THEN <<>>
      ELSE SubSeq(path, 1, (CHOOSE i \in slashes : \A j \in slashes : j <= i) - 1)

ValidName(name) == Len(name) <= NAME_CAPACITY /\ ToSet(name) \subseteq Letters \cup {"."}

\* Mutant: the slash is not counted against the capacity.
PushNoSlash(path, name) ==
  IF Len(path) + Len(name) > PATH_CAPACITY THEN None
  ELSE Some(IF path = <<>> THEN name ELSE path \o <<"/">> \o name)

Push(path, name) ==
  LET separator == IF path = <<>> THEN <<>> ELSE <<"/">>
  IN  IF Len(path \o separator \o name) > PATH_CAPACITY THEN None
      ELSE Some(path \o separator \o name)

resolve_path(current, input) ==
  LET step(out, name) ==
        CASE ~out.ok -> None
          [] out.ok /\ name \in {<<>>, <<".">>} -> out
          [] out.ok /\ name = <<".", ".">> -> Some(Parent(out.path))
          [] OTHER -> IF ValidName(name) THEN Push(out.path, name) ELSE None
      rooted == input # <<>> /\ input[1] = "/"
  IN  FoldLeft(step, Some(IF rooted THEN <<>> ELSE current), Components(input))

resolve_ext2_command_path(input) ==
  resolve_path(IF current_dir_is_ext2 THEN current_dir ELSE <<>>, input)

(* ------------------------------- commands ------------------------------ *)

Init ==
  /\ current_dir = <<>>
  /\ current_dir_is_ext2 = FALSE
  /\ ext2 = {<<>>}
  /\ lost = FALSE

\* cd.  From the initrd it enters the data disk when only that has the
\* directory; `cd' and `cd /' lead back to the root of the initrd.
ChangeDirectory(input) ==
  LET home == input \in {<<>>, <<"/">>}
      target == resolve_path(current_dir, input)
  IN  /\ \/ /\ home
            /\ current_dir' = <<>>
            /\ current_dir_is_ext2' = FALSE
         \/ /\ ~home /\ target.ok
            /\ current_dir_is_ext2
            /\ target.path \in ext2
            /\ current_dir' = target.path
            /\ UNCHANGED current_dir_is_ext2
         \/ /\ ~home /\ target.ok
            /\ ~current_dir_is_ext2
            /\ target.path \in Initrd \cup ext2
            /\ current_dir' = target.path
            /\ current_dir_is_ext2' = (target.path \notin Initrd)
      /\ lost' = FALSE
      /\ UNCHANGED ext2

\* mkdir: in a directory of the data disk, under a name that is not in use.
MakeDirectory(input) ==
  LET target == resolve_ext2_command_path(input)
  IN  /\ target.ok
      /\ target.path \notin ext2
      /\ Parent(target.path) \in ext2
      /\ Cardinality(ext2) <= MAX_DIRECTORIES
      /\ ext2' = ext2 \cup {target.path}
      /\ UNCHANGED <<current_dir, current_dir_is_ext2, lost>>

Empty(path) == \A other \in ext2 \ {<<>>} : Parent(other) # path

\* rmdir: any empty directory but the root, the current one included.
RemoveDirectory(input) ==
  LET target == resolve_ext2_command_path(input)
  IN  /\ target.ok
      /\ target.path \in ext2 \ {<<>>}
      /\ Empty(target.path)
      /\ ext2' = ext2 \ {target.path}
      /\ lost' = (lost \/ (current_dir_is_ext2 /\ target.path = current_dir))
      /\ UNCHANGED <<current_dir, current_dir_is_ext2>>

Next == \E input \in Inputs :
  \/ ChangeDirectory(input)
  \/ MakeDirectory(input)
  \/ RemoveDirectory(input)

Spec == Init /\ [][Next]_vars

(* ------------------------------ properties ----------------------------- *)

\* A path as the list of its names, and the walk a list of names describes;
\* it fails where it meets a name that is none or gets too deep.
Names(path) == SelectSeq(Components(path), LAMBDA name : name # <<>>)

Join(names) ==
  FoldLeft(LAMBDA path, name : IF path = <<>> THEN name ELSE path \o <<"/">> \o name, <<>>, names)

Walk(from, names) ==
  FoldLeft(LAMBDA at, name :
             CASE name = <<".">> -> at
               [] name = <<".", ".">> -> [at EXCEPT !.names = IF @ = <<>> THEN @ ELSE Front(@)]
               [] OTHER -> [ok |-> at.ok /\ ValidName(name) /\ Len(Join(Append(at.names, name))) <= PATH_CAPACITY,
                            names |-> Append(at.names, name)],
           [ok |-> TRUE, names |-> from], names)

\* From every directory the shell can be in, every argument resolves to the
\* walk its names describe: the rewriting in one buffer never joins two names,
\* leaves a `..' behind or climbs above the root, and the longest path still
\* fits.  It rests on current_dir being in normal form itself.
ResolvesByNames ==
  \A input \in Inputs :
    LET rooted == input # <<>> /\ input[1] = "/"
        walk == Walk(IF rooted THEN <<>> ELSE Names(current_dir), Names(input))
    IN  resolve_path(current_dir, input) = IF walk.ok THEN Some(Join(walk.names)) ELSE None

\* The current directory is one of the file system the prompt shows, unless it
\* was removed since: a cd that fails in either file system leaves the shell
\* where it was, and crossing from one to the other takes path and flag along.
CurrentIsDirectory ==
  lost \/ current_dir \in IF current_dir_is_ext2 THEN ext2 ELSE Initrd
=============================================================================

----------------------------- MODULE FileStore -----------------------------
(***************************************************************************)
(* What the data disk promises its users: a tree of directories and files  *)
(* that changes by whole operations.  Nothing is promised any more once an *)
(* operation has reported RecoveryFailed (intact is then FALSE).           *)
(***************************************************************************)
EXTENDS Sequences, SequencesExt

CONSTANTS Paths, Values

VARIABLES files,     \* what each path names
          intact

Absent == [is |-> "absent"]
Dir    == [is |-> "dir"]

\* The directory a path is in; the root always exists.
InDirectory(path) == Len(path) > 1 => files[Front(path)] = Dir

Init == files = [p \in Paths |-> Absent] /\ intact = TRUE

\* The contents of a file are replaced, or the file is created with them.
Write(path) ==
    /\ InDirectory(path) /\ files[path] # Dir
    /\ files'[path].is = "file"
    /\ \E v \in Values : files'[path].contents =
                          [k \in 1..Len(files'[path].contents) |-> <<v, k>>]
    /\ files' = [files EXCEPT ![path] = files'[path]]

MakeDirectory(path) ==
    /\ InDirectory(path) /\ files[path] = Absent
    /\ files' = [files EXCEPT ![path] = Dir]

\* A file, or a directory with nothing in it.
Delete(path) ==
    /\ files[path] # Absent
    /\ \A p \in Paths : (Len(p) > 1 /\ Front(p) = path) => files[p] = Absent
    /\ files' = [files EXCEPT ![path] = Absent]

Next ==
    \/ \E path \in Paths : Write(path) \/ MakeDirectory(path) \/ Delete(path)
    \/ intact' = FALSE

vars == <<files, intact>>

Step == [intact => Next]_vars

Spec == Init /\ [][intact => Next]_vars
=============================================================================

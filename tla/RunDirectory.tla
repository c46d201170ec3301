---------------------------- MODULE RunDirectory ----------------------------
(***************************************************************************)
(* What a directory of run logs promises to whoever reads it: the file of  *)
(* a run holds some of what the run has recorded, always from its first    *)
(* event on, and never less than before.  A process that dies may leave a  *)
(* torn last line, and a file may be deleted.  Which process writes, in    *)
(* how many calls and from which cache is left open.                       *)
(***************************************************************************)
EXTENDS Naturals, Functions

CONSTANTS
  Ids,      \* run ids, which name the files
  Runs      \* the runs, whatever id they have

VARIABLES
  recorded, \* how many events each run has recorded
  files     \* for each file there is: the run it is about (0 while it is
            \* empty), how many of its events, and whether its end is torn

vars == <<recorded, files>>

Empty == [run |-> 0, events |-> 0, torn |-> FALSE]

\* The directory once the file of i says f, whether it was there or not
With(i, f) == [j \in DOMAIN files \cup {i} |-> IF j = i THEN f ELSE files[j]]

Init ==
  /\ recorded = [r \in Runs |-> 0]
  /\ files = <<>>

Record(r) ==
  /\ recorded' = [recorded EXCEPT ![r] = @ + 1]
  /\ UNCHANGED files

Appear(i) ==
  /\ i \notin DOMAIN files
  /\ files' = With(i, Empty)
  /\ UNCHANGED recorded

\* The file of i holds more events of its run than before
Grow(i, r, n) ==
  /\ i \in DOMAIN files => /\ files[i].run \in {0, r}
                           /\ files[i].events <= n
                           /\ ~ files[i].torn
  /\ n \in 1 .. recorded[r]
  /\ files' = With(i, [run |-> r, events |-> n, torn |-> FALSE])
  /\ UNCHANGED recorded

Tear(i) ==
  /\ i \in DOMAIN files
  /\ files' = [files EXCEPT ![i].torn = TRUE]
  /\ UNCHANGED recorded

Vanish(i) ==
  /\ i \in DOMAIN files
  /\ files' = Restrict(files, DOMAIN files \ {i})
  /\ UNCHANGED recorded

Next ==
  \/ \E r \in Runs : Record(r)
  \/ \E i \in Ids : Appear(i) \/ Tear(i) \/ Vanish(i)
  \/ \E i \in Ids, r \in Runs : \E n \in 1 .. recorded[r] : Grow(i, r, n)

Spec == Init /\ [][Next]_vars
=============================================================================

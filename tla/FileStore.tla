------------------------------ MODULE FileStore ------------------------------
(***************************************************************************)
(* What the file system promises: a flat directory of files, each a        *)
(* sequence of bytes.  A write past the end of a file fills the gap with   *)
(* zeros; files never share bytes; a file is never removed.                *)
(***************************************************************************)
EXTENDS Integers, Sequences

CONSTANTS
  Name,
  Data,      \* what one call may write: a set of sequences of bytes
  MaxSize,   \* bound: the greatest offset written at
  NoFile

VARIABLE content     \* [Name -> a sequence of bytes or NoFile]

Init == content = [n \in Name |-> NoFile]

\* old with data laid over it from offset on.
Overlay(old, offset, data) ==
  LET size == IF offset + Len(data) > Len(old) THEN offset + Len(data) ELSE Len(old)
  IN [i \in 1..size |->
        IF i > offset /\ i <= offset + Len(data) THEN data[i - offset]
        ELSE IF i <= Len(old) THEN old[i] ELSE 0]

\* What a file may become in a step: created or truncated it is empty.
Becomes(old, new) ==
  \/ new = <<>>
  \/ /\ old # NoFile
     /\ \E offset \in 0..MaxSize, data \in Data : new = Overlay(old, offset, data)

Next ==
  \E n \in Name :
    /\ \E old \in {content[n]}, new \in {content'[n]} : Becomes(old, new)
    /\ \A m \in Name \ {n} : content'[m] = content[m]

Spec == Init /\ [][Next]_content
====

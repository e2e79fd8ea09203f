------------------------------- MODULE ByteFile -------------------------------
(***************************************************************************)
(* What a volume promises its callers: files are sequences of bytes.  A    *)
(* file is created empty; a write puts its data at its offset, lengthens   *)
(* the file when it ends behind the end, and touches no other byte of this *)
(* file and no other file; a removed file is gone.  The bytes between the  *)
(* old end and the offset of a write behind it are not promised: the       *)
(* driver leaves there what the blocks held before.                        *)
(***************************************************************************)
EXTENDS Integers, Sequences

CONSTANTS
  Name,    \* the files there can be
  Byte,
  MaxLen,  \* bound: bytes of a file
  Data     \* bound: what one write writes

VARIABLE file   \* file[f]: the bytes of file f, for the files that exist

\* What a write makes of the bytes `old` of its file: the new length, the data
\* in place, and the old bytes where there were any.
Written(old, off, data, new) ==
  LET end == off + Len(data)
  IN /\ Len(new) = IF Len(old) < end THEN end ELSE Len(old)
     /\ \A i \in 1..Len(new) :
          IF i \in (off + 1)..end THEN new[i] = data[i - off]
          ELSE new[i] \in (IF i <= Len(old) THEN {old[i]} ELSE Byte)

Init == file = <<>>

Create(f) ==
  /\ f \notin DOMAIN file
  /\ file' = [g \in DOMAIN file \cup {f} |-> IF g = f THEN <<>> ELSE file[g]]

Write(f, off, data) ==
  /\ f \in DOMAIN file
  /\ file' = [file EXCEPT ![f] = file'[f]]
  /\ Written(file[f], off, data, file'[f])

Remove(f) ==
  /\ f \in DOMAIN file
  /\ file' = [g \in DOMAIN file \ {f} |-> file[g]]

Next ==
  \E f \in Name :
    \/ Create(f)
    \/ Remove(f)
    \/ \E off \in 0..(MaxLen - 1), data \in Data : Write(f, off, data)

Spec == Init /\ [][Next]_file

\* The bytes a read of n bytes at off answers of a file: those there are.
Answer(bytes, off, n) ==
  SubSeq(bytes, off + 1, IF off + n <= Len(bytes) THEN off + n ELSE Len(bytes))
=============================================================================

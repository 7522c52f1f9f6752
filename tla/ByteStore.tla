----------------------------- MODULE ByteStore -----------------------------
(***************************************************************************)
(* What kernel/fs.c and mkfs/mkfs.c promise about contents: a file is a    *)
(* sequence of bytes.  A piece of a write() replaces a run of bytes, which *)
(* may extend the file, by the writer's; a write() that failed may leave   *)
(* them undefined.  All files become durable together.                     *)
(***************************************************************************)
EXTENDS Integers, Sequences, FiniteSets, FiniteSetsExt

CONSTANTS Ino, Writer,
          MaxPiece    \* longest run written at once

VARIABLES bytes,      \* of each file
          saved       \* what a crash brings back

bvars == <<bytes, saved>>

Init == saved = bytes

\* File i alone changes: it is truncated, or a run of at most MaxPiece of its
\* bytes becomes some w's.
Change(i) ==
  LET old == bytes[i]
      new == bytes'[i]
      changed == {j \in DOMAIN new : j > Len(old) \/ new[j] # old[j]}
      run == Min(changed) .. Max(changed)
  IN
  /\ new # old
  /\ \/ new = <<>>
     \/ /\ Len(new) >= Len(old) /\ Cardinality(run) <= MaxPiece
        /\ \E w \in Writer : \A j \in run : new[j] = w
  /\ \A k \in Ino \ {i} : bytes'[k] = bytes[k]
  /\ UNCHANGED saved

Commit == saved' = bytes /\ UNCHANGED bytes
Crash == bytes' = saved /\ UNCHANGED saved

Next == (\E i \in Ino : Change(i)) \/ Commit \/ Crash

Spec == Init /\ [][Next]_bvars
=============================================================================

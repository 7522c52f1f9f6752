----------------------------- MODULE AtomicDisk -----------------------------
(***************************************************************************)
(* What kernel/log.c promises the file system above it: a disk whose       *)
(* contents after a crash are those of some earlier moment at which no     *)
(* system call was between begin_op() and end_op().  A system call's       *)
(* updates therefore survive together or not at all.                       *)
(***************************************************************************)
CONSTANTS Op,      \* threads executing file-system calls
          Block,   \* disk blocks
          Val      \* block contents

VARIABLES current,  \* what bread() of each block returns
          durable,  \* what it would return after a crash and recovery
          active    \* threads inside begin_op() ... end_op()

avars == <<current, durable, active>>

Init ==
  /\ current \in [Block -> Val]
  /\ durable = current
  /\ active = {}

Begin(o) ==
  /\ o \notin active
  /\ active' = active \cup {o}
  /\ UNCHANGED <<current, durable>>

Write(o, b, v) ==
  /\ o \in active
  /\ current' = [current EXCEPT ![b] = v]
  /\ UNCHANGED <<durable, active>>

End(o) ==
  /\ o \in active
  /\ active' = active \ {o}
  /\ UNCHANGED <<current, durable>>

\* Every update so far becomes durable at once.
Commit ==
  /\ active = {}
  /\ durable' = current
  /\ UNCHANGED <<current, active>>

Crash ==
  /\ current' = durable
  /\ active' = {}
  /\ UNCHANGED durable

Next ==
  \/ \E o \in Op : Begin(o) \/ End(o)
  \/ \E o \in Op, b \in Block, v \in Val : Write(o, b, v)
  \/ Commit
  \/ Crash

Spec == Init /\ [][Next]_avars
=============================================================================

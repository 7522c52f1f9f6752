------------------------------- MODULE Locks -------------------------------
(***************************************************************************)
(* The kernel's two kinds of lock: spinlocks, with interrupts on top, and  *)
(* sleep locks, in their main use, the buffer cache.  A sleep lock's own   *)
(* spinlock is one step in BufCache, by what is shown of Spinlock; a       *)
(* behaviour is about locks of one kind.                                   *)
(***************************************************************************)
EXTENDS Spinlock, BufCache

VARIABLE kind

lockvars == <<vars, bufvars, kind>>

LocksInit ==
  /\ kind \in {"struct spinlock", "struct sleeplock"}
  /\ Init /\ BufInit
  /\ kind = "struct sleeplock" => arg \in [Thread -> {CHOOSE l \in Lock : TRUE}]

LocksNext ==
  \/ kind = "struct spinlock" /\ Next /\ UNCHANGED <<bufvars, kind>>
  \/ kind = "struct sleeplock" /\ BufNext /\ UNCHANGED <<vars, kind>>

LocksSpec == LocksInit /\ [][LocksNext]_lockvars
=============================================================================

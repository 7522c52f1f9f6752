----------------------------- MODULE BlockStore -----------------------------
(***************************************************************************)
(* What the buffer cache promises: blocks with exclusive access, each      *)
(* holding what was last written to it.                                    *)
(***************************************************************************)
CONSTANTS Process, NoProc, Block, Value, InitialValue

VARIABLES content, owner

Init ==
  /\ content = [k \in Block |-> InitialValue]
  /\ owner = [k \in Block |-> NoProc]

Obtain(p, k) ==
  /\ owner[k] = NoProc
  /\ owner' = [owner EXCEPT ![k] = p]
  /\ UNCHANGED content

Change(p, k) ==
  /\ owner[k] = p
  /\ \E v \in Value : content' = [content EXCEPT ![k] = v]
  /\ UNCHANGED owner

GiveUp(p, k) ==
  /\ owner[k] = p
  /\ owner' = [owner EXCEPT ![k] = NoProc]
  /\ UNCHANGED content

Next ==
  \E p \in Process, k \in Block : Obtain(p, k) \/ Change(p, k) \/ GiveUp(p, k)

Spec == Init /\ [][Next]_<<content, owner>>
=============================================================================

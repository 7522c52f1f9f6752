------------------------------ MODULE CowProof ------------------------------
(***************************************************************************)
(* Proofs about CowMemory for any number of processes, pages and sizes: a  *)
(* reference count is never below the number of references, so nothing is  *)
(* used after it was freed.  First the types and which thread works on     *)
(* which address space, then which pages each table maps, then the counts. *)
(***************************************************************************)
EXTENDS CowMemory, FiniteSetTheorems, TLAPS

AllocOK ==
  /\ free \subseteq Page
  /\ refcnt \in [Page -> Nat]
  /\ mem \in [Page -> Val \cup {Junk}]
  /\ panicked \in BOOLEAN

SpaceOK ==
  /\ pt \in [Proc -> [Addr -> Pte]]
  /\ tbl \in [Proc -> SUBSET Page]
  /\ sz \in [Proc -> 0 .. MaxSz]

Label == {"dead", "embryo", "user", "cow", "cowfree", "out", "copy", "map", "growmap",
          "dealloc", "unmap"}

ThreadOK ==
  /\ pc \in [Proc -> Label]
  /\ va \in [Proc -> 1 .. MaxSz + 1]
  /\ lo \in [Proc -> 0 .. MaxSz]
  /\ hi \in [Proc -> 0 .. MaxSz]
  /\ tgt \in [Proc -> Proc]
  /\ pg \in [Proc -> Page \cup {None}]
  /\ kf \in [Proc -> Page \cup {None}]
  /\ want \in [Proc -> Val \cup {None}]

\* A thread works on its own pages, or on those of the child it forks, which
\* nobody else works on.
TgtInv ==
  \A p \in Proc :
    /\ tgt[p] # p => pc[p] \in {"copy", "map", "unmap"} /\ pc[tgt[p]] = "embryo"
    /\ pc[p] \in {"copy", "map"} => tgt[p] # p
    /\ \A r \in Proc : tgt[p] # p /\ tgt[r] = tgt[p] => r \in {p, tgt[p]}

\* When a thread holds a page in a local variable.
PgInv ==
  \A p \in Proc :
    /\ pc[p] \in {"dead", "embryo", "user", "out", "copy", "map"} => pg[p] = None
    /\ pc[p] \in {"cow", "cowfree"} => pg[p] # None
    /\ pc[p] \in {"dead", "embryo"} => kf[p] = None
    /\ pc[p] = "out" => want[p] # None
    /\ pc[p] \in {"unmap", "dealloc", "growmap"} /\ pg[p] # None => va[p] <= hi[p]

\* Which pages are mapped.
Shape(p) ==
  /\ \A a \in Addr : pt[p][a].pa = None => pt[p][a] = NoPte
  /\ pc[p] = "dead" => (\A a \in Addr : pt[p][a].pa = None) /\ tbl[p] = {}
  /\ \/ pc[p] \in {"user", "cow", "cowfree", "out", "copy", "map"}
     \/ pc[p] = "unmap" /\ tgt[p] # p
     => \A a \in Addr : pt[p][a].pa # None <=> a <= sz[p]
  /\ pc[p] \in {"cow", "cowfree", "out", "map"} => va[p] <= sz[p]
  /\ pc[p] \in {"copy", "map"} =>
       /\ va[p] <= sz[p] + 1
       /\ \A a \in Addr : pt[tgt[p]][a].pa # None <=> a < va[p]
  /\ pc[p] = "growmap" =>
       /\ \A a \in Addr : pt[p][a].pa # None <=> a < va[p]
       /\ lo[p] = sz[p] /\ lo[p] < va[p] /\ va[p] <= hi[p] + 1
  /\ pc[p] = "dealloc" =>
       /\ \A a \in Addr : pt[p][a].pa # None <=> a <= lo[p] \/ (va[p] <= a /\ a <= hi[p])
       /\ lo[p] < va[p] /\ va[p] <= hi[p] + 1
  /\ pc[p] = "unmap" =>
       /\ \A a \in Addr : pt[tgt[p]][a].pa # None <=> va[p] <= a /\ a <= hi[p]
       /\ va[p] <= hi[p] + 1

-----------------------------------------------------------------------------
(* Types *)

\* The parts of the type invariant.
LEMMA Pieces == TypeOK <=> AllocOK /\ SpaceOK /\ ThreadOK
  BY Zenon DEF TypeOK, AllocOK, SpaceOK, ThreadOK, Label

\* The bounds are numbers.
LEMMA Bounds == /\ MaxSz \in Nat /\ InitSz \in 1 .. MaxSz /\ Addr \subseteq Nat
                /\ IsFiniteSet(Proc) /\ InitProc \in Proc
                /\ Zero \in Val /\ None \notin Page
<1>1. MaxSz \in Nat /\ InitSz \in 1 .. MaxSz /\ IsFiniteSet(Proc) /\ InitProc \in Proc
  BY CowAssumption, Zenon
<1>2. Addr \subseteq Nat
  BY <1>1 DEF Addr
<1> QED
  BY <1>1, <1>2, CowAssumption, Zenon

\* The pages of an address space are sites, and so is what has no address.
LEMMA AddrSites == Addr \subseteq 0 .. MaxSz /\ 0 \in 0 .. MaxSz
  BY Bounds DEF Addr

\* A range is either finished or not.
LEMMA PastEnd ==
  ASSUME NEW m \in Int, NEW n \in Int, m > n
  PROVE  ~(m <= n)
  OBVIOUS

\* Page numbers are numbers, from 1 on.
LEMMA AddrOrder ==
  ASSUME NEW a \in Addr
  PROVE  /\ a \in Int /\ 1 <= a /\ ~(a < 1)
         /\ \A m \in Int :
              /\ a < m + 1 <=> a <= m
              /\ a < m + 1 <=> a < m \/ a = m
              /\ a < m <=> 1 <= a /\ a <= m - 1
              /\ m + 1 <= a <=> m <= a /\ a # m
         /\ \A m, n \in Int :
              /\ n < m => (a <= m <=> a <= n \/ (n + 1 <= a /\ a <= m))
              /\ n < m => (a < m <=> a <= n \/ (n + 1 <= a /\ a <= m - 1))
              /\ m > n => ~(m <= a /\ a <= n)
              /\ m > n /\ m <= n + 1 => (a < m <=> a <= n)
<1>1. a \in Int /\ 1 <= a
  BY Bounds DEF Addr
<1> HIDE DEF Addr
<1>2. ASSUME NEW b \in Int, 1 <= b, NEW m \in Int, NEW n \in Int
      PROVE  /\ ~(b < 1)
             /\ b < m + 1 <=> b <= m
             /\ b < m + 1 <=> b < m \/ b = m
             /\ b < m <=> 1 <= b /\ b <= m - 1
             /\ m + 1 <= b <=> m <= b /\ b # m
             /\ n < m => (b <= m <=> b <= n \/ (n + 1 <= b /\ b <= m))
             /\ n < m => (b < m <=> b <= n \/ (n + 1 <= b /\ b <= m - 1))
             /\ m > n => ~(m <= b /\ b <= n)
             /\ m > n /\ m <= n + 1 => (b < m <=> b <= n)
  BY <1>2
<1> QED
  BY <1>1, <1>2, Zenon

\* The allocator keeps its types.
LEMMA AllocatorType ==
  ASSUME AllocOK, NEW x, NEW p,
         Kalloc(x) \/ Kfree(p, x) \/ Increse(x) \/ UNCHANGED allocator
  PROVE  free' \subseteq Page /\ refcnt' \in [Page -> Nat] /\ panicked' \in BOOLEAN
<1>0. free \subseteq Page /\ refcnt \in [Page -> Nat] /\ panicked \in BOOLEAN
  BY Zenon DEF AllocOK
<1>1. CASE Kalloc(x)
  BY <1>0, <1>1, Zenon DEF Kalloc
<1>2. CASE Kfree(p, x)
  <2>1. refcnt' \in [Page -> Nat]
    <3>1. CASE x \in Page
      <4>1. (IF refcnt[x] < 1 THEN refcnt[x] ELSE refcnt[x] - 1) \in Nat
        BY <1>0, <3>1
      <4> QED
        BY <1>0, <1>2, <4>1, Zenon DEF Kfree
    <3>2. CASE x \notin Page
      BY <1>0, <1>2, <3>2, Zenon DEF Kfree
    <3> QED
      BY <3>1, <3>2, Zenon
  <2>2. panicked' \in BOOLEAN /\ free' = free
    BY <1>0, <1>2, Zenon DEF Kfree
  <2> QED
    BY <1>0, <2>1, <2>2, Zenon
<1>3. CASE Increse(x)
  <2>1. refcnt' \in [Page -> Nat]
    <3>1. CASE x \in Page
      <4>1. refcnt[x] + 1 \in Nat
        BY <1>0, <3>1
      <4> QED
        BY <1>0, <1>3, <4>1, Zenon DEF Increse
    <3>2. CASE x \notin Page
      BY <1>0, <1>3, <3>2, Zenon DEF Increse
    <3> QED
      BY <3>1, <3>2, Zenon
  <2>2. panicked' \in BOOLEAN /\ free' = free
    BY <1>0, <1>3, Zenon DEF Increse
  <2> QED
    BY <1>0, <2>1, <2>2, Zenon
<1>4. CASE UNCHANGED allocator
  BY <1>0, <1>4, Zenon DEF allocator
<1> QED
  BY <1>1, <1>2, <1>3, <1>4, Zenon

\* A page that is mapped is a page.
LEMMA MappedPage ==
  ASSUME SpaceOK, NEW q \in Proc, NEW a \in Addr
  PROVE  /\ pt[q][a] \in Pte /\ pt[q][a].pa \in Page \cup {None}
         /\ pt[q][a] = [pa |-> pt[q][a].pa, w |-> pt[q][a].w]
         /\ pt[q][a].w \in BOOLEAN
<1>1. pt[q] \in [Addr -> Pte]
  BY Zenon DEF SpaceOK
<1>2. pt[q][a] \in Pte
  BY <1>1, Zenon
<1> QED
  BY <1>2, Zenon DEF Pte

\* The pages cowfault(), copyout() and uvmcopy() work on.
LEMMA WorkPage ==
  ASSUME TypeOK, NEW p \in Proc, Shape(p), pc[p] \in {"cow", "cowfree", "out", "map"}
  PROVE  va[p] \in Addr /\ pt[p][va[p]].pa \in Page
<1>0. SpaceOK /\ ThreadOK
  BY Pieces, Zenon
<1>1. va[p] \in 1 .. MaxSz + 1 /\ sz[p] \in 0 .. MaxSz /\ va[p] <= sz[p]
  BY <1>0, Zenon DEF ThreadOK, SpaceOK, Shape
<1>2. va[p] \in Addr
  BY <1>1, Bounds DEF Addr
<1>3. pt[p][va[p]].pa # None
  BY <1>1, <1>2, Zenon DEF Shape
<1> QED
  BY <1>0, <1>2, <1>3, MappedPage, Zenon

\* The allocator and the pages keep their types.
LEMMA NextAlloc ==
  ASSUME TypeOK, PgInv, NEW p \in Proc, Shape(p), UserStep(p) \/ KernelStep(p)
  PROVE  AllocOK'
<1>0. AllocOK /\ SpaceOK /\ ThreadOK
  BY Pieces, Zenon
<1>m. mem \in [Page -> Val \cup {Junk}]
  BY <1>0, Zenon DEF AllocOK
<1>a. ASSUME NEW x, Kalloc(x) \/ Kfree(p, x) \/ Increse(x) \/ UNCHANGED allocator,
             mem' \in [Page -> Val \cup {Junk}]
      PROVE  AllocOK'
  BY <1>0, <1>a, AllocatorType, Zenon DEF AllocOK
<1>1. ASSUME NEW a, NEW v \in Val, Store(p, a, v) PROVE AllocOK'
  <2>1. mem' \in [Page -> Val \cup {Junk}] /\ UNCHANGED allocator
    BY <1>1, <1>m, Zenon DEF Store
  <2> QED
    BY <1>a, <2>1, Zenon
<1>2. ASSUME NEW a, NEW v, Copyout(p, a, v) PROVE AllocOK'
  <2>1. PICK x : Kalloc(x)
    BY <1>2, Zenon DEF Copyout, Cowfault
  <2>2. mem' = mem
    BY <1>2, Zenon DEF Copyout
  <2> QED
    BY <1>a, <1>m, <2>1, <2>2, Zenon
<1>3. ASSUME NEW a, StoreFault(p, a) PROVE AllocOK'
  <2>1. PICK x : Kalloc(x) \/ UNCHANGED allocator
    BY <1>3, Zenon DEF StoreFault, Cowfault
  <2>2. mem' = mem
    BY <1>3, Zenon DEF StoreFault
  <2> QED
    BY <1>a, <1>m, <2>1, <2>2, Zenon
<1>4. ASSUME NEW q, Fork(p, q) PROVE AllocOK'
  <2>1. PICK x : Kalloc(x)
    BY <1>4, Zenon DEF Fork, ProcPagetable
  <2>2. mem' = mem
    BY <1>4, Zenon DEF Fork
  <2> QED
    BY <1>a, <1>m, <2>1, <2>2, Zenon
<1>5. ASSUME NEW n, Exit(p) \/ Sbrk(p, n) \/ Shrink(p, n) PROVE AllocOK'
  <2>1. UNCHANGED allocator /\ mem' = mem
    BY <1>5, Zenon DEF Exit, Sbrk, Shrink
  <2> QED
    BY <1>a, <1>m, <2>1, Zenon
<1>6. CASE KfreePush(p)
  <2>1. kf[p] \in Page
    BY <1>0, <1>6, Zenon DEF KfreePush, ThreadOK
  <2>2. mem' \in [Page -> Val \cup {Junk}]
    BY <1>m, <1>6, Zenon DEF KfreePush
  <2> QED
    BY <1>0, <1>6, <2>1, <2>2, Zenon DEF KfreePush, AllocOK
<1>7. CASE CowCopy(p)
  <2>1. pt[p][va[p]].pa \in Page
    BY <1>7, WorkPage, Zenon DEF CowCopy, At
  <2>2. mem[pt[p][va[p]].pa] \in Val \cup {Junk}
    BY <1>m, <2>1, Zenon
  <2>3. UNCHANGED allocator /\ mem' = [mem EXCEPT ![pg[p]] = mem[pt[p][va[p]].pa]]
    BY <1>7, Zenon DEF CowCopy
  <2>4. mem' \in [Page -> Val \cup {Junk}]
    BY <1>m, <2>2, <2>3, Zenon
  <2> QED
    BY <1>a, <2>3, <2>4, Zenon
<1>8. CASE CopyoutWrite(p)
  <2>1. want[p] \in Val
    BY <1>0, <1>8, Zenon DEF CopyoutWrite, At, PgInv, ThreadOK
  <2>2. UNCHANGED allocator /\ mem' \in [Page -> Val \cup {Junk}]
    BY <1>m, <1>8, <2>1, Zenon DEF CopyoutWrite
  <2> QED
    BY <1>a, <2>2, Zenon
<1>9. CASE CowFree(p) \/ Unmap(p)
  <2>1. PICK x : Kfree(p, x)
    BY <1>9, Zenon DEF CowFree, Unmap
  <2>2. mem' = mem
    BY <1>9, Zenon DEF CowFree, Unmap
  <2> QED
    BY <1>a, <1>m, <2>1, <2>2, Zenon
<1>10. CASE CopyPage(p)
  <2>1. PICK x : Increse(x)
    BY <1>10, Zenon DEF CopyPage
  <2>2. mem' = mem
    BY <1>10, Zenon DEF CopyPage
  <2> QED
    BY <1>a, <1>m, <2>1, <2>2, Zenon
<1>11. CASE MapPage(p) \/ GrowMap(p)
  <2>1. PICK x : Kalloc(x) \/ UNCHANGED allocator
    BY <1>11, Zenon DEF MapPage, GrowMap, Mappages, Walk
  <2>2. mem' = mem
    BY <1>11, Zenon DEF MapPage, GrowMap
  <2> QED
    BY <1>a, <1>m, <2>1, <2>2, Zenon
<1>12. CASE FreeTable(p)
  <2>1. PICK x : Kfree(p, x)
    BY <1>12, Zenon DEF FreeTable
  <2>2. mem' = mem
    BY <1>12, Zenon DEF FreeTable
  <2> QED
    BY <1>a, <1>m, <2>1, <2>2, Zenon
<1>13. CASE GrowAlloc(p)
  <2>1. PICK x : Kalloc(x) /\ mem' = [mem EXCEPT ![x] = Zero]
    BY <1>13, Zenon DEF GrowAlloc
  <2>2. mem' \in [Page -> Val \cup {Junk}]
    BY <1>m, <2>1, Bounds, Zenon
  <2> QED
    BY <1>a, <2>1, <2>2, Zenon
<1>14. CASE GrowFails(p)
  <2>1. PICK x : Kfree(p, x) \/ UNCHANGED allocator
    BY <1>14, Zenon DEF GrowFails
  <2>2. mem' = mem
    BY <1>14, Zenon DEF GrowFails
  <2> QED
    BY <1>a, <1>m, <2>1, <2>2, Zenon
<1>15. CASE MapFails(p) \/ ForkDone(p) \/ ClearPte(p) \/ FreeDone(p) \/ GrowDone(p)
            \/ DeallocDone(p)
  <2>1. UNCHANGED allocator /\ mem' = mem
    BY <1>15, Zenon DEF MapFails, ForkDone, ClearPte, FreeDone, GrowDone, DeallocDone
  <2> QED
    BY <1>a, <1>m, <2>1, Zenon
<1> QED
  BY <1>1, <1>2, <1>3, <1>4, <1>5, <1>6, <1>7, <1>8, <1>9, <1>10, <1>11, <1>12, <1>13,
     <1>14, <1>15, Zenon DEF UserStep, KernelStep

\* Address spaces keep their types.
LEMMA NextSpace ==
  ASSUME TypeOK, PgInv, NEW p \in Proc, Shape(p), UserStep(p) \/ KernelStep(p)
  PROVE  SpaceOK'
<1>0. AllocOK /\ SpaceOK /\ ThreadOK
  BY Pieces, Zenon
<1>p. pt \in [Proc -> [Addr -> Pte]]
  BY <1>0, Zenon DEF SpaceOK
<1>t. tbl \in [Proc -> SUBSET Page] /\ sz \in [Proc -> 0 .. MaxSz]
  BY <1>0, Zenon DEF SpaceOK
<1>f. free \subseteq Page /\ 0 \in 0 .. MaxSz
  BY <1>0, Bounds DEF AllocOK
<1>n. NoPte \in Pte
  BY Zenon DEF NoPte, Pte
<1>e. ASSUME NEW q \in Proc, NEW a \in Addr, NEW x \in Pte,
             pt' = [pt EXCEPT ![q][a] = x]
      PROVE  pt' \in [Proc -> [Addr -> Pte]]
  BY <1>p, <1>e, Zenon
<1>1. ASSUME UNCHANGED <<pt, tbl, sz>> PROVE SpaceOK'
  BY <1>0, <1>1, Zenon DEF SpaceOK
<1>2. ASSUME NEW a, NEW v,
             Store(p, a, v) \/ Copyout(p, a, v) \/ StoreFault(p, a) \/ Exit(p)
             \/ Sbrk(p, v) \/ Shrink(p, v)
      PROVE  SpaceOK'
  BY <1>1, <1>2, Zenon DEF Store, Copyout, StoreFault, Exit, Sbrk, Shrink
<1>3. ASSUME NEW q \in Proc, Fork(p, q) PROVE SpaceOK'
  <2>1. PICK x \in Page : tbl' = [tbl EXCEPT ![q] = {x}]
    BY <1>3, <1>f, Zenon DEF Fork, ProcPagetable
  <2>2. UNCHANGED <<pt, sz>>
    BY <1>3, Zenon DEF Fork
  <2> QED
    BY <1>p, <1>t, <2>1, <2>2, Zenon DEF SpaceOK
<1>4. CASE KfreePush(p) \/ CowFree(p) \/ CopyoutWrite(p) \/ MapFails(p) \/ Unmap(p)
           \/ GrowAlloc(p) \/ GrowFails(p)
  BY <1>1, <1>4, Zenon DEF KfreePush, CowFree, CopyoutWrite, MapFails, Unmap, GrowAlloc, GrowFails
<1>5. CASE CowCopy(p)
  <2>1. va[p] \in Addr
    BY <1>5, WorkPage, Zenon DEF CowCopy, At
  <2>2. [pa |-> pg[p], w |-> TRUE] \in Pte
    BY <1>0, Zenon DEF ThreadOK, Pte
  <2>3. pt' = [pt EXCEPT ![p][va[p]] = [pa |-> pg[p], w |-> TRUE]] /\ UNCHANGED <<tbl, sz>>
    BY <1>5, Zenon DEF CowCopy
  <2>4. pt' \in [Proc -> [Addr -> Pte]]
    BY <1>e, <2>1, <2>2, <2>3, Zenon
  <2> QED
    BY <1>t, <2>3, <2>4, Zenon DEF SpaceOK
<1>6. CASE CopyPage(p)
  <2>0. va[p] \in Addr
    <3>1. va[p] \in 1 .. MaxSz + 1 /\ sz[p] \in 0 .. MaxSz /\ va[p] <= sz[p]
      BY <1>0, <1>6, Zenon DEF CopyPage, ThreadOK, SpaceOK
    <3> QED
      BY <3>1, Bounds DEF Addr
  <2>1. pt' = [pt EXCEPT ![p][va[p]].w = FALSE] /\ UNCHANGED <<tbl, sz>>
    BY <1>6, Zenon DEF CopyPage
  <2>2. PICK x \in Pte : x = [pt[p][va[p]] EXCEPT !.w = FALSE]
    <3>1. pt[p][va[p]] \in Pte
      BY <1>0, <2>0, MappedPage, Zenon
    <3> QED
      BY <3>1, Zenon DEF Pte
  <2>3. pt' = [pt EXCEPT ![p][va[p]] = x]
    BY <2>1, <2>2, Zenon
  <2>4. pt' \in [Proc -> [Addr -> Pte]]
    BY <1>e, <2>0, <2>3, Zenon
  <2> QED
    BY <1>t, <2>1, <2>4, Zenon DEF SpaceOK
<1>7. ASSUME NEW q \in Proc, NEW a \in Addr, NEW x \in Pte, Mappages(q, a, x), sz' = sz
      PROVE  SpaceOK'
  <2>1. pt' \in [Proc -> [Addr -> Pte]]
    BY <1>7, <1>e, Zenon DEF Mappages
  <2>2. tbl' \in [Proc -> SUBSET Page]
    <3>1. tbl' = tbl \/ \E y \in free : tbl' = [tbl EXCEPT ![q] = @ \cup {y}]
      BY <1>7, Zenon DEF Mappages, Walk
    <3> QED
      BY <1>f, <1>t, <3>1, Zenon
  <2> QED
    BY <1>7, <1>t, <2>1, <2>2, Zenon DEF SpaceOK
<1>8. CASE MapPage(p)
  <2>1. va[p] \in Addr
    BY <1>8, WorkPage, Zenon DEF MapPage, At
  <2>2. pt[p][va[p]] \in Pte
    BY <1>0, <2>1, MappedPage, Zenon
  <2>3. Mappages(tgt[p], va[p], pt[p][va[p]]) /\ sz' = sz
    BY <1>8, Zenon DEF MapPage
  <2>4. tgt[p] \in Proc
    BY <1>0, Zenon DEF ThreadOK
  <2> QED
    BY <1>7, <2>1, <2>2, <2>3, <2>4, Zenon
<1>9. CASE GrowMap(p)
  <2>1. va[p] \in Addr
    <3>1. va[p] <= hi[p]
      BY <1>9, Zenon DEF GrowMap, At, PgInv
    <3>2. va[p] \in 1 .. MaxSz + 1 /\ hi[p] \in 0 .. MaxSz
      BY <1>0, Zenon DEF ThreadOK
    <3> QED
      BY <3>1, <3>2, Bounds DEF Addr
  <2>2. [pa |-> pg[p], w |-> TRUE] \in Pte
    BY <1>0, Zenon DEF ThreadOK, Pte
  <2>3. Mappages(p, va[p], [pa |-> pg[p], w |-> TRUE]) /\ sz' = sz
    BY <1>9, Zenon DEF GrowMap
  <2> QED
    BY <1>7, <2>1, <2>2, <2>3, Zenon
<1>10. CASE ForkDone(p) \/ FreeDone(p) \/ GrowDone(p) \/ DeallocDone(p)
  <2>1. UNCHANGED <<pt, tbl>>
    BY <1>10, Zenon DEF ForkDone, FreeDone, GrowDone, DeallocDone
  <2>2. sz' \in [Proc -> 0 .. MaxSz]
    BY <1>0, <1>t, <1>f, <1>10, Zenon DEF ForkDone, FreeDone, GrowDone, DeallocDone, ThreadOK
  <2> QED
    BY <1>p, <1>t, <2>1, <2>2, Zenon DEF SpaceOK
<1>11. CASE ClearPte(p)
  <2>1. pt' = [pt EXCEPT ![tgt[p]][va[p]] = NoPte] /\ UNCHANGED <<tbl, sz>>
    BY <1>11, Zenon DEF ClearPte
  <2>2. va[p] \in Addr
    <3>1. va[p] <= hi[p]
      BY <1>11, Zenon DEF ClearPte, At, PgInv
    <3>2. va[p] \in 1 .. MaxSz + 1 /\ hi[p] \in 0 .. MaxSz
      BY <1>0, Zenon DEF ThreadOK
    <3> QED
      BY <3>1, <3>2, Bounds DEF Addr
  <2>3. tgt[p] \in Proc
    BY <1>0, Zenon DEF ThreadOK
  <2>4. pt' \in [Proc -> [Addr -> Pte]]
    BY <1>e, <1>n, <2>1, <2>2, <2>3, Zenon
  <2> QED
    BY <1>t, <2>1, <2>4, Zenon DEF SpaceOK
<1>12. CASE FreeTable(p)
  <2>1. UNCHANGED <<pt, sz>>
    BY <1>12, Zenon DEF FreeTable
  <2>2. \E x : tbl' = [tbl EXCEPT ![tgt[p]] = @ \ {x}]
    BY <1>12, Zenon DEF FreeTable
  <2>3. tbl' \in [Proc -> SUBSET Page]
    BY <1>t, <2>2, Zenon
  <2> QED
    BY <1>p, <1>t, <2>1, <2>3, Zenon DEF SpaceOK
<1> QED
  BY <1>2, <1>3, <1>4, <1>5, <1>6, <1>8, <1>9, <1>10, <1>11, <1>12, Zenon DEF UserStep, KernelStep

\* Numbers of pages a thread works with.
LEMMA Locals ==
  ASSUME TypeOK, NEW p \in Proc
  PROVE  /\ va[p] \in 1 .. MaxSz + 1 /\ lo[p] \in 0 .. MaxSz /\ hi[p] \in 0 .. MaxSz
         /\ sz[p] \in 0 .. MaxSz /\ va[p] \in Int /\ lo[p] \in Int /\ hi[p] \in Int
         /\ sz[p] \in Int /\ tgt[p] \in Proc
<1>1. /\ va[p] \in 1 .. MaxSz + 1 /\ lo[p] \in 0 .. MaxSz /\ hi[p] \in 0 .. MaxSz
      /\ sz[p] \in 0 .. MaxSz /\ tgt[p] \in Proc
  BY Pieces, Zenon DEF ThreadOK, SpaceOK
<1> QED
  BY <1>1, Bounds

\* The page after a process's last one, and the last one a copy has mapped.
LEMMA Positive ==
  ASSUME TypeOK, NEW p \in Proc
  PROVE  1 <= sz[p] + 1 /\ 1 <= va[p] - 1 + 1
<1>1. ASSUME NEW m \in Nat, NEW s \in 0 .. m, NEW v \in 1 .. m + 1
      PROVE  1 <= s + 1 /\ 1 <= v - 1 + 1
  OBVIOUS
<1>2. MaxSz \in Nat /\ sz[p] \in 0 .. MaxSz /\ va[p] \in 1 .. MaxSz + 1
  BY Locals, Bounds, Zenon
<1> QED
  BY <1>1, <1>2, Zenon

\* The position in an address space, and the range to unmap, keep their types.
LEMMA NextRange ==
  ASSUME TypeOK, PgInv, NEW p \in Proc, Shape(p), UserStep(p) \/ KernelStep(p)
  PROVE  /\ va' \in [Proc -> 1 .. MaxSz + 1]
         /\ lo' \in [Proc -> 0 .. MaxSz] /\ hi' \in [Proc -> 0 .. MaxSz]
<1>0. /\ va \in [Proc -> 1 .. MaxSz + 1]
      /\ lo \in [Proc -> 0 .. MaxSz] /\ hi \in [Proc -> 0 .. MaxSz]
  BY Pieces, Zenon DEF ThreadOK
<1>i. /\ va[p] \in 1 .. MaxSz + 1 /\ lo[p] \in 0 .. MaxSz /\ hi[p] \in 0 .. MaxSz
      /\ sz[p] \in 0 .. MaxSz
  BY Locals, Zenon
<1>m. MaxSz \in Nat /\ 1 \in 1 .. MaxSz + 1 /\ 0 \in 0 .. MaxSz
  BY Bounds
<1>v. ASSUME NEW x \in 1 .. MaxSz + 1, va' = Set(va, p, x) PROVE va' \in [Proc -> 1 .. MaxSz + 1]
  BY <1>0, <1>v, Zenon DEF Set
<1>l. ASSUME NEW x \in 0 .. MaxSz, lo' = Set(lo, p, x) PROVE lo' \in [Proc -> 0 .. MaxSz]
  BY <1>0, <1>l, Zenon DEF Set
<1>h. ASSUME NEW x \in 0 .. MaxSz, hi' = Set(hi, p, x) PROVE hi' \in [Proc -> 0 .. MaxSz]
  BY <1>0, <1>h, Zenon DEF Set
<1>1. ASSUME NEW a, NEW v, Store(p, a, v) PROVE UNCHANGED <<va, lo, hi>>
  BY <1>1, Zenon DEF Store, locals
<1>2. ASSUME NEW a \in Addr, NEW v, Copyout(p, a, v)
      PROVE  va' = Set(va, p, a) /\ UNCHANGED <<lo, hi>>
  BY <1>2, Zenon DEF Copyout, Cowfault
<1>a. ASSUME NEW a \in Addr PROVE a \in 1 .. MaxSz + 1
  BY <1>m DEF Addr
<1>3. ASSUME Exits(p)
      PROVE  va' = Set(va, p, 1) /\ lo' = Set(lo, p, 0) /\ hi' = Set(hi, p, sz[p])
  BY <1>3, Zenon DEF Exits
<1>4. ASSUME NEW a \in Addr, StoreFault(p, a)
      PROVE  Exits(p) \/ (va' = Set(va, p, a) /\ UNCHANGED <<lo, hi>>)
  BY <1>4, Zenon DEF StoreFault, Cowfault
<1>5. ASSUME NEW q, Fork(p, q) PROVE va' = Set(va, p, 1) /\ UNCHANGED <<lo, hi>>
  BY <1>5, Zenon DEF Fork
<1>6. ASSUME NEW n \in 1 .. MaxSz, Sbrk(p, n) \/ Shrink(p, n)
      PROVE  \E x \in 1 .. MaxSz + 1, y \in 0 .. MaxSz, z \in 0 .. MaxSz :
               va' = Set(va, p, x) /\ lo' = Set(lo, p, y) /\ hi' = Set(hi, p, z)
  <2>1. CASE Sbrk(p, n)
    <3>1. sz[p] + 1 \in 1 .. MaxSz + 1 /\ sz[p] + n \in 0 .. MaxSz
      BY <1>i, <1>m, <2>1 DEF Sbrk
    <3> QED
      BY <1>i, <2>1, <3>1, Zenon DEF Sbrk
  <2>2. CASE Shrink(p, n)
    <3>1. n + 1 \in 1 .. MaxSz + 1 /\ n \in 0 .. MaxSz
      BY <1>m
    <3> QED
      BY <1>i, <2>2, <3>1, Zenon DEF Shrink
  <2> QED
    BY <1>6, <2>1, <2>2, Zenon
<1>7. CASE KfreePush(p) \/ CowCopy(p) \/ CowFree(p) \/ CopyoutWrite(p) \/ CopyPage(p)
           \/ Unmap(p) \/ FreeTable(p) \/ GrowAlloc(p)
  <2>1. UNCHANGED <<va, lo, hi>>
    BY <1>7, Zenon DEF KfreePush, CowCopy, CowFree, CopyoutWrite, CopyPage, Unmap, FreeTable,
                GrowAlloc, locals
  <2> QED
    BY <1>0, <2>1, Zenon
<1>8. CASE MapPage(p) \/ ClearPte(p) \/ GrowMap(p)
  <2>1. va' = Set(va, p, va[p] + 1) /\ UNCHANGED <<lo, hi>>
    BY <1>8, Zenon DEF MapPage, ClearPte, GrowMap
  <2>2. va[p] <= sz[p] \/ va[p] <= hi[p]
    BY <1>8, Zenon DEF MapPage, ClearPte, GrowMap, At, Shape, PgInv
  <2>3. va[p] + 1 \in 1 .. MaxSz + 1
    BY <1>i, <1>m, <2>2
  <2> QED
    BY <1>0, <1>v, <2>1, <2>3, Zenon
<1>9. CASE MapFails(p)
  <2>1. va' = Set(va, p, 1) /\ lo' = Set(lo, p, 0) /\ hi' = Set(hi, p, va[p] - 1)
    BY <1>9, Zenon DEF MapFails
  <2>2. va[p] - 1 \in 0 .. MaxSz
    BY <1>i, <1>m
  <2> QED
    BY <1>h, <1>l, <1>m, <1>v, <2>1, <2>2, Zenon
<1>10. CASE GrowFails(p)
  <2>1. va' = Set(va, p, lo[p] + 1) /\ lo' = lo /\ hi' = Set(hi, p, va[p] - 1)
    BY <1>10, Zenon DEF GrowFails
  <2>2. va[p] - 1 \in 0 .. MaxSz /\ lo[p] + 1 \in 1 .. MaxSz + 1
    BY <1>i, <1>m
  <2> QED
    BY <1>0, <1>h, <1>v, <2>1, <2>2, Zenon
<1>11. CASE ForkDone(p) \/ FreeDone(p) \/ GrowDone(p) \/ DeallocDone(p)
  <2>1. /\ va' = Set(va, p, 1)
        /\ lo' = lo \/ lo' = Set(lo, p, 0)
        /\ hi' = hi \/ hi' = Set(hi, p, 0)
    BY <1>11, Zenon DEF ForkDone, FreeDone, GrowDone, DeallocDone
  <2> QED
    BY <1>0, <1>h, <1>l, <1>m, <1>v, <2>1, Zenon
<1>12. CASE KernelStep(p)
  BY <1>7, <1>8, <1>9, <1>10, <1>11, <1>12, Zenon DEF KernelStep
<1>13. CASE UserStep(p)
  <2>1. ASSUME NEW a \in Addr, NEW v \in Val, Store(p, a, v) \/ Copyout(p, a, v)
        PROVE  /\ va' \in [Proc -> 1 .. MaxSz + 1]
               /\ lo' \in [Proc -> 0 .. MaxSz] /\ hi' \in [Proc -> 0 .. MaxSz]
    BY <1>0, <1>1, <1>2, <1>a, <1>v, <2>1, Zenon
  <2>2. ASSUME Exits(p)
        PROVE  /\ va' \in [Proc -> 1 .. MaxSz + 1]
               /\ lo' \in [Proc -> 0 .. MaxSz] /\ hi' \in [Proc -> 0 .. MaxSz]
    BY <1>3, <1>h, <1>i, <1>l, <1>m, <1>v, <2>2, Zenon
  <2>3. ASSUME NEW a \in Addr, StoreFault(p, a)
        PROVE  /\ va' \in [Proc -> 1 .. MaxSz + 1]
               /\ lo' \in [Proc -> 0 .. MaxSz] /\ hi' \in [Proc -> 0 .. MaxSz]
    BY <1>0, <1>4, <1>a, <1>v, <2>2, <2>3, Zenon
  <2>4. ASSUME NEW q, Fork(p, q)
        PROVE  /\ va' \in [Proc -> 1 .. MaxSz + 1]
               /\ lo' \in [Proc -> 0 .. MaxSz] /\ hi' \in [Proc -> 0 .. MaxSz]
    BY <1>0, <1>5, <1>m, <1>v, <2>4, Zenon
  <2>5. ASSUME NEW n \in 1 .. MaxSz, Sbrk(p, n) \/ Shrink(p, n)
        PROVE  /\ va' \in [Proc -> 1 .. MaxSz + 1]
               /\ lo' \in [Proc -> 0 .. MaxSz] /\ hi' \in [Proc -> 0 .. MaxSz]
    BY <1>6, <1>h, <1>l, <1>v, <2>5, Zenon
  <2> QED
    BY <1>13, <2>1, <2>2, <2>3, <2>4, <2>5, Zenon DEF UserStep, Exit
<1> QED
  BY <1>12, <1>13, Zenon

\* The page uvmunmap() frees or has freed.
LEMMA UnmapPage ==
  ASSUME TypeOK, NEW p \in Proc, Shape(p), pc[p] \in {"unmap", "dealloc"}, va[p] <= hi[p],
         pc[p] = "dealloc" => tgt[p] = p
  PROVE  va[p] \in Addr /\ pt[tgt[p]][va[p]].pa \in Page
<1>0. va[p] \in 1 .. MaxSz + 1 /\ hi[p] \in 0 .. MaxSz /\ tgt[p] \in Proc
  BY Locals, Zenon
<1>1. va[p] \in Addr
  BY <1>0, Bounds DEF Addr
<1>2. pt[tgt[p]][va[p]].pa # None
  <2>1. CASE pc[p] = "unmap"
    BY <1>0, <1>1, <2>1 DEF Shape
  <2>2. CASE pc[p] = "dealloc"
    <3>1. pt[p][va[p]].pa # None
      BY <1>0, <1>1, <2>2 DEF Shape
    <3> QED
      BY <2>2, <3>1, Zenon
  <2> QED
    BY <2>1, <2>2, Zenon
<1> QED
  BY <1>0, <1>1, <1>2, Pieces, MappedPage, Zenon

\* So do the other variables of the threads.
LEMMA NextThread ==
  ASSUME TypeOK, TgtInv, PgInv, NEW p \in Proc, Shape(p), UserStep(p) \/ KernelStep(p)
  PROVE  ThreadOK'
<1>0. /\ pc \in [Proc -> Label] /\ tgt \in [Proc -> Proc]
      /\ pg \in [Proc -> Page \cup {None}] /\ kf \in [Proc -> Page \cup {None}]
      /\ want \in [Proc -> Val \cup {None}]
  BY Pieces, Zenon DEF ThreadOK
<1>f. free \subseteq Page
  BY Zenon DEF TypeOK
<1>r. /\ va' \in [Proc -> 1 .. MaxSz + 1]
      /\ lo' \in [Proc -> 0 .. MaxSz] /\ hi' \in [Proc -> 0 .. MaxSz]
  BY NextRange, Zenon
<1>pc. pc' \in [Proc -> Label]
  <2>1. CASE UserStep(p)
    BY <1>0, <2>1, Zenon DEF UserStep, Store, Copyout, StoreFault, Cowfault, Exits, Fork, Exit, Sbrk,
                      Shrink, Goto, Label
  <2>2. CASE KfreePush(p) \/ CowCopy(p) \/ CowFree(p) \/ CopyoutWrite(p) \/ CopyPage(p)
             \/ MapPage(p) \/ MapFails(p) \/ ForkDone(p)
    BY <1>0, <2>2, Zenon DEF KfreePush, CowCopy, CowFree, CopyoutWrite, CopyPage, MapPage, MapFails,
                      ForkDone, Goto, Label
  <2>3. CASE Unmap(p) \/ ClearPte(p) \/ FreeTable(p) \/ FreeDone(p) \/ GrowAlloc(p)
             \/ GrowMap(p) \/ GrowFails(p) \/ GrowDone(p) \/ DeallocDone(p)
    BY <1>0, <2>3, Zenon DEF Unmap, ClearPte, FreeTable, FreeDone, GrowAlloc, GrowMap, GrowFails,
                      GrowDone, DeallocDone, Goto, Label
  <2> QED
    BY <2>1, <2>2, <2>3, Zenon DEF KernelStep
<1>tgt. tgt' \in [Proc -> Proc]
  <2>1. CASE UserStep(p)
    BY <1>0, <2>1, SMTT(40) DEF UserStep, Store, Copyout, StoreFault, Cowfault, Exits, Fork, Exit, Sbrk,
                      Shrink, Set, locals
  <2>2. CASE KfreePush(p) \/ CowCopy(p) \/ CowFree(p) \/ CopyoutWrite(p) \/ CopyPage(p)
             \/ MapPage(p) \/ MapFails(p) \/ ForkDone(p)
    BY <1>0, <2>2, Zenon DEF KfreePush, CowCopy, CowFree, CopyoutWrite, CopyPage, MapPage, MapFails,
                      ForkDone, Set, locals
  <2>3. CASE Unmap(p) \/ ClearPte(p) \/ FreeTable(p) \/ FreeDone(p) \/ GrowAlloc(p)
             \/ GrowMap(p) \/ GrowFails(p) \/ GrowDone(p) \/ DeallocDone(p)
    BY <1>0, <2>3 DEF Unmap, ClearPte, FreeTable, FreeDone, GrowAlloc, GrowMap, GrowFails,
                      GrowDone, DeallocDone, Set, locals
  <2> QED
    BY <2>1, <2>2, <2>3, Zenon DEF KernelStep
<1>pg. pg' \in [Proc -> Page \cup {None}]
  <2>e. ASSUME NEW x \in Page \cup {None}, pg' = Set(pg, p, x)
        PROVE  pg' \in [Proc -> Page \cup {None}]
    BY <1>0, <2>e, Zenon DEF Set
  <2>1. CASE UserStep(p)
    <3>1. pg' = pg \/ \E x \in free : pg' = Set(pg, p, x)
      BY <2>1, Zenon DEF UserStep, Store, Copyout, StoreFault, Cowfault, Exits, Fork, Exit, Sbrk,
                  Shrink, locals
    <3> QED
      BY <1>0, <1>f, <2>e, <3>1, Zenon
  <2>2. CASE KfreePush(p) \/ CowFree(p) \/ CopyoutWrite(p) \/ CopyPage(p)
             \/ MapPage(p) \/ MapFails(p) \/ ForkDone(p) \/ ClearPte(p) \/ FreeTable(p)
             \/ FreeDone(p) \/ GrowMap(p) \/ GrowFails(p) \/ GrowDone(p) \/ DeallocDone(p)
    <3>1. pg' = pg \/ pg' = Set(pg, p, None)
      BY <2>2, Zenon DEF KfreePush, CowFree, CopyoutWrite, CopyPage, MapPage, MapFails, ForkDone,
                  ClearPte, FreeTable, FreeDone, GrowMap, GrowFails, GrowDone, DeallocDone,
                  locals
    <3> QED
      BY <1>0, <2>e, <3>1, Zenon
  <2>3. CASE CowCopy(p)
    <3>1. pt[p][va[p]].pa \in Page
      BY <2>3, WorkPage, Zenon DEF CowCopy, At
    <3>2. pg' = Set(pg, p, pt[p][va[p]].pa)
      BY <2>3, Zenon DEF CowCopy
    <3> QED
      BY <2>e, <3>1, <3>2, Zenon
  <2>4. CASE Unmap(p)
    <3>1. va[p] \in Addr
      <4>1. va[p] <= hi[p] /\ va[p] \in 1 .. MaxSz + 1 /\ hi[p] \in 0 .. MaxSz
        BY <2>4, Locals, Zenon DEF Unmap
      <4> QED
        BY <4>1, Bounds DEF Addr
    <3>2. pt[tgt[p]][va[p]].pa \in Page \cup {None}
      BY <3>1, Locals, Pieces, MappedPage, Zenon
    <3>3. pg' = Set(pg, p, pt[tgt[p]][va[p]].pa)
      BY <2>4, Zenon DEF Unmap
    <3> QED
      BY <2>e, <3>2, <3>3, Zenon
  <2>5. CASE GrowAlloc(p)
    BY <1>f, <2>e, <2>5, Zenon DEF GrowAlloc
  <2> QED
    BY <2>1, <2>2, <2>3, <2>4, <2>5, Zenon DEF KernelStep
<1>want. want' \in [Proc -> Val \cup {None}]
  <2>1. CASE UserStep(p)
    BY <1>0, <2>1, SMTT(40) DEF UserStep, Store, Copyout, StoreFault, Cowfault, Exits, Fork, Exit, Sbrk,
                      Shrink, Set, locals
  <2>2. CASE KernelStep(p)
    <3>1. want' = want \/ want' = Set(want, p, None)
      BY <2>2, Zenon DEF KernelStep, KfreePush, CowCopy, CowFree, CopyoutWrite, CopyPage, MapPage,
                  MapFails, ForkDone, Unmap, ClearPte, FreeTable, FreeDone, GrowAlloc, GrowMap,
                  GrowFails, GrowDone, DeallocDone, locals
    <3> QED
      BY <1>0, <3>1, Zenon DEF Set
  <2> QED
    BY <2>1, <2>2, Zenon
<1>kf. kf' \in [Proc -> Page \cup {None}]
  <2>e. ASSUME NEW x \in Page, Kfree(p, x) PROVE kf' \in [Proc -> Page \cup {None}]
    BY <1>0, <2>e, Zenon DEF Kfree
  <2>1. CASE UserStep(p)
    BY <1>0, <2>1, Zenon DEF UserStep, Store, Copyout, StoreFault, Exits, Fork, Exit, Sbrk, Shrink
  <2>2. CASE KfreePush(p)
    BY <1>0, <2>2, Zenon DEF KfreePush
  <2>3. CASE CowCopy(p) \/ CopyoutWrite(p) \/ CopyPage(p) \/ MapPage(p) \/ MapFails(p)
             \/ ForkDone(p) \/ ClearPte(p) \/ FreeDone(p) \/ GrowAlloc(p) \/ GrowMap(p)
             \/ GrowDone(p) \/ DeallocDone(p)
    BY <1>0, <2>3, Zenon DEF CowCopy, CopyoutWrite, CopyPage, MapPage, MapFails, ForkDone, ClearPte,
                      FreeDone, GrowAlloc, GrowMap, GrowDone, DeallocDone
  <2>4. CASE CowFree(p)
    <3>1. pg[p] \in Page
      BY <1>0, <2>4, Zenon DEF CowFree, At, PgInv
    <3> QED
      BY <2>4, <2>e, <3>1, Zenon DEF CowFree
  <2>5. CASE Unmap(p)
    <3>1. pc[p] \in {"unmap", "dealloc"} /\ va[p] <= hi[p] /\ Kfree(p, pt[tgt[p]][va[p]].pa)
      BY <2>5, Zenon DEF Unmap, At
    <3>2. pc[p] = "dealloc" => tgt[p] = p
      BY Zenon DEF TgtInv
    <3>3. pt[tgt[p]][va[p]].pa \in Page
      BY <3>1, <3>2, UnmapPage, Zenon
    <3> QED
      BY <2>e, <3>1, <3>3, Zenon
  <2>6. CASE FreeTable(p)
    <3>1. tbl[tgt[p]] \subseteq Page
      BY Locals, Zenon DEF TypeOK
    <3> QED
      BY <2>6, <2>e, <3>1, Zenon DEF FreeTable
  <2>7. CASE GrowFails(p)
    BY <1>0, <2>7, <2>e, Zenon DEF GrowFails
  <2> QED
    BY <2>1, <2>2, <2>3, <2>4, <2>5, <2>6, <2>7, Zenon DEF KernelStep
<1> QED
  BY <1>r, <1>pc, <1>tgt, <1>pg, <1>want, <1>kf, Zenon DEF ThreadOK

\* A thread that moves on with the same target.
LEMMA TgtGoto ==
  ASSUME TypeOK, TgtInv, NEW p \in Proc, NEW l, pc' = [pc EXCEPT ![p] = l], tgt' = tgt,
         pc[p] # "embryo",
         tgt[p] # p => l \in {"copy", "map", "unmap"},
         tgt[p] = p => l \notin {"copy", "map"}
  PROVE  TgtInv'
<1>1. pc \in [Proc -> Label] /\ tgt \in [Proc -> Proc]
  BY Pieces, Zenon DEF ThreadOK
<1>2. \A r \in Proc : pc'[r] = IF r = p THEN l ELSE pc[r]
  BY <1>1, Zenon
<1> QED
  BY <1>1, <1>2, Zenon DEF TgtInv

\* Targets stay exclusive.
LEMMA NextTgt ==
  ASSUME TypeOK, TgtInv, NEW p \in Proc, UserStep(p) \/ KernelStep(p)
  PROVE  TgtInv'
<1>0. pc \in [Proc -> Label] /\ tgt \in [Proc -> Proc]
  BY Pieces, Zenon DEF ThreadOK
<1>1. ASSUME UNCHANGED <<pc, tgt>> PROVE TgtInv'
  BY <1>1, Zenon DEF TgtInv
<1>2. ASSUME NEW l \in Label \ {"copy", "map"}, Goto(p, l), tgt' = tgt,
             pc[p] \notin {"embryo", "copy", "map", "unmap"}
      PROVE  TgtInv'
  <2>1. tgt[p] = p
    BY <1>2, Zenon DEF TgtInv
  <2> QED
    BY <1>2, <2>1, TgtGoto, Zenon DEF Goto
<1>3. ASSUME Exits(p), pc[p] = "user" PROVE TgtInv'
  <2>1. tgt[p] = p
    BY <1>3, Zenon DEF TgtInv
  <2>2. tgt' = tgt
    BY <1>0, <1>3, <2>1, Zenon DEF Exits, Set
  <2> QED
    BY <1>2, <1>3, <2>2, Zenon DEF Exits, Label
<1>4. CASE UserStep(p)
  <2>1. ASSUME NEW a, NEW v, Store(p, a, v) PROVE TgtInv'
    BY <1>1, <2>1, Zenon DEF Store, locals
  <2>2. ASSUME NEW a, NEW v, Copyout(p, a, v) PROVE TgtInv'
    BY <1>2, <2>2, Zenon DEF Copyout, Cowfault, At, Label
  <2>3. ASSUME NEW a, StoreFault(p, a) PROVE TgtInv'
    BY <1>2, <1>3, <2>3, Zenon DEF StoreFault, Cowfault, At, Label
  <2>4. ASSUME NEW q \in Proc, Fork(p, q) PROVE TgtInv'
    <3>1. /\ pc[p] = "user" /\ pc[q] = "dead"
          /\ pc' = [pc EXCEPT ![p] = "copy", ![q] = "embryo"] /\ tgt' = [tgt EXCEPT ![p] = q]
      BY <2>4, Zenon DEF Fork, At, Set
    <3>2. /\ p # q /\ tgt[q] = q /\ tgt[p] = p
          /\ \A r \in Proc : tgt[r] \in {p, q} => tgt[r] = r
      BY <3>1, Zenon DEF TgtInv
    <3>3. \A r \in Proc : /\ pc'[r] = IF r = p THEN "copy" ELSE IF r = q THEN "embryo" ELSE pc[r]
                          /\ tgt'[r] = IF r = p THEN q ELSE tgt[r]
      BY <1>0, <3>1, <3>2, Zenon
    <3> QED
      BY <1>0, <3>1, <3>2, <3>3 DEF TgtInv
  <2>5. ASSUME NEW n, Exit(p) \/ Sbrk(p, n) \/ Shrink(p, n) PROVE TgtInv'
    BY <1>2, <1>3, <2>5, Zenon DEF Exit, Sbrk, Shrink, At, Label
  <2> QED
    BY <1>4, <2>1, <2>2, <2>3, <2>4, <2>5, Zenon DEF UserStep
<1>5. CASE KfreePush(p) \/ Unmap(p) \/ ClearPte(p) \/ FreeTable(p) \/ GrowAlloc(p) \/ GrowMap(p)
  BY <1>1, <1>5, Zenon DEF KfreePush, Unmap, ClearPte, FreeTable, GrowAlloc, GrowMap, locals
<1>6. CASE CowCopy(p)
  BY <1>2, <1>6, Zenon DEF CowCopy, At, Label
<1>7. CASE CowFree(p)
  BY <1>2, <1>7, Zenon DEF CowFree, At, Label
<1>8. CASE CopyoutWrite(p) \/ GrowFails(p) \/ GrowDone(p) \/ DeallocDone(p)
  BY <1>2, <1>8, Zenon DEF CopyoutWrite, GrowFails, GrowDone, DeallocDone, At, Label
<1>9. CASE CopyPage(p) \/ MapPage(p) \/ MapFails(p)
  <2>1. pc[p] \in {"copy", "map"} /\ tgt' = tgt
        /\ \E l \in {"copy", "map", "unmap"} : pc' = [pc EXCEPT ![p] = l]
    BY <1>9, Zenon DEF CopyPage, MapPage, MapFails, At, Goto, locals
  <2>2. tgt[p] # p
    BY <2>1, Zenon DEF TgtInv
  <2> QED
    BY <2>1, <2>2, TgtGoto, Zenon
<1>10. CASE ForkDone(p) \/ FreeDone(p)
  <2>1. PICK q \in Proc, l \in {"user", "dead"} :
          /\ q = tgt[p] /\ pc[p] \in {"copy", "unmap"}
          /\ pc' = [pc EXCEPT ![p] = "user", ![q] = l] /\ tgt' = [tgt EXCEPT ![p] = p]
    BY <1>0, <1>10, Zenon DEF ForkDone, FreeDone, At, Set
  <2>2. \A r \in Proc : /\ pc'[r] = IF r = q THEN l ELSE IF r = p THEN "user" ELSE pc[r]
                        /\ tgt'[r] = IF r = p THEN p ELSE tgt[r]
    BY <1>0, <2>1, Zenon
  <2>3. \A r \in Proc : r # p /\ tgt[r] \in {p, q} => tgt[r] = r
    BY <2>1, Zenon DEF TgtInv
  <2>4. q # p => pc[q] = "embryo"
    BY <2>1, Zenon DEF TgtInv
  <2>5. tgt[q] = q \/ q = p
    BY <2>1, <2>4, Zenon DEF TgtInv
  <2>6. ASSUME NEW r \in Proc, tgt'[r] # r
        PROVE  pc'[r] \in {"copy", "map", "unmap"} /\ pc'[tgt'[r]] = "embryo"
    <3>1. r # p /\ tgt'[r] = tgt[r] /\ tgt[r] # r
      BY <2>2, <2>6, Zenon
    <3>2. tgt[r] \in Proc \ {p, q}
      BY <1>0, <2>3, <3>1, Zenon
    <3>3. r # q
      BY <2>5, <3>1, Zenon
    <3> QED
      BY <2>2, <3>1, <3>2, <3>3 DEF TgtInv
  <2>7. ASSUME NEW r \in Proc, pc'[r] \in {"copy", "map"} PROVE tgt'[r] # r
    BY <2>1, <2>2, <2>7 DEF TgtInv
  <2>8. ASSUME NEW r \in Proc, NEW s \in Proc, tgt'[r] # r, tgt'[s] = tgt'[r]
        PROVE  s \in {r, tgt'[r]}
    BY <2>2, <2>8 DEF TgtInv
  <2> QED
    BY <2>6, <2>7, <2>8, Zenon DEF TgtInv
<1> QED
  BY <1>4, <1>5, <1>6, <1>7, <1>8, <1>9, <1>10, Zenon DEF KernelStep

\* What a step of p does to the other threads: nothing, but for the child of
\* a fork, which does nothing itself.
LEMMA Others ==
  ASSUME TypeOK, TgtInv, NEW p \in Proc, UserStep(p) \/ KernelStep(p), NEW r \in Proc, r # p
  PROVE  /\ va'[r] = va[r] /\ lo'[r] = lo[r] /\ hi'[r] = hi[r] /\ tgt'[r] = tgt[r]
         /\ pg'[r] = pg[r] /\ kf'[r] = kf[r] /\ want'[r] = want[r]
         /\ pc'[r] # pc[r] =>
              \/ pc[r] = "dead" /\ pc'[r] = "embryo"
              \/ pc[r] = "embryo" /\ r = tgt[p] /\ pc'[r] \in {"user", "dead"}
<1>0. ThreadOK
  BY Pieces, Zenon
<1>1. CASE UserStep(p)
  <2>1. ASSUME NEW a, NEW v, Store(p, a, v) PROVE UNCHANGED <<pc, locals, kf>>
    BY <2>1, Zenon DEF Store
  <2>2. ASSUME NEW a, NEW v, Copyout(p, a, v)
        PROVE  /\ va'[r] = va[r] /\ lo'[r] = lo[r] /\ hi'[r] = hi[r] /\ tgt'[r] = tgt[r]
               /\ pg'[r] = pg[r] /\ kf'[r] = kf[r] /\ want'[r] = want[r] /\ pc'[r] = pc[r]
    BY <1>0, <2>2, Zenon DEF Copyout, Cowfault, Set, Goto, ThreadOK
  <2>3. ASSUME NEW a, StoreFault(p, a)
        PROVE  /\ va'[r] = va[r] /\ lo'[r] = lo[r] /\ hi'[r] = hi[r] /\ tgt'[r] = tgt[r]
               /\ pg'[r] = pg[r] /\ kf'[r] = kf[r] /\ want'[r] = want[r] /\ pc'[r] = pc[r]
    BY <1>0, <2>3 DEF StoreFault, Cowfault, Exits, Set, Goto, ThreadOK
  <2>4. ASSUME NEW n, Exit(p) \/ Sbrk(p, n) \/ Shrink(p, n)
        PROVE  /\ va'[r] = va[r] /\ lo'[r] = lo[r] /\ hi'[r] = hi[r] /\ tgt'[r] = tgt[r]
               /\ pg'[r] = pg[r] /\ kf'[r] = kf[r] /\ want'[r] = want[r] /\ pc'[r] = pc[r]
    BY <1>0, <2>4 DEF Exit, Sbrk, Shrink, Exits, Set, Goto, ThreadOK
  <2>5. ASSUME NEW q \in Proc, Fork(p, q)
        PROVE  /\ va'[r] = va[r] /\ lo'[r] = lo[r] /\ hi'[r] = hi[r] /\ tgt'[r] = tgt[r]
               /\ pg'[r] = pg[r] /\ kf'[r] = kf[r] /\ want'[r] = want[r]
               /\ pc'[r] # pc[r] => pc[r] = "dead" /\ pc'[r] = "embryo"
    BY <1>0, <2>5, Zenon DEF Fork, Set, ThreadOK
  <2> QED
    BY <1>1, <2>1, <2>2, <2>3, <2>4, <2>5, Zenon DEF UserStep, locals
<1>2. CASE KfreePush(p) \/ CowCopy(p) \/ CowFree(p) \/ CopyoutWrite(p) \/ CopyPage(p) \/ MapPage(p)
  BY <1>0, <1>2, Zenon DEF KfreePush, CowCopy, CowFree, CopyoutWrite, CopyPage, MapPage, Kfree, Set,
                    Goto, locals, ThreadOK
<1>3. CASE MapFails(p) \/ Unmap(p) \/ ClearPte(p) \/ FreeTable(p) \/ GrowAlloc(p) \/ GrowMap(p)
  <2>1. CASE MapFails(p)
    BY <1>0, <2>1, SMTT(40) DEF MapFails, Set, Goto, locals, ThreadOK
  <2>4. CASE Unmap(p)
    BY <1>0, <2>4, SMTT(40) DEF Unmap, Kfree, Set, Goto, locals, ThreadOK
  <2>2. CASE ClearPte(p) \/ FreeTable(p)
    BY <1>0, <2>2, Zenon DEF ClearPte, FreeTable, Kfree, Set, Goto, locals, ThreadOK
  <2>3. CASE GrowAlloc(p) \/ GrowMap(p)
    BY <1>0, <2>3, Zenon DEF GrowAlloc, GrowMap, Kfree, Set, Goto, locals, ThreadOK
  <2> QED
    BY <1>3, <2>1, <2>2, <2>3, <2>4, Zenon
<1>4. CASE GrowFails(p) \/ GrowDone(p) \/ DeallocDone(p)
  BY <1>0, <1>4 DEF GrowFails, GrowDone, DeallocDone, Kfree, Set, Goto, ThreadOK
<1>5. CASE ForkDone(p) \/ FreeDone(p)
  <2>1. /\ va'[r] = va[r] /\ lo'[r] = lo[r] /\ hi'[r] = hi[r] /\ tgt'[r] = tgt[r]
        /\ pg'[r] = pg[r] /\ kf'[r] = kf[r] /\ want'[r] = want[r]
    BY <1>0, <1>5 DEF ForkDone, FreeDone, Set, ThreadOK
  <2>2. pc'[r] # pc[r] => r = tgt[p] /\ pc'[r] \in {"user", "dead"}
    BY <1>0, <1>5, Zenon DEF ForkDone, FreeDone, ThreadOK
  <2>3. r = tgt[p] => pc[r] = "embryo"
    BY DEF TgtInv
  <2> QED
    BY <2>1, <2>2, <2>3, Zenon
<1> QED
  BY <1>1, <1>2, <1>3, <1>4, <1>5, Zenon DEF KernelStep

\* Local variables hold pages where they should.
LEMMA NextPg ==
  ASSUME TypeOK, TgtInv, PgInv, NEW p \in Proc, Shape(p), UserStep(p) \/ KernelStep(p)
  PROVE  PgInv'
<1> DEFINE Pg(r) ==
    /\ pc[r] \in {"dead", "embryo", "user", "out", "copy", "map"} => pg[r] = None
    /\ pc[r] \in {"cow", "cowfree"} => pg[r] # None
    /\ pc[r] \in {"dead", "embryo"} => kf[r] = None
    /\ pc[r] = "out" => want[r] # None
    /\ pc[r] \in {"unmap", "dealloc", "growmap"} /\ pg[r] # None => va[r] <= hi[r]
<1>0. ThreadOK
  BY Pieces, Zenon
<1>n. None \notin Page /\ free \subseteq Page
  BY Bounds, Zenon DEF TypeOK
<1>1. ASSUME NEW r \in Proc, r # p PROVE Pg(r)'
  <2>1. Pg(r)
    BY Zenon DEF PgInv
  <2>2. /\ va'[r] = va[r] /\ hi'[r] = hi[r]
        /\ pg'[r] = pg[r] /\ kf'[r] = kf[r] /\ want'[r] = want[r]
        /\ pc'[r] # pc[r] =>
             \/ pc[r] = "dead" /\ pc'[r] = "embryo"
             \/ pc[r] = "embryo" /\ pc'[r] \in {"user", "dead"}
    BY <1>1, Others, Zenon
  <2> QED
    BY <2>1, <2>2, Zenon
<1>2. Pg(p)'
  <2>0. Pg(p)
    BY Zenon DEF PgInv
  <2>1. ASSUME NEW a, NEW v, Store(p, a, v) PROVE Pg(p)'
    BY <2>0, <2>1, Zenon DEF Store, locals
  <2>2. ASSUME NEW a, Cowfault(p, a) PROVE pc'[p] = "cow" /\ pg'[p] # None
    BY <1>0, <1>n, <2>2, Zenon DEF Cowfault, Goto, Set, ThreadOK
  <2>3. ASSUME NEW a, NEW v, Copyout(p, a, v) PROVE Pg(p)'
    BY <2>2, <2>3, Zenon DEF Copyout
  <2>4. ASSUME Exits(p), pc[p] = "user", pg' = pg PROVE Pg(p)'
    <3>1. pc'[p] = "unmap" /\ pg'[p] = None
      BY <1>0, <2>0, <2>4, Zenon DEF Exits, Goto, ThreadOK
    <3> QED
      BY <3>1, Zenon
  <2>5. ASSUME NEW a, StoreFault(p, a) PROVE Pg(p)'
    BY <2>2, <2>4, <2>5, Zenon DEF StoreFault, At
  <2>6. ASSUME NEW q \in Proc, Fork(p, q) PROVE Pg(p)'
    <3>1. pc'[p] = "copy" /\ pg'[p] = None
      BY <1>0, <2>0, <2>6, Zenon DEF Fork, At, ThreadOK
    <3> QED
      BY <3>1, Zenon
  <2>7. ASSUME NEW n, Exit(p) \/ Sbrk(p, n) \/ Shrink(p, n) PROVE Pg(p)'
    <3>1. CASE Exit(p)
      BY <2>4, <3>1, Zenon DEF Exit, At
    <3>2. CASE Sbrk(p, n) \/ Shrink(p, n)
      <4>1. pc'[p] \in {"growmap", "dealloc"} /\ pg'[p] = None
        BY <1>0, <2>0, <3>2, Zenon DEF Sbrk, Shrink, At, Goto, ThreadOK
      <4> QED
        BY <4>1, Zenon
    <3> QED
      BY <2>7, <3>1, <3>2, Zenon
  <2>8. CASE KfreePush(p)
    <3>1. UNCHANGED <<pc, locals>> /\ kf'[p] = None
      BY <1>0, <2>8, Zenon DEF KfreePush, ThreadOK
    <3> QED
      BY <2>0, <3>1, Zenon DEF locals
  <2>9. CASE CowCopy(p)
    <3>1. pt[p][va[p]].pa # None
      BY <1>n, <2>9, WorkPage, Zenon DEF CowCopy, At
    <3>2. pc'[p] = "cowfree" /\ pg'[p] = pt[p][va[p]].pa
      BY <1>0, <2>9, Zenon DEF CowCopy, Goto, Set, ThreadOK
    <3> QED
      BY <3>1, <3>2, Zenon
  <2>10. CASE CowFree(p)
    <3>1. pg'[p] = None /\ want' = want
          /\ pc'[p] = IF want[p] = None THEN "user" ELSE "out"
      BY <1>0, <2>10, Zenon DEF CowFree, Goto, Set, ThreadOK
    <3> QED
      BY <3>1, Zenon
  <2>11. CASE CopyoutWrite(p)
    <3>1. pc'[p] = "user" /\ pg'[p] = None
      BY <1>0, <2>0, <2>11, Zenon DEF CopyoutWrite, At, Goto, ThreadOK
    <3> QED
      BY <3>1, Zenon
  <2>12. CASE CopyPage(p) \/ MapPage(p) \/ MapFails(p)
    <3>1. pc'[p] \in {"copy", "map", "unmap"} /\ pg'[p] = None
      BY <1>0, <2>0, <2>12, Zenon DEF CopyPage, MapPage, MapFails, At, Goto, locals, ThreadOK
    <3> QED
      BY <3>1, Zenon
  <2>13. CASE ForkDone(p)
    <3>1. tgt[p] # p
      BY <2>13, Zenon DEF ForkDone, At, TgtInv
    <3>2. pc'[p] = "user" /\ pg'[p] = None
      BY <1>0, <2>0, <2>13, <3>1, Zenon DEF ForkDone, At, ThreadOK
    <3> QED
      BY <3>2, Zenon
  <2>14. CASE FreeDone(p)
    <3>1. ~(va[p] <= hi[p])
      BY <2>14, Locals DEF FreeDone
    <3>2. pg[p] = None
      BY <2>0, <2>14, <3>1, Zenon DEF FreeDone, At
    <3>3. pc'[p] \in {"user", "dead"} /\ pg'[p] = None /\ kf'[p] = None
      BY <1>0, <2>14, <3>2, Zenon DEF FreeDone, At, ThreadOK
    <3> QED
      BY <3>3, Zenon
  <2>15. CASE Unmap(p)
    <3>1. pc'[p] \in {"unmap", "dealloc"} /\ va'[p] <= hi'[p]
      BY <2>15, Zenon DEF Unmap, At
    <3> QED
      BY <3>1, Zenon
  <2>16. CASE ClearPte(p) \/ GrowMap(p)
    <3>1. pc'[p] \in {"unmap", "dealloc", "growmap"} /\ pg'[p] = None
      BY <1>0, <2>16, Zenon DEF ClearPte, GrowMap, At, Set, ThreadOK
    <3> QED
      BY <3>1, Zenon
  <2>17. CASE FreeTable(p)
    <3>1. pc'[p] = "unmap" /\ UNCHANGED <<pc, locals>>
      BY <2>17, Zenon DEF FreeTable, At
    <3> QED
      BY <2>0, <3>1, Zenon DEF locals
  <2>18. CASE GrowAlloc(p)
    <3>1. pc'[p] = "growmap" /\ va'[p] <= hi'[p]
      BY <2>18, Zenon DEF GrowAlloc, At
    <3> QED
      BY <3>1, Zenon
  <2>19. CASE GrowFails(p)
    <3>1. pc'[p] = "dealloc" /\ pg'[p] = None
      BY <1>0, <2>19, Zenon DEF GrowFails, Goto, Set, ThreadOK
    <3> QED
      BY <3>1, Zenon
  <2>20. CASE GrowDone(p) \/ DeallocDone(p)
    <3>1. ~(va[p] <= hi[p])
      BY <2>20, Locals DEF GrowDone, DeallocDone
    <3>2. pc'[p] = "user" /\ pg'[p] = None
      BY <1>0, <2>0, <2>20, <3>1, Zenon DEF GrowDone, DeallocDone, At, Goto, ThreadOK
    <3> QED
      BY <3>2, Zenon
  <2>21. CASE UserStep(p)
    BY <2>1, <2>3, <2>5, <2>6, <2>7, <2>21, Zenon DEF UserStep
  <2>22. CASE KernelStep(p)
    BY <2>8, <2>9, <2>10, <2>11, <2>12, <2>13, <2>14, <2>15, <2>16, <2>17, <2>18, <2>19,
       <2>20, <2>22, Zenon DEF KernelStep
  <2> QED
    BY <2>21, <2>22, Zenon
<1> QED
  BY <1>1, <1>2, Zenon DEF PgInv

-----------------------------------------------------------------------------
(* Page tables *)

\* A step of p leaves the address spaces of all but itself and its target
\* alone.
LEMMA OtherSpaces ==
  ASSUME TypeOK, NEW p \in Proc, UserStep(p) \/ KernelStep(p), NEW r \in Proc, r # p, r # tgt[p]
  PROVE  /\ pt'[r] = pt[r] /\ sz'[r] = sz[r]
         /\ tbl'[r] = tbl[r] \/ pc'[r] = "embryo"
<1>0. SpaceOK /\ ThreadOK
  BY Pieces, Zenon
<1>1. CASE UserStep(p)
  <2>1. ASSUME NEW q \in Proc, Fork(p, q)
        PROVE  UNCHANGED <<pt, sz>> /\ (tbl'[r] = tbl[r] \/ pc'[r] = "embryo")
    BY <1>0, <2>1, Zenon DEF Fork, ProcPagetable, SpaceOK, ThreadOK
  <2>2. ASSUME NEW a, NEW v,
               Store(p, a, v) \/ Copyout(p, a, v) \/ StoreFault(p, a) \/ Exit(p)
               \/ Sbrk(p, v) \/ Shrink(p, v)
        PROVE  UNCHANGED <<pt, sz, tbl>>
    BY <2>2, Zenon DEF Store, Copyout, StoreFault, Exit, Sbrk, Shrink
  <2> QED
    BY <1>1, <2>1, <2>2, Zenon DEF UserStep
<1>2. CASE KfreePush(p) \/ CowFree(p) \/ CopyoutWrite(p) \/ MapFails(p) \/ Unmap(p)
           \/ GrowAlloc(p) \/ GrowFails(p)
  BY <1>2, Zenon DEF KfreePush, CowFree, CopyoutWrite, MapFails, Unmap, GrowAlloc, GrowFails
<1>3. CASE CowCopy(p) \/ CopyPage(p)
  BY <1>0, <1>3, Zenon DEF CowCopy, CopyPage, SpaceOK
<1>4. ASSUME NEW q, NEW a, NEW x, Mappages(q, a, x), q # r
      PROVE  pt'[r] = pt[r] /\ tbl'[r] = tbl[r]
  BY <1>0, <1>4, Zenon DEF Mappages, Walk, SpaceOK
<1>5. CASE MapPage(p) \/ GrowMap(p)
  BY <1>4, <1>5, Zenon DEF MapPage, GrowMap
<1>6. CASE ForkDone(p) \/ FreeDone(p) \/ GrowDone(p) \/ DeallocDone(p)
  BY <1>0, <1>6, Zenon DEF ForkDone, FreeDone, GrowDone, DeallocDone, SpaceOK
<1>7. CASE ClearPte(p) \/ FreeTable(p)
  BY <1>0, <1>7, Zenon DEF ClearPte, FreeTable, SpaceOK
<1> QED
  BY <1>1, <1>2, <1>3, <1>5, <1>6, <1>7, Zenon DEF KernelStep

\* What one assignment to a page table does.
LEMMA PtIs ==
  ASSUME SpaceOK, NEW q \in Proc, NEW a \in Addr, NEW x
  PROVE  LET new == [pt EXCEPT ![q][a] = x] IN
         \A r \in Proc, b \in Addr : new[r][b] = IF r = q /\ b = a THEN x ELSE pt[r][b]
<1> DEFINE new == [pt EXCEPT ![q][a] = x]
<1> SUFFICES ASSUME NEW r \in Proc, NEW b \in Addr
             PROVE  new[r][b] = IF r = q /\ b = a THEN x ELSE pt[r][b]
  BY Zenon
<1>1. pt \in [Proc -> [Addr -> Pte]]
  BY Zenon DEF SpaceOK
<1>2. new = [s \in Proc |-> IF s = q THEN [pt[q] EXCEPT ![a] = x] ELSE pt[s]]
  BY <1>1, Zenon
<1>3. pt[q] \in [Addr -> Pte]
  BY <1>1, Zenon
<1> HIDE DEF new
<1>4. CASE r = q
  BY <1>2, <1>3, <1>4, Zenon
<1>5. CASE r # q
  BY <1>2, <1>5, Zenon
<1> QED
  BY <1>4, <1>5, Zenon

\* The page a thread works on is one of an address space.
LEMMA WorkAddr ==
  ASSUME TypeOK, NEW p \in Proc, va[p] <= sz[p] \/ va[p] <= hi[p]
  PROVE  va[p] \in Addr
<1>1. /\ va[p] \in 1 .. MaxSz + 1 /\ sz[p] \in 0 .. MaxSz /\ hi[p] \in 0 .. MaxSz
      /\ MaxSz \in Nat
  BY Locals, Bounds, Zenon
<1> QED
  BY <1>1 DEF Addr

\* cowfault() redirects one PTE.
LEMMA CowCopyPt ==
  ASSUME TypeOK, PgInv, NEW p \in Proc, Shape(p), CowCopy(p)
  PROVE  /\ va[p] \in Addr /\ pg[p] # None /\ pt[p][va[p]].pa # None
         /\ \A r \in Proc, b \in Addr :
              pt'[r][b] = IF r = p /\ b = va[p] THEN [pa |-> pg[p], w |-> TRUE] ELSE pt[r][b]
<1>1. va[p] \in Addr /\ pt[p][va[p]].pa \in Page /\ pg[p] # None
  BY WorkPage, Zenon DEF CowCopy, At, PgInv
<1>2. pt' = [pt EXCEPT ![p][va[p]] = [pa |-> pg[p], w |-> TRUE]]
  BY Zenon DEF CowCopy
<1>3. \A r \in Proc, b \in Addr :
        pt'[r][b] = IF r = p /\ b = va[p] THEN [pa |-> pg[p], w |-> TRUE] ELSE pt[r][b]
  BY <1>1, <1>2, PtIs, Pieces
<1> QED
  BY <1>1, <1>3, Bounds, Zenon

\* uvmcopy() write-protects one page.
LEMMA CopyPagePt ==
  ASSUME TypeOK, NEW p \in Proc, Shape(p), CopyPage(p)
  PROVE  /\ va[p] \in Addr /\ pt[p][va[p]].pa # None
         /\ \A r \in Proc, b \in Addr :
              /\ pt'[r][b].pa = pt[r][b].pa
              /\ (r = p /\ b = va[p]) \/ pt'[r][b] = pt[r][b]
<1>1. va[p] <= sz[p] /\ pc[p] = "copy"
  BY Zenon DEF CopyPage, At
<1>2. va[p] \in Addr
  BY <1>1, WorkAddr, Zenon
<1>3. pt[p][va[p]].pa # None
  BY <1>1, <1>2, Zenon DEF Shape
<1>4. PICK y \in Pte : y = pt[p][va[p]]
  BY <1>2, Pieces, MappedPage, Zenon
<1>5. PICK x : x = [y EXCEPT !.w = FALSE]
  BY Zenon
<1>6. pt' = [pt EXCEPT ![p][va[p]] = x]
  <2>1. pt' = [pt EXCEPT ![p][va[p]].w = FALSE]
    BY Zenon DEF CopyPage
  <2> QED
    BY <1>4, <1>5, <2>1, Zenon
<1>7. \A r \in Proc, b \in Addr : pt'[r][b] = IF r = p /\ b = va[p] THEN x ELSE pt[r][b]
  BY <1>2, <1>6, PtIs, Pieces
<1>8. x.pa = pt[p][va[p]].pa
  <2>1. [y EXCEPT !.w = FALSE].pa = y.pa
    BY Zenon DEF Pte
  <2> QED
    BY <1>4, <1>5, <2>1, Zenon
<1> QED
  BY <1>2, <1>3, <1>7, <1>8, Zenon

\* uvmcopy() maps one page in the child.
LEMMA MapPagePt ==
  ASSUME TypeOK, NEW p \in Proc, Shape(p), MapPage(p)
  PROVE  /\ va[p] \in Addr /\ pt[p][va[p]].pa # None
         /\ \A r \in Proc, b \in Addr :
              pt'[r][b] = IF r = tgt[p] /\ b = va[p] THEN pt[p][va[p]] ELSE pt[r][b]
<1>1. va[p] \in Addr /\ pt[p][va[p]].pa \in Page
  BY WorkPage, Zenon DEF MapPage, At
<1>x. PICK x : x = pt[p][va[p]]
  BY Zenon
<1>2. pt' = [pt EXCEPT ![tgt[p]][va[p]] = x]
  BY <1>x, Zenon DEF MapPage, Mappages
<1>3. \A r \in Proc, b \in Addr :
        pt'[r][b] = IF r = tgt[p] /\ b = va[p] THEN x ELSE pt[r][b]
  <2>1. SpaceOK /\ tgt[p] \in Proc /\ va[p] \in Addr
    BY <1>1, Pieces, Locals, Zenon
  <2>2. PICK q \in Proc : q = tgt[p]
    BY <2>1, Zenon
  <2> QED
    BY <1>2, <2>1, <2>2, PtIs, SMTT(40)
<1> QED
  BY <1>1, <1>3, <1>x, Bounds, Zenon

\* uvmalloc() maps one page.
LEMMA GrowMapPt ==
  ASSUME TypeOK, PgInv, NEW p \in Proc, Shape(p), GrowMap(p)
  PROVE  /\ va[p] \in Addr /\ pg[p] # None
         /\ \A r \in Proc, b \in Addr :
              pt'[r][b] = IF r = p /\ b = va[p] THEN [pa |-> pg[p], w |-> TRUE] ELSE pt[r][b]
<1>1. pg[p] # None /\ va[p] <= hi[p]
  BY Zenon DEF GrowMap, At, PgInv
<1>2. va[p] \in Addr
  BY <1>1, WorkAddr, Zenon
<1>3. pt' = [pt EXCEPT ![p][va[p]] = [pa |-> pg[p], w |-> TRUE]]
  BY Zenon DEF GrowMap, Mappages
<1>4. \A r \in Proc, b \in Addr :
        pt'[r][b] = IF r = p /\ b = va[p] THEN [pa |-> pg[p], w |-> TRUE] ELSE pt[r][b]
  BY <1>2, <1>3, PtIs, Pieces
<1> QED
  BY <1>1, <1>2, <1>4, Zenon

\* uvmunmap() clears one PTE.
LEMMA ClearPtePt ==
  ASSUME TypeOK, PgInv, NEW p \in Proc, ClearPte(p)
  PROVE  /\ va[p] \in Addr /\ pg[p] # None /\ va[p] <= hi[p]
         /\ \A r \in Proc, b \in Addr :
              pt'[r][b] = IF r = tgt[p] /\ b = va[p] THEN NoPte ELSE pt[r][b]
<1>1. pg[p] # None /\ va[p] <= hi[p]
  BY Zenon DEF ClearPte, At, PgInv
<1>2. va[p] \in Addr
  BY <1>1, WorkAddr, Zenon
<1>3. pt' = [pt EXCEPT ![tgt[p]][va[p]] = NoPte]
  BY Zenon DEF ClearPte
<1>4. \A r \in Proc, b \in Addr :
        pt'[r][b] = IF r = tgt[p] /\ b = va[p] THEN NoPte ELSE pt[r][b]
  <2>1. SpaceOK /\ tgt[p] \in Proc
    BY Pieces, Locals, Zenon
  <2> QED
    BY <1>2, <1>3, <2>1, PtIs
<1> QED
  BY <1>1, <1>2, <1>4, Zenon

\* The other steps change no page table.
LEMMA PtSame ==
  ASSUME NEW p \in Proc, UserStep(p) \/ KernelStep(p)
  PROVE  \/ pt' = pt
         \/ CowCopy(p) \/ CopyPage(p) \/ MapPage(p) \/ GrowMap(p) \/ ClearPte(p)
<1>1. CASE UserStep(p)
  BY <1>1, Zenon DEF UserStep, Store, Copyout, StoreFault, Exit, Sbrk, Shrink, Fork
<1>2. CASE KfreePush(p) \/ CowFree(p) \/ CopyoutWrite(p) \/ MapFails(p) \/ Unmap(p)
           \/ GrowAlloc(p) \/ GrowFails(p) \/ FreeTable(p)
           \/ ForkDone(p) \/ FreeDone(p) \/ GrowDone(p) \/ DeallocDone(p)
  BY <1>2, Zenon DEF KfreePush, CowFree, CopyoutWrite, MapFails, Unmap, GrowAlloc, GrowFails,
              FreeTable, ForkDone, FreeDone, GrowDone, DeallocDone
<1> QED
  BY <1>1, <1>2, Zenon DEF KernelStep

\* A PTE that maps nothing has no flags.
LEMMA NextNoPte ==
  ASSUME TypeOK, TgtInv, PgInv, \A q \in Proc : Shape(q), NEW p \in Proc,
         UserStep(p) \/ KernelStep(p), NEW r \in Proc, NEW a \in Addr, pt'[r][a].pa = None
  PROVE  pt'[r][a] = NoPte
<1>1. pt[r][a].pa = None => pt[r][a] = NoPte
  BY Zenon DEF Shape
<1>2. ASSUME NEW x PROVE [pa |-> x, w |-> TRUE].pa = x
  BY Zenon
<1>3. CASE CowCopy(p)
  <2>1. pt'[r][a] = IF r = p /\ a = va[p] THEN [pa |-> pg[p], w |-> TRUE] ELSE pt[r][a]
    BY <1>3, CowCopyPt
  <2>2. pg[p] # None
    BY <1>3, CowCopyPt, Zenon
  <2> QED
    BY <1>1, <1>2, <2>1, <2>2, Zenon
<1>4. CASE CopyPage(p)
  <2>1. pt'[r][a].pa = pt[r][a].pa /\ ((r = p /\ a = va[p]) \/ pt'[r][a] = pt[r][a])
    BY <1>4, CopyPagePt
  <2>2. pt[p][va[p]].pa # None
    BY <1>4, CopyPagePt, Zenon
  <2> QED
    BY <1>1, <2>1, <2>2, Zenon
<1>5. CASE MapPage(p)
  BY <1>1, <1>5, MapPagePt
<1>6. CASE GrowMap(p)
  <2>1. pt'[r][a] = IF r = p /\ a = va[p] THEN [pa |-> pg[p], w |-> TRUE] ELSE pt[r][a]
    BY <1>6, GrowMapPt
  <2>2. pg[p] # None
    BY <1>6, GrowMapPt, Zenon
  <2> QED
    BY <1>1, <1>2, <2>1, <2>2, Zenon
<1>7. CASE ClearPte(p)
  BY <1>1, <1>7, ClearPtePt
<1>8. CASE pt' = pt
  BY <1>1, <1>8, Zenon
<1> QED
  BY <1>3, <1>4, <1>5, <1>6, <1>7, <1>8, PtSame, Zenon

\* What p does to its child: it completes or ends it, or maps and unmaps pages.
LEMMA ChildShape ==
  ASSUME TypeOK, TgtInv, PgInv, \A q \in Proc : Shape(q), NEW p \in Proc,
         UserStep(p) \/ KernelStep(p), NEW r \in Proc, r # p, pc[r] = "embryo", pc'[r] # pc[r]
  PROVE  Shape(r)'
<1>0. ThreadOK /\ SpaceOK
  BY Pieces, Zenon
<1>1. r = tgt[p] /\ pc'[r] \in {"user", "dead"}
  BY Others, Zenon
<1>2. ForkDone(p) \/ FreeDone(p)
  <2>1. ASSUME UserStep(p) PROVE FALSE
    <3>1. \A a, v : ~Store(p, a, v)
      BY <1>1, Zenon DEF Store
    <3>2. \A l : Goto(p, l) => pc'[r] = pc[r]
      BY <1>0, Zenon DEF Goto, ThreadOK
    <3>3. \A a, v : ~Copyout(p, a, v)
      BY <1>1, <3>2, Zenon DEF Copyout, Cowfault
    <3>4. \A a : ~StoreFault(p, a)
      BY <1>1, <3>2, Zenon DEF StoreFault, Cowfault, Exits
    <3>5. ~Exit(p) /\ \A n : ~Sbrk(p, n) /\ ~Shrink(p, n)
      BY <1>1, <3>2, Zenon DEF Exit, Exits, Sbrk, Shrink
    <3>6. \A q \in Proc : ~Fork(p, q)
      BY <1>0, <1>1, Zenon DEF Fork, ThreadOK
    <3> QED
      BY <2>1, <3>1, <3>3, <3>4, <3>5, <3>6, Zenon DEF UserStep
  <2>2. CASE KfreePush(p) \/ CowCopy(p) \/ CowFree(p) \/ CopyoutWrite(p) \/ CopyPage(p)
             \/ MapPage(p) \/ MapFails(p) \/ Unmap(p)
    BY <1>0, <1>1, <2>2, Zenon DEF KfreePush, CowCopy, CowFree, CopyoutWrite, CopyPage, MapPage,
                            MapFails, Unmap, Goto, ThreadOK
  <2>3. CASE ClearPte(p) \/ FreeTable(p) \/ GrowAlloc(p) \/ GrowMap(p) \/ GrowFails(p)
             \/ GrowDone(p) \/ DeallocDone(p)
    BY <1>0, <1>1, <2>3, Zenon DEF ClearPte, FreeTable, GrowAlloc, GrowMap, GrowFails, GrowDone,
                            DeallocDone, Goto, ThreadOK
  <2> QED
    BY <2>1, <2>2, <2>3, Zenon DEF KernelStep
<1>3. \A a \in Addr : pt'[r][a].pa = None => pt'[r][a] = NoPte
  BY NextNoPte, Zenon
<1>4. va[p] \in Int /\ sz[p] \in Int /\ hi[p] \in Int
  BY Locals, Zenon
<1>5. CASE ForkDone(p)
  <2>1. pc[p] = "copy" /\ va[p] > sz[p] /\ pt' = pt /\ pc'[r] = "user" /\ sz'[r] = sz[p]
    BY <1>0, <1>1, <1>5, Zenon DEF ForkDone, At, ThreadOK, SpaceOK
  <2>2. va[p] <= sz[p] + 1 /\ \A a \in Addr : pt[tgt[p]][a].pa # None <=> a < va[p]
    BY <2>1, Zenon DEF Shape
  <2>3. \A a \in Addr : a < va[p] <=> a <= sz[p]
    BY <1>4, <2>1, <2>2, AddrOrder, Zenon
  <2>4. \A a \in Addr : pt'[r][a].pa # None <=> a <= sz'[r]
    BY <1>1, <2>1, <2>2, <2>3, Zenon
  <2> QED
    BY <1>3, <2>1, <2>4, Zenon DEF Shape
<1>6. CASE FreeDone(p)
  <2>1. /\ pc[p] = "unmap" /\ va[p] > hi[p] /\ pt' = pt /\ tbl' = tbl /\ tbl[r] = {}
        /\ pc'[r] = "dead"
    BY <1>0, <1>1, <1>6, Zenon DEF FreeDone, At, ThreadOK
  <2>2. \A a \in Addr : pt[tgt[p]][a].pa # None <=> va[p] <= a /\ a <= hi[p]
    BY <2>1, Zenon DEF Shape
  <2>3. \A a \in Addr : ~(va[p] <= a /\ a <= hi[p])
    <3>1. va[p] > hi[p]
      BY <2>1, Zenon
    <3> QED
      BY <1>4, <3>1, AddrOrder, Zenon
  <2>4. \A a \in Addr : pt'[r][a].pa = None
    BY <1>1, <2>1, <2>2, <2>3, Zenon
  <2> QED
    BY <1>3, <2>1, <2>4, Zenon DEF Shape
<1> QED
  BY <1>2, <1>5, <1>6, Zenon

\* What the shape of an address space depends on.
LEMMA SameShape ==
  ASSUME NEW p \in Proc, Shape(p), pc'[p] = pc[p],
         va'[p] = va[p], lo'[p] = lo[p], hi'[p] = hi[p], tgt'[p] = tgt[p], sz'[p] = sz[p],
         pt'[p] = pt[p], pt'[tgt[p]] = pt[tgt[p]], pc[p] = "dead" => tbl'[p] = tbl[p]
  PROVE  Shape(p)'
<1>1. \A a \in Addr : pt'[p][a].pa = None => pt'[p][a] = NoPte
  BY Zenon DEF Shape
<1>2. pc'[p] = "dead" => (\A a \in Addr : pt'[p][a].pa = None) /\ tbl'[p] = {}
  BY Zenon DEF Shape
<1>3. \/ pc'[p] \in {"user", "cow", "cowfree", "out", "copy", "map"}
      \/ pc'[p] = "unmap" /\ tgt'[p] # p
      => \A a \in Addr : pt'[p][a].pa # None <=> a <= sz'[p]
  BY Zenon DEF Shape
<1>4. pc'[p] \in {"cow", "cowfree", "out", "map"} => va'[p] <= sz'[p]
  BY Zenon DEF Shape
<1>5. pc'[p] \in {"copy", "map"} =>
        /\ va'[p] <= sz'[p] + 1
        /\ \A a \in Addr : pt'[tgt'[p]][a].pa # None <=> a < va'[p]
  BY Zenon DEF Shape
<1>6. pc'[p] = "growmap" =>
        /\ \A a \in Addr : pt'[p][a].pa # None <=> a < va'[p]
        /\ lo'[p] = sz'[p] /\ lo'[p] < va'[p] /\ va'[p] <= hi'[p] + 1
  BY Zenon DEF Shape
<1>7. pc'[p] = "dealloc" =>
        /\ \A a \in Addr : pt'[p][a].pa # None <=> a <= lo'[p] \/ (va'[p] <= a /\ a <= hi'[p])
        /\ lo'[p] < va'[p] /\ va'[p] <= hi'[p] + 1
  BY Zenon DEF Shape
<1>8. pc'[p] = "unmap" =>
        /\ \A a \in Addr : pt'[tgt'[p]][a].pa # None <=> va'[p] <= a /\ a <= hi'[p]
        /\ va'[p] <= hi'[p] + 1
  BY Zenon DEF Shape
<1> QED
  BY <1>1, <1>2, <1>3, <1>4, <1>5, <1>6, <1>7, <1>8, Zenon DEF Shape

\* Steps of p leave the shape of the others' address spaces right.
LEMMA OtherShape ==
  ASSUME TypeOK, TgtInv, PgInv, \A q \in Proc : Shape(q), NEW p \in Proc,
         UserStep(p) \/ KernelStep(p), NEW r \in Proc, r # p
  PROVE  Shape(r)'
<1>0. /\ va'[r] = va[r] /\ lo'[r] = lo[r] /\ hi'[r] = hi[r] /\ tgt'[r] = tgt[r]
      /\ pc'[r] # pc[r] =>
           \/ pc[r] = "dead" /\ pc'[r] = "embryo"
           \/ pc[r] = "embryo" /\ r = tgt[p] /\ pc'[r] \in {"user", "dead"}
  BY Others, Zenon
<1>1. \A a \in Addr : pt'[r][a].pa = None => pt'[r][a] = NoPte
  BY NextNoPte, Zenon
<1>2. CASE pc'[r] = "embryo"
  BY <1>1, <1>2, Zenon DEF Shape
<1>3. CASE pc'[r] # pc[r] /\ pc[r] = "embryo"
  BY <1>3, ChildShape, Zenon
<1>4. CASE pc'[r] = pc[r] /\ pc[r] # "embryo"
  <2>1. r # tgt[p]
    BY <1>4 DEF TgtInv
  <2>2. pt'[r] = pt[r] /\ sz'[r] = sz[r] /\ tbl'[r] = tbl[r]
    BY <1>4, <2>1, OtherSpaces, Zenon
  <2>3. pt'[tgt[r]] = pt[tgt[r]]
    <3>1. CASE tgt[r] = r
      BY <2>2, <3>1, Zenon
    <3>2. CASE tgt[r] # r
      <4>1. tgt[r] \in Proc /\ pc[tgt[r]] = "embryo"
        BY <3>2, Locals, Zenon DEF TgtInv
      <4>3. tgt[r] # p
        <5>1. pc[p] # "embryo"
          <6>1. CASE UserStep(p)
            BY <6>1, Zenon DEF UserStep, Store, Copyout, StoreFault, Exit, Sbrk, Shrink, Fork, At
          <6>2. CASE KernelStep(p)
            <7>1. CASE KfreePush(p)
              BY <7>1, Zenon DEF KfreePush, PgInv
            <7>2. CASE ~KfreePush(p)
              BY <6>2, <7>2, Zenon DEF KernelStep, CowCopy, CowFree, CopyoutWrite, CopyPage, MapPage,
                     MapFails, ForkDone, Unmap, ClearPte, FreeTable, FreeDone, GrowAlloc,
                     GrowMap, GrowFails, GrowDone, DeallocDone, At
            <7> QED
              BY <7>1, <7>2, Zenon
          <6> QED
            BY <6>1, <6>2, Zenon
        <5> QED
          BY <4>1, <5>1, Zenon
      <4>4. tgt[r] # tgt[p]
        BY <3>2, <4>3, Zenon DEF TgtInv
      <4> QED
        BY <4>1, <4>3, <4>4, OtherSpaces, Zenon
    <3> QED
      BY <3>1, <3>2, Zenon
  <2>4. Shape(r)
    BY Zenon
  <2> QED
    BY <1>0, <1>4, <2>2, <2>3, <2>4, SameShape, Zenon
<1> QED
  BY <1>0, <1>2, <1>3, <1>4, Zenon

\* The pages of the process that makes a step.
LEMMA OwnShape ==
  ASSUME TypeOK, TgtInv, PgInv, \A q \in Proc : Shape(q), NEW p \in Proc,
         UserStep(p) \/ KernelStep(p)
  PROVE  Shape(p)'
<1>0. ThreadOK /\ SpaceOK /\ Shape(p)
  BY Pieces, Zenon
<1>i. /\ va[p] \in Int /\ sz[p] \in Int /\ hi[p] \in Int /\ lo[p] \in Int
      /\ tgt[p] \in Proc
  BY Locals, Zenon
<1>n. \A a \in Addr : pt'[p][a].pa = None => pt'[p][a] = NoPte
  BY NextNoPte, Zenon
<1>u. pc[p] \in {"user", "cow", "cowfree", "out", "copy", "map"} =>
        \A a \in Addr : pt[p][a].pa # None <=> a <= sz[p]
  BY <1>0, Zenon DEF Shape
<1>1. CASE UserStep(p)
  <2>1. ASSUME NEW a, NEW v, Store(p, a, v) PROVE Shape(p)'
    BY <1>0, <2>1, SameShape, Zenon DEF Store, At, locals
  <2>2. ASSUME NEW a, pc[p] = "user", Cowfault(p, a), a <= sz[p], UNCHANGED <<pt, sz>>
        PROVE  Shape(p)'
    <3>1. pc'[p] = "cow" /\ va'[p] = a
      BY <1>0, <2>2, Zenon DEF Cowfault, Goto, Set, ThreadOK
    <3> QED
      BY <1>n, <1>u, <2>2, <3>1, Zenon DEF Shape
  <2>3. ASSUME pc[p] = "user", Exits(p), UNCHANGED <<pt, sz>> PROVE Shape(p)'
    <3>1. pc'[p] = "unmap" /\ va'[p] = 1 /\ hi'[p] = sz[p] /\ tgt'[p] = p
      BY <1>0, <2>3, Zenon DEF Exits, Goto, Set, ThreadOK
    <3>2. \A a \in Addr : pt'[p][a].pa # None <=> 1 <= a /\ a <= sz[p]
      BY <1>u, <2>3, AddrOrder, Zenon
    <3>3. 1 <= sz[p] + 1
      BY Positive, Zenon
    <3> QED
      BY <1>n, <3>1, <3>2, <3>3, Zenon DEF Shape
  <2>4. ASSUME NEW a, NEW v, Copyout(p, a, v) PROVE Shape(p)'
    BY <2>2, <2>4, Zenon DEF Copyout, At
  <2>5. ASSUME NEW a, StoreFault(p, a) PROVE Shape(p)'
    BY <2>2, <2>3, <2>5, Zenon DEF StoreFault, At
  <2>6. CASE Exit(p)
    BY <2>3, <2>6, Zenon DEF Exit, At
  <2>7. ASSUME NEW q \in Proc, Fork(p, q) PROVE Shape(p)'
    <3>1. /\ pc[p] = "user" /\ pc[q] = "dead" /\ UNCHANGED <<pt, sz>>
          /\ pc'[p] = "copy" /\ va'[p] = 1 /\ tgt'[p] = q
      BY <1>0, <2>7, Zenon DEF Fork, At, Set, ThreadOK
    <3>2. \A a \in Addr : pt[q][a].pa = None
      BY <3>1, Zenon DEF Shape
    <3>3. \A a \in Addr : pt'[q][a].pa # None <=> a < 1
      BY <3>1, <3>2, AddrOrder, Zenon
    <3>4. 1 <= sz[p] + 1
      BY Positive, Zenon
    <3> QED
      BY <1>n, <1>u, <3>1, <3>3, <3>4, Zenon DEF Shape
  <2>8. ASSUME NEW n \in 1 .. MaxSz, Sbrk(p, n) PROVE Shape(p)'
    <3>1. /\ pc[p] = "user" /\ UNCHANGED <<pt, sz>>
          /\ pc'[p] = "growmap" /\ va'[p] = sz[p] + 1 /\ lo'[p] = sz[p] /\ hi'[p] = sz[p] + n
      BY <1>0, <2>8, Zenon DEF Sbrk, At, Goto, Set, ThreadOK
    <3>0. \A a \in Addr : a < sz[p] + 1 <=> a <= sz[p]
      BY <1>i, AddrOrder, Zenon
    <3>2. \A a \in Addr : pt'[p][a].pa # None <=> a < sz[p] + 1
      BY <1>u, <3>0, <3>1, Zenon
    <3>3. sz[p] < sz[p] + 1 /\ sz[p] + 1 <= sz[p] + n + 1
      BY <1>i, Bounds
    <3> QED
      BY <1>n, <3>1, <3>2, <3>3, Zenon DEF Shape
  <2>9. ASSUME NEW n \in 1 .. MaxSz, Shrink(p, n) PROVE Shape(p)'
    <3>1. /\ pc[p] = "user" /\ UNCHANGED <<pt, sz>> /\ n < sz[p]
          /\ pc'[p] = "dealloc" /\ va'[p] = n + 1 /\ lo'[p] = n /\ hi'[p] = sz[p]
      BY <1>0, <2>9, Zenon DEF Shrink, At, Goto, Set, ThreadOK
    <3>2. n \in Int
      BY Bounds
    <3>0. n < sz[p]
      BY <3>1, Zenon
    <3>5. \A a \in Addr : a <= sz[p] <=> a <= n \/ (n + 1 <= a /\ a <= sz[p])
      BY <1>i, <3>0, <3>2, AddrOrder, Zenon
    <3>3. \A a \in Addr : pt'[p][a].pa # None <=> a <= n \/ (n + 1 <= a /\ a <= sz[p])
      BY <1>u, <3>1, <3>5, Zenon
    <3>4. n < n + 1 /\ n + 1 <= sz[p] + 1
      BY <1>i, <3>1, <3>2
    <3> QED
      BY <1>n, <3>1, <3>3, <3>4, Zenon DEF Shape
  <2> QED
    BY <1>1, <2>1, <2>4, <2>5, <2>6, <2>7, <2>8, <2>9, Zenon DEF UserStep
<1>2. CASE KfreePush(p) \/ Unmap(p) \/ FreeTable(p) \/ GrowAlloc(p)
  <2>1. UNCHANGED <<pt, sz, pc, va, lo, hi, tgt>>
    BY <1>2, Zenon DEF KfreePush, Unmap, FreeTable, GrowAlloc, locals
  <2>2. pc[p] # "dead"
    BY <1>2, Zenon DEF KfreePush, Unmap, FreeTable, GrowAlloc, At, PgInv
  <2> QED
    BY <1>0, <2>1, <2>2, SameShape, Zenon
<1>3. CASE CowCopy(p)
  <2>1. /\ va[p] \in Addr /\ pg[p] # None /\ pt[p][va[p]].pa # None
        /\ \A b \in Addr :
             pt'[p][b] = IF b = va[p] THEN [pa |-> pg[p], w |-> TRUE] ELSE pt[p][b]
    BY <1>3, <1>0, CowCopyPt, Zenon
  <2>2. [pa |-> pg[p], w |-> TRUE].pa = pg[p]
    BY Zenon
  <2>3. pc[p] = "cow" /\ pc'[p] = "cowfree" /\ va' = va /\ sz' = sz
    BY <1>0, <1>3, Zenon DEF CowCopy, At, Goto, ThreadOK
  <2>4. \A a \in Addr : pt'[p][a].pa # None <=> a <= sz[p]
    BY <1>u, <2>1, <2>2, <2>3, Zenon
  <2>5. va[p] <= sz[p]
    BY <1>0, <2>3, Zenon DEF Shape
  <2> QED
    BY <1>n, <2>3, <2>4, <2>5, Zenon DEF Shape
<1>4. CASE CowFree(p) \/ CopyoutWrite(p)
  <2>1. /\ pc[p] \in {"cowfree", "out"} /\ pc'[p] \in {"user", "out"}
        /\ UNCHANGED <<pt, sz, va>>
    BY <1>0, <1>4, Zenon DEF CowFree, CopyoutWrite, At, Goto, ThreadOK
  <2>2. va[p] <= sz[p]
    BY <1>0, <2>1, Zenon DEF Shape
  <2> QED
    BY <1>n, <1>u, <2>1, <2>2, Zenon DEF Shape
<1>5. CASE CopyPage(p)
  <2>1. /\ pc[p] = "copy" /\ pc'[p] = "map" /\ UNCHANGED <<sz, va, tgt>> /\ va[p] <= sz[p]
    BY <1>0, <1>5, Zenon DEF CopyPage, At, Goto, locals, ThreadOK
  <2>2. \A r \in Proc, b \in Addr : pt'[r][b].pa = pt[r][b].pa
    BY <1>0, <1>5, CopyPagePt, Zenon
  <2>3. va[p] <= sz[p] + 1 /\ \A a \in Addr : pt[tgt[p]][a].pa # None <=> a < va[p]
    BY <1>0, <2>1, Zenon DEF Shape
  <2>4. \A a \in Addr : pt'[tgt[p]][a].pa # None <=> a < va[p]
    BY <1>i, <2>2, <2>3, Zenon
  <2>5. \A a \in Addr : pt'[p][a].pa # None <=> a <= sz[p]
    BY <1>u, <2>1, <2>2, Zenon
  <2> QED
    BY <1>n, <2>1, <2>3, <2>4, <2>5, Zenon DEF Shape
<1>6. CASE MapPage(p)
  <2>1. /\ pc[p] = "map" /\ pc'[p] = "copy" /\ UNCHANGED <<sz, tgt>> /\ va'[p] = va[p] + 1
        /\ tgt[p] # p
    BY <1>0, <1>6 DEF MapPage, At, Goto, Set, ThreadOK, TgtInv
  <2>2. /\ va[p] \in Addr /\ pt[p][va[p]].pa # None
        /\ \A r \in Proc, b \in Addr :
             pt'[r][b] = IF r = tgt[p] /\ b = va[p] THEN pt[p][va[p]] ELSE pt[r][b]
    BY <1>0, <1>6, MapPagePt, Zenon
  <2>3. va[p] <= sz[p] /\ \A a \in Addr : pt[tgt[p]][a].pa # None <=> a < va[p]
    BY <1>0, <2>1, Zenon DEF Shape
  <2>4. \A a \in Addr : a < va[p] + 1 <=> a < va[p] \/ a = va[p]
    BY <1>i, AddrOrder, Zenon
  <2>5. \A a \in Addr : pt'[tgt[p]][a].pa # None <=> a < va[p] + 1
    BY <1>i, <2>2, <2>3, <2>4, Zenon
  <2>6. \A a \in Addr : pt'[p][a].pa # None <=> a <= sz[p]
    BY <1>u, <2>1, <2>2, Zenon
  <2>7. va[p] + 1 <= sz[p] + 1
    BY <1>i, <2>3
  <2> QED
    BY <1>n, <2>1, <2>5, <2>6, <2>7, Zenon DEF Shape
<1>7. CASE MapFails(p)
  <2>1. /\ pc[p] = "map" /\ pc'[p] = "unmap" /\ UNCHANGED <<pt, sz, tgt>>
        /\ va'[p] = 1 /\ hi'[p] = va[p] - 1
    BY <1>0, <1>7, Zenon DEF MapFails, At, Goto, Set, ThreadOK
  <2>2. \A a \in Addr : pt[tgt[p]][a].pa # None <=> a < va[p]
    BY <1>0, <2>1, Zenon DEF Shape
  <2>3. \A a \in Addr : a < va[p] <=> 1 <= a /\ a <= va[p] - 1
    BY <1>i, AddrOrder, Zenon
  <2>4. 1 <= va[p] - 1 + 1
    BY Positive, Zenon
  <2> QED
    BY <1>n, <1>u, <2>1, <2>2, <2>3, <2>4, Zenon DEF Shape
<1>8. CASE ForkDone(p)
  <2>1. tgt[p] # p /\ pc[p] = "copy"
    BY <1>8, Zenon DEF ForkDone, At, TgtInv
  <2>2. pc'[p] = "user" /\ pt' = pt /\ sz'[p] = sz[p]
    BY <1>0, <1>8, <2>1, Zenon DEF ForkDone, ThreadOK, SpaceOK
  <2> QED
    BY <1>n, <1>u, <2>1, <2>2, Zenon DEF Shape
<1>9. CASE ClearPte(p)
  <2>1. /\ pc[p] \in {"unmap", "dealloc"} /\ UNCHANGED <<pc, sz, lo, hi, tgt>>
        /\ va'[p] = va[p] + 1
    BY <1>0, <1>9, Zenon DEF ClearPte, At, Set, ThreadOK
  <2>2. /\ va[p] \in Addr /\ va[p] <= hi[p]
        /\ \A r \in Proc, b \in Addr :
             pt'[r][b] = IF r = tgt[p] /\ b = va[p] THEN NoPte ELSE pt[r][b]
    BY <1>9, ClearPtePt, Zenon
  <2>3. NoPte.pa = None
    BY Zenon DEF NoPte
  <2>4. CASE pc[p] = "unmap"
    <3>1. \A a \in Addr : pt[tgt[p]][a].pa # None <=> va[p] <= a /\ a <= hi[p]
      BY <1>0, <2>4, Zenon DEF Shape
    <3>2. \A a \in Addr : va[p] + 1 <= a <=> va[p] <= a /\ a # va[p]
      BY <1>i, AddrOrder, Zenon
    <3>3. \A a \in Addr : pt'[tgt[p]][a].pa # None <=> va[p] + 1 <= a /\ a <= hi[p]
      BY <1>i, <2>2, <2>3, <3>1, <3>2, Zenon
    <3>4. va[p] + 1 <= hi[p] + 1
      BY <1>i, <2>2
    <3>5. tgt[p] # p => \A a \in Addr : pt'[p][a].pa # None <=> a <= sz[p]
      <4>1. tgt[p] # p => \A a \in Addr : pt[p][a].pa # None <=> a <= sz[p]
        BY <1>0, <2>4, Zenon DEF Shape
      <4> QED
        BY <2>2, <4>1, Zenon
    <3>6. /\ pc'[p] = "unmap" /\ va'[p] = va[p] + 1 /\ hi'[p] = hi[p]
          /\ sz'[p] = sz[p] /\ tgt'[p] = tgt[p]
      BY <2>1, <2>4, Zenon
    <3> QED
      BY <1>n, <3>3, <3>4, <3>5, <3>6, Zenon DEF Shape
  <2>5. CASE pc[p] = "dealloc"
    <3>0. tgt[p] = p
      BY <2>5, Zenon DEF TgtInv
    <3>1. /\ \A a \in Addr : pt[p][a].pa # None <=> a <= lo[p] \/ (va[p] <= a /\ a <= hi[p])
          /\ lo[p] < va[p]
      BY <1>0, <2>5, Zenon DEF Shape
    <3>2. \A a \in Addr : va[p] + 1 <= a <=> va[p] <= a /\ a # va[p]
      BY <1>i, AddrOrder, Zenon
    <3>3. ASSUME NEW a \in Addr
          PROVE  pt'[p][a].pa # None <=> a <= lo[p] \/ (va[p] + 1 <= a /\ a <= hi[p])
      <4>1. CASE a = va[p]
        <5>1. ~(a <= lo[p]) /\ ~(va[p] + 1 <= a)
          BY <1>i, <3>1, <4>1, AddrOrder, Zenon
        <5> QED
          BY <2>2, <2>3, <3>0, <4>1, <5>1, Zenon
      <4>2. CASE a # va[p]
        <5>1. pt'[p][a] = pt[p][a]
          BY <2>2, <4>2, Zenon
        <5> QED
          BY <3>1, <3>2, <4>2, <5>1, Zenon
      <4> QED
        BY <4>1, <4>2, Zenon
    <3>4. va[p] + 1 <= hi[p] + 1 /\ lo[p] < va[p] + 1
      BY <1>i, <2>2, <3>1
    <3>5. pc'[p] = "dealloc" /\ va'[p] = va[p] + 1 /\ hi'[p] = hi[p] /\ lo'[p] = lo[p]
      BY <2>1, <2>5, Zenon
    <3>6. \A a \in Addr : pt'[p][a].pa # None <=> a <= lo'[p] \/ (va'[p] <= a /\ a <= hi'[p])
      BY <3>3, <3>5, Zenon
    <3>7. lo'[p] < va'[p] /\ va'[p] <= hi'[p] + 1
      BY <3>4, <3>5, Zenon
    <3> QED
      BY <1>n, <3>5, <3>6, <3>7, Zenon DEF Shape
  <2> QED
    BY <2>1, <2>4, <2>5, Zenon
<1>10. CASE FreeDone(p)
  <2>1. pc[p] = "unmap" /\ va[p] > hi[p] /\ pt' = pt /\ tbl' = tbl /\ tbl[tgt[p]] = {}
    BY <1>10, Zenon DEF FreeDone, At
  <2>2. CASE tgt[p] = p
    <3>1. pc'[p] = "dead"
      BY <1>0, <1>10, <2>2, Zenon DEF FreeDone, ThreadOK
    <3>2. \A a \in Addr : pt[tgt[p]][a].pa # None <=> va[p] <= a /\ a <= hi[p]
      BY <1>0, <2>1, Zenon DEF Shape
    <3>3. \A a \in Addr : ~(va[p] <= a /\ a <= hi[p])
      BY <1>i, <2>1, AddrOrder, Zenon
    <3>4. \A a \in Addr : pt'[p][a].pa = None
      BY <2>1, <2>2, <3>2, <3>3, Zenon
    <3> QED
      BY <1>n, <2>1, <2>2, <3>1, <3>4, Zenon DEF Shape
  <2>3. CASE tgt[p] # p
    <3>1. pc'[p] = "user" /\ sz'[p] = sz[p]
      BY <1>0, <1>10, <2>3, Zenon DEF FreeDone, ThreadOK, SpaceOK
    <3>2. \A a \in Addr : pt[p][a].pa # None <=> a <= sz[p]
      BY <1>0, <2>1, <2>3, Zenon DEF Shape
    <3> QED
      BY <1>n, <2>1, <3>1, <3>2, Zenon DEF Shape
  <2> QED
    BY <2>2, <2>3, Zenon
<1>h. pc[p] = "growmap" => lo[p] = sz[p] /\ lo[p] < va[p] /\ va[p] <= hi[p] + 1
  BY <1>0, Zenon DEF Shape
<1>g. pc[p] = "growmap" =>
        /\ \A a \in Addr : pt[p][a].pa # None <=> a < va[p]
        /\ lo[p] = sz[p] /\ lo[p] < va[p] /\ va[p] <= hi[p] + 1
  BY <1>0, Zenon DEF Shape
<1>11. CASE GrowMap(p)
  <2>1. pc[p] = "growmap" /\ UNCHANGED <<pc, sz, lo, hi>> /\ va'[p] = va[p] + 1
    BY <1>0, <1>11, Zenon DEF GrowMap, At, Set, ThreadOK
  <2>2. /\ va[p] \in Addr /\ pg[p] # None
        /\ \A b \in Addr :
             pt'[p][b] = IF b = va[p] THEN [pa |-> pg[p], w |-> TRUE] ELSE pt[p][b]
    BY <1>0, <1>11, GrowMapPt, Zenon
  <2>3. va[p] <= hi[p]
    BY <2>1, <2>2, Zenon DEF PgInv
  <2>4. \A a \in Addr : a < va[p] + 1 <=> a < va[p] \/ a = va[p]
    BY <1>i, AddrOrder, Zenon
  <2>5. [pa |-> pg[p], w |-> TRUE].pa = pg[p]
    BY Zenon
  <2>6. \A a \in Addr : pt'[p][a].pa # None <=> a < va[p] + 1
    BY <1>g, <2>1, <2>2, <2>4, <2>5, Zenon
  <2>7. lo[p] < va[p] + 1 /\ va[p] + 1 <= hi[p] + 1
    BY <1>g, <1>i, <2>1, <2>3
  <2> QED
    BY <1>g, <1>n, <2>1, <2>6, <2>7, Zenon DEF Shape
<1>12. CASE GrowFails(p)
  <2>1. /\ pc[p] = "growmap" /\ pc'[p] = "dealloc" /\ UNCHANGED <<pt, sz, lo>>
        /\ hi'[p] = va[p] - 1 /\ va'[p] = lo[p] + 1
    BY <1>0, <1>12, Zenon DEF GrowFails, At, Goto, Set, ThreadOK
  <2>0. lo[p] < va[p]
    BY <1>h, <2>1, Zenon
  <2>2. \A a \in Addr : a < va[p] <=> a <= lo[p] \/ (lo[p] + 1 <= a /\ a <= va[p] - 1)
    BY <1>i, <2>0, AddrOrder, Zenon
  <2>3. lo[p] < lo[p] + 1 /\ lo[p] + 1 <= va[p] - 1 + 1
    BY <1>i, <2>0
  <2>4. \A a \in Addr : pt'[p][a].pa # None <=> a <= lo[p] \/ (lo[p] + 1 <= a /\ a <= va[p] - 1)
    BY <1>g, <2>1, <2>2, Zenon
  <2>5. lo'[p] = lo[p]
    BY <2>1, Zenon
  <2>6. \A a \in Addr : pt'[p][a].pa # None <=> a <= lo'[p] \/ (va'[p] <= a /\ a <= hi'[p])
    BY <2>1, <2>4, <2>5, Zenon
  <2>7. lo'[p] < va'[p] /\ va'[p] <= hi'[p] + 1
    BY <2>1, <2>3, <2>5, Zenon
  <2> QED
    BY <1>n, <2>1, <2>6, <2>7, Zenon DEF Shape
<1>13. CASE GrowDone(p)
  <2>1. /\ pc[p] = "growmap" /\ pc'[p] = "user" /\ pt' = pt /\ sz'[p] = hi[p] /\ va[p] > hi[p]
    BY <1>0, <1>13, Zenon DEF GrowDone, At, Goto, ThreadOK, SpaceOK
  <2>0. va[p] > hi[p] /\ va[p] <= hi[p] + 1
    BY <1>h, <2>1, Zenon
  <2>2. \A a \in Addr : a < va[p] <=> a <= hi[p]
    BY <1>i, <2>0, AddrOrder, Zenon
  <2> QED
    BY <1>g, <1>n, <2>1, <2>2, Zenon DEF Shape
<1>14. CASE DeallocDone(p)
  <2>1. /\ pc[p] = "dealloc" /\ pc'[p] = "user" /\ pt' = pt /\ sz'[p] = lo[p] /\ va[p] > hi[p]
    BY <1>0, <1>14, Zenon DEF DeallocDone, At, Goto, ThreadOK, SpaceOK
  <2>2. \A a \in Addr : pt[p][a].pa # None <=> a <= lo[p] \/ (va[p] <= a /\ a <= hi[p])
    BY <1>0, <2>1, Zenon DEF Shape
  <2>0. va[p] > hi[p]
    BY <2>1, Zenon
  <2>3. \A a \in Addr : ~(va[p] <= a /\ a <= hi[p])
    BY <1>i, <2>0, AddrOrder, Zenon
  <2> QED
    BY <1>n, <2>1, <2>2, <2>3, Zenon DEF Shape
<1> QED
  BY <1>1, <1>2, <1>3, <1>4, <1>5, <1>6, <1>7, <1>8, <1>9, <1>10, <1>11, <1>12, <1>13,
     <1>14, Zenon DEF KernelStep

-----------------------------------------------------------------------------
(* References and their counts *)

\* What holds a reference to page x: the PTE of page a of q; q, as a table; a
\* local variable of q; a PTE of q that uvmcopy() is about to copy.
Holds(k, q, a, x) ==
  \/ k = "pte" /\ a \in Addr /\ pt[q][a].pa = x /\ ~Stale(<<q, a>>)
  \/ k = "tbl" /\ a = 0 /\ x \in tbl[q]
  \/ k = "pg" /\ a = 0 /\ pg[q] = x /\ pc[q] \in {"cow", "cowfree", "growmap"}
  \/ k = "map" /\ a = 0 /\ pc[q] = "map" /\ pt[q][va[q]].pa = x

Kind == {"pte", "tbl", "pg", "map"}
Sites == (Kind \X Proc) \X (0 .. MaxSz)
Refs(x) == {s \in Sites : Holds(s[1][1], s[1][2], s[2], x)}
Count(x) == Cardinality(Refs(x))

\* Counts are no smaller than the references, and what is free or about to
\* be has none.
CountInv ==
  /\ ~panicked
  /\ \A x \in Page : Count(x) <= refcnt[x]
  /\ \A x \in free : refcnt[x] = 0
  /\ \A p \in Proc : kf[p] # None => refcnt[kf[p]] = 0 /\ kf[p] \notin free
  /\ \A p, r \in Proc : kf[p] # None /\ kf[p] = kf[r] => p = r

IInv == TypeOK /\ TgtInv /\ PgInv /\ (\A p \in Proc : Shape(p)) /\ CountInv

-----------------------------------------------------------------------------
(* Counting references *)

\* What can refer to a page, and what does, is finite.
LEMMA RefsFinite ==
  ASSUME NEW x PROVE IsFiniteSet(Refs(x)) /\ IsFiniteSet(Refs(x)')
<1>1. IsFiniteSet(Kind)
  <2>1. Kind = {"pte"} \cup {"tbl"} \cup {"pg"} \cup {"map"}
    BY Zenon DEF Kind
  <2> QED
    BY <2>1, FS_Singleton, FS_Union, Zenon
<1>2. IsFiniteSet(0 .. MaxSz)
  BY Bounds, FS_Interval
<1>3. IsFiniteSet(Kind \X Proc)
  BY <1>1, Bounds, FS_Product, Zenon
<1>4. IsFiniteSet(Sites)
  BY <1>2, <1>3, FS_Product, Zenon DEF Sites
<1>5. Refs(x) \subseteq Sites /\ Refs(x)' \subseteq Sites
  BY Zenon DEF Refs, Sites, Kind
<1> QED
  BY <1>4, <1>5, FS_Subset, Zenon

\* Sets that differ in an element or two.
LEMMA SetCounts ==
  ASSUME NEW S, NEW T, IsFiniteSet(S), IsFiniteSet(T), NEW e, NEW f
  PROVE  /\ Cardinality(S) \in Nat /\ Cardinality(T) \in Nat
         /\ T \subseteq S => Cardinality(T) <= Cardinality(S)
         /\ T \subseteq S \cup {e} => Cardinality(T) <= Cardinality(S) + 1
         /\ e \in S /\ T \subseteq S \ {e} => Cardinality(T) <= Cardinality(S) - 1
         /\ e \in S /\ T \subseteq (S \ {e}) \cup {f} => Cardinality(T) <= Cardinality(S)
<1>1. Cardinality(S) \in Nat /\ Cardinality(T) \in Nat
  BY FS_CardinalityType, Zenon
<1>2. T \subseteq S => Cardinality(T) <= Cardinality(S)
  BY FS_Subset, Zenon
<1>3. ASSUME NEW R, IsFiniteSet(R), T \subseteq R \cup {e}
      PROVE  Cardinality(T) <= Cardinality(R) + 1
  <2>1. /\ IsFiniteSet(R \cup {e}) /\ Cardinality(R) \in Nat
        /\ Cardinality(R \cup {e}) = IF e \in R THEN Cardinality(R) ELSE Cardinality(R) + 1
    BY <1>3, FS_AddElement, FS_CardinalityType, Zenon
  <2>2. Cardinality(T) <= Cardinality(R \cup {e})
    BY <1>3, <2>1, FS_Subset, Zenon
  <2> QED
    BY <1>1, <2>1, <2>2
<1>4. ASSUME e \in S
      PROVE  /\ IsFiniteSet(S \ {e}) /\ Cardinality(S \ {e}) = Cardinality(S) - 1
  BY <1>4, FS_RemoveElement, Zenon
<1>5. ASSUME e \in S, T \subseteq S \ {e} PROVE Cardinality(T) <= Cardinality(S) - 1
  BY <1>4, <1>5, FS_Subset
<1>6. ASSUME e \in S, T \subseteq (S \ {e}) \cup {f} PROVE Cardinality(T) <= Cardinality(S)
  <2>1. /\ IsFiniteSet(S \ {e}) /\ Cardinality(S \ {e}) = Cardinality(S) - 1
    BY <1>4, <1>6, Zenon
  <2>2. /\ IsFiniteSet((S \ {e}) \cup {f})
        /\ \/ Cardinality((S \ {e}) \cup {f}) = Cardinality(S \ {e})
           \/ Cardinality((S \ {e}) \cup {f}) = Cardinality(S \ {e}) + 1
    BY <2>1, FS_AddElement, Zenon
  <2>3. Cardinality(T) <= Cardinality((S \ {e}) \cup {f})
    BY <1>6, <2>2, FS_Subset, Zenon
  <2> QED
    BY <1>1, <2>1, <2>2, <2>3
<1> QED
  BY <1>1, <1>2, <1>3, <1>5, <1>6, Zenon

\* A step adds no reference to page x; it adds none but that of site k, q, a.
Kept(x) ==
  \A m \in Kind, s \in Proc, c \in 0 .. MaxSz : Holds(m, s, c, x)' => Holds(m, s, c, x)
KeptBut(x, k, q, a) ==
  \A m \in Kind, s \in Proc, c \in 0 .. MaxSz :
    Holds(m, s, c, x)' => Holds(m, s, c, x) \/ (m = k /\ s = q /\ c = a)

\* What a step does to the number of references to a page.
LEMMA RefCounts ==
  ASSUME NEW x, NEW k, NEW q, NEW a, NEW l, NEW r, NEW b
  PROVE  /\ Count(x) \in Nat /\ Count(x)' \in Nat
         /\ Kept(x) => Count(x)' <= Count(x)
         /\ KeptBut(x, k, q, a) => Count(x)' <= Count(x) + 1
         /\ k \in Kind /\ q \in Proc /\ a \in 0 .. MaxSz /\ Holds(k, q, a, x) =>
              /\ Count(x) >= 1
              /\ ~Holds(k, q, a, x)' =>
                   /\ Kept(x) => Count(x)' <= Count(x) - 1
                   /\ KeptBut(x, l, r, b) => Count(x)' <= Count(x)
<1> DEFINE e == <<<<k, q>>, a>>
           f == <<<<l, r>>, b>>
           S == Refs(x)
           T == Refs(x)'
<1>1. IsFiniteSet(S) /\ IsFiniteSet(T)
  BY RefsFinite, Zenon
<1>2. Count(x) = Cardinality(S) /\ Count(x)' = Cardinality(T)
  BY Zenon DEF Count
<1>3. \A m \in Kind, s \in Proc, c \in 0 .. MaxSz :
        /\ <<<<m, s>>, c>> \in S <=> Holds(m, s, c, x)
        /\ <<<<m, s>>, c>> \in T <=> Holds(m, s, c, x)'
  BY Zenon DEF Refs, Sites, Kind
<1>4. \A u \in S \cup T : \E m \in Kind, s \in Proc, c \in 0 .. MaxSz : u = <<<<m, s>>, c>>
  BY DEF Refs, Sites, Kind
<1> HIDE DEF S, T
<1>5. Kept(x) => T \subseteq S
  BY <1>3, <1>4 DEF Kept
<1>6. KeptBut(x, k, q, a) => T \subseteq S \cup {e}
  BY <1>3, <1>4 DEF KeptBut
<1>7. KeptBut(x, l, r, b) => T \subseteq S \cup {f}
  BY <1>3, <1>4 DEF KeptBut
<1>8. ASSUME k \in Kind, q \in Proc, a \in 0 .. MaxSz
      PROVE  /\ Holds(k, q, a, x) => e \in S
             /\ ~Holds(k, q, a, x)' => e \notin T
  BY <1>3, <1>8, Zenon
<1> HIDE DEF e, f
<1>9. /\ Cardinality(S) \in Nat /\ Cardinality(T) \in Nat
      /\ T \subseteq S => Cardinality(T) <= Cardinality(S)
      /\ T \subseteq S \cup {e} => Cardinality(T) <= Cardinality(S) + 1
      /\ e \in S /\ T \subseteq S \ {e} => Cardinality(T) <= Cardinality(S) - 1
      /\ e \in S /\ T \subseteq (S \ {e}) \cup {f} => Cardinality(T) <= Cardinality(S)
  BY <1>1, SetCounts, Zenon
<1>10. e \in S => Cardinality(S) >= 1
  <2>1. e \in S => Cardinality(S) # 0
    BY <1>1, FS_EmptySet, Zenon
  <2> QED
    BY <1>9, <2>1
<1>11. e \notin T /\ T \subseteq S => T \subseteq S \ {e}
  BY Zenon
<1>12. e \notin T /\ T \subseteq S \cup {f} => T \subseteq (S \ {e}) \cup {f}
  BY Zenon
<1> QED
  BY <1>2, <1>5, <1>6, <1>7, <1>8, <1>9, <1>10, <1>11, <1>12, Zenon

\* Steps that leave the allocator alone keep the counts.
LEMMA CountSame ==
  ASSUME CountInv, TypeOK, UNCHANGED <<allocator, kf>>,
         \A x \in Page : Kept(x) \/ Count(x)' <= Count(x)
  PROVE  CountInv'
<1>1. ASSUME NEW x \in Page PROVE (Count(x) <= refcnt[x])'
  <2>1. /\ Count(x) \in Nat /\ Count(x)' \in Nat /\ Count(x)' <= Count(x)
    BY RefCounts, Zenon
  <2>2. Count(x) <= refcnt[x] /\ refcnt'[x] = refcnt[x] /\ refcnt[x] \in Nat
    BY Zenon DEF CountInv, allocator, TypeOK
  <2> QED
    BY <2>1, <2>2
<1> QED
  BY <1>1, Zenon DEF CountInv, allocator

\* kfree() puts the page it took to 0 on the free list.
LEMMA CountPush ==
  ASSUME CountInv, TypeOK, NEW p \in Proc, KfreePush(p), \A x \in Page : Kept(x)
  PROVE  CountInv'
<1>0. UNCHANGED <<refcnt, panicked>> /\ free' = free \cup {kf[p]}
  BY Zenon DEF KfreePush
<1>1. ASSUME NEW x \in Page PROVE (Count(x) <= refcnt[x])'
  <2>1. /\ Count(x) \in Nat /\ Count(x)' \in Nat /\ Count(x)' <= Count(x)
    BY RefCounts, Zenon
  <2>2. Count(x) <= refcnt[x] /\ refcnt'[x] = refcnt[x] /\ refcnt[x] \in Nat
    BY <1>0, Zenon DEF CountInv, TypeOK
  <2> QED
    BY <2>1, <2>2
<1>2. /\ kf[p] # None
      /\ \A r \in Proc : kf'[r] = IF r = p THEN None ELSE kf[r]
  BY Zenon DEF KfreePush, TypeOK
<1>3. \A x \in free' : refcnt'[x] = 0
  BY <1>0, <1>2, Zenon DEF CountInv
<1>4. ASSUME NEW r \in Proc, kf'[r] # None PROVE refcnt'[kf'[r]] = 0 /\ kf'[r] \notin free'
  BY <1>0, <1>2, <1>4, Zenon DEF CountInv
<1>5. ASSUME NEW r \in Proc, NEW s \in Proc, kf'[r] # None, kf'[r] = kf'[s] PROVE r = s
  BY <1>2, <1>5, Zenon DEF CountInv
<1> QED
  BY <1>0, <1>1, <1>3, <1>4, <1>5, Zenon DEF CountInv

\* kalloc() of page y, which one variable or table gets to refer to.
LEMMA CountAlloc ==
  ASSUME CountInv, TypeOK, NEW y \in Page, Kalloc(y), UNCHANGED kf,
         NEW k, NEW q, NEW a, KeptBut(y, k, q, a),
         \A x \in Page \ {y} : Count(x)' <= Count(x)
  PROVE  CountInv'
<1>0. /\ y \in free /\ free' = free \ {y} /\ refcnt[y] = 0
      /\ panicked' = (panicked \/ refcnt[y] # 0)
      /\ \A x \in Page : refcnt'[x] = (IF x = y THEN 1 ELSE refcnt[x]) /\ refcnt[x] \in Nat
  BY Zenon DEF Kalloc, CountInv, TypeOK
<1>1. ASSUME NEW x \in Page PROVE (Count(x) <= refcnt[x])'
  <2>1. /\ Count(x) \in Nat /\ Count(x)' \in Nat /\ Count(x) <= refcnt[x]
    BY RefCounts, Zenon DEF CountInv
  <2>2. CASE x = y
    <3>1. Count(x)' <= Count(x) + 1
      BY <2>2, RefCounts, Zenon
    <3>2. refcnt'[x] = 1 /\ refcnt[x] = 0
      BY <1>0, <2>2, Zenon
    <3> QED
      BY <2>1, <3>1, <3>2
  <2>3. CASE x # y
    BY <1>0, <2>1, <2>3
  <2> QED
    BY <2>2, <2>3, Zenon
<1>2. panicked' = FALSE
  BY <1>0, Zenon DEF CountInv, TypeOK
<1>3. \A x \in free' : refcnt'[x] = 0
  BY <1>0, Zenon DEF CountInv, TypeOK
<1>4. \A r \in Proc : kf'[r] # None => refcnt'[kf'[r]] = 0 /\ kf'[r] \notin free'
  BY <1>0 DEF CountInv, TypeOK
<1> QED
  BY <1>1, <1>2, <1>3, <1>4, Zenon DEF CountInv

\* increse(y), for one more reference.
LEMMA CountInc ==
  ASSUME CountInv, TypeOK, NEW y \in Page, Increse(y), UNCHANGED kf,
         NEW k, NEW q, NEW a, KeptBut(y, k, q, a), Count(y) >= 1,
         \A x \in Page \ {y} : Count(x)' <= Count(x)
  PROVE  CountInv'
<1>0. /\ UNCHANGED free /\ panicked' = (panicked \/ refcnt[y] < 1)
      /\ \A x \in Page : refcnt'[x] = (IF x = y THEN refcnt[x] + 1 ELSE refcnt[x])
                        /\ refcnt[x] \in Nat
  BY Zenon DEF Increse, TypeOK
<1>n. Count(y) \in Nat /\ Count(y) <= refcnt[y] /\ refcnt[y] \in Nat
  BY RefCounts, Zenon DEF CountInv, TypeOK
<1>p. refcnt[y] >= 1 /\ refcnt[y] # 0 /\ ~(refcnt[y] < 1)
  BY <1>n
<1>1. ASSUME NEW x \in Page PROVE (Count(x) <= refcnt[x])'
  <2>1. /\ Count(x) \in Nat /\ Count(x)' \in Nat /\ Count(x) <= refcnt[x] /\ refcnt[x] \in Nat
    BY RefCounts, Zenon DEF CountInv, TypeOK
  <2>2. CASE x = y
    <3>1. Count(x)' <= Count(x) + 1 /\ refcnt'[x] = refcnt[x] + 1
      BY <1>0, <2>2, RefCounts, Zenon
    <3> QED
      BY <2>1, <3>1
  <2>3. CASE x # y
    BY <1>0, <2>1, <2>3
  <2> QED
    BY <2>2, <2>3, Zenon
<1>2. panicked' = FALSE
  BY <1>0, <1>p, Zenon DEF CountInv, TypeOK
<1>3. y \notin free /\ \A r \in Proc : kf[r] # y
  BY <1>p, Bounds, Zenon DEF CountInv
<1>4. \A x \in free' : refcnt'[x] = 0
  BY <1>0, <1>3, Zenon DEF CountInv, TypeOK
<1>5. \A r \in Proc : kf'[r] # None => refcnt'[kf'[r]] = 0 /\ kf'[r] \notin free'
  BY <1>0, <1>3, Zenon DEF CountInv, TypeOK
<1> QED
  BY <1>1, <1>2, <1>4, <1>5, Zenon DEF CountInv

\* kfree(y), by what referred to y and does no more.
LEMMA CountFree ==
  ASSUME CountInv, TypeOK, NEW p \in Proc, kf[p] = None, NEW y \in Page, Kfree(p, y),
         NEW k \in Kind, NEW q \in Proc, NEW a \in 0 .. MaxSz,
         Holds(k, q, a, y), ~Holds(k, q, a, y)', \A x \in Page : Kept(x)
  PROVE  CountInv'
<1>0. /\ UNCHANGED free /\ panicked' = (panicked \/ refcnt[y] < 1)
      /\ \A x \in Page : /\ refcnt'[x] = IF x = y /\ ~(refcnt[x] < 1) THEN refcnt[x] - 1
                                                                    ELSE refcnt[x]
                        /\ refcnt[x] \in Nat
      /\ \A r \in Proc : kf'[r] = IF r = p THEN IF refcnt[y] = 1 THEN y ELSE None ELSE kf[r]
  BY Zenon DEF Kfree, TypeOK
<1>n. Count(y) \in Nat /\ Count(y) <= refcnt[y] /\ refcnt[y] \in Nat /\ Count(y) >= 1
  BY RefCounts, Zenon DEF CountInv, TypeOK
<1>p. refcnt[y] >= 1 /\ refcnt[y] # 0 /\ ~(refcnt[y] < 1)
  BY <1>n
<1>1. ASSUME NEW x \in Page PROVE (Count(x) <= refcnt[x])'
  <2>1. /\ Count(x) \in Nat /\ Count(x)' \in Nat /\ Count(x) <= refcnt[x] /\ refcnt[x] \in Nat
        /\ Count(x)' <= Count(x)
    BY RefCounts, Zenon DEF CountInv, TypeOK
  <2>2. CASE x = y
    <3>1. Count(x)' <= Count(x) - 1 /\ refcnt'[x] = refcnt[x] - 1
      BY <1>0, <1>p, <2>2, RefCounts, Zenon
    <3> QED
      BY <2>1, <3>1
  <2>3. CASE x # y
    BY <1>0, <2>1, <2>3
  <2> QED
    BY <2>2, <2>3, Zenon
<1>2. panicked' = FALSE
  BY <1>0, <1>p, Zenon DEF CountInv, TypeOK
<1>3. y # None /\ y \notin free /\ \A r \in Proc : kf[r] # y
  BY <1>p, Bounds, Zenon DEF CountInv
<1>4. \A x \in free' : refcnt'[x] = 0
  BY <1>0, <1>3, Zenon DEF CountInv, TypeOK
<1>5. ASSUME NEW r \in Proc, kf'[r] # None
      PROVE  refcnt'[kf'[r]] = 0 /\ kf'[r] \notin free'
  <2>1. CASE r = p
    <3>1. refcnt[y] = 1 /\ kf'[r] = y
      BY <1>0, <1>5, <2>1, Zenon
    <3>2. refcnt'[y] = 0
      BY <1>0, <1>p, <3>1
    <3> QED
      BY <1>0, <1>3, <3>1, <3>2, Zenon
  <2>2. CASE r # p
    <3>1. kf'[r] = kf[r] /\ kf[r] \in Page
      BY <1>0, <1>5, <2>2, Zenon DEF TypeOK
    <3>2. refcnt[kf[r]] = 0 /\ kf[r] \notin free /\ kf[r] # y
      BY <1>3, <1>5, <3>1, Zenon DEF CountInv
    <3> QED
      BY <1>0, <3>1, <3>2
  <2> QED
    BY <2>1, <2>2, Zenon
<1>6. ASSUME NEW r \in Proc, NEW s \in Proc, kf'[r] # None, kf'[r] = kf'[s] PROVE r = s
  BY <1>0, <1>3, <1>6 DEF CountInv
<1> QED
  BY <1>1, <1>2, <1>4, <1>5, <1>6, Zenon DEF CountInv

-----------------------------------------------------------------------------
(* References a step keeps *)

\* No other thread unmaps the pages of a process that runs, or those a thread
\* works on.
LEMMA OwnPages ==
  ASSUME TypeOK, TgtInv, NEW p \in Proc, pc[p] # "embryo", NEW w \in Proc, w # p,
         pc[w] \in {"unmap", "dealloc"}
  PROVE  tgt[w] # p /\ tgt[w] # tgt[p]
<1>1. tgt[w] # p
  BY Zenon DEF TgtInv
<1>2. ASSUME tgt[w] = tgt[p] PROVE FALSE
  <2>1. tgt[p] # p
    BY <1>1, <1>2, Zenon
  <2>2. w = tgt[p] /\ pc[tgt[p]] = "embryo"
    BY <1>2, <2>1, Zenon DEF TgtInv
  <2> QED
    BY <2>2, Zenon
<1> QED
  BY <1>1, <1>2, Zenon

\* A stale PTE is so until the thread that freed its page clears it.
LEMMA StaleStays ==
  ASSUME TypeOK, TgtInv, PgInv, NEW p \in Proc, UserStep(p) \/ KernelStep(p),
         NEW q, NEW a, Stale(<<q, a>>), ~(ClearPte(p) /\ q = tgt[p] /\ a = va[p])
  PROVE  Stale(<<q, a>>)'
<1>1. PICK w \in Proc : /\ pc[w] \in {"unmap", "dealloc"} /\ pg[w] # None
                        /\ q = tgt[w] /\ a = va[w]
  BY Zenon DEF Stale
<1>2. CASE w # p
  <2>1. /\ va'[w] = va[w] /\ tgt'[w] = tgt[w] /\ pg'[w] = pg[w]
        /\ pc'[w] # pc[w] => pc[w] \in {"dead", "embryo"}
    BY <1>2, Others, Zenon
  <2> QED
    BY <1>1, <2>1, Zenon DEF Stale
<1>3. CASE w = p
  <2>1. va[p] <= hi[p]
    BY <1>1, <1>3, Zenon DEF PgInv
  <2>2. ~(va[p] > hi[p])
    BY <2>1, Locals
  <2>3. ~UserStep(p)
    BY <1>1, <1>3, Zenon DEF UserStep, Store, Copyout, StoreFault, Fork, Exit, Sbrk, Shrink, At
  <2>4. KfreePush(p)
    BY <1>1, <1>3, <2>2, <2>3, Zenon
       DEF KernelStep, CowCopy, CowFree, CopyoutWrite, CopyPage, MapPage, MapFails, ForkDone,
           Unmap, FreeTable, FreeDone, GrowAlloc, GrowMap, GrowFails, GrowDone, DeallocDone, At
  <2>5. UNCHANGED <<pc, pg, tgt, va>>
    BY <2>4, Zenon DEF KfreePush, locals
  <2> QED
    BY <1>1, <2>5, Zenon DEF Stale
<1> QED
  BY <1>2, <1>3, Zenon

\* A reference after a step was there before it, unless the step changed the
\* PTE or the table that holds it or is by the thread that holds it.
LEMMA Frame ==
  ASSUME TypeOK, TgtInv, PgInv, NEW p \in Proc, UserStep(p) \/ KernelStep(p),
         NEW x, NEW k, NEW q \in Proc, NEW a, Holds(k, q, a, x)',
         k = "pte" => /\ pt'[q][a].pa = pt[q][a].pa
                      /\ ~(ClearPte(p) /\ q = tgt[p] /\ a = va[p]),
         k = "tbl" /\ x \in tbl'[q] => x \in tbl[q],
         k \in {"pg", "map"} => q # p
  PROVE  Holds(k, q, a, x)
<1>1. CASE k = "pte"
  <2>1. a \in Addr /\ pt[q][a].pa = x /\ ~Stale(<<q, a>>)'
    BY <1>1, Zenon DEF Holds
  <2>2. ~Stale(<<q, a>>)
    BY <1>1, <2>1, StaleStays, Zenon
  <2> QED
    BY <1>1, <2>1, <2>2, Zenon DEF Holds
<1>2. CASE k = "tbl"
  BY <1>2, Zenon DEF Holds
<1>3. CASE k \in {"pg", "map"}
  <2>1. /\ va'[q] = va[q] /\ pg'[q] = pg[q]
        /\ pc'[q] # pc[q] => pc'[q] \in {"embryo", "user", "dead"}
    BY <1>3, Others, Zenon
  <2>2. pc'[q] \in {"map", "cow", "cowfree", "growmap"}
    BY <1>3, Zenon DEF Holds
  <2>3. pc'[q] = pc[q]
    BY <2>1, <2>2, Zenon
  <2>4. CASE k = "pg"
    BY <2>1, <2>3, <2>4, Zenon DEF Holds
  <2>5. CASE k = "map"
    <3>1. pc[q] = "map" /\ pt'[q][va[q]].pa = x /\ a = 0
      BY <2>1, <2>3, <2>5, Zenon DEF Holds
    <3>2. q # tgt[p]
      BY <1>3, <3>1, Zenon DEF TgtInv
    <3>3. pt'[q] = pt[q]
      BY <1>3, <3>2, OtherSpaces, Zenon
    <3> QED
      BY <2>5, <3>1, <3>3, Zenon DEF Holds
  <2> QED
    BY <1>3, <2>4, <2>5, Zenon
<1> QED
  BY <1>1, <1>2, <1>3, Zenon DEF Holds

\* A step that clears no PTE adds no reference to x but that of site k, q, a.
LEMMA Adds ==
  ASSUME TypeOK, TgtInv, PgInv, NEW p \in Proc, UserStep(p) \/ KernelStep(p), ~ClearPte(p),
         NEW x, NEW k, NEW q, NEW a,
         \A r \in Proc, b \in Addr :
           pt'[r][b].pa = x => pt[r][b].pa = x \/ (k = "pte" /\ r = q /\ b = a),
         \A r \in Proc : x \in tbl'[r] => x \in tbl[r] \/ (k = "tbl" /\ r = q /\ a = 0),
         pg'[p] = x /\ pc'[p] \in {"cow", "cowfree", "growmap"} =>
           \/ pg[p] = x /\ pc[p] \in {"cow", "cowfree", "growmap"}
           \/ k = "pg" /\ q = p /\ a = 0,
         pc'[p] = "map" /\ pt'[p][va'[p]].pa = x =>
           \/ pc[p] = "map" /\ pt[p][va[p]].pa = x
           \/ k = "map" /\ q = p /\ a = 0
  PROVE  KeptBut(x, k, q, a)
<1>1. ASSUME NEW m \in Kind, NEW s \in Proc, NEW c \in 0 .. MaxSz, Holds(m, s, c, x)'
      PROVE  Holds(m, s, c, x) \/ (m = k /\ s = q /\ c = a)
  <2>1. CASE m = "pte"
    <3>1. c \in Addr /\ pt'[s][c].pa = x
      BY <1>1, <2>1, Zenon DEF Holds
    <3>2. CASE pt[s][c].pa = x
      BY <1>1, <2>1, <3>1, <3>2, Frame, Zenon
    <3>3. CASE m = k /\ s = q /\ c = a
      BY <3>3, Zenon
    <3> QED
      BY <2>1, <3>1, <3>2, <3>3, Zenon
  <2>2. CASE m = "tbl"
    <3>1. c = 0 /\ x \in tbl'[s]
      BY <1>1, <2>2, Zenon DEF Holds
    <3>2. CASE x \in tbl[s]
      BY <1>1, <2>2, <3>2, Frame, Zenon
    <3> QED
      BY <2>2, <3>1, <3>2, Zenon
  <2>3. CASE m = "pg"
    <3>1. c = 0 /\ pg'[s] = x /\ pc'[s] \in {"cow", "cowfree", "growmap"}
      BY <1>1, <2>3, Zenon DEF Holds
    <3>2. CASE s # p
      BY <1>1, <2>3, <3>2, Frame, Zenon
    <3>3. CASE s = p
      BY <2>3, <3>1, <3>3, Zenon DEF Holds
    <3> QED
      BY <3>2, <3>3, Zenon
  <2>4. CASE m = "map"
    <3>1. c = 0 /\ pc'[s] = "map" /\ pt'[s][va'[s]].pa = x
      BY <1>1, <2>4, Zenon DEF Holds
    <3>2. CASE s # p
      BY <1>1, <2>4, <3>2, Frame, Zenon
    <3>3. CASE s = p
      BY <2>4, <3>1, <3>3, Zenon DEF Holds
    <3> QED
      BY <3>2, <3>3, Zenon
  <2> QED
    BY <2>1, <2>2, <2>3, <2>4, Zenon DEF Kind
<1> QED
  BY <1>1, Zenon DEF KeptBut

\* A step that clears no PTE adds no reference to x.
LEMMA Keeps ==
  ASSUME TypeOK, TgtInv, PgInv, NEW p \in Proc, UserStep(p) \/ KernelStep(p), ~ClearPte(p),
         NEW x,
         \A r \in Proc, b \in Addr : pt'[r][b].pa = x => pt[r][b].pa = x,
         \A r \in Proc : x \in tbl'[r] => x \in tbl[r],
         pg'[p] = x /\ pc'[p] \in {"cow", "cowfree", "growmap"} =>
           pg[p] = x /\ pc[p] \in {"cow", "cowfree", "growmap"},
         pc'[p] = "map" /\ pt'[p][va'[p]].pa = x => pc[p] = "map" /\ pt[p][va[p]].pa = x
  PROVE  Kept(x)
<1>1. KeptBut(x, "none", p, 0)
  BY Adds, Zenon
<1>2. "none" \notin Kind
  BY Zenon DEF Kind
<1> QED
  BY <1>1, <1>2, Zenon DEF Kept, KeptBut

\* A step that changes no PTE and no table and after which its thread holds no
\* more than before adds no reference.
LEMMA Quiet ==
  ASSUME TypeOK, TgtInv, PgInv, NEW p \in Proc, UserStep(p) \/ KernelStep(p), ~ClearPte(p),
         UNCHANGED <<pt, tbl>>,
         \/ UNCHANGED <<pc, pg, va>>
         \/ pc'[p] \in {"dead", "embryo", "user", "out", "copy", "dealloc", "unmap"}
         \/ pc'[p] = "growmap" /\ pg'[p] = None
  PROVE  \A x \in Page : Kept(x)
<1> SUFFICES ASSUME NEW x \in Page PROVE Kept(x)
  BY Zenon
<1>1. /\ \A r \in Proc, b \in Addr : pt'[r][b].pa = x => pt[r][b].pa = x
      /\ \A r \in Proc : x \in tbl'[r] => x \in tbl[r]
  BY Zenon
<1>2. /\ pg'[p] = x /\ pc'[p] \in {"cow", "cowfree", "growmap"} =>
           pg[p] = x /\ pc[p] \in {"cow", "cowfree", "growmap"}
      /\ pc'[p] = "map" /\ pt'[p][va'[p]].pa = x => pc[p] = "map" /\ pt[p][va[p]].pa = x
  BY Bounds, Zenon
<1> QED
  BY <1>1, <1>2, Keeps, Zenon

-----------------------------------------------------------------------------
(* Reference counts, step by step *)

\* cowfault() gets a page.
LEMMA CowfaultCount ==
  ASSUME TypeOK, TgtInv, PgInv, CountInv, NEW p \in Proc, UserStep(p), pc[p] = "user",
         NEW b, Cowfault(p, b), UNCHANGED <<pt, tbl, kf>>
  PROVE  CountInv'
<1>1. PICK y \in free : Kalloc(y) /\ pg' = Set(pg, p, y)
  BY Zenon DEF Cowfault
<1>2. y \in Page /\ pc'[p] = "cow" /\ pg'[p] = y
  BY <1>1, Zenon DEF TypeOK, Cowfault, Goto, Set
<1>3. ~ClearPte(p)
  BY Zenon DEF ClearPte, At
<1>5. KeptBut(y, "pg", p, 0)
  BY <1>2, <1>3, Adds, Zenon
<1>6. ASSUME NEW x \in Page \ {y} PROVE Count(x)' <= Count(x)
  <2>1. Kept(x)
    BY <1>2, <1>3, Keeps, Zenon
  <2> QED
    BY <2>1, RefCounts, Zenon
<1> QED
  BY <1>1, <1>2, <1>5, <1>6, CountAlloc, Zenon

\* What a program does.
LEMMA UserCount ==
  ASSUME TypeOK, TgtInv, PgInv, \A q \in Proc : Shape(q), CountInv, NEW p \in Proc, UserStep(p)
  PROVE  CountInv'
<1>0. pc[p] = "user" /\ pg[p] = None /\ ThreadOK /\ SpaceOK /\ ~ClearPte(p)
  BY Pieces, Zenon DEF UserStep, Store, Copyout, StoreFault, Fork, Exit, Sbrk, Shrink, At, PgInv, ClearPte
<1>1. ASSUME NEW a, NEW v, Store(p, a, v) PROVE CountInv'
  <2>1. UNCHANGED <<pt, tbl, pc, pg, va>> /\ UNCHANGED <<allocator, kf>>
    BY <1>1, Zenon DEF Store, locals
  <2> QED
    BY <1>0, <2>1, Quiet, CountSame, Zenon
<1>2. ASSUME Exits(p), UNCHANGED <<pt, tbl>>, UNCHANGED <<allocator, kf>> PROVE CountInv'
  <2>1. pc'[p] = "unmap"
    BY <1>0, <1>2, Zenon DEF Exits, Goto, ThreadOK
  <2> QED
    BY <1>0, <1>2, <2>1, Quiet, CountSame, Zenon
<1>3. ASSUME NEW a, NEW v, Copyout(p, a, v) PROVE CountInv'
  BY <1>0, <1>3, CowfaultCount, Zenon DEF Copyout
<1>4. ASSUME NEW a, StoreFault(p, a) PROVE CountInv'
  BY <1>0, <1>2, <1>4, CowfaultCount, Zenon DEF StoreFault
<1>5. CASE Exit(p)
  BY <1>2, <1>5, Zenon DEF Exit
<1>6. ASSUME NEW n \in 1 .. MaxSz, Sbrk(p, n) \/ Shrink(p, n) PROVE CountInv'
  <2>1. /\ UNCHANGED <<pt, tbl>> /\ UNCHANGED <<allocator, kf>>
        /\ pc'[p] = "dealloc" \/ (pc'[p] = "growmap" /\ pg'[p] = None)
    BY <1>0, <1>6, Zenon DEF Sbrk, Shrink, Goto, ThreadOK
  <2> QED
    BY <1>0, <2>1, Quiet, CountSame, Zenon
<1>7. ASSUME NEW q \in Proc, Fork(p, q) PROVE CountInv'
  <2>1. PICK y \in free : Kalloc(y) /\ tbl' = [tbl EXCEPT ![q] = {y}]
    BY <1>7, Zenon DEF Fork, ProcPagetable
  <2>2. y \in Page /\ pc'[p] = "copy" /\ UNCHANGED <<pt, kf>> /\ p # q
    BY <1>0, <1>7, <2>1, Zenon DEF Fork, ThreadOK, TypeOK
  <2>3. \A r \in Proc : tbl'[r] = IF r = q THEN {y} ELSE tbl[r]
    BY <1>0, <2>1, Zenon DEF SpaceOK
  <2>5. KeptBut(y, "tbl", q, 0)
    BY <1>0, <2>2, <2>3, Adds, Zenon
  <2>6. ASSUME NEW x \in Page \ {y} PROVE Count(x)' <= Count(x)
    <3>1. \A r \in Proc : x \in tbl'[r] => x \in tbl[r]
      BY <2>3, Zenon
    <3>2. Kept(x)
      BY <1>0, <2>2, <3>1, Keeps, Zenon
    <3> QED
      BY <3>2, RefCounts, Zenon
  <2> QED
    BY <2>1, <2>2, <2>5, <2>6, CountAlloc, Zenon
<1> QED
  BY <1>1, <1>3, <1>4, <1>5, <1>6, <1>7, Zenon DEF UserStep

\* A thread whose page of cowfault() or uvmalloc() is y refers to it.
LEMMA PgHolds ==
  ASSUME TypeOK, NEW p \in Proc, pg[p] # None, pc[p] \in {"cow", "cowfree", "growmap"}
  PROVE  pg[p] \in Page /\ Holds("pg", p, 0, pg[p]) /\ "pg" \in Kind /\ 0 \in 0 .. MaxSz
  BY AddrSites, Zenon DEF TypeOK, Holds, Kind

\* cowfault() copies the page, redirects the PTE and frees the old page.
LEMMA CowCount ==
  ASSUME TypeOK, TgtInv, PgInv, \A q \in Proc : Shape(q), CountInv, NEW p \in Proc,
         CowCopy(p) \/ CowFree(p) \/ CopyoutWrite(p), UserStep(p) \/ KernelStep(p)
  PROVE  CountInv'
<1>0. ThreadOK /\ SpaceOK /\ ~ClearPte(p)
  BY Pieces, Zenon DEF CowCopy, CowFree, CopyoutWrite, At, ClearPte
<1>1. CASE CopyoutWrite(p)
  <2>1. UNCHANGED <<pt, tbl>> /\ UNCHANGED <<allocator, kf>> /\ pc'[p] = "user"
    BY <1>0, <1>1, Zenon DEF CopyoutWrite, Goto, ThreadOK
  <2> QED
    BY <1>0, <2>1, Quiet, CountSame, Zenon
<1>2. CASE CowFree(p)
  <2>1. /\ UNCHANGED <<pt, tbl>> /\ Kfree(p, pg[p]) /\ pc'[p] \in {"user", "out"}
        /\ pc[p] = "cowfree" /\ kf[p] = None
    BY <1>0, <1>2, Zenon DEF CowFree, At, Goto, ThreadOK
  <2>2. \A x \in Page : Kept(x)
    BY <1>0, <2>1, Quiet, Zenon
  <2>3. pg[p] \in Page /\ Holds("pg", p, 0, pg[p]) /\ "pg" \in Kind /\ 0 \in 0 .. MaxSz
    BY <2>1, PgHolds, Zenon DEF PgInv
  <2>4. PICK y \in Page : y = pg[p]
    BY <2>3, Zenon
  <2>5. ~Holds("pg", p, 0, y)'
    BY <2>1, Zenon DEF Holds
  <2> QED
    BY <2>1, <2>2, <2>3, <2>4, <2>5, CountFree, Zenon
<1>3. CASE CowCopy(p)
  <2>1. /\ va[p] \in Addr /\ pg[p] # None /\ pt[p][va[p]].pa # None
        /\ \A r \in Proc, b \in Addr :
             pt'[r][b] = IF r = p /\ b = va[p] THEN [pa |-> pg[p], w |-> TRUE] ELSE pt[r][b]
    BY <1>3, CowCopyPt, Zenon
  <2>2. pc[p] = "cow" /\ pc'[p] = "cowfree" /\ UNCHANGED <<allocator, tbl, va, kf>>
    BY <1>0, <1>3, Zenon DEF CowCopy, At, Goto, ThreadOK
  <2>3. PICK a \in Addr, old \in Page \cup {None}, new \in Page \cup {None} :
          a = va[p] /\ old = pt[p][a].pa /\ new = pg[p]
    BY <1>0, <2>1, MappedPage, Zenon DEF ThreadOK
  <2>5. pg'[p] = old
    BY <1>0, <1>3, <2>3, Zenon DEF CowCopy, Set, ThreadOK
  <2>6. \A r \in Proc, b \in Addr : pt'[r][b].pa = IF r = p /\ b = a THEN new ELSE pt[r][b].pa
    BY <2>1, <2>3
  <2>7. ~Stale(<<p, a>>)
    BY <2>2, OwnPages, Zenon DEF Stale
  <2>8. /\ Holds("pte", p, a, old) /\ Holds("pg", p, 0, new)
        /\ "pte" \in Kind /\ "pg" \in Kind
        /\ a \in 0 .. MaxSz /\ 0 \in 0 .. MaxSz
    BY <2>2, <2>3, <2>7, AddrSites, Zenon DEF Holds, Kind
  <2>9. ASSUME NEW x \in Page PROVE Count(x)' <= Count(x)
    <3>a. \A r \in Proc, c \in Addr :
            pt'[r][c].pa = x => pt[r][c].pa = x \/ (x = new /\ x # old /\ r = p /\ c = a)
      BY <2>3, <2>6, Zenon
    <3>b. \A r \in Proc : x \in tbl'[r] => x \in tbl[r]
      BY <2>2, Zenon
    <3>c. /\ pg'[p] = x => x = old
          /\ x = new => pg[p] = x /\ pc[p] = "cow"
          /\ pc'[p] # "map"
      BY <2>2, <2>3, <2>5, Zenon
    <3>1. CASE x # old /\ x # new
      <4>1. Kept(x)
        BY <1>0, <3>a, <3>b, <3>c, <3>1, Keeps, Zenon
      <4> QED
        BY <4>1, RefCounts, Zenon
    <3>2. CASE x = old /\ x = new
      <4>1. Kept(x)
        BY <1>0, <3>a, <3>b, <3>c, <3>2, Keeps, Zenon
      <4> QED
        BY <4>1, RefCounts, Zenon
    <3>3. CASE x = old /\ x # new
      <4>1. KeptBut(x, "pg", p, 0)
        BY <1>0, <3>a, <3>b, <3>c, <3>3, Adds, Zenon
      <4>2. ~Holds("pte", p, a, x)'
        BY <2>6, <3>3, Zenon DEF Holds
      <4> QED
        BY <2>8, <3>3, <4>1, <4>2, RefCounts, Zenon
    <3>4. CASE x # old /\ x = new
      <4>1. KeptBut(x, "pte", p, a)
        BY <1>0, <3>a, <3>b, <3>c, <3>4, Adds, Zenon
      <4>2. ~Holds("pg", p, 0, x)'
        BY <2>5, <3>4, Zenon DEF Holds
      <4> QED
        BY <2>8, <3>4, <4>1, <4>2, RefCounts, Zenon
    <3> QED
      BY <3>1, <3>2, <3>3, <3>4, Zenon
  <2> QED
    BY <2>2, <2>9, CountSame, Zenon
<1> QED
  BY <1>1, <1>2, <1>3, Zenon

\* mappages() of page y at a in q, by the thread that referred to y; walk() may
\* allocate a table.
LEMMA MapCount ==
  ASSUME TypeOK, TgtInv, PgInv, CountInv, NEW p \in Proc, UserStep(p) \/ KernelStep(p),
         ~ClearPte(p), NEW q \in Proc, NEW a \in Addr, NEW y \in Page, NEW k \in {"map", "pg"},
         Holds(k, p, 0, y), ~Holds(k, p, 0, y)', Walk(q, a), UNCHANGED kf,
         \A r \in Proc, b \in Addr :
           pt'[r][b].pa = IF r = q /\ b = a THEN y ELSE pt[r][b].pa,
         pc'[p] # "map", pg'[p] = None \/ pc'[p] = "copy"
  PROVE  CountInv'
<1>0. k \in Kind /\ 0 \in 0 .. MaxSz
  BY AddrSites, Zenon DEF Kind
<1>1. \A x \in Page, r \in Proc, b \in Addr :
        pt'[r][b].pa = x => pt[r][b].pa = x \/ (x = y /\ r = q /\ b = a)
  BY Zenon
<1>2. \A x \in Page : ~(pg'[p] = x /\ pc'[p] \in {"cow", "cowfree", "growmap"})
  BY Bounds, Zenon
<1>3. ASSUME NEW x \in Page, \A r \in Proc : x \in tbl'[r] => x \in tbl[r]
      PROVE  Count(x)' <= Count(x)
  <2>1. CASE x = y
    <3>0. \A r \in Proc, b \in Addr :
            pt'[r][b].pa = x => pt[r][b].pa = x \/ (r = q /\ b = a)
      BY <1>1
    <3>1. KeptBut(x, "pte", q, a)
      <4>1. ~(pg'[p] = x /\ pc'[p] \in {"cow", "cowfree", "growmap"})
        BY <1>2, Zenon
      <4>2. \A r \in Proc : x \in tbl'[r] => x \in tbl[r]
        BY <1>3, Zenon
      <4> QED
        BY <3>0, <4>1, <4>2, Adds, Zenon
    <3> QED
      BY <1>0, <2>1, <3>1, RefCounts, Zenon
  <2>2. CASE x # y
    <3>1. Kept(x)
      <4>1. \A r \in Proc, b \in Addr : pt'[r][b].pa = x => pt[r][b].pa = x
        BY <1>1, <2>2
      <4> QED
        BY <1>2, <1>3, <4>1, Keeps, Zenon
    <3> QED
      BY <3>1, RefCounts, Zenon
  <2> QED
    BY <2>1, <2>2, Zenon
<1>4. CASE UNCHANGED <<allocator, tbl>>
  <2>1. \A x \in Page : Count(x)' <= Count(x)
    BY <1>3, <1>4, Zenon
  <2> QED
    BY <1>4, <2>1, CountSame, Zenon
<1>5. ASSUME NEW t \in free, Kalloc(t), tbl' = [tbl EXCEPT ![q] = @ \cup {t}] PROVE CountInv'
  <2>1. t \in Page /\ refcnt[t] = 0 /\ \A r \in Proc : tbl'[r] = IF r = q THEN tbl[r] \cup {t} ELSE tbl[r]
    BY <1>5, Zenon DEF TypeOK, CountInv
  <2>2. t # y
    <3>1. Count(y) >= 1 /\ Count(y) \in Nat /\ Count(y) <= refcnt[y] /\ refcnt[y] \in Nat
      BY <1>0, RefCounts, Zenon DEF CountInv, TypeOK
    <3>2. refcnt[y] # 0
      BY <3>1
    <3> QED
      BY <2>1, <3>2, Zenon
  <2>3. KeptBut(t, "tbl", q, 0)
    <3>1. \A r \in Proc, b \in Addr : pt'[r][b].pa = t => pt[r][b].pa = t
      BY <1>1, <2>1, <2>2
    <3>2. \A r \in Proc : t \in tbl'[r] => t \in tbl[r] \/ r = q
      BY <2>1, Zenon
    <3> QED
      BY <1>2, <2>1, <3>1, <3>2, Adds, Zenon
  <2>4. \A x \in Page \ {t} : Count(x)' <= Count(x)
    BY <1>3, <2>1, Zenon
  <2> QED
    BY <1>5, <2>1, <2>3, <2>4, CountAlloc, Zenon
<1> QED
  BY <1>4, <1>5, Zenon DEF Walk

\* uvmcopy() counts a page before it maps it in the child.
LEMMA CopyCount ==
  ASSUME TypeOK, TgtInv, PgInv, \A q \in Proc : Shape(q), CountInv, NEW p \in Proc,
         CopyPage(p) \/ MapPage(p) \/ MapFails(p) \/ ForkDone(p), UserStep(p) \/ KernelStep(p)
  PROVE  CountInv'
<1>0. ThreadOK /\ SpaceOK /\ ~ClearPte(p) /\ pg[p] = None /\ pc[p] \in {"copy", "map"}
  BY Pieces, Zenon DEF CopyPage, MapPage, MapFails, ForkDone, At, ClearPte, PgInv
<1>1. CASE MapFails(p) \/ ForkDone(p)
  <2>1. UNCHANGED <<pt, tbl>> /\ UNCHANGED <<allocator, kf>>
    BY <1>1, Zenon DEF MapFails, ForkDone
  <2>2. pc'[p] \in {"unmap", "user"}
    <3>1. CASE MapFails(p)
      BY <1>0, <3>1, Zenon DEF MapFails, Goto, ThreadOK
    <3>2. CASE ForkDone(p)
      BY <1>0, <3>2 DEF ForkDone, At, ThreadOK, TgtInv
    <3> QED
      BY <1>1, <3>1, <3>2, Zenon
  <2> QED
    BY <1>0, <2>1, <2>2, Quiet, CountSame, Zenon
<1>2. CASE CopyPage(p)
  <2>1. /\ va[p] \in Addr /\ pt[p][va[p]].pa # None
        /\ \A r \in Proc, b \in Addr : pt'[r][b].pa = pt[r][b].pa
    BY <1>2, CopyPagePt, Zenon
  <2>2. /\ pc[p] = "copy" /\ pc'[p] = "map" /\ UNCHANGED <<tbl, va, pg, tgt, kf>>
        /\ Increse(pt[p][va[p]].pa)
    BY <1>0, <1>2, Zenon DEF CopyPage, At, Goto, locals, ThreadOK
  <2>3. pt[p][va[p]].pa \in Page
    BY <1>0, <2>1, MappedPage, Zenon
  <2>4. PICK a \in Addr, y \in Page : a = va[p] /\ y = pt[p][a].pa
    BY <2>1, <2>3, Zenon
  <2>5. ~Stale(<<p, a>>)
    BY <2>2, OwnPages, Zenon DEF Stale
  <2>6. /\ Holds("pte", p, a, y) /\ "pte" \in Kind /\ a \in 0 .. MaxSz
    BY <2>4, <2>5, AddrSites, Zenon DEF Holds, Kind
  <2>7. Count(y) >= 1
    BY <2>6, RefCounts, Zenon
  <2>8. pt'[p][va'[p]].pa = y /\ pg'[p] = None
    BY <1>0, <2>1, <2>2, <2>4, Zenon
  <2>9. KeptBut(y, "map", p, 0)
    BY <1>0, <2>1, <2>2, <2>8, Bounds, Adds, Zenon
  <2>10. ASSUME NEW x \in Page \ {y} PROVE Count(x)' <= Count(x)
    <3>0. pt'[p][va'[p]].pa # x /\ pg'[p] # x
      BY <2>8, Bounds, Zenon
    <3>1. Kept(x)
      <4>1. \A r \in Proc, b \in Addr : pt'[r][b].pa = x => pt[r][b].pa = x
        BY <2>1, Zenon
      <4>2. \A r \in Proc : x \in tbl'[r] => x \in tbl[r]
        BY <2>2, Zenon
      <4> QED
        BY <1>0, <3>0, <4>1, <4>2, Keeps, Zenon
    <3> QED
      BY <3>1, RefCounts, Zenon
  <2> QED
    BY <2>2, <2>4, <2>7, <2>9, <2>10, CountInc, Zenon
<1>3. CASE MapPage(p)
  <2>1. /\ va[p] \in Addr /\ pt[p][va[p]].pa # None
        /\ \A r \in Proc, b \in Addr :
             pt'[r][b] = IF r = tgt[p] /\ b = va[p] THEN pt[p][va[p]] ELSE pt[r][b]
    BY <1>3, MapPagePt, Zenon
  <2>2. /\ pc[p] = "map" /\ pc'[p] = "copy" /\ UNCHANGED kf
        /\ Walk(tgt[p], va[p]) /\ tgt[p] \in Proc
    BY <1>0, <1>3, Zenon DEF MapPage, Mappages, At, Goto, ThreadOK
  <2>3. pt[p][va[p]].pa \in Page
    BY <1>0, <2>1, MappedPage, Zenon
  <2>4. PICK q \in Proc, a \in Addr, y \in Page : q = tgt[p] /\ a = va[p] /\ y = pt[p][a].pa
    BY <2>1, <2>2, <2>3, Zenon
  <2>5. Holds("map", p, 0, y) /\ ~Holds("map", p, 0, y)'
    BY <2>2, <2>4, Zenon DEF Holds
  <2>6. \A r \in Proc, b \in Addr :
          pt'[r][b].pa = IF r = q /\ b = a THEN y ELSE pt[r][b].pa
    BY <2>1, <2>4, Zenon
  <2>7. Walk(q, a) /\ pc'[p] = "copy" /\ UNCHANGED kf
    BY <2>2, <2>4, Zenon
  <2> QED
    BY <1>0, <2>5, <2>6, <2>7, MapCount, Zenon
<1> QED
  BY <1>1, <1>2, <1>3, Zenon

\* uvmunmap() frees a page, then clears its PTE.
LEMMA UnmapCount ==
  ASSUME TypeOK, TgtInv, PgInv, \A q \in Proc : Shape(q), CountInv, NEW p \in Proc,
         Unmap(p) \/ ClearPte(p), UserStep(p) \/ KernelStep(p)
  PROVE  CountInv'
<1>0. /\ ThreadOK /\ SpaceOK /\ pc[p] \in {"unmap", "dealloc"} /\ pc' = pc /\ tbl' = tbl
      /\ kf[p] = None
  BY Pieces, Zenon DEF Unmap, ClearPte, At
<1>1. CASE Unmap(p)
  <2>1. /\ va[p] <= hi[p] /\ pg[p] = None /\ Kfree(p, pt[tgt[p]][va[p]].pa)
        /\ UNCHANGED <<pt, va, tgt>> /\ ~ClearPte(p)
    BY <1>1, Zenon DEF Unmap, ClearPte
  <2>2. pc[p] = "dealloc" => tgt[p] = p
    BY Zenon DEF TgtInv
  <2>3. va[p] \in Addr /\ pt[tgt[p]][va[p]].pa \in Page /\ tgt[p] \in Proc
    BY <1>0, <2>1, <2>2, UnmapPage, Locals, Zenon
  <2>4. PICK q \in Proc, a \in Addr, y \in Page : q = tgt[p] /\ a = va[p] /\ y = pt[q][a].pa
    BY <2>3, Zenon
  <2>5. ~Stale(<<q, a>>)
    <3>1. ASSUME NEW w \in Proc, pc[w] \in {"unmap", "dealloc"}, pg[w] # None, tgt[w] = q
          PROVE  FALSE
      BY <1>0, <2>1, <2>4, <3>1, OwnPages, Zenon
    <3> QED
      BY <3>1, Zenon DEF Stale
  <2>6. pg'[p] = y /\ y # None
    BY <1>0, <1>1, <2>4, Bounds, Zenon DEF Unmap, Set, ThreadOK
  <2>7. Stale(<<q, a>>)'
    <3>1. pc'[p] \in {"unmap", "dealloc"} /\ pg'[p] # None /\ q = tgt'[p] /\ a = va'[p]
      BY <1>0, <2>1, <2>4, <2>6, Zenon
    <3> QED
      BY <3>1, Zenon DEF Stale
  <2>8. /\ Holds("pte", q, a, y) /\ ~Holds("pte", q, a, y)'
        /\ "pte" \in Kind /\ a \in 0 .. MaxSz
    BY <2>4, <2>5, <2>7, AddrSites, Zenon DEF Holds, Kind
  <2>9. \A x \in Page : Kept(x)
    BY <1>0, <2>1, Quiet, Zenon
  <2> QED
    BY <1>0, <2>1, <2>4, <2>8, <2>9, CountFree, Zenon
<1>2. CASE ClearPte(p)
  <2>1. /\ va[p] \in Addr
        /\ \A r \in Proc, b \in Addr :
             pt'[r][b] = IF r = tgt[p] /\ b = va[p] THEN NoPte ELSE pt[r][b]
    BY <1>2, ClearPtePt, Zenon
  <2>2. NoPte.pa = None
    BY Zenon DEF NoPte
  <2>3. ASSUME NEW x \in Page, NEW m \in Kind, NEW s \in Proc, NEW c \in 0 .. MaxSz,
               Holds(m, s, c, x)'
        PROVE  Holds(m, s, c, x)
    <3>1. CASE m = "pte"
      <4>1. c \in Addr /\ pt'[s][c].pa = x
        BY <2>3, <3>1, Zenon DEF Holds
      <4>2. ~(s = tgt[p] /\ c = va[p])
        BY <2>1, <2>2, <4>1, Bounds, Zenon
      <4>3. pt'[s][c].pa = pt[s][c].pa
        BY <2>1, <4>1, <4>2, Zenon
      <4> QED
        BY <2>3, <3>1, <4>2, <4>3, Frame, Zenon
    <3>2. CASE m = "tbl"
      BY <1>0, <2>3, <3>2, Zenon DEF Holds
    <3>3. CASE m \in {"pg", "map"}
      <4>1. s # p
        BY <1>0, <2>3, <3>3, Zenon DEF Holds
      <4> QED
        BY <2>3, <3>3, <4>1, Frame, Zenon
    <3> QED
      BY <3>1, <3>2, <3>3, Zenon DEF Kind
  <2>4. \A x \in Page : Kept(x)
    BY <2>3, Zenon DEF Kept
  <2>5. UNCHANGED <<allocator, kf>>
    BY <1>2, Zenon DEF ClearPte
  <2> QED
    BY <2>4, <2>5, CountSame, Zenon
<1> QED
  BY <1>1, <1>2, Zenon

\* The rest of freeproc(), and the end of uvmdealloc().
LEMMA FreeCount ==
  ASSUME TypeOK, TgtInv, PgInv, \A q \in Proc : Shape(q), CountInv, NEW p \in Proc,
         KfreePush(p) \/ FreeTable(p) \/ FreeDone(p) \/ DeallocDone(p),
         UserStep(p) \/ KernelStep(p)
  PROVE  CountInv'
<1>0. ThreadOK /\ SpaceOK /\ Shape(p)
  BY Pieces, Zenon
<1>1. CASE KfreePush(p)
  <2>1. UNCHANGED <<pt, tbl, pc, pg, va>> /\ ~ClearPte(p)
    BY <1>1, Zenon DEF KfreePush, locals, ClearPte, At
  <2> QED
    BY <1>1, <2>1, Quiet, CountPush, Zenon
<1>2. ASSUME FreeDone(p) \/ DeallocDone(p) PROVE CountInv'
  <2>1. va[p] > hi[p] /\ pc[p] \in {"unmap", "dealloc"}
    BY <1>2, Zenon DEF FreeDone, DeallocDone, At
  <2>2. pg[p] = None
    BY <2>1, Locals, PastEnd, Zenon DEF PgInv
  <2>3. UNCHANGED <<pt, tbl>> /\ UNCHANGED <<allocator, kf>> /\ ~ClearPte(p)
    BY <1>2, <2>2, Zenon DEF FreeDone, DeallocDone, ClearPte
  <2>4. pc'[p] \in {"user", "dead"}
    <3>1. CASE FreeDone(p)
      BY <1>0, <3>1, Zenon DEF FreeDone, ThreadOK
    <3>2. CASE DeallocDone(p)
      BY <1>0, <3>2, Zenon DEF DeallocDone, Goto, ThreadOK
    <3> QED
      BY <1>2, <3>1, <3>2, Zenon
  <2> QED
    BY <2>3, <2>4, Quiet, CountSame, Zenon
<1>3. CASE FreeTable(p)
  <2>1. /\ va[p] > hi[p] /\ pc[p] = "unmap" /\ kf[p] = None
        /\ UNCHANGED <<pt, pc, pg, va>>
    BY <1>3, Zenon DEF FreeTable, At, locals
  <2>2. pg[p] = None
    BY <2>1, Locals, PastEnd, Zenon DEF PgInv
  <2>3. ~ClearPte(p)
    BY <2>2, Zenon DEF ClearPte
  <2>4. PICK q \in Proc : q = tgt[p]
    BY Locals, Zenon
  <2>5. PICK y \in tbl[q] : Kfree(p, y) /\ tbl' = [tbl EXCEPT ![q] = @ \ {y}]
    BY <1>3, <2>4, Zenon DEF FreeTable
  <2>6. y \in Page /\ \A r \in Proc : tbl'[r] = IF r = q THEN tbl[r] \ {y} ELSE tbl[r]
    BY <1>0, <2>5, Zenon DEF SpaceOK
  <2>7. Holds("tbl", q, 0, y) /\ ~Holds("tbl", q, 0, y)' /\ "tbl" \in Kind /\ 0 \in 0 .. MaxSz
    <3>1. y \in tbl[q] /\ y \notin tbl'[q]
      BY <2>4, <2>5, <2>6, SMT
    <3> QED
      BY <3>1, AddrSites, Zenon DEF Holds, Kind
  <2>8. ASSUME NEW x \in Page PROVE Kept(x)
    <3>1. \A r \in Proc : x \in tbl'[r] => x \in tbl[r]
      BY <2>6, Zenon
    <3>2. pc'[p] = "unmap"
      BY <2>1, Zenon
    <3>3. \A r \in Proc, b \in Addr : pt'[r][b].pa = x => pt[r][b].pa = x
      BY <2>1, Zenon
    <3> QED
      BY <2>3, <3>1, <3>2, <3>3, Keeps, Zenon
  <2> QED
    BY <2>1, <2>5, <2>6, <2>7, <2>8, CountFree, Zenon
<1> QED
  BY <1>1, <1>2, <1>3, Zenon

\* uvmalloc() allocates and maps a page.
LEMMA GrowCount ==
  ASSUME TypeOK, TgtInv, PgInv, \A q \in Proc : Shape(q), CountInv, NEW p \in Proc,
         GrowAlloc(p) \/ GrowMap(p) \/ GrowFails(p) \/ GrowDone(p),
         UserStep(p) \/ KernelStep(p)
  PROVE  CountInv'
<1>0. ThreadOK /\ SpaceOK /\ pc[p] = "growmap" /\ kf[p] = None /\ ~ClearPte(p)
  BY Pieces, Zenon DEF GrowAlloc, GrowMap, GrowFails, GrowDone, At, ClearPte
<1>1. CASE GrowAlloc(p)
  <2>1. PICK y \in free : Kalloc(y) /\ pg' = Set(pg, p, y)
    BY <1>1, Zenon DEF GrowAlloc
  <2>2. /\ y \in Page /\ pc'[p] = "growmap" /\ pg'[p] = y /\ UNCHANGED <<pt, tbl, kf>>
        /\ pc'[p] # "map"
    BY <1>0, <1>1, <2>1, Zenon DEF TypeOK, GrowAlloc, Set
  <2>3. KeptBut(y, "pg", p, 0)
    BY <1>0, <2>2, Adds, Zenon
  <2>4. ASSUME NEW x \in Page \ {y} PROVE Count(x)' <= Count(x)
    <3>1. Kept(x)
      BY <1>0, <2>2, Keeps, Zenon
    <3> QED
      BY <3>1, RefCounts, Zenon
  <2> QED
    BY <2>1, <2>2, <2>3, <2>4, CountAlloc, Zenon
<1>2. CASE GrowMap(p)
  <2>1. /\ va[p] \in Addr /\ pg[p] # None
        /\ \A r \in Proc, b \in Addr :
             pt'[r][b] = IF r = p /\ b = va[p] THEN [pa |-> pg[p], w |-> TRUE] ELSE pt[r][b]
    BY <1>2, GrowMapPt, Zenon
  <2>2. pg[p] \in Page /\ Holds("pg", p, 0, pg[p])
    BY <1>0, <2>1, PgHolds, Zenon
  <2>3. PICK a \in Addr, y \in Page : a = va[p] /\ y = pg[p]
    BY <2>1, <2>2, Zenon
  <2>4. pg'[p] = None /\ pc'[p] = "growmap" /\ Walk(p, a) /\ UNCHANGED kf
    BY <1>0, <1>2, <2>3, Zenon DEF GrowMap, Mappages, Set, ThreadOK
  <2>5. Holds("pg", p, 0, y) /\ ~Holds("pg", p, 0, y)'
    BY <2>2, <2>3, <2>4, Bounds, Zenon DEF Holds
  <2>6. \A r \in Proc, b \in Addr :
          pt'[r][b].pa = IF r = p /\ b = a THEN y ELSE pt[r][b].pa
    BY <2>1, <2>3
  <2> QED
    BY <1>0, <2>4, <2>5, <2>6, MapCount, Zenon
<1>3. CASE GrowFails(p)
  <2>1. pc'[p] = "dealloc" /\ UNCHANGED <<pt, tbl>>
    BY <1>0, <1>3, Zenon DEF GrowFails, Goto, ThreadOK
  <2>2. \A x \in Page : Kept(x)
    BY <1>0, <2>1, Quiet, Zenon
  <2>3. CASE pg[p] = None
    <3>1. UNCHANGED <<allocator, kf>>
      BY <1>3, <2>3, Zenon DEF GrowFails
    <3> QED
      BY <2>2, <3>1, CountSame, Zenon
  <2>4. CASE pg[p] # None
    <3>1. pg[p] \in Page /\ Holds("pg", p, 0, pg[p]) /\ "pg" \in Kind /\ 0 \in 0 .. MaxSz
      BY <1>0, <2>4, PgHolds, Zenon
    <3>2. PICK y \in Page : y = pg[p]
      BY <3>1, Zenon
    <3>3. Kfree(p, y) /\ ~Holds("pg", p, 0, y)'
      BY <1>3, <2>1, <2>4, <3>2, Zenon DEF GrowFails, Holds
    <3> QED
      BY <1>0, <2>2, <3>1, <3>2, <3>3, CountFree, Zenon
  <2> QED
    BY <2>3, <2>4, Zenon
<1>4. CASE GrowDone(p)
  <2>1. pc'[p] = "user" /\ UNCHANGED <<pt, tbl>> /\ UNCHANGED <<allocator, kf>>
    BY <1>0, <1>4, Zenon DEF GrowDone, Goto, ThreadOK
  <2> QED
    BY <1>0, <2>1, Quiet, CountSame, Zenon
<1> QED
  BY <1>1, <1>2, <1>3, <1>4, Zenon

-----------------------------------------------------------------------------
(* The invariant *)

\* Every step keeps the counts.
LEMMA NextCount ==
  ASSUME TypeOK, TgtInv, PgInv, \A q \in Proc : Shape(q), CountInv, NEW p \in Proc,
         UserStep(p) \/ KernelStep(p)
  PROVE  CountInv'
<1>1. CASE UserStep(p)
  BY <1>1, UserCount, Zenon
<1>2. CASE CowCopy(p) \/ CowFree(p) \/ CopyoutWrite(p)
  BY <1>2, CowCount, Zenon
<1>3. CASE CopyPage(p) \/ MapPage(p) \/ MapFails(p) \/ ForkDone(p)
  BY <1>3, CopyCount, Zenon
<1>4. CASE Unmap(p) \/ ClearPte(p)
  BY <1>4, UnmapCount, Zenon
<1>5. CASE KfreePush(p) \/ FreeTable(p) \/ FreeDone(p) \/ DeallocDone(p)
  BY <1>5, FreeCount, Zenon
<1>6. CASE GrowAlloc(p) \/ GrowMap(p) \/ GrowFails(p) \/ GrowDone(p)
  BY <1>6, GrowCount, Zenon
<1> QED
  BY <1>1, <1>2, <1>3, <1>4, <1>5, <1>6, Zenon DEF KernelStep

\* A page that nothing refers to.
LEMMA NoRef ==
  ASSUME NEW x, \A m \in Kind, s \in Proc, c \in 0 .. MaxSz : ~Holds(m, s, c, x)
  PROVE  Count(x) = 0
<1>1. Refs(x) = {}
  BY Zenon DEF Refs, Sites
<1> QED
  BY <1>1, FS_EmptySet, Zenon DEF Count

\* A page that at most one thing refers to.
LEMMA OneRef ==
  ASSUME NEW x, NEW r, Refs(x) \subseteq {r}
  PROVE  Count(x) <= 1
<1>1. IsFiniteSet({r}) /\ Cardinality({r}) = 1
  BY FS_Singleton, Zenon
<1>2. Cardinality(Refs(x)) <= Cardinality({r})
  BY <1>1, FS_Subset, Zenon
<1> QED
  BY <1>1, <1>2, Zenon DEF Count

\* The first process holds each of its pages once.
LEMMA InitIInv == Init => IInv
<1> SUFFICES ASSUME Init PROVE IInv
  BY Zenon
<1>1. PICK img \in [1 .. InitSz -> Page], t \in SUBSET Page :
        /\ \A a, b \in 1 .. InitSz : a # b => img[a] # img[b]
        /\ t \cap {img[a] : a \in 1 .. InitSz} = {}
        /\ free = Page \ (t \cup {img[a] : a \in 1 .. InitSz})
        /\ refcnt = [p \in Page |-> IF p \in t \cup {img[a] : a \in 1 .. InitSz} THEN 1 ELSE 0]
        /\ mem = [p \in Page |->
                    IF p \in (t \cup {img[a] : a \in 1 .. InitSz}) \ t THEN Zero ELSE Junk]
        /\ pt = [p \in Proc |-> [a \in Addr |->
                   IF p = InitProc /\ a <= InitSz
                   THEN [pa |-> img[a], w |-> a # 1] ELSE NoPte]]
        /\ tbl = [p \in Proc |-> IF p = InitProc THEN t ELSE {}]
        /\ sz = [p \in Proc |-> IF p = InitProc THEN InitSz ELSE 0]
        /\ panicked = FALSE
        /\ pc = [p \in Proc |-> IF p = InitProc THEN "user" ELSE "dead"]
        /\ va = [p \in Proc |-> 1]
        /\ lo = [p \in Proc |-> 0]
        /\ hi = [p \in Proc |-> 0]
        /\ tgt = [p \in Proc |-> p]
        /\ pg = [p \in Proc |-> None]
        /\ kf = [p \in Proc |-> None]
        /\ want = [p \in Proc |-> None]
  BY Zenon DEF Init
<1>2. /\ \A p \in Proc : /\ pc[p] = (IF p = InitProc THEN "user" ELSE "dead")
                         /\ tgt[p] = p /\ pg[p] = None /\ kf[p] = None /\ va[p] = 1
                         /\ sz[p] = (IF p = InitProc THEN InitSz ELSE 0)
                         /\ tbl[p] = (IF p = InitProc THEN t ELSE {})
      /\ InitSz \in Nat /\ MaxSz \in Nat /\ InitSz <= MaxSz
  BY <1>1, Bounds
<1>3. \A a \in Addr : a <= InitSz => a \in 1 .. InitSz /\ img[a] \in Page
  BY <1>1, <1>2 DEF Addr
<1>4. \A p \in Proc, a \in Addr :
        pt[p][a] = IF p = InitProc /\ a <= InitSz THEN [pa |-> img[a], w |-> a # 1] ELSE NoPte
  BY <1>1, Zenon
<1>5. \A p \in Proc, a \in Addr :
        pt[p][a].pa = IF p = InitProc /\ a <= InitSz THEN img[a] ELSE None
  <2>1. NoPte.pa = None
    BY Zenon DEF NoPte
  <2>2. ASSUME NEW p \in Proc, NEW a \in Addr
        PROVE  pt[p][a].pa = IF p = InitProc /\ a <= InitSz THEN img[a] ELSE None
    <3>1. CASE p = InitProc /\ a <= InitSz
      <4>1. pt[p][a] = [pa |-> img[a], w |-> a # 1]
        BY <1>4, <3>1, Zenon
      <4> QED
        BY <3>1, <4>1
    <3>2. CASE ~(p = InitProc /\ a <= InitSz)
      <4>1. pt[p][a] = NoPte
        BY <1>4, <3>2, Zenon
      <4> QED
        BY <2>1, <3>2, <4>1, Zenon
    <3> QED
      BY <3>1, <3>2, Zenon
  <2> QED
    BY <2>2, Zenon
<1>6. TypeOK
  <2>1. SpaceOK
    <3>1. ASSUME NEW p \in Proc, NEW a \in Addr PROVE pt[p][a] \in Pte
      <4>1. NoPte \in Pte
        BY Zenon DEF NoPte, Pte
      <4>2. \A x \in Page, w \in BOOLEAN : [pa |-> x, w |-> w] \in Pte
        BY Zenon DEF Pte
      <4>3. (a # 1) \in BOOLEAN
        BY Zenon
      <4> QED
        BY <1>3, <1>4, <4>1, <4>2, <4>3, Zenon
    <3>2. pt \in [Proc -> [Addr -> Pte]]
      BY <1>1, <3>1, Zenon
    <3>3. tbl \in [Proc -> SUBSET Page] /\ sz \in [Proc -> 0 .. MaxSz]
      BY <1>1, <1>2
    <3> QED
      BY <3>2, <3>3, Zenon DEF SpaceOK
  <2>2. AllocOK
    BY <1>1, Bounds, Zenon DEF AllocOK
  <2>3. ThreadOK
    BY <1>1, <1>2 DEF ThreadOK, Label
  <2> QED
    BY <2>1, <2>2, <2>3, Pieces, Zenon
<1>7. TgtInv /\ PgInv
  BY <1>2, Zenon DEF TgtInv, PgInv
<1>8. ASSUME NEW p \in Proc PROVE Shape(p)
  <2>1. \A a \in Addr : pt[p][a].pa = None => pt[p][a] = NoPte
    BY <1>3, <1>4, <1>5, Bounds
  <2>2. CASE p = InitProc
    <3>1. pc[p] = "user" /\ sz[p] = InitSz
      BY <1>2, <2>2, Zenon
    <3>2. \A a \in Addr : pt[p][a].pa # None <=> a <= InitSz
      BY <1>3, <1>5, <2>2, Bounds, Zenon
    <3> QED
      BY <2>1, <3>1, <3>2, Zenon DEF Shape
  <2>3. CASE p # InitProc
    <3>1. pc[p] = "dead" /\ tbl[p] = {}
      BY <1>2, <2>3, Zenon
    <3>2. \A a \in Addr : pt[p][a].pa = None
      BY <1>5, <2>3, Zenon
    <3> QED
      BY <2>1, <3>1, <3>2, Zenon DEF Shape
  <2> QED
    BY <2>2, <2>3, Zenon
<1>9. CountInv
  <2>1. ASSUME NEW x \in Page, NEW m \in Kind, NEW s \in Proc, NEW c \in 0 .. MaxSz,
               Holds(m, s, c, x)
        PROVE  /\ s = InitProc
               /\ \/ m = "pte" /\ c \in 1 .. InitSz /\ x = img[c]
                  \/ m = "tbl" /\ c = 0 /\ x \in t
    <3>1. CASE m = "pte"
      <4>1. c \in Addr /\ pt[s][c].pa = x
        BY <2>1, <3>1, Zenon DEF Holds
      <4>2. s = InitProc /\ c <= InitSz /\ x = img[c]
        BY <1>5, <4>1, Bounds, Zenon
      <4> QED
        BY <1>3, <3>1, <4>1, <4>2, Zenon
    <3>2. CASE m # "pte"
      BY <1>2, <2>1, <3>2, Bounds, Zenon DEF Holds
    <3> QED
      BY <3>1, <3>2, Zenon
  <2>2. ASSUME NEW x \in Page PROVE Count(x) <= refcnt[x]
    <3>1. CASE x \in t
      <4>1. \A c \in 1 .. InitSz : x # img[c]
        BY <1>1, <3>1, Zenon
      <4>2. Count(x) <= 1
        <5>1. \A m \in Kind, s \in Proc, c \in 0 .. MaxSz :
                Holds(m, s, c, x) => m = "tbl" /\ s = InitProc /\ c = 0
          BY <2>1, <4>1, Zenon
        <5>2. Refs(x) \subseteq {<<<<"tbl", InitProc>>, 0>>}
          BY <5>1 DEF Refs, Sites
        <5> QED
          BY <5>2, OneRef, Zenon
      <4>3. refcnt[x] = 1
        BY <1>1, <3>1, Zenon
      <4> QED
        BY <4>2, <4>3, Zenon
    <3>2. CASE x \in {img[a] : a \in 1 .. InitSz}
      <4>1. PICK b \in 1 .. InitSz : x = img[b]
        BY <3>2, Zenon
      <4>2. x \notin t
        BY <1>1, <3>2, Zenon
      <4>3. \A c \in 1 .. InitSz : x = img[c] => c = b
        BY <1>1, <4>1, Zenon
      <4>4. \A m \in Kind, s \in Proc, c \in 0 .. MaxSz :
              Holds(m, s, c, x) => m = "pte" /\ s = InitProc /\ c = b
        BY <2>1, <4>2, <4>3, Zenon
      <4>6. Count(x) <= 1
        <5>1. Refs(x) \subseteq {<<<<"pte", InitProc>>, b>>}
          BY <4>4 DEF Refs, Sites
        <5> QED
          BY <5>1, OneRef, Zenon
      <4>5. refcnt[x] = 1
        BY <1>1, <3>2, Zenon
      <4> QED
        BY <4>5, <4>6, Zenon
    <3>3. CASE x \notin t /\ x \notin {img[a] : a \in 1 .. InitSz}
      <4>1. \A c \in 1 .. InitSz : x # img[c]
        BY <3>3, Zenon
      <4>2. Count(x) = 0
        <5>1. \A m \in Kind, s \in Proc, c \in 0 .. MaxSz : ~Holds(m, s, c, x)
          BY <2>1, <3>3, <4>1, Zenon
        <5> QED
          BY <5>1, NoRef, Zenon
      <4>3. refcnt[x] = 0
        BY <1>1, <3>3, Zenon
      <4> QED
        BY <4>2, <4>3
    <3> QED
      BY <3>1, <3>2, <3>3, Zenon
  <2>3. \A x \in free : refcnt[x] = 0
    BY <1>1, Zenon
  <2>4. ~panicked
    BY <1>1, Zenon
  <2> QED
    BY <1>2, <2>2, <2>3, <2>4, Zenon DEF CountInv
<1> QED
  BY <1>6, <1>7, <1>8, <1>9, Zenon DEF IInv

\* The invariant implies the property.
LEMMA IInvSafe == IInv => NoUseAfterFree
<1> SUFFICES ASSUME IInv PROVE NoUseAfterFree
  BY Zenon
<1>0. TypeOK /\ TgtInv /\ PgInv /\ (\A p \in Proc : Shape(p)) /\ CountInv
  BY Zenon DEF IInv
<1>1. ASSUME NEW p \in Proc, Maps(p) PROVE pt[tgt[p]][va[p]] = NoPte
  <2>0. tgt[p] \in Proc /\ va[p] \in Int /\ Shape(p) /\ Shape(tgt[p])
    BY <1>0, Locals, Zenon
  <2>1. CASE pc[p] = "map"
    <3>1. va[p] \in Addr
      BY <1>0, <2>0, <2>1, WorkAddr, Zenon DEF Shape
    <3>2. pt[tgt[p]][va[p]].pa # None <=> va[p] < va[p]
      BY <2>0, <2>1, <3>1, Zenon DEF Shape
    <3>3. ~(va[p] < va[p])
      BY <2>0
    <3> QED
      BY <2>0, <3>1, <3>2, <3>3, Zenon DEF Shape
  <2>2. CASE pc[p] = "growmap" /\ pg[p] # None
    <3>0. tgt[p] = p /\ va[p] <= hi[p]
      BY <1>0, <2>2, Zenon DEF TgtInv, PgInv
    <3>1. va[p] \in Addr
      BY <1>0, <3>0, WorkAddr, Zenon
    <3>2. pt[p][va[p]].pa # None <=> va[p] < va[p]
      BY <2>0, <2>2, <3>1, Zenon DEF Shape
    <3>3. ~(va[p] < va[p])
      BY <2>0
    <3> QED
      BY <2>0, <3>0, <3>1, <3>2, <3>3, Zenon DEF Shape
  <2> QED
    BY <1>1, <2>1, <2>2, Zenon DEF Maps
<1>2. ASSUME NEW x \in free \cup ({kf[p] : p \in Proc} \ {None})
      PROVE  /\ Mappings(x) = {}
             /\ \A p \in Proc : x \notin tbl[p] /\ (pc[p] \in {"cow", "growmap"} => pg[p] # x)
  <2>1. x \in Page /\ refcnt[x] = 0
    BY <1>0 DEF TypeOK, CountInv
  <2>2. \A k \in Kind, q \in Proc, a \in 0 .. MaxSz : ~Holds(k, q, a, x)
    <3>1. Count(x) <= 0 /\ Count(x) \in Nat
      BY <1>0, <2>1, RefCounts, Zenon DEF CountInv
    <3>2. ~(Count(x) >= 1)
      BY <3>1
    <3> QED
      BY <3>2, RefCounts, Zenon
  <2>3. ASSUME NEW q \in Proc, NEW a \in Addr, pt[q][a].pa = x, ~Stale(<<q, a>>) PROVE FALSE
    <3>1. Holds("pte", q, a, x) /\ "pte" \in Kind /\ a \in 0 .. MaxSz
      BY <2>3, AddrSites, Zenon DEF Holds, Kind
    <3> QED
      BY <2>2, <3>1, Zenon
  <2>4. Mappings(x) = {}
    BY <2>3 DEF Mappings
  <2>5. ASSUME NEW p \in Proc PROVE x \notin tbl[p] /\ (pc[p] \in {"cow", "growmap"} => pg[p] # x)
    <3>1. ~Holds("tbl", p, 0, x) /\ ~Holds("pg", p, 0, x)
      BY <2>2, AddrSites, Zenon DEF Kind
    <3> QED
      BY <3>1, Zenon DEF Holds
  <2> QED
    BY <2>4, <2>5, Zenon
<1> QED
  BY <1>0, <1>1, <1>2, Zenon DEF NoUseAfterFree, CountInv

\* No use after free, for any number of processes and pages: kfree() of a page
\* somebody maps, counts or holds, a panic() of kalloc.c and a remap are never
\* reached, however forks, faults, frees and exits interleave.
THEOREM CowNoUseAfterFree == Spec => []NoUseAfterFree
<1>1. IInv /\ [Next]_vars => IInv'
  <2> SUFFICES ASSUME IInv, [Next]_vars PROVE IInv'
    BY Zenon
  <2>0. TypeOK /\ TgtInv /\ PgInv /\ (\A p \in Proc : Shape(p)) /\ CountInv
    BY Zenon DEF IInv
  <2>1. ASSUME NEW p \in Proc, UserStep(p) \/ KernelStep(p) PROVE IInv'
    <3>1. TypeOK'
      <4>1. AllocOK' /\ SpaceOK' /\ ThreadOK'
        BY <2>0, <2>1, NextAlloc, NextSpace, NextThread, Zenon
      <4> QED
        BY <4>1, Pieces, Zenon DEF TypeOK, AllocOK, SpaceOK, ThreadOK, Label
    <3>2. TgtInv' /\ PgInv'
      BY <2>0, <2>1, NextTgt, NextPg, Zenon
    <3>3. ASSUME NEW r \in Proc PROVE Shape(r)'
      <4>1. CASE r = p
        BY <2>0, <2>1, <4>1, OwnShape, Zenon
      <4>2. CASE r # p
        BY <2>0, <2>1, <4>2, OtherShape, Zenon
      <4> QED
        BY <4>1, <4>2, Zenon
    <3>4. CountInv'
      BY <2>0, <2>1, NextCount, Zenon
    <3> QED
      BY <3>1, <3>2, <3>3, <3>4, Zenon DEF IInv
  <2>2. CASE UNCHANGED vars
    <3>1. TypeOK'
      BY <2>0, <2>2, Zenon DEF vars, locals, TypeOK
    <3>2. TgtInv' /\ PgInv' /\ \A p \in Proc : Shape(p)'
      <4>1. TgtInv' /\ PgInv'
        BY <2>0, <2>2, Zenon DEF vars, locals, TgtInv, PgInv
      <4> QED
        BY <2>0, <2>2, <4>1, SameShape, Zenon DEF vars, locals
    <3>3. \A x : Kept(x)
      BY <2>2 DEF vars, locals, Kept, Holds, Stale
    <3>4. CountInv'
      BY <2>0, <2>2, <3>3, CountSame, Zenon DEF vars, allocator
    <3> QED
      BY <3>1, <3>2, <3>4, Zenon DEF IInv
  <2> QED
    BY <2>1, <2>2, Zenon DEF Next
<1> QED
  BY <1>1, InitIInv, IInvSafe, PTL DEF Spec
=============================================================================

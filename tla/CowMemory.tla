----------------------------- MODULE CowMemory -----------------------------
(***************************************************************************)
(* Copy-on-write user memory: kernel/kalloc.c (free list and reference     *)
(* counts), kernel/vm.c (uvmcopy, uvmunmap, uvmalloc, uvmdealloc, copyout) *)
(* and cowfault() of kernel/trap.c.                                        *)
(*                                                                         *)
(* A critical section of kmem.lock is one step; what a thread does between *)
(* two of them (copying a page, writing its own page table) is a step too, *)
(* so kalloc(), kfree(), page faults and forks of different processes      *)
(* interleave.  The free list is a set: nothing depends on its order.      *)
(* Addresses are page numbers; page 1 is the program's read-only text.     *)
(***************************************************************************)
EXTENDS Integers, FiniteSets

CONSTANTS Proc,      \* process slots
          Page,      \* physical pages kalloc() hands out
          Val,       \* page contents a program can write
          Zero,      \* a zeroed page
          Junk,      \* what kalloc() and kfree() fill pages with
          None,      \* no page
          PTESPAN,   \* pages mapped by one page-table page (512)
          MaxSz,     \* bound: pages of an address space
          MaxRef,    \* bound: no fork() once a reference count reaches it
          InitProc,  \* the process that runs first
          InitSz     \* its pages

ASSUME CowAssumption ==
  /\ Zero \in Val /\ Junk \notin Val /\ None \notin Page
  /\ PTESPAN \in Nat \ {0} /\ MaxSz \in Nat /\ MaxRef \in Nat
  /\ InitSz \in 1 .. MaxSz
  /\ InitProc \in Proc /\ IsFiniteSet(Proc)

VARIABLES free,      \* kmem.freelist
          refcnt,    \* refcnt[]
          mem,       \* contents of physical pages
          pt,        \* leaf PTEs of each process: pa and PTE_W
          tbl,       \* its trapframe and page-table pages
          sz,        \* p->sz in pages
          panicked,  \* a panic() of kalloc.c was reached
          pc,        \* where each process's thread is
          va,        \* the page it works on
          lo, hi,    \* range of pages uvmunmap() removes
          tgt,       \* the process whose memory it works on
          pg,        \* page held in a local variable
          kf,        \* page kfree() has taken to refcnt 0 and not yet pushed
          want       \* data copyout() carries

allocator == <<free, refcnt, panicked>>
locals == <<va, lo, hi, tgt, pg, want>>
vars == <<free, refcnt, mem, pt, tbl, sz, panicked, pc, locals, kf>>

Addr == 1 .. MaxSz
NoPte == [pa |-> None, w |-> FALSE]
Pte == [pa : Page \cup {None}, w : BOOLEAN]

TypeOK ==
  /\ free \subseteq Page
  /\ refcnt \in [Page -> Nat]
  /\ mem \in [Page -> Val \cup {Junk}]
  /\ pt \in [Proc -> [Addr -> Pte]]
  /\ tbl \in [Proc -> SUBSET Page]
  /\ sz \in [Proc -> 0 .. MaxSz]
  /\ panicked \in BOOLEAN
  /\ pc \in [Proc -> {"dead", "embryo", "user", "cow", "cowfree", "out",
                      "copy", "map", "growmap", "dealloc", "unmap"}]
  /\ va \in [Proc -> 1 .. MaxSz + 1]
  /\ lo \in [Proc -> 0 .. MaxSz]
  /\ hi \in [Proc -> 0 .. MaxSz]
  /\ tgt \in [Proc -> Proc]
  /\ pg \in [Proc -> Page \cup {None}]
  /\ kf \in [Proc -> Page \cup {None}]
  /\ want \in [Proc -> Val \cup {None}]

\* The first process as exec() leaves it: InitSz pages, its text read-only,
\* and one page of trapframe and tables plus its leaf tables.
Init ==
  \E img \in [1 .. InitSz -> Page], t \in SUBSET Page :
    /\ \A a, b \in 1 .. InitSz : a # b => img[a] # img[b]
    /\ Cardinality(t) = 2 + (InitSz - 1) \div PTESPAN
    /\ t \cap {img[a] : a \in 1 .. InitSz} = {}
    /\ LET used == t \cup {img[a] : a \in 1 .. InitSz} IN
       /\ free = Page \ used
       /\ refcnt = [p \in Page |-> IF p \in used THEN 1 ELSE 0]
       /\ mem = [p \in Page |-> IF p \in used \ t THEN Zero ELSE Junk]
    /\ pt = [p \in Proc |-> [a \in Addr |->
               IF p = InitProc /\ a <= InitSz
               THEN [pa |-> img[a], w |-> a # 1] ELSE NoPte]]
    /\ tbl = [p \in Proc |-> IF p = InitProc THEN t ELSE {}]
    /\ sz = [p \in Proc |-> IF p = InitProc THEN InitSz ELSE 0]
    /\ panicked = FALSE
    /\ pc = [p \in Proc |-> IF p = InitProc THEN "user" ELSE "dead"]
    /\ va = [p \in Proc |-> 1]
    /\ lo = [p \in Proc |-> 0]
    /\ hi = [p \in Proc |-> 0]
    /\ tgt = [p \in Proc |-> p]
    /\ pg = [p \in Proc |-> None]
    /\ kf = [p \in Proc |-> None]
    /\ want = [p \in Proc |-> None]

-----------------------------------------------------------------------------
(* kalloc.c *)

\* A thread is at a control point once the kfree() before it is complete.
At(p, point) == pc[p] = point /\ kf[p] = None

Goto(p, point) == pc' = [pc EXCEPT ![p] = point]
Set(f, p, x) == [f EXCEPT ![p] = x]

\* kalloc() returns page x.
Kalloc(x) ==
  /\ x \in free
  /\ free' = free \ {x}
  /\ refcnt' = [refcnt EXCEPT ![x] = 1]
  /\ panicked' = (panicked \/ refcnt[x] # 0)

\* The first critical section of kfree(x).
Kfree(p, x) ==
  /\ panicked' = (panicked \/ refcnt[x] < 1)
  /\ refcnt' = [refcnt EXCEPT ![x] = IF @ < 1 THEN @ ELSE @ - 1]
  /\ kf' = [kf EXCEPT ![p] = IF refcnt[x] = 1 THEN x ELSE None]
  /\ UNCHANGED free

\* The rest of kfree() of an unreferenced page: junk, then the free list.
KfreePush(p) ==
  /\ kf[p] # None
  /\ mem' = [mem EXCEPT ![kf[p]] = Junk]
  /\ free' = free \cup {kf[p]}
  /\ kf' = [kf EXCEPT ![p] = None]
  /\ UNCHANGED <<refcnt, pt, tbl, sz, panicked, pc, locals>>

\* Mutant of Increse: the reference is not counted.
IncreseNothing(x) == UNCHANGED <<free, refcnt, panicked>>

\* increse(x)
Increse(x) ==
  /\ panicked' = (panicked \/ refcnt[x] < 1)
  /\ refcnt' = [refcnt EXCEPT ![x] = @ + 1]
  /\ UNCHANGED free

-----------------------------------------------------------------------------
(* Stores, page faults and copyout() *)

\* A store the PTE allows.
Store(p, a, v) ==
  /\ At(p, "user") /\ a <= sz[p]
  /\ pt[p][a].w
  /\ mem' = [mem EXCEPT ![pt[p][a].pa] = v]
  /\ UNCHANGED <<allocator, pt, tbl, sz, pc, locals, kf>>

\* exit() of p, or its death after a fault: everything it maps goes.
Exits(p) ==
  /\ Goto(p, "unmap")
  /\ tgt' = Set(tgt, p, p)
  /\ lo' = Set(lo, p, 0)
  /\ hi' = Set(hi, p, sz[p])
  /\ va' = Set(va, p, 1)

\* cowfault() of page a up to its kalloc(), which succeeds.
Cowfault(p, a) ==
  /\ \E x \in free : Kalloc(x) /\ pg' = Set(pg, p, x)
  /\ va' = Set(va, p, a)
  /\ Goto(p, "cow")

\* A store page fault (scause 15): cowfault(); without memory the process is
\* killed.
StoreFault(p, a) ==
  /\ At(p, "user") /\ a <= sz[p]
  /\ ~pt[p][a].w
  /\ IF free = {}
     THEN /\ Exits(p)
          /\ UNCHANGED <<allocator, pg, want>>
     ELSE Cowfault(p, a) /\ UNCHANGED <<lo, hi, tgt, want>>
  /\ UNCHANGED <<mem, pt, tbl, sz, kf>>

\* copyout(): cowfault() whatever the PTE says; without memory it fails.
Copyout(p, a, v) ==
  /\ At(p, "user") /\ a <= sz[p]
  /\ Cowfault(p, a)
  /\ want' = Set(want, p, v)
  /\ UNCHANGED <<mem, pt, tbl, sz, lo, hi, tgt, kf>>

\* Mutant of CowCopy: the PTE is redirected before the page is copied.
CowNoCopy(p) ==
  LET pa1 == pt[p][va[p]].pa IN
  /\ At(p, "cow")
  /\ pt' = [pt EXCEPT ![p][va[p]] = [pa |-> pg[p], w |-> TRUE]]
  /\ pg' = Set(pg, p, pa1)
  /\ Goto(p, "cowfree")
  /\ UNCHANGED <<allocator, mem, tbl, sz, va, lo, hi, tgt, want, kf>>

\* cowfault(): memmove() and the new PTE, always writable.
CowCopy(p) ==
  LET pa1 == pt[p][va[p]].pa IN
  /\ At(p, "cow")
  /\ mem' = [mem EXCEPT ![pg[p]] = mem[pa1]]
  /\ pt' = [pt EXCEPT ![p][va[p]] = [pa |-> pg[p], w |-> TRUE]]
  /\ pg' = Set(pg, p, pa1)
  /\ Goto(p, "cowfree")
  /\ UNCHANGED <<allocator, tbl, sz, va, lo, hi, tgt, want, kf>>

\* cowfault(): kfree(pa1); then the store is retried, or copyout() goes on.
CowFree(p) ==
  /\ At(p, "cowfree")
  /\ Kfree(p, pg[p])
  /\ pg' = Set(pg, p, None)
  /\ Goto(p, IF want[p] = None THEN "user" ELSE "out")
  /\ UNCHANGED <<mem, pt, tbl, sz, va, lo, hi, tgt, want>>

\* copyout(): memmove() to the page walkaddr() finds.
CopyoutWrite(p) ==
  /\ At(p, "out")
  /\ mem' = [mem EXCEPT ![pt[p][va[p]].pa] = want[p]]
  /\ want' = Set(want, p, None)
  /\ Goto(p, "user")
  /\ UNCHANGED <<allocator, pt, tbl, sz, va, lo, hi, tgt, pg, kf>>
-----------------------------------------------------------------------------
(* fork() and uvmcopy() *)

\* allocproc() and proc_pagetable(): one page stands for the trapframe of q
\* and the tables that map it and the trampoline.
ProcPagetable(q) ==
  \E x \in free : Kalloc(x) /\ tbl' = [tbl EXCEPT ![q] = {x}]

\* fork() begins; it fails when allocproc() finds no memory.
Fork(p, q) ==
  /\ At(p, "user") /\ pc[q] = "dead"
  /\ \A x \in Page : refcnt[x] < MaxRef
  /\ ProcPagetable(q)
  /\ pc' = [pc EXCEPT ![p] = "copy", ![q] = "embryo"]
  /\ tgt' = Set(tgt, p, q)
  /\ va' = Set(va, p, 1)
  /\ UNCHANGED <<mem, pt, sz, lo, hi, pg, want, kf>>

\* uvmcopy(): PTE_W is cleared in the parent, increse(pa).
CopyPage(p) ==
  LET a == va[p] IN
  /\ At(p, "copy") /\ a <= sz[p]
  /\ pt' = [pt EXCEPT ![p][a].w = FALSE]
  /\ Increse(pt[p][a].pa)
  /\ Goto(p, "map")
  /\ UNCHANGED <<mem, tbl, sz, locals, kf>>

\* walk(..., 1) in mappages() must allocate a page-table page to reach a.
NeedsTable(q, a) == Cardinality(tbl[q]) < 2 + (a - 1) \div PTESPAN

\* walk() for address a of q: the table is there, or one is allocated.
Walk(q, a) ==
  IF NeedsTable(q, a)
  THEN \E x \in free : Kalloc(x) /\ tbl' = [tbl EXCEPT ![q] = @ \cup {x}]
  ELSE UNCHANGED <<allocator, tbl>>

\* mappages() of one page.
Mappages(q, a, pte) == Walk(q, a) /\ pt' = [pt EXCEPT ![q][a] = pte]

\* uvmcopy(): mappages() of the page in the child, with the parent's flags.
MapPage(p) ==
  LET a == va[p]
      q == tgt[p]
  IN
  /\ At(p, "map")
  /\ Mappages(q, a, pt[p][a])
  /\ va' = Set(va, p, a + 1)
  /\ Goto(p, "copy")
  /\ UNCHANGED <<mem, sz, lo, hi, tgt, pg, want, kf>>

\* uvmcopy(): mappages() fails; goto err, which unmaps the pages before a.
MapFails(p) ==
  LET a == va[p] IN
  /\ At(p, "map")
  /\ NeedsTable(tgt[p], a) /\ free = {}
  /\ lo' = Set(lo, p, 0)
  /\ hi' = Set(hi, p, a - 1)
  /\ va' = Set(va, p, 1)
  /\ Goto(p, "unmap")
  /\ UNCHANGED <<allocator, mem, pt, tbl, sz, tgt, pg, want, kf>>

\* fork() succeeds: np->sz = p->sz, and the child may run.
ForkDone(p) ==
  LET q == tgt[p] IN
  /\ At(p, "copy") /\ va[p] > sz[p]
  /\ sz' = [sz EXCEPT ![q] = sz[p]]
  /\ pc' = [pc EXCEPT ![p] = "user", ![q] = "user"]
  /\ tgt' = Set(tgt, p, p)
  /\ va' = Set(va, p, 1)
  /\ UNCHANGED <<allocator, mem, pt, tbl, lo, hi, pg, want, kf>>

-----------------------------------------------------------------------------
(* uvmunmap() and what ends with it: exit, failed fork, sbrk *)

\* One iteration of uvmunmap(..., 1) begins with kfree(pa) ...
Unmap(p) ==
  LET pa == pt[tgt[p]][va[p]].pa IN
  /\ At(p, "unmap") \/ At(p, "dealloc")
  /\ va[p] <= hi[p] /\ pg[p] = None
  /\ Kfree(p, pa)
  /\ pg' = Set(pg, p, pa)
  /\ UNCHANGED <<mem, pt, tbl, sz, pc, va, lo, hi, tgt, want>>

\* ... and clears the PTE when the page is long on the free list.
ClearPte(p) ==
  /\ At(p, "unmap") \/ At(p, "dealloc")
  /\ pg[p] # None
  /\ pt' = [pt EXCEPT ![tgt[p]][va[p]] = NoPte]
  /\ pg' = Set(pg, p, None)
  /\ va' = Set(va, p, va[p] + 1)
  /\ UNCHANGED <<allocator, mem, tbl, sz, pc, lo, hi, tgt, want, kf>>

\* All leaves are gone: freewalk() and the trapframe, page by page.
FreeTable(p) ==
  LET q == tgt[p] IN
  /\ At(p, "unmap") /\ va[p] > hi[p]
  /\ tbl[q] # {}
  /\ \E x \in tbl[q] : Kfree(p, x) /\ tbl' = [tbl EXCEPT ![q] = @ \ {x}]
  /\ UNCHANGED <<mem, pt, sz, pc, locals>>

\* freeproc() is over: the slot is unused, a failed fork() returns -1.
FreeDone(p) ==
  LET q == tgt[p] IN
  /\ At(p, "unmap") /\ va[p] > hi[p]
  /\ tbl[q] = {}
  /\ sz' = [sz EXCEPT ![q] = 0]
  /\ pc' = [pc EXCEPT ![p] = "user", ![q] = "dead"]
  /\ tgt' = Set(tgt, p, p)
  /\ va' = Set(va, p, 1)
  /\ hi' = Set(hi, p, 0)
  /\ UNCHANGED <<allocator, mem, pt, tbl, lo, pg, want, kf>>

Exit(p) ==
  /\ At(p, "user")
  /\ Exits(p)
  /\ UNCHANGED <<allocator, mem, pt, tbl, sz, pg, want, kf>>

\* growproc() of n > 0 pages: uvmalloc() begins.
Sbrk(p, n) ==
  /\ At(p, "user") /\ sz[p] + n <= MaxSz
  /\ lo' = Set(lo, p, sz[p])
  /\ hi' = Set(hi, p, sz[p] + n)
  /\ va' = Set(va, p, sz[p] + 1)
  /\ Goto(p, "growmap")
  /\ UNCHANGED <<allocator, mem, pt, tbl, sz, tgt, pg, want, kf>>

\* uvmalloc(): kalloc() of the next page, cleared; mappages() fails or not.
GrowAlloc(p) ==
  /\ At(p, "growmap") /\ pg[p] = None /\ va[p] <= hi[p]
  /\ \E x \in free :
       /\ Kalloc(x)
       /\ mem' = [mem EXCEPT ![x] = Zero]
       /\ pg' = Set(pg, p, x)
  /\ UNCHANGED <<pt, tbl, sz, pc, va, lo, hi, tgt, want, kf>>

GrowMap(p) ==
  LET a == va[p] IN
  /\ At(p, "growmap") /\ pg[p] # None
  /\ Mappages(p, a, [pa |-> pg[p], w |-> TRUE])
  /\ pg' = Set(pg, p, None)
  /\ va' = Set(va, p, a + 1)
  /\ UNCHANGED <<mem, sz, pc, lo, hi, tgt, want, kf>>

\* uvmalloc() fails: the page in hand is freed, uvmdealloc() of the rest.
GrowFails(p) ==
  /\ At(p, "growmap") /\ va[p] <= hi[p]
  /\ free = {}
  /\ IF pg[p] = None
     THEN UNCHANGED <<allocator, kf>>
     ELSE NeedsTable(p, va[p]) /\ Kfree(p, pg[p])
  /\ pg' = Set(pg, p, None)
  /\ hi' = Set(hi, p, va[p] - 1)
  /\ va' = Set(va, p, lo[p] + 1)
  /\ Goto(p, "dealloc")
  /\ UNCHANGED <<mem, pt, tbl, sz, lo, tgt, want>>

GrowDone(p) ==
  /\ At(p, "growmap") /\ pg[p] = None /\ va[p] > hi[p]
  /\ sz' = [sz EXCEPT ![p] = hi[p]]
  /\ va' = Set(va, p, 1)
  /\ lo' = Set(lo, p, 0)
  /\ hi' = Set(hi, p, 0)
  /\ Goto(p, "user")
  /\ UNCHANGED <<allocator, mem, pt, tbl, tgt, pg, want, kf>>

\* growproc() of n < 0 pages: uvmdealloc() begins.
Shrink(p, n) ==
  /\ At(p, "user") /\ n < sz[p]
  /\ lo' = Set(lo, p, n)
  /\ hi' = Set(hi, p, sz[p])
  /\ va' = Set(va, p, n + 1)
  /\ Goto(p, "dealloc")
  /\ UNCHANGED <<allocator, mem, pt, tbl, sz, tgt, pg, want, kf>>

\* growproc(): p->sz = sz.
DeallocDone(p) ==
  /\ At(p, "dealloc") /\ va[p] > hi[p]
  /\ sz' = [sz EXCEPT ![p] = lo[p]]
  /\ va' = Set(va, p, 1)
  /\ lo' = Set(lo, p, 0)
  /\ hi' = Set(hi, p, 0)
  /\ Goto(p, "user")
  /\ UNCHANGED <<allocator, mem, pt, tbl, tgt, pg, want, kf>>

UserStep(p) ==
  \/ \E a \in Addr, v \in Val : Store(p, a, v) \/ Copyout(p, a, v)
  \/ \E a \in Addr : StoreFault(p, a)
  \/ \E q \in Proc : Fork(p, q)
  \/ Exit(p)
  \/ \E n \in 1 .. MaxSz : Sbrk(p, n) \/ Shrink(p, n)

KernelStep(p) ==
  \/ KfreePush(p)
  \/ CowCopy(p) \/ CowFree(p) \/ CopyoutWrite(p)
  \/ CopyPage(p) \/ MapPage(p) \/ MapFails(p) \/ ForkDone(p)
  \/ Unmap(p) \/ ClearPte(p) \/ FreeTable(p) \/ FreeDone(p)
  \/ GrowAlloc(p) \/ GrowMap(p) \/ GrowFails(p) \/ GrowDone(p)
  \/ DeallocDone(p)

Next == \E p \in Proc : UserStep(p) \/ KernelStep(p)

Spec == Init /\ [][Next]_vars

-----------------------------------------------------------------------------
(* Properties *)

Alive(p) ==
  pc[p] \notin {"dead", "embryo"} /\ ~(pc[p] = "unmap" /\ tgt[p] = p)

\* The pages a live process can still use.
Size(p) == IF pc[p] = "dealloc" THEN lo[p] ELSE sz[p]

Contents(p) ==
  IF Alive(p) THEN [a \in 1 .. Size(p) |-> mem[pt[p][a].pa]] ELSE <<>>

Private == INSTANCE PrivateMemory WITH
             alive <- {p \in Proc : Alive(p)},
             memory <- [p \in Proc |-> Contents(p)]

\* Copy-on-write is invisible: sharing pages after fork(), faults, frees and
\* reuse of pages by other processes implement private memories.
CowIsPrivate == Private!Spec

\* uvmunmap() has freed the page of this PTE and is about to clear it.
Stale(m) ==
  \E p \in Proc : /\ pc[p] \in {"unmap", "dealloc"} /\ pg[p] # None
                  /\ m = <<tgt[p], va[p]>>

Mappings(x) ==
  {m \in Proc \X Addr : pt[m[1]][m[2]].pa = x /\ ~Stale(m)}

\* mappages() is about to map a page of tgt[p].
Maps(p) == pc[p] = "map" \/ (pc[p] = "growmap" /\ pg[p] # None)

\* No use after free: all values have their types, the panics of increse(),
\* kfree() and kalloc() on a wrong reference count and of mappages() on a
\* remap are unreachable, and what is on the free list, or between the two
\* critical sections of kfree(), is mapped by nobody, is no page table and is
\* in no local variable of cowfault() or uvmalloc().
NoUseAfterFree ==
  /\ TypeOK
  /\ ~panicked
  /\ \A p \in Proc : Maps(p) => pt[tgt[p]][va[p]] = NoPte
  /\ \A x \in free \cup ({kf[p] : p \in Proc} \ {None}) :
       /\ Mappings(x) = {}
       /\ \A p \in Proc : /\ x \notin tbl[p]
                         /\ pc[p] \in {"cow", "growmap"} => pg[p] # x

\* References to x from mappings, page tables and local variables.
References(x) ==
  Cardinality(Mappings(x))
    + Cardinality({p \in Proc : x \in tbl[p]})
    + Cardinality({p \in Proc : pg[p] = x
                                /\ pc[p] \in {"cow", "cowfree", "growmap"}})
    + Cardinality({p \in Proc : pc[p] = "map" /\ pt[p][va[p]].pa = x})

\* uvmcopy() "frees any allocated pages on failure": every count is the
\* number of references there are, so no page is lost.
NoLeak == \A x \in Page : refcnt[x] = References(x)

\* A store to the program's read-only text does not change it: the process
\* is killed instead.
TextImmutable ==
  \A p \in Proc : Alive(p) /\ Size(p) >= 1 => Contents(p)[1] = Zero
=============================================================================

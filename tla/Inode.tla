------------------------------- MODULE Inode -------------------------------
(***************************************************************************)
(* Inodes, directories and open files: iget, ilock, iput, ialloc, dirlink  *)
(* and namex of kernel/fs.c, filealloc, filedup and fileclose of           *)
(* kernel/file.c, and the calls of kernel/sysfile.c that make, link, find  *)
(* and remove files.  A step ends where a process has to lock an inode or  *)
(* the inode table again.  File contents, and the log around every call,   *)
(* are left out.                                                           *)
(***************************************************************************)
EXTENDS Integers, Sequences, FiniteSets, TLC

CONSTANTS Process, Initproc, Nobody,
          NINODES,      \* inodes on the disk, 1 .. NINODES; 1 is ROOTINO
          Name,         \* names in directories
          Calls,        \* bound: the calls of each process, and their paths, over
                        \* Name and ".."
          NewPath,      \* bound: the second path of link()
          MaxLink,      \* bound: links when link() is called
          File, NoFile, \* struct file
          NOFILE

ASSUME InodeAssumption ==
  /\ Initproc \in Process /\ Nobody \notin Process /\ NoFile \notin File
  /\ NINODES \in Nat \ {0} /\ NOFILE \in Nat /\ MaxLink \in Nat
  /\ ".." \notin Name
  /\ NewPath \cup {c.path : c \in UNION {Calls[p] : p \in Process}} \subseteq Seq(Name \cup {".."}) \ {<<>>}

VARIABLES dinode,       \* on the disk: type and nlink
          dir,          \* on the disk: entries of directories
          inode,        \* in memory: type and nlink
          ref, valid,   \* in memory; of an entry that is free, reset
          lock,         \* ip->lock: its holder
          file, fref,   \* f->ip and f->ref
          ofile, cwd,   \* of each process
          th,           \* each process in the kernel
          panicked

disk == <<dinode, dir>>
table == <<inode, ref, valid, lock>>
files == <<file, fref, ofile>>
vars == <<disk, table, files, cwd, th, panicked>>

Inum == 1 .. NINODES
NoInode == 0
ROOTINO == 1
FD == 0 .. NOFILE - 1
Free == [type |-> "none", nlink |-> 0]
Empty == [n \in Name \cup {".."} |-> NoInode]

\* Where a process is: each of ip, dp, old and put holds a reference when it is
\* not NoInode; then is where it goes on after iput(put).
Idle == [op |-> "none", pc |-> "idle", path |-> <<>>, ip |-> NoInode, dp |-> NoInode,
         old |-> NoInode, put |-> NoInode, then |-> "idle"]

TypeOK ==
  /\ {dinode, inode} \subseteq
       [Inum -> [type : {"none", "dir", "file"}, nlink : 0 .. MaxLink + NINODES]]
  /\ dir \in [Inum -> [Name \cup {".."} -> Inum \cup {NoInode}]]
  /\ ref \in [Inum -> Nat] /\ valid \in [Inum -> BOOLEAN]
  /\ lock \in [Inum -> Process \cup {Nobody}]
  /\ file \in [File -> Inum \cup {NoInode}] /\ fref \in [File -> Nat]
  /\ ofile \in [Process -> [FD -> File \cup {NoFile}]]
  /\ cwd \in [Process -> Inum \cup {NoInode}]
  /\ \A p \in Process : /\ DOMAIN th[p] = DOMAIN Idle
                        /\ {th[p].ip, th[p].dp, th[p].old, th[p].put}
                             \subseteq Inum \cup {NoInode}
  /\ panicked \in BOOLEAN

\* What mkfs makes, and the first process in its root directory.
Init ==
  /\ dinode = [i \in Inum |-> IF i = ROOTINO THEN [type |-> "dir", nlink |-> 1] ELSE Free]
  /\ dir = [i \in Inum |-> IF i = ROOTINO THEN [Empty EXCEPT ![".."] = ROOTINO] ELSE Empty]
  /\ inode = [i \in Inum |-> Free]
  /\ ref = [i \in Inum |-> IF i = ROOTINO THEN 1 ELSE 0]
  /\ valid = [i \in Inum |-> FALSE]
  /\ lock = [i \in Inum |-> Nobody]
  /\ file = [f \in File |-> NoInode] /\ fref = [f \in File |-> 0]
  /\ ofile = [p \in Process |-> [fd \in FD |-> NoFile]]
  /\ cwd = [p \in Process |-> IF p = Initproc THEN ROOTINO ELSE NoInode]
  /\ th = [p \in Process |-> IF p = Initproc THEN Idle ELSE [Idle EXCEPT !.pc = "dead"]]
  /\ panicked = FALSE

-----------------------------------------------------------------------------
(* Inodes *)

At(p, label) == th[p].pc = label /\ ~panicked
Go(p, regs) == th' = [th EXCEPT ![p] = regs @@ @]

\* iput(i), then on at a label; "idle" is the return to user space.
Put(p, i, label, regs) == Go(p, [pc |-> "iput", put |-> i, then |-> label] @@ regs)

\* iget(i) or idup(i)
Iget(i) == ref' = [ref EXCEPT ![i] = @ + 1]

\* dirlookup() in directory d; NoInode if the name is not there.
dirlookup(d, name) == dir[d][name]

\* skipelem(): the next element of the path of p's call.
Elem(p) == Head(th[p].path)

\* ilock(i) reads the inode if it is not valid, and panics if it is a free one.
CanLock(i) == lock[i] = Nobody
Loaded(i) == IF valid[i] THEN inode[i] ELSE dinode[i]
Typeless(i) == ~valid[i] /\ dinode[i].type = "none"
Load(i) ==
  /\ CanLock(i)
  /\ inode' = [inode EXCEPT ![i] = Loaded(i)] /\ valid' = [valid EXCEPT ![i] = TRUE]
  /\ panicked' = Typeless(i)

\* ilock(i), a change of the inode, iupdate(i)
Update(i, ino) ==
  /\ inode' = [inode EXCEPT ![i] = ino] /\ valid' = [valid EXCEPT ![i] = TRUE]
  /\ dinode' = [dinode EXCEPT ![i] = ino]

\* iput() of an inode without links and other references locks it ...
Last(i) == ref[i] = 1 /\ valid[i] /\ inode[i].nlink = 0

IputLast(p) ==
  LET i == th[p].put IN
  /\ At(p, "iput") /\ Last(i) /\ CanLock(i)
  /\ lock' = [lock EXCEPT ![i] = p]
  /\ Go(p, [pc |-> "trunc"])
  /\ UNCHANGED <<disk, inode, ref, valid, files, cwd, panicked>>

\* ... frees it on the disk, where ialloc() may find it from now on ...
Trunc(p) ==
  LET i == th[p].put IN
  /\ At(p, "trunc")
  /\ dir' = [dir EXCEPT ![i] = Empty]
  /\ dinode' = [dinode EXCEPT ![i] = Free] /\ inode' = [inode EXCEPT ![i] = Free]
  /\ Go(p, [pc |-> "invalid"])
  /\ UNCHANGED <<ref, valid, lock, files, cwd, panicked>>

\* ... and unlocks it.
Invalidate(p) ==
  LET i == th[p].put IN
  /\ At(p, "invalid")
  /\ valid' = [valid EXCEPT ![i] = FALSE] /\ inode' = [inode EXCEPT ![i] = Free]
  /\ lock' = [lock EXCEPT ![i] = Nobody]
  /\ Go(p, [pc |-> "drop"])
  /\ UNCHANGED <<disk, ref, files, cwd, panicked>>

\* The reference goes.  iget() will not find an entry without references again.
Iput(p) ==
  LET i == th[p].put
      regs == IF th[p].then \in {"idle", "dead"} THEN Idle ELSE th[p]
  IN
  /\ At(p, "drop") \/ (At(p, "iput") /\ ~Last(i))
  /\ ref' = [ref EXCEPT ![i] = @ - 1]
  /\ valid' = [valid EXCEPT ![i] = @ /\ ref[i] > 1]
  /\ inode' = [inode EXCEPT ![i] = IF ref[i] > 1 THEN @ ELSE Free]
  /\ Go(p, [pc |-> th[p].then, then |-> "idle", put |-> NoInode] @@ regs)
  /\ UNCHANGED <<disk, lock, files, cwd, panicked>>

-----------------------------------------------------------------------------
(* namex() *)

Creates == {"create", "mkdir"}
Parent == Creates \cup {"unlink", "link2"}   \* who calls nameiparent()

Call(p, c) ==
  /\ At(p, "idle")
  /\ c.op = "link" => \A i \in Inum : dinode[i].nlink < MaxLink
  /\ Iget(cwd[p])
  /\ Go(p, [op |-> c.op, pc |-> "walk", path |-> c.path, ip |-> cwd[p]])
  /\ UNCHANGED <<disk, inode, valid, lock, files, cwd, panicked>>

\* Where a call goes when it has found nothing.
Fails(p) == IF th[p].op = "link2" THEN "bad" ELSE "idle"

\* One component of the path: ilock(), dirlookup(), iunlock().
Walk(p) ==
  LET i == th[p].ip
      path == th[p].path
      next == dirlookup(i, Elem(p))
  IN
  /\ At(p, "walk") /\ Load(i)
  /\ \/ /\ Loaded(i).type = "dir" /\ th[p].op \in Parent /\ Len(path) = 1
        /\ Go(p, [pc |-> "parent", dp |-> i, ip |-> NoInode])
        /\ UNCHANGED ref
     \/ /\ Loaded(i).type = "dir" /\ (th[p].op \notin Parent \/ Len(path) > 1)
        /\ next # NoInode /\ Iget(next)
        /\ Put(p, i, IF Len(path) = 1 THEN "got" ELSE "walk",
                     [ip |-> next, path |-> Tail(path)])
     \/ /\ Loaded(i).type = "dir" /\ (th[p].op \notin Parent \/ Len(path) > 1)
        /\ next = NoInode
        /\ Put(p, i, Fails(p), [ip |-> NoInode, path |-> <<>>])
        /\ UNCHANGED ref
     \/ /\ Loaded(i).type # "dir"
        /\ Put(p, i, Fails(p), [ip |-> NoInode, path |-> <<>>])
        /\ UNCHANGED ref
  /\ UNCHANGED <<disk, lock, files, cwd>>

-----------------------------------------------------------------------------
(* Open files *)

FreeFiles == {f \in File : fref[f] = 0}
FreeFds(p) == {fd \in FD : ofile[p][fd] = NoFile}
Room(p) == FreeFiles # {} /\ FreeFds(p) # {}

\* filealloc(), fdalloc(), and the reference of p to i goes to the file.
OpenFile(p, i) ==
  LET f == CHOOSE g \in FreeFiles : TRUE
      fd == CHOOSE d \in FreeFds(p) : \A e \in FreeFds(p) : d <= e
  IN
  /\ file' = [file EXCEPT ![f] = i] /\ fref' = [fref EXCEPT ![f] = 1]
  /\ ofile' = [ofile EXCEPT ![p][fd] = f]
  /\ th' = [th EXCEPT ![p] = Idle]

\* The last part of sys_open(), which fails when there is no room.
Finish(p, i) ==
  \/ Room(p) /\ OpenFile(p, i)
  \/ ~Room(p) /\ Put(p, i, "idle", [ip |-> NoInode]) /\ UNCHANGED files

\* sys_open() of what exists; a directory only for reading.
Open(p) ==
  LET i == th[p].ip IN
  /\ At(p, "got") /\ th[p].op = "open" /\ Load(i)
  /\ \/ Finish(p, i)
     \/ /\ Loaded(i).type = "dir"
        /\ Put(p, i, "idle", [ip |-> NoInode]) /\ UNCHANGED files
  /\ UNCHANGED <<disk, ref, lock, cwd>>

\* sys_dup()
Dup(p, fd) ==
  LET f == ofile[p][fd] IN
  /\ At(p, "idle") /\ f # NoFile
  /\ \E d \in FreeFds(p) : (\A e \in FreeFds(p) : d <= e)
                           /\ ofile' = [ofile EXCEPT ![p][d] = f]
  /\ fref' = [fref EXCEPT ![f] = @ + 1]
  /\ UNCHANGED <<disk, table, file, cwd, th, panicked>>

\* Mutant of CloseFd: the inode of a shared file is put as well.
CloseFdPuts(p, fd, label) ==
  LET f == ofile[p][fd] IN
  /\ ofile' = [ofile EXCEPT ![p][fd] = NoFile]
  /\ fref' = [fref EXCEPT ![f] = @ - 1]
  /\ file' = [file EXCEPT ![f] = IF fref[f] = 1 THEN NoInode ELSE @]
  /\ Put(p, file[f], label, [ip |-> NoInode])

\* fileclose(), and on at a label.
CloseFd(p, fd, label) ==
  LET f == ofile[p][fd] IN
  /\ ofile' = [ofile EXCEPT ![p][fd] = NoFile]
  /\ fref' = [fref EXCEPT ![f] = @ - 1]
  /\ \/ /\ fref[f] = 1
        /\ file' = [file EXCEPT ![f] = NoInode]
        /\ Put(p, file[f], label, [ip |-> NoInode])
     \/ fref[f] > 1 /\ Go(p, [pc |-> label]) /\ UNCHANGED file

Close(p, fd) ==
  /\ At(p, "idle") /\ ofile[p][fd] # NoFile
  /\ CloseFd(p, fd, "idle")
  /\ UNCHANGED <<disk, table, cwd, panicked>>

\* fork() of q
Fork(p, q) ==
  /\ At(p, "idle") /\ At(q, "dead")
  /\ ofile' = [ofile EXCEPT ![q] = ofile[p]]
  /\ fref' = [f \in File |-> fref[f] + Cardinality({fd \in FD : ofile[p][fd] = f})]
  /\ cwd' = [cwd EXCEPT ![q] = cwd[p]]
  /\ Iget(cwd[p])
  /\ Go(q, [pc |-> "idle"])
  /\ UNCHANGED <<disk, inode, valid, lock, file, panicked>>

\* exit() closes the files one after the other, then leaves its directory.
Exit(p) ==
  /\ At(p, "idle") /\ p # Initproc
  /\ Go(p, [pc |-> "exit"])
  /\ UNCHANGED <<disk, table, files, cwd, panicked>>

ExitFile(p) ==
  /\ At(p, "exit")
  /\ \E fd \in FD \ FreeFds(p) : /\ \A e \in FD \ FreeFds(p) : fd <= e
                                 /\ CloseFd(p, fd, "exit")
  /\ UNCHANGED <<disk, table, cwd, panicked>>

ExitCwd(p) ==
  /\ At(p, "exit") /\ FreeFds(p) = FD
  /\ Put(p, cwd[p], "dead", [ip |-> NoInode])
  /\ cwd' = [cwd EXCEPT ![p] = NoInode]
  /\ UNCHANGED <<disk, table, files, panicked>>

\* sys_chdir()
Chdir(p) ==
  LET i == th[p].ip IN
  /\ At(p, "got") /\ th[p].op = "chdir" /\ Load(i)
  /\ \/ /\ Loaded(i).type = "dir"
        /\ Put(p, cwd[p], "idle", [ip |-> NoInode])
        /\ cwd' = [cwd EXCEPT ![p] = i]
     \/ /\ Loaded(i).type # "dir"
        /\ Put(p, i, "idle", [ip |-> NoInode])
        /\ UNCHANGED cwd
  /\ UNCHANGED <<disk, ref, lock, files>>

-----------------------------------------------------------------------------
(* create() *)

FreeInums == {i \in Inum : dinode[i].type = "none"}
TypeOf(op) == IF op = "mkdir" THEN "dir" ELSE "file"

\* The directory is locked.  The name is there; or an inode is allocated for
\* it, and the directory stays locked; or there is none.
Create(p) ==
  LET d == th[p].dp
      name == Elem(p)
      i == CHOOSE j \in FreeInums : \A k \in FreeInums : j <= k
  IN
  /\ At(p, "parent") /\ th[p].op \in Creates /\ Load(d)
  /\ \/ /\ dirlookup(d, name) # NoInode
        /\ Iget(dirlookup(d, name))
        /\ Put(p, d, "exists", [ip |-> dirlookup(d, name), dp |-> NoInode, path |-> <<>>])
        /\ UNCHANGED <<dinode, lock>>
     \/ /\ dirlookup(d, name) = NoInode /\ FreeInums # {}
        /\ dinode' = [dinode EXCEPT ![i] = [type |-> TypeOf(th[p].op), nlink |-> 0]]
        /\ Iget(i)
        /\ lock' = [lock EXCEPT ![d] = p]
        /\ Go(p, [pc |-> "fresh", ip |-> i])
     \/ /\ dirlookup(d, name) = NoInode /\ FreeInums = {}
        /\ Put(p, d, "idle", [dp |-> NoInode])
        /\ UNCHANGED <<dinode, ref, lock>>
  /\ UNCHANGED <<dir, files, cwd>>

\* create() found the name: only a file may be opened.
Exists(p) ==
  LET i == th[p].ip
      opens == th[p].op = "create" /\ Loaded(i).type = "file"
  IN
  /\ At(p, "exists") /\ Load(i)
  /\ \/ opens /\ Finish(p, i)
     \/ ~opens /\ Put(p, i, "idle", [ip |-> NoInode]) /\ UNCHANGED files
  /\ UNCHANGED <<disk, ref, lock, cwd>>

\* The new inode is locked, filled and entered into the directory.
Fill(p) ==
  LET i == th[p].ip
      d == th[p].dp
      sub == th[p].op = "mkdir"
      ino == [Loaded(i) EXCEPT !.nlink = 1]
      dino == [inode[d] EXCEPT !.nlink = IF sub THEN @ + 1 ELSE @]
  IN
  /\ At(p, "fresh") /\ CanLock(i)
  /\ inode' = [inode EXCEPT ![i] = ino, ![d] = dino]
  /\ dinode' = [dinode EXCEPT ![i] = ino, ![d] = dino]
  /\ valid' = [valid EXCEPT ![i] = TRUE]
  /\ dir' = [dir EXCEPT ![d][Elem(p)] = i,
                        ![i][".."] = IF sub THEN d ELSE NoInode]
  /\ lock' = [lock EXCEPT ![i] = p, ![d] = Nobody]
  /\ Put(p, d, "created", [dp |-> NoInode, path |-> <<>>])
  /\ panicked' = Typeless(i)
  /\ UNCHANGED <<ref, files, cwd>>

\* dirlink() finds no block on the disk: the new inode is given up.
FillFails(p) ==
  LET i == th[p].ip IN
  /\ At(p, "fresh") /\ CanLock(i)
  /\ Update(i, [Loaded(i) EXCEPT !.nlink = 0])
  /\ Put(p, i, "unlock", [ip |-> NoInode])
  /\ panicked' = Typeless(i)
  /\ UNCHANGED <<dir, ref, lock, files, cwd>>

\* iunlockput(dp) after a failure
UnlockDir(p) ==
  LET d == th[p].dp IN
  /\ At(p, "unlock")
  /\ lock' = [lock EXCEPT ![d] = Nobody]
  /\ Put(p, d, Fails(p), [dp |-> NoInode, path |-> <<>>])
  /\ UNCHANGED <<disk, inode, ref, valid, files, cwd, panicked>>

\* create() has returned the locked inode to sys_open() or sys_mkdir().
Created(p) ==
  LET i == th[p].ip IN
  /\ At(p, "created")
  /\ lock' = [lock EXCEPT ![i] = Nobody]
  /\ \/ th[p].op = "create" /\ Finish(p, i)
     \/ th[p].op = "mkdir" /\ Put(p, i, "idle", [ip |-> NoInode]) /\ UNCHANGED files
  /\ UNCHANGED <<disk, inode, ref, valid, cwd, panicked>>

-----------------------------------------------------------------------------
(* sys_unlink() and sys_link() *)

\* Mutant of Unlink: the directory is unlocked after the lookup.
UnlinkUnlocks(p) ==
  LET d == th[p].dp
      name == Elem(p)
  IN
  /\ At(p, "parent") /\ th[p].op = "unlink" /\ Load(d)
  /\ \/ /\ name # ".." /\ dirlookup(d, name) # NoInode
        /\ Iget(dirlookup(d, name))
        /\ Go(p, [pc |-> "victim", ip |-> dirlookup(d, name)])
     \/ /\ name = ".." \/ dirlookup(d, name) = NoInode
        /\ Put(p, d, "idle", [dp |-> NoInode, path |-> <<>>])
        /\ UNCHANGED ref
  /\ UNCHANGED <<disk, lock, files, cwd>>

\* The directory is locked, the name looked up.
Unlink(p) ==
  LET d == th[p].dp
      name == Elem(p)
  IN
  /\ At(p, "parent") /\ th[p].op = "unlink" /\ Load(d)
  /\ \/ /\ name # ".." /\ dirlookup(d, name) # NoInode
        /\ Iget(dirlookup(d, name))
        /\ lock' = [lock EXCEPT ![d] = p]
        /\ Go(p, [pc |-> "victim", ip |-> dirlookup(d, name)])
     \/ /\ name = ".." \/ dirlookup(d, name) = NoInode
        /\ Put(p, d, "idle", [dp |-> NoInode, path |-> <<>>])
        /\ UNCHANGED <<ref, lock>>
  /\ UNCHANGED <<disk, files, cwd>>

IsDirEmpty(i) == \A n \in Name : dir[i][n] = NoInode

\* With both locked, the entry is erased, unless it is a directory in use.
Erase(p) ==
  LET i == th[p].ip
      d == th[p].dp
      sub == Loaded(i).type = "dir"
      dino == [inode[d] EXCEPT !.nlink = IF sub THEN @ - 1 ELSE @]
  IN
  /\ At(p, "victim") /\ CanLock(i)
  /\ panicked' = (Typeless(i) \/ Loaded(i).nlink < 1)
  /\ valid' = [valid EXCEPT ![i] = TRUE]
  /\ \/ /\ sub /\ ~IsDirEmpty(i)
        /\ inode' = [inode EXCEPT ![i] = Loaded(i)]
        /\ Put(p, i, "unlock", [ip |-> NoInode])
        /\ UNCHANGED <<disk, lock>>
     \/ /\ sub => IsDirEmpty(i)
        /\ dir' = [dir EXCEPT ![d][Elem(p)] = NoInode]
        /\ inode' = [inode EXCEPT ![i] = Loaded(i), ![d] = dino]
        /\ dinode' = [dinode EXCEPT ![d] = dino]
        /\ lock' = [lock EXCEPT ![i] = p, ![d] = Nobody]
        /\ Put(p, d, "unlinked", [dp |-> NoInode, path |-> <<>>])
  /\ UNCHANGED <<ref, files, cwd>>

\* ... and the link is taken off.
Unlinked(p) ==
  LET i == th[p].ip IN
  /\ At(p, "unlinked")
  /\ Update(i, [inode[i] EXCEPT !.nlink = @ - 1])
  /\ lock' = [lock EXCEPT ![i] = Nobody]
  /\ Put(p, i, "idle", [ip |-> NoInode])
  /\ UNCHANGED <<dir, ref, files, cwd, panicked>>

\* Mutant of Link: the link is not counted.
LinkUncounted(p, new) ==
  LET i == th[p].ip IN
  /\ At(p, "got") /\ th[p].op = "link" /\ CanLock(i)
  /\ panicked' = Typeless(i)
  /\ \/ /\ Loaded(i).type # "dir"
        /\ Update(i, Loaded(i))
        /\ Iget(cwd[p])
        /\ Go(p, [op |-> "link2", pc |-> "walk", path |-> new, ip |-> cwd[p], old |-> i])
     \/ /\ Loaded(i).type = "dir"
        /\ inode' = [inode EXCEPT ![i] = Loaded(i)] /\ valid' = [valid EXCEPT ![i] = TRUE]
        /\ Put(p, i, "idle", [ip |-> NoInode])
        /\ UNCHANGED <<dinode, ref>>
  /\ UNCHANGED <<dir, lock, files, cwd>>

\* sys_link() counts the link before it makes it, and looks up the new path.
Link(p, new) ==
  LET i == th[p].ip IN
  /\ At(p, "got") /\ th[p].op = "link" /\ CanLock(i)
  /\ panicked' = Typeless(i)
  /\ \/ /\ Loaded(i).type # "dir"
        /\ Update(i, [Loaded(i) EXCEPT !.nlink = @ + 1])
        /\ Iget(cwd[p])
        /\ Go(p, [op |-> "link2", pc |-> "walk", path |-> new, ip |-> cwd[p], old |-> i])
     \/ /\ Loaded(i).type = "dir"
        /\ inode' = [inode EXCEPT ![i] = Loaded(i)] /\ valid' = [valid EXCEPT ![i] = TRUE]
        /\ Put(p, i, "idle", [ip |-> NoInode])
        /\ UNCHANGED <<dinode, ref>>
  /\ UNCHANGED <<dir, lock, files, cwd>>

\* dirlink() of the old inode, or its failures: dirlookup() finds the name, and
\* drops what it found; there is no block.
Enter(p) ==
  LET d == th[p].dp
      found == dirlookup(d, Elem(p))
  IN
  /\ At(p, "parent") /\ th[p].op = "link2" /\ Load(d)
  /\ \/ /\ found = NoInode
        /\ dir' = [dir EXCEPT ![d][Elem(p)] = th[p].old]
        /\ Put(p, d, "linked", [dp |-> NoInode, path |-> <<>>])
        /\ UNCHANGED <<ref, lock>>
     \/ /\ found # NoInode
        /\ Iget(found)
        /\ lock' = [lock EXCEPT ![d] = p]
        /\ Put(p, found, "unlock", [ip |-> NoInode])
        /\ UNCHANGED dir
     \/ /\ found = NoInode
        /\ Put(p, d, "bad", [dp |-> NoInode, path |-> <<>>])
        /\ UNCHANGED <<dir, ref, lock>>
  /\ UNCHANGED <<dinode, files, cwd>>

\* iput(ip) after a success
Linked(p) ==
  /\ At(p, "linked")
  /\ Put(p, th[p].old, "idle", [old |-> NoInode])
  /\ UNCHANGED <<disk, table, files, cwd, panicked>>

\* The link is taken off again.
Bad(p) ==
  LET i == th[p].old IN
  /\ At(p, "bad") /\ CanLock(i)
  /\ Update(i, [Loaded(i) EXCEPT !.nlink = @ - 1])
  /\ Put(p, i, "idle", [old |-> NoInode])
  /\ panicked' = Typeless(i)
  /\ UNCHANGED <<dir, ref, lock, files, cwd>>

-----------------------------------------------------------------------------

Starts(p) ==
  \/ \E c \in Calls[p] : Call(p, c)
  \/ \E fd \in FD : Dup(p, fd) \/ Close(p, fd)
  \/ \E q \in Process : Fork(p, q)
  \/ Exit(p)

GoesOn(p) ==
  \/ IputLast(p) \/ Trunc(p) \/ Invalidate(p) \/ Iput(p)
  \/ Walk(p) \/ Open(p) \/ Chdir(p) \/ ExitFile(p) \/ ExitCwd(p)
  \/ Create(p) \/ Exists(p) \/ Fill(p) \/ FillFails(p) \/ UnlockDir(p) \/ Created(p)
  \/ Unlink(p) \/ Erase(p) \/ Unlinked(p)
  \/ (\E new \in NewPath : Link(p, new)) \/ Enter(p) \/ Linked(p) \/ Bad(p)

Next == \E p \in Process : Starts(p) \/ GoesOn(p)

Spec == Init /\ [][Next]_vars

-----------------------------------------------------------------------------
(* Properties *)

Refs(i) ==
  Cardinality({p \in Process : cwd[p] = i}) + Cardinality({f \in File : file[f] = i})
  + Cardinality({<<p, r>> \in Process \X {"ip", "dp", "old", "put"} : th[p][r] = i})

\* All values have their types; "ip->ref tracks the number of in-memory
\* pointers to the entry", and f->ref the number of descriptors, also while
\* calls fail, and processes fork and exit.  "ip->ref == 1 means no other process
\* can have ip locked, so this acquiresleep() won't block (or deadlock)", in
\* iput().
RefsExact ==
  /\ TypeOK
  /\ \A i \in Inum : ref[i] = Refs(i)
  /\ \A f \in File :
       fref[f] = Cardinality({<<p, fd>> \in Process \X FD : ofile[p][fd] = f})
  /\ \A p \in Process : At(p, "iput") /\ Last(th[p].put) => CanLock(th[p].put)

\* No panic of ilock(), sys_unlink(): nobody ever has a reference to an inode
\* that was freed, and links do not run out before their entries.
NoPanic == ~panicked

\* Every name in a directory that is in use leads to an inode in use, which
\* has a link for each of its names: iput() cannot free it under them.  An
\* in-memory inode that is valid and not being changed is what the disk has.
NamesLinked ==
  \A i \in Inum :
    LET names == {<<d, n>> \in Inum \X Name : dir[d][n] = i} IN
    /\ names # {} => dinode[i].type # "none" /\ dinode[i].nlink >= Cardinality(names)
    /\ valid[i] /\ CanLock(i) => inode[i] = dinode[i]
=============================================================================

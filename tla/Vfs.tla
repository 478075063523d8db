--------------------------------- MODULE Vfs ---------------------------------
(***************************************************************************)
(* Files: the node objects, caches and mounts of src/src/kernel/vfs, with  *)
(* TarFs at the root, MemFs mounted on /home, and the open files (FDT) of  *)
(* every process.                                                          *)
(*                                                                         *)
(* A node object stands for an inode of a file system and lives while a    *)
(* SharedPtr refers to it: one of an open file, of a traversal that has    *)
(* not returned, or Filesystem::_mounted_on.  A cache only has a WeakPtr;  *)
(* its entry expires with the node and is never replaced, because emplace  *)
(* keeps what is there.  So one inode may have several node objects, each  *)
(* with a mutex of its own.                                                *)
(*                                                                         *)
(* A critical section is one action (Sync shows that the mutex excludes)   *)
(* unless other steps are taken inside it: node and inode mutexes that are *)
(* held from one action to the next are in locked.                         *)
(***************************************************************************)
EXTENDS Integers, Sequences, FiniteSetsExt, SequencesExt, Functions, TLC

CONSTANTS
  Process,
  Boot,      \* the task that runs ktask_main
  NodeId,    \* addresses of node objects
  None,      \* a null pointer
  Paths,     \* paths that processes open
  MkDirs,    \* paths that they make directories
  Num,       \* bytes of one read or write
  MaxSize,   \* bound: bytes of a file
  MaxOpens,  \* bound: descriptors handed out to all tasks
  MaxFiles,  \* bound: files a task has open
  MaxInode   \* bound: last inode of MemFs

ASSUME VfsAssumption ==
  /\ Boot \notin Process /\ NodeId \subseteq Nat \ {0} /\ None \notin Nat
  /\ {Num, MaxSize, MaxOpens, MaxFiles, MaxInode} \subseteq Nat

VARIABLES
  node,      \* the node objects that live: address |-> file system, inode, _mount
  cache,     \* _vnode_cache: <<file system, inode>> |-> address or Expired
  inode,     \* MemFs::_files
  top_inode, \* MemFs::_top_inode
  locked,    \* mutexes of nodes and inodes, with the task that holds them
  call,      \* the call a task is in
  files,     \* FDT::_files of a task
  cur_fd,    \* FDT::_cur_fd of a task
  booted,    \* statements of ktask_main that have been executed
  hcf        \* a null pointer was used or an assertion failed

vars == <<node, cache, inode, top_inode, locked, call, files, cur_fd, booted, hcf>>

Task == Process \cup {Boot}

Expired == 0

\* The directories of the archive: the root with the files of the system and
\* an empty /home.
tar == (1 :> ("init" :> 2 @@ "home" :> 3)) @@ (3 :> <<>>)

NoCall == [pc |-> "idle"]

At(t, pc) == ~hcf /\ call[t].pc = pc

Become(t, c) == call' = [call EXCEPT ![t] = c]

NodeLock(n) == <<"node", n>>
InodeLock(i) == <<"inode", i>>

Free(lock) == lock \notin DOMAIN locked

IsDir(n) == IF n.fs = "tar" THEN n.ino \in DOMAIN tar ELSE inode[n.ino].type = "dir"

-----------------------------------------------------------------------------
(***************************************************************************)
(* The life of node objects                                                *)
(***************************************************************************)
\* The nodes a call refers to: the temporaries of traverse, and the node that
\* get_node_impl has made.
Held(c) == IF c.pc = "idle" THEN {} ELSE ToSet(c.stack) \cup ({c.made} \ {None})

Referenced(nodes, calls, fs) ==
  UNION {Held(calls[t]) : t \in Task}
    \cup UNION {{fs[t][fd].node : fd \in DOMAIN fs[t]} : t \in Task}
    \cup {n \in DOMAIN nodes : nodes[n].mount # None}

\* The nodes and the caches, after the last references to some nodes are gone.
Settle(nodes, entries) ==
  LET alive == Referenced(nodes, call', files') IN
  /\ node' = Restrict(nodes, alive)
  /\ cache' = [k \in DOMAIN entries |-> IF entries[k] \in alive THEN entries[k] ELSE Expired]

Fresh == Min(NodeId \ DOMAIN node)

Created(fs, ino) == node @@ (Fresh :> [fs |-> fs, ino |-> ino, mount |-> None])

Cached(fs, ino) ==
  IF <<fs, ino>> \in DOMAIN cache /\ cache[<<fs, ino>>] # Expired
  THEN cache[<<fs, ino>>] ELSE None

-----------------------------------------------------------------------------
(***************************************************************************)
(* Node::traverse and Filesystem::get_node, called by FDT::open.  VFSGlobals *)
(* ::root is the mount point of TarFs, whose root() is get_node(1).        *)
(*                                                                         *)
(* why says for whom the path is traversed: FDT::open, the open() of the   *)
(* directory in VFSApi::touch and mkdir, or the second FDT::open after     *)
(* touch.                                                                  *)
(***************************************************************************)
Traversal(c, path, why) ==
  [c EXCEPT !.pc = "get", !.left = path, !.why = why, !.stack = <<>>,
            !.fs = "tar", !.ino = 1, !.made = None]

\* A task calls open, with or without O_CREAT, or mkdir.
Start(t, kind, path) ==
  LET c == [pc |-> "get", kind |-> kind, path |-> path, left |-> path, why |-> "open",
            stack |-> <<>>, fs |-> "tar", ino |-> 1, made |-> None]
      calls  == {u \in Task : call[u].pc # "idle" /\ call[u].kind \in {"open", "creat", "mkdir"}}
      makers == {u \in calls : call[u].kind # "open"}
      needs(k) == IF k = "creat" THEN 2 ELSE 1
      opens  == MapThenSumSet(LAMBDA u : cur_fd[u] - 10, Task)
                + MapThenSumSet(LAMBDA u : needs(call[u].kind), calls)
  IN  /\ At(t, "idle")
      /\ opens + needs(kind) <= MaxOpens
      /\ Cardinality(DOMAIN files[t]) < MaxFiles
      /\ kind # "open" => top_inode + Cardinality(makers) < MaxInode
      /\ Become(t, IF kind = "mkdir" THEN Traversal(c, Front(path), "parent") ELSE c)
      /\ UNCHANGED <<node, cache, inode, top_inode, locked, files, cur_fd, hcf>>

\* The first critical section of get_node, and get_node_impl, which makes a node
\* object for an inode that exists and returns nullptr otherwise.
GetNode(t) ==
  LET c      == call[t]
      n      == Cached(c.fs, c.ino)
      exists == c.fs = "mem" => c.ino \in DOMAIN inode
  IN  /\ At(t, "get")
      /\ IF n # None \/ ~exists THEN UNCHANGED node ELSE node' = Created(c.fs, c.ino)
      /\ Become(t, IF n # None THEN [c EXCEPT !.pc = "node", !.stack = Append(@, n)]
                   ELSE [c EXCEPT !.pc = "keep", !.made = IF exists THEN Fresh ELSE None])
      /\ UNCHANGED <<cache, inode, top_inode, locked, files, cur_fd, booted, hcf>>

\* The second critical section of get_node; the caller uses what it returns.
GetKeep(t) ==
  LET c     == call[t]
      other == Cached(c.fs, c.ino)
      found == IF other # None THEN other ELSE c.made
  IN  /\ At(t, "keep")
      /\ IF found = None THEN hcf' = TRUE /\ UNCHANGED <<call, files, node, cache>>
         ELSE /\ Become(t, [c EXCEPT !.pc = "node", !.made = None, !.stack = Append(@, found)])
              /\ UNCHANGED <<hcf, files>>
              /\ Settle(node, cache @@ (<<c.fs, c.ino>> :> found))
      /\ UNCHANGED <<inode, top_inode, locked, cur_fd, booted>>

\* What the directory n holds under a name: children() and the loop over it.
Child(n, name) ==
  LET entries == IF n.fs = "tar" THEN tar[n.ino] ELSE inode[n.ino].entries
  IN  IF name \in DOMAIN entries THEN entries[name] ELSE None

-----------------------------------------------------------------------------
(***************************************************************************)
(* What happens when traverse returns                                      *)
(***************************************************************************)
\* nullptr: touch if O_CREAT is given, else fail.
Failed(t) ==
  LET c == call[t] IN
  /\ Become(t, IF c.why = "open" /\ c.kind = "creat" THEN Traversal(c, Front(c.path), "parent")
               ELSE NoCall)
  /\ UNCHANGED <<files, cur_fd>>

\* A node: open() makes a File for it.  touch and mkdir go on if the node is a
\* directory of a file system that can be written; else touch returns false, or
\* true although mkfile returned -1, and then the second open follows.
Opened(t, n, object) ==
  LET c    == call[t]
      file == [node |-> n, pos |-> 0, path |-> c.path]
      next == IF ~IsDir(object) THEN NoCall
              ELSE IF object.fs = "mem" THEN [c EXCEPT !.pc = "mkinode", !.stack = <<n>>]
              ELSE IF c.kind = "creat" THEN Traversal(c, c.path, "again") ELSE NoCall
  IN  /\ cur_fd' = [cur_fd EXCEPT ![t] = @ + 1]
      /\ IF c.why = "parent"
         THEN Become(t, next) /\ UNCHANGED files
         ELSE Become(t, NoCall) /\ files' = [files EXCEPT ![t] = @ @@ (cur_fd[t] :> file)]

\* One level of traverse: if something is mounted on the node, on to the root of
\* that; then the end of the path, or one name on.
Traverse(t) ==
  LET over  == node[Last(call[t].stack)].mount # None
      n     == IF over THEN Fresh ELSE Last(call[t].stack)
      nodes == IF over THEN Created("mem", 1) ELSE node
      c     == IF over THEN [call[t] EXCEPT !.stack = Append(@, n)] ELSE call[t]
      child == IF c.left = <<>> \/ ~IsDir(nodes[n]) THEN None ELSE Child(nodes[n], c.left[1])
  IN  /\ At(t, "node")
      /\ Free(NodeLock(Last(call[t].stack)))
      /\ \/ c.left = <<>> /\ Opened(t, n, nodes[n])
         \/ /\ child # None
            /\ Become(t, [c EXCEPT !.pc = "get", !.left = Tail(@), !.fs = nodes[n].fs, !.ino = child])
            /\ UNCHANGED <<files, cur_fd>>
         \/ c.left # <<>> /\ child = None /\ Failed(t)
      /\ Settle(nodes, cache)
      /\ UNCHANGED <<inode, top_inode, locked, booted, hcf>>

-----------------------------------------------------------------------------
(***************************************************************************)
(* MemFsNodeDir::mkfile and mkdir.  The descriptor of the directory, which *)
(* keeps the node, is the only element of stack.                           *)
(***************************************************************************)
NewInode(kind) ==
  IF kind = "mkdir" THEN [type |-> "dir", entries |-> <<>>] ELSE [type |-> "file", data |-> <<>>]

\* Mutant of MakeInode: the inode does not get into _files.
MakeInodeUnlisted(t) ==
  LET n == call[t].stack[1] IN
  /\ At(t, "mkinode")
  /\ Free(NodeLock(n))
  /\ locked' = locked @@ (NodeLock(n) :> t)
  /\ top_inode' = top_inode + 1
  /\ Become(t, [call[t] EXCEPT !.pc = "mkentry", !.ino = top_inode'])
  /\ UNCHANGED <<node, cache, inode, files, cur_fd, booted, hcf>>

\* Lock the node; under _files_lock, make the inode.
MakeInode(t) ==
  LET n == call[t].stack[1] IN
  /\ At(t, "mkinode")
  /\ Free(NodeLock(n))
  /\ locked' = locked @@ (NodeLock(n) :> t)
  /\ top_inode' = top_inode + 1
  /\ inode' = inode @@ (top_inode' :> NewInode(call[t].kind))
  /\ Become(t, [call[t] EXCEPT !.pc = "mkentry", !.ino = top_inode'])
  /\ UNCHANGED <<node, cache, files, cur_fd, booted, hcf>>

Unlocked(locks) == Restrict(locked, DOMAIN locked \ locks)

\* Mutant of MakeEntry: a second entry of the same name wins.
MakeEntryOver(t) ==
  LET c == call[t]
      n == c.stack[1]
      d == node[n].ino
  IN  /\ At(t, "mkentry")
      /\ Free(InodeLock(d))
      /\ inode' = [inode EXCEPT ![d].entries = (Last(c.path) :> c.ino) @@ @]
      /\ locked' = Unlocked({NodeLock(n)})
      /\ Become(t, IF c.kind = "mkdir" THEN NoCall ELSE Traversal(c, c.path, "again"))
      /\ UNCHANGED <<files, top_inode, cur_fd, booted, hcf>>
      /\ Settle(node, cache)

\* Mutant of MakeEntry: the node stays locked.
MakeEntryLocked(t) ==
  LET c == call[t]
      n == c.stack[1]
      d == node[n].ino
  IN  /\ At(t, "mkentry")
      /\ Free(InodeLock(d))
      /\ inode' = [inode EXCEPT ![d].entries = @ @@ (Last(c.path) :> c.ino)]
      /\ Become(t, IF c.kind = "mkdir" THEN NoCall ELSE Traversal(c, c.path, "again"))
      /\ UNCHANGED <<files, locked, top_inode, cur_fd, booted, hcf>>
      /\ Settle(node, cache)

\* Under the lock of the directory's inode, enter the name unless it is there;
\* unlock the node, close the directory, and open the file.
MakeEntry(t) ==
  LET c == call[t]
      n == c.stack[1]
      d == node[n].ino
  IN  /\ At(t, "mkentry")
      /\ Free(InodeLock(d))
      /\ inode' = [inode EXCEPT ![d].entries = @ @@ (Last(c.path) :> c.ino)]
      /\ locked' = Unlocked({NodeLock(n)})
      /\ Become(t, IF c.kind = "mkdir" THEN NoCall ELSE Traversal(c, c.path, "again"))
      /\ UNCHANGED <<files, top_inode, cur_fd, booted, hcf>>
      /\ Settle(node, cache)

-----------------------------------------------------------------------------
(***************************************************************************)
(* Reading, writing and closing                                            *)
(***************************************************************************)
Close(t, fd) ==
  /\ At(t, "idle") /\ fd \in DOMAIN files[t]
  /\ files' = [files EXCEPT ![t] = Restrict(@, DOMAIN @ \ {fd})]
  /\ UNCHANGED <<call, inode, top_inode, locked, cur_fd, hcf>>
  /\ Settle(node, cache)

Seek(t, fd) ==
  /\ At(t, "idle") /\ fd \in DOMAIN files[t]
  /\ files' = [files EXCEPT ![t][fd].pos = 0]
  /\ UNCHANGED <<node, cache, inode, top_inode, locked, call, cur_fd, booted, hcf>>

\* A task calls read or write for a file of MemFs.
StartCopy(t, kind, fd) ==
  LET n == files[t][fd].node IN
  /\ At(t, "idle") /\ fd \in DOMAIN files[t]
  /\ node[n].fs = "mem" /\ ~IsDir(node[n])
  /\ kind = "write" => files[t][fd].pos + Num < MaxSize
  /\ Become(t, [pc |-> "locknode", kind |-> kind, fd |-> fd, num |-> 0, buf |-> <<>>,
                stack |-> <<>>, made |-> None])
  /\ UNCHANGED <<node, cache, inode, top_inode, locked, files, cur_fd, booted, hcf>>

CopyNode(t) == files[t][call[t].fd].node
CopyInode(t) == node[CopyNode(t)].ino
CopyStart(t) == files[t][call[t].fd].pos

CopyLock(t) ==
  /\ At(t, "locknode")
  /\ Free(NodeLock(CopyNode(t)))
  /\ locked' = locked @@ (NodeLock(CopyNode(t)) :> t)
  /\ Become(t, [call[t] EXCEPT !.pc = "lockinode"])
  /\ UNCHANGED <<node, cache, inode, top_inode, files, cur_fd, booted, hcf>>

\* Enough zeroes for a write: one more than needed.
Grown(data, size) == data \o [i \in 1..Max({0, size + 1 - Len(data)}) |-> 0]

\* Mutant of CopyLockInode: the lock of the node must do.
CopyLockInodeNot(t) ==
  LET c    == call[t]
      data == inode[CopyInode(t)].data
      size == CopyStart(t) + Num
  IN  /\ At(t, "lockinode")
      /\ IF c.kind = "read"
         THEN /\ Become(t, [c EXCEPT !.pc = "copy", !.num = Min({Num, Len(data) - CopyStart(t)})])
              /\ UNCHANGED inode
         ELSE /\ Become(t, [c EXCEPT !.pc = "copy", !.num = Num])
              /\ inode' = [inode EXCEPT ![CopyInode(t)].data = Grown(@, size)]
      /\ UNCHANGED <<node, cache, top_inode, locked, files, cur_fd, booted, hcf>>

\* Lock the inode and find out how many bytes there are, or make room.
CopyLockInode(t) ==
  LET c    == call[t]
      data == inode[CopyInode(t)].data
      size == CopyStart(t) + Num
  IN  /\ At(t, "lockinode")
      /\ Free(InodeLock(CopyInode(t)))
      /\ locked' = locked @@ (InodeLock(CopyInode(t)) :> t)
      /\ IF c.kind = "read"
         THEN /\ Become(t, [c EXCEPT !.pc = "copy", !.num = Min({Num, Len(data) - CopyStart(t)})])
              /\ UNCHANGED inode
         ELSE /\ Become(t, [c EXCEPT !.pc = "copy", !.num = Num])
              /\ inode' = [inode EXCEPT ![CopyInode(t)].data = Grown(@, size)]
      /\ UNCHANGED <<node, cache, top_inode, files, cur_fd, booted, hcf>>

\* One byte; a writer writes its name.
CopyByte(t) ==
  LET c == call[t]
      i == CopyStart(t) + Len(c.buf) + 1
  IN  /\ At(t, "copy") /\ Len(c.buf) < c.num
      /\ IF c.kind = "read"
         THEN /\ Become(t, [c EXCEPT !.buf = Append(@, inode[CopyInode(t)].data[i])])
              /\ UNCHANGED inode
         ELSE /\ Become(t, [c EXCEPT !.buf = Append(@, t)])
              /\ inode' = [inode EXCEPT ![CopyInode(t)].data[i] = t]
      /\ UNCHANGED <<node, cache, top_inode, locked, files, cur_fd, booted, hcf>>

\* Unlock, and move the position of the file on.
CopyEnd(t) ==
  LET c == call[t] IN
  /\ At(t, "copy") /\ Len(c.buf) = c.num
  /\ locked' = Unlocked({NodeLock(CopyNode(t)), InodeLock(CopyInode(t))})
  /\ files' = [files EXCEPT ![t][c.fd].pos = @ + c.num]
  /\ Become(t, NoCall)
  /\ UNCHANGED <<node, cache, inode, top_inode, cur_fd, booted, hcf>>

-----------------------------------------------------------------------------
(***************************************************************************)
(* ktask_main: open /init and close it, open /home, mount MemFs there,     *)
(* close it; then other tasks start.                                       *)
(***************************************************************************)
\* Mutant of BootFirst: /home is looked at before something is mounted on it.
BootFirstHome == <<"home">>

\* The path that is opened first.
BootFirst == <<"init">>

\* set_root: the node of the open file becomes a mount point.
Mount ==
  LET n == files[Boot][cur_fd[Boot] - 1].node
      ok == DOMAIN files[Boot] # {} /\ IsDir(node[n]) /\ node[n].mount = None
  IN  /\ At(Boot, "idle")
      /\ hcf' = ~ok
      /\ node' = IF ok THEN [node EXCEPT ![n].mount = "mem"] ELSE node
      /\ UNCHANGED <<cache, inode, top_inode, locked, call, files, cur_fd>>

BootStep ==
  /\ booted' = booted + 1
  /\ \/ booted = 0 /\ Start(Boot, "open", BootFirst)
     \/ booted = 2 /\ Start(Boot, "open", <<"home">>)
     \/ booted = 3 /\ Mount
     \/ booted \in {1, 4} /\ Close(Boot, cur_fd[Boot] - 1)

-----------------------------------------------------------------------------
\* The steps inside a call.
Step(t) ==
  /\ call[t].pc # "idle"
  /\ \/ GetNode(t) \/ GetKeep(t) \/ Traverse(t)
     \/ MakeInode(t) \/ MakeEntry(t)
     \/ CopyLock(t) \/ CopyLockInode(t) \/ CopyByte(t) \/ CopyEnd(t)

\* A process makes a system call.
Request(t) ==
  /\ booted = 5 /\ UNCHANGED booted
  /\ \/ \E path \in Paths : Start(t, "open", path) \/ Start(t, "creat", path)
     \/ \E path \in MkDirs : Start(t, "mkdir", path)
     \/ \E fd \in DOMAIN files[t] :
          Close(t, fd) \/ Seek(t, fd) \/ StartCopy(t, "read", fd) \/ StartCopy(t, "write", fd)

Init ==
  /\ node = <<>> /\ cache = <<>>
  /\ inode = 1 :> [type |-> "dir", entries |-> <<>>] /\ top_inode = 2
  /\ locked = <<>>
  /\ call = [t \in Task |-> NoCall]
  /\ files = [t \in Task |-> <<>>] /\ cur_fd = [t \in Task |-> 10]
  /\ booted = 0 /\ hcf = FALSE

Next ==
  \/ BootStep
  \/ \E t \in Task : Step(t)
  \/ \E t \in Process : Request(t)

Spec == Init /\ [][Next]_vars

(***************************************************************************)
(* A task inside a call runs again and again, and gets a mutex that is     *)
(* released again and again.                                               *)
(***************************************************************************)
FairSpec == Spec /\ \A t \in Process : SF_call(Step(t))

-----------------------------------------------------------------------------
TypeOK ==
  /\ DOMAIN node \subseteq NodeId
  /\ \A n \in DOMAIN node : node[n] \in [fs : {"tar", "mem"}, ino : 1..MaxInode, mount : {"mem", None}]
  /\ DOMAIN cache \subseteq {"tar", "mem"} \X (1..MaxInode)
  /\ Range(cache) \subseteq DOMAIN node \cup {Expired}
  /\ DOMAIN inode \subseteq 1..top_inode /\ top_inode \in 2..MaxInode
  /\ \A i \in DOMAIN inode : \/ inode[i].type = "dir" /\ Range(inode[i].entries) \subseteq 1..top_inode
                             \/ inode[i].type = "file" /\ Len(inode[i].data) <= MaxSize
  /\ Range(locked) \subseteq Task
  /\ \A t \in Task : /\ Held(call[t]) \subseteq DOMAIN node
                      /\ DOMAIN files[t] \subseteq 10..cur_fd[t] - 1 /\ cur_fd[t] \in 10..10 + MaxOpens
                      /\ \A fd \in DOMAIN files[t] : files[t][fd].node \in DOMAIN node
  /\ booted \in 0..5 /\ hcf \in BOOLEAN

\* traverse never uses the nullptr that get_node returns for a missing inode,
\* and the file system is mounted on a directory that has none: a name is
\* entered only when its inode is in _files (traverse, get_node, mkfile).  No
\* open file, traversal or cache refers to a node that is gone (TypeOK).
NoPanic == TypeOK /\ ~hcf

\* What is mounted stays visible: every node object made for /home's inode is
\* the mount point itself, although nodes come and go and cache entries are not
\* renewed (get_node, set_root, ktask_main).
MountSeen ==
  booted > 3 => \A n \in DOMAIN node :
                  node[n].fs = "tar" /\ node[n].ino = 3 => node[n].mount # None

\* Tasks that opened one path have the same file, also when several of them
\* found it missing and created it (open with O_CREAT, touch, mkfile).
OpenersAgree ==
  \A t, u \in Task : \A f \in Range(files[t]), g \in Range(files[u]) :
    f.path = g.path => node[f.node].fs = node[g.node].fs /\ node[f.node].ino = node[g.node].ino

\* What a read has copied is in the file, and what a write has written is still
\* there, until it ends: reads and writes of one file exclude each other,
\* whichever node objects they go through (MemFsNodeFile::read, write).
CopyExact ==
  \A t \in Task : call[t].pc = "copy" =>
    \A i \in 1..Len(call[t].buf) :
      inode[CopyInode(t)].data[CopyStart(t) + i] = call[t].buf[i]

\* Every call returns: the mutexes of caches, nodes and inodes are released on
\* every path and never wait for each other in a circle (FDT::open, mkfile,
\* read, write).
CallsReturn == \A t \in Process : []<>(call[t].pc = "idle")
=============================================================================

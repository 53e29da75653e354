------------------------------ MODULE FileSystem ------------------------------
(***************************************************************************)
(* Directories (directory.c) and the path operations (filesys.c) over the  *)
(* inode layer, called by several threads.  No lock covers a whole path    *)
(* operation: a call runs in two steps, up to its last check and from its  *)
(* WAL transaction on, and the steps of two calls interleave.  A write     *)
(* through a struct file also has two steps, because inode_write_at drops  *)
(* the inode's lock before it copies.  Inside a step the locks of the      *)
(* inode layer are held one at a time; directory.c says of its own         *)
(* operations that composites "may see interleaved updates", and the       *)
(* history variable overlap records that two modifying calls overlapped.   *)
(*                                                                         *)
(* A path is a sequence of names, with "/" first when it is absolute; a    *)
(* directory handle is the sector of its open inode.                       *)
(***************************************************************************)
EXTENDS Inodes, TLC

CONSTANTS Paths,               \* the paths the callers use
          Targets,             \* what symbolic links are made to point to
          Sizes,               \* initial sizes given to filesys_create
          Offsets,             \* offsets given to file_seek
          EntryCnt,            \* entries a directory is created with
          MAX_SYMLINK_DEPTH, MAX_PATH_COMPONENTS,
          OldPaths,            \* the first paths given to filesys_link
          Setups,              \* sequences of calls a run may start from
          Faults,              \* values of mem a call may start with
          MaxCalls,            \* bound on the calls made
          FaultCalls           \* how many of the first of them may run short

VARIABLES fs,       \* the file system state of module Inodes
          call,     \* what each thread is in the middle of
          overlap,  \* two modifying calls have overlapped
          calls     \* calls made

vars == <<fs, call, overlap, calls>>

Idle == [op |-> "idle"]
Failed(x) == [x EXCEPT !.r = 0]
-------------------------------------------------------------------------------
(* directory.c                                                             *)

dir_open(x, s) ==
    With(malloc(x), LAMBDA a : IF s = 0 \/ a.r = 0 THEN Failed(inode_close(a, s))
                               ELSE [a EXCEPT !.r = s])

dir_open_root(x) == With(inode_open(x, ROOT_DIR_SECTOR), LAMBDA a : dir_open(a, a.r))

dir_reopen(x, s) == dir_open(inode_reopen(x, s), s)

dir_close(x, s) == inode_close(x, s)

(* The rest of a function after a call whose failure makes it close d.     *)
ThenOrClose(a, d, rest(_)) == IF a.r = 0 THEN Failed(dir_close(a, d)) ELSE rest(a)

(* Closes d and returns what the last call returned.                       *)
Closing(a, d) == [dir_close(a, d) EXCEPT !.r = a.r]

Entry(x, d, i) == inode_read_at(x, d, i)
InUse(e) == e.kind = "entry" /\ e.in_use

(* The first offset, from i on, whose entry passes the test; the length of *)
(* the directory when there is none.                                       *)
RECURSIVE Scan(_, _, _, _)
Scan(x, d, test(_), i) ==
    IF i = Data(x, d).length \/ test(Entry(x, d, i)) THEN i
    ELSE Scan(x, d, test, i + 1)

(* The offset of the entry for name, or -1.                                *)
lookup(x, d, name) ==
    With(Scan(x, d, LAMBDA e : InUse(e) /\ e.name = name, 0),
         LAMBDA i : IF i = Data(x, d).length THEN -1 ELSE i)

dir_lookup(x, d, name) ==
    With(lookup(x, d, name), LAMBDA i :
         IF i < 0 THEN Failed(x) ELSE inode_open(x, Entry(x, d, i).sector))

TooLong(name) == name = "long"

dir_add(x, d, name, s) ==
    IF TooLong(name) \/ lookup(x, d, name) >= 0 THEN Failed(x)
    ELSE inode_write_at(x, d, <<[kind |-> "entry", name |-> name, sector |-> s,
                                 in_use |-> TRUE]>>,
                        Scan(x, d, LAMBDA e : ~InUse(e), 0))

AddDots(x, s, parent) == Then(dir_add(x, s, ".", s), LAMBDA a : dir_add(a, s, "..", parent))

dir_create_with_parent(x, s, parent, cnt) ==
    Then(inode_create_internal(x, s, Greater(cnt, 2), "dir"), LAMBDA a :
         With(With(inode_open(a, s), LAMBDA o : dir_open(o, o.r)), LAMBDA b :
              IF b.r = 0 THEN [b EXCEPT !.leak = TRUE]
              ELSE With(AddDots(b, s, parent),
                        LAMBDA c : [Closing(c, s) EXCEPT !.leak = @ \/ c.r = 0])))

Erased(e) == [e EXCEPT !.in_use = FALSE]

DropLink(x, s) ==
    With(inode_dec_nlink(x, s), LAMBDA a :
         inode_close(IF Data(a, s).nlink = 0 THEN inode_remove(a, s) ELSE a, s))

dir_remove(x, d, name) ==
    With(lookup(x, d, name), LAMBDA i :
         IF i < 0 THEN Failed(x)
         ELSE Then(inode_open(x, Entry(x, d, i).sector), LAMBDA a :
                   ThenOrClose(inode_write_at(a, d, <<Erased(Entry(x, d, i))>>, i), a.r,
                               LAMBDA b : [DropLink(b, a.r) EXCEPT !.r = 1])))

dir_is_empty(x, d) ==
    Scan(x, d, LAMBDA e : InUse(e) /\ e.name \notin {".", ".."}, 0) = Data(x, d).length
-------------------------------------------------------------------------------
(* filesys.c: paths                                                        *)

IsAbsolute(path) == path # <<>> /\ path[1] = "/"
Components(path) == SelectSeq(path, LAMBDA c : c # "/")
IsType(x, s, type) == Data(x, s).type = type

get_start_dir(x, t, path) ==
    IF path = <<>> THEN Failed(x)
    ELSE IF IsAbsolute(path) \/ x.cwd[t] = 0 THEN dir_open_root(x)
    ELSE IF x.ino[x.cwd[t]].removed THEN Failed(x)
    ELSE dir_reopen(x, x.cwd[t])

(* Mutant of Enter: the directory left is not closed.                      *)
EnterKeepsParent(x, d, s) == dir_open(x, s)

(* Steps from directory d to the directory whose inode was just opened as  *)
(* s, closing d whether or not the step succeeds.                          *)
Enter(x, d, s) == Closing(dir_open(x, s), d)

(* The "..": stays in d when the lookup fails.                             *)
DotDot(x, d) == With(dir_lookup(x, d, ".."), LAMBDA a :
                     IF a.r = 0 THEN [a EXCEPT !.r = d] ELSE Enter(a, d, a.r))

Found(x, d, name) == [x EXCEPT !.r = d, !.nm = name]

FinalComponent(x, d, name) ==
    IF TooLong(name) THEN Failed(dir_close(x, d)) ELSE Found(x, d, name)

(* The target of the open symbolic link s, which is closed; d is the       *)
(* directory a failure closes.                                             *)
ReadTarget(x, d, s) ==
    With(malloc(x), LAMBDA a :
         IF Data(x, s).length = 0 \/ a.r = 0
         THEN Failed(dir_close(inode_close(a, s), d))
         ELSE [inode_close(a, s) EXCEPT !.path = inode_read_at(x, s, 0).path])

RECURSIVE parse_path_recursive(_, _, _, _), Walk(_, _, _, _, _, _)

(* The target of a link: an absolute one restarts from the root, a         *)
(* relative one is walked from the link's directory d.                     *)
FollowRelative(x, t, d, comps, depth) ==
    IF x.r = 0 \/ Len(comps) > MAX_PATH_COMPONENTS THEN Failed(dir_close(x, d))
    ELSE IF comps = <<>> THEN Found(x, d, "")
    ELSE Walk(x, t, d, comps, depth, TRUE)

FollowPath(x, t, d, path, depth) ==
    IF IsAbsolute(path) THEN parse_path_recursive(dir_close(x, d), t, path, depth + 1)
    ELSE FollowRelative(malloc(x), t, d, Components(path), depth)

(* A symbolic link in the middle of a path.                                *)
Follow(x, t, d, s, rest, depth) ==
    Then(ReadTarget(x, d, s), LAMBDA a :
         ThenOrClose(malloc(a), d, LAMBDA b : FollowPath(b, t, d, a.path \o rest, depth)))

(* A second link met while walking a relative target: the rest of the path *)
(* is resolved again, from the thread's starting directory.                *)
FollowNested(x, t, d, s, comps, depth) ==
    With(malloc(x), LAMBDA a :
         IF a.r = 0 THEN Failed(dir_close(inode_close(a, s), d))
         ELSE Closing(parse_path_recursive(inode_close(a, s), t, comps, depth + 1), d))

WalkInto(x, t, d, comps, depth, nested) ==
    IF IsType(x, x.r, "symlink")
    THEN IF nested THEN FollowNested(x, t, d, x.r, comps, depth)
         ELSE Follow(x, t, d, x.r, Tail(comps), depth)
    ELSE IF ~IsType(x, x.r, "dir") THEN Failed(dir_close(inode_close(x, x.r), d))
    ELSE Then(Enter(x, d, x.r), LAMBDA b : Walk(b, t, b.r, Tail(comps), depth, nested))

Walk(x, t, d, comps, depth, nested) ==
    IF Len(comps) = 1 THEN FinalComponent(x, d, comps[1])
    ELSE IF comps[1] = "." THEN Walk(x, t, d, Tail(comps), depth, nested)
    ELSE IF comps[1] = ".."
    THEN Then(DotDot(x, d), LAMBDA a : Walk(a, t, a.r, Tail(comps), depth, nested))
    ELSE ThenOrClose(dir_lookup(x, d, comps[1]), d,
                     LAMBDA a : WalkInto(a, t, d, comps, depth, nested))

WalkFrom(x, t, comps, depth) ==
    IF Len(comps) > MAX_PATH_COMPONENTS THEN Failed(dir_close(x, x.r))
    ELSE IF comps = <<>> THEN Found(x, x.r, "")
    ELSE Walk(x, t, x.r, comps, depth, FALSE)

parse_path_recursive(x, t, path, depth) ==
    IF path = <<>> \/ depth > MAX_SYMLINK_DEPTH THEN Failed(x)
    ELSE Then(Then(malloc(x), LAMBDA a : get_start_dir(a, t, path)),
              LAMBDA b : WalkFrom(b, t, Components(path), depth))

parse_path(x, t, path) == parse_path_recursive(x, t, path, 0)
-------------------------------------------------------------------------------
(* filesys.c: opening a path                                               *)

(* A name that ends at directory d itself, such as "/".                    *)
OpenDir(x, t, d) == file_open(dir_close(inode_reopen(x, d), d), t, d)

RECURSIVE WalkTarget(_, _, _), OpenFinal(_, _, _, _, _), ChdirFinal(_, _, _, _)

(* The walk along a relative link target: every name but the last has to   *)
(* be a directory, and a link is not followed.                             *)
WalkTarget(x, d, comps) ==
    IF Len(comps) = 1 THEN Found(x, d, comps[1])
    ELSE IF comps[1] = "." THEN WalkTarget(x, d, Tail(comps))
    ELSE IF comps[1] = ".."
    THEN Then(DotDot(x, d), LAMBDA a : WalkTarget(a, a.r, Tail(comps)))
    ELSE ThenOrClose(dir_lookup(x, d, comps[1]), d, LAMBDA a :
             IF ~IsType(a, a.r, "dir") THEN Failed(dir_close(inode_close(a, a.r), d))
             ELSE Then(Enter(a, d, a.r), LAMBDA b : WalkTarget(b, b.r, Tail(comps))))

RelativeTarget(x, d, comps) ==
    With(malloc(x), LAMBDA a :
         IF a.r = 0 \/ Len(comps) > MAX_PATH_COMPONENTS THEN Failed(dir_close(a, d))
         ELSE IF comps = <<>> THEN Found(a, d, "")
         ELSE WalkTarget(a, d, comps))

(* The open inode s found in directory d, followed while it is a link.     *)
OpenFinal(x, t, d, s, depth) ==
    IF ~IsType(x, s, "symlink") THEN file_open(dir_close(x, d), t, s)
    ELSE IF depth + 1 > MAX_SYMLINK_DEPTH THEN Failed(dir_close(inode_close(x, s), d))
    ELSE Then(Then(ReadTarget(x, d, s), LAMBDA a :
                   IF IsAbsolute(a.path) THEN parse_path(dir_close(a, d), t, a.path)
                   ELSE RelativeTarget(a, d, Components(a.path))), LAMBDA b :
              IF b.nm = "" THEN OpenDir(b, t, b.r)
              ELSE ThenOrClose(dir_lookup(b, b.r, b.nm), b.r,
                               LAMBDA c : OpenFinal(c, t, b.r, c.r, depth + 1)))

filesys_open(x, t, path) ==
    Then(parse_path(x, t, path), LAMBDA a :
         IF a.nm = "" THEN OpenDir(a, t, a.r)
         ELSE ThenOrClose(dir_lookup(a, a.r, a.nm), a.r,
                          LAMBDA b : OpenFinal(b, t, a.r, b.r, 0)))

(* The inode that name stands for in d, which is closed.                   *)
TakeInode(x, d, name) ==
    Closing(IF name \in {"", "."} THEN inode_reopen(x, d) ELSE dir_lookup(x, d, name), d)

(* The inode a link's target names, from the thread's starting directory.  *)
ChdirTarget(x, t, s) ==
    Then(Then(ReadTarget(x, 0, s), LAMBDA a : parse_path(a, t, a.path)), LAMBDA b :
         Closing(IF b.nm = "" THEN inode_reopen(b, b.r) ELSE dir_lookup(b, b.r, b.nm), b.r))

(* Follows links, then makes the directory reached the working directory.  *)
ChdirFinal(x, t, s, depth) ==
    IF IsType(x, s, "symlink")
    THEN IF depth + 1 > MAX_SYMLINK_DEPTH THEN Failed(inode_close(x, s))
         ELSE Then(ChdirTarget(x, t, s), LAMBDA a : ChdirFinal(a, t, a.r, depth + 1))
    ELSE IF ~IsType(x, s, "dir") THEN Failed(inode_close(x, s))
    ELSE Then(dir_open(x, s), LAMBDA a :
              [inode_close(a, x.cwd[t]) EXCEPT !.cwd[t] = s, !.r = 1])

filesys_chdir(x, t, path) ==
    Then(Then(parse_path(x, t, path), LAMBDA a : TakeInode(a, a.r, a.nm)),
         LAMBDA b : ChdirFinal(b, t, b.r, 0))

filesys_readlink(x, t, path) ==
    Then(parse_path(x, t, path), LAMBDA a :
         IF a.nm = "" THEN Failed(dir_close(a, a.r))
         ELSE ThenOrClose(dir_lookup(a, a.r, a.nm), a.r,
                          LAMBDA b : inode_close(dir_close(b, a.r), b.r)))

-------------------------------------------------------------------------------
(* filesys.c: the first step of a modifying call, up to its last check.    *)
(* On success r is the parent directory, held open, and nm the name.       *)

(* Parses a path whose last name must not be one of these.                 *)
ParseNew(x, t, path, barred) ==
    Then(parse_path(x, t, path),
         LAMBDA a : IF a.nm \in barred THEN Failed(dir_close(a, a.r)) ELSE a)

(* Requires that the name just parsed does not exist.                      *)
Absent(x) ==
    Then(x, LAMBDA a : With(dir_lookup(a, a.r, a.nm), LAMBDA b :
                            IF b.r = 0 THEN [b EXCEPT !.r = a.r]
                            ELSE Failed(dir_close(inode_close(b, b.r), a.r))))

CheckEmpty(x, d, s) ==
    ThenOrClose(dir_open(x, s), d, LAMBDA o :
                IF dir_is_empty(o, s) THEN [inode_close(o, s) EXCEPT !.r = d]
                ELSE Failed(dir_close(dir_close(o, s), d)))

RemoveChecks(x, t, path) ==
    Then(ParseNew(x, t, path, {"", ".", ".."}), LAMBDA a :
         ThenOrClose(dir_lookup(a, a.r, a.nm), a.r, LAMBDA b :
                     IF IsType(b, b.r, "dir") THEN CheckEmpty(b, a.r, b.r)
                     ELSE [inode_close(b, b.r) EXCEPT !.r = a.r]))

LinkSource(x, t, s, new) ==
    IF IsType(x, s, "dir") \/ x.ino[s].removed THEN Failed(inode_close(x, s))
    ELSE With(Absent(ParseNew(x, t, new, {""})), LAMBDA a :
              IF a.r = 0 THEN Failed(inode_close(a, s)) ELSE [a EXCEPT !.src = s])

LinkChecks(x, t, old, new) ==
    Then(ParseNew(x, t, old, {""}), LAMBDA a :
         ThenOrClose(dir_lookup(a, a.r, a.nm), a.r,
                     LAMBDA l : LinkSource(dir_close(l, a.r), t, l.r, new)))

Checks(x, t, c) ==
    CASE c.op = "create" -> ParseNew(x, t, c.path, {""})
      [] c.op = "remove" -> RemoveChecks(x, t, c.path)
      [] c.op = "mkdir" -> Absent(ParseNew(x, t, c.path, {"", ".", ".."}))
      [] c.op = "symlink" -> Absent(ParseNew(x, t, c.path, {""}))
      [] c.op = "link" -> LinkChecks(x, t, c.old, c.path)

-------------------------------------------------------------------------------
(* filesys.c: the second step of a modifying call, in a WAL transaction    *)

TxnBegin(x) == With(malloc(x), LAMBDA a : [a EXCEPT !.txn = a.r # 0, !.log = <<>>])

Undo(x, w) == [x EXCEPT !.disk[w[1]].u[w[2]] = w[3]]

(* Commits when the last call succeeded, aborts otherwise.                 *)
TxnEnd(x) == [(IF x.r # 0 THEN x ELSE ForEach(Undo, x, x.log))
                EXCEPT !.txn = FALSE, !.log = <<>>]

NameFile(x, d, name, s) ==
    With(dir_add(x, d, name, s), LAMBDA a :
         IF a.r # 0 THEN a
         ELSE [free_map_release(a, s) EXCEPT !.r = 0,
                 !.leak = @ \/ BlocksOf(x, x.disk[s].i) # <<>>])

filesys_create(x, d, name, size) ==
    Then(free_map_allocate(x), LAMBDA a :
         With(inode_create_internal(a, a.r, size, "file"), LAMBDA b :
              IF b.r = 0 THEN Failed(free_map_release(b, a.r))
              ELSE NameFile(b, d, name, a.r)))

(* What mkdir and symlink do when the name cannot be added: the new inode  *)
(* still has its link count of 1, so closing it releases nothing.          *)
Discard(x, s) ==
    [With(inode_open(x, s), LAMBDA a :
          IF a.r = 0 THEN a ELSE Failed(inode_close(inode_remove(a, s), s)))
       EXCEPT !.leak = TRUE]

(* Names the inode just made in sector s, or takes back what was done.     *)
AddNew(x, d, name, s) ==
    IF x.r = 0 THEN Failed(free_map_release(x, s))
    ELSE With(dir_add(x, d, name, s), LAMBDA a : IF a.r = 0 THEN Discard(a, s) ELSE a)

filesys_mkdir(x, d, name) ==
    Then(free_map_allocate(x), LAMBDA a :
         AddNew(dir_create_with_parent(a, a.r, d, EntryCnt), d, name, a.r))

inode_create_symlink(x, s, target) ==
    LET len == IF target = <<>> THEN 0 ELSE 1
    IN  Then(inode_create_internal(x, s, len, "symlink"), LAMBDA a :
             IF len = 0 THEN a
             ELSE With(inode_open(a, s), LAMBDA o :
                  IF o.r = 0 THEN [o EXCEPT !.leak = TRUE]
                  ELSE With(inode_write_at(o, s, <<[kind |-> "path", path |-> target]>>, 0),
                            LAMBDA b : [Closing(b, s) EXCEPT !.leak = @ \/ b.r = 0])))

filesys_symlink(x, d, name, target) ==
    Then(free_map_allocate(x), LAMBDA a :
         AddNew(inode_create_symlink(a, a.r, target), d, name, a.r))

filesys_link(x, d, name, src) ==
    Then(dir_add(x, d, name, src), LAMBDA a : [inode_inc_nlink(a, src) EXCEPT !.r = 1])

Change(x, c) ==
    CASE c.op = "create" -> filesys_create(x, c.d, c.nm, c.size)
      [] c.op = "remove" -> dir_remove(x, c.d, c.nm)
      [] c.op = "mkdir" -> filesys_mkdir(x, c.d, c.nm)
      [] c.op = "symlink" -> filesys_symlink(x, c.d, c.nm, c.target)
      [] c.op = "link" -> filesys_link(x, c.d, c.nm, c.src)

Modify(x, c) == inode_close(dir_close(TxnEnd(Change(TxnBegin(x), c)), c.d), c.src)
-------------------------------------------------------------------------------
(* filesys.c: format, mount and shut down                                  *)

Blank == [used |-> {}, mapfile |-> {}, disk |-> [s \in Sector |-> Zeros],
          ino |-> [s \in Sector |-> NoInode], file |-> [f \in FileId |-> NoFile],
          cwd |-> [t \in Thread |-> 0], mem |-> -1, txn |-> FALSE, log |-> <<>>,
          r |-> 0, nm |-> "", path |-> <<>>, src |-> 0, gen |-> 0,
          leak |-> FALSE, torn |-> FALSE, corrupt |-> FALSE, panic |-> FALSE]

do_format(x) == dir_create_with_parent(free_map_create(x), ROOT_DIR_SECTOR,
                                       ROOT_DIR_SECTOR, EntryCnt)

filesys_init(x) == free_map_open(do_format(free_map_init(x)))

(* A call seen as a whole, for the calls made before the run starts.       *)
Whole(x, c) ==
    Then(Checks(x, CHOOSE n \in Thread : TRUE, c),
         LAMBDA a : Modify(a, [d |-> a.r, nm |-> a.nm, src |-> a.src] @@ c))

(* The registers carry nothing from one step to the next.                  *)
Clear(x) == [x EXCEPT !.r = 0, !.nm = "", !.path = <<>>, !.src = 0]
Finished(x) == [Clear(x) EXCEPT !.mem = -1]

Init == /\ \E setup \in Setups :
              fs = Finished(ForEach(Whole, filesys_init(Blank), setup))
        /\ call = [t \in Thread |-> Idle]
        /\ overlap = FALSE
        /\ calls = 0

-------------------------------------------------------------------------------
Running == ~fs.panic /\ ~fs.corrupt

(* A new call of thread t, in which allocation m fails if m is not -1.     *)
Start(t, m) ==
    /\ Running /\ call[t] = Idle /\ calls < MaxCalls
    /\ m = -1 \/ calls < FaultCalls
    /\ calls' = calls + 1
Given(m) == IF m = -1 THEN fs ELSE [fs EXCEPT !.mem = m]

Modifying == {"create", "remove", "mkdir", "symlink", "link"}

Requests ==
    [op : {"create"}, path : Paths, size : Sizes]
    \cup [op : {"remove", "mkdir"}, path : Paths]
    \cup [op : {"symlink"}, path : Paths, target : Targets]
    \cup [op : {"link"}, old : OldPaths, path : Paths]

CallChecks(t, c) ==
    \E m \in {-1} \cup Faults :
       /\ Start(t, m)
       /\ \E a \in {Checks(Given(m), t, c)} :
             /\ fs' = IF a.r = 0 THEN Finished(a) ELSE Clear(a)
             /\ call' = IF a.r = 0 THEN call
                        ELSE [call EXCEPT ![t] =
                                [d |-> a.r, nm |-> a.nm, src |-> a.src] @@ c]
       /\ overlap' = (overlap \/ \E u \in Thread : call[u].op \in Modifying)

CallModify(t) ==
    /\ Running /\ call[t].op \in Modifying
    /\ fs' = Finished(Modify(fs, call[t]))
    /\ call' = [call EXCEPT ![t] = Idle]
    /\ UNCHANGED <<overlap, calls>>

(* Calls of one step.                                                      *)
Simple(t, f(_)) ==
    /\ \E m \in {-1} \cup Faults : Start(t, m) /\ fs' = Finished(f(Given(m)))
    /\ UNCHANGED <<call, overlap>>

CallOpen(t) == \E p \in Paths :
    /\ \E f \in FileId : fs.file[f] = NoFile
    /\ Simple(t, LAMBDA x : filesys_open(x, t, p))
CallChdir(t) == \E p \in Paths : Simple(t, LAMBDA x : filesys_chdir(x, t, p))
CallReadlink(t) == \E p \in Paths : Simple(t, LAMBDA x : filesys_readlink(x, t, p))

(* Calls on an open file: each thread uses the files it opened.            *)
Mine(t) == {n \in FileId : fs.file[n] # NoFile /\ fs.file[n].owner = t}
FileCall(t, f(_, _)) ==
    /\ Start(t, -1)
    /\ \E n \in Mine(t) : fs' = f(fs, n)
    /\ UNCHANGED <<call, overlap>>

CallDeny(t) == FileCall(t, file_deny_write)
CallAllow(t) == FileCall(t, file_allow_write)
CallDup(t) == FileCall(t, file_dup)
CallSeek(t) == \E o \in Offsets : FileCall(t, LAMBDA x, n : [x EXCEPT !.file[n].pos = o])

(* Closing is not counted: there are as many as there were calls to open.  *)
CallClose(t) ==
    /\ Running /\ call[t] = Idle
    /\ \E n \in Mine(t) : fs' = file_close(fs, n)
    /\ UNCHANGED <<call, overlap, calls>>

(* file_write up to the release of the inode's lock ...                    *)
CallWrite(t) ==
    \E n \in Mine(t) :
       LET i == fs.file[n].ino
           a == WriteAllowed(fs, i, 1, fs.file[n].pos)
       IN  /\ Start(t, -1)
           /\ IsType(fs, i, "file")
           /\ fs' = Clear(a)
           /\ call' = IF a.r = 0 THEN call
                      ELSE [call EXCEPT ![t] = [op |-> "write", f |-> n]]
           /\ UNCHANGED overlap

(* ... and from there to its return.                                       *)
CallCopy(t) ==
    LET n == call[t].f
        i == fs.file[n].ino
        v == [kind |-> "value", gen |-> Data(fs, i).gen]
    IN  /\ Running /\ call[t].op = "write"
        /\ fs' = [Finished(CopyUnits(fs, i, fs.file[n].pos, <<v>>))
                    EXCEPT !.file[n].pos = @ + 1]
        /\ call' = [call EXCEPT ![t] = Idle]
        /\ UNCHANGED <<overlap, calls>>

(* A process that ends closes its working directory.                       *)
Exit(t) ==
    /\ Running /\ call[t] = Idle /\ fs.cwd[t] # 0
    /\ fs' = [dir_close(fs, fs.cwd[t]) EXCEPT !.cwd[t] = 0]
    /\ UNCHANGED <<call, overlap, calls>>

Next == \E t \in Thread :
             \/ \E c \in Requests : CallChecks(t, c)
             \/ CallModify(t) \/ CallOpen(t) \/ CallChdir(t) \/ CallReadlink(t)
             \/ CallClose(t) \/ CallDeny(t) \/ CallAllow(t) \/ CallDup(t)
             \/ CallSeek(t) \/ CallWrite(t) \/ CallCopy(t) \/ Exit(t)

Spec == Init /\ [][Next]_vars

-------------------------------------------------------------------------------
(* The inodes that exist: open in memory, or named by an entry of a        *)
(* directory that exists.  An open inode counts with its in-memory data.   *)

DataOf(s) == IF fs.ino[s] # NoInode THEN fs.ino[s].data ELSE fs.disk[s].i
Holds(d) == {fs.disk[byte_to_sector(fs, d, i)].u[i % SectorUnits] : i \in 0 .. d.length - 1}
EntriesOf(s) == {e \in Holds(DataOf(s)) : e.kind = "entry" /\ e.in_use}
Named(S) == S \cup {e.sector : e \in UNION {EntriesOf(s) : s \in {n \in S : DataOf(n).type = "dir"}}}
InTree == Named(Named(Named({ROOT_DIR_SECTOR})))
Opened == {s \in Sector : fs.ino[s] # NoInode}
Existing == InTree \cup Opened \cup {FREE_MAP_SECTOR}
Owners == UNION {LET o == <<s>> \o BlocksOf(fs, DataOf(s))
                 IN  {<<s, i, o[i]>> : i \in DOMAIN o} : s \in Existing}

(* The state is of the right shape, and the registers are clear between    *)
(* steps.                                                                  *)
TypeOK == /\ fs.used \subseteq Sector /\ fs.mapfile \subseteq Sector
          /\ \A s \in Opened : fs.ino[s].cnt > 0 /\ fs.ino[s].deny >= 0
          /\ ~fs.txn /\ fs.log = <<>> /\ fs.r = 0
          /\ \A t \in Thread : call[t].op \in Modifying \cup {"idle", "write"}

Holders(s) ==
    Cardinality({f \in FileId : fs.file[f] # NoFile /\ fs.file[f].ino = s})
    + Cardinality({t \in Thread : fs.cwd[t] = s})
    + Cardinality({t \in Thread : call[t].op \in Modifying /\ call[t].d = s})
    + Cardinality({t \in Thread : call[t].op \in Modifying /\ call[t].src = s})

(* Every count of openers is exact: the open count of an inode is the      *)
(* number of struct files, working directories and unfinished calls that   *)
(* hold it, on every path through filesys.c, failures included.            *)
OpenCountExact == Running => \A s \in Opened : fs.ino[s].cnt = Holders(s)

(* No sector belongs to two inodes, or twice to one, and every sector an   *)
(* existing inode uses is marked in the free map and in its file.  Holds   *)
(* whatever the calls interleave, until an index block is torn.            *)
SectorsPrivate ==
    Running /\ ~fs.torn =>
       LET all == Owners
           sectors == {o[3] : o \in all}
       IN  /\ Cardinality(sectors) = Cardinality(all)
           /\ sectors \subseteq fs.used
           /\ fs.mapfile = fs.used

(* Sectors are not lost: one that is marked belongs to an existing inode,  *)
(* to the log or to a call under way, unless a call took one of the paths  *)
(* recorded in leak or two modifying calls overlapped.                     *)
NoLeak ==
    Running /\ ~fs.leak /\ ~fs.torn /\ ~overlap =>
       fs.used = WalSectors \cup {o[3] : o \in Owners}

(* A link count is the number of names: hard links, removals and failed    *)
(* calls keep nlink equal to the entries that name the inode, "." and ".." *)
(* apart.                                                                  *)
LinkCountExact ==
    Running /\ ~fs.torn /\ ~overlap =>
       LET tree == InTree
           names == UNION {{<<d, e.name, e.sector>> : e \in EntriesOf(d)} :
                           d \in {n \in tree : DataOf(n).type = "dir"}}
       IN  \A s \in tree \ {ROOT_DIR_SECTOR} :
             /\ DataOf(s).nlink = Cardinality({n \in names :
                                     n[3] = s /\ n[2] \notin {".", ".."}})
             /\ DataOf(s).type = "dir" => DataOf(s).nlink = 1

(* A file never shows data of another file, of a deleted one or of a       *)
(* directory: what a read returns was written to this file, or is zero.    *)
NoStaleData ==
    Running /\ ~fs.torn =>
       \A s \in Existing : DataOf(s).type = "file" =>
          \A u \in Holds(DataOf(s)) :
             u.kind = "zero" \/ u = [kind |-> "value", gen |-> DataOf(s).gen]


(* The counts are exact on every path through filesys.c, failures included: *)
(* an inode's open count is the number of its holders, its link count the   *)
(* number of its names, and no transaction is left open.                    *)
CountsExact == TypeOK /\ OpenCountExact /\ LinkCountExact

===============================================================================

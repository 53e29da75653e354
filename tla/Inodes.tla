-------------------------------- MODULE Inodes --------------------------------
(***************************************************************************)
(* The free map (free-map.c), the inode layer (inode.c) and the open file  *)
(* objects (file.c).  Each C function is an operator from a file system    *)
(* state to a file system state; a result is left in the field r, with 0   *)
(* for NULL, for false and for "no sector".  The fields of a state:        *)
(*   used     the bits set in the in-memory free map                       *)
(*   mapfile  the free map as last written to its file                     *)
(*   disk     what a read of a sector through the buffer cache returns     *)
(*   ino      the open in-memory inodes, at most one for a sector          *)
(*   file     the struct file objects                                      *)
(*   cwd      the working directory of each thread, 0 when none is set     *)
(*   mem      allocations that succeed before one fails, -1 if none fails  *)
(*   txn, log the running thread's WAL transaction and what it would undo  *)
(*   r, nm, path, src  results of the last call                            *)
(* The unit of length is one directory entry; a sector holds SectorUnits.  *)
(* Four history fields record what the file system never undoes:           *)
(*   gen      the inodes created so far                                    *)
(*   leak     a path known to lose sectors was taken                       *)
(*   torn     an index block was allocated and never written               *)
(*   corrupt  such a block was read as an index block                      *)
(***************************************************************************)
EXTENDS Integers, Sequences, FiniteSets

CONSTANTS Thread, FileId, DiskSize, WalSectors, SectorUnits,
          DIRECT_BLOCK_COUNT, PTRS_PER_BLOCK

FREE_MAP_SECTOR == 0
ROOT_DIR_SECTOR == 1
Sector == 0 .. DiskSize - 1
NoInode == [cnt |-> 0]
NoFile == [ino |-> 0]

Zero == [kind |-> "zero"]
Zeros == [kind |-> "data", u |-> [i \in 0 .. SectorUnits - 1 |-> Zero]]
NoPtrs == [i \in 0 .. PTRS_PER_BLOCK - 1 |-> 0]
Put(x, s, content) == [x EXCEPT !.disk[s] = content]
Upto(a, b) == [i \in 1 .. (IF b < a THEN 0 ELSE b - a + 1) |-> a + i - 1]
Lesser(a, b) == IF a < b THEN a ELSE b
Greater(a, b) == IF a < b THEN b ELSE a

malloc(x) == IF x.mem = 0 THEN [x EXCEPT !.r = 0, !.mem = -1]
             ELSE [x EXCEPT !.r = 1, !.mem = IF @ < 0 THEN @ ELSE @ - 1]

(* A loop: op applied to x for each element of q in turn.                  *)
RECURSIVE ForEach(_, _, _)
ForEach(op(_, _), x, q) == IF q = <<>> THEN x ELSE ForEach(op, op(x, Head(q)), Tail(q))

(* The rest of a function after a call, and after a call whose failure it  *)
(* returns.                                                                *)
With(a, rest(_)) == rest(a)
Then(a, rest(_)) == IF a.r = 0 THEN a ELSE rest(a)

-------------------------------------------------------------------------------
(* free-map.c                                                              *)

free_map_init(x) ==
    [x EXCEPT !.used = {FREE_MAP_SECTOR, ROOT_DIR_SECTOR} \cup WalSectors]

free_map_allocate(x) ==
    LET s == CHOOSE n \in Sector \ x.used : \A m \in Sector \ x.used : n <= m
    IN  IF x.used = Sector THEN [x EXCEPT !.r = 0]
        ELSE [x EXCEPT !.used = @ \cup {s}, !.mapfile = x.used \cup {s}, !.r = s]


free_map_release(x, s) ==
    IF s \notin x.used THEN [x EXCEPT !.panic = TRUE]
    ELSE [x EXCEPT !.used = @ \ {s}, !.mapfile = x.used \ {s}]

-------------------------------------------------------------------------------
(* inode.c: the index of an inode                                          *)

bytes_to_sectors(n) == (n + SectorUnits - 1) \div SectorUnits

(* An index block as cache_read returns it.  A block that was allocated    *)
(* and never written holds whatever its sector held before.                *)
Pointers(x, s) == IF x.disk[s].kind = "ptr" THEN x.disk[s].p ELSE NoPtrs
IsIndex(x, s) == x.disk[s].kind = "ptr" \/ x.disk[s] = Zeros
ReadIndex(x, s) == IF IsIndex(x, s) THEN x ELSE [x EXCEPT !.corrupt = TRUE]

byte_to_sector(x, d, pos) ==
    LET i == pos \div SectorUnits
        j == i - DIRECT_BLOCK_COUNT
        m == j - PTRS_PER_BLOCK
    IN  IF i < DIRECT_BLOCK_COUNT THEN d.direct[i]
        ELSE IF j < PTRS_PER_BLOCK THEN Pointers(x, d.indirect)[j]
        ELSE Pointers(x, Pointers(x, d.doubly)[m \div PTRS_PER_BLOCK])
                 [m % PTRS_PER_BLOCK]

(* Every sector an inode refers to, in the order inode_deallocate frees.   *)
Listed(p) == SelectSeq([i \in 1 .. PTRS_PER_BLOCK |-> p[i - 1]], LAMBDA s : s # 0)
Under(x, s) == IF s = 0 THEN <<>> ELSE Append(Listed(Pointers(x, s)), s)
BlocksOf(x, d) ==
    SelectSeq([i \in 1 .. DIRECT_BLOCK_COUNT |-> d.direct[i - 1]], LAMBDA s : s # 0)
    \o Under(x, d.indirect)
    \o (IF d.doubly = 0 THEN <<>>
        ELSE Append(ForEach(LAMBDA q, s : q \o Under(x, s), <<>>,
                            Listed(Pointers(x, d.doubly))),
                    d.doubly))

inode_deallocate(x, d) ==
    LET read(y, s) == IF s = 0 THEN y ELSE ReadIndex(y, s)
    IN  ForEach(free_map_release, read(read(x, d.indirect), d.doubly), BlocksOf(x, d))

(* One data block, zero-filled.                                            *)
NewBlock(x) == Then(free_map_allocate(x), LAMBDA a : Put(a, a.r, Zeros))

(* An index block to fill: the existing one, or a fresh one that exists    *)
(* only in the caller's buffer until the caller writes it.                 *)
OpenIndex(x, s) ==
    IF s # 0
    THEN [x |-> ReadIndex(x, s), at |-> s, p |-> Pointers(x, s), fresh |-> FALSE]
    ELSE With(free_map_allocate(x),
              LAMBDA a : [x |-> a, at |-> a.r, p |-> NoPtrs, fresh |-> TRUE])

(* Fills the missing pointers i of an index block, stopping at a failure.  *)
FillIndex(b, i) ==
    IF ~b.ok \/ b.p[i] # 0 THEN b
    ELSE With(NewBlock(b.x), LAMBDA a : IF a.r = 0 THEN [b EXCEPT !.x = a, !.ok = FALSE]
                                        ELSE [b EXCEPT !.x = a, !.p[i] = a.r])
Fill(b, from, to) ==
    ForEach(FillIndex, [x |-> b.x, p |-> b.p, ok |-> TRUE], Upto(from, to - 1))

(* An allocation fails: fresh when the index block being filled is still   *)
(* only in a buffer, lost when that buffer names sectors nothing else does. *)
Abandon(w, x, fresh, lost) ==
    [w EXCEPT !.x = [x EXCEPT !.torn = @ \/ fresh, !.leak = @ \/ lost],
              !.ok = FALSE]

GrowDirect(w, i) ==
    IF ~w.ok THEN w
    ELSE With(NewBlock(w.x), LAMBDA a : IF a.r = 0 THEN Abandon(w, a, FALSE, FALSE)
                                        ELSE [w EXCEPT !.x = a, !.d.direct[i] = a.r])

(* Writes the filled buffer of an index block.                             *)
PutIndex(b, f) == Put(f.x, b.at, [kind |-> "ptr", p |-> f.p])

GrowIndirect(w, old, new) ==
    With(OpenIndex(w.x, w.d.indirect), LAMBDA b :
         IF b.at = 0 THEN Abandon(w, b.x, FALSE, FALSE)
         ELSE With(Fill(b, Greater(old - DIRECT_BLOCK_COUNT, 0),
                        Lesser(PTRS_PER_BLOCK, new - DIRECT_BLOCK_COUNT)),
                   LAMBDA f :
                   IF f.ok THEN [w EXCEPT !.d.indirect = b.at, !.x = PutIndex(b, f)]
                   ELSE Abandon([w EXCEPT !.d.indirect = b.at], f.x, b.fresh, f.p # b.p)))

(* Group g of the doubly indirect block; w.p is the block being filled.    *)
GrowGroup(w, g, old, new) ==
    LET base == DIRECT_BLOCK_COUNT + PTRS_PER_BLOCK * (g + 1)
    IN  IF ~w.ok THEN w
        ELSE With(OpenIndex(w.x, w.p[g]), LAMBDA b :
                  IF b.at = 0 THEN Abandon(w, b.x, w.fresh, w.p # w.was)
                  ELSE With(Fill(b, Greater(old - base, 0),
                                 Lesser(PTRS_PER_BLOCK, new - base)),
                            LAMBDA f :
                            IF f.ok THEN [w EXCEPT !.x = PutIndex(b, f), !.p[g] = b.at]
                            ELSE Abandon(w, f.x, w.fresh, TRUE)))

GrowGroups(b, old, new) ==
    LET base == DIRECT_BLOCK_COUNT + PTRS_PER_BLOCK
        last == Lesser(PTRS_PER_BLOCK - 1, (new - base - 1) \div PTRS_PER_BLOCK)
    IN  ForEach(LAMBDA v, g : GrowGroup(v, g, old, new),
                [x |-> b.x, p |-> b.p, was |-> b.p, ok |-> TRUE, fresh |-> b.fresh],
                Upto(Greater(old - base, 0) \div PTRS_PER_BLOCK, last))

GrowDoubly(w, old, new) ==
    With(OpenIndex(w.x, w.d.doubly), LAMBDA b :
         IF b.at = 0 THEN Abandon(w, b.x, FALSE, FALSE)
         ELSE With(GrowGroups(b, old, new), LAMBDA f :
                   IF f.ok THEN [w EXCEPT !.d.doubly = b.at, !.x = PutIndex(b, f)]
                   ELSE [w EXCEPT !.d.doubly = b.at, !.x = f.x, !.ok = FALSE]))

(* The next level of the index, when the inode reaches beyond n blocks.    *)
Beyond(w, old, new, n, grow(_, _, _)) == IF w.ok /\ n < new THEN grow(w, old, new) ELSE w

(* Allocates the data blocks old .. new - 1 and the index blocks they need. *)
Grow(x, d, old, new) ==
    Beyond(Beyond(ForEach(GrowDirect, [x |-> x, d |-> d, ok |-> TRUE],
                          Upto(old, Lesser(DIRECT_BLOCK_COUNT, new) - 1)),
                  old, new, DIRECT_BLOCK_COUNT, GrowIndirect),
           old, new, DIRECT_BLOCK_COUNT + PTRS_PER_BLOCK, GrowDoubly)

-------------------------------------------------------------------------------
(* inode.c: in-memory inodes                                               *)

Data(x, s) == x.ino[s].data

inode_create_internal(x, s, length, type) ==
    LET d == [type |-> type, nlink |-> 1, length |-> length, gen |-> x.gen + 1,
              direct |-> [i \in 0 .. DIRECT_BLOCK_COUNT - 1 |-> 0],
              indirect |-> 0, doubly |-> 0]
    IN  Then(malloc(x), LAMBDA a :
             With(Grow(a, d, 0, bytes_to_sectors(length)), LAMBDA w :
                  IF w.ok THEN [Put(w.x, s, [kind |-> "inode", i |-> w.d])
                                  EXCEPT !.r = 1, !.gen = @ + 1]
                  ELSE [inode_deallocate(w.x, w.d) EXCEPT !.r = 0]))

inode_reopen(x, s) ==
    IF s = 0 THEN [x EXCEPT !.r = 0] ELSE [x EXCEPT !.ino[s].cnt = @ + 1, !.r = s]

inode_open(x, s) ==
    IF x.ino[s] # NoInode THEN inode_reopen(x, s)
    ELSE Then(malloc(x), LAMBDA a :
              IF x.disk[s].kind # "inode" THEN [a EXCEPT !.corrupt = TRUE, !.r = 0]
              ELSE [a EXCEPT !.ino[s] = [cnt |-> 1, removed |-> FALSE, deny |-> 0,
                                         data |-> x.disk[s].i],
                             !.r = s])


(* The callers pass NULL, here 0, when an open failed.                     *)
inode_close(x, s) ==
    IF s = 0 THEN x
    ELSE IF x.ino[s].cnt > 1 THEN [x EXCEPT !.ino[s].cnt = @ - 1]
    ELSE With([x EXCEPT !.ino[s] = NoInode], LAMBDA gone :
              IF x.ino[s].removed /\ Data(x, s).nlink = 0
              THEN inode_deallocate(free_map_release(gone, s), Data(x, s))
              ELSE gone)

inode_remove(x, s) == [x EXCEPT !.ino[s].removed = TRUE]

(* Stores the in-memory inode d of sector s in memory and on disk.         *)
SaveInode(x, s, d) == Put([x EXCEPT !.ino[s].data = d], s, [kind |-> "inode", i |-> d])

inode_inc_nlink(x, s) == SaveInode(x, s, [Data(x, s) EXCEPT !.nlink = @ + 1])

inode_dec_nlink(x, s) ==
    IF Data(x, s).nlink = 0 THEN [x EXCEPT !.panic = TRUE]
    ELSE SaveInode(x, s, [Data(x, s) EXCEPT !.nlink = @ - 1])

inode_extend(x, s, length) ==
    With(Grow(x, Data(x, s), bytes_to_sectors(Data(x, s).length), bytes_to_sectors(length)),
         LAMBDA w :
         IF w.ok THEN [SaveInode(w.x, s, [w.d EXCEPT !.length = length]) EXCEPT !.r = 1]
         ELSE [w.x EXCEPT !.ino[s].data = w.d, !.r = 0,
                          !.leak = @ \/ w.x.used # x.used])

inode_read_at(x, s, pos) ==
    x.disk[byte_to_sector(x, Data(x, s), pos)].u[pos % SectorUnits]

(* inode_write_at up to the release of the inode's lock: r is 1 when the   *)
(* caller goes on to write.                                                *)
WriteAllowed(x, s, size, pos) ==
    IF x.ino[s].deny > 0 THEN [x EXCEPT !.r = 0]
    ELSE IF pos + size > Data(x, s).length THEN inode_extend(x, s, pos + size)
    ELSE [x EXCEPT !.r = 1]

(* One unit of the copying loop, which runs without the inode's lock.      *)
WriteUnit(x, s, pos, u) ==
    LET k == pos % SectorUnits
    IN  With(byte_to_sector(x, Data(x, s), pos), LAMBDA at :
             [x EXCEPT !.log = IF x.txn THEN <<<<at, k, x.disk[at].u[k]>>>> \o @ ELSE @,
                       !.disk[at].u[k] = u])

CopyUnits(x, s, pos, buf) ==
    Then(IF x.txn THEN malloc(x) ELSE [x EXCEPT !.r = 1], LAMBDA a :
         [ForEach(LAMBDA y, i : WriteUnit(y, s, pos + i - 1, buf[i]), a, Upto(1, Len(buf)))
            EXCEPT !.r = Len(buf)])

inode_write_at(x, s, buf, pos) ==
    Then(WriteAllowed(x, s, Len(buf), pos), LAMBDA a : CopyUnits(a, s, pos, buf))

inode_deny_write(x, s) ==
    [x EXCEPT !.ino[s].deny = @ + 1, !.panic = @ \/ x.ino[s].deny + 1 > x.ino[s].cnt]

inode_allow_write(x, s) ==
    [x EXCEPT !.ino[s].deny = @ - 1,
              !.panic = @ \/ x.ino[s].deny \notin 1 .. x.ino[s].cnt]

-------------------------------------------------------------------------------
(* file.c                                                                  *)

file_open(x, t, s) ==
    With(malloc(x), LAMBDA a :
         IF s = 0 \/ a.r = 0 THEN [inode_close(a, s) EXCEPT !.r = 0]
         ELSE With(CHOOSE n \in FileId : x.file[n] = NoFile, LAMBDA f :
                   [a EXCEPT !.file[f] = [ino |-> s, pos |-> 0, deny |-> FALSE,
                                          ref |-> 1, owner |-> t], !.r = f]))

file_dup(x, f) == [x EXCEPT !.file[f].ref = @ + 1]

file_deny_write(x, f) ==
    IF x.file[f].deny THEN x
    ELSE inode_deny_write([x EXCEPT !.file[f].deny = TRUE], x.file[f].ino)

file_allow_write(x, f) ==
    IF ~x.file[f].deny THEN x
    ELSE inode_allow_write([x EXCEPT !.file[f].deny = FALSE], x.file[f].ino)

file_close(x, f) ==
    IF x.file[f].ref > 1 THEN [x EXCEPT !.file[f].ref = @ - 1]
    ELSE [inode_close(file_allow_write(x, f), x.file[f].ino)
            EXCEPT !.file[f] = NoFile]

-------------------------------------------------------------------------------
(* free-map.c: the free map as a file.  Its inode is opened by these and   *)
(* by nobody else; sector 0 stands for NULL above, so it is not counted.   *)

free_map_open(x) == [x EXCEPT !.used = x.mapfile]

free_map_create(x) ==
    With(inode_create_internal(x, FREE_MAP_SECTOR, 1, "file"),
         LAMBDA a : [a EXCEPT !.mapfile = a.used])
===============================================================================

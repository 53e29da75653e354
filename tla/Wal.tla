-------------------------------- MODULE Wal --------------------------------
(***************************************************************************)
(* The write-ahead log of filesys/wal.c, with the parts of the file system *)
(* that drive it: inode_write_at logs and then writes a page of the buffer *)
(* cache, filesys_init mounts, filesys_done shuts down.                    *)
(*                                                                         *)
(* A page stands for the bytes one WRITE record covers.  The cache may     *)
(* write any page back at any time (eviction, the flusher): the log is a   *)
(* steal/no-force one.  A crash loses everything but the log, the pages on *)
(* disk and the metadata sector.  wal_lock covers one append or one flush, *)
(* except that an append that finds the buffer full gives the lock up to   *)
(* flush it; these are the steps of a thread.                              *)
(***************************************************************************)
EXTENDS Integers, Sequences, FiniteSets, FiniteSetsExt, Functions

CONSTANTS Thread,      \* threads running transactions
          Page,        \* pieces of metadata a transaction writes
          Value,
          Blank,       \* the value of a page of a fresh file system
          None,
          BufRecs,     \* records in WAL_BUFFER_SIZE
          MaxLsn,      \* bound: appends
          Setups       \* the machines considered; one is chosen at first

\* A machine: the pages each thread's transactions write, WAL_LOG_SECTORS, may
\* malloc return NULL, may the machine boot with the format option, and a bound
\* on the mounts that run transactions.
Setup == [pages : [Thread -> SUBSET Page], sectors : Nat, fails : BOOLEAN, format : BOOLEAN, sessions : Nat]

ASSUME WalAssumption ==
  /\ IsFiniteSet(Thread) /\ None \notin Thread \cup Page
  /\ Blank \in Value /\ None \notin Value
  /\ MaxLsn \in Nat /\ Setups \subseteq Setup
  /\ \A x \in Setups : BufRecs \in 1..x.sectors

\* The log does not isolate transactions from each other: those that run at
\* the same time are taken to write different pages.
ASSUME PagesApart ==
  \A x \in Setups : \A t, u \in Thread : t # u => x.pages[t] \cap x.pages[u] = {}

VARIABLES disk,     \* pages on disk
          log,      \* log sectors
          meta,     \* WAL_METADATA_SECTOR
          cache,    \* pages as the buffer cache has them
          wal,      \* struct wal_manager
          buf,      \* wal.log_buffer up to buffer_used
          pending,  \* checkpoint_pending
          mode,     \* what the machine is doing
          todo,     \* log sectors recovery has still to apply
          pc, txn, rec, \* each thread: where it is, its transaction, its record
          setup,    \* the machine
          sessions, \* bound
          want,     \* history: pages as the transactions that returned left them
          writes,   \* history: what each running transaction wrote
          maybe,    \* history: transactions caught committing by the crash
          base,     \* history: the last LSN before this session
          lapse     \* history: an undo was given up, or the disk formatted

persistent == <<disk, log, meta>>
memory == <<cache, wal, buf, pending>>
threads == <<pc, txn, rec>>
history == <<want, writes, maybe, base, lapse>>
vars == <<persistent, memory, mode, todo, threads, setup, sessions, history>>

PagesOf == setup.pages
LogSectors == setup.sectors
MemoryFails == setup.fails
MayFormat == setup.format
MaxSessions == setup.sessions

LogSector == 0..(LogSectors - 1)
Lsn == 0..(MaxLsn + 1)
Type == {"BEGIN", "COMMIT", "ABORT", "WRITE", "CHECKPOINT"}
Record == [lsn : Lsn, txn : Lsn, type : Type, page : Page \cup {None},
           old : Value \cup {None}, new : Value \cup {None}]
PartialWrites == UNION {[D -> Value] : D \in SUBSET Page}
NoWrites == [p \in {} |-> Blank]

ASSUME NoneAssumption == None \notin Record

PC == {"idle", "append", "drain", "refill", "active", "store", "commit", "committed",
       "abort", "rollback", "ckpt", "ckptflush", "ckptlog", "ckptend", "ckptdone"}

TypeOK ==
  /\ disk \in [Page -> Value] /\ cache \in [Page -> Value] /\ want \in [Page -> Value]
  /\ log \in [LogSector -> Record \cup {None}]
  /\ meta \in [clean : BOOLEAN, lsn : Lsn, txn : Lsn]
  /\ wal \in [next : Lsn, flushed : Lsn, txn : Lsn, ckpt : Lsn, checkpointing : BOOLEAN]
  /\ buf \in Seq(Record) /\ Len(buf) <= BufRecs
  /\ pending \in BOOLEAN
  /\ mode \in {"down", "redo", "undo", "mounted", "up", "stopping"}
  /\ todo \subseteq LogSector
  /\ pc \in [Thread -> PC]
  /\ txn \in [Thread -> [id : Lsn, first : Lsn, end : Lsn, then : PC]]
  /\ rec \in [Thread -> Record \cup {None}]
  /\ sessions \in 0..MaxSessions
  /\ writes \in [Thread -> PartialWrites] /\ maybe \subseteq PartialWrites
  /\ base \in Lsn /\ lapse \in BOOLEAN

NoTxn == [id |-> 0, first |-> 0, end |-> 0, then |-> "idle"]
FreshWal == [next |-> 1, flushed |-> 0, txn |-> 1, ckpt |-> 0, checkpointing |-> FALSE]

\* A blank file system that was shut down cleanly, as formatting and a clean
\* shutdown leave it.
Init ==
  /\ setup \in Setups
  /\ disk = [p \in Page |-> Blank] /\ log = [s \in LogSector |-> None]
  /\ meta = [clean |-> TRUE, lsn |-> 0, txn |-> 0]
  /\ cache = disk /\ wal = FreshWal /\ buf = << >> /\ pending = FALSE
  /\ mode = "down" /\ todo = {}
  /\ pc = [t \in Thread |-> "idle"] /\ txn = [t \in Thread |-> NoTxn]
  /\ rec = [t \in Thread |-> None]
  /\ sessions = 0
  /\ want = disk /\ writes = [t \in Thread |-> NoWrites] /\ maybe = {} /\ base = 0
  /\ lapse = FALSE

-----------------------------------------------------------------------------
(* The log. *)

SectorOf(l) == (l - 1) % LogSectors

\* The log with the first n records of the buffer written to their sectors.
LogWith(n) ==
  [s \in LogSector |->
     LET I == {i \in 1..n : SectorOf(buf[i].lsn) = s}
     IN  IF I = {} THEN log[s] ELSE buf[Max(I)]]

FlushNeeded(upTo) == upTo > wal.flushed /\ buf # << >>

\* Mutant: flushed_lsn is what the caller asked for.
FlushedAsAsked(upTo) ==
  IF FlushNeeded(upTo)
    THEN log' = LogWith(Len(buf)) /\ wal' = [wal EXCEPT !.flushed = upTo]
    ELSE UNCHANGED <<log, wal>>

\* Every record of the buffer is written, and stays in the buffer.
wal_flush(upTo) ==
  IF FlushNeeded(upTo)
    THEN /\ log' = LogWith(Len(buf))
         /\ wal' = [wal EXCEPT !.flushed = Max({@} \cup {buf[i].lsn : i \in 1..Len(buf)})]
    ELSE UNCHANGED <<log, wal>>

Goto(t, where) == pc' = [pc EXCEPT ![t] = where]

\* Call wal_append_record with a record of this type and go on at then.
Appending(t, r, then) ==
  /\ rec' = [rec EXCEPT ![t] = r]
  /\ txn' = [txn EXCEPT ![t].then = then]
  /\ Goto(t, "append")

PlainRecord(t, type) ==
  [lsn |-> 0, txn |-> txn[t].id, type |-> type, page |-> None, old |-> None, new |-> None]

\* The end of wal_append_record, with the record r numbered and b the buffer
\* it is copied to; the number is used up only here.
Appended(t, r, b) ==
  LET next == wal.next + 1
      ckpt == IF r.type = "CHECKPOINT" THEN r.lsn ELSE wal.ckpt
      used == IF ckpt = 0 THEN next - 1 ELSE next - ckpt
      full == used >= (LogSectors * 3) \div 4 /\ ~wal.checkpointing
  IN  /\ buf' = Append(b, r)
      /\ wal' = [wal EXCEPT !.next = next, !.ckpt = ckpt]
      /\ pending' = (pending \/ full)
      /\ rec' = [rec EXCEPT ![t] = IF r.type \in {"WRITE", "COMMIT"} THEN r ELSE None]
      /\ txn' = [txn EXCEPT ![t] = IF r.type = "ABORT" THEN NoTxn
                                  ELSE IF r.type = "BEGIN" THEN [txn[t] EXCEPT !.first = r.lsn]
                                  ELSE txn[t]]
      /\ Goto(t, txn[t].then)

\* wal_append_record up to the lock_release: at once if there is room.
AppendRecord(t) ==
  LET r == [rec[t] EXCEPT !.lsn = wal.next] IN
  /\ pc[t] = "append" /\ wal.next <= MaxLsn
  /\ IF Len(buf) < BufRecs
       THEN Appended(t, r, buf)
       ELSE /\ rec' = [rec EXCEPT ![t] = r]
            /\ Goto(t, "drain")
            /\ UNCHANGED <<wal, buf, pending, txn>>
  /\ UNCHANGED <<persistent, cache, mode, todo, sessions, history>>

\* The buffer is full: flush it without the lock held in between.
DrainBuffer(t) ==
  /\ pc[t] = "drain"
  /\ wal_flush(rec[t].lsn - 1)
  /\ Goto(t, "refill")
  /\ UNCHANGED <<disk, meta, cache, buf, pending, mode, todo, txn, rec, sessions, history>>

\* buffer_used = 0, and the rest of wal_append_record.
RefillBuffer(t) ==
  /\ pc[t] = "refill" /\ wal.next <= MaxLsn
  /\ Appended(t, rec[t], << >>)
  /\ UNCHANGED <<persistent, cache, mode, todo, sessions, history>>

-----------------------------------------------------------------------------
(* Transactions. *)

\* wal_txn_begin.
Begin(t) ==
  /\ pc[t] = "idle" /\ wal.txn <= MaxLsn
  /\ wal' = [wal EXCEPT !.txn = @ + 1]
  /\ rec' = [rec EXCEPT ![t] = [PlainRecord(t, "BEGIN") EXCEPT !.txn = wal.txn]]
  /\ txn' = [txn EXCEPT ![t] = [txn[t] EXCEPT !.id = wal.txn, !.then = "active"]]
  /\ Goto(t, "append")
  /\ UNCHANGED <<persistent, cache, buf, pending, mode, todo, sessions, history>>

\* inode_write_at in a transaction: the old data is read, a record with old
\* and new is logged, and then the cache is written.
LogWrite(t) ==
  /\ pc[t] = "active"
  /\ \E p \in PagesOf[t], v \in Value :
       Appending(t, [PlainRecord(t, "WRITE") EXCEPT !.page = p, !.old = cache[p], !.new = v],
                 "store")
  /\ UNCHANGED <<persistent, memory, mode, todo, sessions, history>>

Store(t) ==
  LET r == rec[t] IN
  /\ pc[t] = "store"
  /\ cache' = [cache EXCEPT ![r.page] = r.new]
  /\ writes' = [writes EXCEPT ![t] = [p \in DOMAIN @ \cup {r.page} |->
                                       IF p = r.page THEN r.new ELSE @[p]]]
  /\ rec' = [rec EXCEPT ![t] = None]
  /\ Goto(t, "active")
  /\ UNCHANGED <<persistent, wal, buf, pending, mode, todo, txn, sessions, want, maybe, base, lapse>>

\* wal_txn_commit, up to its wal_flush.
LogCommit(t) ==
  /\ pc[t] = "active"
  /\ Appending(t, PlainRecord(t, "COMMIT"), "commit")
  /\ UNCHANGED <<persistent, memory, mode, todo, sessions, history>>

FlushCommit(t) ==
  /\ pc[t] = "commit"
  /\ wal_flush(rec[t].lsn)
  /\ Goto(t, "committed")
  /\ UNCHANGED <<disk, meta, cache, buf, pending, mode, todo, txn, rec, sessions, history>>

Overlay(w, pages) == [p \in Page |-> IF p \in DOMAIN w THEN w[p] ELSE pages[p]]

\* The transaction is done; the caller goes on to a checkpoint if one is due.
EndCommit(t) ==
  /\ pc[t] = "committed"
  /\ want' = Overlay(writes[t], want)
  /\ writes' = [writes EXCEPT ![t] = NoWrites]
  /\ txn' = [txn EXCEPT ![t] = NoTxn] /\ rec' = [rec EXCEPT ![t] = None]
  /\ Goto(t, IF pending THEN "ckpt" ELSE "idle")
  /\ UNCHANGED <<persistent, memory, mode, todo, sessions, maybe, base, lapse>>

\* Leave wal_txn_abort without undoing: the transaction is just forgotten.
GiveUp(t) ==
  /\ txn' = [txn EXCEPT ![t] = NoTxn] /\ writes' = [writes EXCEPT ![t] = NoWrites]
  /\ Goto(t, "idle") /\ lapse' = TRUE
  /\ UNCHANGED <<persistent, memory, mode, todo, rec, sessions, want, maybe, base>>

\* wal_txn_abort: note where the log ends.
BeginAbort(t) ==
  /\ pc[t] = "active"
  /\ \/ MemoryFails /\ GiveUp(t)
     \/ /\ txn' = [txn EXCEPT ![t].end = wal.next]
        /\ Goto(t, "abort")
        /\ UNCHANGED <<persistent, memory, mode, todo, rec, sessions, history>>

FlushAbort(t) ==
  /\ pc[t] = "abort"
  /\ wal_flush(txn[t].end)
  /\ Goto(t, "rollback")
  /\ UNCHANGED <<disk, meta, cache, buf, pending, mode, todo, txn, rec, sessions, history>>

\* The LSNs of the writes of transaction x that wal_read_record still finds.
OwnWrites(x) ==
  {l \in x.first..(x.end - 1) :
     LET r == log[SectorOf(l)]
     IN  r # None /\ r.lsn = l /\ r.txn = x.id /\ r.type = "WRITE"}

\* Mutant: the writes are undone first to last.
UndoneForward(x) ==
  [p \in Page |->
     LET L == {l \in OwnWrites(x) : log[SectorOf(l)].page = p}
     IN  IF L = {} THEN cache[p] ELSE log[SectorOf(Max(L))].old]

\* The cache with those writes undone, the last one first.
Undone(x) ==
  [p \in Page |->
     LET L == {l \in OwnWrites(x) : log[SectorOf(l)].page = p}
     IN  IF L = {} THEN cache[p] ELSE log[SectorOf(Min(L))].old]

\* Undo, cache_flush, and the ABORT record, which is not flushed.
Rollback(t) ==
  /\ pc[t] = "rollback"
  /\ \/ MemoryFails /\ GiveUp(t)
     \/ /\ cache' = Undone(txn[t]) /\ disk' = cache'
        /\ writes' = [writes EXCEPT ![t] = NoWrites]
        /\ Appending(t, PlainRecord(t, "ABORT"), "idle")
        /\ UNCHANGED <<log, meta, wal, buf, pending, mode, todo, sessions, want, maybe, base, lapse>>

-----------------------------------------------------------------------------
(* wal_checkpoint, called by the committer. *)

BeginCheckpoint(t) ==
  /\ pc[t] = "ckpt"
  /\ pending' = FALSE
  /\ wal' = [wal EXCEPT !.checkpointing = TRUE]
  /\ Goto(t, IF wal.checkpointing THEN "idle" ELSE "ckptflush")
  /\ UNCHANGED <<persistent, cache, buf, mode, todo, txn, rec, sessions, history>>

\* cache_flush, before the log is.
CheckpointCache(t) ==
  /\ pc[t] = "ckptflush"
  /\ disk' = cache
  /\ Goto(t, "ckptlog")
  /\ UNCHANGED <<log, meta, memory, mode, todo, txn, rec, sessions, history>>

CheckpointLog(t) ==
  /\ pc[t] = "ckptlog"
  /\ wal_flush(wal.next - 1)
  /\ Appending(t, PlainRecord(t, "CHECKPOINT"), "ckptend")
  /\ UNCHANGED <<disk, meta, cache, buf, pending, mode, todo, sessions, history>>

FlushCheckpoint(t) ==
  /\ pc[t] = "ckptend"
  /\ wal_flush(wal.next - 1)
  /\ Goto(t, "ckptdone")
  /\ UNCHANGED <<disk, meta, cache, buf, pending, mode, todo, txn, rec, sessions, history>>

EndCheckpoint(t) ==
  /\ pc[t] = "ckptdone"
  /\ wal' = [wal EXCEPT !.checkpointing = FALSE]
  /\ Goto(t, "idle")
  /\ UNCHANGED <<persistent, cache, buf, pending, mode, todo, txn, rec, sessions, history>>

\* The buffer cache writes a dirty page back: an eviction or the flusher.
Steal(p) ==
  /\ cache[p] # disk[p]
  /\ disk' = [disk EXCEPT ![p] = cache[p]]
  /\ UNCHANGED <<log, meta, memory, mode, todo, threads, sessions, history>>

-----------------------------------------------------------------------------
(* The machine: boot, recovery, shutdown, crash. *)

Records == {log[s] : s \in LogSector} \ {None}
SeenTxns == {r.txn : r \in Records} \ {0}
CommittedTxns == {r.txn : r \in {r \in Records : r.type = "COMMIT"}}
AbortedTxns == {r.txn : r \in {r \in Records : r.type = "ABORT"}}
UncommittedTxns == SeenTxns \ (CommittedTxns \cup AbortedTxns)
WritesOf(T) == {s \in LogSector : log[s] # None /\ log[s].type = "WRITE" /\ log[s].txn \in T}

\* wal_init(false) up to the mark that the session is dirty; after a crash
\* the analysis pass of wal_recover.
Mount ==
  /\ mode = "down"
  /\ IF meta.clean
       THEN /\ mode' = "mounted" /\ todo' = {}
            /\ wal' = [FreshWal EXCEPT !.next = meta.lsn + 1, !.flushed = meta.lsn,
                                       !.txn = meta.txn + 1]
       ELSE /\ mode' = "redo" /\ todo' = WritesOf(CommittedTxns)
            /\ UNCHANGED wal
  /\ UNCHANGED <<persistent, cache, buf, pending, threads, sessions, history>>

\* REDO goes through the log sector by sector.
Redo ==
  LET s == Min(todo) IN
  /\ mode = "redo" /\ todo # {}
  /\ disk' = [disk EXCEPT ![log[s].page] = log[s].new]
  /\ todo' = todo \ {s}
  /\ UNCHANGED <<log, meta, memory, mode, threads, sessions, history>>

\* UNDO collects the records to undo, or gives up for want of memory.
BeginUndo ==
  /\ mode = "redo" /\ todo = {}
  /\ mode' = "undo"
  /\ \/ todo' = WritesOf(UncommittedTxns) /\ UNCHANGED lapse
     \/ MemoryFails /\ todo' = {} /\ lapse' = TRUE
  /\ UNCHANGED <<persistent, memory, threads, sessions, want, writes, maybe, base>>

\* Mutant: from the lowest up.
UndoForward ==
  LET s == CHOOSE s \in todo : \A u \in todo : log[s].lsn <= log[u].lsn IN
  /\ mode = "undo" /\ todo # {}
  /\ disk' = [disk EXCEPT ![log[s].page] = log[s].old]
  /\ todo' = todo \ {s}
  /\ UNCHANGED <<log, meta, memory, mode, threads, sessions, history>>

\* It takes them from the highest LSN down.
Undo ==
  LET s == CHOOSE s \in todo : \A u \in todo : log[s].lsn >= log[u].lsn IN
  /\ mode = "undo" /\ todo # {}
  /\ disk' = [disk EXCEPT ![log[s].page] = log[s].old]
  /\ todo' = todo \ {s}
  /\ UNCHANGED <<log, meta, memory, mode, threads, sessions, history>>

\* The end of wal_recover: the log itself is kept.
EndRecover ==
  LET last == Max({0} \cup {r.lsn : r \in Records}) IN
  /\ mode = "undo" /\ todo = {}
  /\ mode' = "mounted"
  /\ wal' = [FreshWal EXCEPT !.next = last + 1, !.flushed = last,
                             !.txn = Max({0} \cup SeenTxns) + 1]
  /\ UNCHANGED <<persistent, cache, buf, pending, todo, threads, sessions, history>>

\* The end of wal_init: the session is marked dirty and starts.
StartSession ==
  /\ mode = "mounted" /\ sessions < MaxSessions
  /\ mode' = "up" /\ sessions' = sessions + 1
  /\ meta' = [meta EXCEPT !.clean = FALSE]
  /\ cache' = disk /\ want' = disk /\ maybe' = {} /\ base' = wal.flushed
  /\ UNCHANGED <<disk, log, wal, buf, pending, todo, threads, writes, lapse>>

\* filesys_init(true): wal_init(true), then do_format with its wal_init_metadata.
Format ==
  /\ MayFormat /\ mode = "down" /\ sessions < MaxSessions
  /\ mode' = "up" /\ sessions' = sessions + 1
  /\ meta' = [clean |-> TRUE, lsn |-> 0, txn |-> 0]
  /\ wal' = FreshWal
  /\ cache' = [p \in Page |-> Blank] /\ want' = cache' /\ maybe' = {} /\ base' = 0
  /\ lapse' = TRUE
  /\ UNCHANGED <<disk, log, buf, pending, todo, threads, writes>>

\* filesys_done: cache_shutdown, then wal_shutdown.
ShutdownCache ==
  /\ mode = "up"
  /\ mode' = "stopping" /\ disk' = cache
  /\ UNCHANGED <<log, meta, memory, todo, threads, sessions, history>>

PowerOff ==
  /\ mode' = "down" /\ cache' = disk /\ buf' = << >> /\ pending' = FALSE /\ todo' = {}
  /\ pc' = [t \in Thread |-> "idle"] /\ txn' = [t \in Thread |-> NoTxn]
  /\ rec' = [t \in Thread |-> None] /\ writes' = [t \in Thread |-> NoWrites]

ShutdownWal ==
  /\ mode = "stopping"
  /\ wal_flush(wal.next - 1)
  /\ meta' = [clean |-> TRUE, lsn |-> wal.next - 1, txn |-> wal.txn - 1]
  /\ PowerOff
  /\ UNCHANGED <<disk, sessions, want, maybe, base, lapse>>

\* Is thread t in a wal_flush that writes?
Flushing(t) ==
  \/ pc[t] = "drain" /\ FlushNeeded(rec[t].lsn - 1)
  \/ pc[t] = "commit" /\ FlushNeeded(rec[t].lsn)
  \/ pc[t] = "abort" /\ FlushNeeded(txn[t].end)
  \/ pc[t] \in {"ckptlog", "ckptend"} /\ FlushNeeded(wal.next - 1)

Committing(t) ==
  pc[t] \in {"append", "drain", "refill", "commit", "committed"} /\ rec[t].type = "COMMIT"

\* Power fails at any point of a session or a recovery, in a flush after any
\* number of its sectors.
Crash ==
  /\ mode # "down"
  /\ \E n \in 0..Len(buf) :
       /\ n > 0 => mode = "stopping" \/ \E t \in Thread : Flushing(t)
       /\ log' = LogWith(n)
  /\ maybe' = maybe \cup {writes[t] : t \in {t \in Thread : Committing(t)}}
  /\ PowerOff
  /\ wal' = FreshWal
  /\ UNCHANGED <<disk, meta, sessions, want, base, lapse>>

-----------------------------------------------------------------------------
Transact(t) ==
  \/ Begin(t) \/ LogWrite(t) \/ Store(t)
  \/ LogCommit(t) \/ FlushCommit(t) \/ EndCommit(t)
  \/ BeginAbort(t) \/ FlushAbort(t) \/ Rollback(t)
  \/ AppendRecord(t) \/ DrainBuffer(t) \/ RefillBuffer(t)
  \/ BeginCheckpoint(t) \/ CheckpointCache(t) \/ CheckpointLog(t)
  \/ FlushCheckpoint(t) \/ EndCheckpoint(t)

Running ==
  /\ mode \in {"up", "stopping"}
  /\ (\E t \in Thread : PagesOf[t] # {} /\ Transact(t)) \/ (\E p \in Page : Steal(p))

Next ==
  /\ \/ Running
     \/ Mount \/ Redo \/ BeginUndo \/ Undo \/ EndRecover \/ StartSession \/ Format
     \/ ShutdownCache \/ ShutdownWal \/ Crash
  /\ UNCHANGED setup

Spec == Init /\ [][Next]_vars

-----------------------------------------------------------------------------
(* Discipline the code does not impose, and under which it is correct. *)

Up == mode \in {"up", "stopping"}

\* Has page p a WRITE record that no flush has written?
Unlogged(p) ==
  \E i \in 1..Len(buf) :
    buf[i].type = "WRITE" /\ buf[i].page = p /\ buf[i].lsn > wal.flushed

LogFirst == Up => \A p \in Page : disk'[p] # disk[p] => ~Unlogged(p)

\* While a thread drains the full buffer no other appends.
OneAppender ==
  mode' # "down" =>
    \A t, u \in Thread :
      t # u /\ pc[t] \in {"drain", "refill"} /\ pc[u] = "append" => pc'[u] = "append"

\* The machine is shut down when no transaction runs, and none starts then.
QuietShutdown ==
  mode' = "stopping" => \A t \in Thread : pc'[t] = "idle"

SoundSpec == Init /\ [][Next /\ LogFirst /\ OneAppender /\ QuietShutdown]_vars

-----------------------------------------------------------------------------
(* Properties. *)

\* After a mount, with or without a recovery, the pages on disk are as the
\* committed transactions left them: each transaction whose commit returned
\* has its effect, one caught committing by the crash has all or nothing of
\* its effect, and no other transaction has any (wal_recover, wal_init).  This
\* is so of the first session until the log wraps, unless an undo was given
\* up for want of memory or the session began with a format.
FirstSession == sessions <= 1 /\ ~lapse /\ wal.next <= LogSectors + 1

RecoveryExact ==
  mode = "mounted" /\ FirstSession =>
    \E C \in SUBSET maybe :
      \A p \in Page :
        LET W == {w \in C : p \in DOMAIN w}
        IN  IF W = {} THEN disk[p] = want[p] ELSE \E w \in W : disk[p] = w[p]

\* A thread between transactions sees its pages as its last commit left them:
\* wal_txn_abort has undone every write, through the cache, in the same
\* circumstances.
RollbackExact ==
  Up /\ FirstSession => \A t \in Thread : pc[t] = "idle" => \A p \in PagesOf[t] : cache[p] = want[p]

\* No record of the session is lost: those up to flushed_lsn are in their log
\* sectors until the log wraps over them, the later ones are in the buffer
\* (wal_append_record, wal_flush).
NoRecordLost ==
  Up =>
    /\ \A l \in (Max({base, wal.flushed - LogSectors}) + 1)..wal.flushed :
         log[SectorOf(l)] # None /\ log[SectorOf(l)].lsn = l
    /\ \A l \in (wal.flushed + 1)..(wal.next - 1) : \E i \in 1..Len(buf) : buf[i].lsn = l

\* The log is exact: LSNs, buffer and sectors are within their bounds, and no
\* record of the session is lost on its way from wal_append_record through a
\* full buffer, a flush or a checkpoint to its log sector.
LogExact == TypeOK /\ NoRecordLost
=============================================================================

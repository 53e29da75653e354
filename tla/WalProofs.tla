----------------------------- MODULE WalProofs -----------------------------
(***************************************************************************)
(* No record of the log is lost, for any number of threads, any size of    *)
(* the log and of its buffer, as long as one thread at a time drains the   *)
(* full buffer.                                                            *)
(*                                                                         *)
(* wal_append_record numbers a record, finds the buffer full, gives the    *)
(* lock up to flush it and then resets the buffer.  What it relies on when *)
(* it has the lock again is not written anywhere in the code: the number   *)
(* is still the next one, everything before it is on disk, and nobody else *)
(* is in the same place.  The invariant says so, and that the buffer holds *)
(* consecutive numbers up to the last one given; the log has room for a    *)
(* buffer, so a flush overwrites no record of its own.                     *)
(***************************************************************************)
EXTENDS Wal, TLAPS, WellFoundedInduction

\* First-order steps: leaves that compute or rewrite functions cite SMT.
USE Zenon

\* Records as the code makes them: numbered within the bound, a WRITE with
\* its page and both its values.
GoodRecord ==
  {r \in Record : /\ r.lsn <= MaxLsn /\ r.txn <= MaxLsn
                  /\ r.type = "WRITE" => r.page \in Page /\ r.old \in Value /\ r.new \in Value}

\* What a thread is doing fits its record.
RecordFits(t) ==
  /\ pc[t] \in {"append", "drain", "refill"} =>
       /\ rec[t] \in GoodRecord
       /\ txn[t].then \in {"active", "store", "commit", "idle", "ckptend"}
       /\ txn[t].then = "store" => rec[t].type = "WRITE"
  /\ pc[t] = "store" => rec[t] \in GoodRecord /\ rec[t].type = "WRITE"

PersistentOK ==
  /\ disk \in [Page -> Value] /\ log \in [LogSector -> GoodRecord \cup {None}]
  /\ meta \in [clean : BOOLEAN, lsn : 0..MaxLsn, txn : 0..MaxLsn]

\* What wal holds within its bounds.
WalType == [next : 1..(MaxLsn + 1), flushed : Lsn, txn : 1..(MaxLsn + 1), ckpt : Lsn,
            checkpointing : BOOLEAN]

MemoryOK ==
  /\ cache \in [Page -> Value]
  /\ wal \in WalType
  /\ buf \in Seq(GoodRecord) /\ Len(buf) <= BufRecs /\ pending \in BOOLEAN

ModeOK ==
  /\ mode \in {"down", "redo", "undo", "mounted", "up", "stopping"}
  /\ todo \subseteq LogSector
  /\ mode \in {"redo", "undo"} => \A s \in todo : log[s] # None /\ log[s].type = "WRITE"

ThreadsOK ==
  /\ pc \in [Thread -> PC]
  /\ txn \in [Thread -> [id : 0..MaxLsn, first : Lsn, end : Lsn, then : PC]]
  /\ rec \in [Thread -> GoodRecord \cup {None}]
  /\ \A t \in Thread : RecordFits(t)

HistoryOK ==
  /\ sessions \in 0..MaxSessions /\ want \in [Page -> Value]
  /\ writes \in [Thread -> PartialWrites] /\ maybe \subseteq PartialWrites
  /\ base \in Lsn /\ lapse \in BOOLEAN

TypeInv == setup \in Setups /\ PersistentOK /\ MemoryOK /\ ModeOK /\ ThreadsOK /\ HistoryOK

\* The buffer and the numbers of a session.
BufferExact ==
  /\ base <= wal.next - 1 - Len(buf) /\ wal.next - 1 - Len(buf) <= wal.flushed
  /\ wal.flushed < wal.next
  /\ \A i \in 1..Len(buf) : buf[i].lsn = wal.next - 1 - Len(buf) + i

\* The sectors of the log.
SectorsExact ==
  \A l \in Lsn : base < l /\ l <= wal.flushed /\ wal.flushed - LogSectors < l =>
    log[SectorOf(l)] # None /\ log[SectorOf(l)].lsn = l

\* A thread that drains the buffer has the next number; when it comes back
\* everything before is on disk.
DrainExact(t) ==
  /\ pc[t] \in {"drain", "refill"} => rec[t].lsn = wal.next
  /\ pc[t] = "refill" => wal.flushed = wal.next - 1

OneDrains ==
  \A t, u \in Thread : pc[t] \in {"drain", "refill"} /\ pc[u] \in {"drain", "refill"} => t = u

SoundInv ==
  /\ ~Up => buf = << >> /\ \A t \in Thread : pc[t] = "idle"
  /\ mode = "mounted" => wal.next = wal.flushed + 1
  /\ Up => BufferExact /\ SectorsExact /\ (\A t \in Thread : DrainExact(t)) /\ OneDrains

-----------------------------------------------------------------------------
(* Sequences, smallest and largest elements, remainders. *)

LEMMA AppendIs ==
  ASSUME NEW S, NEW s \in Seq(S), NEW e \in S
  PROVE  /\ Append(s, e) \in Seq(S) /\ Len(s) \in Nat /\ Len(Append(s, e)) = Len(s) + 1
         /\ Append(s, e)[Len(s) + 1] = e
         /\ \A i \in 1..Len(s) : Append(s, e)[i] = s[i]
BY SMT

LEMMA NatMin ==
  ASSUME NEW S, S \subseteq Nat, S # {}
  PROVE  \E x \in S : \A y \in S : x <= y
<1>1. PICK x \in S : \A y \in S : ~(<<y, x>> \in OpToRel(<, Nat))
  BY NatLessThanWellFounded, WFMin
<1>2. ASSUME NEW y \in S PROVE x <= y
  <2>1. ~(y < x)
    BY <1>1 DEF OpToRel
  <2> QED
    BY SMT, <2>1
<1> QED
  BY <1>2

LEMMA MinIs ==
  ASSUME NEW S, S \subseteq Nat, S # {}
  PROVE  Min(S) \in S /\ \A y \in S : Min(S) <= y
BY NatMin DEF Min

LEMMA MaxIs ==
  ASSUME NEW n \in Nat, NEW S, S \subseteq 0..n, S # {}
  PROVE  Max(S) \in S /\ \A y \in S : y <= Max(S)
<1> DEFINE T == {n - x : x \in S}
<1>1. T \subseteq Nat /\ T # {}
  <2>1. \A x \in S : n - x \in Nat
    BY SMT
  <2>2. PICK x \in S : TRUE
    OBVIOUS
  <2> QED
    BY <2>1, <2>2
<1>2. PICK z \in T : \A y \in T : z <= y
  BY <1>1, NatMin
<1>3. PICK x \in S : z = n - x
  OBVIOUS
<1>4. ASSUME NEW y \in S PROVE x >= y
  <2>1. n - x <= n - y
    BY <1>2, <1>3
  <2> QED
    BY SMT, <2>1
<1>5. \E m \in S : \A y \in S : m >= y
  BY <1>4
<1>6. Max(S) \in S /\ \A y \in S : Max(S) >= y
  BY <1>5 DEF Max
<1>7. ASSUME NEW y \in S PROVE y <= Max(S)
  BY <1>6
<1> QED
  BY <1>6, <1>7

\* Two numbers with the same remainder are equal or far apart.
LEMMA SameRemainder ==
  ASSUME NEW n \in Nat \ {0}, NEW a \in Int, NEW b \in Int, a % n = b % n, a < b
  PROVE  n <= b - a
<1>1. a = n * (a \div n) + (a % n) /\ b = n * (b \div n) + (b % n)
  BY SMT
<1> DEFINE p == a \div n
           q == b \div n
<1>2. p \in Int /\ q \in Int
  BY SMT
<1>3. b - a = n * (q - p)
  BY SMT, <1>1, <1>2
<1> HIDE DEF p, q
<1>4. q - p >= 1
  BY SMT, <1>2, <1>3
<1>5. n * (q - p) >= n
  BY SMT, <1>2, <1>4
<1> QED
  BY <1>3, <1>5

-----------------------------------------------------------------------------
(* Types. *)

\* The machine's constants.
LEMMA SetupFacts ==
  ASSUME setup \in Setups
  PROVE  /\ LogSectors \in Nat \ {0} /\ BufRecs \in Nat \ {0} /\ BufRecs <= LogSectors
         /\ MaxLsn \in Nat /\ MaxSessions \in Nat /\ PagesOf \in [Thread -> SUBSET Page]
         /\ Blank \in Value
         /\ \A l \in Int : SectorOf(l) \in LogSector
<1>1. setup \in Setup /\ BufRecs \in 1..setup.sectors /\ MaxLsn \in Nat /\ Blank \in Value
  BY WalAssumption
<1>2. LogSectors \in Nat /\ MaxSessions \in Nat /\ PagesOf \in [Thread -> SUBSET Page]
  BY <1>1 DEF Setup, LogSectors, MaxSessions, PagesOf
<1>3. LogSectors \in Nat \ {0} /\ BufRecs \in Nat \ {0} /\ BufRecs <= LogSectors
  BY SMT, <1>1, <1>2 DEF LogSectors
<1>4. ASSUME NEW l \in Int PROVE SectorOf(l) \in LogSector
  BY SMT, <1>3 DEF SectorOf, LogSector
<1> QED
  BY <1>1, <1>2, <1>3, <1>4

\* The type invariant implies the one that is checked.
LEMMA TypesHold == TypeInv => TypeOK
<1> SUFFICES ASSUME TypeInv PROVE TypeOK
  OBVIOUS
<1>1. MaxLsn \in Nat
  BY WalAssumption
<1>2. 0..MaxLsn \subseteq Lsn /\ 1..(MaxLsn + 1) \subseteq Lsn /\ GoodRecord \subseteq Record
  BY SMT, <1>1 DEF Lsn, GoodRecord
<1>3. buf \in Seq(Record)
  BY SMT, <1>2 DEF TypeInv, MemoryOK
<1>4. log \in [LogSector -> Record \cup {None}] /\ rec \in [Thread -> Record \cup {None}]
  BY <1>2 DEF TypeInv, PersistentOK, ThreadsOK
<1>5. meta \in [clean : BOOLEAN, lsn : Lsn, txn : Lsn]
  BY <1>2 DEF TypeInv, PersistentOK
<1>6. wal \in [next : Lsn, flushed : Lsn, txn : Lsn, ckpt : Lsn, checkpointing : BOOLEAN]
  BY <1>2 DEF TypeInv, MemoryOK, WalType
<1>7. txn \in [Thread -> [id : Lsn, first : Lsn, end : Lsn, then : PC]]
  BY <1>2 DEF TypeInv, ThreadsOK
<1> QED
  BY <1>3, <1>4, <1>5, <1>6, <1>7
     DEF TypeInv, PersistentOK, MemoryOK, ModeOK, ThreadsOK, HistoryOK, TypeOK

\* What the first n records of the buffer make of the log.
LEMMA LogWithIs ==
  ASSUME TypeInv, NEW n \in 0..Len(buf), NEW s \in LogSector
  PROVE  \/ LogWith(n)[s] = log[s] /\ \A i \in 1..n : SectorOf(buf[i].lsn) # s
         \/ \E i \in 1..n : SectorOf(buf[i].lsn) = s /\ LogWith(n)[s] = buf[i]
<1> DEFINE I == {i \in 1..n : SectorOf(buf[i].lsn) = s}
<1>1. LogWith(n)[s] = IF I = {} THEN log[s] ELSE buf[Max(I)]
  BY DEF LogWith
<1>2. CASE I = {}
  BY <1>1, <1>2
<1>3. CASE I # {}
  <2>1. Len(buf) \in Nat
    BY SMT DEF TypeInv, MemoryOK
  <2>2. n \in Nat /\ I \subseteq 0..n
    BY SMT, <2>1
  <2>3. Max(I) \in I
    BY <1>3, <2>2, MaxIs
  <2> QED
    BY <1>1, <1>3, <2>3
<1> QED
  BY <1>2, <1>3

LEMMA LogWithType ==
  ASSUME TypeInv, NEW n \in 0..Len(buf)
  PROVE  LogWith(n) \in [LogSector -> GoodRecord \cup {None}]
<1>1. \A i \in 1..n : buf[i] \in GoodRecord
  BY SMT DEF TypeInv, MemoryOK
<1>2. ASSUME NEW s \in LogSector PROVE LogWith(n)[s] \in GoodRecord \cup {None}
  BY SMT, <1>1, LogWithIs DEF TypeInv, PersistentOK
<1>3. LogWith(n) = [s \in LogSector |-> LogWith(n)[s]]
  BY DEF LogWith
<1> QED
  BY <1>2, <1>3

\* wal_flush moves flushed_lsn up, to a number of the buffer.
LEMMA FlushType ==
  ASSUME TypeInv, NEW upTo, wal_flush(upTo)
  PROVE  /\ log' \in [LogSector -> GoodRecord \cup {None}]
         /\ wal' \in WalType
         /\ wal' = [wal EXCEPT !.flushed = wal'.flushed]
<1>m. MaxLsn \in Nat /\ Len(buf) \in Nat
  BY SMT, WalAssumption DEF TypeInv, MemoryOK
<1>w. wal \in WalType
  BY DEF TypeInv, MemoryOK, WalType
<1>1. CASE ~FlushNeeded(upTo)
  BY <1>1, <1>w DEF wal_flush, TypeInv, PersistentOK, WalType
<1>2. CASE FlushNeeded(upTo)
  <2> DEFINE L == {wal.flushed} \cup {buf[i].lsn : i \in 1..Len(buf)}
  <2>1. log' = LogWith(Len(buf)) /\ wal' = [wal EXCEPT !.flushed = Max(L)]
    BY <1>2 DEF wal_flush
  <2>2. L \subseteq 0..(MaxLsn + 1) /\ L # {} /\ MaxLsn + 1 \in Nat
    <3>1. \A i \in 1..Len(buf) : buf[i].lsn \in Lsn
      BY SMT DEF TypeInv, MemoryOK, GoodRecord, Record
    <3>2. wal.flushed \in Lsn
      BY <1>w DEF WalType
    <3> QED
      BY SMT, <1>m, <3>1, <3>2 DEF Lsn
  <2>3. Max(L) \in Lsn
    BY <2>2, MaxIs DEF Lsn
  <2> HIDE DEF L
  <2>4. wal' \in WalType /\ wal' = [wal EXCEPT !.flushed = wal'.flushed]
    BY <1>w, <2>1, <2>3 DEF WalType
  <2>5. Len(buf) \in 0..Len(buf)
    BY SMT, <1>m
  <2>6. log' \in [LogSector -> GoodRecord \cup {None}]
    BY <2>1, <2>5, LogWithType
  <2> QED
    BY <2>4, <2>6
<1> QED
  BY <1>1, <1>2

\* Only the thread that moves has to be looked at.
LEMMA OthersFit ==
  ASSUME ThreadsOK, NEW t \in Thread, pc' \in [Thread -> PC],
         txn' \in [Thread -> [id : 0..MaxLsn, first : Lsn, end : Lsn, then : PC]],
         rec' \in [Thread -> GoodRecord \cup {None}],
         \A u \in Thread : u # t => pc'[u] = pc[u] /\ txn'[u] = txn[u] /\ rec'[u] = rec[u],
         RecordFits(t)'
  PROVE  ThreadsOK'
<1> SUFFICES ASSUME NEW u \in Thread, u # t PROVE RecordFits(u)'
  BY DEF ThreadsOK
<1>1. RecordFits(u)
  BY DEF ThreadsOK
<1> QED
  BY <1>1 DEF RecordFits

\* A thread goes on without a record to append or store.
LEMMA GotoFits ==
  ASSUME ThreadsOK, NEW t \in Thread, NEW x \in PC, Goto(t, x), UNCHANGED <<txn, rec>>,
         x \notin {"append", "drain", "refill", "store"}
  PROVE  ThreadsOK'
<1>1. pc' \in [Thread -> PC] /\ pc'[t] = x /\ \A u \in Thread : u # t => pc'[u] = pc[u]
  BY DEF ThreadsOK, Goto
<1>2. RecordFits(t)'
  BY <1>1 DEF RecordFits
<1> QED
  BY <1>1, <1>2, OthersFit DEF ThreadsOK

\* A thread calls wal_append_record.
LEMMA AppendingFits ==
  ASSUME ThreadsOK, NEW t \in Thread, NEW r \in GoodRecord, NEW x, Appending(t, r, x),
         x \in {"active", "store", "commit", "idle", "ckptend"}, x = "store" => r.type = "WRITE"
  PROVE  ThreadsOK'
<1>1. x \in PC /\ "append" \in PC
  BY DEF PC
<1>2. /\ pc' \in [Thread -> PC] /\ pc'[t] = "append" /\ \A u \in Thread : u # t => pc'[u] = pc[u]
      /\ rec' \in [Thread -> GoodRecord \cup {None}] /\ rec'[t] = r
      /\ \A u \in Thread : u # t => rec'[u] = rec[u]
  BY <1>1 DEF ThreadsOK, Appending, Goto
<1>3. /\ txn' \in [Thread -> [id : 0..MaxLsn, first : Lsn, end : Lsn, then : PC]]
      /\ txn'[t].then = x /\ \A u \in Thread : u # t => txn'[u] = txn[u]
  BY <1>1 DEF ThreadsOK, Appending
<1>4. RecordFits(t)'
  BY <1>2, <1>3 DEF RecordFits
<1> QED
  BY <1>2, <1>3, <1>4, OthersFit

\* The records of a transaction are good ones.
LEMMA PlainFits ==
  ASSUME ThreadsOK, NEW t \in Thread, NEW type \in Type \ {"WRITE"}
  PROVE  PlainRecord(t, type) \in GoodRecord
<1>1. MaxLsn \in Nat /\ txn[t].id \in 0..MaxLsn
  BY WalAssumption DEF ThreadsOK
<1>2. 0 \in Lsn /\ txn[t].id \in Lsn /\ 0 <= MaxLsn /\ txn[t].id <= MaxLsn
  BY SMT, <1>1 DEF Lsn
<1>3. PlainRecord(t, type) \in Record
  BY <1>2 DEF PlainRecord, Record
<1> QED
  BY <1>2, <1>3 DEF PlainRecord, GoodRecord

\* The end of wal_append_record.
LEMMA AppendedFits ==
  ASSUME TypeInv, NEW t \in Thread, NEW r \in GoodRecord, NEW b \in Seq(GoodRecord),
         Appended(t, r, b), Len(b) < BufRecs, wal.next <= MaxLsn, UNCHANGED cache,
         txn[t].then \in {"active", "store", "commit", "idle", "ckptend"},
         txn[t].then = "store" => r.type = "WRITE"
  PROVE  MemoryOK' /\ ThreadsOK'
<1>m. MaxLsn \in Nat /\ BufRecs \in Nat
  BY SetupFacts DEF TypeInv
<1>r. r.lsn \in Lsn /\ r.type \in Type
  BY DEF GoodRecord, Record
<1>w. wal \in WalType /\ ThreadsOK
  BY DEF TypeInv, MemoryOK
<1>1. /\ buf' = Append(b, r)
      /\ wal' = [wal EXCEPT !.next = wal.next + 1,
                            !.ckpt = IF r.type = "CHECKPOINT" THEN r.lsn ELSE wal.ckpt]
      /\ pending' \in BOOLEAN
      /\ rec' = [rec EXCEPT ![t] = IF r.type \in {"WRITE", "COMMIT"} THEN r ELSE None]
      /\ txn' = [txn EXCEPT ![t] = IF r.type = "ABORT" THEN NoTxn
                                  ELSE IF r.type = "BEGIN" THEN [txn[t] EXCEPT !.first = r.lsn]
                                  ELSE txn[t]]
      /\ Goto(t, txn[t].then)
  BY DEF Appended, TypeInv, MemoryOK
<1>2. buf' \in Seq(GoodRecord) /\ Len(buf') <= BufRecs
  <2>1. Append(b, r) \in Seq(GoodRecord) /\ Len(Append(b, r)) = Len(b) + 1 /\ Len(b) \in Nat
    BY SMT, AppendIs
  <2> QED
    BY SMT, <1>1, <1>m, <2>1
<1>3. wal' \in WalType
  <2>1. wal.next + 1 \in 1..(MaxLsn + 1)
    BY SMT, <1>m, <1>w DEF WalType
  <2> QED
    BY <1>1, <1>r, <1>w, <2>1 DEF WalType
<1>4. MemoryOK'
  BY <1>1, <1>2, <1>3 DEF TypeInv, MemoryOK
<1>5. /\ pc' \in [Thread -> PC] /\ pc'[t] = txn[t].then
      /\ \A u \in Thread : u # t => pc'[u] = pc[u]
      /\ rec' \in [Thread -> GoodRecord \cup {None}]
      /\ r.type \in {"WRITE", "COMMIT"} => rec'[t] = r
      /\ \A u \in Thread : u # t => rec'[u] = rec[u]
  BY <1>1, <1>w DEF ThreadsOK, Goto, PC
<1>6. txn' \in [Thread -> [id : 0..MaxLsn, first : Lsn, end : Lsn, then : PC]]
  <2>1. NoTxn \in [id : 0..MaxLsn, first : Lsn, end : Lsn, then : PC]
    BY SMT, <1>m DEF NoTxn, Lsn, PC
  <2> DEFINE T == [id : 0..MaxLsn, first : Lsn, end : Lsn, then : PC]
             x == IF r.type = "ABORT" THEN NoTxn
                  ELSE IF r.type = "BEGIN" THEN [txn[t] EXCEPT !.first = r.lsn] ELSE txn[t]
  <2>2. txn \in [Thread -> T] /\ txn[t] \in T
    BY <1>w DEF ThreadsOK
  <2>3. x \in T
    BY <1>r, <2>1, <2>2
  <2>4. txn' = [txn EXCEPT ![t] = x]
    BY <1>1
  <2> HIDE DEF T, x
  <2>5. txn' \in [Thread -> T]
    BY <2>2, <2>3, <2>4
  <2> QED
    BY <2>5 DEF T
<1>7. \A u \in Thread : u # t => txn'[u] = txn[u]
  BY <1>1, <1>w DEF ThreadsOK
<1>8. RecordFits(t)'
  BY <1>5 DEF RecordFits
<1>9. ThreadsOK'
  BY <1>5, <1>6, <1>7, <1>8, <1>w, OthersFit
<1> QED
  BY <1>4, <1>9

\* What a thread's step keeps.
LEMMA TransactTypes ==
  ASSUME TypeInv, UNCHANGED setup, mode \in {"up", "stopping"}, NEW t \in Thread, Transact(t)
  PROVE  TypeInv'
<1>s. /\ setup' \in Setups /\ LogSector' = LogSector /\ MaxSessions' = MaxSessions
      /\ MaxLsn \in Nat /\ BufRecs \in Nat \ {0} /\ PagesOf[t] \subseteq Page
  BY SetupFacts DEF TypeInv, LogSector, LogSectors, MaxSessions
<1>t. /\ PersistentOK /\ MemoryOK /\ ModeOK /\ ThreadsOK /\ HistoryOK
      /\ RecordFits(t) /\ wal \in WalType
      /\ pc \in [Thread -> PC] /\ rec \in [Thread -> GoodRecord \cup {None}]
      /\ txn \in [Thread -> [id : 0..MaxLsn, first : Lsn, end : Lsn, then : PC]]
  BY DEF TypeInv, MemoryOK, ThreadsOK
<1>p. ASSUME UNCHANGED persistent PROVE PersistentOK'
  BY <1>p, <1>s, <1>t DEF persistent, PersistentOK
<1>m. ASSUME UNCHANGED memory PROVE MemoryOK'
  BY <1>m, <1>t DEF memory, MemoryOK
<1>h. ASSUME UNCHANGED <<sessions, history>> PROVE HistoryOK'
  BY <1>h, <1>s, <1>t DEF history, HistoryOK
<1>d. ASSUME UNCHANGED <<mode, todo>> PROVE ModeOK'
  BY <1>d, <1>s, <1>t DEF ModeOK
<1>f. ASSUME NEW upTo, wal_flush(upTo), UNCHANGED <<disk, meta, cache, buf, pending>>
      PROVE  PersistentOK' /\ MemoryOK'
  <2>1. log' \in [LogSector -> GoodRecord \cup {None}] /\ wal' \in WalType
    BY <1>f, FlushType
  <2> QED
    BY <1>f, <1>s, <1>t, <2>1 DEF PersistentOK, MemoryOK
<1>n. NoTxn \in [id : 0..MaxLsn, first : Lsn, end : Lsn, then : PC] /\ NoWrites \in PartialWrites
  <2>1. NoTxn \in [id : 0..MaxLsn, first : Lsn, end : Lsn, then : PC]
    BY SMT, <1>s DEF NoTxn, Lsn, PC
  <2>2. NoWrites \in [{} -> Value] /\ {} \in SUBSET Page
    BY DEF NoWrites
  <2> QED
    BY <2>1, <2>2 DEF PartialWrites
<1>1. CASE Begin(t)
  <2> DEFINE r == [PlainRecord(t, "BEGIN") EXCEPT !.txn = wal.txn]
  <2>1. wal.txn \in 1..(MaxLsn + 1) /\ wal.txn <= MaxLsn
    BY <1>1, <1>t DEF Begin, WalType
  <2>2. wal.txn \in 0..MaxLsn /\ wal.txn \in Lsn /\ wal.txn + 1 \in 1..(MaxLsn + 1)
    BY SMT, <1>s, <2>1 DEF Lsn
  <2>3. PlainRecord(t, "BEGIN") \in GoodRecord /\ PlainRecord(t, "BEGIN").type = "BEGIN"
    BY <1>t, PlainFits DEF Type, PlainRecord
  <2>4. r \in GoodRecord
    <3>1. r \in Record
      BY <2>2, <2>3 DEF GoodRecord, Record
    <3>2. r.lsn <= MaxLsn /\ r.txn <= MaxLsn /\ r.type = "BEGIN"
      BY <2>1, <2>3 DEF GoodRecord, Record
    <3> QED
      BY <3>1, <3>2 DEF GoodRecord
  <2> HIDE DEF r
  <2>5. wal' \in WalType
    BY <1>1, <1>t, <2>2 DEF Begin, WalType
  <2>6. MemoryOK'
    BY <1>1, <1>t, <2>5 DEF Begin, MemoryOK
  <2>7. /\ pc' \in [Thread -> PC] /\ pc'[t] = "append" /\ \A u \in Thread : u # t => pc'[u] = pc[u]
        /\ rec' \in [Thread -> GoodRecord \cup {None}] /\ rec'[t] = r
        /\ \A u \in Thread : u # t => rec'[u] = rec[u]
    BY <1>1, <1>t, <2>4 DEF Begin, Goto, PC, r
  <2>8. /\ txn' \in [Thread -> [id : 0..MaxLsn, first : Lsn, end : Lsn, then : PC]]
        /\ txn'[t].then = "active" /\ \A u \in Thread : u # t => txn'[u] = txn[u]
    <3> DEFINE T == [id : 0..MaxLsn, first : Lsn, end : Lsn, then : PC]
               x == [txn[t] EXCEPT !.id = wal.txn, !.then = "active"]
    <3>1. txn[t] \in T /\ "active" \in PC
      BY <1>t DEF PC
    <3>2. x \in T /\ x.then = "active"
      BY <2>2, <3>1
    <3>3. txn' = [txn EXCEPT ![t] = x] /\ txn \in [Thread -> T]
      BY <1>1, <1>t DEF Begin
    <3> HIDE DEF T, x
    <3>4. txn' \in [Thread -> T] /\ txn'[t] = x /\ \A u \in Thread : u # t => txn'[u] = txn[u]
      BY <3>2, <3>3
    <3> QED
      BY <3>2, <3>4 DEF T
  <2>9. RecordFits(t)'
    BY <2>4, <2>7, <2>8 DEF RecordFits
  <2>10. ThreadsOK'
    BY <1>t, <2>7, <2>8, <2>9, OthersFit
  <2> QED
    BY <1>1, <1>s, <1>p, <1>h, <1>d, <2>6, <2>10 DEF Begin, TypeInv
<1>2. CASE LogWrite(t)
  <2>1. PICK p \in PagesOf[t], v \in Value :
          Appending(t, [PlainRecord(t, "WRITE") EXCEPT !.page = p, !.old = cache[p], !.new = v],
                    "store")
    BY <1>2 DEF LogWrite
  <2> DEFINE r == [PlainRecord(t, "WRITE") EXCEPT !.page = p, !.old = cache[p], !.new = v]
  <2>2. p \in Page /\ cache[p] \in Value
    BY <1>s, <1>t DEF MemoryOK
  <2>3. txn[t].id \in 0..MaxLsn /\ txn[t].id \in Lsn /\ 0 \in Lsn /\ txn[t].id <= MaxLsn
        /\ 0 <= MaxLsn
    BY SMT, <1>s, <1>t DEF Lsn
  <2>4. r \in GoodRecord /\ r.type = "WRITE"
    <3> DEFINE q == PlainRecord(t, "WRITE")
    <3>1. q \in Record /\ q.lsn = 0 /\ q.txn = txn[t].id /\ q.type = "WRITE"
      BY <2>3 DEF PlainRecord, Record, Type
    <3> HIDE DEF q
    <3>2. ASSUME NEW x \in Page, NEW o \in Value
          PROVE  LET y == [q EXCEPT !.page = x, !.old = o, !.new = v]
                 IN  /\ y \in Record /\ y.lsn = 0 /\ y.txn = txn[t].id /\ y.type = "WRITE"
                     /\ y.page \in Page /\ y.old \in Value /\ y.new \in Value
      BY <3>1 DEF Record
    <3>3. r \in Record /\ r.lsn = 0 /\ r.txn = txn[t].id /\ r.type = "WRITE"
          /\ r.page \in Page /\ r.old \in Value /\ r.new \in Value
      BY <2>2, <3>2 DEF q
    <3> QED
      BY <2>3, <3>3 DEF GoodRecord
  <2> HIDE DEF r
  <2>5. ThreadsOK'
    BY <1>t, <2>1, <2>4, AppendingFits DEF r
  <2> QED
    BY <1>2, <1>s, <1>p, <1>m, <1>h, <1>d, <2>5 DEF LogWrite, TypeInv
<1>3. CASE Store(t)
  <2> DEFINE r == rec[t]
             W == [p \in DOMAIN writes[t] \cup {r.page} |->
                     IF p = r.page THEN r.new ELSE writes[t][p]]
  <2>1. r.page \in Page /\ r.new \in Value
    BY <1>3, <1>t DEF Store, RecordFits, GoodRecord
  <2>2. W \in PartialWrites
    <3>1. writes[t] \in PartialWrites
      BY <1>t DEF HistoryOK
    <3>2. PICK D \in SUBSET Page : writes[t] \in [D -> Value]
      BY <3>1 DEF PartialWrites
    <3>3. W \in [D \cup {r.page} -> Value] /\ D \cup {r.page} \in SUBSET Page
      BY <2>1, <3>2
    <3> HIDE DEF W
    <3> QED
      BY <3>3 DEF PartialWrites
  <2>3. writes' = [writes EXCEPT ![t] = W]
    BY <1>3 DEF Store
  <2> HIDE DEF W
  <2>4. HistoryOK'
    BY <1>3, <1>s, <1>t, <2>2, <2>3 DEF Store, HistoryOK
  <2>5. MemoryOK'
    BY <1>3, <1>t, <2>1 DEF Store, MemoryOK
  <2>6. /\ pc' \in [Thread -> PC] /\ pc'[t] = "active" /\ \A u \in Thread : u # t => pc'[u] = pc[u]
        /\ rec' \in [Thread -> GoodRecord \cup {None}]
        /\ \A u \in Thread : u # t => rec'[u] = rec[u]
    BY <1>3, <1>t DEF Store, Goto, PC
  <2>7. RecordFits(t)'
    BY <2>6 DEF RecordFits
  <2>8. ThreadsOK'
    BY <1>3, <1>t, <2>6, <2>7, OthersFit DEF Store
  <2> QED
    BY <1>3, <1>s, <1>p, <1>d, <2>4, <2>5, <2>8 DEF Store, TypeInv
<1>4. CASE LogCommit(t)
  <2>1. PlainRecord(t, "COMMIT") \in GoodRecord
    BY <1>t, PlainFits DEF Type
  <2>2. ThreadsOK'
    BY <1>4, <1>t, <2>1, AppendingFits DEF LogCommit
  <2> QED
    BY <1>4, <1>s, <1>p, <1>m, <1>h, <1>d, <2>2 DEF LogCommit, TypeInv
<1>5. CASE FlushCommit(t)
  <2>1. ThreadsOK'
    BY <1>5, <1>t, GotoFits DEF FlushCommit, PC
  <2>2. PersistentOK' /\ MemoryOK'
    BY <1>5, <1>f DEF FlushCommit
  <2> QED
    BY <1>5, <1>s, <1>h, <1>d, <2>1, <2>2 DEF FlushCommit, TypeInv
<1>6. CASE EndCommit(t)
  <2>1. want' \in [Page -> Value]
    <3>1. PICK D \in SUBSET Page : writes[t] \in [D -> Value]
      BY SMT, <1>t DEF HistoryOK, PartialWrites
    <3>2. want \in [Page -> Value]
      BY <1>t DEF HistoryOK
    <3>3. Overlay(writes[t], want) \in [Page -> Value]
      BY <3>1, <3>2 DEF Overlay
    <3> QED
      BY <1>6, <3>3 DEF EndCommit
  <2>2. HistoryOK'
    BY <1>6, <1>s, <1>t, <1>n, <2>1 DEF EndCommit, HistoryOK
  <2>3. /\ pc' \in [Thread -> PC] /\ pc'[t] \in {"ckpt", "idle"}
        /\ \A u \in Thread : u # t => pc'[u] = pc[u]
        /\ rec' \in [Thread -> GoodRecord \cup {None}]
        /\ \A u \in Thread : u # t => rec'[u] = rec[u]
    BY <1>6, <1>t DEF EndCommit, Goto, PC
  <2>4. /\ txn' \in [Thread -> [id : 0..MaxLsn, first : Lsn, end : Lsn, then : PC]]
        /\ \A u \in Thread : u # t => txn'[u] = txn[u]
    BY <1>6, <1>t, <1>n DEF EndCommit
  <2>5. RecordFits(t)'
    BY <2>3 DEF RecordFits
  <2>6. ThreadsOK'
    BY <1>t, <2>3, <2>4, <2>5, OthersFit
  <2> QED
    BY <1>6, <1>s, <1>p, <1>m, <1>d, <2>2, <2>6 DEF EndCommit, TypeInv
<1>g. ASSUME GiveUp(t) PROVE TypeInv'
  <2>1. HistoryOK'
    BY <1>g, <1>s, <1>t, <1>n DEF GiveUp, HistoryOK
  <2>2. pc' \in [Thread -> PC] /\ pc'[t] = "idle" /\ \A u \in Thread : u # t => pc'[u] = pc[u]
    BY <1>g, <1>t DEF GiveUp, Goto, PC
  <2>3. /\ txn' \in [Thread -> [id : 0..MaxLsn, first : Lsn, end : Lsn, then : PC]]
        /\ \A u \in Thread : u # t => txn'[u] = txn[u]
    BY <1>g, <1>t, <1>n DEF GiveUp
  <2>4. RecordFits(t)'
    BY <2>2 DEF RecordFits
  <2>5. ThreadsOK'
    BY <1>g, <1>t, <2>2, <2>3, <2>4, OthersFit DEF GiveUp
  <2> QED
    BY <1>g, <1>s, <1>p, <1>m, <1>d, <2>1, <2>5 DEF GiveUp, TypeInv
<1>7. CASE BeginAbort(t)
  <2>1. CASE GiveUp(t)
    BY <1>g, <2>1
  <2>2. CASE /\ txn' = [txn EXCEPT ![t].end = wal.next]
             /\ Goto(t, "abort")
             /\ UNCHANGED <<persistent, memory, mode, todo, rec, sessions, history>>
    <3>1. wal.next \in Lsn
      BY SMT, <1>s, <1>t DEF WalType, Lsn
    <3>2. pc' \in [Thread -> PC] /\ pc'[t] = "abort" /\ \A u \in Thread : u # t => pc'[u] = pc[u]
      BY <1>t, <2>2 DEF Goto, PC
    <3>3. /\ txn' \in [Thread -> [id : 0..MaxLsn, first : Lsn, end : Lsn, then : PC]]
          /\ \A u \in Thread : u # t => txn'[u] = txn[u]
      BY <1>t, <2>2, <3>1
    <3>4. RecordFits(t)'
      BY <3>2 DEF RecordFits
    <3>5. ThreadsOK'
      BY <1>t, <2>2, <3>2, <3>3, <3>4, OthersFit
    <3> QED
      BY <1>s, <1>p, <1>m, <1>h, <1>d, <2>2, <3>5 DEF TypeInv
  <2> QED
    BY <1>7, <2>1, <2>2 DEF BeginAbort
<1>8. CASE FlushAbort(t)
  <2>1. ThreadsOK'
    BY <1>8, <1>t, GotoFits DEF FlushAbort, PC
  <2>2. PersistentOK' /\ MemoryOK'
    BY <1>8, <1>f DEF FlushAbort
  <2> QED
    BY <1>8, <1>s, <1>h, <1>d, <2>1, <2>2 DEF FlushAbort, TypeInv
<1>9. CASE Rollback(t)
  <2>1. CASE GiveUp(t)
    BY <1>g, <2>1
  <2>2. CASE /\ cache' = Undone(txn[t]) /\ disk' = cache'
             /\ writes' = [writes EXCEPT ![t] = NoWrites]
             /\ Appending(t, PlainRecord(t, "ABORT"), "idle")
             /\ UNCHANGED <<log, meta, wal, buf, pending, mode, todo, sessions, want, maybe, base,
                            lapse>>
    <3>1. Undone(txn[t]) \in [Page -> Value]
      <4> DEFINE x == txn[t]
      <4>1. x.first \in Nat /\ x.end \in Nat
        BY SMT, <1>s, <1>t DEF Lsn
      <4>2. ASSUME NEW p \in Page
            PROVE  LET L == {l \in OwnWrites(x) : log[SectorOf(l)].page = p}
                   IN  (IF L = {} THEN cache[p] ELSE log[SectorOf(Min(L))].old) \in Value
        <5> DEFINE L == {l \in OwnWrites(x) : log[SectorOf(l)].page = p}
        <5>1. cache[p] \in Value
          BY <1>t DEF MemoryOK
        <5>2. CASE L # {}
          <6>1. \A l \in OwnWrites(x) :
                  l \in Nat /\ log[SectorOf(l)] # None /\ log[SectorOf(l)].type = "WRITE"
            BY SMT, <4>1 DEF OwnWrites
          <6>2. L \subseteq Nat /\ L \subseteq OwnWrites(x)
            BY <6>1
          <6>3. /\ Min(L) \in Int /\ log[SectorOf(Min(L))] # None
                /\ log[SectorOf(Min(L))].type = "WRITE"
            <7>1. Min(L) \in L
              BY <5>2, <6>2, MinIs
            <7> HIDE DEF L
            <7>2. Min(L) \in OwnWrites(x)
              BY <6>2, <7>1
            <7> QED
              BY SMT, <6>1, <7>2
          <6>4. SectorOf(Min(L)) \in LogSector
            BY <6>3, SetupFacts DEF TypeInv
          <6>5. log[SectorOf(Min(L))] \in GoodRecord
            BY <1>t, <6>3, <6>4 DEF PersistentOK
          <6> QED
            BY <5>2, <6>3, <6>5 DEF GoodRecord
        <5> QED
          BY <5>1, <5>2
      <4> QED
        BY <4>2 DEF Undone
    <3>2. PlainRecord(t, "ABORT") \in GoodRecord
      BY <1>t, PlainFits DEF Type
    <3>3. ThreadsOK'
      BY <1>t, <2>2, <3>2, AppendingFits
    <3>4. PersistentOK' /\ MemoryOK'
      BY <1>s, <1>t, <2>2, <3>1 DEF PersistentOK, MemoryOK
    <3>5. HistoryOK'
      BY <1>s, <1>t, <1>n, <2>2 DEF HistoryOK
    <3> QED
      BY <1>s, <1>d, <2>2, <3>3, <3>4, <3>5 DEF TypeInv
  <2> QED
    BY <1>9, <2>1, <2>2 DEF Rollback
<1>a. pc[t] \in {"append", "drain", "refill"} =>
        /\ rec[t] \in GoodRecord
        /\ txn[t].then \in {"active", "store", "commit", "idle", "ckptend"}
        /\ txn[t].then = "store" => rec[t].type = "WRITE"
  BY <1>t DEF RecordFits
<1>10. CASE AppendRecord(t)
  <2> DEFINE r == [rec[t] EXCEPT !.lsn = wal.next]
  <2>1. /\ pc[t] = "append" /\ wal.next <= MaxLsn /\ wal.next \in Lsn
        /\ UNCHANGED <<persistent, cache, mode, todo, sessions, history>>
    BY SMT, <1>10, <1>s, <1>t DEF AppendRecord, WalType, Lsn
  <2>2. r \in GoodRecord /\ r.type = rec[t].type
    <3>1. rec[t] \in GoodRecord
      BY <1>a, <2>1
    <3>2. r \in Record /\ r.lsn = wal.next /\ r.txn = rec[t].txn /\ r.type = rec[t].type
          /\ r.page = rec[t].page /\ r.old = rec[t].old /\ r.new = rec[t].new
      BY <2>1, <3>1 DEF GoodRecord, Record
    <3> QED
      BY <2>1, <3>1, <3>2 DEF GoodRecord
  <2>3. CASE Len(buf) < BufRecs /\ Appended(t, r, buf)
    <3>1. buf \in Seq(GoodRecord)
      BY <1>t DEF MemoryOK
    <3> HIDE DEF r
    <3>2. MemoryOK' /\ ThreadsOK'
      BY <1>a, <2>1, <2>2, <2>3, <3>1, AppendedFits
    <3> QED
      BY <1>s, <1>p, <1>h, <1>d, <2>1, <3>2 DEF TypeInv
  <2>4. CASE /\ rec' = [rec EXCEPT ![t] = r] /\ Goto(t, "drain")
             /\ UNCHANGED <<wal, buf, pending, txn>>
    <3> HIDE DEF r
    <3>1. /\ pc' \in [Thread -> PC] /\ pc'[t] = "drain" /\ \A u \in Thread : u # t => pc'[u] = pc[u]
          /\ rec' \in [Thread -> GoodRecord \cup {None}] /\ rec'[t] = r
          /\ \A u \in Thread : u # t => rec'[u] = rec[u]
      BY <1>t, <2>2, <2>4 DEF Goto, PC
    <3>2. RecordFits(t)'
      BY <1>a, <2>1, <2>2, <2>4, <3>1 DEF RecordFits
    <3>3. ThreadsOK'
      BY <1>t, <2>4, <3>1, <3>2, OthersFit
    <3> QED
      BY <1>s, <1>p, <1>m, <1>h, <1>d, <2>1, <2>4, <3>3 DEF TypeInv, memory
  <2> QED
    BY <1>10, <2>3, <2>4 DEF AppendRecord
<1>11. CASE DrainBuffer(t)
  <2>1. pc' \in [Thread -> PC] /\ pc'[t] = "refill" /\ \A u \in Thread : u # t => pc'[u] = pc[u]
    BY <1>11, <1>t DEF DrainBuffer, Goto, PC
  <2>2. RecordFits(t)'
    BY <1>11, <1>a, <2>1 DEF RecordFits, DrainBuffer
  <2>3. ThreadsOK'
    BY <1>11, <1>t, <2>1, <2>2, OthersFit DEF DrainBuffer
  <2>4. PersistentOK' /\ MemoryOK'
    BY <1>11, <1>f DEF DrainBuffer
  <2> QED
    BY <1>11, <1>s, <1>h, <1>d, <2>3, <2>4 DEF DrainBuffer, TypeInv
<1>12. CASE RefillBuffer(t)
  <2>1. << >> \in Seq(GoodRecord) /\ Len(<< >>) < BufRecs
    BY SMT, <1>s
  <2>2. MemoryOK' /\ ThreadsOK'
    BY <1>12, <1>a, <2>1, AppendedFits DEF RefillBuffer
  <2> QED
    BY <1>12, <1>s, <1>p, <1>h, <1>d, <2>2 DEF RefillBuffer, TypeInv
<1>13. CASE BeginCheckpoint(t)
  <2>1. ThreadsOK'
    <3>1. (IF wal.checkpointing THEN "idle" ELSE "ckptflush") \in {"idle", "ckptflush"}
      OBVIOUS
    <3> QED
      BY <1>13, <1>t, <3>1, GotoFits DEF BeginCheckpoint, PC
  <2>2. wal' \in WalType
    BY <1>13, <1>t DEF BeginCheckpoint, WalType
  <2>3. MemoryOK'
    BY <1>13, <1>t, <2>2 DEF BeginCheckpoint, MemoryOK
  <2> QED
    BY <1>13, <1>s, <1>p, <1>h, <1>d, <2>1, <2>3 DEF BeginCheckpoint, TypeInv
<1>14. CASE CheckpointCache(t)
  <2>1. ThreadsOK'
    BY <1>14, <1>t, GotoFits DEF CheckpointCache, PC
  <2>2. PersistentOK'
    BY <1>14, <1>s, <1>t DEF CheckpointCache, PersistentOK, MemoryOK
  <2> QED
    BY <1>14, <1>s, <1>m, <1>h, <1>d, <2>1, <2>2 DEF CheckpointCache, TypeInv
<1>15. CASE CheckpointLog(t)
  <2>1. PlainRecord(t, "CHECKPOINT") \in GoodRecord
    BY <1>t, PlainFits DEF Type
  <2>2. ThreadsOK'
    BY <1>15, <1>t, <2>1, AppendingFits DEF CheckpointLog
  <2>3. PersistentOK' /\ MemoryOK'
    BY <1>15, <1>f DEF CheckpointLog
  <2> QED
    BY <1>15, <1>s, <1>h, <1>d, <2>2, <2>3 DEF CheckpointLog, TypeInv
<1>16. CASE FlushCheckpoint(t)
  <2>1. ThreadsOK'
    BY <1>16, <1>t, GotoFits DEF FlushCheckpoint, PC
  <2>2. PersistentOK' /\ MemoryOK'
    BY <1>16, <1>f DEF FlushCheckpoint
  <2> QED
    BY <1>16, <1>s, <1>h, <1>d, <2>1, <2>2 DEF FlushCheckpoint, TypeInv
<1>17. CASE EndCheckpoint(t)
  <2>1. ThreadsOK'
    BY <1>17, <1>t, GotoFits DEF EndCheckpoint, PC
  <2>2. wal' \in WalType
    BY <1>17, <1>t DEF EndCheckpoint, WalType
  <2>3. MemoryOK'
    BY <1>17, <1>t, <2>2 DEF EndCheckpoint, MemoryOK
  <2> QED
    BY <1>17, <1>s, <1>p, <1>h, <1>d, <2>1, <2>3 DEF EndCheckpoint, TypeInv
<1> QED
  BY <1>1, <1>2, <1>3, <1>4, <1>5, <1>6, <1>7, <1>8, <1>9, <1>10, <1>11, <1>12, <1>13, <1>14,
     <1>15, <1>16, <1>17 DEF Transact

\* The machine stops; the disk, the log and the metadata sector remain.
LEMMA PowerOffTypes ==
  ASSUME TypeInv, UNCHANGED <<setup, disk, sessions, want, base, lapse>>, PowerOff,
         log' \in [LogSector -> GoodRecord \cup {None}], wal' \in WalType,
         meta' \in [clean : BOOLEAN, lsn : 0..MaxLsn, txn : 0..MaxLsn],
         maybe' \subseteq PartialWrites
  PROVE  TypeInv'
<1>s. /\ setup' \in Setups /\ LogSector' = LogSector /\ MaxSessions' = MaxSessions
      /\ MaxLsn \in Nat /\ BufRecs \in Nat \ {0}
  BY SetupFacts DEF TypeInv, LogSector, LogSectors, MaxSessions
<1>n. NoTxn \in [id : 0..MaxLsn, first : Lsn, end : Lsn, then : PC] /\ NoWrites \in PartialWrites
  <2>1. NoTxn \in [id : 0..MaxLsn, first : Lsn, end : Lsn, then : PC]
    BY SMT, <1>s DEF NoTxn, Lsn, PC
  <2>2. NoWrites \in [{} -> Value] /\ {} \in SUBSET Page
    BY DEF NoWrites
  <2> QED
    BY <2>1, <2>2 DEF PartialWrites
<1>1. PersistentOK'
  BY <1>s DEF TypeInv, PersistentOK
<1>2. MemoryOK'
  <2>1. buf' = << >> /\ pending' = FALSE /\ cache' = disk
    BY DEF PowerOff
  <2>2. << >> \in Seq(GoodRecord) /\ Len(<< >>) = 0 /\ 0 <= BufRecs
    BY SMT, <1>s
  <2> QED
    BY <2>1, <2>2 DEF TypeInv, PersistentOK, MemoryOK
<1>3. ModeOK'
  BY DEF PowerOff, ModeOK
<1>4. ThreadsOK'
  <2>1. \A t \in Thread : pc'[t] = "idle"
    BY DEF PowerOff
  <2>2. \A t \in Thread : RecordFits(t)'
    BY <2>1 DEF RecordFits
  <2> QED
    BY <1>n, <2>2 DEF PowerOff, ThreadsOK, PC
<1>5. HistoryOK'
  BY <1>s, <1>n DEF TypeInv, HistoryOK, PowerOff
<1> QED
  BY <1>s, <1>1, <1>2, <1>3, <1>4, <1>5 DEF TypeInv

\* The records of the log are good ones.
LEMMA RecordsGood ==
  ASSUME TypeInv
  PROVE  /\ Records \subseteq GoodRecord
         /\ {0} \cup {r.lsn : r \in Records} \subseteq 0..MaxLsn
         /\ {0} \cup SeenTxns \subseteq 0..MaxLsn
<1>1. Records \subseteq GoodRecord
  BY DEF Records, TypeInv, PersistentOK
<1>2. MaxLsn \in Nat
  BY WalAssumption
<1>3. \A r \in GoodRecord : r.lsn \in 0..MaxLsn /\ r.txn \in 0..MaxLsn
  BY SMT, <1>2 DEF GoodRecord, Record, Lsn
<1>4. 0 \in 0..MaxLsn
  BY SMT, <1>2
<1> QED
  BY <1>1, <1>3, <1>4 DEF SeenTxns

\* What boot, recovery, shutdown and a crash keep.
LEMMA MachineTypes ==
  ASSUME TypeInv, UNCHANGED setup,
         \/ \E p \in Page : Steal(p)
         \/ Mount \/ Redo \/ BeginUndo \/ Undo \/ EndRecover \/ StartSession \/ Format
         \/ ShutdownCache \/ ShutdownWal \/ Crash
  PROVE  TypeInv'
<1>s. /\ setup' \in Setups /\ LogSector' = LogSector /\ MaxSessions' = MaxSessions
      /\ MaxLsn \in Nat /\ MaxSessions \in Nat /\ BufRecs \in Nat \ {0} /\ Blank \in Value
  BY SetupFacts DEF TypeInv, LogSector, LogSectors, MaxSessions
<1>t. PersistentOK /\ MemoryOK /\ ModeOK /\ ThreadsOK /\ HistoryOK /\ wal \in WalType
      /\ meta \in [clean : BOOLEAN, lsn : 0..MaxLsn, txn : 0..MaxLsn]
  BY DEF TypeInv, MemoryOK, PersistentOK
<1>p. ASSUME UNCHANGED persistent PROVE PersistentOK'
  BY <1>p, <1>s, <1>t DEF persistent, PersistentOK
<1>m. ASSUME UNCHANGED memory PROVE MemoryOK'
  BY <1>m, <1>t DEF memory, MemoryOK
<1>h. ASSUME UNCHANGED <<sessions, history>> PROVE HistoryOK'
  BY <1>h, <1>s, <1>t DEF history, HistoryOK
<1>d. ASSUME UNCHANGED <<mode, todo, log>> PROVE ModeOK'
  BY <1>d, <1>s, <1>t DEF ModeOK
<1>u. ASSUME UNCHANGED threads PROVE ThreadsOK'
  <2>1. pc' = pc /\ txn' = txn /\ rec' = rec
    BY <1>u DEF threads
  <2>2. ASSUME NEW t \in Thread, RecordFits(t) PROVE RecordFits(t)'
    BY <2>1, <2>2 DEF RecordFits
  <2> QED
    BY <1>t, <2>1, <2>2 DEF ThreadsOK
<1>w. FreshWal \in WalType /\ \A n \in 0..MaxLsn, x \in 0..MaxLsn :
        [FreshWal EXCEPT !.next = n + 1, !.flushed = n, !.txn = x + 1] \in WalType
  <2>1. FreshWal \in WalType
    BY SMT, <1>s DEF FreshWal, WalType, Lsn
  <2>2. \A n \in 0..MaxLsn : n + 1 \in 1..(MaxLsn + 1) /\ n \in Lsn
    BY SMT, <1>s DEF Lsn
  <2> QED
    BY <2>1, <2>2 DEF WalType
<1>o. \A T : WritesOf(T) \subseteq LogSector
             /\ \A s \in WritesOf(T) : log[s] # None /\ log[s].type = "WRITE"
  BY DEF WritesOf
<1>1. CASE \E p \in Page : Steal(p)
  <2>1. PICK p \in Page : Steal(p)
    BY <1>1
  <2>2. PersistentOK'
    BY <1>s, <1>t, <2>1 DEF Steal, PersistentOK, MemoryOK
  <2> QED
    BY <1>s, <1>m, <1>h, <1>d, <1>u, <2>1, <2>2 DEF Steal, TypeInv
<1>2. CASE Mount
  <2>1. MemoryOK'
    <3>1. wal' \in WalType
      <4>1. meta.lsn \in 0..MaxLsn /\ meta.txn \in 0..MaxLsn
        BY <1>t
      <4>2. [FreshWal EXCEPT !.next = meta.lsn + 1, !.flushed = meta.lsn, !.txn = meta.txn + 1]
              \in WalType
        BY <1>w, <4>1
      <4>3. wal' = wal \/ wal' = [FreshWal EXCEPT !.next = meta.lsn + 1, !.flushed = meta.lsn,
                                                 !.txn = meta.txn + 1]
        BY <1>2 DEF Mount
      <4> QED
        BY <1>t, <4>2, <4>3
    <3> QED
      BY <1>2, <1>t, <3>1 DEF Mount, MemoryOK
  <2>2. ModeOK'
    <3>1. CASE meta.clean
      BY <1>2, <3>1 DEF Mount, ModeOK
    <3>2. CASE ~meta.clean
      BY <1>2, <1>o, <1>s, <3>2 DEF Mount, ModeOK, persistent
    <3> QED
      BY <3>1, <3>2
  <2> QED
    BY <1>2, <1>s, <1>p, <1>h, <1>u, <2>1, <2>2 DEF Mount, TypeInv
<1>r. ASSUME NEW s \in todo, mode \in {"redo", "undo"}
      PROVE  s \in LogSector /\ log[s] \in GoodRecord /\ log[s].page \in Page
             /\ log[s].old \in Value /\ log[s].new \in Value
  <2>1. s \in LogSector /\ log[s] # None /\ log[s].type = "WRITE"
    BY <1>r, <1>t DEF ModeOK
  <2>2. log[s] \in GoodRecord
    BY <1>t, <2>1 DEF PersistentOK
  <2> QED
    BY <2>1, <2>2 DEF GoodRecord
<1>3. CASE Redo
  <2>1. Min(todo) \in todo
    <3>1. todo \subseteq Nat /\ todo # {}
      BY SMT, <1>3, <1>t, SetupFacts DEF Redo, ModeOK, LogSector, TypeInv
    <3> QED
      BY <3>1, MinIs
  <2>2. log[Min(todo)].new \in Value
    BY <1>3, <1>r, <2>1 DEF Redo
  <2>3. PersistentOK'
    BY <1>3, <1>s, <1>t, <2>2 DEF Redo, PersistentOK
  <2>4. ModeOK'
    BY <1>3, <1>s, <1>t DEF Redo, ModeOK
  <2> QED
    BY <1>3, <1>s, <1>m, <1>h, <1>u, <2>3, <2>4 DEF Redo, TypeInv
<1>4. CASE BeginUndo
  <2>1. ModeOK'
    BY <1>4, <1>o, <1>s DEF BeginUndo, ModeOK, persistent
  <2>2. HistoryOK'
    BY <1>4, <1>s, <1>t DEF BeginUndo, HistoryOK
  <2> QED
    BY <1>4, <1>s, <1>p, <1>m, <1>u, <2>1, <2>2 DEF BeginUndo, TypeInv
<1>5. CASE Undo
  <2> DEFINE s == CHOOSE s \in todo : \A u \in todo : log[s].lsn >= log[u].lsn
  <2>1. s \in todo
    <3> DEFINE L == {log[u].lsn : u \in todo}
    <3>1. L \subseteq 0..MaxLsn /\ L # {}
      <4>1. todo # {} /\ mode = "undo"
        BY <1>5 DEF Undo
      <4>2. \A u \in todo : log[u] \in GoodRecord
        BY <1>r, <4>1
      <4>3. \A r \in GoodRecord : r.lsn \in 0..MaxLsn
        BY SMT, <1>s DEF GoodRecord, Record, Lsn
      <4> QED
        BY <4>1, <4>2, <4>3
    <3>2. Max(L) \in L /\ \A y \in L : y <= Max(L)
      BY <1>s, <3>1, MaxIs
    <3>3. PICK v \in todo : log[v].lsn = Max(L)
      BY <3>2
    <3>4. ASSUME NEW u \in todo PROVE log[v].lsn >= log[u].lsn
      <4>1. log[u].lsn \in L /\ log[v].lsn \in L
        OBVIOUS
      <4>2. log[u].lsn \in Int /\ log[v].lsn \in Int
        BY SMT, <3>1, <4>1
      <4>3. log[u].lsn <= log[v].lsn
        BY <3>2, <3>3, <4>1
      <4> QED
        BY <4>2, <4>3
    <3> QED
      BY <3>4
  <2> HIDE DEF s
  <2>2. disk' = [disk EXCEPT ![log[s].page] = log[s].old] /\ todo' = todo \ {s}
    BY <1>5 DEF Undo, s
  <2>3. log[s].old \in Value
    BY <1>5, <1>r, <2>1 DEF Undo
  <2>4. PersistentOK'
    BY <1>5, <1>s, <1>t, <2>2, <2>3 DEF Undo, PersistentOK
  <2>5. ModeOK'
    BY <1>5, <1>s, <1>t, <2>2 DEF Undo, ModeOK
  <2> QED
    BY <1>5, <1>s, <1>m, <1>h, <1>u, <2>4, <2>5 DEF Undo, TypeInv
<1>6. CASE EndRecover
  <2> DEFINE L == {0} \cup {r.lsn : r \in Records}
             X == {0} \cup SeenTxns
  <2>1. L \subseteq 0..MaxLsn /\ X \subseteq 0..MaxLsn
    BY RecordsGood
  <2>2. L # {} /\ X # {}
    OBVIOUS
  <2>3. wal' = [FreshWal EXCEPT !.next = Max(L) + 1, !.flushed = Max(L), !.txn = Max(X) + 1]
    BY <1>6 DEF EndRecover
  <2> HIDE DEF L, X
  <2>4. Max(L) \in 0..MaxLsn /\ Max(X) \in 0..MaxLsn
    BY <1>s, <2>1, <2>2, MaxIs
  <2>5. wal' \in WalType
    BY <1>w, <2>3, <2>4
  <2>6. MemoryOK'
    BY <1>6, <1>t, <2>5 DEF EndRecover, MemoryOK
  <2>7. ModeOK'
    BY <1>6, <1>s, <1>t DEF EndRecover, ModeOK
  <2> QED
    BY <1>6, <1>s, <1>p, <1>h, <1>u, <2>6, <2>7 DEF EndRecover, TypeInv
<1>7. CASE StartSession
  <2>1. PersistentOK'
    BY <1>7, <1>s, <1>t DEF StartSession, PersistentOK
  <2>2. MemoryOK'
    BY <1>7, <1>t DEF StartSession, MemoryOK, PersistentOK
  <2>3. ModeOK'
    BY <1>7, <1>s, <1>t DEF StartSession, ModeOK
  <2>4. HistoryOK'
    <3>1. sessions + 1 \in 0..MaxSessions
      BY SMT, <1>7, <1>s, <1>t DEF StartSession, HistoryOK
    <3>2. wal.flushed \in Lsn
      BY <1>t DEF WalType
    <3> QED
      BY <1>7, <1>s, <1>t, <3>1, <3>2 DEF StartSession, HistoryOK, PersistentOK
  <2>5. ThreadsOK'
    BY <1>7, <1>u DEF StartSession
  <2> QED
    BY <1>s, <2>1, <2>2, <2>3, <2>4, <2>5 DEF TypeInv
<1>8. CASE Format
  <2>1. PersistentOK'
    BY SMT, <1>8, <1>s, <1>t DEF Format, PersistentOK
  <2>c. cache' = [p \in Page |-> Blank]
    BY <1>8 DEF Format
  <2>2. cache' \in [Page -> Value]
    <3>1. Blank \in Value
      BY <1>s
    <3> QED
      BY <2>c, <3>1
  <2>3. MemoryOK'
    BY <1>8, <1>t, <1>w, <2>2 DEF Format, MemoryOK
  <2>4. ModeOK'
    BY <1>8, <1>s, <1>t DEF Format, ModeOK
  <2>5. HistoryOK'
    <3>1. sessions + 1 \in 0..MaxSessions /\ 0 \in Lsn
      BY SMT, <1>8, <1>s, <1>t DEF Format, HistoryOK, Lsn
    <3> QED
      BY <1>8, <1>s, <1>t, <2>2, <3>1 DEF Format, HistoryOK
  <2>6. ThreadsOK'
    BY <1>8, <1>u DEF Format
  <2> QED
    BY <1>s, <2>1, <2>3, <2>4, <2>5, <2>6 DEF TypeInv
<1>9. CASE ShutdownCache
  <2>1. PersistentOK'
    BY <1>9, <1>s, <1>t DEF ShutdownCache, PersistentOK, MemoryOK
  <2>2. ModeOK'
    BY <1>9, <1>s, <1>t DEF ShutdownCache, ModeOK
  <2> QED
    BY <1>9, <1>s, <1>m, <1>h, <1>u, <2>1, <2>2 DEF ShutdownCache, TypeInv
<1>10. CASE ShutdownWal
  <2>1. wal_flush(wal.next - 1) /\ wal.next - 1 \in 0..MaxLsn /\ wal.txn - 1 \in 0..MaxLsn
    BY SMT, <1>10, <1>s, <1>t DEF ShutdownWal, WalType
  <2>2. log' \in [LogSector -> GoodRecord \cup {None}] /\ wal' \in WalType
    BY <1>s, <2>1, FlushType
  <2>3. meta' \in [clean : BOOLEAN, lsn : 0..MaxLsn, txn : 0..MaxLsn]
    BY <1>10, <2>1 DEF ShutdownWal
  <2>4. UNCHANGED <<setup, disk, sessions, want, base, lapse>> /\ maybe' = maybe /\ PowerOff
    BY <1>10 DEF ShutdownWal
  <2>5. maybe' \subseteq PartialWrites
    BY <1>t, <2>4 DEF HistoryOK
  <2> QED
    BY <2>2, <2>3, <2>4, <2>5, PowerOffTypes
<1>11. CASE Crash
  <2>1. PICK n \in 0..Len(buf) : log' = LogWith(n)
    BY <1>11 DEF Crash
  <2>2. log' \in [LogSector -> GoodRecord \cup {None}]
    BY <2>1, LogWithType
  <2>3. maybe' \subseteq PartialWrites
    BY <1>11, <1>t DEF Crash, HistoryOK
  <2>4. UNCHANGED <<setup, disk, sessions, want, base, lapse>> /\ PowerOff /\ wal' = FreshWal
        /\ UNCHANGED meta
    BY <1>11 DEF Crash
  <2> QED
    BY <1>t, <1>w, <2>2, <2>3, <2>4, PowerOffTypes
<1> QED
  BY <1>1, <1>2, <1>3, <1>4, <1>5, <1>6, <1>7, <1>8, <1>9, <1>10, <1>11

LEMMA InitTypes == Init => TypeInv
<1> SUFFICES ASSUME Init PROVE TypeInv
  OBVIOUS
<1>s. setup \in Setups /\ MaxLsn \in Nat /\ MaxSessions \in Nat /\ BufRecs \in Nat \ {0} /\ Blank \in Value
  BY SetupFacts DEF Init
<1>1. NoTxn \in [id : 0..MaxLsn, first : Lsn, end : Lsn, then : PC]
  BY SMT, <1>s DEF NoTxn, Lsn, PC
<1>2. NoWrites \in PartialWrites
  <2>1. NoWrites \in [{} -> Value] /\ {} \in SUBSET Page
    BY DEF NoWrites
  <2> QED
    BY <2>1 DEF PartialWrites
<1>3. FreshWal \in WalType
  BY SMT, <1>s DEF FreshWal, WalType, Lsn
<1>4. PersistentOK
  BY SMT, <1>s DEF Init, PersistentOK
<1>5. MemoryOK
  <2>1. disk = [p \in Page |-> Blank] /\ cache = disk /\ wal = FreshWal /\ buf = << >> /\ pending = FALSE
    BY DEF Init
  <2>2. << >> \in Seq(GoodRecord) /\ Len(<< >>) = 0 /\ 0 <= BufRecs
    BY SMT, <1>s
  <2>3. cache \in [Page -> Value]
    BY <1>s, <2>1
  <2> QED
    BY <1>3, <2>1, <2>2, <2>3 DEF MemoryOK
<1>6. ModeOK
  BY DEF Init, ModeOK
<1>7. ThreadsOK
  BY <1>1 DEF Init, ThreadsOK, RecordFits, PC
<1>8. HistoryOK
  <2>1. /\ disk = [p \in Page |-> Blank] /\ want = disk /\ sessions = 0 /\ maybe = {} /\ base = 0
        /\ writes = [t \in Thread |-> NoWrites] /\ lapse = FALSE
    BY DEF Init
  <2>2. want \in [Page -> Value]
    BY <1>s, <2>1
  <2>3. 0 \in Lsn /\ 0 \in 0..MaxSessions
    BY SMT, <1>s DEF Lsn
  <2> QED
    BY <1>2, <2>1, <2>2, <2>3 DEF HistoryOK
<1> QED
  BY <1>s, <1>4, <1>5, <1>6, <1>7, <1>8 DEF TypeInv

LEMMA TypeStep == TypeInv /\ [Next]_vars => TypeInv'
<1> SUFFICES ASSUME TypeInv, [Next]_vars PROVE TypeInv'
  OBVIOUS
<1>1. CASE mode \in {"up", "stopping"} /\ UNCHANGED setup /\ \E t \in Thread : Transact(t)
  BY <1>1, TransactTypes
<1>2. CASE UNCHANGED vars
  BY <1>2 DEF vars, persistent, memory, threads, history, TypeInv, PersistentOK, MemoryOK, ModeOK,
              ThreadsOK, RecordFits, HistoryOK, LogSector, LogSectors, MaxSessions
<1>3. CASE /\ UNCHANGED setup
           /\ \/ \E p \in Page : Steal(p)
              \/ Mount \/ Redo \/ BeginUndo \/ Undo \/ EndRecover \/ StartSession \/ Format
              \/ ShutdownCache \/ ShutdownWal \/ Crash
  BY <1>3, MachineTypes
<1> QED
  BY <1>1, <1>2, <1>3 DEF Next, Running

\* Every record, number and buffer of the log stays within its bounds,
\* whatever the threads, the cache and the power do.
THEOREM LogTypes == Spec => []TypeOK
<1>1. Init => TypeInv
  BY InitTypes
<1>2. TypeInv /\ [Next]_vars => TypeInv'
  BY TypeStep
<1>3. TypeInv => TypeOK
  BY TypesHold
<1> QED
  BY <1>1, <1>2, <1>3, PTL DEF Spec

-----------------------------------------------------------------------------
(* The buffer and the sectors. *)

\* The numbers of a session.
LEMMA Numbers ==
  ASSUME TypeInv
  PROVE  /\ wal.next \in Nat /\ wal.flushed \in Nat /\ base \in Nat /\ Len(buf) \in Nat
         /\ LogSectors \in Nat \ {0} /\ BufRecs \in Nat \ {0} /\ MaxLsn \in Nat
         /\ Len(buf) <= BufRecs /\ BufRecs <= LogSectors /\ Len(buf) <= LogSectors
         /\ wal.next <= MaxLsn + 1
<1>1. MaxLsn \in Nat /\ LogSectors \in Nat \ {0} /\ BufRecs \in Nat \ {0} /\ BufRecs <= LogSectors
  BY SetupFacts DEF TypeInv
<1>2. wal.next \in 1..(MaxLsn + 1) /\ wal.flushed \in Lsn
  BY DEF TypeInv, MemoryOK, WalType
<1>3. base \in Lsn /\ Len(buf) \in Nat /\ Len(buf) <= BufRecs
  BY SMT DEF TypeInv, MemoryOK, HistoryOK
<1> QED
  BY SMT, <1>1, <1>2, <1>3 DEF Lsn

\* What a flush that is needed does: everything numbered is on disk, and the
\* log still has the last records before.
LEMMA FlushAll ==
  ASSUME TypeInv, BufferExact, SectorsExact, buf # << >>
  PROVE  /\ Max({wal.flushed} \cup {buf[i].lsn : i \in 1..Len(buf)}) = wal.next - 1
         /\ \A l \in Lsn : base < l /\ l <= wal.next - 1 /\ wal.next - 1 - LogSectors < l =>
              LogWith(Len(buf))[SectorOf(l)] # None /\ LogWith(Len(buf))[SectorOf(l)].lsn = l
<1> DEFINE n == wal.next - 1
           k == Len(buf)
           L == {wal.flushed} \cup {buf[i].lsn : i \in 1..Len(buf)}
<1>1. /\ n \in Int /\ wal.flushed \in Nat /\ base \in Nat /\ k \in Nat
      /\ LogSectors \in Nat \ {0} /\ MaxLsn \in Nat /\ k <= LogSectors /\ n \in 0..MaxLsn
  <2>1. wal.next \in 1..(MaxLsn + 1)
    BY DEF TypeInv, MemoryOK, WalType
  <2> QED
    BY SMT, <2>1, Numbers
<1>2. k > 0
  <2>1. buf \in Seq(GoodRecord)
    BY DEF TypeInv, MemoryOK
  <2> QED
    BY SMT, <1>1, <2>1
<1>3. /\ base <= n - k /\ n - k <= wal.flushed /\ wal.flushed <= n
      /\ \A i \in 1..k : buf[i].lsn = n - k + i
  BY SMT, <1>1, Numbers DEF BufferExact
<1>4. L \subseteq 0..MaxLsn /\ n \in L /\ \A x \in L : x <= n
  <2>1. \A i \in 1..k : buf[i].lsn \in 0..MaxLsn /\ buf[i].lsn <= n
    BY SMT, <1>1, <1>3
  <2>2. wal.flushed \in 0..MaxLsn /\ wal.flushed <= n
    BY SMT, <1>1, <1>3
  <2>3. k \in 1..k /\ buf[k].lsn = n
    BY SMT, <1>1, <1>2, <1>3
  <2> QED
    BY <2>1, <2>2, <2>3
<1>5. Max(L) = n
  <2> HIDE DEF L, n
  <2>1. Max(L) \in L /\ \A y \in L : y <= Max(L)
    BY <1>1, <1>4, MaxIs
  <2>2. Max(L) \in 0..MaxLsn
    BY <1>4, <2>1
  <2>3. n <= Max(L) /\ Max(L) <= n
    BY <1>4, <2>1
  <2> QED
    BY SMT, <1>1, <2>2, <2>3
<1>6. ASSUME NEW l \in Lsn, base < l, l <= n, n - LogSectors < l
      PROVE  LogWith(k)[SectorOf(l)] # None /\ LogWith(k)[SectorOf(l)].lsn = l
  <2>0. l \in Nat
    BY SMT, <1>1 DEF Lsn
  <2>1. SectorOf(l) \in LogSector
    BY SMT, <2>0, SetupFacts DEF TypeInv
  <2>2. ASSUME NEW i \in 1..k, SectorOf(buf[i].lsn) = SectorOf(l) PROVE buf[i].lsn = l
    <3>1. buf[i].lsn = n - k + i /\ buf[i].lsn \in Int /\ n - k < buf[i].lsn /\ buf[i].lsn <= n
      BY SMT, <1>1, <1>3
    <3> DEFINE m == buf[i].lsn
    <3>2. (m - 1) % LogSectors = (l - 1) % LogSectors
      BY <2>2 DEF SectorOf
    <3> HIDE DEF m, n, k
    <3>3. m \in Int /\ n - k < m /\ m <= n
      BY <3>1 DEF m
    <3>4. CASE m < l
      <4>1. LogSectors <= (l - 1) - (m - 1)
        <5>1. m - 1 < l - 1 /\ m - 1 \in Int /\ l - 1 \in Int
          BY SMT, <2>0, <3>3, <3>4
        <5> QED
          BY <1>1, <3>2, <5>1, SameRemainder
      <4> QED
        BY SMT, <1>1, <1>6, <2>0, <3>3, <4>1
    <3>5. CASE l < m
      <4>1. LogSectors <= (m - 1) - (l - 1)
        <5>1. l - 1 < m - 1 /\ m - 1 \in Int /\ l - 1 \in Int
          BY SMT, <2>0, <3>3, <3>5
        <5> QED
          BY <1>1, <3>2, <5>1, SameRemainder
      <4> QED
        BY SMT, <1>1, <1>6, <2>0, <3>3, <4>1
    <3>6. m = l
      BY SMT, <2>0, <3>3, <3>4, <3>5 DEF m
    <3> QED
      BY <3>6 DEF m
  <2>3. k \in 0..Len(buf) /\ \A i \in 1..k : buf[i] \in GoodRecord /\ buf[i] # None
    <3>1. k \in 0..Len(buf) /\ \A i \in 1..k : buf[i] \in GoodRecord
      BY SMT, <1>1 DEF TypeInv, MemoryOK
    <3>2. None \notin GoodRecord
      BY NoneAssumption DEF GoodRecord
    <3> QED
      BY <3>1, <3>2
  <2>4. CASE \E i \in 1..k : SectorOf(buf[i].lsn) = SectorOf(l) /\ LogWith(k)[SectorOf(l)] = buf[i]
    BY <2>2, <2>3, <2>4
  <2>5. CASE LogWith(k)[SectorOf(l)] = log[SectorOf(l)]
             /\ \A i \in 1..k : SectorOf(buf[i].lsn) # SectorOf(l)
    <3>1. ~(n - k < l)
      <4>1. SUFFICES ASSUME n - k < l PROVE FALSE
        OBVIOUS
      <4>2. l - (n - k) \in 1..k
        BY SMT, <1>1, <1>6, <2>0, <4>1
      <4>3. buf[l - (n - k)].lsn = n - k + (l - (n - k))
        BY <1>3, <4>2
      <4>4. buf[l - (n - k)].lsn = l
        BY SMT, <1>1, <2>0, <4>3
      <4> QED
        BY <2>5, <4>2, <4>4
    <3>2. l <= wal.flushed /\ wal.flushed - LogSectors < l
      BY SMT, <1>1, <1>3, <1>6, <2>0, <3>1
    <3> QED
      BY <1>6, <2>5, <3>2 DEF SectorsExact
  <2> QED
    BY <2>1, <2>3, <2>4, <2>5, LogWithIs
<1> QED
  BY <1>5, <1>6

\* A flush keeps the buffer and the sectors exact; one that asks for the last
\* number leaves nothing to write.
LEMMA FlushSound ==
  ASSUME TypeInv, BufferExact, SectorsExact, UNCHANGED <<setup, buf, base>>,
         NEW upTo, wal_flush(upTo)
  PROVE  /\ BufferExact' /\ SectorsExact' /\ wal'.next = wal.next
         /\ upTo \in Int /\ wal.next - 1 <= upTo => wal'.flushed = wal.next - 1
         /\ wal.flushed = wal.next - 1 => wal'.flushed = wal.next - 1
<1>1. /\ wal.next \in Nat /\ wal.flushed \in Nat /\ base \in Nat /\ Len(buf) \in Nat
      /\ LogSectors \in Nat \ {0} /\ LogSectors' = LogSectors
      /\ \A l : SectorOf(l)' = SectorOf(l)
  BY Numbers DEF LogSectors, SectorOf
<1>2. /\ base <= wal.next - 1 - Len(buf) /\ wal.next - 1 - Len(buf) <= wal.flushed
      /\ wal.flushed < wal.next
      /\ \A i \in 1..Len(buf) : buf[i].lsn = wal.next - 1 - Len(buf) + i
  BY DEF BufferExact
<1>3. CASE ~FlushNeeded(upTo)
  <2>1. UNCHANGED <<log, wal>>
    BY <1>3 DEF wal_flush
  <2>2. ASSUME upTo \in Int, wal.next - 1 <= upTo PROVE wal.flushed = wal.next - 1
    <3>1. upTo <= wal.flushed \/ buf = << >>
      BY SMT, <1>1, <1>3, <2>2 DEF FlushNeeded
    <3>2. CASE buf = << >>
      <4>1. Len(buf) = 0
        BY <3>2
      <4> QED
        BY SMT, <1>1, <1>2, <4>1
    <3>3. CASE upTo <= wal.flushed
      BY SMT, <1>1, <1>2, <2>2, <3>3
    <3> QED
      BY <3>1, <3>2, <3>3
  <2> QED
    BY <1>1, <2>1, <2>2 DEF BufferExact, SectorsExact
<1>4. CASE FlushNeeded(upTo)
  <2>1. /\ log' = LogWith(Len(buf))
        /\ wal' = [wal EXCEPT !.flushed = Max({wal.flushed} \cup {buf[i].lsn : i \in 1..Len(buf)})]
    BY <1>4 DEF wal_flush
  <2>2. buf # << >>
    BY <1>4 DEF FlushNeeded
  <2>3. wal \in WalType
    BY DEF TypeInv, MemoryOK
  <2>4. wal'.flushed = wal.next - 1 /\ wal'.next = wal.next
    BY <2>1, <2>2, <2>3, FlushAll DEF WalType
  <2>5. BufferExact'
    BY SMT, <1>1, <1>2, <2>4 DEF BufferExact
  <2>6. SectorsExact'
    BY <1>1, <2>1, <2>2, <2>4, FlushAll DEF SectorsExact
  <2> QED
    BY <2>4, <2>5, <2>6
<1> QED
  BY <1>3, <1>4

\* A record is appended to a buffer with room, or to one whose records are
\* all on disk.
LEMMA AppendSound ==
  ASSUME TypeInv, BufferExact, SectorsExact, UNCHANGED <<setup, log, base>>,
         NEW t \in Thread, NEW r \in GoodRecord, NEW b \in Seq(GoodRecord), Appended(t, r, b),
         r.lsn = wal.next,
         b = buf \/ (b = << >> /\ wal.flushed = wal.next - 1)
  PROVE  BufferExact' /\ SectorsExact' /\ wal'.next = wal.next + 1 /\ wal'.flushed = wal.flushed
<1>1. /\ wal.next \in Nat /\ wal.flushed \in Nat /\ base \in Nat /\ Len(buf) \in Nat
      /\ LogSectors' = LogSectors /\ \A l : SectorOf(l)' = SectorOf(l)
  BY Numbers DEF LogSectors, SectorOf
<1>2. /\ base <= wal.next - 1 - Len(buf) /\ wal.next - 1 - Len(buf) <= wal.flushed
      /\ wal.flushed < wal.next
      /\ \A i \in 1..Len(buf) : buf[i].lsn = wal.next - 1 - Len(buf) + i
  BY DEF BufferExact
<1>3. wal'.next = wal.next + 1 /\ wal'.flushed = wal.flushed
  <2>1. wal \in WalType
    BY DEF TypeInv, MemoryOK
  <2> QED
    BY <2>1 DEF Appended, WalType
<1>4. /\ base <= wal.next - 1 - Len(b) /\ wal.next - 1 - Len(b) <= wal.flushed
      /\ Len(b) \in Nat
      /\ \A i \in 1..Len(b) : b[i].lsn = wal.next - 1 - Len(b) + i
  <2>1. CASE b = buf
    BY <1>1, <1>2, <2>1
  <2>2. CASE b = << >> /\ wal.flushed = wal.next - 1
    <3>1. Len(b) = 0
      BY <2>2
    <3> QED
      BY SMT, <1>1, <1>2, <2>2, <3>1
  <2> QED
    BY <2>1, <2>2
<1>5. buf' = Append(b, r)
  BY DEF Appended
<1>6. Len(buf') = Len(b) + 1 /\ buf'[Len(b) + 1] = r /\ \A i \in 1..Len(b) : buf'[i] = b[i]
  BY SMT, <1>5, AppendIs
<1>7. ASSUME NEW i \in 1..Len(buf') PROVE buf'[i].lsn = wal'.next - 1 - Len(buf') + i
  <2>1. CASE i \in 1..Len(b)
    <3>1. buf'[i].lsn = wal.next - 1 - Len(b) + i
      BY <1>4, <1>6, <2>1
    <3>2. wal'.next - 1 - Len(buf') = wal.next - 1 - Len(b)
      <4>1. Len(b) \in Nat /\ wal.next \in Nat
        BY <1>1, <1>4
      <4>2. (wal.next + 1) - 1 - (Len(b) + 1) = wal.next - 1 - Len(b)
        BY SMT, <4>1
      <4> QED
        BY <1>3, <1>6, <4>2
    <3> QED
      BY <3>1, <3>2
  <2>2. CASE i = Len(b) + 1
    BY SMT, <1>1, <1>3, <1>4, <1>6, <2>2
  <2> QED
    BY SMT, <1>4, <1>6, <2>1, <2>2
<1>8. BufferExact'
  <2>1. /\ base <= wal.next + 1 - 1 - (Len(b) + 1) /\ wal.next + 1 - 1 - (Len(b) + 1) <= wal.flushed
        /\ wal.flushed < wal.next + 1
    BY SMT, <1>1, <1>2, <1>4
  <2>2. /\ base' <= wal'.next - 1 - Len(buf') /\ wal'.next - 1 - Len(buf') <= wal'.flushed
        /\ wal'.flushed < wal'.next
    BY SMT, <1>1, <1>3, <1>4, <1>6, <2>1
  <2>3. \A i \in 1..Len(buf') : buf'[i].lsn = wal'.next - 1 - Len(buf') + i
    BY <1>7
  <2> QED
    BY <2>2, <2>3 DEF BufferExact
<1>9. SectorsExact'
  BY <1>1, <1>3 DEF SectorsExact
<1> QED
  BY <1>3, <1>8, <1>9

-----------------------------------------------------------------------------
(* Every step keeps it. *)

\* A thread that goes elsewhere than to the full buffer does not disturb the
\* one that is there.
LEMMA DrainKept ==
  ASSUME ThreadsOK, \A u \in Thread : DrainExact(u), OneDrains,
         NEW t \in Thread, NEW w, Goto(t, w), w \notin {"drain", "refill"},
         \A u \in Thread \ {t} : rec'[u] = rec[u], wal'.next = wal.next,
         wal.flushed = wal.next - 1 => wal'.flushed = wal.next - 1
  PROVE  (\A u \in Thread : DrainExact(u)') /\ OneDrains'
<1>1. pc'[t] = w /\ \A u \in Thread \ {t} : pc'[u] = pc[u]
  BY DEF ThreadsOK, Goto
<1>2. ASSUME NEW u \in Thread PROVE DrainExact(u)'
  <2>1. CASE u = t
    BY <1>1, <2>1 DEF DrainExact
  <2>2. CASE u # t
    BY <1>1, <2>2 DEF DrainExact
  <2> QED
    BY <2>1, <2>2
<1>3. OneDrains'
  BY <1>1 DEF OneDrains
<1> QED
  BY <1>2, <1>3

LEMMA TransactSound ==
  ASSUME TypeInv, SoundInv, mode \in {"up", "stopping"}, UNCHANGED setup, OneAppender,
         NEW t \in Thread, Transact(t)
  PROVE  SoundInv'
<1>i. BufferExact /\ SectorsExact /\ (\A u \in Thread : DrainExact(u)) /\ OneDrains
  BY DEF SoundInv, Up
<1>t. ThreadsOK /\ RecordFits(t) /\ wal \in WalType /\ buf \in Seq(GoodRecord)
  BY DEF TypeInv, MemoryOK, ThreadsOK
<1>n. wal.next \in Nat /\ wal.flushed \in Nat
  BY Numbers
<1>s. /\ LogSectors' = LogSectors /\ \A l : SectorOf(l)' = SectorOf(l)
  BY DEF LogSectors, SectorOf
<1>q. ASSUME mode' = mode, BufferExact', SectorsExact', \A u \in Thread : DrainExact(u)', OneDrains'
      PROVE  SoundInv'
  BY <1>q DEF SoundInv, Up
\* Steps that leave the log alone.
<1>c. ASSUME NEW w, Goto(t, w), w \notin {"drain", "refill"},
             \A u \in Thread \ {t} : rec'[u] = rec[u],
             UNCHANGED <<buf, base, log, mode>>, wal'.next = wal.next, wal'.flushed = wal.flushed
      PROVE  SoundInv'
  <2>1. BufferExact'
    BY <1>c, <1>i DEF BufferExact
  <2>2. SectorsExact'
    BY <1>c, <1>i, <1>s DEF SectorsExact
  <2>3. (\A u \in Thread : DrainExact(u)') /\ OneDrains'
    BY <1>c, <1>i, <1>t, DrainKept
  <2> QED
    BY <1>c, <1>q, <2>1, <2>2, <2>3
\* Steps that flush.
<1>f. ASSUME NEW w, Goto(t, w), w \notin {"drain", "refill"},
             \A u \in Thread \ {t} : rec'[u] = rec[u],
             UNCHANGED <<buf, base, mode>>, NEW upTo, wal_flush(upTo)
      PROVE  SoundInv'
  <2>1. /\ BufferExact' /\ SectorsExact' /\ wal'.next = wal.next
        /\ wal.flushed = wal.next - 1 => wal'.flushed = wal.next - 1
    BY <1>f, <1>i, FlushSound
  <2>2. (\A u \in Thread : DrainExact(u)') /\ OneDrains'
    BY <1>f, <1>i, <1>t, <2>1, DrainKept
  <2> QED
    BY <1>f, <1>q, <2>1, <2>2
<1>r. \A x : rec' = [rec EXCEPT ![t] = x] => \A u \in Thread \ {t} : rec'[u] = rec[u]
  BY <1>t DEF ThreadsOK
<1>w. \A b \in BOOLEAN, x \in Int :
        /\ [wal EXCEPT !.checkpointing = b].next = wal.next
        /\ [wal EXCEPT !.checkpointing = b].flushed = wal.flushed
        /\ [wal EXCEPT !.txn = x].next = wal.next
        /\ [wal EXCEPT !.txn = x].flushed = wal.flushed
  BY <1>t DEF WalType
<1>1. CASE Begin(t)
  <2>1. Goto(t, "append") /\ UNCHANGED <<buf, base, log, mode>>
    BY <1>1 DEF Begin, persistent, history
  <2>2. wal'.next = wal.next /\ wal'.flushed = wal.flushed
    BY <1>1, <1>t DEF Begin, WalType
  <2>3. \A u \in Thread \ {t} : rec'[u] = rec[u]
    BY <1>1, <1>r DEF Begin
  <2> QED
    BY <1>c, <2>1, <2>2, <2>3
<1>2. CASE LogWrite(t) \/ LogCommit(t)
  <2>1. Goto(t, "append") /\ UNCHANGED <<buf, base, log, mode, wal>>
    BY <1>2 DEF LogWrite, LogCommit, Appending, persistent, memory, history
  <2>2. \A u \in Thread \ {t} : rec'[u] = rec[u]
    BY <1>2, <1>r DEF LogWrite, LogCommit, Appending
  <2> QED
    BY <1>c, <2>1, <2>2
<1>3. CASE Store(t)
  <2>1. Goto(t, "active") /\ UNCHANGED <<buf, base, log, mode, wal>>
    BY <1>3 DEF Store, persistent
  <2>2. \A u \in Thread \ {t} : rec'[u] = rec[u]
    BY <1>3, <1>r DEF Store
  <2> QED
    BY <1>c, <2>1, <2>2
<1>4. CASE EndCommit(t)
  <2>1. UNCHANGED <<buf, base, log, mode, wal>> /\ (Goto(t, "ckpt") \/ Goto(t, "idle"))
    BY <1>4 DEF EndCommit, persistent, memory
  <2>2. \A u \in Thread \ {t} : rec'[u] = rec[u]
    BY <1>4, <1>r DEF EndCommit
  <2> QED
    BY <1>c, <2>1, <2>2
<1>5. CASE BeginAbort(t)
  <2>1. UNCHANGED <<buf, base, log, mode, wal, rec>> /\ (Goto(t, "abort") \/ Goto(t, "idle"))
    BY <1>5 DEF BeginAbort, GiveUp, persistent, memory, history
  <2> QED
    BY <1>c, <2>1
<1>6. CASE Rollback(t)
  <2>1. UNCHANGED <<buf, base, log, mode, wal>> /\ (Goto(t, "append") \/ Goto(t, "idle"))
    BY <1>6 DEF Rollback, GiveUp, Appending, persistent, memory, history
  <2>2. \A u \in Thread \ {t} : rec'[u] = rec[u]
    BY <1>6, <1>r DEF Rollback, GiveUp, Appending
  <2> QED
    BY <1>c, <2>1, <2>2
<1>7. CASE BeginCheckpoint(t)
  <2>1. UNCHANGED <<buf, base, log, mode, rec>> /\ (Goto(t, "ckptflush") \/ Goto(t, "idle"))
    BY <1>7 DEF BeginCheckpoint, persistent, history
  <2>2. wal'.next = wal.next /\ wal'.flushed = wal.flushed
    BY SMT, <1>7, <1>w DEF BeginCheckpoint
  <2> QED
    BY <1>c, <2>1, <2>2
<1>8. CASE CheckpointCache(t)
  <2>1. UNCHANGED <<buf, base, log, mode, wal, rec>> /\ Goto(t, "ckptlog")
    BY <1>8 DEF CheckpointCache, memory, history
  <2> QED
    BY <1>c, <2>1
<1>9. CASE EndCheckpoint(t)
  <2>1. UNCHANGED <<buf, base, log, mode, rec>> /\ Goto(t, "idle")
    BY <1>9 DEF EndCheckpoint, persistent, history
  <2>2. wal'.next = wal.next /\ wal'.flushed = wal.flushed
    BY SMT, <1>9, <1>w DEF EndCheckpoint
  <2> QED
    BY <1>c, <2>1, <2>2
<1>10. CASE FlushCommit(t)
  <2>1. UNCHANGED <<buf, base, mode, rec>> /\ Goto(t, "committed") /\ wal_flush(rec[t].lsn)
    BY <1>10 DEF FlushCommit, history
  <2> QED
    BY <1>f, <2>1
<1>11. CASE FlushAbort(t)
  <2>1. UNCHANGED <<buf, base, mode, rec>> /\ Goto(t, "rollback") /\ wal_flush(txn[t].end)
    BY <1>11 DEF FlushAbort, history
  <2> QED
    BY <1>f, <2>1
<1>12. CASE CheckpointLog(t)
  <2>1. UNCHANGED <<buf, base, mode>> /\ Goto(t, "append") /\ wal_flush(wal.next - 1)
    BY <1>12 DEF CheckpointLog, Appending, history
  <2>2. \A u \in Thread \ {t} : rec'[u] = rec[u]
    BY <1>12, <1>r DEF CheckpointLog, Appending
  <2> QED
    BY <1>f, <2>1, <2>2
<1>13. CASE FlushCheckpoint(t)
  <2>1. UNCHANGED <<buf, base, mode, rec>> /\ Goto(t, "ckptdone") /\ wal_flush(wal.next - 1)
    BY <1>13 DEF FlushCheckpoint, history
  <2> QED
    BY <1>f, <2>1
\* The full buffer.
<1>14. CASE DrainBuffer(t)
  <2>1. /\ UNCHANGED <<buf, base, mode, rec>> /\ Goto(t, "refill") /\ wal_flush(rec[t].lsn - 1)
        /\ pc[t] = "drain"
    BY <1>14 DEF DrainBuffer, history
  <2>2. rec[t].lsn = wal.next
    BY <1>i, <2>1 DEF DrainExact
  <2>3. wal.next - 1 \in Int /\ wal.next - 1 <= wal.next - 1
    BY SMT, <1>n
  <2>4. BufferExact' /\ SectorsExact' /\ wal'.next = wal.next /\ wal'.flushed = wal.next - 1
    BY <1>i, <2>1, <2>2, <2>3, FlushSound
  <2>5. pc'[t] = "refill" /\ \A u \in Thread \ {t} : pc'[u] = pc[u]
    BY <1>t, <2>1 DEF Goto, ThreadsOK
  <2>6. ASSUME NEW u \in Thread PROVE DrainExact(u)'
    <3>1. CASE u = t
      BY <2>1, <2>2, <2>4, <3>1 DEF DrainExact
    <3>2. CASE u # t
      BY <1>i, <2>1, <2>5, <3>2 DEF OneDrains, DrainExact
    <3> QED
      BY <3>1, <3>2
  <2>7. OneDrains'
    BY <1>i, <2>1, <2>5 DEF OneDrains
  <2> QED
    BY <1>q, <2>1, <2>4, <2>6, <2>7
<1>15. CASE RefillBuffer(t)
  <2>1. /\ UNCHANGED <<base, log, mode>> /\ Appended(t, rec[t], << >>) /\ pc[t] = "refill"
    BY <1>15 DEF RefillBuffer, persistent, history
  <2>2. rec[t].lsn = wal.next /\ wal.flushed = wal.next - 1 /\ rec[t] \in GoodRecord
    BY <1>i, <1>t, <2>1 DEF DrainExact, RecordFits
  <2>3. BufferExact' /\ SectorsExact'
    <3>1. << >> \in Seq(GoodRecord)
      BY SMT
    <3> QED
      BY <1>i, <2>1, <2>2, <3>1, AppendSound
  <2>4. txn[t].then \notin {"drain", "refill"}
    BY <1>t, <2>1 DEF RecordFits
  <2>5. pc'[t] = txn[t].then /\ \A u \in Thread \ {t} : pc'[u] = pc[u]
    BY <1>t, <2>1 DEF Appended, Goto, ThreadsOK
  <2>6. \A u \in Thread : pc'[u] \notin {"drain", "refill"}
    BY <1>i, <2>1, <2>4, <2>5 DEF OneDrains
  <2>7. (\A u \in Thread : DrainExact(u)') /\ OneDrains'
    BY <2>6 DEF DrainExact, OneDrains
  <2> QED
    BY <1>q, <2>1, <2>3, <2>7
<1>16. CASE AppendRecord(t)
  <2>1. UNCHANGED <<base, log, mode>> /\ pc[t] = "append" /\ mode' # "down"
    BY <1>16 DEF AppendRecord, persistent, history
  <2>2. ASSUME NEW u \in Thread \ {t}, pc'[t] # "append" PROVE pc[u] \notin {"drain", "refill"}
    BY <2>1, <2>2 DEF OneAppender
  <2> DEFINE r == [rec[t] EXCEPT !.lsn = wal.next]
  <2>3. r \in GoodRecord /\ r.lsn = wal.next /\ txn[t].then \notin {"drain", "refill", "append"}
    <3>1. rec[t] \in GoodRecord /\ txn[t].then \notin {"drain", "refill", "append"}
      BY <1>t, <2>1 DEF RecordFits
    <3>2. wal.next \in Lsn /\ wal.next <= MaxLsn
      BY SMT, <1>16, <1>n, Numbers DEF AppendRecord, Lsn
    <3> QED
      BY <3>1, <3>2 DEF GoodRecord, Record
  <2>4. CASE Len(buf) < BufRecs
    <3>1. Appended(t, r, buf)
      BY <1>16, <2>4 DEF AppendRecord
    <3> HIDE DEF r
    <3>2. BufferExact' /\ SectorsExact'
      BY <1>i, <1>t, <2>1, <2>3, <3>1, AppendSound
    <3>3. pc'[t] = txn[t].then /\ \A u \in Thread \ {t} : pc'[u] = pc[u]
      BY <1>t, <3>1 DEF Appended, Goto, ThreadsOK
    <3>4. \A u \in Thread : pc'[u] \notin {"drain", "refill"}
      BY <2>2, <2>3, <3>3
    <3>5. (\A u \in Thread : DrainExact(u)') /\ OneDrains'
      BY <3>4 DEF DrainExact, OneDrains
    <3> QED
      BY <1>q, <2>1, <3>2, <3>5
  <2>5. CASE ~(Len(buf) < BufRecs)
    <3>1. rec' = [rec EXCEPT ![t] = r] /\ Goto(t, "drain") /\ UNCHANGED <<wal, buf>>
      BY <1>16, <2>5 DEF AppendRecord
    <3> HIDE DEF r
    <3>2. BufferExact'
      BY <1>i, <2>1, <3>1 DEF BufferExact
    <3>3. SectorsExact'
      BY <1>i, <1>s, <2>1, <3>1 DEF SectorsExact
    <3>4. pc'[t] = "drain" /\ rec'[t] = r /\ \A u \in Thread \ {t} : pc'[u] = pc[u]
      BY <1>t, <3>1 DEF Goto, ThreadsOK
    <3>5. \A u \in Thread \ {t} : pc'[u] \notin {"drain", "refill"}
      BY <2>2, <3>4
    <3>6. (\A u \in Thread : DrainExact(u)') /\ OneDrains'
      BY <2>3, <3>1, <3>4, <3>5 DEF DrainExact, OneDrains
    <3> QED
      BY <1>q, <2>1, <3>2, <3>3, <3>6
  <2> QED
    BY <2>4, <2>5
<1> QED
  BY <1>1, <1>2, <1>3, <1>4, <1>5, <1>6, <1>7, <1>8, <1>9, <1>10, <1>11, <1>12, <1>13, <1>14,
     <1>15, <1>16 DEF Transact

LEMMA MachineSound ==
  ASSUME TypeInv, TypeInv', SoundInv, UNCHANGED setup,
         \/ (\E p \in Page : Steal(p)) /\ mode \in {"up", "stopping"}
         \/ Mount \/ Redo \/ BeginUndo \/ Undo \/ EndRecover \/ StartSession \/ Format
         \/ ShutdownCache \/ ShutdownWal \/ Crash
  PROVE  SoundInv'
<1>n. wal.next \in Nat /\ wal.flushed \in Nat /\ wal \in WalType
  BY Numbers DEF TypeInv, MemoryOK
<1>s. /\ LogSectors' = LogSectors /\ \A l : SectorOf(l)' = SectorOf(l)
  BY DEF LogSectors, SectorOf
\* The session goes on.
<1>u. ASSUME UNCHANGED <<log, wal, buf, pc, rec, base>>, Up, Up'
      PROVE  SoundInv'
  <2>i. BufferExact /\ SectorsExact /\ (\A u \in Thread : DrainExact(u)) /\ OneDrains
    BY <1>u DEF SoundInv
  <2>1. BufferExact'
    BY <1>u, <2>i DEF BufferExact
  <2>2. SectorsExact'
    BY <1>u, <2>i, <1>s DEF SectorsExact
  <2>3. (\A u \in Thread : DrainExact(u)') /\ OneDrains'
    BY <1>u, <2>i DEF DrainExact, OneDrains
  <2> QED
    BY <1>u, <2>1, <2>2, <2>3 DEF SoundInv, Up
\* No session runs.
<1>d. ASSUME UNCHANGED <<buf, pc>>, ~Up, ~Up', mode' = "mounted" => wal'.next = wal'.flushed + 1
      PROVE  SoundInv'
  BY <1>d DEF SoundInv
\* A session starts.
<1>b. ASSUME UNCHANGED <<buf, pc>>, ~Up, mode' = "up", base' = wal'.flushed,
             wal'.next = wal'.flushed + 1, wal'.flushed \in Nat
      PROVE  SoundInv'
  <2>1. buf' = << >> /\ \A u \in Thread : pc'[u] = "idle"
    BY <1>b DEF SoundInv
  <2>2. Len(buf') = 0
    BY <2>1
  <2>3. BufferExact'
    <3>1. /\ base' <= wal'.next - 1 - 0 /\ wal'.next - 1 - 0 <= wal'.flushed
          /\ wal'.flushed < wal'.next
      BY SMT, <1>b
    <3>2. \A i \in 1..0 : buf'[i].lsn = wal'.next - 1 - 0 + i
      BY SMT
    <3> QED
      BY <2>2, <3>1, <3>2 DEF BufferExact
  <2>4. SectorsExact'
    <3>1. \A l \in Lsn : ~(base' < l /\ l <= wal'.flushed)
      BY SMT, <1>b, Numbers DEF Lsn
    <3> QED
      BY <3>1 DEF SectorsExact
  <2>5. (\A u \in Thread : DrainExact(u)') /\ OneDrains'
    BY <2>1 DEF DrainExact, OneDrains
  <2> QED
    BY <1>b, <2>3, <2>4, <2>5 DEF SoundInv, Up
\* The power is off.
<1>o. ASSUME PowerOff PROVE SoundInv'
  BY <1>o DEF PowerOff, SoundInv, Up
<1>1. CASE (\E p \in Page : Steal(p)) /\ mode \in {"up", "stopping"}
  <2>1. UNCHANGED <<log, wal, buf, pc, rec, base, mode>>
    BY <1>1 DEF Steal, memory, threads, history
  <2> QED
    BY <1>1, <1>u, <2>1 DEF Up
<1>2. CASE Mount
  <2>1. UNCHANGED <<buf, pc>> /\ ~Up /\ ~Up'
    BY <1>2 DEF Mount, threads, Up
  <2>2. ASSUME mode' = "mounted" PROVE wal'.next = wal'.flushed + 1
    <3>1. wal' = [FreshWal EXCEPT !.next = meta.lsn + 1, !.flushed = meta.lsn, !.txn = meta.txn + 1]
      BY <1>2, <2>2 DEF Mount
    <3> QED
      BY <3>1 DEF FreshWal
  <2> QED
    BY <1>d, <2>1, <2>2
<1>3. CASE Redo \/ BeginUndo \/ Undo
  <2>1. UNCHANGED <<buf, pc>> /\ ~Up /\ ~Up' /\ mode' # "mounted"
    BY <1>3 DEF Redo, BeginUndo, Undo, memory, threads, Up
  <2> QED
    BY <1>d, <2>1
<1>4. CASE EndRecover
  <2>1. UNCHANGED <<buf, pc>> /\ ~Up /\ ~Up'
    BY <1>4 DEF EndRecover, threads, Up
  <2>2. wal'.next = wal'.flushed + 1
    BY <1>4 DEF EndRecover, FreshWal
  <2> QED
    BY <1>d, <2>1, <2>2
<1>5. CASE StartSession
  <2>1. UNCHANGED <<buf, pc, wal>> /\ ~Up /\ mode' = "up" /\ base' = wal.flushed /\ mode = "mounted"
    BY <1>5 DEF StartSession, threads, Up
  <2>2. wal.next = wal.flushed + 1
    BY <2>1 DEF SoundInv
  <2> QED
    BY <1>b, <1>n, <2>1, <2>2
<1>6. CASE Format
  <2>1. UNCHANGED <<buf, pc>> /\ ~Up /\ mode' = "up" /\ base' = 0 /\ wal' = FreshWal
    BY <1>6 DEF Format, threads, Up
  <2>2. FreshWal.next = FreshWal.flushed + 1 /\ FreshWal.flushed = 0
    BY SMT DEF FreshWal
  <2> QED
    BY SMT, <1>b, <2>1, <2>2
<1>7. CASE ShutdownCache
  <2>1. UNCHANGED <<log, wal, buf, pc, rec, base>> /\ Up /\ Up'
    BY <1>7 DEF ShutdownCache, memory, threads, history, Up
  <2> QED
    BY <1>u, <2>1
<1>8. CASE ShutdownWal \/ Crash
  BY <1>8, <1>o DEF ShutdownWal, Crash
<1> QED
  BY <1>1, <1>2, <1>3, <1>4, <1>5, <1>6, <1>7, <1>8

\* What is checked follows.
LEMMA NothingLost ==
  ASSUME TypeInv, SoundInv
  PROVE  NoRecordLost
<1> SUFFICES ASSUME Up PROVE
      /\ \A l \in (Max({base, wal.flushed - LogSectors}) + 1)..wal.flushed :
           log[SectorOf(l)] # None /\ log[SectorOf(l)].lsn = l
      /\ \A l \in (wal.flushed + 1)..(wal.next - 1) : \E i \in 1..Len(buf) : buf[i].lsn = l
  BY DEF NoRecordLost
<1>1. BufferExact /\ SectorsExact
  BY DEF SoundInv
<1>2. /\ wal.next \in Nat /\ wal.flushed \in Nat /\ base \in Nat /\ Len(buf) \in Nat
      /\ LogSectors \in Nat \ {0} /\ wal.next <= MaxLsn + 1 /\ MaxLsn \in Nat
  BY Numbers
<1>3. /\ base <= wal.next - 1 - Len(buf) /\ wal.next - 1 - Len(buf) <= wal.flushed
      /\ wal.flushed < wal.next
      /\ \A i \in 1..Len(buf) : buf[i].lsn = wal.next - 1 - Len(buf) + i
  BY <1>1 DEF BufferExact
<1>4. ASSUME NEW l \in (wal.flushed + 1)..(wal.next - 1) PROVE \E i \in 1..Len(buf) : buf[i].lsn = l
  <2> DEFINE i == l - (wal.next - 1 - Len(buf))
  <2>1. i \in 1..Len(buf) /\ wal.next - 1 - Len(buf) + i = l
    <3>1. l \in Int /\ wal.flushed < l /\ l <= wal.next - 1
      BY SMT, <1>2
    <3>2. wal.next - 1 - Len(buf) < l
      BY SMT, <1>2, <1>3, <3>1
    <3> QED
      BY SMT, <1>2, <3>1, <3>2
  <2>2. buf[i].lsn = l
    BY <1>3, <2>1
  <2> QED
    BY <2>1, <2>2
<1>5. ASSUME NEW l \in (Max({base, wal.flushed - LogSectors}) + 1)..wal.flushed
      PROVE  log[SectorOf(l)] # None /\ log[SectorOf(l)].lsn = l
  <2> DEFINE S == {base, wal.flushed - LogSectors}
  <2>1. Max(S) \in S /\ \A y \in S : Max(S) >= y
    <3>1. \E m \in S : \A y \in S : m >= y
      <4>1. CASE base >= wal.flushed - LogSectors
        BY SMT, <1>2, <4>1
      <4>2. CASE wal.flushed - LogSectors >= base
        BY SMT, <1>2, <4>2
      <4> QED
        BY SMT, <1>2, <4>1, <4>2
    <3> HIDE DEF S
    <3> QED
      BY <3>1 DEF Max
  <2>2. Max(S) \in Int /\ Max(S) >= base /\ Max(S) >= wal.flushed - LogSectors
    BY SMT, <1>2, <2>1
  <2>3. l \in (Max(S) + 1)..wal.flushed
    OBVIOUS
  <2> HIDE DEF S
  <2>4. l \in Int /\ Max(S) + 1 <= l /\ l <= wal.flushed
    BY SMT, <1>2, <2>2, <2>3
  <2>5. base < l /\ wal.flushed - LogSectors < l
    BY SMT, <1>2, <2>2, <2>4
  <2>6. l \in Lsn
    BY SMT, <1>2, <1>3, <2>4, <2>5 DEF Lsn
  <2> QED
    BY <1>1, <2>4, <2>5, <2>6 DEF SectorsExact
<1> QED
  BY <1>4, <1>5

LEMMA SoundStep ==
  TypeInv /\ SoundInv /\ [Next /\ LogFirst /\ OneAppender /\ QuietShutdown]_vars => SoundInv'
<1> SUFFICES ASSUME TypeInv, SoundInv, [Next /\ LogFirst /\ OneAppender /\ QuietShutdown]_vars
             PROVE  SoundInv'
  OBVIOUS
<1>1. CASE UNCHANGED vars
  BY <1>1 DEF vars, persistent, memory, threads, history, SoundInv, Up, BufferExact, SectorsExact,
              DrainExact, OneDrains, LogSectors, SectorOf
<1>2. CASE Next /\ OneAppender
  <2>1. TypeInv'
    BY <1>2, TypeStep
  <2>2. CASE \E t \in Thread : Transact(t) /\ mode \in {"up", "stopping"}
    BY <1>2, <2>2, TransactSound DEF Next
  <2>3. CASE \/ (\E p \in Page : Steal(p)) /\ mode \in {"up", "stopping"}
             \/ Mount \/ Redo \/ BeginUndo \/ Undo \/ EndRecover \/ StartSession \/ Format
             \/ ShutdownCache \/ ShutdownWal \/ Crash
    <3>1. UNCHANGED setup
      BY <1>2 DEF Next
    <3> QED
      BY <2>1, <2>3, <3>1, MachineSound
  <2> QED
    BY <1>2, <2>2, <2>3 DEF Next, Running
<1> QED
  BY <1>1, <1>2

\* The log is exact, however threads, flushes, checkpoints, shutdowns,
\* crashes and mounts interleave: no record is lost on its way from
\* wal_append_record through a full buffer or a flush to its sector, as long
\* as one thread at a time drains the full buffer.
THEOREM LogKept == SoundSpec => []LogExact
<1>1. Init => TypeInv /\ SoundInv
  <2>1. Init => SoundInv
    BY DEF Init, SoundInv, Up
  <2> QED
    BY <2>1, InitTypes
<1>2. TypeInv /\ SoundInv /\ [Next /\ LogFirst /\ OneAppender /\ QuietShutdown]_vars
        => (TypeInv /\ SoundInv)'
  <2>1. [Next /\ LogFirst /\ OneAppender /\ QuietShutdown]_vars => [Next]_vars
    OBVIOUS
  <2> QED
    BY <2>1, TypeStep, SoundStep
<1>3. TypeInv /\ SoundInv => LogExact
  BY TypesHold, NothingLost DEF LogExact
<1> QED
  BY <1>1, <1>2, <1>3, PTL DEF SoundSpec
=============================================================================

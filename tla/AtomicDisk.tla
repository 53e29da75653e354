----------------------------- MODULE AtomicDisk -----------------------------
(***************************************************************************)
(* What the buffer cache of filesys/cache.c promises the file system: an   *)
(* array of sectors on which every cache_read and cache_write takes effect *)
(* at one instant between its call and its return.                         *)
(***************************************************************************)
CONSTANTS Client,    \* threads calling the cache
          Sector,    \* sectors of fs_device
          Cell,      \* pieces of a sector that one call reads or writes
          Chunk,     \* the sets of pieces that calls read or write
          Value,     \* what a piece holds
          Contents0, \* contents of the device at boot
          None

VARIABLES mem,  \* contents of every sector
          req,  \* the call each client is in, or None
          out   \* what its read is about to return, or None

avars == <<mem, req, out>>

Request == [kind : {"read"}, sector : Sector, cells : Chunk, value : {None}]
           \cup [kind : {"write"}, sector : Sector, cells : Chunk, value : Value]

AtomicInit ==
  /\ mem = Contents0
  /\ req = [t \in Client |-> None]
  /\ out = [t \in Client |-> None]

AtomicCall(t) ==
  /\ req[t] = None /\ out[t] = None
  /\ \E r \in Request : req' = [req EXCEPT ![t] = r]
  /\ UNCHANGED <<mem, out>>

AtomicRead(t) ==
  /\ req[t] # None /\ req[t].kind = "read"
  /\ out' = [out EXCEPT ![t] = [c \in req[t].cells |-> mem[req[t].sector][c]]]
  /\ req' = [req EXCEPT ![t] = None]
  /\ UNCHANGED mem

AtomicWrite(t) ==
  /\ req[t] # None /\ req[t].kind = "write"
  /\ mem' = [mem EXCEPT ![req[t].sector] =
               [c \in Cell |-> IF c \in req[t].cells THEN req[t].value ELSE @[c]]]
  /\ req' = [req EXCEPT ![t] = None]
  /\ UNCHANGED out

AtomicReturn(t) ==
  /\ out[t] # None
  /\ out' = [out EXCEPT ![t] = None]
  /\ UNCHANGED <<mem, req>>

AtomicNext ==
  \E t \in Client : AtomicCall(t) \/ AtomicRead(t) \/ AtomicWrite(t) \/ AtomicReturn(t)

AtomicSpec == AtomicInit /\ [][AtomicNext]_avars
=============================================================================

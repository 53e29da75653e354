----------------------------- MODULE HashTable -----------------------------
(***************************************************************************)
(* The kernel's hash table (lib/kernel/hash.c), under the supplemental     *)
(* page tables: buckets of lists, and a bucket count that follows the      *)
(* number of elements and may fail to.  The caller holds the lock of the   *)
(* structure the table is in, so that a call is one step.  An element is a *)
(* key, which is also its hash value, and one of the objects with it.      *)
(***************************************************************************)
EXTENDS Integers, Sequences, FiniteSets
LOCAL INSTANCE Bitwise

CONSTANTS MIN_BUCKETS,          \* 4 in the code
          BEST_ELEMS_PER_BUCKET,
          Elements              \* pairs of a key and an object

VARIABLE ht

NoElement == <<>>
MembersOf(s) == {s[i] : i \in DOMAIN s}
Buckets(n) == [i \in 0 .. n - 1 |-> <<>>]

find_bucket(h, e) == e[1] & (h.bucket_cnt - 1)
find_elem(h, b, e) == LET s == SelectSeq(h.buckets[b], LAMBDA x : x[1] = e[1]) IN IF s = <<>> THEN NoElement ELSE s[1]
insert_elem(h, b, e) == [h EXCEPT !.elem_cnt = @ + 1, !.buckets[b] = <<e>> \o @]
remove_elem(h, e) == [h EXCEPT !.elem_cnt = @ - 1, !.buckets = [b \in DOMAIN @ |-> SelectSeq(@[b], LAMBDA x : x # e)]]

turn_off_least_1bit(x) == x & (x - 1)
is_power_of_2(x) == x # 0 /\ turn_off_least_1bit(x) = 0
RECURSIVE PowerBelow(_)
PowerBelow(n) == IF is_power_of_2(n) THEN n ELSE PowerBelow(turn_off_least_1bit(n))

\* The old elements, bucket by bucket, each to the front of its new bucket.
RECURSIVE MoveAll(_, _)
MoveAll(h, old) == IF old = <<>> THEN h
                   ELSE LET b == find_bucket(h, old[1]) IN MoveAll([h EXCEPT !.buckets[b] = <<old[1]>> \o @], Tail(old))
RECURSIVE Listed(_, _)
Listed(h, b) == IF b = h.bucket_cnt THEN <<>> ELSE h.buckets[b] \o Listed(h, b + 1)
\* Mutant of rehash: the elements stay where they were.
RehashUnmoved(h, memory) ==
    LET n == PowerBelow(IF h.elem_cnt \div BEST_ELEMS_PER_BUCKET < MIN_BUCKETS THEN MIN_BUCKETS
                        ELSE h.elem_cnt \div BEST_ELEMS_PER_BUCKET)
    IN IF n <= h.bucket_cnt \/ ~memory THEN h
       ELSE [h EXCEPT !.bucket_cnt = n, !.buckets = [b \in 0 .. n - 1 |-> IF b < h.bucket_cnt THEN h.buckets[b] ELSE <<>>]]
\* memory: whether malloc finds room for the new buckets.
rehash(h, memory) ==
    LET n == PowerBelow(IF h.elem_cnt \div BEST_ELEMS_PER_BUCKET < MIN_BUCKETS THEN MIN_BUCKETS
                        ELSE h.elem_cnt \div BEST_ELEMS_PER_BUCKET)
    IN IF n = h.bucket_cnt \/ ~memory THEN h
       ELSE MoveAll([h EXCEPT !.bucket_cnt = n, !.buckets = Buckets(n)], Listed(h, 0))

\* The calls; in is what the caller believes to be in the table.
hash_find(h, e) == find_elem(h, find_bucket(h, e), e)
hash_insert(e, memory) ==
    LET old == hash_find(ht, e)
        h == IF old = NoElement THEN insert_elem(ht, find_bucket(ht, e), e) ELSE ht
    IN ht' = [rehash(h, memory) EXCEPT !.in = IF old = NoElement THEN @ \cup {e} ELSE @]
hash_replace(e, memory) ==
    LET old == hash_find(ht, e)
        h == IF old = NoElement THEN ht ELSE remove_elem(ht, old)
    IN ht' = [rehash(insert_elem(h, find_bucket(ht, e), e), memory) EXCEPT !.in = (@ \ {old}) \cup {e}]
hash_delete(e, memory) ==
    LET found == hash_find(ht, e)
    IN ht' = IF found = NoElement THEN ht ELSE [rehash(remove_elem(ht, found), memory) EXCEPT !.in = @ \ {found}]
hash_clear == ht' = [ht EXCEPT !.buckets = Buckets(ht.bucket_cnt), !.elem_cnt = 0, !.in = {}]

\* hash_first and then hash_next to the end: an iterator is a bucket and a place in it.
hash_next(h, i) ==
    LET later == {b \in i.bucket + 1 .. h.bucket_cnt - 1 : h.buckets[b] # <<>>}
    IN IF i.at < Len(h.buckets[i.bucket]) THEN [i EXCEPT !.at = @ + 1]
       ELSE IF later = {} THEN [bucket |-> h.bucket_cnt, at |-> 0]
       ELSE [bucket |-> CHOOSE b \in later : \A c \in later : b <= c, at |-> 1]
RECURSIVE Visit(_, _)
Visit(h, i) == LET j == hash_next(h, i)
               IN IF j.bucket = h.bucket_cnt THEN <<>> ELSE <<h.buckets[j.bucket][j.at]>> \o Visit(h, j)
hash_first == [bucket |-> 0, at |-> 0]

HashInit == ht = [bucket_cnt |-> MIN_BUCKETS, elem_cnt |-> 0, buckets |-> Buckets(MIN_BUCKETS), in |-> {}]
HashNext == \/ hash_clear
            \/ \E e \in Elements, memory \in BOOLEAN : hash_insert(e, memory) \/ hash_replace(e, memory) \/ hash_delete(e, memory)

(* ------------------------------------------------------------- properties *)
\* The table is a set: hash_find answers the object that was put in, and nothing
\* for a key that is not in, whatever rehash moved or failed to move.
HashFinds == \A e \in Elements :
                 LET with == {x \in ht.in : x[1] = e[1]}
                 IN hash_find(ht, e) = IF with = {} THEN NoElement ELSE CHOOSE x \in with : TRUE

\* hash_size is the number of elements, and the bucket count stays a power of
\* two, as find_bucket's mask needs it.
HashCounts == ht.elem_cnt = Cardinality(ht.in) /\ is_power_of_2(ht.bucket_cnt)

\* Iteration meets every element once and then ends, across empty buckets.
HashVisitsAll == LET s == Visit(ht, hash_first) IN Len(s) = Cardinality(ht.in) /\ MembersOf(s) = ht.in

\* A hash table is a set that finds, counts and visits its elements, whatever
\* rehash moved or failed to move (hash.c).
HashExact == HashFinds /\ HashCounts /\ HashVisitsAll
=============================================================================

----------------------------- MODULE ChunkedVec ------------------------------
(***************************************************************************)
(* The growth of ChunkedVec (bex_heap/src/chunked_vec.rs), the storage of  *)
(* the heap's spaces.  resize_with reads the length first, and takes the   *)
(* write side of chunks_lock afterwards: the second step is what it does   *)
(* under that lock.  Indices below the length are valid in set and get;    *)
(* chunks are never moved, so that an element once located stays there.    *)
(* push_with is left to collections, which have the space to themselves.   *)
(***************************************************************************)
EXTENDS Integers

CONSTANTS
    Thread,
    ChunkSize       \* elements per chunk

ASSUME ChunkAssumption == ChunkSize \in Nat \ {0}

VARIABLES
    len,            \* ChunkedVec.len
    chunks,         \* chunks.len()
    call,           \* a thread's call under way, <<>> or what it has computed
    granted         \* the length that the calls that returned have granted

cvars == <<len, chunks, call, granted>>

CInit ==
    /\ len = 0
    /\ chunks = 0
    /\ call = [t \in Thread |-> <<>>]
    /\ granted = 0

AtLeast(a, b) == IF a < b THEN b ELSE a

Needed(n) == (n + ChunkSize - 1) \div ChunkSize

\* resize_with, before the lock.
ResizeBegin(t, n) ==
    /\ call[t] = <<>>
    /\ n > len
    /\ call' = [call EXCEPT ![t] = <<"resize", n>>]
    /\ UNCHANGED <<len, chunks, granted>>

\* Bug: a last chunk that is not filled is not allocated.
ResizeRoundsDown(t) ==
    /\ call[t] # <<>> /\ call[t][1] = "resize"
    /\ chunks' = AtLeast(chunks, call[t][2] \div ChunkSize)
    /\ len' = call[t][2]
    /\ granted' = AtLeast(granted, call[t][2])
    /\ call' = [call EXCEPT ![t] = <<>>]

\* resize_with, under the lock: the length is not read again.
ResizeEnd(t) ==
    /\ call[t] # <<>> /\ call[t][1] = "resize"
    /\ chunks' = AtLeast(chunks, Needed(call[t][2]))
    /\ len' = call[t][2]
    /\ granted' = AtLeast(granted, call[t][2])
    /\ call' = [call EXCEPT ![t] = <<>>]

\* clear, through an exclusive reference.
Clear ==
    /\ \A t \in Thread : call[t] = <<>>
    /\ len' = 0
    /\ chunks' = 0
    /\ granted' = 0
    /\ UNCHANGED call

-----------------------------------------------------------------------------
\* An index that passes the check against the length lies in a chunk.
Backed == len <= chunks * ChunkSize

\* The valid range only increases: what a call has granted stays valid, although
\* resize_with sets the length from what it read before the lock.
RangeIncreases == granted <= len
=============================================================================

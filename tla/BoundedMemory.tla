--------------------------- MODULE BoundedMemory ---------------------------
(***************************************************************************)
(* What the transaction cache promises its callers: a memory of the last   *)
(* signatures, of bounded size, that forgets one entry for each new one,   *)
(* and only when it is full.  "Full" and "bounded" are as exact as several *)
(* callers without a lock can make them: each insertion that overlapped    *)
(* another blurs both by one entry.                                        *)
(*                                                                         *)
(* Module TxCache, which follows src/src/api/cache.rs operation by         *)
(* operation, is shown to implement this.                                  *)
(***************************************************************************)
EXTENDS Integers, FiniteSets

CONSTANTS Workers, Sigs, None, CacheTxSize, MaxOverlaps

VARIABLES
  held,      \* the signatures remembered
  asking,    \* the signature each worker wants remembered
  settled,   \* whether it has made room for it, or found that there is
  overlaps   \* insertions begun while another was in progress

memVars == <<held, asking, settled, overlaps>>

Asking == {w \in Workers : asking[w] # None}

\* A limit of zero still leaves the entry that was just inserted.
Bound == (IF CacheTxSize = 0 THEN 1 ELSE CacheTxSize) + overlaps

\* As far as a worker can tell.
Full == CacheTxSize <= Cardinality(held) + overlaps

MemInit ==
  /\ held = {}
  /\ asking = [w \in Workers |-> None]
  /\ settled = [w \in Workers |-> FALSE]
  /\ overlaps = 0

Ask(w, k) ==
  /\ asking[w] = None
  /\ asking' = [asking EXCEPT ![w] = k]
  /\ overlaps' = IF Asking = {} THEN overlaps ELSE overlaps + 1
  /\ UNCHANGED <<held, settled>>

\* It forgets one entry or none.
MakeRoom(w) ==
  /\ asking[w] # None
  /\ ~settled[w]
  /\ settled' = [settled EXCEPT ![w] = TRUE]
  /\ \/ held' = held
     \/ Full /\ \E k \in held : held' = held \ {k}
  /\ UNCHANGED <<asking, overlaps>>

Remember(w) ==
  /\ settled[w]
  /\ held' = held \cup {asking[w]}
  /\ Cardinality(held') <= Bound
  /\ asking' = [asking EXCEPT ![w] = None]
  /\ settled' = [settled EXCEPT ![w] = FALSE]
  /\ UNCHANGED overlaps

\* The process stops: everything is forgotten.
ForgetAll ==
  /\ held' = {}
  /\ asking' = [w \in Workers |-> None]
  /\ settled' = [w \in Workers |-> FALSE]
  /\ overlaps' = 0

MemNext ==
  \/ \E w \in Workers, k \in Sigs : Ask(w, k)
  \/ \E w \in Workers : MakeRoom(w) \/ Remember(w)
  \/ ForgetAll

MemSpec == MemInit /\ [][MemNext]_memVars
=============================================================================

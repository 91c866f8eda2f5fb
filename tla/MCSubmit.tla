------------------------------ MODULE MCSubmit ------------------------------
(***************************************************************************)
(* Submit on a small instance: two payments that differ in nothing the     *)
(* archive query reads (p and q, say by their memo), a delegation of the   *)
(* same sender and nonce (d), and a malformed request, in a cache with     *)
(* room for one.                                                           *)
(*                                                                         *)
(* MCNext bounds what comes from outside, and nothing else: requests, the  *)
(* blocks that are mined and the clock.  One request at a time may be of   *)
(* any kind and two blocks may be mined; two requests at a time are p and  *)
(* d, in a world of p and d alone, with one block.                         *)
(***************************************************************************)
EXTENDS Submit, TLC

CONSTANTS w1, p, q, d, junk

MCShardOf == [s \in Sigs |-> 1]
MCKindOf == [s \in Sigs |-> IF s \in {p, q} THEN "payment"
                            ELSE IF s = d THEN "stake_delegation" ELSE "both"]
MCPaymentKey == [s \in Sigs |-> 1]
MCSlotOf == [s \in Sigs |-> 1]

-----------------------------------------------------------------------------
Others(w) == {req[v] : v \in Workers \ {w}} \ {None}

\* Requests overlap, or insertions have overlapped.
Shared == overlaps > 0 \/ \A w \in Workers : req[w] # None

OnlyPD(S) == S \cup accepted \cup stray \subseteq {p, d} /\ Cardinality(mined) <= 1

\* Tasks are interchangeable, so the first free one takes the request.  Each
\* pair of requests may overlap its insertions once, so that MaxOverlaps
\* never keeps a handler from going on.
Arrives(w, s) ==
  /\ w = w1 \/ req[w1] # None
  /\ overlaps > 0 => OnlyPD({s})
  /\ Others(w) # {} => OnlyPD({s} \cup Others(w)) /\ stray = {} /\ overlaps < MaxOverlaps
  /\ Receive(w, s)

MCNext ==
  \/ \E w \in Workers, s \in Sigs : Arrives(w, s)
  \/ \E s \in Sigs : (Shared => mined \subseteq {s}) /\ Mine(s)
  \/ overlaps > 0 /\ Time
  \/ ServiceNext

MCSpec == SubmitInit /\ [][MCNext]_submitVars /\ SubmitFairness
=============================================================================

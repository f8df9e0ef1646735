----------------------------- MODULE DecodePool -----------------------------
(***************************************************************************)
(* The arithmetic of one greedy decode step over a static slot pool,       *)
(* shared by the offline engine and by the streaming engine that inherits  *)
(* it (asr/engine/continuous_batching.py).  A slot's position is the last  *)
(* token column written; columns run 0..L_alloc and one more column is     *)
(* scratch space for slots that have finished but are not yet evicted.     *)
(***************************************************************************)
EXTENDS Integers

CONSTANTS
    MaxPos,      \* max_target_positions: rows of the position table, 0..MaxPos-1
    Delta,       \* max_generation_delta: tokens allowed past the encoder length
    PromptLen,   \* tokens of the fixed prompt
    Bucket       \* key_len is rounded up to a multiple of this

ASSUME PoolAssumption ==
    /\ MaxPos \in Nat \ {0}
    /\ Delta \in Nat
    /\ PromptLen \in Nat \ {0}
    /\ Bucket \in Nat \ {0}

Lesser(a, b)  == IF a <= b THEN a ELSE b
Greater(a, b) == IF a <= b THEN b ELSE a

(* The total length (prompt and generated tokens) a request may reach.     *)
CapTotal(encLen) == Lesser(MaxPos, encLen + Delta) + 1

(* Where a slot's position goes in one step: only alive, unfinished slots  *)
(* advance, and never past column L_alloc.                                 *)
Advance(pos, moving, lAlloc) ==
    IF moving THEN Lesser(pos + 1, lAlloc) ELSE Lesser(pos, lAlloc)

(* Termination latched on the device: an end token or the length cap.      *)
Hits(newPos, endToken, cap) == endToken \/ newPos + 1 >= cap

RoundUp(n) == ((n + Bucket - 1) \div Bucket) * Bucket

(* The number of key columns one step reads.  Rounding up is capped by the *)
(* allocation; the columns the caller says it needs are not.               *)
KeyLen(needed, lAlloc) == Greater(Lesser(lAlloc, RoundUp(needed)), needed)
=============================================================================

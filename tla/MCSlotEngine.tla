--------------------------- MODULE MCSlotEngine ---------------------------
EXTENDS SlotEngine

CONSTANTS a, b, c, d

\* a decodes to its length cap, b is clamped by the position table
MCEncLen == [r \in Reqs |-> IF r = b THEN 3 ELSE 1]
=============================================================================

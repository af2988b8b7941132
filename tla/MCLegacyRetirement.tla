------------------------ MODULE MCLegacyRetirement ------------------------
(* Two workflows; the odd runs belong to the first one.                    *)
EXTENDS LegacyRetirement

OddFirst == [r \in RunIds |-> IF r % 2 = 1 THEN 1 ELSE 2]
=============================================================================

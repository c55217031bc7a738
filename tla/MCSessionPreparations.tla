------------------------- MODULE MCSessionPreparations -------------------------
(* Two callers of one identity; one of them also inspects a second one, *)
(* so that the two identities compete for the only cached entry.        *)
EXTENDS SessionPreparations
CONSTANTS i1, i2, c1, c2
MCAsks == [c \in Caller |-> IF c = c1 THEN {<<"prepare", i1>>, <<"inspect", i2>>} ELSE Kind \X {i1}]
MCMaxLen == [i \in Id |-> IF i = i1 THEN 3 ELSE 0]
===============================================================================

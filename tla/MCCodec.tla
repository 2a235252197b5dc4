------------------------------ MODULE MCCodec ------------------------------
(* Every chain of a few offsets, and chains too wide for a count of one byte. *)
EXTENDS Codec

CONSTANTS k1, k2, none, MaxNodes

TwoKeys == {k1, k2}

\* Every sequence of chains with n offsets in all; no two neighbours are alike.
RECURSIVE Forests(_)
Forests(n) ==
    IF n = 0 THEN {<< >>}
    ELSE UNION {{<<NewOffset(n, f)>> \o g : f \in Forests(k), g \in Forests(n - 1 - k)} :
                k \in 0 .. n - 1}

Leaves(n) == [i \in 1 .. n |-> NewOffset(i, << >>)]

\* Twice the values of the count, side by side and one level apart.
TwiceWrapped ==
    {NewOffset(1, Leaves(2 * RefWord)),
     NewOffset(1, <<NewOffset(1, Leaves(RefWord))>> \o Leaves(RefWord - 1))}

AllChains ==
    UNION {{NewOffset(n, f) : f \in Forests(n - 1)} : n \in 1 .. MaxNodes}
      \cup TwiceWrapped
============================================================================

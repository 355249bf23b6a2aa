---------------------------- MODULE StdContainers ----------------------------
(* What the standard library's containers do where the program relies on it.   *)
EXTENDS Naturals, Sequences

\* std::erase_if: the elements that are not in X stay, in their order.
EraseIf(s, X) ==
    LET kept[i \in 0 .. Len(s)] ==
            IF i = 0 THEN <<>>
            ELSE IF s[i] \in X THEN kept[i - 1] ELSE Append(kept[i - 1], s[i])
    IN  kept[Len(s)]
=============================================================================

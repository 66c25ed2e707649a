------------------------------ MODULE TextOps ------------------------------
(***************************************************************************)
(* Operators on texts, which are sequences of characters: the ones the     *)
(* properties of the server are stated with.                               *)
(***************************************************************************)
EXTENDS Naturals, Sequences

(* The characters of text s that are in the set S, in their order. *)
Only(s, S) ==
    LET kept[i \in 0..Len(s)] ==
            IF i = 0 THEN <<>>
            ELSE IF s[i] \in S THEN Append(kept[i-1], s[i]) ELSE kept[i-1]
    IN  kept[Len(s)]

(* Text s is text t with some characters left out. *)
IsSubsequence(s, t) ==
    \E at \in [1..Len(s) -> 1..Len(t)] :
        /\ \A i \in 1..Len(s) : s[i] = t[at[i]]
        /\ \A i, j \in 1..Len(s) : i < j => at[i] < at[j]
=============================================================================

-------------------------------- MODULE Lists --------------------------------
(***************************************************************************)
(* What the community modules' operators on sequences do, in a form that   *)
(* the proofs of the modules that use it can open.                         *)
(***************************************************************************)
EXTENDS Integers, FiniteSets, SequencesExt

(* The elements of a sequence that are in S, in its order.                 *)
Only(s, S) ==
    LET only[i \in 0..Len(s)] == IF i = 0 THEN <<>>
                                 ELSE IF s[i] \in S THEN Append(only[i - 1], s[i]) ELSE only[i - 1]
    IN only[Len(s)]
=============================================================================

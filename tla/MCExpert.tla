------------------------------ MODULE MCExpert ------------------------------
(* Instances of ExpertCache for TLC: what the rows of a wide pass choose,  *)
(* and the passes of a run.  MCMixed has runs of decode rows, with misses  *)
(* on the host and with misses copied, and decode rows before and after    *)
(* passes of several rows; each of the others has the one sequence that a  *)
(* question asks for.                                                      *)
EXTENDS ExpertCache

Traffic(kinds, host, ahead, slots) ==
    [kinds |-> kinds, hostDecode |-> host, lookahead |-> ahead, slots |-> slots]

MCWide == {1..Experts}
MCMixed == {Traffic(<<"decode", "decode">>, TRUE, TRUE, 2),
            Traffic(<<"decode", "decode">>, FALSE, TRUE, 4),
            Traffic(<<"decode", "prompt">>, TRUE, TRUE, 4),
            Traffic(<<"prompt", "decode">>, TRUE, FALSE, 4),
            Traffic(<<"decode", "rows">>, FALSE, FALSE, 4)}

(* Decode rows whose misses run on the host, and a prefetch a block ahead. *)
MCHostRows == {Traffic(<<"decode", "decode", "decode">>, TRUE, TRUE, HostSlots)}

(* Decode rows whose misses are copied on the main stream.                 *)
MCCopiedRows == {Traffic(<<"decode", "decode">>, FALSE, TRUE, 4)}

(* A prefetch, then a wide pass.                                           *)
MCThenPrompt == {Traffic(<<"decode", "prompt">>, TRUE, TRUE, 4)}

(* A wide pass between the rows a refill is queued and used at.            *)
MCPromptBetween == {Traffic(<<"decode", "prompt", "decode">>, TRUE, FALSE, HostSlots)}
=============================================================================

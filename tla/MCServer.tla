------------------------------ MODULE MCServer ------------------------------
(***************************************************************************)
(* A small instance of InferenceServer for TLC.                            *)
(***************************************************************************)
EXTENDS InferenceServer

(* A prompt (ask), one that shares it and goes on (more), so that the kept *)
(* session is extended when the model had nothing to say and rewound when  *)
(* it had, and one that fills the context (long).                          *)
Requests == {"ask", "more", "long"}
Prompts == ("ask" :> <<"u", "a", "u">>) @@ ("more" :> <<"u", "a", "u", "b">>)
           @@ ("long" :> <<"u", "a", "b", "u", "a">>)
Turns == ("ask" :> 2) @@ ("more" :> 3) @@ ("long" :> 3)
Limits == ("ask" :> 1) @@ ("more" :> 2) @@ ("long" :> 1)
Streamed == {"more"}
Patience == {"ask", "more"}
Vocabulary == {"u", "a", "b"}
Answers == {"a", "b"}
SplitTokens == {"b"}
=============================================================================

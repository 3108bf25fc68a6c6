--------------------------- MODULE MCRuntimeConfig ---------------------------
(* The instance of RuntimeConfig: two providers, one with a key of the server's,
   of which the other is the fine-tuner; the environment has the bounds of top_k
   inverted, as nothing keeps it from doing. *)
EXTENDS RuntimeConfig, TLC

CONSTANTS groq, openai, oss, gpt, u1, u2, main

Symmetric == Permutations(Requests)

MCOfferedBy == (oss :> groq) @@ (gpt :> openai)
MCBoot == [choice |-> [provider |-> groq, model |-> oss], lo |-> 2, hi |-> 1,
           url |-> main, limited |-> TRUE]
=============================================================================

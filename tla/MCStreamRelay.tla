--------------------------- MODULE MCStreamRelay ---------------------------
(* Bodies of at most four events: every pair of kinds that the handlers     *)
(* treat differently next to each other, and the orders that matter.        *)
EXTENDS StreamRelay

ChatBodies ==
    {<<"head", "text", "done">>, <<"head", "leak", "done">>, <<"leak", "text", "done">>,
     <<"leak", "tool", "text">>, <<"head", "tool", "done">>, <<"head", "fail">>,
     <<"text", "fail", "done">>, <<"leak", "fail">>, <<"tool", "text", "respleak">>}

ResponsesBodies ==
    {<<"resp", "resptext", "done">>, <<"resp", "respleak", "done">>, <<"resp", "respfail">>,
     <<"respcall", "respleak">>, <<"head", "resp", "respfail">>, <<"head", "respleak">>}

AnyBody  == ChatBodies \cup ResponsesBodies
AnyAdapter == {"openai", "converting", "none"}
=============================================================================

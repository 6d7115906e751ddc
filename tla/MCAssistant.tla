----------------------------- MODULE MCAssistant -----------------------------
(***************************************************************************)
(* An instance of Assistant for TLC.  The tabs are either two chats of one *)
(* round each, for the index and the files they share, or a stack review   *)
(* in all of its rounds with every tool.                                   *)
(***************************************************************************)
EXTENDS Assistant

CONSTANTS one, two, react, svelte, astro, nuxt, rust, ghost

Chats ==
    [t \in Threads |->
        [tab |-> "chat", honours |-> TRUE, rounds |-> 1,
         replies |-> {<<"search_skills_catalog">>, <<"fetch_external_skill">>},
         names |-> IF t = one THEN {astro} ELSE {astro, rust}]]

StackReview(honours) ==
    [t \in Threads |->
        IF t = one
        THEN [tab |-> "review", honours |-> honours, rounds |-> MaxIter,
              replies |-> {<<tool>> : tool \in Tools} \cup
                          {<<"list_skills", "fetch_skill">>,
                           <<"list_skills", "fetch_external_skill">>},
              names |-> {astro, ghost}]
        ELSE [tab |-> "none", honours |-> honours, rounds |-> 0, replies |-> {}, names |-> {}]]

MCUses == {Chats, StackReview(TRUE), StackReview(FALSE)}

\* Three names, of which two fit on a page; the last one begins with the query.
MCPosition == [n \in {astro, nuxt, rust} |-> CASE n = astro -> 1 [] n = nuxt -> 2 [] n = rust -> 3]

\* The skill of React is for its version 2, say; that of Svelte for every version.
MCMinMajor == [t \in {react, svelte} |-> IF t = react THEN 2 ELSE NoMinimum]

\* React in any version in any section, Svelte in one or none.
MCPackages ==
    {[t \in {react, svelte} |-> IF t = react THEN v ELSE <<Absent, w, Absent>>] :
        v \in [1..3 -> {Absent, Unparsed, 1, 2}], w \in {Absent, 1}}
=============================================================================

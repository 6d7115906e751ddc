------------------------------ MODULE Suggest ------------------------------
(***************************************************************************)
(* Layer 4, one call of run_layer4: research_jd asks the model for search  *)
(* queries, searches Reddit and Hacker News, and ranks what it found; then *)
(* the model is asked for a project that cites those sources.  The worker  *)
(* runs it for a queued job, the Gradio page at the end of a review.       *)
(*                                                                         *)
(* A hit is a URL with the number of domain terms its text contains; the   *)
(* texts, the GitHub stack of a source (a failing lookup leaves it out)    *)
(* and the token counts are left out.  The model is asked in JSON mode:    *)
(* what it returns is an object or no JSON at all.                         *)
(***************************************************************************)
EXTENDS Naturals, Sequences, FiniteSets

CONSTANTS
    Urls,
    Features,        \* the features of a suggestion that may cite sources
    MaxQueries,      \* _derive_queries: max_n of the queries
    MaxSubs,         \* MAX_SUBS
    MaxPerSearch,    \* RESULTS_PER_CALL
    MaxSources,      \* research_jd: max_sources
    MinDomainHits,   \* MIN_DOMAIN_HITS
    MaxScore         \* bound: the domain terms a text can contain

ASSUME SuggestBounds ==
    /\ MaxQueries \in Nat /\ MaxSubs \in Nat /\ MaxPerSearch \in Nat
    /\ MaxSources \in Nat /\ MinDomainHits \in Nat /\ MaxScore \in Nat

VARIABLES
    place,           \* where run_layer4 stands
    left,            \* searches still to make
    terms,           \* whether the model named domain terms
    candidates,      \* the hits kept, in order of arrival
    returned,        \* history: every hit of a search that succeeded
    sources,         \* the ranked sources; source n has the id sn
    suggestion       \* what run_layer4 returns

suggestVars == <<place, left, terms, candidates, returned, sources, suggestion>>

-----------------------------------------------------------------------------
Places == {"off", "derive", "rederive", "search", "ask", "reask", "returned", "raised"}
Hits   == [url : Urls, score : 0..MaxScore]
Ids    == 1..MaxSources + 1            \* the ids a model may cite; some are invented
Nothing == [error |-> FALSE, sources |-> <<>>, inspired |-> {}]

SuggestInit ==
    /\ place = "off"
    /\ left = 0
    /\ terms = FALSE
    /\ candidates = <<>>
    /\ returned = <<>>
    /\ sources = <<>>
    /\ suggestion = Nothing

\* run_layer4 has returned or raised and its locals are gone.
Forget ==
    /\ place' = "off"
    /\ left' = 0
    /\ terms' = FALSE
    /\ candidates' = <<>>
    /\ returned' = <<>>
    /\ sources' = <<>>
    /\ suggestion' = Nothing

StartSuggest == place = "off" /\ place' = "derive" /\
    UNCHANGED <<left, terms, candidates, returned, sources, suggestion>>

\* No API key, or an unknown provider: research_jd's exception is swallowed, the
\* same one leaves run_layer4 when it builds its own client.
Unconfigured == place = "derive" /\ place' = "raised" /\
    UNCHANGED <<left, terms, candidates, returned, sources, suggestion>>

-----------------------------------------------------------------------------
(***************************************************************************)
(* Research.                                                               *)
(***************************************************************************)
\* _chat_json returns JSON: per query one search in each subreddit, or in all
\* of Reddit when there are none, then one in Hacker News.
Derive ==
    /\ place \in {"derive", "rederive"}
    /\ \E queries \in 0..MaxQueries, subs \in 0..MaxSubs, named \in BOOLEAN :
          /\ left' = queries * ((IF subs = 0 THEN 1 ELSE subs) + 1)
          /\ terms' = named
    /\ place' = "search"
    /\ UNCHANGED <<candidates, returned, sources, suggestion>>

\* The reply is no JSON: asked once more, then an error payload without queries.
DeriveInvalid ==
    /\ \/ place = "derive" /\ place' = "rederive"
       \/ place = "rederive" /\ place' = "search"
    /\ UNCHANGED <<left, terms, candidates, returned, sources, suggestion>>

\* The API call raises: the suggestion is asked for without sources.
DeriveRaises ==
    /\ place \in {"derive", "rederive"}
    /\ place' = "ask"
    /\ UNCHANGED <<left, terms, candidates, returned, sources, suggestion>>

\* The elements of s at the positions P, sorted by before.
Listed(s, P, before(_, _)) ==
    [n \in 1..Cardinality(P) |->
        s[CHOOSE i \in P : Cardinality({j \in P : before(j, i)}) = n - 1]]

\* seen_urls: of the hits with one URL the first is kept.
FirstSeen(hits) ==
    Listed(hits,
           {i \in DOMAIN hits : \A j \in 1..i - 1 : hits[j].url # hits[i].url},
           LAMBDA j, i : j < i)

Search ==
    /\ place = "search" /\ left > 0
    /\ \E n \in 0..MaxPerSearch : \E hits \in [1..n -> Hits] :
          /\ returned' = returned \o hits
          /\ candidates' = FirstSeen(candidates \o hits)
    /\ left' = left - 1
    /\ UNCHANGED <<place, terms, sources, suggestion>>

\* Mutant: a failing search in a subreddit also costs the next search.
SearchFailsTwice ==
    /\ place = "search" /\ left > 0
    /\ left' = left - 2
    /\ UNCHANGED <<place, terms, candidates, returned, sources, suggestion>>

\* A timeout, an HTTP error or no JSON: a search without hits.
SearchFails ==
    /\ place = "search" /\ left > 0
    /\ left' = left - 1
    /\ UNCHANGED <<place, terms, candidates, returned, sources, suggestion>>

\* _relevance_score: without domain terms everything is relevant.
Relevance(hit) == IF terms THEN hit.score ELSE 1

\* The sort key of the hit at position j is before that of i; sort() is stable.
Ahead(hits, j, i) ==
    \/ Relevance(hits[j]) > Relevance(hits[i])
    \/ Relevance(hits[j]) = Relevance(hits[i]) /\ j < i

Relevant(hits) == {i \in DOMAIN hits : Relevance(hits[i]) >= MinDomainHits}

\* Mutant: the list is cut before it is sorted.
RankedLate(hits) ==
    Listed(hits, {i \in Relevant(hits) : i <= MaxSources}, LAMBDA j, i : Ahead(hits, j, i))

\* The relevant hits, those with the most domain terms first, and no more than fit.
Ranked(hits) ==
    LET sorted == Listed(hits, Relevant(hits), LAMBDA j, i : Ahead(hits, j, i))
    IN SubSeq(sorted, 1, IF Len(sorted) < MaxSources THEN Len(sorted) ELSE MaxSources)

Rank ==
    /\ place = "search" /\ left = 0
    /\ sources' = Ranked(candidates)
    /\ place' = "ask"
    /\ UNCHANGED <<left, terms, candidates, returned, suggestion>>

-----------------------------------------------------------------------------
(***************************************************************************)
(* The suggestion.                                                         *)
(***************************************************************************)
\* Mutant: the ids are not compared with the sources'.
InspiredUnchecked(cited) == {[feature |-> f, ids |-> cited[f]] : f \in Features}

\* inspired_by keeps the ids of sources, and the rows that have one.
Inspired(cited) ==
    {row \in {[feature |-> f, ids |-> cited[f] \cap DOMAIN sources] : f \in Features} :
        row.ids # {}}

\* _merge_sources_into_suggestion over a reply whose features cite any ids.
Suggested(failed, cited) ==
    [error |-> failed, sources |-> sources, inspired |-> Inspired(cited)]

Ask ==
    /\ place \in {"ask", "reask"}
    /\ \E cited \in [Features -> SUBSET Ids] : suggestion' = Suggested(FALSE, cited)
    /\ place' = "returned"
    /\ UNCHANGED <<left, terms, candidates, returned, sources>>

\* Mutant: the model is asked until it returns JSON.
AskInvalidAgain ==
    /\ \/ place = "ask" /\ place' = "reask"
       \/ place = "reask" /\ place' = "ask"
    /\ UNCHANGED <<left, terms, candidates, returned, sources, suggestion>>

\* No JSON twice: an error payload, with the sources, is returned all the same.
AskInvalid ==
    /\ \/ place = "ask" /\ place' = "reask" /\ UNCHANGED suggestion
       \/ /\ place = "reask" /\ place' = "returned"
          /\ suggestion' = Suggested(TRUE, [f \in Features |-> {}])
    /\ UNCHANGED <<left, terms, candidates, returned, sources>>

AskRaises ==
    /\ place \in {"ask", "reask"}
    /\ place' = "raised"
    /\ UNCHANGED <<left, terms, candidates, returned, sources, suggestion>>

SuggestStep ==
    \/ Unconfigured \/ Derive \/ DeriveInvalid \/ DeriveRaises
    \/ Search \/ SearchFails \/ Rank
    \/ Ask \/ AskInvalid \/ AskRaises

-----------------------------------------------------------------------------
SuggestTypeOK ==
    /\ place \in Places
    /\ left \in Nat
    /\ terms \in BOOLEAN
    /\ candidates \in Seq(Hits) /\ returned \in Seq(Hits) /\ sources \in Seq(Hits)
    /\ suggestion.error \in BOOLEAN
    /\ suggestion.sources \in Seq(Hits)
    /\ suggestion.inspired \subseteq [feature : Features, ids : SUBSET Ids]

\* Which hit stands for a URL: the first that any search returned.
Stands(i) == \A j \in 1..i - 1 : returned[j].url # returned[i].url

\* Whatever searches fail and however their hits overlap, the sources are the
\* best of everything the others returned: one per URL, relevant, best first, and
\* none is left out unless the list is full of sources that rank before it.
SourcesAreBest ==
    place \in {"ask", "reask", "returned"} =>
        \E at \in [DOMAIN sources -> DOMAIN returned] :
            /\ \A n \in DOMAIN sources :
                  /\ sources[n] = returned[at[n]] /\ Stands(at[n])
                  /\ at[n] \in Relevant(returned)
                  /\ n > 1 => Ahead(returned, at[n - 1], at[n])
            /\ \A i \in DOMAIN returned :
                  Stands(i) /\ i \in Relevant(returned) =>
                      \/ \E n \in DOMAIN sources : at[n] = i
                      \/ /\ Len(sources) = MaxSources
                         /\ \A n \in DOMAIN sources : Ahead(returned, at[n], i)

\* A suggestion, an erroneous one included, carries the sources that were fetched
\* and cites no others, whatever the model invents.
CitesOnlySources ==
    place = "returned" =>
        /\ suggestion.sources = sources
        /\ \A cite \in suggestion.inspired : cite.ids # {} /\ cite.ids \subseteq DOMAIN sources
=============================================================================

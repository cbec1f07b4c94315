------------------------------ MODULE MCWebApi ------------------------------
\* Instances of WebApi.  The two classifiers disagree: "kuinka moni jäsen" is
\* a count to the front end and not supported by the API, and a question with
\* "lukumäärä" is a search to the front end, whose patterns end at ASCII word
\* boundaries, and a count to the API.
EXTENDS WebApi

CONSTANTS k1, k2, lapua, kauhava, a, b, extract, synth, free, howMany, none

MCAggregateClass == [x \in Questions |-> IF x = free THEN "count" ELSE "not_supported"]

MCQueryClass == [x \in Questions |-> IF x = free THEN "rag" ELSE "aggregate"]

Call(endpoint, key, claimed, question) ==
    [endpoint |-> endpoint, key |-> key, claimed |-> claimed,
     question |-> question, mode |-> extract]

\* Nothing, or one entry, is left of an earlier session: two more are cut to
\* two.
MCPastHistories == {<<>>, <<[request |-> 0, mode |-> synth, before |-> {}]>>}

MCCalls == {Call("query", k1, kauhava, free), Call("query", none, kauhava, free),
            Call("ingest", k1, none, free), Call("ingest", none, none, free)}
=============================================================================

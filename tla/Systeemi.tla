------------------------------ MODULE Systeemi ------------------------------
(***************************************************************************)
(* The readers of systeemi/ (statistics and version hash) and of           *)
(* /v1/system/*, while workers ingest.  gather_stats reads the documents   *)
(* and the chunks by two selects; nothing holds a snapshot between them.   *)
(* compute_system_version is one select; a consumer keeps an answer under  *)
(* the version it returned.  One report or one kept answer is enough: the  *)
(* readers change nothing that another reader or a worker sees.            *)
(***************************************************************************)
EXTENDS IngestPipeline

CONSTANTS
    Readers             \* which of "stats" and "version" are asked for

ASSUME ReadersAssumption == Readers \subseteq {"stats", "version"}

VARIABLES
    report,      \* gather_stats: its scope, what it read, what it returned
    kept         \* a consumer's answer, with the version it is kept under

readers == <<report, kept>>
sysVars == <<vars, readers>>

Scopes == Tenants \cup {NoValue}           \* tenant=None asks for all of them

InScope(t, scope) == scope = NoValue \/ scope = t

SysInit == Init /\ report = NoValue /\ kept = NoValue

Selected(scope) ==
    {d \in Docs : documents[d] # NoValue /\ InScope(documents[d].tenant, scope)}

\* The first select: tenant and status of each document.
ReadDocuments(scope) ==
    /\ "stats" \in Readers
    /\ report = NoValue /\ kept = NoValue
    /\ report' = [scope |-> scope, chunk_count |-> NoValue,
                  facts |-> [d \in Selected(scope) |->
                                [tenant |-> documents[d].tenant,
                                 status |-> documents[d].status]]]
    /\ UNCHANGED <<vars, kept>>

\* Mutant: the select counts the documents that have chunks.
CountedDocuments(t) ==
    Cardinality({d \in Docs :
        \E l \in Labels : Stored(chunks, d, l) /\ chunks[d][l].tenant = t})

\* The second select, grouped by the tenant of the chunk rows.
Counted(t) ==
    Cardinality({x \in Docs \X Labels :
        Stored(chunks, x[1], x[2]) /\ chunks[x[1]][x[2]].tenant = t})

\* A tenant that has chunks but no document is in no line of the report.
ReadChunks ==
    /\ report # NoValue
    /\ report.chunk_count = NoValue
    /\ report' = [report EXCEPT !.chunk_count =
           [t \in {report.facts[d].tenant : d \in DOMAIN report.facts} |-> Counted(t)]]
    /\ UNCHANGED <<vars, kept>>

\* Mutant: the status is not looked at.
VersionOfAll(scope) == Selected(scope)

\* _content_hash over (doc_id, sha256): as a value, the set of the doc_ids.
Version(scope) == {d \in Selected(scope) : HasStatus(d, {"indexed"})}

\* What an answer is drawn from, as far as the version's documents go.
Content(version) == [d \in version |-> chunks[d]]

KeepAnswer(scope) ==
    /\ "version" \in Readers
    /\ report = NoValue /\ kept = NoValue
    /\ kept' = [scope |-> scope, version |-> Version(scope),
                content |-> Content(Version(scope))]
    /\ UNCHANGED <<vars, report>>

Read == \/ \E scope \in Scopes : ReadDocuments(scope) \/ KeepAnswer(scope)
        \/ ReadChunks

SysNext == Read \/ (Next /\ UNCHANGED readers)

SysSpec == SysInit /\ [][SysNext]_sysVars

-----------------------------------------------------------------------------
\* Properties.

ShownIndexed == {d \in DOMAIN report.facts : report.facts[d].status = "indexed"}

(***************************************************************************)
(* A report is torn, since a worker may go on between the two selects, but *)
(* never the wrong way round: the chunk count covers all the chunks that a *)
(* completed run of each document shown as indexed produced.  It holds for *)
(* one tenant; the chunks of a PDF of two are counted for the later one.   *)
(***************************************************************************)
IndexedAreCounted ==
    report # NoValue /\ report.chunk_count # NoValue =>
      \A t \in DOMAIN report.chunk_count :
        \E text \in [ShownIndexed -> Texts] :
          /\ \A d \in ShownIndexed : <<d, text[d]>> \in completed
          /\ Cardinality({x \in ShownIndexed \X Labels : x[2] \in ChunkIds[text[x[1]]]})
               <= report.chunk_count[t]

(***************************************************************************)
(* versioning.py:3-6, with one worker: as long as the version is the one   *)
(* an answer was kept under, the chunks of the documents it names are the  *)
(* ones the answer was drawn from, whatever was ingested or retried.       *)
(***************************************************************************)
VersionNamesContent ==
    kept # NoValue /\ Version(kept.scope) = kept.version =>
        Content(kept.version) = kept.content
=============================================================================

--------------------------- MODULE TextFunctions ---------------------------
(***************************************************************************)
(* The pure functions of the document side (module Chunking) and of the    *)
(* query side (module QueryText): one call of one of them on any input of  *)
(* a bounded set, and what it returns.                                     *)
(***************************************************************************)
EXTENDS Chunking, QueryText

CONSTANTS
    PageTexts,          \* the lines of a page
    NumPages,
    Hits,               \* keyword hits by document type
    Words,
    Queries,
    ChunkIds,
    RankingLists,       \* what the searches of a question's variants return
    Replies,            \* the model's replies; NoReply where the call raised
    ResultLists,        \* the results of a search, as chunks with sentences
    MaxPromptChunks     \* extract_max_chunks

ASSUME TextAssumption == NumPages \in Nat /\ PageTexts \subseteq Seq(LineKinds)

\* A question may be all blanks: api/routes/query.py:28 counts characters.
ASSUME QueryAssumption ==
    /\ {"lapua", "kaupunki"} \subseteq Words
    /\ Queries \subseteq [words : Seq(Words), mark : BOOLEAN]
    /\ NoReply \notin [words : Seq(Words), mark : BOOLEAN]
    /\ MaxRewrites \in Nat /\ MaxRewrites >= 3

\* A search has a chunk once.
ASSUME RankingAssumption ==
    /\ RankingLists \subseteq Seq(Seq(ChunkIds))
    /\ Scale \in Nat \ {0} /\ RankOffset \in Nat
    /\ \A rankings \in RankingLists : \A r \in DOMAIN rankings :
         /\ IsInjective(rankings[r])
         /\ \A i \in DOMAIN rankings[r] : Scale % (RankOffset + i) = 0

\* No quote is asked for without results; _split_sentences leaves no empty one.
ASSUME ReplyAssumption ==
    /\ Replies \subseteq [candidates : Seq(Parses), chunk_index : Nat \ {0}, size : Nat]
    /\ ResultLists \subseteq
         Seq([sentences : Seq([score : Nat, size : Nat \ {0}]), size : Nat]) \ {<<>>}
    /\ MaxPromptChunks \in Nat \ {0}
    /\ MaxChars \in Nat /\ MinBudget \in Nat /\ MinBudget < MaxChars

VARIABLES call, output

vars == <<call, output>>

Calls ==
    [function : {"chunk"}, pages : [1..NumPages -> PageTexts \cup {Unread}], hits : Hits]
    \cup [function : {"rewrite"}, query : Queries]
    \cup [function : {"fuse"}, rankings : RankingLists]
    \cup [function : {"quote"}, reply : Replies \cup {NoReply}, results : ResultLists]

Init == call \in Calls /\ output = NoReply

Calling(function) == call.function = function /\ output = NoReply /\ UNCHANGED call

Text == Consolidated(call.pages)

Chunk == /\ Calling("chunk")
         /\ output' = ChunkDocument(Text, DetectDocType(call.hits))

Rewrite == Calling("rewrite") /\ output' = Rewrites(call.query)

Fuse == Calling("fuse") /\ output' \in Fusions(call.rankings)

Quote == /\ Calling("quote")
         /\ output' = ExtractQuote(call.reply, call.results,
                                   SmallerOf(Len(call.results), MaxPromptChunks))

Next == Chunk \/ Rewrite \/ Fuse \/ Quote

Spec == Init /\ [][Next]_vars

-----------------------------------------------------------------------------
\* Properties.

Returned(function) == call.function = function /\ output # NoReply

(***************************************************************************)
(* chunking.py:120: nothing after the first marker is lost between two     *)
(* chunks or windows, and sections begin chunks of their own (see          *)
(* ChunksHoldText of module Chunking).                                     *)
(***************************************************************************)
TextIsChunked ==
    Returned("chunk") => ChunksHoldText(Text, DetectDocType(call.hits), output)

(***************************************************************************)
(* chunking.py:85: the pages a chunk is cited with are those its lines are *)
(* from, whichever pages OCR could not read (see ChunksKnowTheirPages).    *)
(***************************************************************************)
PagesAreKnown ==
    Returned("chunk") => ChunksKnowTheirPages(Text, DetectDocType(call.hits), output)

(***************************************************************************)
(* query_rewrite.py:97: the question itself comes first, no variant comes  *)
(* twice, none is empty or loses the end of the question (unless that is   *)
(* all blanks), and one of them mentions Lapua, which the guard against    *)
(* other topics relies on.                                                 *)
(***************************************************************************)
RewritesKeepQuestion ==
    Returned("rewrite") =>
      /\ output[1] = call.query
      /\ Len(output) <= MaxRewrites /\ IsInjective(output)
      /\ call.query.words # <<>> => \A i \in DOMAIN output :
           /\ output[i].words # <<>>
           /\ Last(output[i].words) = Last(call.query.words)
      /\ \E i \in DOMAIN output : MentionsLapua(output[i])

(***************************************************************************)
(* hybrid.py:19: a chunk that every ranking of another chunk has before it *)
(* comes before it in the fusion, and every chunk comes once.              *)
(***************************************************************************)
FusionFollowsRankings ==
    Returned("fuse") =>
      LET all == UNION {Range(call.rankings[r]) : r \in DOMAIN call.rankings} IN
      /\ IsInjective(output) /\ Range(output) = all
      /\ \A c, d \in all :
           /\ c # d
           /\ \A r \in Ranking(call.rankings, d) :
                /\ c \in Range(call.rankings[r])
                /\ RankIn(call.rankings[r], c) < RankIn(call.rankings[r], d)
           => RankIn(output, c) < RankIn(output, d)

PieceSum(pieces) == SumFunction(pieces) + Len(pieces) - 1

(***************************************************************************)
(* answer.py:301: whatever the model replies, extract mode has a quote: of *)
(* one of the results, never empty when that has text, and if the deter-   *)
(* ministic layer picked it within max_chars and from a sentence that no   *)
(* other has more of the query's terms than.                               *)
(***************************************************************************)
QuoteFits ==
    Returned("quote") =>
      /\ output.index \in DOMAIN call.results
      /\ output.picked =>
           LET used == call.results[output.index] IN
           /\ PieceSum(output.pieces) <= MaxChars
           /\ used.size > 0 => \A i \in DOMAIN output.pieces : output.pieces[i] > 0
           /\ \A p \in Places(call.results) : Overlap(call.results, p) > 0 =>
                \E i \in DOMAIN used.sentences :
                  used.sentences[i].score >= Overlap(call.results, p)
=============================================================================

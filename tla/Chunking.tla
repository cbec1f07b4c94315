------------------------------ MODULE Chunking ------------------------------
(***************************************************************************)
(* consolidate_markdown and chunk_document as functions of the pages OCR   *)
(* read.  A text is a sequence of lines; a line is a page marker, a "§ N"  *)
(* line with or without ("bare") a title on it, a heading or body.  Blank  *)
(* lines separate and are left out, and a line stands for the characters   *)
(* that windows are cut by.  A chunk is named by the lines it takes.       *)
(***************************************************************************)
EXTENDS Orders, Sequences, SequencesExt

CONSTANTS
    MaxLines,           \* max_tokens * _APPROX_CHARS_PER_TOKEN
    OverlapLines,       \* overlap_tokens * _APPROX_CHARS_PER_TOKEN
    Unread              \* text of a page without a readable .res.json or .md

ASSUME WindowAssumption ==
    /\ MaxLines \in Nat /\ OverlapLines \in Nat
    /\ OverlapLines < MaxLines

\* The types detect_doc_type has keywords for, in their order.
DocTypes == <<"poytakirja", "esityslista", "osavuosikatsaus", "tilinpaatos",
              "lautakunta", "liite">>

\* detect_doc_type: most keyword hits in the first 4000 characters; of a tie,
\* the first of the table; of no hit at all, "muu".
DetectDocType(hits) ==
    LET most == Max({hits[k] : k \in DOMAIN DocTypes})
    IN  IF most = 0 THEN "muu"
        ELSE DocTypes[Min({k \in DOMAIN DocTypes : hits[k] = most})]

LineKinds == {"section", "bare", "heading", "body"}
\* The pages of a document, as OCR left them.
ReadPages == Seq({Unread} \cup Seq(LineKinds))
Lines == [kind : LineKinds \cup {"page"}, page : Nat]
Chunks == [section : Nat, from : Nat, to : Nat, page_start : Nat, page_end : Nat]

\* One page: its marker, then its lines; a page that was not read is skipped,
\* marker and all.  Pages count from 0.
PageLines(pages, i) ==
    IF pages[i] = Unread THEN <<>>
    ELSE <<[kind |-> "page", page |-> i - 1]>>
         \o [j \in DOMAIN pages[i] |-> [kind |-> pages[i][j], page |-> i - 1]]

\* consolidate_markdown: document.md.
Consolidated(pages) == FlattenSeq([i \in DOMAIN pages |-> PageLines(pages, i)])

-----------------------------------------------------------------------------
\* Mutant: the number of the page a section ends on is not looked for.
StartPageOnly(lines, from, to) ==
    LET before == {i \in 1..(from - 1) : lines[i].kind = "page"}
        current == IF before = {} THEN 0 ELSE lines[Max(before)].page
    IN  <<current, current>>

\* _pages_in_range: the last marker before the range, and the highest in it.
PagesInRange(lines, from, to) ==
    LET before == {i \in 1..(from - 1) : lines[i].kind = "page"}
        inside == {lines[i].page : i \in {j \in from..to : lines[j].kind = "page"}}
        current == IF before = {} THEN 0 ELSE lines[Max(before)].page
    IN  <<current, IF inside = {} THEN current ELSE Max(inside)>>

\* A bare "§ N" takes the line after it for its title, whatever that is: a
\* "§ M" there is no marker of its own.
SectionMarkers(lines) ==
    LET marks[i \in 1..Len(lines)] ==
            /\ lines[i].kind \in {"section", "bare"}
            /\ ~(i > 1 /\ lines[i - 1].kind = "bare" /\ marks[i - 1])
    IN  {i \in 1..Len(lines) : marks[i]}

HeadingMarkers(lines) == {i \in 1..Len(lines) : lines[i].kind = "heading"}

\* The part of the text from one marker to the next.
Part(lines, markers, from, section) ==
    LET later == {i \in markers : i > from}
        to == IF later = {} THEN Len(lines) ELSE Min(later) - 1
        range == PagesInRange(lines, from, to)
    IN  [section |-> section, from |-> from, to |-> to,
         page_start |-> range[1], page_end |-> range[2]]

\* split_by_pykala: the section id is the line of its marker.
SplitByPykala(lines) ==
    LET markers == SectionMarkers(lines)
        from == Ascending(markers)
    IN  [k \in DOMAIN from |-> Part(lines, markers, from[k], from[k])]

\* _split_by_heading: no section id.
SplitByHeading(lines) ==
    LET markers == HeadingMarkers(lines)
        from == Ascending(markers)
    IN  [k \in DOMAIN from |-> Part(lines, markers, from[k], 0)]

WholeText(lines) == [section |-> 0, from |-> 1, to |-> Len(lines),
                     page_start |-> 0, page_end |-> 0]

\* Mutant: a window is begun only where a whole one is left.
WholeWindowsOnly(chunk) ==
    LET size == chunk.to + 1 - chunk.from
        step == MaxLines - OverlapLines
    IN  IF size <= MaxLines THEN <<chunk>>
        ELSE [k \in 1..((size - MaxLines) \div step + 1) |->
                [chunk EXCEPT !.from = @ + (k - 1) * step,
                              !.to = chunk.from + (k - 1) * step + MaxLines - 1]]

\* _sliding_window: a window begins at every step within the chunk; the last
\* may lie inside the one before it.
SlidingWindow(chunk) ==
    LET size == chunk.to + 1 - chunk.from
        step == MaxLines - OverlapLines
        last(k) == chunk.from + (k - 1) * step + MaxLines - 1
    IN  IF size <= MaxLines THEN <<chunk>>
        ELSE [k \in 1..((size + step - 1) \div step) |->
                [chunk EXCEPT !.from = @ + (k - 1) * step,
                              !.to = IF last(k) < @ THEN last(k) ELSE @]]

\* Minutes, agendas and decisions of a board are split by section.
Sectioned == {"poytakirja", "esityslista", "lautakunta"}

Primary(lines, docType) ==
    IF docType \in Sectioned /\ SectionMarkers(lines) # {} THEN SplitByPykala(lines)
    ELSE IF HeadingMarkers(lines) # {} THEN SplitByHeading(lines)
    ELSE <<WholeText(lines)>>

ChunkDocument(lines, docType) ==
    LET primary == Primary(lines, docType)
    IN  FlattenSeq([k \in DOMAIN primary |-> SlidingWindow(primary[k])])

-----------------------------------------------------------------------------
\* What the chunks promise.

Marked(lines, docType) ==
    (docType \in Sectioned /\ SectionMarkers(lines) # {}) \/ HeadingMarkers(lines) # {}

(***************************************************************************)
(* Everything from the first marker on is in some chunk (what is before it *)
(* is in none, chunking.py:37), in the order of the text, and a section    *)
(* that is not right after a bare one begins a chunk of its own.           *)
(***************************************************************************)
ChunksHoldText(lines, docType, chunks) ==
    LET markers == IF docType \in Sectioned /\ SectionMarkers(lines) # {}
                   THEN SectionMarkers(lines) ELSE HeadingMarkers(lines)
        first == IF markers = {} THEN 1 ELSE Min(markers)
    IN  /\ \A i \in first..Len(lines) :
             \E k \in DOMAIN chunks : i \in chunks[k].from..chunks[k].to
        /\ \A k, m \in DOMAIN chunks : k < m => chunks[k].from < chunks[m].from
        /\ docType \in Sectioned => \A i \in 1..Len(lines) :
             /\ lines[i].kind \in {"section", "bare"}
             /\ i > 1 => lines[i - 1].kind # "bare"
             => \E k \in DOMAIN chunks : chunks[k].from = i /\ chunks[k].section = i

(***************************************************************************)
(* A citation may give more pages than a chunk has, never fewer: each line *)
(* of a chunk is from one of its pages, also behind pages that could not   *)
(* be read.  A text without markers is all on page 0 (chunking.py:137).    *)
(***************************************************************************)
ChunksKnowTheirPages(lines, docType, chunks) ==
    Marked(lines, docType) =>
        \A k \in DOMAIN chunks :
          \A i \in chunks[k].from..chunks[k].to :
            lines[i].page \in chunks[k].page_start..chunks[k].page_end
=============================================================================

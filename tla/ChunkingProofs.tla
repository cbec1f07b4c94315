--------------------------- MODULE ChunkingProofs ---------------------------
(***************************************************************************)
(* What consolidate_markdown and chunk_document promise of any pages and   *)
(* any text, for every size of a window and every overlap smaller than it. *)
(***************************************************************************)
EXTENDS Chunking, DataLemmas

-----------------------------------------------------------------------------
\* document.md.

(***************************************************************************)
(* The lines of a page are on it, and the first of them is its marker.     *)
(***************************************************************************)
LEMMA PageLinesAre ==
    ASSUME NEW pages \in ReadPages, NEW i \in 1..Len(pages)
    PROVE  /\ PageLines(pages, i) \in Seq(Lines)
           /\ \A k \in 1..Len(PageLines(pages, i)) :
                /\ PageLines(pages, i)[k].page = i - 1
                /\ k = 1 => PageLines(pages, i)[k].kind = "page"
<1> DEFINE marker == [kind |-> "page", page |-> i - 1]
           first == <<marker>>
           rest == [j \in DOMAIN pages[i] |-> [kind |-> pages[i][j], page |-> i - 1]]
<1>1. i - 1 \in Nat
  OBVIOUS
<1>2. CASE pages[i] = Unread
  <2>1. PageLines(pages, i) = <<>>
    BY <1>2 DEF PageLines
  <2>2. QED BY <2>1
<1>3. CASE pages[i] # Unread
  <2>1. pages[i] \in Seq(LineKinds)
    BY <1>3 DEF ReadPages
  <2>2. DOMAIN pages[i] = 1..Len(pages[i]) /\ Len(pages[i]) \in Nat
        /\ \A j \in 1..Len(pages[i]) : pages[i][j] \in LineKinds
    BY <2>1
  <2>3. marker \in Lines /\ marker.page = i - 1 /\ marker.kind = "page"
    BY <1>1 DEF Lines
  <2>4. \A j \in DOMAIN pages[i] :
          rest[j] = [kind |-> pages[i][j], page |-> i - 1] /\ rest[j] \in Lines
          /\ rest[j].page = i - 1
    BY <1>1, <2>2 DEF Lines
  <2>5. rest \in [1..Len(pages[i]) -> Lines]
    BY <2>2, <2>4
  <2>6. PageLines(pages, i) = first \o rest
    BY <1>3 DEF PageLines
  <2> HIDE DEF marker, rest
  <2>7. rest \in Seq(Lines) /\ Len(rest) = Len(pages[i])
    BY <2>2, <2>5
  <2>8. first \in Seq(Lines) /\ Len(first) = 1 /\ first[1] = marker
    BY <2>3
  <2>9. first \o rest \in Seq(Lines) /\ Len(first \o rest) = 1 + Len(rest)
        /\ (first \o rest)[1] = marker
        /\ \A k \in 2..(1 + Len(rest)) : (first \o rest)[k] = rest[k - 1]
    BY <2>7, <2>8
  <2>10. \A k \in 2..(1 + Len(rest)) : k - 1 \in DOMAIN pages[i]
    BY <2>2, <2>7
  <2>11. ASSUME NEW k \in 1..(1 + Len(rest))
         PROVE  (first \o rest)[k].page = i - 1 /\ (k = 1 => (first \o rest)[k].kind = "page")
    <3>1. CASE k = 1
      BY <2>3, <2>9, <3>1
    <3>2. CASE k # 1
      <4>1. k \in 2..(1 + Len(rest))
        BY <2>2, <2>7, <3>2
      <4>2. QED BY <2>4, <2>9, <2>10, <3>2, <4>1
    <3>3. QED BY <3>1, <3>2
  <2>12. QED BY <2>6, <2>9, <2>11
<1>4. QED BY <1>2, <1>3

(***************************************************************************)
(* The pages come in order, and the marker of its page is at or before     *)
(* every line.                                                             *)
(***************************************************************************)
WellPaged(lines) ==
    /\ \A i, j \in 1..Len(lines) : i <= j => lines[i].page <= lines[j].page
    /\ \A i \in 1..Len(lines) :
         \E j \in 1..i : lines[j].kind = "page" /\ lines[j].page = lines[i].page

LEMMA ConsolidatedIs ==
    ASSUME NEW pages \in ReadPages
    PROVE  Consolidated(pages) \in Seq(Lines) /\ WellPaged(Consolidated(pages))
<1> DEFINE parts == [i \in DOMAIN pages |-> PageLines(pages, i)]
           lines == Consolidated(pages)
<1>1. Len(pages) \in Nat /\ DOMAIN pages = 1..Len(pages)
  BY DEF ReadPages
<1>2. parts \in Seq(Seq(Lines)) /\ Len(parts) = Len(pages)
  <2>1. \A i \in 1..Len(pages) : PageLines(pages, i) \in Seq(Lines)
    BY PageLinesAre
  <2>2. parts \in [1..Len(pages) -> Seq(Lines)]
    BY <1>1, <2>1
  <2>3. QED BY <1>1, <2>2
<1>3. \A i \in 1..Len(parts) : \A k \in 1..Len(parts[i]) :
        parts[i][k].page = i - 1 /\ (k = 1 => parts[i][k].kind = "page")
  BY <1>1, <1>2, PageLinesAre
<1>4. lines = FlattenSeq(parts)
  BY DEF Consolidated
<1> HIDE DEF parts, lines
<1>5. lines \in Seq(Lines) /\ \E place : Placed(lines, parts, Len(parts), place)
  BY <1>2, <1>4, FlattenIs
<1>6. PICK place : Placed(lines, parts, Len(parts), place)
  BY <1>5
<1>7. ASSUME NEW i \in 1..Len(lines)
      PROVE  /\ place[i] \in Nat \X Nat
             /\ place[i][1] \in 1..Len(parts) /\ place[i][2] \in 1..Len(parts[place[i][1]])
             /\ lines[i].page = place[i][1] - 1
             /\ place[i][2] = 1 => lines[i].kind = "page"
  <2>1. /\ place[i] \in Nat \X Nat
        /\ place[i][1] \in 1..Len(parts) /\ place[i][2] \in 1..Len(parts[place[i][1]])
        /\ lines[i] = parts[place[i][1]][place[i][2]]
    BY <1>6 DEF Placed
  <2>2. QED BY <1>3, <2>1
<1>8. ASSUME NEW i \in 1..Len(lines), NEW j \in 1..Len(lines), i <= j
      PROVE  lines[i].page <= lines[j].page
  <2>1. CASE i = j
    <3>1. lines[i].page \in Int
      BY <1>7
    <3>2. QED BY <2>1, <3>1
  <2>2. CASE i # j
    <3>1. Before(place[i], place[j])
      BY <1>5, <1>6, <1>8, <2>2 DEF Placed
    <3>2. place[i][1] <= place[j][1]
      BY <1>7, <3>1 DEF Before
    <3>3. QED BY <1>7, <3>2
  <2>3. QED BY <2>1, <2>2
<1>9. ASSUME NEW i \in 1..Len(lines)
      PROVE  \E j \in 1..i : lines[j].kind = "page" /\ lines[j].page = lines[i].page
  <2> DEFINE p == place[i][1]
  <2>1. p \in 1..Len(parts) /\ place[i][2] \in 1..Len(parts[p]) /\ 1 \in 1..Len(parts[p])
    <3>1. parts[p] \in Seq(Lines)
      BY <1>2, <1>7
    <3>2. QED BY <1>7, <3>1
  <2>2. PICK j \in 1..Len(lines) : place[j] = <<p, 1>>
    BY <1>6, <2>1 DEF Placed
  <2>3. place[j][1] = p /\ place[j][2] = 1
    BY <2>2
  <2>4. lines[j].kind = "page" /\ lines[j].page = lines[i].page
    BY <1>7, <2>3
  <2>5. j <= i
    <3> SUFFICES ASSUME i < j PROVE FALSE
      BY <1>5, <2>2
    <3>1. Before(place[i], place[j])
      BY <1>6, <2>2 DEF Placed
    <3>2. QED BY <2>1, <2>3, <3>1 DEF Before
  <2>6. QED BY <2>2, <2>4, <2>5
<1>10. QED BY <1>5, <1>8, <1>9 DEF lines, WellPaged

-----------------------------------------------------------------------------
\* Markers, and the parts between them.

(***************************************************************************)
(* The recursion of SectionMarkers has a solution.                         *)
(***************************************************************************)
Marking(lines, marks) ==
    marks = [i \in 1..Len(lines) |->
                /\ lines[i].kind \in {"section", "bare"}
                /\ ~(i > 1 /\ lines[i - 1].kind = "bare" /\ marks[i - 1])]

LEMMA MarkingExists ==
    ASSUME NEW lines \in Seq(Lines)
    PROVE  \E marks : Marking(lines, marks)
<1> DEFINE N == Len(lines)
           mark(i, before) == /\ lines[i].kind \in {"section", "bare"}
                              /\ ~(i > 1 /\ lines[i - 1].kind = "bare" /\ before)
           step == [q \in (1..N) \X BOOLEAN |-> mark(q[1], q[2])]
<1>1. N \in Nat /\ step \in [(1..N) \X BOOLEAN -> BOOLEAN]
  OBVIOUS
<1>2. \A i \in 1..N, b \in BOOLEAN : step[<<i, b>>] = mark(i, b)
  OBVIOUS
<1>3. PICK f \in [0..N -> BOOLEAN] : \A i \in 1..N : f[i] = step[<<i, f[i - 1]>>]
  <2> DEFINE base == FALSE
  <2>1. base \in BOOLEAN
    OBVIOUS
  <2>2. Recursive(N, BOOLEAN, base, step)
    <3> HIDE DEF N, step, base
    <3>1. QED BY <1>1, <2>1, Recursion
  <2> HIDE DEF N, step
  <2>3. QED BY <2>2 DEF Recursive
<1> HIDE DEF step, N
<1> DEFINE g == [i \in 1..N |-> f[i]]
<1>4. ASSUME NEW i \in 1..N
      PROVE  g[i] = mark(i, g[i - 1])
  <2>1. i - 1 \in 0..N
    BY <1>1
  <2>2. f[i - 1] \in BOOLEAN /\ f[i] = mark(i, f[i - 1])
    BY <1>2, <1>3, <2>1
  <2>3. CASE i = 1
    <3>1. ~(i > 1)
      BY <2>3
    <3> HIDE DEF g
    <3>2. g[i] = f[i]
      BY DEF g
    <3>3. QED BY <2>2, <3>1, <3>2
  <2>4. CASE i # 1
    <3>1. i - 1 \in 1..N
      BY <1>1, <2>4
    <3>2. g[i] = f[i] /\ g[i - 1] = f[i - 1]
      BY <3>1
    <3>3. QED BY <2>2, <3>2
  <2>5. QED BY <2>3, <2>4
<1>5. g = [i \in 1..N |-> g[i]]
  OBVIOUS
<1> HIDE DEF g
<1>6. g = [i \in 1..N |-> mark(i, g[i - 1])]
  <2> HIDE DEF mark
  <2>1. QED BY <1>4, <1>5
<1>7. Marking(lines, g)
  BY <1>6 DEF Marking, N
<1>8. QED BY <1>7

(***************************************************************************)
(* A section marker is a section line; a section line that is not right    *)
(* after a bare one is a marker.                                           *)
(***************************************************************************)
LEMMA SectionMarkersAre ==
    ASSUME NEW lines \in Seq(Lines)
    PROVE  /\ SectionMarkers(lines) \in SUBSET (1..Len(lines))
           /\ \A i \in SectionMarkers(lines) : lines[i].kind \in {"section", "bare"}
           /\ \A i \in 1..Len(lines) :
                /\ lines[i].kind \in {"section", "bare"}
                /\ i > 1 => lines[i - 1].kind # "bare"
                => i \in SectionMarkers(lines)
<1> DEFINE marks == CHOOSE marks : Marking(lines, marks)
<1>1. Marking(lines, marks)
  BY MarkingExists
<1>2. SectionMarkers(lines) = {i \in 1..Len(lines) : marks[i]}
  BY DEF SectionMarkers, Marking
<1> HIDE DEF marks
<1>3. \A i \in 1..Len(lines) :
        marks[i] = (/\ lines[i].kind \in {"section", "bare"}
                    /\ ~(i > 1 /\ lines[i - 1].kind = "bare" /\ marks[i - 1]))
  BY <1>1 DEF Marking
<1>4. QED BY <1>2, <1>3

LEMMA HeadingMarkersAre ==
    ASSUME NEW lines \in Seq(Lines)
    PROVE  /\ HeadingMarkers(lines) \in SUBSET (1..Len(lines))
           /\ \A i \in HeadingMarkers(lines) : lines[i].kind = "heading"
  BY DEF HeadingMarkers

(***************************************************************************)
(* The pages of a text are numbers up to the last one.                     *)
(***************************************************************************)
LEMMA PagesBounded ==
    ASSUME NEW lines \in Seq(Lines), WellPaged(lines)
    PROVE  \E n \in Nat : \A i \in 1..Len(lines) : lines[i].page \in 0..n
<1>1. \A i \in 1..Len(lines) : lines[i].page \in Nat
  <2>1. \A i \in 1..Len(lines) : lines[i] \in Lines
    OBVIOUS
  <2>2. \A line \in Lines : line.page \in Nat
    BY DEF Lines
  <2>3. QED BY <2>1, <2>2
<1>2. CASE Len(lines) = 0
  BY <1>2
<1>3. CASE Len(lines) # 0
  <2>1. Len(lines) \in 1..Len(lines)
    BY <1>3
  <2>2. \A i \in 1..Len(lines) : lines[i].page <= lines[Len(lines)].page
    BY <2>1 DEF WellPaged
  <2>3. lines[Len(lines)].page \in Nat
    BY <1>1, <2>1
  <2>4. \A i \in 1..Len(lines) : lines[i].page \in 0..lines[Len(lines)].page
    BY <1>1, <2>2, <2>3
  <2>5. QED BY <2>3, <2>4
<1>4. QED BY <1>2, <1>3

(***************************************************************************)
(* Each line from a marker on is on one of the pages given for the range.  *)
(***************************************************************************)
LEMMA RangePages ==
    ASSUME NEW lines \in Seq(Lines), WellPaged(lines), NEW from \in 1..Len(lines),
           NEW to \in from..Len(lines), lines[from].kind # "page"
    PROVE  LET range == PagesInRange(lines, from, to)
           IN  /\ range[1] \in Nat /\ range[2] \in Nat
               /\ \A i \in from..to : lines[i].page \in range[1]..range[2]
<1> DEFINE before == {i \in 1..(from - 1) : lines[i].kind = "page"}
           inside == {lines[i].page : i \in {j \in from..to : lines[j].kind = "page"}}
           current == IF before = {} THEN 0 ELSE lines[Max(before)].page
           last == IF inside = {} THEN current ELSE Max(inside)
<1>1. Len(lines) \in Nat /\ from \in Nat /\ to \in Nat /\ from <= to /\ to <= Len(lines)
  OBVIOUS
<1>2. PICK n \in Nat : \A i \in 1..Len(lines) : lines[i].page \in 0..n
  BY PagesBounded
<1>3. PICK own \in 1..from : lines[own].kind = "page" /\ lines[own].page = lines[from].page
  BY DEF WellPaged
<1>4. own \in before
  <2>1. own # from
    BY <1>3
  <2>2. own \in 1..(from - 1)
    BY <1>1, <2>1
  <2>3. QED BY <1>3, <2>2
<1>5. Max(before) \in before /\ own <= Max(before)
  <2>1. before \in SUBSET (0..Len(lines)) /\ before # {}
    BY <1>1, <1>4
  <2> HIDE DEF before
  <2>2. QED BY <1>1, <1>4, <2>1, MaxIs
<1>6. Max(before) \in 1..Len(lines) /\ Max(before) <= from /\ own \in 1..Len(lines)
  BY <1>1, <1>5
<1>7. current = lines[from].page
  <2>1. current = lines[Max(before)].page
    BY <1>4
  <2> HIDE DEF before, current
  <2>2. lines[Max(before)].page <= lines[from].page
    BY <1>6 DEF WellPaged
  <2>3. lines[own].page <= lines[Max(before)].page
    BY <1>5, <1>6 DEF WellPaged
  <2>4. lines[from].page \in Nat /\ lines[Max(before)].page \in Nat
    BY <1>2, <1>6
  <2>5. QED BY <1>3, <2>1, <2>2, <2>3, <2>4
<1>8. inside # {} => Max(inside) \in inside /\ \A p \in inside : p <= Max(inside)
  <2>1. inside \in SUBSET (0..n)
    BY <1>1, <1>2
  <2> HIDE DEF inside
  <2>2. QED BY <2>1, MaxIs
<1>9. \A i \in from..to : i \in 1..Len(lines) /\ from <= i
  BY <1>1
<1>10. last \in Nat /\ current <= last
  <2>1. CASE inside = {}
    BY <1>2, <1>7, <2>1
  <2>2. CASE inside # {}
    <3>1. PICK j \in from..to : lines[j].page = Max(inside)
      BY <1>8, <2>2
    <3>2. lines[from].page <= lines[j].page /\ lines[j].page \in Nat
      BY <1>2, <1>9 DEF WellPaged
    <3> HIDE DEF inside, current
    <3>3. QED BY <1>7, <2>2, <3>1, <3>2
  <2>3. QED BY <2>1, <2>2
<1>11. ASSUME NEW i \in from..to
       PROVE  lines[i].page \in current..last
  <2> HIDE DEF current, last
  <2>1. lines[i].page \in Nat /\ lines[from].page \in Nat /\ i \in 1..Len(lines)
    BY <1>2, <1>9
  <2>2. lines[from].page <= lines[i].page
    BY <1>9 DEF WellPaged
  <2>3. PICK j \in 1..i : lines[j].kind = "page" /\ lines[j].page = lines[i].page
    BY <1>9 DEF WellPaged
  <2>4. CASE j < from
    <3>1. j \in 1..Len(lines) /\ j <= from
      BY <1>9, <2>4
    <3>2. lines[j].page <= lines[from].page
      BY <3>1 DEF WellPaged
    <3>3. lines[i].page = lines[from].page
      BY <2>1, <2>2, <2>3, <3>2
    <3>4. QED BY <1>7, <1>10, <2>1, <3>3
  <2>5. CASE ~(j < from)
    <3>1. j \in from..to
      BY <1>1, <1>9, <2>5
    <3>2. lines[i].page \in inside
      BY <2>3, <3>1
    <3>3. lines[i].page <= Max(inside) /\ inside # {}
      BY <1>8, <3>2
    <3>4. lines[i].page <= last
      <4> HIDE DEF inside
      <4>1. QED BY <3>3 DEF last
    <3>5. QED BY <1>7, <1>10, <2>1, <2>2, <3>4
  <2>6. QED BY <2>4, <2>5
<1>12. PagesInRange(lines, from, to) = <<current, last>>
  BY DEF PagesInRange
<1>13. current \in Nat
  BY <1>2, <1>7
<1> HIDE DEF current, last
<1>14. QED BY <1>10, <1>11, <1>12, <1>13

(***************************************************************************)
(* A part reaches from its marker to the next one.                         *)
(***************************************************************************)
LEMMA PartIs ==
    ASSUME NEW lines \in Seq(Lines), WellPaged(lines),
           NEW markers \in SUBSET (1..Len(lines)),
           \A i \in markers : lines[i].kind # "page",
           NEW from \in markers, NEW section \in Nat
    PROVE  LET part == Part(lines, markers, from, section)
           IN  /\ part \in Chunks
               /\ part.section = section /\ part.from = from
               /\ from <= part.to /\ part.to <= Len(lines)
               /\ \A i \in markers : from < i => part.to < i
               /\ \A i \in from..Len(lines) : part.to < i => \E j \in markers : from < j /\ j <= i
               /\ \A i \in from..part.to : lines[i].page \in part.page_start..part.page_end
<1> DEFINE later == {i \in markers : i > from}
           to == IF later = {} THEN Len(lines) ELSE Min(later) - 1
           range == PagesInRange(lines, from, to)
           part == Part(lines, markers, from, section)
<1>1. Len(lines) \in Nat /\ from \in Nat /\ 1 <= from /\ from <= Len(lines)
  OBVIOUS
<1>2. later # {} => Min(later) \in later /\ \A i \in later : Min(later) <= i
  <2>1. later \in SUBSET Nat
    OBVIOUS
  <2> HIDE DEF later
  <2>2. QED BY <2>1, MinIs
<1>3. later # {} => Min(later) \in markers /\ from < Min(later) /\ Min(later) \in 1..Len(lines)
  BY <1>2
<1>4. to \in from..Len(lines)
  BY <1>1, <1>3
<1>5. ASSUME NEW i \in markers, from < i PROVE to < i
  <2>1. i \in later /\ i \in Nat
    BY <1>5
  <2>2. Min(later) <= i /\ Min(later) \in Nat /\ later # {}
    BY <1>2, <1>3, <2>1
  <2>3. QED BY <2>1, <2>2
<1>6. ASSUME NEW i \in from..Len(lines), to < i
      PROVE  \E j \in markers : from < j /\ j <= i
  <2>1. later # {}
    BY <1>1, <1>6
  <2>2. Min(later) <= i
    BY <1>1, <1>3, <1>6, <2>1
  <2>3. QED BY <1>3, <2>1, <2>2
<1>7. /\ range[1] \in Nat /\ range[2] \in Nat
      /\ \A i \in from..to : lines[i].page \in range[1]..range[2]
  <2> HIDE DEF to
  <2>1. from \in 1..Len(lines) /\ lines[from].kind # "page"
    OBVIOUS
  <2>2. QED BY <1>4, <2>1, RangePages
<1>8. part = [section |-> section, from |-> from, to |-> to,
              page_start |-> range[1], page_end |-> range[2]]
  BY DEF Part
<1> HIDE DEF to, range
<1>9. part \in Chunks
  BY <1>1, <1>4, <1>7, <1>8 DEF Chunks
<1>10. from <= to /\ to <= Len(lines)
  BY <1>1, <1>4
<1>11. part.to = to /\ part.from = from /\ part.section = section
       /\ part.page_start = range[1] /\ part.page_end = range[2]
  BY <1>8
<1> HIDE DEF part
<1>12. QED BY <1>5, <1>6, <1>7, <1>9, <1>10, <1>11 DEF part

(***************************************************************************)
(* What both splits return: a part for each marker, in order, and no line  *)
(* between two of them.                                                    *)
(***************************************************************************)
PartsOf(lines, markers, parts) ==
    /\ parts \in Seq(Chunks)
    /\ \A k \in 1..Len(parts) :
         /\ parts[k].from \in markers
         /\ parts[k].from <= parts[k].to /\ parts[k].to <= Len(lines)
         /\ \A i \in parts[k].from..parts[k].to :
              lines[i].page \in parts[k].page_start..parts[k].page_end
    /\ \A k, m \in 1..Len(parts) : k < m => parts[k].to < parts[m].from
    /\ \A i \in markers : \E k \in 1..Len(parts) : parts[k].from = i
    /\ \A i \in 1..Len(lines) :
         (\E j \in markers : j <= i) =>
            \E k \in 1..Len(parts) : i \in parts[k].from..parts[k].to

LEMMA SplitIs ==
    ASSUME NEW lines \in Seq(Lines), WellPaged(lines),
           NEW markers \in SUBSET (1..Len(lines)),
           \A i \in markers : lines[i].kind # "page",
           NEW sections \in [markers -> Nat], NEW parts,
           parts = [k \in DOMAIN Ascending(markers) |->
                      Part(lines, markers, Ascending(markers)[k],
                           sections[Ascending(markers)[k]])]
    PROVE  /\ PartsOf(lines, markers, parts)
           /\ \A k \in 1..Len(parts) : parts[k].section = sections[parts[k].from]
<1> DEFINE n == Cardinality(markers)
           from == Ascending(markers)
           part(i) == Part(lines, markers, i, sections[i])
<1>1. markers \in SUBSET Nat /\ IsFiniteSet(markers) /\ Len(lines) \in Nat
  <2>1. 1 \in Int /\ Len(lines) \in Nat
    OBVIOUS
  <2>2. IsFiniteSet(1..Len(lines))
    BY <2>1, FS_Interval
  <2>3. IsFiniteSet(markers)
    BY <2>2, FS_Subset
  <2>4. QED BY <2>1, <2>3
<1>2. /\ n \in Nat /\ from \in [1..n -> markers]
      /\ \A k, m \in 1..n : k < m => from[k] < from[m]
      /\ \A i \in markers : \E k \in 1..n : from[k] = i
  BY <1>1, AscendingIs
<1>3. parts = [k \in 1..n |-> part(from[k])]
  BY <1>2
<1>4. ASSUME NEW i \in markers
      PROVE  /\ part(i) \in Chunks
             /\ part(i).section = sections[i] /\ part(i).from = i
             /\ i <= part(i).to /\ part(i).to <= Len(lines)
             /\ \A j \in markers : i < j => part(i).to < j
             /\ \A j \in i..Len(lines) : part(i).to < j => \E m \in markers : i < m /\ m <= j
             /\ \A j \in i..part(i).to : lines[j].page \in part(i).page_start..part(i).page_end
  <2>1. sections[i] \in Nat
    OBVIOUS
  <2>2. QED BY <2>1, PartIs
<1> HIDE DEF part, n, from
<1>5. parts \in [1..n -> Chunks]
  BY <1>2, <1>3, <1>4
<1>6. parts \in Seq(Chunks) /\ Len(parts) = n
  BY <1>2, <1>5
<1>7. \A k \in 1..n : parts[k] = part(from[k]) /\ from[k] \in markers /\ parts[k].from = from[k]
  BY <1>2, <1>3, <1>4
<1>8. \A k \in 1..n :
         /\ parts[k].from \in markers
         /\ parts[k].from <= parts[k].to /\ parts[k].to <= Len(lines)
         /\ parts[k].section = sections[parts[k].from]
         /\ \A i \in parts[k].from..parts[k].to :
              lines[i].page \in parts[k].page_start..parts[k].page_end
  <2> TAKE k \in 1..n
  <2> DEFINE i == from[k]
  <2>1. parts[k] = part(i) /\ i \in markers
    BY <1>7
  <2> HIDE DEF i
  <2>2. /\ part(i).section = sections[i] /\ part(i).from = i
        /\ i <= part(i).to /\ part(i).to <= Len(lines)
        /\ \A j \in i..part(i).to : lines[j].page \in part(i).page_start..part(i).page_end
    BY <1>4, <2>1
  <2>3. QED BY <2>1, <2>2
<1>9. ASSUME NEW k \in 1..n, NEW m \in 1..n, k < m
      PROVE  parts[k].to < parts[m].from
  <2>1. from[k] < from[m]
    BY <1>2, <1>9
  <2>2. QED BY <1>4, <1>7, <2>1
<1>10. ASSUME NEW i \in markers
       PROVE  \E k \in 1..n : parts[k].from = i
  BY <1>2, <1>7
<1>11. ASSUME NEW i \in 1..Len(lines), NEW j \in markers, j <= i
       PROVE  \E k \in 1..n : i \in parts[k].from..parts[k].to
  <2> DEFINE S == {x \in markers : x <= i}
             last == Max(S)
  <2>1. last \in S /\ \A x \in S : x <= last
    <3>1. j \in S
      BY <1>11
    <3>2. \A x \in markers : x \in 0..Len(lines)
      BY <1>1
    <3>3. S \in SUBSET (0..Len(lines)) /\ S # {}
      BY <3>1, <3>2
    <3> HIDE DEF S
    <3>4. QED BY <1>1, <3>3, MaxIs
  <2>2. last \in markers /\ last <= i
    BY <2>1
  <2>3. PICK k \in 1..n : parts[k].from = last
    BY <1>10, <2>2
  <2>4. parts[k] = part(last)
    BY <1>7, <2>3
  <2>5. i <= part(last).to
    <3> SUFFICES ASSUME ~(i <= part(last).to) PROVE FALSE
      OBVIOUS
    <3> HIDE DEF last, S
    <3>1. part(last).to \in Nat /\ last \in Nat /\ i \in Nat
      BY <1>4, <2>2 DEF Chunks
    <3>2. part(last).to < i /\ i \in last..Len(lines)
      BY <1>1, <2>2, <3>1
    <3>3. PICK m \in markers : last < m /\ m <= i
      BY <1>4, <2>2, <3>2
    <3>4. m \in S
      BY <3>3 DEF S
    <3>5. m <= last /\ m \in Nat
      BY <1>1, <2>1, <3>4
    <3>6. QED BY <3>1, <3>3, <3>5
  <2>6. parts[k].to \in Nat
    <3>1. parts[k] \in Chunks
      BY <1>5
    <3>2. QED BY <3>1 DEF Chunks
  <2> HIDE DEF last, S
  <2>7. i \in parts[k].from..parts[k].to
    BY <1>1, <2>2, <2>3, <2>4, <2>5, <2>6
  <2>8. QED BY <2>7
<1>12. QED BY <1>6, <1>8, <1>9, <1>10, <1>11 DEF PartsOf

LEMMA SplitByPykalaIs ==
    ASSUME NEW lines \in Seq(Lines), WellPaged(lines)
    PROVE  LET parts == SplitByPykala(lines)
           IN  /\ PartsOf(lines, SectionMarkers(lines), parts)
               /\ \A k \in 1..Len(parts) : parts[k].section = parts[k].from
<1> DEFINE markers == SectionMarkers(lines)
           sections == [i \in markers |-> i]
           parts == SplitByPykala(lines)
<1>1. markers \in SUBSET (1..Len(lines)) /\ \A i \in markers : lines[i].kind # "page"
  BY SectionMarkersAre
<1>2. sections \in [markers -> Nat] /\ \A i \in markers : sections[i] = i
  BY <1>1
<1>3. markers \in SUBSET Nat /\ IsFiniteSet(markers)
  <2>1. 1 \in Int /\ Len(lines) \in Int
    OBVIOUS
  <2>2. IsFiniteSet(1..Len(lines))
    BY <2>1, FS_Interval
  <2>3. markers \in SUBSET (1..Len(lines))
    BY <1>1
  <2> HIDE DEF markers
  <2>4. IsFiniteSet(markers)
    BY <2>2, <2>3, FS_Subset
  <2>5. markers \in SUBSET Nat
    BY <2>1, <2>3
  <2>6. QED BY <2>4, <2>5
<1>4. \A k \in DOMAIN Ascending(markers) : Ascending(markers)[k] \in markers
  BY <1>3, AscendingIs
<1> HIDE DEF markers, sections
<1>5. \A k \in DOMAIN Ascending(markers) : sections[Ascending(markers)[k]] = Ascending(markers)[k]
  BY <1>2, <1>4
<1>6. parts = [k \in DOMAIN Ascending(markers) |->
                 Part(lines, markers, Ascending(markers)[k], Ascending(markers)[k])]
  BY DEF SplitByPykala, markers
<1>7. parts = [k \in DOMAIN Ascending(markers) |->
                 Part(lines, markers, Ascending(markers)[k], sections[Ascending(markers)[k]])]
  <2> HIDE DEF parts
  <2>1. QED BY <1>5, <1>6
<1>8. /\ PartsOf(lines, markers, parts)
      /\ \A k \in 1..Len(parts) : parts[k].section = sections[parts[k].from]
  <2> HIDE DEF parts
  <2>1. QED BY <1>1, <1>2, <1>7, SplitIs
<1>9. \A k \in 1..Len(parts) : parts[k].from \in markers
  BY <1>8 DEF PartsOf
<1> HIDE DEF parts
<1>10. QED BY <1>2, <1>8, <1>9 DEF markers, parts

LEMMA SplitByHeadingIs ==
    ASSUME NEW lines \in Seq(Lines), WellPaged(lines)
    PROVE  PartsOf(lines, HeadingMarkers(lines), SplitByHeading(lines))
<1> DEFINE markers == HeadingMarkers(lines)
           sections == [i \in markers |-> 0]
           parts == SplitByHeading(lines)
<1>1. markers \in SUBSET (1..Len(lines)) /\ \A i \in markers : lines[i].kind # "page"
  BY HeadingMarkersAre
<1>2. sections \in [markers -> Nat] /\ \A i \in markers : sections[i] = 0
  BY <1>1
<1>3. markers \in SUBSET Nat /\ IsFiniteSet(markers)
  <2>1. 1 \in Int /\ Len(lines) \in Int
    OBVIOUS
  <2>2. IsFiniteSet(1..Len(lines))
    BY <2>1, FS_Interval
  <2>3. markers \in SUBSET (1..Len(lines))
    BY <1>1
  <2> HIDE DEF markers
  <2>4. IsFiniteSet(markers)
    BY <2>2, <2>3, FS_Subset
  <2>5. markers \in SUBSET Nat
    BY <2>1, <2>3
  <2>6. QED BY <2>4, <2>5
<1>4. \A k \in DOMAIN Ascending(markers) : Ascending(markers)[k] \in markers
  BY <1>3, AscendingIs
<1> HIDE DEF markers, sections
<1>5. \A k \in DOMAIN Ascending(markers) : sections[Ascending(markers)[k]] = 0
  BY <1>2, <1>4
<1>6. parts = [k \in DOMAIN Ascending(markers) |->
                 Part(lines, markers, Ascending(markers)[k], 0)]
  BY DEF SplitByHeading, markers
<1>7. parts = [k \in DOMAIN Ascending(markers) |->
                 Part(lines, markers, Ascending(markers)[k], sections[Ascending(markers)[k]])]
  <2> HIDE DEF parts
  <2>1. QED BY <1>5, <1>6
<1>8. PartsOf(lines, markers, parts)
  <2> HIDE DEF parts
  <2>1. QED BY <1>1, <1>2, <1>7, SplitIs
<1>9. QED BY <1>8 DEF markers, parts

-----------------------------------------------------------------------------
\* Windows.

(***************************************************************************)
(* What _sliding_window makes of one part: windows of it, in order, and no *)
(* line between two of them.                                               *)
(***************************************************************************)
WindowsOf(chunk, windows) ==
    /\ windows \in Seq(Chunks) /\ Len(windows) >= 1 /\ windows[1].from = chunk.from
    /\ \A k \in 1..Len(windows) :
         /\ windows[k].section = chunk.section
         /\ windows[k].page_start = chunk.page_start /\ windows[k].page_end = chunk.page_end
         /\ chunk.from <= windows[k].from /\ windows[k].to <= chunk.to
         /\ chunk.from <= chunk.to => windows[k].from <= chunk.to
    /\ \A k, m \in 1..Len(windows) : k < m => windows[k].from < windows[m].from
    /\ \A i \in chunk.from..chunk.to :
         \E k \in 1..Len(windows) : i \in windows[k].from..windows[k].to

LEMMA OneWindow ==
    ASSUME NEW chunk \in Chunks
    PROVE  WindowsOf(chunk, <<chunk>>)
<1> DEFINE w == <<chunk>>
<1>1. w \in Seq(Chunks) /\ Len(w) = 1 /\ w[1] = chunk
  OBVIOUS
<1>2. chunk.from \in Nat /\ chunk.to \in Nat
  BY DEF Chunks
<1> HIDE DEF w
<1>3. \A k \in 1..Len(w) : k = 1
  BY <1>1
<1>4. WindowsOf(chunk, w)
  BY <1>1, <1>2, <1>3 DEF WindowsOf
<1>5. QED BY <1>4 DEF w

LEMMA WindowsAre ==
    ASSUME NEW chunk \in Chunks
    PROVE  WindowsOf(chunk, SlidingWindow(chunk))
<1> DEFINE size == chunk.to + 1 - chunk.from
           step == MaxLines - OverlapLines
           count == (size + step - 1) \div step
           last(k) == chunk.from + (k - 1) * step + MaxLines - 1
           at(k) == [chunk EXCEPT !.from = @ + (k - 1) * step,
                                  !.to = IF last(k) < @ THEN last(k) ELSE @]
           w == [k \in 1..count |-> at(k)]
<1>1. /\ chunk.from \in Nat /\ chunk.to \in Nat /\ chunk.section \in Nat
      /\ chunk.page_start \in Nat /\ chunk.page_end \in Nat
      /\ chunk = [section |-> chunk.section, from |-> chunk.from, to |-> chunk.to,
                  page_start |-> chunk.page_start, page_end |-> chunk.page_end]
  BY DEF Chunks
<1>2. step \in Nat \ {0} /\ step <= MaxLines /\ MaxLines \in Nat
  BY WindowAssumption
<1>3. CASE size <= MaxLines
  <2>1. SlidingWindow(chunk) = <<chunk>>
    BY <1>3 DEF SlidingWindow
  <2>2. QED BY <2>1, OneWindow
<1>4. CASE ~(size <= MaxLines)
  <2>1. size \in Nat \ {0} /\ chunk.from <= chunk.to
    BY <1>1, <1>2, <1>4
  <2>2. SlidingWindow(chunk) = w
    BY <1>4 DEF SlidingWindow
  <2>3. size = chunk.to + 1 - chunk.from
    OBVIOUS
  <2> HIDE DEF size, step
  <2>4. /\ count \in Nat /\ count * step <= size + step - 1
        /\ size + step - 1 < count * step + step
    <3>1. size + step - 1 \in Nat
      BY <1>2, <2>1
    <3>2. QED BY <1>2, <3>1, DivIs
  <2> HIDE DEF count
  <2>5. ASSUME NEW k \in 1..count
        PROVE  (k - 1) * step \in Nat /\ (k - 1) * step < size
    <3>1. k - 1 \in Nat /\ k - 1 < count
      BY <2>4
    <3>2. (k - 1) * step \in Nat /\ count * step \in Nat /\ (k - 1) * step + step <= count * step
      BY <1>2, <2>4, <3>1, Multiples
    <3>3. QED BY <1>2, <2>1, <2>4, <3>2
  <2>6. ASSUME NEW k \in 1..count
        PROVE  /\ at(k) \in Chunks
               /\ at(k).from = chunk.from + (k - 1) * step
               /\ at(k).to = IF last(k) < chunk.to THEN last(k) ELSE chunk.to
               /\ at(k).section = chunk.section
               /\ at(k).page_start = chunk.page_start /\ at(k).page_end = chunk.page_end
    <3> DEFINE from == chunk.from + (k - 1) * step
               to == IF last(k) < chunk.to THEN last(k) ELSE chunk.to
    <3>1. from \in Nat /\ last(k) \in Nat
      <4> DEFINE o == (k - 1) * step
      <4>1. o \in Nat /\ last(k) = chunk.from + o + MaxLines - 1 /\ from = chunk.from + o
        BY <2>5
      <4> HIDE DEF o, last, from
      <4>2. QED BY <1>1, <1>2, <2>1, <4>1
    <3>2. to \in Nat
      BY <1>1, <3>1
    <3>3. at(k) = [chunk EXCEPT !.from = from, !.to = to]
      OBVIOUS
    <3> HIDE DEF from, to, at
    <3> DEFINE c == [chunk EXCEPT !.from = from, !.to = to]
    <3>4. /\ c \in Chunks /\ c.from = from /\ c.to = to
          /\ c.section = chunk.section
          /\ c.page_start = chunk.page_start /\ c.page_end = chunk.page_end
      BY <3>1, <3>2 DEF Chunks
    <3>5. at(k) = c
      BY <3>3
    <3> HIDE DEF c
    <3>6. QED BY <3>4, <3>5 DEF from, to
  <2> HIDE DEF at
  <2>7. ASSUME NEW k \in 1..count
        PROVE  chunk.from <= at(k).from /\ at(k).from <= chunk.to /\ at(k).to <= chunk.to
    <3> DEFINE o == (k - 1) * step
    <3>1. o \in Nat /\ o < size
      BY <2>5
    <3>2. at(k).from = chunk.from + o
      BY <2>6
    <3>3. at(k).to = IF last(k) < chunk.to THEN last(k) ELSE chunk.to
      BY <2>6
    <3>4. at(k).to \in Nat
      BY <2>6 DEF Chunks
    <3> HIDE DEF o, last
    <3>5. chunk.from <= at(k).from /\ at(k).from <= chunk.to
      BY <1>1, <2>1, <2>3, <3>1, <3>2
    <3>6. at(k).to <= chunk.to
      BY <1>1, <3>3, <3>4
    <3>7. QED BY <3>5, <3>6
  <2>8. /\ w \in [1..count -> Chunks] /\ \A k \in 1..count : w[k] = at(k)
    BY <2>6
  <2> HIDE DEF w
  <2>9. w \in Seq(Chunks) /\ Len(w) = count
    BY <2>4, <2>8
  <2>10. ASSUME NEW k \in 1..count, NEW m \in 1..count, k < m
         PROVE  w[k].from < w[m].from
    <3> DEFINE o == (k - 1) * step
               p == (m - 1) * step
    <3>1. k - 1 \in Nat /\ m - 1 \in Nat /\ k - 1 < m - 1
      BY <2>10
    <3>2. o \in Nat /\ p \in Nat /\ o + step <= p
      BY <1>2, <3>1, Multiples
    <3>3. w[k].from = chunk.from + o /\ w[m].from = chunk.from + p
      BY <2>6, <2>8
    <3> HIDE DEF o, p
    <3>4. QED BY <1>1, <1>2, <3>2, <3>3
  <2>11. ASSUME NEW i \in chunk.from..chunk.to
         PROVE  \E k \in 1..count : i \in w[k].from..w[k].to
    <3> DEFINE o == i - chunk.from
               q == o \div step
    <3>1. o \in Nat /\ o < size /\ i = chunk.from + o
      BY <1>1, <2>1, <2>3
    <3> HIDE DEF o
    <3>2. q \in Nat /\ q * step <= o /\ o < q * step + step
      BY <1>2, <3>1, DivIs
    <3> HIDE DEF q
    <3>3. q < count
      <4> SUFFICES ASSUME ~(q < count) PROVE FALSE
        OBVIOUS
      <4>1. count * step <= q * step /\ count * step \in Nat /\ q * step \in Nat
        <5>1. CASE count = q
          BY <1>2, <2>4, <3>2, <5>1
        <5>2. CASE count < q
          <6>1. count * step \in Nat /\ q * step \in Nat /\ count * step + step <= q * step
            BY <1>2, <2>4, <3>2, <5>2, Multiples
          <6>2. QED BY <1>2, <6>1
        <5>3. QED BY <2>4, <3>2, <5>1, <5>2
      <4>2. QED BY <1>2, <2>1, <2>4, <3>1, <3>2, <4>1
    <3> DEFINE k == q + 1
    <3>4. k \in 1..count /\ k - 1 = q
      BY <2>4, <3>2, <3>3
    <3> HIDE DEF k
    <3>5. /\ w[k].from = chunk.from + q * step
          /\ w[k].to = IF last(k) < chunk.to THEN last(k) ELSE chunk.to
          /\ last(k) = chunk.from + q * step + MaxLines - 1
      BY <2>6, <2>8, <3>4
    <3>6. q * step \in Nat
      BY <1>2, <3>2
    <3> HIDE DEF last
    <3>7. w[k].from <= i /\ i <= w[k].to /\ w[k].from \in Nat /\ w[k].to \in Nat
      BY <1>1, <1>2, <3>1, <3>2, <3>5, <3>6
    <3>8. i \in w[k].from..w[k].to
      BY <1>1, <3>1, <3>7
    <3>9. QED BY <3>4, <3>8
  <2>12. 1 \in 1..count /\ w[1].from = chunk.from
    <3>1. count # 0
      BY <1>2, <2>1, <2>4
    <3>2. 1 \in 1..count
      BY <2>4, <3>1
    <3>3. w[1].from = chunk.from + (1 - 1) * step
      BY <2>6, <2>8, <3>2
    <3>4. (1 - 1) * step = 0
      BY <1>2
    <3>5. QED BY <1>1, <3>2, <3>3, <3>4
  <2>13. \A k \in 1..count :
           /\ w[k].section = chunk.section
           /\ w[k].page_start = chunk.page_start /\ w[k].page_end = chunk.page_end
           /\ chunk.from <= w[k].from /\ w[k].to <= chunk.to
           /\ w[k].from <= chunk.to
    BY <2>6, <2>7, <2>8
  <2>14. WindowsOf(chunk, w)
    BY <2>4, <2>9, <2>10, <2>11, <2>12, <2>13 DEF WindowsOf
  <2>15. QED BY <2>2, <2>14
<1>5. QED BY <1>3, <1>4

-----------------------------------------------------------------------------
\* Chunks.

(***************************************************************************)
(* The windows of consecutive parts: each is of one part, none is lost and *)
(* they are in order.                                                      *)
(***************************************************************************)
ChunksOf(parts, chunks) ==
    /\ chunks \in Seq(Chunks)
    /\ \A k \in 1..Len(chunks) : \E p \in 1..Len(parts) :
         /\ chunks[k].page_start = parts[p].page_start
         /\ chunks[k].page_end = parts[p].page_end
         /\ parts[p].from <= chunks[k].from /\ chunks[k].to <= parts[p].to
    /\ \A p \in 1..Len(parts) :
         /\ \A i \in parts[p].from..parts[p].to :
              \E k \in 1..Len(chunks) : i \in chunks[k].from..chunks[k].to
         /\ \E k \in 1..Len(chunks) :
              chunks[k].from = parts[p].from /\ chunks[k].section = parts[p].section
    /\ \A k, m \in 1..Len(chunks) : k < m => chunks[k].from < chunks[m].from

LEMMA ChunksAre ==
    ASSUME NEW parts \in Seq(Chunks),
           \A k, m \in 1..Len(parts) : k < m =>
             /\ parts[k].from <= parts[k].to /\ parts[m].from <= parts[m].to
             /\ parts[k].to < parts[m].from
    PROVE  ChunksOf(parts, FlattenSeq([k \in DOMAIN parts |-> SlidingWindow(parts[k])]))
<1> DEFINE ws == [k \in DOMAIN parts |-> SlidingWindow(parts[k])]
           chunks == FlattenSeq(ws)
           N == Len(parts)
<1>1. N \in Nat /\ DOMAIN parts = 1..N /\ \A p \in 1..N : parts[p] \in Chunks
  OBVIOUS
<1>2. \A p \in 1..N : ws[p] = SlidingWindow(parts[p]) /\ WindowsOf(parts[p], ws[p])
  BY <1>1, WindowsAre
<1>3. ws \in Seq(Seq(Chunks)) /\ Len(ws) = N
  <2>1. \A p \in 1..N : ws[p] \in Seq(Chunks)
    BY <1>2 DEF WindowsOf
  <2>2. ws \in [1..N -> Seq(Chunks)]
    BY <1>1, <2>1
  <2>3. QED BY <1>1, <2>2
<1> HIDE DEF ws, N
<1>4. chunks \in Seq(Chunks) /\ \E place : Placed(chunks, ws, N, place)
  BY <1>3, FlattenIs
<1>5. PICK place : Placed(chunks, ws, N, place)
  BY <1>4
<1> HIDE DEF chunks
<1>6. ASSUME NEW k \in 1..Len(chunks)
      PROVE  /\ place[k] \in Nat \X Nat
             /\ place[k][1] \in 1..N /\ place[k][2] \in 1..Len(ws[place[k][1]])
             /\ chunks[k] = ws[place[k][1]][place[k][2]]
  BY <1>5 DEF Placed
<1>6a. ASSUME NEW p \in 1..N, NEW j \in 1..Len(ws[p])
       PROVE  /\ ws[p][j].page_start = parts[p].page_start
              /\ ws[p][j].page_end = parts[p].page_end
              /\ parts[p].from <= ws[p][j].from /\ ws[p][j].to <= parts[p].to
              /\ parts[p].from <= parts[p].to => ws[p][j].from <= parts[p].to
              /\ \A i \in 1..Len(ws[p]) : i < j => ws[p][i].from < ws[p][j].from
  <2>1. WindowsOf(parts[p], ws[p])
    BY <1>2
  <2>2. QED BY <2>1 DEF WindowsOf
<1>7. ASSUME NEW p \in 1..N, NEW j \in 1..Len(ws[p])
      PROVE  \E k \in 1..Len(chunks) : chunks[k] = ws[p][j]
  <2>1. PICK k \in 1..Len(chunks) : place[k] = <<p, j>>
    BY <1>5 DEF Placed
  <2>2. place[k][1] = p /\ place[k][2] = j
    BY <2>1
  <2>3. QED BY <1>6, <2>2
<1>8. ASSUME NEW k \in 1..Len(chunks)
      PROVE  \E p \in 1..N :
               /\ chunks[k].page_start = parts[p].page_start
               /\ chunks[k].page_end = parts[p].page_end
               /\ parts[p].from <= chunks[k].from /\ chunks[k].to <= parts[p].to
  <2> DEFINE p == place[k][1]
             j == place[k][2]
  <2>1. p \in 1..N /\ j \in 1..Len(ws[p]) /\ chunks[k] = ws[p][j]
    BY <1>6
  <2> HIDE DEF p, j
  <2>2. QED BY <1>6a, <2>1
<1>9. ASSUME NEW p \in 1..N, NEW i \in parts[p].from..parts[p].to
      PROVE  \E k \in 1..Len(chunks) : i \in chunks[k].from..chunks[k].to
  <2>1. PICK j \in 1..Len(ws[p]) : i \in ws[p][j].from..ws[p][j].to
    BY <1>2 DEF WindowsOf
  <2>2. PICK k \in 1..Len(chunks) : chunks[k] = ws[p][j]
    BY <1>7
  <2>3. QED BY <2>1, <2>2
<1>10. ASSUME NEW p \in 1..N
       PROVE  \E k \in 1..Len(chunks) :
                chunks[k].from = parts[p].from /\ chunks[k].section = parts[p].section
  <2>1. WindowsOf(parts[p], ws[p])
    BY <1>2
  <2>2. 1 \in 1..Len(ws[p])
    BY <2>1 DEF WindowsOf
  <2>3. PICK k \in 1..Len(chunks) : chunks[k] = ws[p][1]
    BY <1>7, <2>2
  <2>4. QED BY <2>1, <2>2, <2>3 DEF WindowsOf
<1>11. ASSUME NEW k \in 1..Len(chunks), NEW m \in 1..Len(chunks), k < m
       PROVE  chunks[k].from < chunks[m].from
  <2> DEFINE p == place[k][1]
             q == place[m][1]
  <2>1. Before(place[k], place[m])
    BY <1>5, <1>11 DEF Placed
  <2>2. p \in 1..N /\ q \in 1..N
    BY <1>6
  <2>2a. /\ place[k][2] \in 1..Len(ws[p]) /\ chunks[k] = ws[p][place[k][2]]
         /\ place[m][2] \in 1..Len(ws[q]) /\ chunks[m] = ws[q][place[m][2]]
    BY <1>6
  <2>3. CASE p = q /\ place[k][2] < place[m][2]
    <3> DEFINE i == place[k][2]
               j == place[m][2]
    <3>1. /\ p \in 1..N /\ i \in 1..Len(ws[p]) /\ j \in 1..Len(ws[p]) /\ i < j
          /\ chunks[k] = ws[p][i] /\ chunks[m] = ws[p][j]
      BY <2>2, <2>2a, <2>3
    <3> HIDE DEF p, i, j
    <3>2. ws[p][i].from < ws[p][j].from
      BY <1>6a, <3>1
    <3>3. QED BY <3>1, <3>2
  <2>4. CASE p < q
    <3>1. parts[p].from <= parts[p].to /\ parts[p].to < parts[q].from
      BY <2>2, <2>4 DEF N
    <3>2. chunks[k].from <= parts[p].to
      BY <1>6a, <2>2, <2>2a, <3>1
    <3>3. parts[q].from <= chunks[m].from
      BY <1>6a, <2>2, <2>2a
    <3>4. chunks[k] \in Chunks /\ chunks[m] \in Chunks /\ parts[p] \in Chunks /\ parts[q] \in Chunks
      BY <1>1, <1>4, <2>2
    <3>5. /\ chunks[k].from \in Nat /\ chunks[m].from \in Nat
          /\ parts[p].to \in Nat /\ parts[q].from \in Nat
      BY <3>4 DEF Chunks
    <3>6. QED BY <3>1, <3>2, <3>3, <3>5
  <2>5. QED BY <2>1, <2>3, <2>4 DEF Before
<1>12. ChunksOf(parts, chunks)
  BY <1>4, <1>8, <1>9, <1>10, <1>11 DEF ChunksOf, N
<1>13. QED BY <1>12 DEF chunks, ws

(***************************************************************************)
(* The part of a text without markers.                                     *)
(***************************************************************************)
LEMMA WholeTextIs ==
    ASSUME NEW lines \in Seq(Lines)
    PROVE  ChunksOf(<<WholeText(lines)>>,
                    FlattenSeq([k \in DOMAIN <<WholeText(lines)>> |->
                                  SlidingWindow(<<WholeText(lines)>>[k])]))
<1> DEFINE parts == <<WholeText(lines)>>
<1>1. WholeText(lines) \in Chunks
  <2>1. Len(lines) \in Nat
    OBVIOUS
  <2>2. QED BY <2>1 DEF WholeText, Chunks
<1>2. parts \in Seq(Chunks) /\ Len(parts) = 1
  BY <1>1
<1> HIDE DEF parts
<1>3. \A k, m \in 1..Len(parts) : ~(k < m)
  BY <1>2
<1>4. ChunksOf(parts, FlattenSeq([k \in DOMAIN parts |-> SlidingWindow(parts[k])]))
  BY <1>2, <1>3, ChunksAre
<1>5. QED BY <1>4 DEF parts

(***************************************************************************)
(* chunk_document of a text with markers.                                  *)
(***************************************************************************)
LEMMA MarkedChunks ==
    ASSUME NEW lines \in Seq(Lines), NEW markers, NEW parts, PartsOf(lines, markers, parts)
    PROVE  ChunksOf(parts, FlattenSeq([k \in DOMAIN parts |-> SlidingWindow(parts[k])]))
<1>1. parts \in Seq(Chunks)
  BY DEF PartsOf
<1>2. \A k, m \in 1..Len(parts) : k < m =>
        /\ parts[k].from <= parts[k].to /\ parts[m].from <= parts[m].to
        /\ parts[k].to < parts[m].from
  BY DEF PartsOf
<1>3. QED BY <1>1, <1>2, ChunksAre

LEMMA ChunkDocumentIs ==
    ASSUME NEW lines \in Seq(Lines), WellPaged(lines), NEW docType
    PROVE  LET chunks == ChunkDocument(lines, docType)
               parts == Primary(lines, docType)
           IN  /\ chunks \in Seq(Chunks) /\ ChunksOf(parts, chunks)
               /\ docType \in Sectioned /\ SectionMarkers(lines) # {} =>
                    /\ PartsOf(lines, SectionMarkers(lines), parts)
                    /\ \A k \in 1..Len(parts) : parts[k].section = parts[k].from
               /\ ~(docType \in Sectioned /\ SectionMarkers(lines) # {})
                  /\ HeadingMarkers(lines) # {} =>
                    PartsOf(lines, HeadingMarkers(lines), parts)
               /\ ~Marked(lines, docType) => parts = <<WholeText(lines)>>
<1> DEFINE parts == Primary(lines, docType)
           chunks == ChunkDocument(lines, docType)
<1>1. chunks = FlattenSeq([k \in DOMAIN parts |-> SlidingWindow(parts[k])])
  BY DEF ChunkDocument
<1>2. CASE docType \in Sectioned /\ SectionMarkers(lines) # {}
  <2>1. parts = SplitByPykala(lines)
    BY <1>2 DEF Primary
  <2> HIDE DEF parts, chunks
  <2>2. /\ PartsOf(lines, SectionMarkers(lines), parts)
        /\ \A k \in 1..Len(parts) : parts[k].section = parts[k].from
    BY <2>1, SplitByPykalaIs
  <2>3. ChunksOf(parts, chunks)
    BY <1>1, <2>2, MarkedChunks
  <2>4. QED BY <1>2, <2>2, <2>3 DEF ChunksOf, Marked, parts, chunks
<1>3. CASE ~(docType \in Sectioned /\ SectionMarkers(lines) # {}) /\ HeadingMarkers(lines) # {}
  <2>1. parts = SplitByHeading(lines)
    BY <1>3 DEF Primary
  <2> HIDE DEF parts, chunks
  <2>2. PartsOf(lines, HeadingMarkers(lines), parts)
    BY <2>1, SplitByHeadingIs
  <2>3. ChunksOf(parts, chunks)
    BY <1>1, <2>2, MarkedChunks
  <2>4. QED BY <1>3, <2>2, <2>3 DEF ChunksOf, Marked, parts, chunks
<1>4. CASE ~Marked(lines, docType)
  <2>1. parts = <<WholeText(lines)>>
    BY <1>4 DEF Primary, Marked
  <2> HIDE DEF parts, chunks
  <2>2. ChunksOf(parts, chunks)
    BY <1>1, <2>1, WholeTextIs
  <2>3. QED BY <1>4, <2>1, <2>2 DEF ChunksOf, Marked, parts, chunks
<1>5. QED BY <1>2, <1>3, <1>4 DEF Marked

(***************************************************************************)
(* No text is lost, and sections begin chunks of their own.                *)
(***************************************************************************)
LEMMA TextKept ==
    ASSUME NEW lines \in Seq(Lines), WellPaged(lines), NEW docType
    PROVE  ChunksHoldText(lines, docType, ChunkDocument(lines, docType))
<1> DEFINE chunks == ChunkDocument(lines, docType)
           parts == Primary(lines, docType)
           bySection == docType \in Sectioned /\ SectionMarkers(lines) # {}
           markers == IF bySection THEN SectionMarkers(lines) ELSE HeadingMarkers(lines)
           first == IF markers = {} THEN 1 ELSE Min(markers)
<1>1. /\ chunks \in Seq(Chunks) /\ ChunksOf(parts, chunks)
      /\ bySection => /\ PartsOf(lines, SectionMarkers(lines), parts)
                      /\ \A k \in 1..Len(parts) : parts[k].section = parts[k].from
      /\ ~bySection /\ HeadingMarkers(lines) # {} => PartsOf(lines, HeadingMarkers(lines), parts)
      /\ ~Marked(lines, docType) => parts = <<WholeText(lines)>>
  BY ChunkDocumentIs
<1>2. Marked(lines, docType) <=> markers # {}
  BY DEF Marked
<1>3. markers # {} => PartsOf(lines, markers, parts)
  BY <1>1
<1>4. Len(lines) \in Nat /\ markers \in SUBSET (1..Len(lines))
  BY SectionMarkersAre, HeadingMarkersAre
<1>5. markers = {} => parts = <<WholeText(lines)>>
  BY <1>1, <1>2
<1> HIDE DEF parts, chunks
<1>6. ASSUME NEW i \in first..Len(lines)
      PROVE  \E k \in 1..Len(chunks) : i \in chunks[k].from..chunks[k].to
  <2>1. \E p \in 1..Len(parts) : i \in parts[p].from..parts[p].to
    <3>1. CASE markers = {}
      <4>1. parts = <<WholeText(lines)>> /\ first = 1
        BY <1>5, <3>1
      <4>2. Len(parts) = 1 /\ parts[1] = WholeText(lines)
        BY <4>1
      <4>3. WholeText(lines).from = 1 /\ WholeText(lines).to = Len(lines)
        BY DEF WholeText
      <4>4. i \in parts[1].from..parts[1].to
        BY <4>1, <4>2, <4>3
      <4>5. QED BY <4>2, <4>4
    <3>2. CASE markers # {}
      <4>1. first \in markers
        <5>1. markers \in SUBSET Nat
          BY <1>4
        <5>2. first = Min(markers)
          BY <3>2
        <5> HIDE DEF markers, first
        <5>3. QED BY <3>2, <5>1, <5>2, MinIs
      <4> HIDE DEF markers, first
      <4>2. i \in 1..Len(lines) /\ first <= i
        BY <1>4, <4>1
      <4>3. QED BY <1>3, <3>2, <4>1, <4>2 DEF PartsOf
    <3>3. QED BY <3>1, <3>2
  <2>2. QED BY <1>1, <2>1 DEF ChunksOf
<1>7. \A k, m \in 1..Len(chunks) : k < m => chunks[k].from < chunks[m].from
  BY <1>1 DEF ChunksOf
<1>8. ASSUME docType \in Sectioned, NEW i \in 1..Len(lines),
             lines[i].kind \in {"section", "bare"},
             i > 1 => lines[i - 1].kind # "bare"
      PROVE  \E k \in 1..Len(chunks) : chunks[k].from = i /\ chunks[k].section = i
  <2>1. i \in SectionMarkers(lines)
    BY <1>8, SectionMarkersAre
  <2>2. bySection
    BY <1>8, <2>1
  <2>3. PICK p \in 1..Len(parts) : parts[p].from = i
    BY <1>1, <2>1, <2>2 DEF PartsOf
  <2>4. parts[p].section = i
    BY <1>1, <2>2, <2>3
  <2>5. \E k \in 1..Len(chunks) :
          chunks[k].from = parts[p].from /\ chunks[k].section = parts[p].section
    BY <1>1, <2>3 DEF ChunksOf
  <2>6. QED BY <2>3, <2>4, <2>5
<1>9. DOMAIN chunks = 1..Len(chunks)
  BY <1>1
<1>10. QED BY <1>6, <1>7, <1>8, <1>9 DEF ChunksHoldText, chunks

(***************************************************************************)
(* Each line of a chunk is on one of its pages.                            *)
(***************************************************************************)
LEMMA PagesKept ==
    ASSUME NEW lines \in Seq(Lines), WellPaged(lines), NEW docType
    PROVE  ChunksKnowTheirPages(lines, docType, ChunkDocument(lines, docType))
<1> DEFINE chunks == ChunkDocument(lines, docType)
           parts == Primary(lines, docType)
<1>1. chunks \in Seq(Chunks) /\ ChunksOf(parts, chunks)
  BY ChunkDocumentIs
<1>2. Marked(lines, docType) => \E markers : PartsOf(lines, markers, parts)
  BY ChunkDocumentIs DEF Marked
<1> HIDE DEF parts, chunks
<1>3. ASSUME Marked(lines, docType), NEW k \in 1..Len(chunks),
             NEW i \in chunks[k].from..chunks[k].to
      PROVE  lines[i].page \in chunks[k].page_start..chunks[k].page_end
  <2>1. PICK markers : PartsOf(lines, markers, parts)
    BY <1>2, <1>3
  <2>2. PICK p \in 1..Len(parts) :
          /\ chunks[k].page_start = parts[p].page_start
          /\ chunks[k].page_end = parts[p].page_end
          /\ parts[p].from <= chunks[k].from /\ chunks[k].to <= parts[p].to
    BY <1>1 DEF ChunksOf
  <2>3. chunks[k] \in Chunks /\ parts[p] \in Chunks
    BY <1>1, <2>1 DEF PartsOf
  <2>4. /\ chunks[k].from \in Nat /\ chunks[k].to \in Nat
        /\ parts[p].from \in Nat /\ parts[p].to \in Nat
    BY <2>3 DEF Chunks
  <2>5. i \in parts[p].from..parts[p].to
    <3>1. i \in Int /\ chunks[k].from <= i /\ i <= chunks[k].to
      BY <1>3, <2>4
    <3>2. parts[p].from <= chunks[k].from /\ chunks[k].to <= parts[p].to
      BY <2>2
    <3>3. QED BY <2>4, <3>1, <3>2
  <2>6. lines[i].page \in parts[p].page_start..parts[p].page_end
    BY <2>1, <2>5 DEF PartsOf
  <2>7. QED BY <2>2, <2>6
<1>4. DOMAIN chunks = 1..Len(chunks)
  BY <1>1
<1>5. QED BY <1>3, <1>4 DEF ChunksKnowTheirPages, chunks
=============================================================================

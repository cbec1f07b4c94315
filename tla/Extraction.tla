----------------------------- MODULE Extraction -----------------------------
(***************************************************************************)
(* ExtractionPipeline.extract_document over its two LLM clients: the       *)
(* chunks of one document are asked for a decision one after the other.    *)
(* The remote client repeats a call that raised, whatever it raised; what  *)
(* is raised after that is not a ValueError and goes through to ingest.    *)
(* Whatever ValueError the local client raises, also one of the libraries  *)
(* that load its model, leaves the chunk out.  That a model half loaded    *)
(* never answers is left out: a call may always do any of these.           *)
(***************************************************************************)
EXTENDS Chunking

CONSTANTS
    NoValue,
    MaxAttempts         \* stop_after_attempt of the remote client

ASSUME AttemptsAssumption == MaxAttempts \in Nat \ {0}

VARIABLES
    settings,           \* deployment and command line, fixed for a behaviour
    extraction          \* locals of extract_document, or NoValue

\* What is wrong with a call: no answer but a ValueError, or another exception;
\* an answer that is no JSON, and JSON that is no DecisionItem.
Troubles == {"value_error", "outage", "not_json", "not_valid"}

\* History: the chunks answered with something that is no decision, and those
\* left out without an answer.
BeginExtraction(chunks) ==
    extraction' = [chunks |-> chunks, next |-> 1, attempts |-> 0,
                   decisions |-> <<>>, misread |-> {}, unanswered |-> {}]

Extracting == extraction # NoValue /\ extraction.next <= Len(extraction.chunks)

Extracted == extraction # NoValue /\ extraction.next > Len(extraction.chunks)

\* Mutant: every chunk is asked about.
AnyChunk(chunk) == TRUE

Extractable(chunk) == chunk.section # 0

Asking == Extracting /\ Extractable(extraction.chunks[extraction.next])

\* On to the next chunk.
Settle(decisions, misread, unanswered) ==
    extraction' = [extraction EXCEPT !.next = @ + 1, !.attempts = 0,
                                     !.decisions = decisions, !.misread = misread,
                                     !.unanswered = unanswered]

SkipChunk ==
    /\ Extracting
    /\ ~Extractable(extraction.chunks[extraction.next])
    /\ Settle(extraction.decisions, extraction.misread, extraction.unanswered)

\* generate_json returns, and DecisionItem.model_validate accepts.
Decide ==
    /\ Asking
    /\ Settle(Append(extraction.decisions, extraction.next),
              extraction.misread, extraction.unanswered)

\* Mutant: extract_decision catches everything.
CaughtAll == Troubles

\* ValidationError and ValueError are caught; what the remote client raised,
\* also a ValueError, is wrapped in a RetryError by then.
Caught == IF settings.remote THEN {"not_valid"}
          ELSE {"value_error", "not_json", "not_valid"}

LeaveOut(trouble) ==
    /\ Asking
    /\ trouble \in Caught
    /\ Settle(extraction.decisions,
              extraction.misread \cup
                 {k \in {extraction.next} : trouble \in {"not_json", "not_valid"}},
              extraction.unanswered \cup
                 {k \in {extraction.next} : trouble = "value_error"})

\* Mutant: one call too many.
OneMoreAttempt == extraction.attempts = MaxAttempts

LastAttempt == extraction.attempts + 1 = MaxAttempts

\* tenacity: the remote client waits and asks again.
Repeat(trouble) ==
    /\ Asking
    /\ settings.remote
    /\ trouble # "not_valid"
    /\ ~LastAttempt
    /\ extraction' = [extraction EXCEPT !.attempts = @ + 1]

\* The exception leaves extract_document, and ingest.
Raises(trouble) ==
    /\ Asking
    /\ trouble \notin Caught
    /\ settings.remote => LastAttempt

Extract ==
    \/ SkipChunk \/ Decide
    \/ \E trouble \in Troubles : LeaveOut(trouble) \/ Repeat(trouble)

-----------------------------------------------------------------------------
Extractions == [chunks : Seq(Chunks), next : Nat, attempts : Nat,
                decisions : Seq(Nat), misread : SUBSET Nat,
                unanswered : SUBSET Nat]

Structures == [chunks : Seq(Chunks), decisions : Seq(Nat),
               misread : SUBSET Nat, unanswered : SUBSET Nat]

ExtractionTypeOK ==
    extraction # NoValue =>
      /\ extraction.chunks \in Seq(Chunks)
      /\ extraction.next \in 1..(Len(extraction.chunks) + 1)
      /\ extraction.attempts \in 0..(MaxAttempts - 1)
      /\ extraction.decisions \in Seq(1..Len(extraction.chunks))
      /\ extraction.misread \subseteq 1..Len(extraction.chunks)
      /\ extraction.unanswered \subseteq 1..Len(extraction.chunks)
=============================================================================

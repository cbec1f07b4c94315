------------------------------- MODULE WebApi -------------------------------
(***************************************************************************)
(* The front end over the API: a turn of a tab is a request without a key  *)
(* or a tenant (lib/api/client.ts sends neither), routed to one of two     *)
(* endpoints by classifyQuery; other clients send requests of their own.   *)
(* A reply may be lost on its way, and a tab may be gone when it comes.    *)
(***************************************************************************)
EXTENDS Access, Sequences

CONSTANTS
    Tabs,
    DefaultMode,        \* DEFAULT_MODE of a new session
    MaxEntries,         \* MAX_ENTRIES of the stored history
    Past,               \* requests of earlier sessions ...
    PastHistories,      \* ... and what they may have left of the history
    MaxSwitches,        \* bound: changes of mode
    QueryClass,         \* classifyQuery of each question
    Calls               \* what other clients send

ASSUME WebAssumption ==
    /\ DefaultMode \in Modes
    /\ MaxEntries \in Nat \ {0}
    /\ MaxSwitches \in Nat
    /\ QueryClass \in [Questions -> {"rag", "aggregate"}]
    /\ Requests \subseteq Nat
    /\ Calls \subseteq [endpoint : Endpoints, key : KeyIds \cup {NoValue},
                        claimed : Tenants \cup {NoValue}, question : Questions,
                        mode : Modes \cup {NoValue}]

VARIABLES turns, mode, savedMode, history, pushing, stored, switches

INSTANCE ChatHistory

ASSUME TabsAssumption ==
    NoValue \notin Turns \cup Pushes \cup Seq(HistoryEntries)

ASSUME PastAssumption ==
    /\ Past \cap Requests = {}
    /\ \A h \in PastHistories :
         /\ h \in Seq(HistoryEntries) /\ WellOrdered(h)
         /\ \A i \in DOMAIN h : h[i].request \in Past /\ h[i].before \subseteq Past

tabVars == <<turns, mode, savedMode, history, pushing, stored, switches>>
webVars == <<vars, tabVars>>

\* With auth off nobody reads the keys: those behaviours are without them.
\* With auth on the front end is refused and pushes nothing: those behaviours
\* have its questions, but not what else its tabs do.
WebInit ==
    /\ Init /\ ChatInit
    /\ ~authEnabled => keys = [k \in KeyIds |-> NoValue]

EndpointOf(question) == IF QueryClass[question] = "rag" THEN "query" ELSE "aggregate"

\* api.query and api.aggregate.
Ask(tab, r, question) ==
    /\ Submit(tab, r)
    /\ Arrive(r, EndpointOf(question), NoValue, NoValue, question,
              IF QueryClass[question] = "rag" THEN mode[tab] ELSE NoValue)

\* A client with a key, a tenant in the body, or both; with auth off the key
\* is not looked at.
ClientAsks(r, call) ==
    /\ call.key # NoValue => authEnabled
    /\ Arrive(r, call.endpoint, call.key, call.claimed, call.question, call.mode)
    /\ UNCHANGED tabVars

\* Mutant: the status of the reply is not looked at.
AnyReplyAnswers(r) ==
    /\ requests[r] # NoValue
    /\ requests[r].reply # NoValue
    /\ ReceiveAnswer(r)
    /\ UNCHANGED vars

\* request<T>: a 2xx reply with its JSON.
GetAnswer(r) ==
    /\ requests[r] # NoValue
    /\ requests[r].reply = "ok"
    /\ ReceiveAnswer(r)
    /\ UNCHANGED vars

\* Any other reply: an ApiError.
GetError(r) ==
    /\ requests[r] # NoValue
    /\ requests[r].reply \in {"refused", "failed"}
    /\ ReceiveError(r)
    /\ UNCHANGED vars

\* The connection breaks and fetch rejects; the server works on.
LoseReply(r) == ReceiveError(r) /\ UNCHANGED vars

Serve(r) == Handle(r) /\ UNCHANGED tabVars

Show(r) == GetAnswer(r) \/ GetError(r)

Push(tab) ==
    (LoadHistory(tab) \/ StoreHistory(tab) \/ StoreThrows(tab)) /\ UNCHANGED vars

\* Requests are numbered in the order they are sent.
WebNext ==
    \/ \E r \in Requests :
         /\ \A s \in Requests : s < r => requests[s] # NoValue
         /\ \/ \E tab \in Tabs, question \in Questions : Ask(tab, r, question)
            \/ \E call \in Calls : ClientAsks(r, call)
    \/ \E r \in Requests : Serve(r) \/ Show(r) \/ LoseReply(r)
    \/ \E tab \in Tabs : Push(tab)
    \/ ((authEnabled /\ Administer) \/ Crash) /\ UNCHANGED tabVars
    \/ Browse /\ ~authEnabled /\ UNCHANGED vars

WebSpec == WebInit /\ [][WebNext]_webVars

Proceed == \/ \E r \in Requests : Serve(r) \/ Show(r)
           \/ \E tab \in Tabs : Push(tab)

\* Threads, the event loop and the scripts of the tabs go on as long as there
\* is work for one of them.  A request takes finitely many steps, so none of
\* them need be treated fairly by itself.
WebFairSpec == WebSpec /\ WF_webVars(Proceed)

-----------------------------------------------------------------------------
\* Properties.

WebTypeOK == TypeOK /\ ChatTypeOK

(***************************************************************************)
(* What the history offers to ask again was answered: every entry is of a  *)
(* request the API answered, with the mode that the answer was asked in,   *)
(* whatever the tabs are switched to meanwhile.  (The entries of earlier   *)
(* sessions are taken to be as true.)                                      *)
(***************************************************************************)
HistoryIsAnswered ==
    \A i \in DOMAIN history : history[i].request \notin Past =>
      LET r == history[i].request IN
      /\ requests[r] # NoValue
      /\ requests[r].reply = "ok"
      /\ requests[r].endpoint = "query" => requests[r].mode = history[i].mode

(***************************************************************************)
(* A turn that shows an answer was answered, and the audit row of a turn's *)
(* request, if there is one, says the mode that the turn shows, also after *)
(* a crash of the API, a lost reply or a reload of another tab.            *)
(***************************************************************************)
TurnsAreTrue ==
    \A r \in Requests : turns[r] # NoValue =>
      /\ requests[r] # NoValue
      /\ turns[r].status = "ok" => requests[r].reply = "ok"
      /\ \A row \in audit :
           row.request = r /\ row.endpoint = "query" => row.mode = turns[r].mode

(***************************************************************************)
(* No turn shows the skeleton for ever, also when an upload holds the      *)
(* event loop (api/routes/ingest.py:28), the handler raises or the process *)
(* dies: an answer, an error or a reload ends it.  Its tab takes no        *)
(* question before.                                                        *)
(***************************************************************************)
TurnsSettle ==
    \A tab \in Tabs : []<>~Pending(tab)
=============================================================================

---------------------------- MODULE ChatHistory -----------------------------
(***************************************************************************)
(* The front end: the turns of each browser tab, its answer mode and the   *)
(* history that the tabs share in localStorage.  What runs between two     *)
(* awaits is one step, save that another tab's process may come between    *)
(* the Date.now(), the getItem and the setItem of pushHistory.             *)
(***************************************************************************)
EXTENDS Naturals, Sequences

CONSTANTS
    Tabs,
    Requests,           \* one turn of a tab sends one request
    Modes,
    DefaultMode,
    MaxEntries,
    Past,               \* the requests of earlier sessions
    PastHistories,      \* what they may have left in localStorage
    NoValue,
    MaxSwitches         \* bound: changes of mode

VARIABLES
    turns,       \* the turn that sent each request, while its tab shows it
    mode,        \* each tab's answer mode
    savedMode,   \* localStorage: the mode chosen last; none reads as DefaultMode
    history,     \* localStorage: the entries, the last one pushed first
    pushing,     \* a tab in pushHistory: its entry, and the list once read
    stored,      \* history: requests whose entry has been stored
    switches     \* bound: changes of mode so far

ChatInit ==
    /\ turns = [r \in Requests |-> NoValue]
    /\ mode = [tab \in Tabs |-> DefaultMode]
    /\ savedMode = DefaultMode
    /\ history \in PastHistories
    /\ pushing = [tab \in Tabs |-> NoValue]
    /\ stored = Past
    /\ switches = 0

TurnsOf(tab) == {r \in Requests : turns[r] # NoValue /\ turns[r].tab = tab}

Pending(tab) == \E r \in TurnsOf(tab) : turns[r].status = "pending"

Settled(r, status) == turns' = [turns EXCEPT ![r].status = status]

\* submit: nothing can be sent while an answer is pending.
Submit(tab, r) ==
    /\ ~Pending(tab)
    /\ pushing[tab] = NoValue
    /\ turns[r] = NoValue
    /\ turns' = [turns EXCEPT ![r] =
                    [tab |-> tab, mode |-> mode[tab], status |-> "pending"]]
    /\ UNCHANGED <<mode, savedMode, history, pushing, stored, switches>>

\* Mutant: the entry is added at the end.
AppendedEntry(entry) ==
    SubSeq(Append(history, entry), 1,
           IF Len(history) < MaxEntries THEN Len(history) + 1 ELSE MaxEntries)

\* [full, ...loadHistory()].slice(0, MAX_ENTRIES)
WithEntry(entry) ==
    SubSeq(<<entry>> \o history, 1,
           IF Len(history) < MaxEntries THEN Len(history) + 1 ELSE MaxEntries)

\* Mutant: the entry gets the mode the tab is in by now.
EntryOfNow(r) == [request |-> r, mode |-> mode[turns[r].tab], before |-> stored]

\* mode is the one submit was called with.  The clocks of two tabs may tie or
\* be set back: what Date.now() says of the order is what was stored before.
Entry(r) == [request |-> r, mode |-> turns[r].mode, before |-> stored]

Waiting(r) ==
    /\ turns[r] # NoValue
    /\ turns[r].status = "pending"
    /\ pushing[turns[r].tab] = NoValue

\* The answer: the turn is ok, and pushHistory has made its entry.
ReceiveAnswer(r) ==
    /\ Waiting(r)
    /\ Settled(r, "ok")
    /\ pushing' = [pushing EXCEPT ![turns[r].tab] =
                      [entry |-> Entry(r), list |-> NoValue]]
    /\ UNCHANGED <<mode, savedMode, history, stored, switches>>

\* getItem.
LoadHistory(tab) ==
    /\ pushing[tab] # NoValue
    /\ pushing[tab].list = NoValue
    /\ pushing' = [pushing EXCEPT ![tab].list = WithEntry(pushing[tab].entry)]
    /\ UNCHANGED <<turns, mode, savedMode, history, stored, switches>>

Loaded(tab) == pushing[tab] # NoValue /\ pushing[tab].list # NoValue

\* setItem; the tab then shows the list.
StoreHistory(tab) ==
    /\ Loaded(tab)
    /\ history' = pushing[tab].list
    /\ stored' = stored \cup {pushing[tab].entry.request}
    /\ pushing' = [pushing EXCEPT ![tab] = NoValue]
    /\ UNCHANGED <<turns, mode, savedMode, switches>>

\* setItem throws (the quota) inside the try of the query: an answered turn
\* turns into an error.
StoreThrows(tab) ==
    /\ Loaded(tab)
    /\ Settled(pushing[tab].entry.request, "error")
    /\ pushing' = [pushing EXCEPT ![tab] = NoValue]
    /\ UNCHANGED <<mode, savedMode, history, stored, switches>>

\* Mutant: the catch does not settle the turn.
ErrorUnhandled(r) ==
    /\ Waiting(r)
    /\ UNCHANGED <<turns, mode, savedMode, history, pushing, stored, switches>>

\* fetch rejects, or the status is not 2xx; mutations are not retried.
ReceiveError(r) ==
    /\ Waiting(r)
    /\ Settled(r, "error")
    /\ UNCHANGED <<mode, savedMode, history, pushing, stored, switches>>

\* A tab clears what it shows, which may be an older list than the stored one.
ClearHistory(tab) ==
    /\ pushing[tab] = NoValue
    /\ history' = <<>>
    /\ UNCHANGED <<turns, mode, savedMode, pushing, stored, switches>>

ChangeMode(tab, m) ==
    /\ pushing[tab] = NoValue
    /\ mode[tab] # m
    /\ switches < MaxSwitches
    /\ switches' = switches + 1
    /\ mode' = [mode EXCEPT ![tab] = m]
    /\ savedMode' = m
    /\ UNCHANGED <<turns, history, pushing, stored>>

\* The page is loaded anew: its turns are gone, also the pending one.
Reload(tab) ==
    /\ turns' = [r \in Requests |-> IF r \in TurnsOf(tab) THEN NoValue ELSE turns[r]]
    /\ mode' = [mode EXCEPT ![tab] = savedMode]
    /\ pushing' = [pushing EXCEPT ![tab] = NoValue]
    /\ UNCHANGED <<savedMode, history, stored, switches>>

Browse == \E tab \in Tabs :
    \/ ClearHistory(tab) \/ Reload(tab)
    \/ \E m \in Modes : ChangeMode(tab, m)

-----------------------------------------------------------------------------
\* Properties.

Pushed == Requests \cup Past
HistoryEntries == [request : Pushed, mode : Modes, before : SUBSET Pushed]
Pushes == [entry : HistoryEntries, list : Seq(HistoryEntries) \cup {NoValue}]
Turns == [tab : Tabs, mode : Modes, status : {"pending", "ok", "error"}]

ChatTypeOK ==
    /\ turns \in [Requests -> Turns \cup {NoValue}]
    /\ mode \in [Tabs -> Modes]
    /\ savedMode \in Modes
    /\ history \in Seq(HistoryEntries)
    /\ pushing \in [Tabs -> Pushes \cup {NoValue}]
    /\ stored \subseteq Pushed
    /\ switches \in 0..MaxSwitches

WellOrdered(entries) ==
    /\ Len(entries) <= MaxEntries
    /\ \A i, j \in DOMAIN entries : i < j =>
         /\ entries[i].request # entries[j].request
         /\ entries[i].request \notin entries[j].before

(***************************************************************************)
(* history.ts:17: whatever two tabs push, clear and overwrite, the stored  *)
(* list holds no entry twice and at most MAX_ENTRIES, and no entry is      *)
(* ahead of one whose push began after it was stored; pushes that overlap  *)
(* are in either order, whatever their timestamps.  One tab may lose       *)
(* another's entry, but never the one it is about to store.                *)
(***************************************************************************)
HistoryIsNewestFirst ==
    /\ WellOrdered(history)
    /\ \A tab \in Tabs : Loaded(tab) =>
         LET next == pushing[tab].list IN
         next # <<>> /\ next[1] = pushing[tab].entry /\ WellOrdered(next)
=============================================================================

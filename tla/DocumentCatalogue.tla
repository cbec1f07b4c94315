------------------------- MODULE DocumentCatalogue -------------------------
(***************************************************************************)
(* What ingest promises its readers, with no workers, stages or stores: a  *)
(* document is registered once, for one tenant; chunks become searchable   *)
(* and never stop being so; a text is complete only once every chunk of it *)
(* is searchable.                                                          *)
(***************************************************************************)
CONSTANTS Docs, Tenants, Labels, Texts, ChunkIds, NoValue

VARIABLES
    owner,       \* the tenant each document is registered for, or NoValue
    searchable,  \* labels of the chunks a query can reach
    complete     \* <<doc, text>> pairs

vars == <<owner, searchable, complete>>

Init ==
    /\ owner = [d \in Docs |-> NoValue]
    /\ searchable = [d \in Docs |-> {}]
    /\ complete = {}

Register(d, t) ==
    /\ owner[d] = NoValue
    /\ owner' = [owner EXCEPT ![d] = t]
    /\ UNCHANGED <<searchable, complete>>

Publish(d, labels) ==
    /\ owner[d] # NoValue
    /\ searchable' = [searchable EXCEPT ![d] = @ \cup labels]
    /\ UNCHANGED <<owner, complete>>

Complete(d, text) ==
    /\ owner[d] # NoValue
    /\ ChunkIds[text] \subseteq searchable[d]
    /\ complete' = complete \cup {<<d, text>>}
    /\ UNCHANGED <<owner, searchable>>

Next == \E d \in Docs :
    \/ \E t \in Tenants : Register(d, t)
    \/ \E labels \in SUBSET Labels : Publish(d, labels)
    \/ \E text \in Texts : Complete(d, text)

Spec == Init /\ [][Next]_vars
=============================================================================

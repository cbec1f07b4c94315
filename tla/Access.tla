------------------------------- MODULE Access -------------------------------
(***************************************************************************)
(* The API process and its keys: the key commands of the CLI, the          *)
(* dependency require_api_key, and the three handlers that use its tenant, *)
(* POST /v1/query, /v1/aggregate and /v1/ingest, with the audit record     *)
(* that a background task writes.  Handlers run in threads, the ingest     *)
(* handler on the event loop itself.  Resolving a key is a read and an     *)
(* update that other transactions may come between.                        *)
(***************************************************************************)
EXTENDS Naturals

CONSTANTS
    Requests,
    KeyIds,
    Tenants,
    DefaultTenant,      \* Settings.tenant
    Questions,          \* what a query may ask
    AggregateClass,     \* classify_aggregate_query of each question
    Modes,              \* answer modes of /v1/query
    NoValue,            \* Python's None, or nothing there
    MaxTime             \* bound: the clock

Classes == {"count", "sum", "not_supported"}
Endpoints == {"query", "aggregate", "ingest"}

ASSUME AccessAssumption ==
    /\ DefaultTenant \in Tenants
    /\ AggregateClass \in [Questions -> Classes]
    /\ MaxTime \in Nat

ASSUME NoValueAssumption ==
    /\ NoValue \notin Tenants \cup KeyIds \cup Requests
    /\ NoValue \notin {"ok", "refused", "failed"}
    /\ NoValue \notin Nat

Times == 0..MaxTime

VARIABLES
    authEnabled, \* Settings.auth_enabled; get_settings is cached
    clock,
    keys,        \* api_keys: row of each id, or NoValue
    requests,    \* each request's place, parameters and reply, or NoValue
    loop,        \* the handler that holds the event loop, or NoValue
    audit,       \* audit_log: the rows
    ingested     \* <<request, tenant>> of each upload that went through

vars == <<authEnabled, clock, keys, requests, loop, audit, ingested>>

KeyRows == [tenant : Tenants, active : BOOLEAN, expires : Times \cup {NoValue},
            used : BOOLEAN]

Stages == {"auth", "touch", "serve", "ingest", "record", "done"}

RequestRecords ==
    [stage : Stages, endpoint : Endpoints, key : KeyIds \cup {NoValue},
     claimed : Tenants \cup {NoValue}, question : Questions,
     mode : Modes \cup {NoValue}, tenant : Tenants \cup {NoValue},
     reply : {"ok", "refused", "failed", NoValue}, stale : BOOLEAN]

ASSUME RecordsAssumption == NoValue \notin KeyRows \cup RequestRecords

\* No command sets expires_at: an operator does, in the table.  A time the
\* clock does not get past is none.
Init ==
    /\ authEnabled \in BOOLEAN
    /\ clock = 0
    /\ keys \in [KeyIds -> {NoValue} \cup
           [tenant : Tenants, active : {TRUE}, used : {FALSE},
            expires : {t \in Times : t < MaxTime} \cup {NoValue}]]
    /\ requests = [r \in Requests |-> NoValue]
    /\ loop = NoValue
    /\ audit = {}
    /\ ingested = {}

-----------------------------------------------------------------------------
\* The key commands.

\* keys create: neither an expiry nor a use.
CreateKey(k, t) ==
    /\ keys[k] = NoValue
    /\ keys' = [keys EXCEPT ![k] = [tenant |-> t, active |-> TRUE,
                                    expires |-> NoValue, used |-> FALSE]]
    /\ UNCHANGED <<authEnabled, clock, requests, loop, audit, ingested>>

\* keys revoke: the row stays.
RevokeKey(k) ==
    /\ keys[k] # NoValue
    /\ keys[k].active
    /\ keys' = [keys EXCEPT ![k].active = FALSE]
    /\ UNCHANGED <<authEnabled, clock, requests, loop, audit, ingested>>

Tick ==
    /\ clock < MaxTime
    /\ clock' = clock + 1
    /\ UNCHANGED <<authEnabled, keys, requests, loop, audit, ingested>>

Expired(k) == keys[k].expires # NoValue /\ keys[k].expires < clock

Valid(k) == keys[k] # NoValue /\ keys[k].active /\ ~Expired(k)

\* A key that is no longer good, as opposed to one that does not exist yet.
Dead(k) == k # NoValue /\ keys[k] # NoValue /\ ~Valid(k)

-----------------------------------------------------------------------------
\* A request until its handler starts.

At(r, stage) == requests[r] # NoValue /\ requests[r].stage = stage

\* stale: history, whether the request came with a key already dead.
Arrive(r, endpoint, key, claimed, question, mode) ==
    /\ requests[r] = NoValue
    /\ loop = NoValue
    /\ requests' = [requests EXCEPT ![r] =
           [stage |-> "auth", endpoint |-> endpoint, key |-> key,
            claimed |-> claimed, question |-> question, mode |-> mode,
            tenant |-> NoValue, reply |-> NoValue,
            stale |-> Dead(key)]]
    /\ UNCHANGED <<authEnabled, clock, keys, loop, audit, ingested>>

Change(r, rest) == requests' = [requests EXCEPT ![r] = rest]

\* The response is sent by the event loop.
Reply(r, from, to, reply) ==
    /\ At(r, from)
    /\ loop = NoValue
    /\ Change(r, [requests[r] EXCEPT !.stage = to, !.reply = reply])

\* Mutant: the tenant named in the body goes before the key's.
BodyTenant(r, bound) ==
    IF requests[r].endpoint = "ingest" THEN (IF authEnabled THEN bound ELSE DefaultTenant)
    ELSE IF requests[r].claimed # NoValue THEN requests[r].claimed
    ELSE bound

\* Mutant: the tenant of the body, be there one or not.
BodyTenantOnly(r, bound) == IF authEnabled THEN bound ELSE requests[r].claimed

\* tenant of query and aggregate, effective_tenant of ingest.
ServedTenant(r, bound) ==
    IF authEnabled THEN bound
    ELSE IF requests[r].endpoint = "ingest" \/ requests[r].claimed = NoValue
         THEN DefaultTenant
    ELSE requests[r].claimed

Start(r, from, bound) ==
    /\ At(r, from)
    /\ Change(r, [requests[r] EXCEPT !.stage = "serve",
                                     !.tenant = ServedTenant(r, bound)])

\* require_api_key with auth off.
Bypass(r) ==
    /\ ~authEnabled
    /\ Start(r, "auth", DefaultTenant)
    /\ UNCHANGED <<authEnabled, clock, keys, loop, audit, ingested>>

NoHeader(r) ==
    /\ authEnabled
    /\ Reply(r, "auth", "done", "refused")
    /\ requests[r].key = NoValue
    /\ UNCHANGED <<authEnabled, clock, keys, loop, audit, ingested>>

\* Mutant: the expiry is not looked at.
GoodUnlessRevoked(k) == keys[k] # NoValue /\ keys[k].active

\* The SELECT on hash and is_active, and the expiry.
Good(k) == Valid(k)

\* _resolve_api_key up to its commit; the tenant is the row's.
Resolve(r) ==
    /\ authEnabled
    /\ At(r, "auth")
    /\ requests[r].key # NoValue
    /\ Good(requests[r].key)
    /\ Change(r, [requests[r] EXCEPT !.stage = "touch",
                                     !.tenant = keys[requests[r].key].tenant])
    /\ UNCHANGED <<authEnabled, clock, keys, loop, audit, ingested>>

Refuse(r) ==
    /\ authEnabled
    /\ Reply(r, "auth", "done", "refused")
    /\ requests[r].key # NoValue
    /\ ~Good(requests[r].key)
    /\ UNCHANGED <<authEnabled, clock, keys, loop, audit, ingested>>

\* Mutant: the row is written back the way it was read.
TouchWritesRow(r) ==
    LET k == requests[r].key IN
    /\ Start(r, "touch", requests[r].tenant)
    /\ keys' = [keys EXCEPT ![k].used = TRUE, ![k].active = TRUE]
    /\ UNCHANGED <<authEnabled, clock, loop, audit, ingested>>

\* ... and its commit: an UPDATE of the one column that changed, whatever
\* happened to the others meanwhile.
Touch(r) ==
    LET k == requests[r].key IN
    /\ Start(r, "touch", requests[r].tenant)
    /\ keys' = [keys EXCEPT ![k].used = TRUE]
    /\ UNCHANGED <<authEnabled, clock, loop, audit, ingested>>

-----------------------------------------------------------------------------
\* The handlers.

\* POST /v1/query: an answer, abstained or not (module QueryPath).
AnswerQuery(r) ==
    /\ Reply(r, "serve", "record", "ok")
    /\ requests[r].endpoint = "query"
    /\ UNCHANGED <<authEnabled, clock, keys, loop, audit, ingested>>

\* POST /v1/aggregate: a COUNT or a SUM over the decisions of the tenant's
\* documents, or a polite refusal.
Aggregate(r) ==
    /\ Reply(r, "serve", "record", "ok")
    /\ requests[r].endpoint = "aggregate"
    /\ UNCHANGED <<authEnabled, clock, keys, loop, audit, ingested>>

\* The file is saved to the inbox and the whole pipeline run, both by the
\* async handler: the event loop does nothing else meanwhile.
BeginIngest(r) ==
    /\ At(r, "serve")
    /\ requests[r].endpoint = "ingest"
    /\ loop = NoValue
    /\ loop' = r
    /\ Change(r, [requests[r] EXCEPT !.stage = "ingest"])
    /\ UNCHANGED <<authEnabled, clock, keys, audit, ingested>>

FinishIngest(r) ==
    /\ At(r, "ingest")
    /\ loop' = NoValue
    /\ Change(r, [requests[r] EXCEPT !.stage = "done", !.reply = "ok"])
    /\ ingested' = ingested \cup {<<r, requests[r].tenant>>}
    /\ UNCHANGED <<authEnabled, clock, keys, audit>>

\* The pipeline raises: a 500.
IngestFails(r) ==
    /\ At(r, "ingest")
    /\ loop' = NoValue
    /\ Change(r, [requests[r] EXCEPT !.stage = "done", !.reply = "failed"])
    /\ UNCHANGED <<authEnabled, clock, keys, audit, ingested>>

\* Only .pdf files are accepted: a 400.
NotPdf(r) ==
    /\ Reply(r, "serve", "done", "refused")
    /\ requests[r].endpoint = "ingest"
    /\ UNCHANGED <<authEnabled, clock, keys, loop, audit, ingested>>

\* A store or the LLM raises, or the key's commit does: a 500, not audited.
HandlerFails(r) ==
    /\ \/ Reply(r, "touch", "done", "failed")
       \/ Reply(r, "serve", "done", "failed") /\ requests[r].endpoint # "ingest"
    /\ UNCHANGED <<authEnabled, clock, keys, loop, audit, ingested>>

-----------------------------------------------------------------------------
\* The audit record.

AuditRow(r) ==
    LET q == requests[r] IN
    [request |-> r, tenant |-> q.tenant, endpoint |-> q.endpoint,
     mode |-> IF q.endpoint = "query" THEN q.mode ELSE AggregateClass[q.question]]

\* log_entry, after the response: its failure is only logged.
Record(r) ==
    /\ At(r, "record")
    /\ Change(r, [requests[r] EXCEPT !.stage = "done"])
    /\ audit' \in {audit, audit \cup {AuditRow(r)}}
    /\ UNCHANGED <<authEnabled, clock, keys, loop, ingested>>

\* The process dies and is started again: what was not replied to fails.
Crash ==
    /\ \E r \in Requests : requests[r] # NoValue /\ requests[r].stage # "done"
    /\ requests' = [r \in Requests |->
           IF requests[r] = NoValue THEN NoValue
           ELSE [requests[r] EXCEPT
                    !.stage = "done",
                    !.reply = IF @ = NoValue THEN "failed" ELSE @]]
    /\ loop' = NoValue
    /\ UNCHANGED <<authEnabled, clock, keys, audit, ingested>>

Administer == \/ \E k \in KeyIds : RevokeKey(k) \/ \E t \in Tenants : CreateKey(k, t)
              \/ Tick

Handle(r) == \/ Bypass(r) \/ NoHeader(r) \/ Resolve(r) \/ Refuse(r) \/ Touch(r)
             \/ AnswerQuery(r) \/ Aggregate(r)
             \/ BeginIngest(r) \/ FinishIngest(r) \/ IngestFails(r) \/ NotPdf(r)
             \/ HandlerFails(r) \/ Record(r)

Next ==
    \/ \E r \in Requests, endpoint \in Endpoints, key \in KeyIds \cup {NoValue},
          claimed \in Tenants \cup {NoValue}, question \in Questions,
          mode \in Modes \cup {NoValue} :
             Arrive(r, endpoint, key, claimed, question, mode)
    \/ \E r \in Requests : Handle(r)
    \/ Administer
    \/ Crash

Spec == Init /\ [][Next]_vars

-----------------------------------------------------------------------------
\* Properties.

AuditRows == [request : Requests, tenant : Tenants, endpoint : Endpoints,
              mode : Modes \cup Classes \cup {NoValue}]

TypeOK ==
    /\ authEnabled \in BOOLEAN
    /\ clock \in Times
    /\ keys \in [KeyIds -> KeyRows \cup {NoValue}]
    /\ requests \in [Requests -> RequestRecords \cup {NoValue}]
    /\ loop \in Requests \cup {NoValue}
    /\ audit \subseteq AuditRows
    /\ ingested \subseteq Requests \X Tenants

(***************************************************************************)
(* A revoked key stays revoked, also when a request that read it before    *)
(* the revocation writes last_used_at after it (auth.py:79).               *)
(***************************************************************************)
RevocationIsFinal ==
    [][\A k \in KeyIds : keys[k] # NoValue =>
          /\ keys'[k] # NoValue
          /\ keys'[k].tenant = keys[k].tenant
          /\ ~keys[k].active => ~keys'[k].active]_vars

Served(r) == requests[r] # NoValue
    /\ (requests[r].stage \in {"serve", "ingest", "record"} \/ requests[r].reply = "ok")

(***************************************************************************)
(* A request that comes with a key revoked or expired by then gets to no   *)
(* handler, is not audited and ingests nothing, whatever transactions and  *)
(* restarts go on around it (auth.py:54).                                  *)
(***************************************************************************)
DeadKeysAreRefused ==
    authEnabled => \A r \in Requests :
      requests[r] # NoValue /\ requests[r].stale =>
        /\ ~Served(r)
        /\ \A row \in audit : row.request # r
        /\ \A upload \in ingested : upload[1] # r

(***************************************************************************)
(* auth.py:7-8: with auth on, what a request is served, audited and        *)
(* ingested under is the tenant of its key, never the one in its body, and *)
(* there is such a key as long as there are the records.                   *)
(***************************************************************************)
ServedForKeysTenant ==
    authEnabled => \A r \in Requests :
      LET k == requests[r].key IN
      /\ requests[r] # NoValue /\ Served(r) =>
           k # NoValue /\ keys[k] # NoValue /\ requests[r].tenant = keys[k].tenant
      /\ \A row \in audit : row.request = r =>
           requests[r] # NoValue /\ keys[k] # NoValue /\ row.tenant = keys[k].tenant
      /\ \A upload \in ingested : upload[1] = r =>
           requests[r] # NoValue /\ keys[k] # NoValue /\ upload[2] = keys[k].tenant
=============================================================================

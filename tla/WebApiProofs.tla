---------------------------- MODULE WebApiProofs ----------------------------
(***************************************************************************)
(* Proofs about WebApi, for any number of tabs, requests, keys and history *)
(* entries.  First the API under any client (Access); then the front end   *)
(* over it: every behaviour of it is one of Access, so what is proved      *)
(* there holds, and the stored history is newest first; last, what the     *)
(* tabs show and store was answered, as the audit log says.                *)
(***************************************************************************)
EXTENDS WebApi, TLAPS

\* The API: requests, keys and the audit log (module Access).

RequestTable == [Requests -> RequestRecords \cup {NoValue}]
KeyTable == [KeyIds -> KeyRows \cup {NoValue}]

-----------------------------------------------------------------------------
\* What one step does to the keys.

(***************************************************************************)
(* A key row is never removed, keeps its tenant and its expiry, and is not *)
(* made active again; the clock does not go back.                          *)
(***************************************************************************)
KeysStep ==
    /\ authEnabled' = authEnabled
    /\ clock \in Nat /\ clock' \in Nat /\ clock <= clock'
    /\ \A k \in KeyIds : keys[k] # NoValue =>
         /\ keys'[k] # NoValue
         /\ keys'[k].tenant = keys[k].tenant
         /\ keys'[k].expires = keys[k].expires
         /\ ~keys[k].active => ~keys'[k].active

(***************************************************************************)
(* A handler's update of one field of the table of requests.               *)
(***************************************************************************)
LEMMA ChangeOne ==
    ASSUME requests \in RequestTable, NEW r \in Requests,
           NEW x \in RequestRecords, Change(r, x)
    PROVE  /\ requests' \in RequestTable
           /\ requests'[r] = x
           /\ \A q \in Requests : q # r => requests'[q] = requests[q]
BY DEF Change, RequestTable

LEMMA AtRecord ==
    ASSUME requests \in RequestTable, NEW r \in Requests, NEW s, At(r, s)
    PROVE  requests[r] \in RequestRecords /\ requests[r].stage = s
BY DEF At, RequestTable

(***************************************************************************)
(* The commit of last_used_at leaves the other columns as they are.        *)
(***************************************************************************)
LEMMA TouchKeys ==
    ASSUME TypeOK, NEW r \in Requests, Touch(r), requests[r].key \in KeyIds,
           keys[requests[r].key] # NoValue
    PROVE  keys' \in KeyTable /\ KeysStep
<1> DEFINE k == requests[r].key
<1>1. keys \in KeyTable /\ keys[k] \in KeyRows /\ clock \in Nat
  BY AccessAssumption DEF TypeOK, KeyTable, Times
<1>2. keys' = [keys EXCEPT ![k] = [keys[k] EXCEPT !.used = TRUE]]
  BY DEF Touch
<1>3. [keys[k] EXCEPT !.used = TRUE] \in KeyRows
  BY <1>1 DEF KeyRows
<1>4. keys' \in KeyTable
  BY <1>1, <1>2, <1>3 DEF KeyTable
<1>5. authEnabled' = authEnabled /\ clock' = clock
  BY DEF Touch
<1>6. ASSUME NEW j \in KeyIds, keys[j] # NoValue
      PROVE  /\ keys'[j] # NoValue
             /\ keys'[j].tenant = keys[j].tenant
             /\ keys'[j].expires = keys[j].expires
             /\ ~keys[j].active => ~keys'[j].active
  <2>1. CASE j # k
    BY <1>1, <1>2, <1>6, <2>1 DEF KeyTable
  <2>2. CASE j = k
    <3>1. keys'[j] = [keys[k] EXCEPT !.used = TRUE]
      BY <1>1, <1>2, <2>2 DEF KeyTable
    <3>2. keys'[j] # NoValue
      BY <1>3, <3>1, RecordsAssumption
    <3>3. /\ keys'[j].tenant = keys[j].tenant
          /\ keys'[j].expires = keys[j].expires
          /\ keys'[j].active = keys[j].active
      BY <1>1, <2>2, <3>1 DEF KeyRows
    <3>4. QED BY <3>2, <3>3
  <2>3. QED BY <2>1, <2>2
<1>7. QED BY <1>1, <1>4, <1>5, <1>6 DEF KeysStep

LEMMA SameKeys ==
    ASSUME TypeOK, UNCHANGED <<authEnabled, clock, keys>>
    PROVE  keys' \in KeyTable /\ KeysStep
BY AccessAssumption DEF TypeOK, KeyTable, KeysStep, Times

-----------------------------------------------------------------------------
\* The inductive invariant.

(***************************************************************************)
(* A request past the lookup has its tenant, and a reply of 2xx is given   *)
(* by handlers only.  A key is touched only with auth on.                  *)
(***************************************************************************)
TenantKnown(r) == requests[r] # NoValue =>
    /\ requests[r].stage \in {"touch", "serve", "ingest", "record"} =>
         requests[r].tenant \in Tenants
    /\ requests[r].reply = "ok" => requests[r].stage \in {"record", "done"}
    /\ requests[r].stage = "record" => requests[r].reply = "ok"
    /\ requests[r].stage = "touch" => authEnabled

(***************************************************************************)
(* With auth on, the tenant is the one of a key there is.                  *)
(***************************************************************************)
KeyHeld(r) ==
    authEnabled /\ requests[r] # NoValue /\ (Served(r) \/ requests[r].stage = "touch") =>
      /\ requests[r].key \in KeyIds
      /\ keys[requests[r].key] # NoValue
      /\ requests[r].tenant = keys[requests[r].key].tenant

(***************************************************************************)
(* A key that was dead when the request came is dead still, and the        *)
(* request has got nowhere.                                                *)
(***************************************************************************)
StaleHeld(r) ==
    authEnabled /\ requests[r] # NoValue /\ requests[r].stale =>
      /\ requests[r].key \in KeyIds
      /\ Dead(requests[r].key)
      /\ requests[r].stage \in {"auth", "done"}
      /\ requests[r].reply # "ok"

(***************************************************************************)
(* What is recorded of a request was recorded after a 2xx reply, or with   *)
(* it, and under the tenant it was served for.                             *)
(***************************************************************************)
RecordsHeld(r) ==
    /\ \A row \in audit : row.request = r =>
         /\ requests[r] # NoValue
         /\ requests[r].reply = "ok"
         /\ row.tenant = requests[r].tenant
    /\ \A upload \in ingested : upload[1] = r =>
         /\ requests[r] # NoValue
         /\ requests[r].reply = "ok"
         /\ upload[2] = requests[r].tenant

RequestHeld(r) == TenantKnown(r) /\ KeyHeld(r) /\ StaleHeld(r) /\ RecordsHeld(r)

IInv == TypeOK /\ \A r \in Requests : RequestHeld(r)

(***************************************************************************)
(* A dead key stays dead.                                                  *)
(***************************************************************************)
LEMMA DeadStays ==
    ASSUME TypeOK, KeysStep, NEW k \in KeyIds, Dead(k)
    PROVE  Dead(k)'
<1>1. keys[k] # NoValue /\ keys[k] \in KeyRows
  BY DEF Dead, TypeOK
<1>2. keys'[k] # NoValue /\ k # NoValue
  BY <1>1 DEF KeysStep, Dead
<1>3. CASE ~keys[k].active
  BY <1>1, <1>2, <1>3 DEF KeysStep, Dead, Valid
<1>4. CASE Expired(k)
  <2>1. keys[k].expires # NoValue /\ keys[k].expires < clock
    BY <1>4 DEF Expired
  <2>2. keys[k].expires \in Nat
    BY <1>1, <2>1 DEF KeyRows, Times
  <2>3. keys'[k].expires = keys[k].expires /\ keys[k].expires < clock'
    BY <1>1, <2>1, <2>2 DEF KeysStep
  <2>4. QED BY <1>2, <2>1, <2>3 DEF Dead, Valid, Expired
<1>5. QED BY <1>1, <1>3, <1>4 DEF Dead, Valid

(***************************************************************************)
(* What holds of a request goes on to hold while others are worked on.     *)
(***************************************************************************)
LEMMA Framed ==
    ASSUME IInv, KeysStep, NEW r \in Requests, requests'[r] = requests[r],
           \A row \in audit' : row.request = r => row \in audit,
           \A upload \in ingested' : upload[1] = r => upload \in ingested
    PROVE  RequestHeld(r)'
<1>1. RequestHeld(r) /\ TypeOK
  BY DEF IInv
<1>2. TenantKnown(r)'
  BY <1>1 DEF RequestHeld, TenantKnown, KeysStep
<1>3. KeyHeld(r)'
  BY <1>1 DEF RequestHeld, KeyHeld, Served, KeysStep
<1>4. StaleHeld(r)'
  BY <1>1, DeadStays DEF RequestHeld, StaleHeld, KeysStep
<1>5. RecordsHeld(r)'
  BY <1>1 DEF RequestHeld, RecordsHeld
<1>6. QED BY <1>2, <1>3, <1>4, <1>5 DEF RequestHeld

(***************************************************************************)
(* What a step may make of request r.                                      *)
(***************************************************************************)
Fits(r, x) ==
    /\ x \in RequestRecords
    /\ x.stage \in {"touch", "serve", "ingest", "record"} => x.tenant \in Tenants
    /\ x.reply = "ok" => x.stage \in {"record", "done"}
    /\ x.stage = "record" => x.reply = "ok"
    /\ x.stage = "touch" => authEnabled
    /\ authEnabled /\ (x.stage \in {"touch", "serve", "ingest", "record"} \/ x.reply = "ok") =>
         /\ x.key \in KeyIds
         /\ keys[x.key] # NoValue
         /\ x.tenant = keys[x.key].tenant
    /\ authEnabled /\ x.stale =>
         /\ x.key \in KeyIds
         /\ Dead(x.key)
         /\ x.stage \in {"auth", "done"}
         /\ x.reply # "ok"
    /\ requests[r] # NoValue /\ requests[r].reply = "ok" =>
         x.reply = "ok" /\ x.tenant = requests[r].tenant

(***************************************************************************)
(* A step that changes one request so, and records nothing but it, keeps   *)
(* the invariant.                                                          *)
(***************************************************************************)
LEMMA RequestStep ==
    ASSUME IInv, KeysStep, keys' \in KeyTable, clock' \in Times,
           NEW r \in Requests, NEW x, Fits(r, x), Change(r, x),
           loop' \in Requests \cup {NoValue},
           \A row \in audit' : row \in audit \/
              (row \in AuditRows /\ row.request = r /\ x.reply = "ok" /\ row.tenant = x.tenant),
           \A upload \in ingested' : upload \in ingested \/
              (upload = <<r, x.tenant>> /\ x.reply = "ok" /\ x.tenant \in Tenants)
    PROVE  IInv'
<1>1. TypeOK /\ requests \in RequestTable /\ x \in RequestRecords
  BY DEF IInv, TypeOK, RequestTable, Fits
<1>2. /\ requests' \in RequestTable
      /\ requests'[r] = x
      /\ \A q \in Requests : q # r => requests'[q] = requests[q]
  BY <1>1, ChangeOne
<1>3. x # NoValue
  BY <1>1, RecordsAssumption
<1>4. TypeOK'
  <2>1. authEnabled' \in BOOLEAN
    BY <1>1 DEF TypeOK, KeysStep
  <2>2. audit' \subseteq AuditRows
    BY <1>1 DEF TypeOK
  <2>3. ingested' \subseteq Requests \X Tenants
    BY <1>1 DEF TypeOK
  <2>4. QED BY <1>2, <2>1, <2>2, <2>3 DEF TypeOK, RequestTable, KeyTable
<1>5. ASSUME NEW q \in Requests, q # r
      PROVE  RequestHeld(q)'
  <2>1. requests'[q] = requests[q]
    BY <1>2, <1>5
  <2>2. \A row \in audit' : row.request = q => row \in audit
    BY <1>5
  <2>3. \A upload \in ingested' : upload[1] = q => upload \in ingested
    BY <1>5
  <2>4. QED BY <2>1, <2>2, <2>3, Framed
<1>6. RequestHeld(r)'
  <2>1. TenantKnown(r)'
    BY <1>2 DEF TenantKnown, Fits, KeysStep
  <2>2. KeyHeld(r)'
    BY <1>2 DEF KeyHeld, Served, Fits, KeysStep
  <2>3. StaleHeld(r)'
    BY <1>1, <1>2, DeadStays DEF StaleHeld, Fits, KeysStep
  <2>4. \A row \in audit : row.request = r =>
            x.reply = "ok" /\ row.tenant = x.tenant
    BY DEF IInv, RequestHeld, RecordsHeld, Fits
  <2>5. \A upload \in ingested : upload[1] = r =>
            x.reply = "ok" /\ upload[2] = x.tenant
    BY DEF IInv, RequestHeld, RecordsHeld, Fits
  <2>6. \A upload \in ingested' : upload[1] = r =>
            x.reply = "ok" /\ upload[2] = x.tenant
    BY <2>5
  <2>7. RecordsHeld(r)'
    BY <1>2, <1>3, <2>4, <2>6 DEF RecordsHeld
  <2>8. QED BY <2>1, <2>2, <2>3, <2>7 DEF RequestHeld
<1>7. QED BY <1>4, <1>5, <1>6 DEF IInv

(***************************************************************************)
(* The same for the steps that leave keys, clock and records alone.        *)
(***************************************************************************)
LEMMA QuietStep ==
    ASSUME IInv, NEW r \in Requests, NEW x, Fits(r, x), Change(r, x),
           loop' \in Requests \cup {NoValue},
           UNCHANGED <<authEnabled, clock, keys, audit, ingested>>
    PROVE  IInv'
<1>1. TypeOK BY DEF IInv
<1>2. keys' \in KeyTable /\ KeysStep
  BY <1>1, SameKeys
<1>3. clock' \in Times
  BY <1>1 DEF TypeOK
<1>4. QED BY <1>2, <1>3, RequestStep

-----------------------------------------------------------------------------
\* The actions keep it.

LEMMA ArriveKeeps ==
    ASSUME IInv, NEW r \in Requests, NEW endpoint \in Endpoints,
           NEW key \in KeyIds \cup {NoValue}, NEW claimed \in Tenants \cup {NoValue},
           NEW question \in Questions, NEW asked \in Modes \cup {NoValue},
           Arrive(r, endpoint, key, claimed, question, asked)
    PROVE  IInv'
<1> DEFINE x == [stage |-> "auth", endpoint |-> endpoint, key |-> key,
                 claimed |-> claimed, question |-> question, mode |-> asked,
                 tenant |-> NoValue, reply |-> NoValue, stale |-> Dead(key)]
<1>1. Dead(key) \in BOOLEAN
  BY DEF Dead
<1>2. x \in RequestRecords
  BY <1>1 DEF RequestRecords, Stages
<1>3. NoValue # "ok"
  BY NoValueAssumption
<1>4. Dead(key) => key \in KeyIds
  BY DEF Dead
<1>5. requests[r] = NoValue
  BY DEF Arrive
<1>6. Fits(r, x)
  BY <1>2, <1>3, <1>4, <1>5 DEF Fits
<1>7. Change(r, x) /\ loop' \in Requests \cup {NoValue}
  BY DEF Arrive, Change, IInv, TypeOK
<1>8. UNCHANGED <<authEnabled, clock, keys, audit, ingested>>
  BY DEF Arrive
<1> HIDE DEF x
<1>9. QED BY <1>6, <1>7, <1>8, QuietStep

(***************************************************************************)
(* A request somewhere in the process fits as it is.                       *)
(***************************************************************************)
LEMMA Held ==
    ASSUME IInv, NEW r \in Requests, NEW s, At(r, s)
    PROVE  /\ Fits(r, requests[r])
           /\ requests[r] \in RequestRecords
           /\ requests[r] # NoValue
           /\ requests[r].stage = s
<1>1. requests \in RequestTable /\ RequestHeld(r)
  BY DEF IInv, TypeOK, RequestTable
<1>2. requests[r] # NoValue /\ requests[r] \in RequestRecords /\ requests[r].stage = s
  BY <1>1, AtRecord DEF At
<1>3. Fits(r, requests[r])
  BY <1>1, <1>2 DEF RequestHeld, TenantKnown, KeyHeld, StaleHeld, Served, Fits
<1>4. QED BY <1>2, <1>3

(***************************************************************************)
(* A reply is one of three words, and none of them is NoValue.             *)
(***************************************************************************)
LEMMA ReplyFits ==
    ASSUME IInv, NEW r \in Requests, NEW from, NEW to \in {"record", "done"},
           NEW reply \in {"ok", "refused", "failed"}, At(r, from),
           from \in {"auth", "touch", "serve", "ingest"},
           reply = "ok" => from \in {"serve", "ingest"},
           to = "record" => reply = "ok"
    PROVE  Fits(r, [requests[r] EXCEPT !.stage = to, !.reply = reply])
<1> DEFINE q == requests[r]
           x == [q EXCEPT !.stage = to, !.reply = reply]
<1>1. Fits(r, q) /\ q \in RequestRecords /\ q.stage = from
  BY Held
<1>2. /\ x \in RequestRecords
      /\ x.stage = to /\ x.reply = reply
      /\ x.tenant = q.tenant /\ x.key = q.key /\ x.stale = q.stale
  BY <1>1 DEF RequestRecords, Stages
<1>3. q.reply # "ok"
  BY <1>1 DEF Fits
<1> HIDE DEF x
<1>4. Fits(r, x)
  BY <1>1, <1>2, <1>3 DEF Fits
<1>5. QED BY <1>4 DEF x

LEMMA RefusalKeeps ==
    ASSUME IInv, NEW r \in Requests, NoHeader(r) \/ Refuse(r) \/ NotPdf(r)
    PROVE  IInv'
<1> DEFINE x == [requests[r] EXCEPT !.stage = "done", !.reply = "refused"]
<1>1. /\ At(r, "auth") \/ At(r, "serve")
      /\ Change(r, x)
      /\ UNCHANGED <<authEnabled, clock, keys, loop, audit, ingested>>
  BY DEF NoHeader, Refuse, NotPdf, Reply
<1>2. Fits(r, x)
  BY <1>1, ReplyFits
<1>3. loop' \in Requests \cup {NoValue}
  BY <1>1 DEF IInv, TypeOK
<1> HIDE DEF x
<1>4. QED BY <1>1, <1>2, <1>3, QuietStep

LEMMA HandlerFailsKeeps ==
    ASSUME IInv, NEW r \in Requests, HandlerFails(r)
    PROVE  IInv'
<1> DEFINE x == [requests[r] EXCEPT !.stage = "done", !.reply = "failed"]
<1>1. /\ At(r, "touch") \/ At(r, "serve")
      /\ Change(r, x)
      /\ UNCHANGED <<authEnabled, clock, keys, loop, audit, ingested>>
  BY DEF HandlerFails, Reply
<1>2. Fits(r, x)
  BY <1>1, ReplyFits
<1>3. loop' \in Requests \cup {NoValue}
  BY <1>1 DEF IInv, TypeOK
<1> HIDE DEF x
<1>4. QED BY <1>1, <1>2, <1>3, QuietStep

LEMMA AnswerKeeps ==
    ASSUME IInv, NEW r \in Requests, AnswerQuery(r) \/ Aggregate(r)
    PROVE  IInv'
<1> DEFINE x == [requests[r] EXCEPT !.stage = "record", !.reply = "ok"]
<1>1. /\ At(r, "serve")
      /\ Change(r, x)
      /\ UNCHANGED <<authEnabled, clock, keys, loop, audit, ingested>>
  BY DEF AnswerQuery, Aggregate, Reply
<1>2. Fits(r, x)
  BY <1>1, ReplyFits
<1>3. loop' \in Requests \cup {NoValue}
  BY <1>1 DEF IInv, TypeOK
<1> HIDE DEF x
<1>4. QED BY <1>1, <1>2, <1>3, QuietStep

LEMMA IngestFailsKeeps ==
    ASSUME IInv, NEW r \in Requests, IngestFails(r)
    PROVE  IInv'
<1> DEFINE x == [requests[r] EXCEPT !.stage = "done", !.reply = "failed"]
<1>1. /\ At(r, "ingest")
      /\ Change(r, x)
      /\ loop' = NoValue
      /\ UNCHANGED <<authEnabled, clock, keys, audit, ingested>>
  BY DEF IngestFails
<1>2. Fits(r, x)
  BY <1>1, ReplyFits
<1> HIDE DEF x
<1>3. QED BY <1>1, <1>2, QuietStep

LEMMA FinishIngestKeeps ==
    ASSUME IInv, NEW r \in Requests, FinishIngest(r)
    PROVE  IInv'
<1> DEFINE x == [requests[r] EXCEPT !.stage = "done", !.reply = "ok"]
<1>1. /\ At(r, "ingest")
      /\ Change(r, x)
      /\ loop' = NoValue
      /\ ingested' = ingested \cup {<<r, requests[r].tenant>>}
      /\ UNCHANGED <<authEnabled, clock, keys, audit>>
  BY DEF FinishIngest
<1>2. Fits(r, x)
  BY <1>1, ReplyFits
<1>3. /\ Fits(r, requests[r])
      /\ requests[r] \in RequestRecords
      /\ requests[r].stage = "ingest"
  BY <1>1, Held
<1>4. x.tenant = requests[r].tenant /\ x.reply = "ok"
  BY <1>3 DEF RequestRecords
<1>5. x.tenant \in Tenants
  BY <1>3, <1>4 DEF Fits
<1>6. TypeOK
  BY DEF IInv
<1>7. keys' \in KeyTable /\ KeysStep /\ clock' \in Times
  BY <1>1, <1>6, SameKeys DEF TypeOK
<1> HIDE DEF x
<1>8. QED BY <1>1, <1>2, <1>4, <1>5, <1>7, RequestStep

LEMMA BeginIngestKeeps ==
    ASSUME IInv, NEW r \in Requests, BeginIngest(r)
    PROVE  IInv'
<1> DEFINE q == requests[r]
           x == [q EXCEPT !.stage = "ingest"]
<1>1. /\ At(r, "serve")
      /\ Change(r, x)
      /\ loop' = r
      /\ UNCHANGED <<authEnabled, clock, keys, audit, ingested>>
  BY DEF BeginIngest
<1>2. Fits(r, q) /\ q \in RequestRecords /\ q.stage = "serve"
  BY <1>1, Held
<1>3. /\ x \in RequestRecords
      /\ x.stage = "ingest" /\ x.reply = q.reply
      /\ x.tenant = q.tenant /\ x.key = q.key /\ x.stale = q.stale
  BY <1>2 DEF RequestRecords, Stages
<1> HIDE DEF x
<1>4. Fits(r, x)
  BY <1>2, <1>3 DEF Fits
<1>5. QED BY <1>1, <1>4, QuietStep

LEMMA RecordKeeps ==
    ASSUME IInv, NEW r \in Requests, Record(r)
    PROVE  IInv'
<1> DEFINE q == requests[r]
           x == [q EXCEPT !.stage = "done"]
<1>1. /\ At(r, "record")
      /\ Change(r, x)
      /\ audit' \in {audit, audit \cup {AuditRow(r)}}
      /\ UNCHANGED <<authEnabled, clock, keys, loop, ingested>>
  BY DEF Record
<1>2. Fits(r, q) /\ q \in RequestRecords /\ q.stage = "record"
  BY <1>1, Held
<1>3. /\ x \in RequestRecords
      /\ x.stage = "done" /\ x.reply = q.reply
      /\ x.tenant = q.tenant /\ x.key = q.key /\ x.stale = q.stale
  BY <1>2 DEF RequestRecords, Stages
<1> HIDE DEF x
<1>4. Fits(r, x) /\ x.reply = "ok" /\ q.tenant \in Tenants
  BY <1>2, <1>3 DEF Fits
<1>5. /\ AuditRow(r) \in AuditRows
      /\ AuditRow(r).request = r
      /\ AuditRow(r).tenant = x.tenant
  <2>1. q.endpoint \in Endpoints /\ q.question \in Questions
        /\ q.mode \in Modes \cup {NoValue}
    BY <1>2 DEF RequestRecords
  <2>2. AggregateClass[q.question] \in Classes
    BY <2>1, AccessAssumption
  <2>3. QED BY <1>3, <1>4, <2>1, <2>2 DEF AuditRow, AuditRows
<1>6. TypeOK
  BY DEF IInv
<1>7. keys' \in KeyTable /\ KeysStep /\ clock' \in Times
      /\ loop' \in Requests \cup {NoValue}
  BY <1>1, <1>6, SameKeys DEF TypeOK
<1>8. QED BY <1>1, <1>4, <1>5, <1>7, RequestStep

LEMMA BypassKeeps ==
    ASSUME IInv, NEW r \in Requests, Bypass(r)
    PROVE  IInv'
<1> DEFINE q == requests[r]
           t == ServedTenant(r, DefaultTenant)
           x == [q EXCEPT !.stage = "serve", !.tenant = t]
<1>1. /\ At(r, "auth") /\ ~authEnabled
      /\ Change(r, x)
      /\ UNCHANGED <<authEnabled, clock, keys, loop, audit, ingested>>
  BY DEF Bypass, Start
<1>2. Fits(r, q) /\ q \in RequestRecords /\ q.stage = "auth"
  BY <1>1, Held
<1>3. t \in Tenants
  <2>1. q.claimed \in Tenants \cup {NoValue}
    BY <1>2 DEF RequestRecords
  <2>2. QED BY <1>1, <2>1, AccessAssumption DEF ServedTenant
<1> HIDE DEF t
<1>4. /\ x \in RequestRecords
      /\ x.stage = "serve" /\ x.reply = q.reply /\ x.tenant = t
  BY <1>2, <1>3 DEF RequestRecords, Stages
<1> HIDE DEF x
<1>5. q.reply # "ok"
  BY <1>2 DEF Fits
<1>6. Fits(r, x)
  BY <1>1, <1>3, <1>4, <1>5 DEF Fits
<1>7. loop' \in Requests \cup {NoValue}
  BY <1>1 DEF IInv, TypeOK
<1>8. QED BY <1>1, <1>6, <1>7, QuietStep

LEMMA ResolveKeeps ==
    ASSUME IInv, NEW r \in Requests, Resolve(r)
    PROVE  IInv'
<1> DEFINE q == requests[r]
           t == keys[q.key].tenant
           x == [q EXCEPT !.stage = "touch", !.tenant = t]
<1>1. /\ At(r, "auth") /\ authEnabled
      /\ q.key # NoValue /\ Valid(q.key)
      /\ Change(r, x)
      /\ UNCHANGED <<authEnabled, clock, keys, loop, audit, ingested>>
  BY DEF Resolve, Good
<1>2. Fits(r, q) /\ q \in RequestRecords /\ q.stage = "auth"
  BY <1>1, Held
<1>3. q.key \in KeyIds /\ keys[q.key] # NoValue /\ t \in Tenants
  <2>1. q.key \in KeyIds
    BY <1>1, <1>2 DEF RequestRecords
  <2>2. keys[q.key] # NoValue
    BY <1>1 DEF Valid
  <2>3. keys[q.key] \in KeyRows
    BY <2>1, <2>2 DEF IInv, TypeOK
  <2>4. t \in Tenants
    BY <2>3 DEF KeyRows
  <2>5. QED BY <2>1, <2>2, <2>4
<1>4. /\ x \in RequestRecords
      /\ x.stage = "touch" /\ x.reply = q.reply
      /\ x.tenant = t /\ x.key = q.key /\ x.stale = q.stale
  BY <1>2, <1>3 DEF RequestRecords, Stages
<1>5. q.reply # "ok"
  BY <1>2 DEF Fits
<1>6. ~(authEnabled /\ q.stale)
  BY <1>1, <1>2 DEF Fits, Dead
<1> HIDE DEF x
<1>7. Fits(r, x)
  BY <1>1, <1>3, <1>4, <1>5, <1>6 DEF Fits
<1>8. loop' \in Requests \cup {NoValue}
  BY <1>1 DEF IInv, TypeOK
<1>9. QED BY <1>1, <1>7, <1>8, QuietStep

LEMMA TouchKeeps ==
    ASSUME IInv, NEW r \in Requests, Touch(r)
    PROVE  IInv'
<1> DEFINE q == requests[r]
           t == ServedTenant(r, q.tenant)
           x == [q EXCEPT !.stage = "serve", !.tenant = t]
<1>1. /\ At(r, "touch")
      /\ Change(r, x)
      /\ UNCHANGED <<authEnabled, clock, loop, audit, ingested>>
  BY DEF Touch, Start
<1>2. Fits(r, q) /\ q \in RequestRecords /\ q.stage = "touch" /\ TypeOK
  BY <1>1, Held DEF IInv
<1>3. t = q.tenant /\ t \in Tenants
  BY <1>2 DEF Fits, ServedTenant
<1> HIDE DEF t
<1>4. /\ x \in RequestRecords
      /\ x.stage = "serve" /\ x.reply = q.reply
      /\ x.tenant = q.tenant /\ x.key = q.key /\ x.stale = q.stale
  BY <1>2, <1>3 DEF RequestRecords, Stages
<1> HIDE DEF x
<1>5. Fits(r, x) /\ q.key \in KeyIds /\ keys[q.key] # NoValue
  BY <1>2, <1>4 DEF Fits
<1>6. keys' \in KeyTable /\ KeysStep
  BY <1>2, <1>5, TouchKeys
<1>7. clock' \in Times /\ loop' \in Requests \cup {NoValue}
  BY <1>1, <1>2 DEF TypeOK
<1>8. QED BY <1>1, <1>5, <1>6, <1>7, RequestStep

(***************************************************************************)
(* A step that changes keys or clock and no request.                       *)
(***************************************************************************)
LEMMA AdministerKeeps ==
    ASSUME IInv, KeysStep, keys' \in KeyTable, clock' \in Times,
           UNCHANGED <<requests, loop, audit, ingested>>
    PROVE  IInv'
<1>1. TypeOK'
  BY DEF IInv, TypeOK, KeysStep, KeyTable
<1>2. ASSUME NEW r \in Requests
      PROVE  RequestHeld(r)'
  BY <1>2, Framed
<1>3. QED BY <1>1, <1>2 DEF IInv

LEMMA CreateKeyStep ==
    ASSUME TypeOK, NEW k \in KeyIds, NEW t \in Tenants, CreateKey(k, t)
    PROVE  keys' \in KeyTable /\ KeysStep
<1> DEFINE row == [tenant |-> t, active |-> TRUE, expires |-> NoValue, used |-> FALSE]
<1>1. row \in KeyRows
  BY DEF KeyRows
<1>2. keys \in KeyTable /\ keys[k] = NoValue /\ keys' = [keys EXCEPT ![k] = row]
  BY DEF CreateKey, TypeOK, KeyTable
<1>3. authEnabled' = authEnabled /\ clock' = clock /\ clock \in Nat
  BY AccessAssumption DEF CreateKey, TypeOK, Times
<1> HIDE DEF row
<1>4. keys' \in KeyTable
  BY <1>1, <1>2 DEF KeyTable
<1>5. \A j \in KeyIds : keys[j] # NoValue => keys'[j] = keys[j]
  BY <1>2 DEF KeyTable
<1>6. QED BY <1>3, <1>4, <1>5 DEF KeysStep

LEMMA RevokeKeyStep ==
    ASSUME TypeOK, NEW k \in KeyIds, RevokeKey(k)
    PROVE  keys' \in KeyTable /\ KeysStep
<1> DEFINE row == [keys[k] EXCEPT !.active = FALSE]
<1>1. keys \in KeyTable /\ keys[k] \in KeyRows
  BY DEF RevokeKey, TypeOK, KeyTable
<1>2. /\ row \in KeyRows
      /\ row.tenant = keys[k].tenant /\ row.expires = keys[k].expires
      /\ ~row.active
  BY <1>1 DEF KeyRows
<1>3. keys' = [keys EXCEPT ![k] = row]
  BY DEF RevokeKey
<1>4. authEnabled' = authEnabled /\ clock' = clock /\ clock \in Nat
  BY AccessAssumption DEF RevokeKey, TypeOK, Times
<1> HIDE DEF row
<1>5. keys' \in KeyTable /\ keys'[k] = row /\ row # NoValue
  BY <1>1, <1>2, <1>3, RecordsAssumption DEF KeyTable
<1>6. \A j \in KeyIds : j # k => keys'[j] = keys[j]
  BY <1>1, <1>3 DEF KeyTable
<1>7. QED BY <1>2, <1>4, <1>5, <1>6 DEF KeysStep

LEMMA TickStep ==
    ASSUME TypeOK, Tick
    PROVE  keys' \in KeyTable /\ KeysStep /\ clock' \in Times
BY AccessAssumption DEF Tick, TypeOK, Times, KeyTable, KeysStep

(***************************************************************************)
(* A restart: what was replied stays replied, the rest has failed.         *)
(***************************************************************************)
LEMMA CrashKeeps ==
    ASSUME IInv, Crash
    PROVE  IInv'
<1> DEFINE gone(r) == [requests[r] EXCEPT !.stage = "done",
                          !.reply = IF @ = NoValue THEN "failed" ELSE @]
<1>1. /\ requests' = [r \in Requests |->
                         IF requests[r] = NoValue THEN NoValue ELSE gone(r)]
      /\ loop' = NoValue
      /\ UNCHANGED <<authEnabled, clock, keys, audit, ingested>>
  BY DEF Crash
<1>2. TypeOK /\ requests \in RequestTable
  BY DEF IInv, TypeOK, RequestTable
<1>3. keys' \in KeyTable /\ KeysStep
  BY <1>1, <1>2, SameKeys
<1>4. ASSUME NEW r \in Requests, requests[r] # NoValue
      PROVE  /\ gone(r) \in RequestRecords
             /\ gone(r).stage = "done"
             /\ gone(r).tenant = requests[r].tenant
             /\ gone(r).key = requests[r].key
             /\ gone(r).stale = requests[r].stale
             /\ gone(r).reply = "ok" <=> requests[r].reply = "ok"
  <2>1. requests[r] \in RequestRecords
    BY <1>2, <1>4 DEF RequestTable
  <2>2. QED BY <2>1, NoValueAssumption DEF RequestRecords, Stages
<1> HIDE DEF gone
<1>5. requests' \in RequestTable
  BY <1>1, <1>4 DEF RequestTable
<1>6. TypeOK'
  BY <1>1, <1>2, <1>5 DEF TypeOK, RequestTable
<1>7. ASSUME NEW r \in Requests
      PROVE  RequestHeld(r)'
  <2>1. CASE requests[r] = NoValue
    <3>1. requests'[r] = requests[r]
      BY <1>1, <2>1
    <3>2. QED BY <1>1, <1>3, <3>1, Framed
  <2>2. CASE requests[r] # NoValue
    <3>1. requests'[r] = gone(r) /\ gone(r) # NoValue
      BY <1>1, <1>4, <2>2, RecordsAssumption
    <3>2. RequestHeld(r)
      BY DEF IInv
    <3>3. TenantKnown(r)'
      BY <1>4, <2>2, <3>1 DEF TenantKnown
    <3>4. KeyHeld(r)'
      BY <1>3, <1>4, <2>2, <3>1, <3>2 DEF RequestHeld, KeyHeld, Served, KeysStep
    <3>5. StaleHeld(r)'
      BY <1>2, <1>3, <1>4, <2>2, <3>1, <3>2, DeadStays
         DEF RequestHeld, StaleHeld, KeysStep
    <3>6. RecordsHeld(r)'
      BY <1>1, <1>4, <2>2, <3>1, <3>2 DEF RequestHeld, RecordsHeld
    <3>7. QED BY <3>3, <3>4, <3>5, <3>6 DEF RequestHeld
  <2>3. QED BY <2>1, <2>2
<1>8. QED BY <1>6, <1>7 DEF IInv

-----------------------------------------------------------------------------
\* The theorems.

LEMMA InitHolds == ASSUME Init PROVE IInv
<1>1. TypeOK
  <2>1. clock \in Times
    BY AccessAssumption DEF Init, Times
  <2>2. keys \in KeyTable
    BY DEF Init, KeyTable, KeyRows
  <2>3. QED BY <2>1, <2>2 DEF Init, TypeOK, KeyTable
<1>2. ASSUME NEW r \in Requests
      PROVE  RequestHeld(r)
  BY DEF Init, RequestHeld, TenantKnown, KeyHeld, StaleHeld, RecordsHeld
<1>3. QED BY <1>1, <1>2 DEF IInv

LEMMA StepHolds == ASSUME IInv, [Next]_vars PROVE IInv'
<1>1. ASSUME NEW r \in Requests, NEW endpoint \in Endpoints,
             NEW key \in KeyIds \cup {NoValue},
             NEW claimed \in Tenants \cup {NoValue}, NEW question \in Questions,
             NEW asked \in Modes \cup {NoValue},
             Arrive(r, endpoint, key, claimed, question, asked)
      PROVE  IInv'
  BY <1>1, ArriveKeeps
<1>2. ASSUME NEW r \in Requests, Handle(r)
      PROVE  IInv'
  BY <1>2, BypassKeeps, RefusalKeeps, ResolveKeeps, TouchKeeps, AnswerKeeps,
     BeginIngestKeeps, FinishIngestKeeps, IngestFailsKeeps, HandlerFailsKeeps,
     RecordKeeps DEF Handle
<1>3. ASSUME Administer
      PROVE  IInv'
  <2>1. TypeOK
    BY DEF IInv
  <2>2. CASE Tick
    BY <2>1, <2>2, TickStep, AdministerKeeps DEF Tick
  <2>3. ASSUME NEW k \in KeyIds, RevokeKey(k)
        PROVE  IInv'
    BY <2>1, <2>3, RevokeKeyStep, AdministerKeeps DEF RevokeKey, TypeOK
  <2>4. ASSUME NEW k \in KeyIds, NEW t \in Tenants, CreateKey(k, t)
        PROVE  IInv'
    BY <2>1, <2>4, CreateKeyStep, AdministerKeeps DEF CreateKey, TypeOK
  <2>5. QED BY <1>3, <2>2, <2>3, <2>4 DEF Administer
<1>4. CASE Crash
  BY <1>4, CrashKeeps
<1>5. CASE UNCHANGED vars
  <2>1. TypeOK
    BY DEF IInv
  <2>2. keys' \in KeyTable /\ KeysStep /\ clock' \in Times
    BY <1>5, <2>1, SameKeys DEF vars, TypeOK
  <2>3. QED BY <1>5, <2>2, AdministerKeeps DEF vars
<1>6. QED BY <1>1, <1>2, <1>3, <1>4, <1>5 DEF Next

(***************************************************************************)
(* The invariant holds in every reachable state.                           *)
(***************************************************************************)
THEOREM Invariant == Spec => []IInv
<1>1. Init => IInv
  BY InitHolds
<1>2. IInv /\ [Next]_vars => IInv'
  BY StepHolds
<1>3. QED BY <1>1, <1>2, PTL DEF Spec

(***************************************************************************)
(* The variables have their types.                                         *)
(***************************************************************************)
THEOREM AccessTypeCorrect == Spec => []TypeOK
<1>1. IInv => TypeOK
  BY DEF IInv
<1>2. QED BY <1>1, Invariant, PTL

(***************************************************************************)
(* A request that came with a dead key is never served, audited or         *)
(* ingested, for any number of requests, keys and restarts.                *)
(***************************************************************************)
THEOREM DeadKeysRefused == Spec => []DeadKeysAreRefused
<1>1. IInv => DeadKeysAreRefused
  <2> SUFFICES ASSUME IInv, authEnabled, NEW r \in Requests,
                      requests[r] # NoValue, requests[r].stale
               PROVE  /\ ~Served(r)
                      /\ \A row \in audit : row.request # r
                      /\ \A upload \in ingested : upload[1] # r
    BY DEF DeadKeysAreRefused
  <2>1. StaleHeld(r) /\ RecordsHeld(r)
    BY DEF IInv, RequestHeld
  <2>2. QED BY <2>1 DEF StaleHeld, RecordsHeld, Served
<1>2. QED BY <1>1, Invariant, PTL

(***************************************************************************)
(* With auth on, everything is served, audited and ingested under the      *)
(* tenant of the request's key.                                            *)
(***************************************************************************)
THEOREM KeysTenantServed == Spec => []ServedForKeysTenant
<1>1. IInv => ServedForKeysTenant
  <2> SUFFICES ASSUME IInv, authEnabled, NEW r \in Requests
               PROVE  LET k == requests[r].key IN
                      /\ requests[r] # NoValue /\ Served(r) =>
                           k # NoValue /\ keys[k] # NoValue /\ requests[r].tenant = keys[k].tenant
                      /\ \A row \in audit : row.request = r =>
                           requests[r] # NoValue /\ keys[k] # NoValue /\ row.tenant = keys[k].tenant
                      /\ \A upload \in ingested : upload[1] = r =>
                           requests[r] # NoValue /\ keys[k] # NoValue /\ upload[2] = keys[k].tenant
    BY DEF ServedForKeysTenant
  <2>1. KeyHeld(r) /\ RecordsHeld(r)
    BY DEF IInv, RequestHeld
  <2>2. requests[r] # NoValue /\ Served(r) =>
          /\ requests[r].key \in KeyIds
          /\ keys[requests[r].key] # NoValue
          /\ requests[r].tenant = keys[requests[r].key].tenant
    BY <2>1 DEF KeyHeld
  <2>3. \A row \in audit : row.request = r =>
          requests[r] # NoValue /\ Served(r) /\ row.tenant = requests[r].tenant
    BY <2>1 DEF RecordsHeld, Served
  <2>4. \A upload \in ingested : upload[1] = r =>
          requests[r] # NoValue /\ Served(r) /\ upload[2] = requests[r].tenant
    BY <2>1 DEF RecordsHeld, Served
  <2>5. NoValue \notin KeyIds
    BY NoValueAssumption
  <2>6. QED BY <2>2, <2>3, <2>4, <2>5
<1>2. QED BY <1>1, Invariant, PTL

(***************************************************************************)
(* What a step does to the keys.                                           *)
(***************************************************************************)
LEMMA StepOfKeys == ASSUME IInv, [Next]_vars PROVE KeysStep
<1>1. TypeOK
  BY DEF IInv
<1>2. ASSUME NEW r \in Requests, Touch(r)
      PROVE  KeysStep
  <2>1. At(r, "touch")
    BY <1>2 DEF Touch, Start
  <2>2. Fits(r, requests[r]) /\ requests[r].stage = "touch"
    BY <2>1, Held
  <2>3. requests[r].key \in KeyIds /\ keys[requests[r].key] # NoValue
    BY <2>2 DEF Fits
  <2>4. QED BY <1>1, <1>2, <2>3, TouchKeys
<1>3. ASSUME NEW r \in Requests, Handle(r)
      PROVE  KeysStep
  <2>1. CASE Touch(r)
    BY <1>2, <2>1
  <2>2. CASE ~Touch(r)
    <3>1. UNCHANGED <<authEnabled, clock, keys>>
      BY <1>3, <2>2
         DEF Handle, Bypass, NoHeader, Resolve, Refuse, AnswerQuery, Aggregate,
             BeginIngest, FinishIngest, IngestFails, NotPdf, HandlerFails, Record
    <3>2. QED BY <1>1, <3>1, SameKeys
  <2>3. QED BY <2>1, <2>2
<1>4. ASSUME Administer
      PROVE  KeysStep
  BY <1>1, <1>4, TickStep, RevokeKeyStep, CreateKeyStep DEF Administer
<1>5. CASE Crash
  BY <1>1, <1>5, SameKeys DEF Crash
<1>6. CASE UNCHANGED vars
  BY <1>1, <1>6, SameKeys DEF vars
<1>7. ASSUME NEW r \in Requests, NEW endpoint \in Endpoints,
             NEW key \in KeyIds \cup {NoValue},
             NEW claimed \in Tenants \cup {NoValue}, NEW question \in Questions,
             NEW asked \in Modes \cup {NoValue},
             Arrive(r, endpoint, key, claimed, question, asked)
      PROVE  KeysStep
  BY <1>1, <1>7, SameKeys DEF Arrive
<1>8. QED BY <1>3, <1>4, <1>5, <1>6, <1>7 DEF Next

(***************************************************************************)
(* No step takes a revocation back, whatever is between the read of a key  *)
(* and the write of its last_used_at.                                      *)
(***************************************************************************)
THEOREM RevocationHolds == Spec => RevocationIsFinal
<1>1. IInv /\ [Next]_vars =>
        [\A k \in KeyIds : keys[k] # NoValue =>
            /\ keys'[k] # NoValue
            /\ keys'[k].tenant = keys[k].tenant
            /\ ~keys[k].active => ~keys'[k].active]_vars
  BY StepOfKeys DEF KeysStep
<1>2. QED BY <1>1, Invariant, PTL DEF Spec, RevocationIsFinal

-----------------------------------------------------------------------------
\* What a step does to the requests and to the audit log.

(***************************************************************************)
(* A request keeps its endpoint and its mode, and an answer once given.    *)
(***************************************************************************)
Advances(q, x) ==
    /\ x \in RequestRecords
    /\ x.endpoint = q.endpoint /\ x.mode = q.mode
    /\ q.reply = "ok" => x.reply = "ok"

RequestsStep ==
    \A r \in Requests : requests[r] # NoValue =>
      requests'[r] # NoValue /\ Advances(requests[r], requests'[r])

(***************************************************************************)
(* A handler moves its own request on.                                     *)
(***************************************************************************)
LEMMA HandlerAdvances ==
    ASSUME IInv, NEW r \in Requests, Handle(r)
    PROVE  \E x : Change(r, x) /\ Advances(requests[r], x)
<1> DEFINE q == requests[r]
<1>1. ASSUME NEW from \in {"auth", "touch", "serve", "ingest"},
             NEW to \in Stages, NEW reply \in {"ok", "refused", "failed"}, At(r, from),
             Change(r, [q EXCEPT !.stage = to, !.reply = reply])
      PROVE  \E x : Change(r, x) /\ Advances(requests[r], x)
  <2> DEFINE x == [q EXCEPT !.stage = to, !.reply = reply]
  <2>1. q \in RequestRecords /\ Fits(r, q) /\ q.stage = from
    BY <1>1, Held
  <2>2. q.reply # "ok"
    BY <2>1 DEF Fits
  <2>3. x \in RequestRecords /\ x.endpoint = q.endpoint /\ x.mode = q.mode
    BY <2>1 DEF RequestRecords
  <2>4. Change(r, x) /\ Advances(q, x)
    BY <1>1, <2>2, <2>3 DEF Advances
  <2> HIDE DEF x
  <2>5. QED BY <2>4
<1>2. ASSUME NEW from \in Stages, NEW to \in Stages, At(r, from),
             Change(r, [q EXCEPT !.stage = to])
      PROVE  \E x : Change(r, x) /\ Advances(requests[r], x)
  <2> DEFINE x == [q EXCEPT !.stage = to]
  <2>1. q \in RequestRecords
    BY <1>2, Held
  <2>2. /\ x \in RequestRecords /\ x.endpoint = q.endpoint /\ x.mode = q.mode
        /\ x.reply = q.reply
    BY <2>1 DEF RequestRecords
  <2>3. Change(r, x) /\ Advances(q, x)
    BY <1>2, <2>2 DEF Advances
  <2> HIDE DEF x
  <2>4. QED BY <2>3
<1>3. ASSUME NEW from \in {"auth", "touch"}, NEW to \in Stages,
             NEW t \in Tenants \cup {NoValue}, At(r, from),
             Change(r, [q EXCEPT !.stage = to, !.tenant = t])
      PROVE  \E x : Change(r, x) /\ Advances(requests[r], x)
  <2> DEFINE x == [q EXCEPT !.stage = to, !.tenant = t]
  <2>1. q \in RequestRecords
    BY <1>3, Held
  <2>2. /\ x \in RequestRecords /\ x.endpoint = q.endpoint /\ x.mode = q.mode
        /\ x.reply = q.reply
    BY <2>1 DEF RequestRecords
  <2>3. Change(r, x) /\ Advances(q, x)
    BY <1>3, <2>2 DEF Advances
  <2> HIDE DEF x
  <2>4. QED BY <2>3
<1>4. CASE NoHeader(r) \/ Refuse(r) \/ NotPdf(r) \/ HandlerFails(r)
           \/ AnswerQuery(r) \/ Aggregate(r)
  BY <1>1, <1>4 DEF NoHeader, Refuse, NotPdf, HandlerFails, AnswerQuery, Aggregate,
                    Reply, Stages
<1>5. CASE FinishIngest(r) \/ IngestFails(r)
  BY <1>1, <1>5 DEF FinishIngest, IngestFails, Stages
<1>6. CASE BeginIngest(r) \/ Record(r)
  BY <1>2, <1>6 DEF BeginIngest, Record, Stages
<1>7. CASE Bypass(r) \/ Resolve(r) \/ Touch(r)
  <2>1. ASSUME NEW s, At(r, s)
        PROVE  /\ q.tenant \in Tenants \cup {NoValue}
               /\ q.claimed \in Tenants \cup {NoValue}
               /\ q.key \in KeyIds \cup {NoValue}
    BY <2>1, Held DEF RequestRecords
  <2>2. CASE Bypass(r)
    <3>1. At(r, "auth") /\ ServedTenant(r, DefaultTenant) \in Tenants
      BY <2>1, <2>2, AccessAssumption DEF Bypass, Start, ServedTenant
    <3>2. QED BY <1>3, <2>2, <3>1 DEF Bypass, Start, Stages
  <2>3. CASE Resolve(r)
    <3>1. At(r, "auth") /\ keys[q.key] # NoValue /\ q.key # NoValue
      BY <2>3 DEF Resolve, Good, Valid
    <3>2. q.key \in KeyIds
      BY <2>1, <3>1
    <3>3. keys[q.key] \in KeyRows
      BY <3>1, <3>2 DEF IInv, TypeOK
    <3>4. keys[q.key].tenant \in Tenants
      BY <3>3 DEF KeyRows
    <3>5. QED BY <1>3, <2>3, <3>1, <3>4 DEF Resolve, Stages
  <2>4. CASE Touch(r)
    <3>1. At(r, "touch") /\ ServedTenant(r, q.tenant) \in Tenants \cup {NoValue}
      BY <2>1, <2>4, AccessAssumption DEF Touch, Start, ServedTenant
    <3>2. QED BY <1>3, <2>4, <3>1 DEF Touch, Start, Stages
  <2>5. QED BY <1>7, <2>2, <2>3, <2>4
<1>8. QED BY <1>4, <1>5, <1>6, <1>7 DEF Handle

LEMMA StepOfRequests == ASSUME IInv, [Next]_vars PROVE RequestsStep
<1>1. requests \in RequestTable
  BY DEF IInv, TypeOK, RequestTable
<1>2. ASSUME requests' = requests
      PROVE  RequestsStep
  BY <1>1, <1>2 DEF RequestsStep, Advances, RequestTable
<1>3. ASSUME NEW r \in Requests, Handle(r)
      PROVE  RequestsStep
  <2>1. PICK x : Change(r, x) /\ Advances(requests[r], x)
    BY <1>3, HandlerAdvances
  <2>2. /\ requests'[r] = x /\ x # NoValue
        /\ \A q \in Requests : q # r => requests'[q] = requests[q]
    BY <1>1, <2>1, ChangeOne, RecordsAssumption DEF Advances
  <2>3. QED BY <1>1, <2>1, <2>2 DEF RequestsStep, Advances, RequestTable
<1>4. ASSUME NEW r \in Requests, NEW endpoint \in Endpoints,
             NEW key \in KeyIds \cup {NoValue},
             NEW claimed \in Tenants \cup {NoValue}, NEW question \in Questions,
             NEW asked \in Modes \cup {NoValue},
             Arrive(r, endpoint, key, claimed, question, asked)
      PROVE  RequestsStep
  <2>1. \A q \in Requests : q # r => requests'[q] = requests[q]
    BY <1>1, <1>4 DEF Arrive, RequestTable
  <2>2. requests[r] = NoValue
    BY <1>4 DEF Arrive
  <2>3. QED BY <1>1, <2>1, <2>2 DEF RequestsStep, Advances, RequestTable
<1>5. CASE Crash
  <2>1. ASSUME NEW r \in Requests, requests[r] # NoValue
        PROVE  requests'[r] # NoValue /\ Advances(requests[r], requests'[r])
    <3> DEFINE x == [requests[r] EXCEPT !.stage = "done",
                        !.reply = IF @ = NoValue THEN "failed" ELSE @]
    <3>1. requests[r] \in RequestRecords
      BY <1>1, <2>1 DEF RequestTable
    <3>2. Advances(requests[r], x)
      BY <3>1, NoValueAssumption DEF Advances, RequestRecords, Stages
    <3>3. requests'[r] = x
      BY <1>5, <2>1 DEF Crash
    <3> HIDE DEF x
    <3>4. x # NoValue
      BY <3>2, RecordsAssumption DEF Advances
    <3>5. QED BY <3>2, <3>3, <3>4
  <2>2. QED BY <2>1 DEF RequestsStep
<1>6. CASE Administer
  BY <1>2, <1>6 DEF Administer, RevokeKey, CreateKey, Tick
<1>7. CASE UNCHANGED vars
  BY <1>2, <1>7 DEF vars
<1>8. QED BY <1>3, <1>4, <1>5, <1>6, <1>7 DEF Next

(***************************************************************************)
(* A new audit row is that of a request that has been answered.            *)
(***************************************************************************)
LEMMA StepOfAudit ==
    ASSUME IInv, [Next]_vars
    PROVE  \A row \in audit' : row \in audit \/
              \E r \in Requests : At(r, "record") /\ row = AuditRow(r)
<1>1. ASSUME NEW r \in Requests, Handle(r)
      PROVE  audit' = audit \/ (At(r, "record") /\ audit' = audit \cup {AuditRow(r)})
  BY <1>1 DEF Handle, Bypass, NoHeader, Resolve, Refuse, Touch, AnswerQuery, Aggregate,
       BeginIngest, FinishIngest, IngestFails, NotPdf, HandlerFails, Record
<1>2. ASSUME ~\E r \in Requests : Handle(r)
      PROVE  audit' = audit
  BY <1>2 DEF Next, Arrive, Administer, RevokeKey, CreateKey, Tick, Crash, vars
<1>3. QED BY <1>1, <1>2

-----------------------------------------------------------------------------
\* The stored history.

Lists == Seq(HistoryEntries)
TurnTable == [Requests -> Turns \cup {NoValue}]
PushTable == [Tabs -> Pushes \cup {NoValue}]

(***************************************************************************)
(* A list in order, of requests that are in a set, and made when no others *)
(* had been stored.                                                        *)
(***************************************************************************)
GoodList(list, known) ==
    /\ list \in Lists /\ WellOrdered(list)
    /\ \A i \in DOMAIN list : list[i].request \in known /\ list[i].before \subseteq known

(***************************************************************************)
(* A tab that pushes pushes a turn of its own that is answered and not     *)
(* stored yet, and once it has read the list, puts that turn first.        *)
(***************************************************************************)
GoodPush(tab) == pushing[tab] # NoValue =>
    LET e == pushing[tab].entry
        r == e.request
        list == pushing[tab].list
    IN  /\ r \in Requests /\ turns[r] # NoValue
        /\ turns[r].tab = tab /\ turns[r].status = "ok"
        /\ r \notin stored /\ e.before \subseteq stored
        /\ list # NoValue =>
             GoodList(list, stored \cup {r}) /\ list # <<>> /\ list[1] = e

(***************************************************************************)
(* A request with a turn or an entry has been sent, and one that waits for *)
(* its answer has no entry.                                                *)
(***************************************************************************)
GoodTurn(r) ==
    /\ turns[r] # NoValue \/ r \in stored => requests[r] # NoValue
    /\ turns[r] # NoValue /\ turns[r].status = "pending" => r \notin stored

ChatInv ==
    /\ ChatTypeOK
    /\ GoodList(history, stored)
    /\ \A tab \in Tabs : GoodPush(tab)
    /\ \A r \in Requests : GoodTurn(r)

LEMMA ChatTables ==
    ASSUME ChatInv
    PROVE  turns \in TurnTable /\ pushing \in PushTable /\ GoodList(history, stored)
BY DEF ChatInv, ChatTypeOK, TurnTable, PushTable

LEMMA ListEntries ==
    ASSUME NEW list \in Lists
    PROVE  /\ Len(list) \in Nat /\ DOMAIN list = 1..Len(list)
           /\ \A i \in 1..Len(list) : list[i] \in HistoryEntries
BY DEF Lists

LEMMA GoodListGrows ==
    ASSUME NEW known, NEW more, known \subseteq more, NEW list, GoodList(list, known)
    PROVE  GoodList(list, more)
BY DEF GoodList

(***************************************************************************)
(* pushHistory puts the entry first and keeps the first of the others.     *)
(***************************************************************************)
LEMMA WithEntryIs ==
    ASSUME history \in Lists, Len(history) <= MaxEntries, NEW e \in HistoryEntries
    PROVE  LET n == IF Len(history) < MaxEntries THEN Len(history) + 1 ELSE MaxEntries
           IN  /\ WithEntry(e) \in Lists
               /\ Len(WithEntry(e)) = n
               /\ n \in 1..MaxEntries
               /\ WithEntry(e)[1] = e
               /\ \A i \in 2..n : i - 1 \in 1..Len(history) /\ WithEntry(e)[i] = history[i - 1]
<1> DEFINE n == IF Len(history) < MaxEntries THEN Len(history) + 1 ELSE MaxEntries
           all == <<e>> \o history
<1>1. MaxEntries \in Nat \ {0} /\ Len(history) \in Nat
  BY WebAssumption DEF Lists
<1>2. /\ all \in Seq(HistoryEntries)
      /\ Len(all) = Len(history) + 1
      /\ all[1] = e
      /\ \A i \in 2..(Len(history) + 1) : all[i] = history[i - 1]
  BY <1>1 DEF Lists
<1>3. n \in 1..MaxEntries /\ n <= Len(all) /\ n <= Len(history) + 1
  BY <1>1, <1>2
<1>4. WithEntry(e) = SubSeq(all, 1, n)
  BY DEF WithEntry
<1> HIDE DEF n, all
<1>5. /\ SubSeq(all, 1, n) \in Seq(HistoryEntries)
      /\ Len(SubSeq(all, 1, n)) = n
      /\ \A i \in 1..n : SubSeq(all, 1, n)[i] = all[i]
  BY <1>1, <1>2, <1>3
<1>6. \A i \in 2..n : i - 1 \in 1..Len(history) /\ WithEntry(e)[i] = history[i - 1]
  BY <1>1, <1>2, <1>3, <1>4, <1>5
<1>7. WithEntry(e)[1] = e
  BY <1>1, <1>2, <1>3, <1>4, <1>5
<1>8. QED BY <1>3, <1>4, <1>5, <1>6, <1>7 DEF n, Lists

(***************************************************************************)
(* The list read by a tab, with its entry ahead: the entry is of a request *)
(* that no stored one is of, nor was made after.                           *)
(***************************************************************************)
LEMMA PushedList ==
    ASSUME NEW known, GoodList(history, known), NEW e \in HistoryEntries,
           e.request \notin known, e.before \subseteq known
    PROVE  LET list == WithEntry(e) IN
           GoodList(list, known \cup {e.request}) /\ list # <<>> /\ list[1] = e
<1> DEFINE list == WithEntry(e)
           n == IF Len(history) < MaxEntries THEN Len(history) + 1 ELSE MaxEntries
<1>1. /\ history \in Lists /\ Len(history) <= MaxEntries /\ Len(history) \in Nat
      /\ \A i \in 1..Len(history) :
           history[i].request \in known /\ history[i].before \subseteq known
      /\ \A i, j \in 1..Len(history) : i < j =>
           /\ history[i].request # history[j].request
           /\ history[i].request \notin history[j].before
  BY ListEntries DEF GoodList, WellOrdered
<1>2. /\ list \in Lists /\ Len(list) = n /\ n \in 1..MaxEntries /\ list[1] = e
      /\ \A i \in 2..n : i - 1 \in 1..Len(history) /\ list[i] = history[i - 1]
  BY <1>1, WithEntryIs
<1>3. MaxEntries \in Nat \ {0} /\ n \in Nat /\ DOMAIN list = 1..n
  BY <1>2, WebAssumption DEF Lists
<1> HIDE DEF list, n
<1>4. ASSUME NEW i \in 2..n
      PROVE  list[i].request \in known /\ list[i].before \subseteq known
  BY <1>1, <1>2
<1>5. ASSUME NEW i \in 1..n
      PROVE  /\ list[i].request \in known \cup {e.request}
             /\ list[i].before \subseteq known \cup {e.request}
  <2>1. i = 1 \/ i \in 2..n
    BY <1>3
  <2>2. QED BY <1>2, <1>4, <2>1
<1>6. ASSUME NEW i \in 1..n, NEW j \in 1..n, i < j
      PROVE  list[i].request # list[j].request /\ list[i].request \notin list[j].before
  <2>1. /\ j \in 2..n /\ j - 1 \in 1..Len(history) /\ list[j] = history[j - 1]
        /\ i = 1 \/ i \in 2..n
    BY <1>2, <1>3, <1>6
  <2>2. CASE i = 1
    BY <1>2, <1>4, <2>1, <2>2
  <2>3. CASE i \in 2..n
    <3>1. i - 1 \in 1..Len(history) /\ list[i] = history[i - 1]
      BY <1>2, <2>3
    <3>2. i - 1 < j - 1
      BY <1>3, <1>6
    <3>3. QED BY <1>1, <2>1, <3>1, <3>2
  <2>4. QED BY <2>1, <2>2, <2>3
<1>7. WellOrdered(list)
  BY <1>2, <1>3, <1>6 DEF WellOrdered
<1>8. list # <<>>
  BY <1>2, <1>3
<1>9. GoodList(list, known \cup {e.request})
  BY <1>2, <1>3, <1>5, <1>7 DEF GoodList
<1>10. QED BY <1>2, <1>8, <1>9 DEF list

-----------------------------------------------------------------------------
\* The steps of a tab.

(***************************************************************************)
(* No request is forgotten.                                                *)
(***************************************************************************)
RequestsKept == \A r \in Requests : requests[r] # NoValue => requests'[r] # NoValue

LEMMA SettledTurns ==
    ASSUME ChatTypeOK, NEW r \in Requests, turns[r] # NoValue,
           NEW status \in {"ok", "error"}, Settled(r, status)
    PROVE  /\ turns' \in TurnTable
           /\ turns'[r] # NoValue /\ turns'[r].tab = turns[r].tab
           /\ turns'[r].mode = turns[r].mode /\ turns'[r].status = status
           /\ \A q \in Requests : q # r => turns'[q] = turns[q]
<1> DEFINE x == [turns[r] EXCEPT !.status = status]
<1>1. turns \in TurnTable /\ turns[r] \in Turns
  BY DEF ChatTypeOK, TurnTable
<1>2. /\ x \in Turns /\ x.tab = turns[r].tab
      /\ x.mode = turns[r].mode /\ x.status = status
  BY <1>1 DEF Turns
<1>3. x # NoValue
  BY <1>2, TabsAssumption
<1>4. turns' = [turns EXCEPT ![r] = x]
  BY DEF Settled
<1> HIDE DEF x
<1>5. turns' \in TurnTable /\ turns'[r] = x /\ \A q \in Requests : q # r => turns'[q] = turns[q]
  BY <1>1, <1>2, <1>4 DEF TurnTable
<1>6. QED BY <1>2, <1>3, <1>5

(***************************************************************************)
(* A push stays good while its turn stays and others store theirs.         *)
(***************************************************************************)
LEMMA PushStays ==
    ASSUME ChatInv, NEW tab \in Tabs, pushing'[tab] = pushing[tab],
           stored \subseteq stored',
           pushing[tab] # NoValue =>
             LET r == pushing[tab].entry.request IN
             (r \in stored' => r \in stored) /\ turns'[r] = turns[r]
    PROVE  GoodPush(tab)'
<1>1. CASE pushing[tab] = NoValue
  BY <1>1 DEF GoodPush
<1>2. CASE pushing[tab] # NoValue
  <2>1. PICK e, r, list : e = pushing[tab].entry /\ r = e.request /\ list = pushing[tab].list
    OBVIOUS
  <2>2. /\ r \in Requests /\ turns[r] # NoValue
        /\ turns[r].tab = tab /\ turns[r].status = "ok"
        /\ r \notin stored /\ e.before \subseteq stored
        /\ list # NoValue =>
             GoodList(list, stored \cup {r}) /\ list # <<>> /\ list[1] = e
    BY <1>2, <2>1 DEF ChatInv, GoodPush
  <2>3. turns'[r] = turns[r] /\ r \notin stored' /\ stored \cup {r} \subseteq stored' \cup {r}
    BY <1>2, <2>1, <2>2
  <2>4. list # NoValue => GoodList(list, stored' \cup {r})
    BY <2>2, <2>3, GoodListGrows
  <2>5. pushing'[tab].entry = e /\ pushing'[tab].list = list
    BY <2>1
  <2>6. list # NoValue => GoodList(pushing'[tab].list, stored' \cup {r})
    BY <2>4, <2>5
  <2>7. QED BY <2>1, <2>2, <2>3, <2>5, <2>6 DEF GoodPush
<1>3. QED BY <1>1, <1>2

LEMMA SubmitKeeps ==
    ASSUME ChatInv, RequestsKept, NEW tab \in Tabs, NEW r \in Requests, Submit(tab, r),
           requests[r] = NoValue, requests'[r] # NoValue
    PROVE  ChatInv'
<1> DEFINE x == [tab |-> tab, mode |-> mode[tab], status |-> "pending"]
<1>1. ChatTypeOK /\ turns \in TurnTable
  BY ChatTables DEF ChatInv
<1>2. x \in Turns
  BY <1>1 DEF ChatTypeOK, Turns
<1>3. /\ turns[r] = NoValue
      /\ turns' = [turns EXCEPT ![r] = x]
      /\ UNCHANGED <<mode, savedMode, history, pushing, stored, switches>>
  BY DEF Submit
<1>4. r \notin stored
  BY DEF ChatInv, GoodTurn
<1> HIDE DEF x
<1>5. /\ turns' \in TurnTable
      /\ \A q \in Requests : q # r => turns'[q] = turns[q]
  BY <1>1, <1>2, <1>3 DEF TurnTable
<1>6. ChatTypeOK'
  BY <1>1, <1>3, <1>5 DEF ChatTypeOK, TurnTable
<1>7. GoodList(history', stored')
  BY <1>3 DEF ChatInv
<1>8. ASSUME NEW t \in Tabs
      PROVE  GoodPush(t)'
  <2>1. pushing[t] # NoValue => pushing[t].entry.request \in Requests \ {r}
    BY <1>3 DEF ChatInv, GoodPush
  <2>2. QED BY <1>3, <1>5, <2>1, PushStays
<1>9. ASSUME NEW q \in Requests
      PROVE  GoodTurn(q)'
  <2>1. CASE q = r
    BY <1>3, <1>4, <2>1 DEF GoodTurn
  <2>2. CASE q # r
    BY <1>3, <1>5, <2>2 DEF ChatInv, GoodTurn, RequestsKept
  <2>3. QED BY <2>1, <2>2
<1>10. QED BY <1>6, <1>7, <1>8, <1>9 DEF ChatInv

(***************************************************************************)
(* A turn settled leaves the others as they are.                           *)
(***************************************************************************)
LEMMA TurnsStayGood ==
    ASSUME ChatInv, RequestsKept, NEW r \in Requests, turns[r] # NoValue,
           NEW status \in {"ok", "error"}, Settled(r, status), stored' = stored
    PROVE  \A q \in Requests : GoodTurn(q)'
<1>1. /\ turns'[r].status = status
      /\ \A q \in Requests : q # r => turns'[q] = turns[q]
  BY SettledTurns DEF ChatInv
<1>2. ASSUME NEW q \in Requests
      PROVE  GoodTurn(q)'
  <2>1. GoodTurn(q)
    BY DEF ChatInv
  <2>2. CASE q = r
    BY <1>1, <2>1, <2>2 DEF GoodTurn, RequestsKept
  <2>3. CASE q # r
    BY <1>1, <2>1, <2>3 DEF GoodTurn, RequestsKept
  <2>4. QED BY <2>2, <2>3
<1>3. QED BY <1>2

LEMMA ReceiveAnswerKeeps ==
    ASSUME ChatInv, RequestsKept, NEW r \in Requests, ReceiveAnswer(r)
    PROVE  ChatInv'
<1>1. /\ ChatTypeOK /\ pushing \in PushTable /\ turns[r] # NoValue
      /\ turns[r].status = "pending" /\ stored \subseteq Pushed
  BY ChatTables DEF ChatInv, ChatTypeOK, ReceiveAnswer, Waiting
<1>2. PICK t \in Tabs : turns[r] \in Turns /\ t = turns[r].tab
  BY <1>1 DEF ChatTypeOK, Turns
<1>3. PICK e : e = Entry(r)
  OBVIOUS
<1>4. e \in HistoryEntries /\ e.request = r /\ e.before = stored
  BY <1>1, <1>2, <1>3 DEF Entry, HistoryEntries, Turns, Pushed
<1>5. PICK x : x = [entry |-> e, list |-> NoValue]
  OBVIOUS
<1>6. x \in Pushes /\ x # NoValue /\ x.entry = e /\ x.list = NoValue
  BY <1>4, <1>5, TabsAssumption DEF Pushes
<1>7. /\ Settled(r, "ok")
      /\ pushing' = [pushing EXCEPT ![t] = x]
      /\ UNCHANGED <<mode, savedMode, history, stored, switches>>
  BY <1>2, <1>3, <1>5 DEF ReceiveAnswer
<1>8. /\ turns' \in TurnTable
      /\ turns'[r] # NoValue /\ turns'[r].tab = t /\ turns'[r].status = "ok"
      /\ \A q \in Requests : q # r => turns'[q] = turns[q]
  BY <1>1, <1>2, <1>7, SettledTurns
<1>9. /\ pushing' \in PushTable /\ pushing'[t] = x
      /\ \A s \in Tabs : s # t => pushing'[s] = pushing[s]
  BY <1>1, <1>2, <1>6, <1>7 DEF PushTable
<1>10. ChatTypeOK'
  BY <1>1, <1>7, <1>8, <1>9 DEF ChatTypeOK, TurnTable, PushTable
<1>11. GoodList(history', stored')
  BY <1>7 DEF ChatInv
<1>12. r \notin stored
  BY <1>1 DEF ChatInv, GoodTurn
<1>13. GoodPush(t)'
  BY <1>4, <1>6, <1>7, <1>8, <1>9, <1>12 DEF GoodPush
<1>14. ASSUME NEW s \in Tabs, s # t
       PROVE  GoodPush(s)'
  <2>1. pushing'[s] = pushing[s]
    BY <1>9, <1>14
  <2>2. pushing[s] # NoValue => pushing[s].entry.request \in Requests \ {r}
    BY <1>2, <1>14 DEF ChatInv, GoodPush
  <2>3. QED BY <1>7, <1>8, <2>1, <2>2, PushStays
<1>15. \A q \in Requests : GoodTurn(q)'
  BY <1>1, <1>7, TurnsStayGood
<1>16. QED BY <1>10, <1>11, <1>13, <1>14, <1>15 DEF ChatInv

(***************************************************************************)
(* Whatever another tab stores from now on, the list this tab has read and *)
(* put its entry ahead of is in order.                                     *)
(***************************************************************************)
LEMMA LoadHistoryKeeps ==
    ASSUME ChatInv, RequestsKept, NEW tab \in Tabs, LoadHistory(tab)
    PROVE  ChatInv'
<1>1. ChatTypeOK /\ pushing \in PushTable /\ GoodList(history, stored)
  BY ChatTables DEF ChatInv
<1>2. PICK e, list, x : /\ e = pushing[tab].entry /\ list = WithEntry(e)
                        /\ x = [pushing[tab] EXCEPT !.list = list]
  OBVIOUS
<1>3. /\ pushing[tab] \in Pushes /\ pushing[tab] # NoValue
      /\ pushing' = [pushing EXCEPT ![tab] = x]
      /\ UNCHANGED <<turns, mode, savedMode, history, stored, switches>>
  BY <1>1, <1>2 DEF LoadHistory, PushTable
<1>4. e \in HistoryEntries
  BY <1>2, <1>3 DEF Pushes
<1>5. /\ e.request \in Requests /\ turns[e.request] # NoValue
      /\ turns[e.request].tab = tab /\ turns[e.request].status = "ok"
      /\ e.request \notin stored /\ e.before \subseteq stored
  BY <1>2, <1>3 DEF ChatInv, GoodPush
<1>6. GoodList(list, stored \cup {e.request}) /\ list # <<>> /\ list[1] = e
  BY <1>1, <1>2, <1>4, <1>5, PushedList
<1>7. list \in Seq(HistoryEntries) /\ list # NoValue
  BY <1>6, TabsAssumption DEF GoodList, Lists
<1>8. x \in Pushes /\ x.entry = e /\ x.list = list
  BY <1>2, <1>3, <1>7 DEF Pushes
<1>9. /\ pushing' \in PushTable /\ pushing'[tab] = x
      /\ \A t \in Tabs : t # tab => pushing'[t] = pushing[t]
  BY <1>1, <1>3, <1>8 DEF PushTable
<1>10. ChatTypeOK'
  BY <1>1, <1>3, <1>9 DEF ChatTypeOK, PushTable
<1>11. GoodPush(tab)'
  <2>1. GoodList(pushing'[tab].list, stored' \cup {e.request})
    BY <1>3, <1>6, <1>8, <1>9
  <2>2. pushing'[tab].entry = e /\ pushing'[tab].list = list
    BY <1>8, <1>9
  <2>3. turns'[e.request] = turns[e.request] /\ stored' = stored
    BY <1>3
  <2>4. QED BY <1>5, <1>6, <2>1, <2>2, <2>3 DEF GoodPush
<1>12. ASSUME NEW t \in Tabs, t # tab
       PROVE  GoodPush(t)'
  BY <1>3, <1>9, <1>12, PushStays
<1>13. \A q \in Requests : GoodTurn(q)'
  BY <1>3 DEF ChatInv, GoodTurn, RequestsKept
<1>14. GoodList(history', stored')
  BY <1>1, <1>3
<1>15. QED BY <1>10, <1>11, <1>12, <1>13, <1>14 DEF ChatInv

(***************************************************************************)
(* Steps that leave the stores of the tabs alone and settle a turn.        *)
(***************************************************************************)
LEMMA ReceiveErrorKeeps ==
    ASSUME ChatInv, RequestsKept, NEW r \in Requests, ReceiveError(r)
    PROVE  ChatInv'
<1>1. /\ ChatTypeOK /\ turns[r] # NoValue /\ turns[r].status = "pending"
      /\ Settled(r, "error")
      /\ UNCHANGED <<mode, savedMode, history, pushing, stored, switches>>
  BY DEF ChatInv, ReceiveError, Waiting
<1>2. turns' \in TurnTable /\ \A q \in Requests : q # r => turns'[q] = turns[q]
  BY <1>1, SettledTurns
<1>3. ChatTypeOK'
  BY <1>1, <1>2 DEF ChatTypeOK, TurnTable
<1>4. GoodList(history', stored')
  BY <1>1 DEF ChatInv
<1>5. ASSUME NEW t \in Tabs
      PROVE  GoodPush(t)'
  <2>1. pushing[t] # NoValue => pushing[t].entry.request \in Requests \ {r}
    BY <1>1 DEF ChatInv, GoodPush
  <2>2. QED BY <1>1, <1>2, <2>1, PushStays
<1>6. \A q \in Requests : GoodTurn(q)'
  BY <1>1, TurnsStayGood
<1>7. QED BY <1>3, <1>4, <1>5, <1>6 DEF ChatInv

(***************************************************************************)
(* The others that push are of other turns than the one stored.            *)
(***************************************************************************)
LEMMA StoreHistoryKeeps ==
    ASSUME ChatInv, RequestsKept, NEW tab \in Tabs, StoreHistory(tab)
    PROVE  ChatInv'
<1>1. ChatTypeOK /\ pushing \in PushTable
  BY ChatTables DEF ChatInv
<1>2. PICK r : r = pushing[tab].entry.request
  OBVIOUS
<1>3. /\ pushing[tab] # NoValue /\ pushing[tab].list # NoValue
      /\ history' = pushing[tab].list
      /\ stored' = stored \cup {r}
      /\ pushing' = [pushing EXCEPT ![tab] = NoValue]
      /\ UNCHANGED <<turns, mode, savedMode, switches>>
  BY <1>2 DEF StoreHistory, Loaded
<1>4. /\ r \in Requests /\ turns[r] # NoValue
      /\ turns[r].tab = tab /\ turns[r].status = "ok"
      /\ GoodList(pushing[tab].list, stored \cup {r})
  BY <1>2, <1>3 DEF ChatInv, GoodPush
<1>5. GoodList(history', stored')
  BY <1>3, <1>4
<1>6. /\ pushing' \in PushTable /\ pushing'[tab] = NoValue
      /\ \A t \in Tabs : t # tab => pushing'[t] = pushing[t]
  BY <1>1, <1>3 DEF PushTable
<1>7. ChatTypeOK'
  BY <1>1, <1>3, <1>4, <1>5, <1>6 DEF ChatTypeOK, GoodList, PushTable, Lists, Pushed
<1>8. GoodPush(tab)'
  BY <1>6 DEF GoodPush
<1>9. ASSUME NEW t \in Tabs, t # tab
      PROVE  GoodPush(t)'
  <2>1. pushing[t] # NoValue => pushing[t].entry.request # r
    BY <1>4, <1>9 DEF ChatInv, GoodPush
  <2>2. QED BY <1>3, <1>6, <1>9, <2>1, PushStays
<1>10. \A q \in Requests : GoodTurn(q)'
  BY <1>3, <1>4 DEF ChatInv, GoodTurn, RequestsKept
<1>11. QED BY <1>5, <1>7, <1>8, <1>9, <1>10 DEF ChatInv

LEMMA StoreThrowsKeeps ==
    ASSUME ChatInv, RequestsKept, NEW tab \in Tabs, StoreThrows(tab)
    PROVE  ChatInv'
<1>1. ChatTypeOK /\ pushing \in PushTable
  BY ChatTables DEF ChatInv
<1>2. PICK r : r = pushing[tab].entry.request
  OBVIOUS
<1>3. /\ pushing[tab] # NoValue
      /\ Settled(r, "error")
      /\ pushing' = [pushing EXCEPT ![tab] = NoValue]
      /\ UNCHANGED <<mode, savedMode, history, stored, switches>>
  BY <1>2 DEF StoreThrows, Loaded
<1>4. r \in Requests /\ turns[r] # NoValue /\ turns[r].tab = tab
  BY <1>2, <1>3 DEF ChatInv, GoodPush
<1>5. turns' \in TurnTable /\ \A q \in Requests : q # r => turns'[q] = turns[q]
  BY <1>1, <1>3, <1>4, SettledTurns
<1>6. /\ pushing' \in PushTable /\ pushing'[tab] = NoValue
      /\ \A t \in Tabs : t # tab => pushing'[t] = pushing[t]
  BY <1>1, <1>3 DEF PushTable
<1>7. ChatTypeOK'
  BY <1>1, <1>3, <1>5, <1>6 DEF ChatTypeOK, TurnTable, PushTable
<1>8. GoodList(history', stored')
  BY <1>3 DEF ChatInv
<1>9. GoodPush(tab)'
  BY <1>6 DEF GoodPush
<1>10. ASSUME NEW t \in Tabs, t # tab
       PROVE  GoodPush(t)'
  <2>1. pushing[t] # NoValue => pushing[t].entry.request \in Requests \ {r}
    BY <1>4, <1>10 DEF ChatInv, GoodPush
  <2>2. QED BY <1>3, <1>5, <1>6, <1>10, <2>1, PushStays
<1>11. \A q \in Requests : GoodTurn(q)'
  BY <1>3, <1>4, TurnsStayGood
<1>12. QED BY <1>7, <1>8, <1>9, <1>10, <1>11 DEF ChatInv

LEMMA BrowseKeeps ==
    ASSUME ChatInv, RequestsKept, Browse
    PROVE  ChatInv'
<1>1. ChatTypeOK /\ turns \in TurnTable /\ pushing \in PushTable
  BY ChatTables DEF ChatInv
<1>2. ASSUME UNCHANGED <<turns, stored>>
      PROVE  \A r \in Requests : GoodTurn(r)'
  BY <1>2 DEF ChatInv, GoodTurn, RequestsKept
<1>3. ASSUME NEW tab \in Tabs, ClearHistory(tab)
      PROVE  ChatInv'
  <2>1. history' = <<>> /\ UNCHANGED <<turns, mode, savedMode, pushing, stored, switches>>
    BY <1>3 DEF ClearHistory
  <2>2. GoodList(history', stored')
    <3>1. <<>> \in Lists /\ Len(<<>>) <= MaxEntries /\ DOMAIN <<>> = {}
      BY WebAssumption DEF Lists
    <3>2. QED BY <2>1, <3>1 DEF GoodList, WellOrdered
  <2>3. ChatTypeOK'
    BY <1>1, <2>1, <2>2 DEF ChatTypeOK, GoodList, Lists
  <2>4. \A t \in Tabs : GoodPush(t)'
    BY <2>1, PushStays
  <2>5. QED BY <1>2, <2>1, <2>2, <2>3, <2>4 DEF ChatInv
<1>4. ASSUME NEW tab \in Tabs, NEW m \in Modes, ChangeMode(tab, m)
      PROVE  ChatInv'
  <2>1. /\ mode' = [mode EXCEPT ![tab] = m] /\ savedMode' = m
        /\ UNCHANGED <<turns, history, pushing, stored>>
        /\ switches' \in 0..MaxSwitches
    BY <1>1, <1>4, WebAssumption DEF ChangeMode, ChatTypeOK
  <2>2. ChatTypeOK'
    BY <1>1, <2>1 DEF ChatTypeOK
  <2>3. \A t \in Tabs : GoodPush(t)'
    BY <2>1, PushStays
  <2>4. QED BY <1>2, <2>1, <2>2, <2>3 DEF ChatInv
<1>5. ASSUME NEW tab \in Tabs, Reload(tab)
      PROVE  ChatInv'
  <2>1. /\ turns' = [r \in Requests |-> IF r \in TurnsOf(tab) THEN NoValue ELSE turns[r]]
        /\ mode' = [mode EXCEPT ![tab] = savedMode]
        /\ pushing' = [pushing EXCEPT ![tab] = NoValue]
        /\ UNCHANGED <<savedMode, history, stored, switches>>
    BY <1>5 DEF Reload
  <2>2. turns' \in TurnTable
    BY <1>1, <2>1 DEF TurnTable
  <2>3. /\ pushing' \in PushTable /\ pushing'[tab] = NoValue
        /\ \A t \in Tabs : t # tab => pushing'[t] = pushing[t]
    BY <1>1, <2>1 DEF PushTable
  <2>4. ChatTypeOK'
    BY <1>1, <2>1, <2>2, <2>3 DEF ChatTypeOK, TurnTable, PushTable
  <2>5. GoodPush(tab)'
    BY <2>3 DEF GoodPush
  <2>6. ASSUME NEW t \in Tabs, t # tab
        PROVE  GoodPush(t)'
    <3>1. pushing[t] # NoValue =>
             turns'[pushing[t].entry.request] = turns[pushing[t].entry.request]
      BY <2>1, <2>6 DEF TurnsOf, ChatInv, GoodPush
    <3>2. QED BY <2>1, <2>3, <2>6, <3>1, PushStays
  <2>7. ASSUME NEW r \in Requests
        PROVE  GoodTurn(r)'
    <3>1. turns'[r] = NoValue \/ turns'[r] = turns[r]
      BY <2>1
    <3>2. QED BY <2>1, <3>1 DEF ChatInv, GoodTurn, RequestsKept
  <2>8. QED BY <2>1, <2>4, <2>5, <2>6, <2>7 DEF ChatInv
<1>6. QED BY <1>3, <1>4, <1>5 DEF Browse

LEMMA TabsStutter ==
    ASSUME ChatInv, RequestsKept, UNCHANGED tabVars
    PROVE  ChatInv'
<1>1. UNCHANGED <<turns, mode, savedMode, history, pushing, stored, switches>>
  BY DEF tabVars
<1>2. ChatTypeOK' /\ GoodList(history', stored')
  BY <1>1 DEF ChatInv, ChatTypeOK
<1>3. \A t \in Tabs : GoodPush(t)'
  BY <1>1, PushStays
<1>4. \A r \in Requests : GoodTurn(r)'
  BY <1>1 DEF ChatInv, GoodTurn, RequestsKept
<1>5. QED BY <1>2, <1>3, <1>4 DEF ChatInv

LEMMA ChatInitHolds == ASSUME ChatInit PROVE ChatInv
<1>1. GoodList(history, stored)
  BY PastAssumption DEF ChatInit, GoodList, Lists
<1>2. ChatTypeOK
  BY <1>1, WebAssumption DEF ChatInit, ChatTypeOK, GoodList, Lists, Pushed
<1>3. \A t \in Tabs : GoodPush(t)
  BY DEF ChatInit, GoodPush
<1>4. \A r \in Requests : GoodTurn(r)
  BY PastAssumption DEF ChatInit, GoodTurn
<1>5. QED BY <1>1, <1>2, <1>3, <1>4 DEF ChatInv

-----------------------------------------------------------------------------
\* The front end over the API: the tabs ask of it what any client may ask.

LEMMA WebStep == ASSUME ChatInv, [WebNext]_webVars PROVE [Next]_vars
<1>1. ASSUME NEW tab \in Tabs, NEW r \in Requests, NEW question \in Questions,
             Ask(tab, r, question)
      PROVE  Next
  <2> DEFINE m == IF QueryClass[question] = "rag" THEN mode[tab] ELSE NoValue
  <2>1. m \in Modes \cup {NoValue}
    BY DEF ChatInv, ChatTypeOK
  <2>2. EndpointOf(question) \in Endpoints
    BY DEF EndpointOf, Endpoints
  <2>3. Arrive(r, EndpointOf(question), NoValue, NoValue, question, m)
    BY <1>1 DEF Ask
  <2> HIDE DEF m
  <2>4. QED BY <2>1, <2>2, <2>3 DEF Next
<1>2. ASSUME NEW r \in Requests, NEW call \in Calls, ClientAsks(r, call)
      PROVE  Next
  <2>1. /\ call.endpoint \in Endpoints /\ call.key \in KeyIds \cup {NoValue}
        /\ call.claimed \in Tenants \cup {NoValue} /\ call.question \in Questions
        /\ call.mode \in Modes \cup {NoValue}
    BY WebAssumption
  <2>2. Arrive(r, call.endpoint, call.key, call.claimed, call.question, call.mode)
    BY <1>2 DEF ClientAsks
  <2>3. QED BY <2>1, <2>2 DEF Next
<1>3. ASSUME NEW r \in Requests, Serve(r)
      PROVE  Next
  BY <1>3 DEF Serve, Next
<1>4. CASE (authEnabled /\ Administer) \/ Crash
  BY <1>4 DEF Next
<1>5. CASE UNCHANGED vars
  BY <1>5
<1>6. ASSUME NEW r \in Requests, Show(r) \/ LoseReply(r)
      PROVE  UNCHANGED vars
  BY <1>6 DEF Show, GetAnswer, GetError, LoseReply
<1>7. ASSUME NEW tab \in Tabs, Push(tab)
      PROVE  UNCHANGED vars
  BY <1>7 DEF Push
<1>8. QED BY <1>1, <1>2, <1>3, <1>4, <1>5, <1>6, <1>7 DEF WebNext, webVars

LEMMA AskedRequest ==
    ASSUME IInv, ChatInv, NEW tab \in Tabs, NEW r \in Requests, NEW question \in Questions,
           Ask(tab, r, question)
    PROVE  requests[r] = NoValue /\ requests'[r] # NoValue
<1> DEFINE m == IF QueryClass[question] = "rag" THEN mode[tab] ELSE NoValue
           q == [stage |-> "auth", endpoint |-> EndpointOf(question), key |-> NoValue,
                 claimed |-> NoValue, question |-> question, mode |-> m,
                 tenant |-> NoValue, reply |-> NoValue, stale |-> Dead(NoValue)]
<1>1. requests \in RequestTable
  BY DEF IInv, TypeOK, RequestTable
<1>2. requests[r] = NoValue /\ requests' = [requests EXCEPT ![r] = q]
  BY DEF Ask, Arrive
<1>3. q \in RequestRecords
  <2>1. Dead(NoValue) \in BOOLEAN /\ EndpointOf(question) \in Endpoints
    BY DEF Dead, EndpointOf, Endpoints
  <2>2. m \in Modes \cup {NoValue}
    BY DEF ChatInv, ChatTypeOK
  <2>3. QED BY <2>1, <2>2 DEF RequestRecords, Stages
<1>4. q # NoValue
  BY <1>3, RecordsAssumption
<1> HIDE DEF q
<1>5. QED BY <1>1, <1>2, <1>4 DEF RequestTable

LEMMA ChatStepHolds ==
    ASSUME ChatInv, IInv, [WebNext]_webVars
    PROVE  ChatInv'
<1>1. RequestsKept
  BY WebStep, StepOfRequests DEF RequestsStep, RequestsKept
<1>2. ASSUME NEW tab \in Tabs, NEW r \in Requests, NEW question \in Questions,
             Ask(tab, r, question)
      PROVE  ChatInv'
  <2>1. requests[r] = NoValue /\ requests'[r] # NoValue
    BY <1>2, AskedRequest
  <2>2. QED BY <1>1, <1>2, <2>1, SubmitKeeps DEF Ask
<1>3. ASSUME NEW r \in Requests, Show(r) \/ LoseReply(r)
      PROVE  ChatInv'
  BY <1>1, <1>3, ReceiveAnswerKeeps, ReceiveErrorKeeps
     DEF Show, GetAnswer, GetError, LoseReply
<1>4. ASSUME NEW tab \in Tabs, Push(tab)
      PROVE  ChatInv'
  BY <1>1, <1>4, LoadHistoryKeeps, StoreHistoryKeeps, StoreThrowsKeeps DEF Push
<1>5. CASE Browse
  BY <1>1, <1>5, BrowseKeeps
<1>6. CASE UNCHANGED tabVars
  BY <1>1, <1>6, TabsStutter
<1>7. QED BY <1>2, <1>3, <1>4, <1>5, <1>6 DEF WebNext, ClientAsks, Serve, webVars

(***************************************************************************)
(* The invariants of the API, and of the tabs and localStorage, hold in    *)
(* every reachable state.                                                  *)
(***************************************************************************)
THEOREM ChatInvariant == WebSpec => [](ChatInv /\ IInv)
<1>1. WebInit => ChatInv /\ IInv
  BY ChatInitHolds, InitHolds DEF WebInit
<1>2. ChatInv /\ IInv /\ [WebNext]_webVars => ChatInv' /\ IInv'
  BY ChatStepHolds, WebStep, StepHolds
<1>3. QED BY <1>1, <1>2, PTL DEF WebSpec

(***************************************************************************)
(* Whatever any number of tabs push, clear and overwrite, also between the *)
(* steps of another's push, the stored list has no entry twice and at most *)
(* MAX_ENTRIES, and none ahead of one pushed after it was stored.          *)
(***************************************************************************)
THEOREM HistoryNewestFirst == WebSpec => []HistoryIsNewestFirst
<1>1. ChatInv => HistoryIsNewestFirst
  <2> SUFFICES ASSUME ChatInv PROVE HistoryIsNewestFirst
    OBVIOUS
  <2>1. WellOrdered(history)
    BY DEF ChatInv, GoodList
  <2>2. ASSUME NEW tab \in Tabs, Loaded(tab)
        PROVE  LET next == pushing[tab].list IN
               next # <<>> /\ next[1] = pushing[tab].entry /\ WellOrdered(next)
    BY <2>2 DEF ChatInv, GoodPush, GoodList, Loaded
  <2>3. QED BY <2>1, <2>2 DEF HistoryIsNewestFirst
<1>2. QED BY <1>1, ChatInvariant, PTL

(***************************************************************************)
(* Every behaviour of the front end over the API is one of the API.        *)
(***************************************************************************)
THEOREM WebImplementsAccess == WebSpec => Spec
<1>1. WebInit => Init
  BY DEF WebInit
<1>2. ChatInv /\ [WebNext]_webVars => [Next]_vars
  BY WebStep
<1>3. QED BY <1>1, <1>2, ChatInvariant, PTL DEF WebSpec, Spec

(***************************************************************************)
(* The variables have their types.                                         *)
(***************************************************************************)
THEOREM WebTypeCorrect == WebSpec => []WebTypeOK
<1>1. ChatInv => ChatTypeOK
  BY DEF ChatInv
<1>2. TypeOK /\ ChatTypeOK => WebTypeOK
  BY DEF WebTypeOK
<1>3. QED BY <1>1, <1>2, ChatInvariant, WebImplementsAccess, AccessTypeCorrect, PTL

(***************************************************************************)
(* What is proved of the API holds under the front end.                    *)
(***************************************************************************)
THEOREM WebKeysHold ==
    WebSpec => []DeadKeysAreRefused /\ []ServedForKeysTenant /\ RevocationIsFinal
<1>1. QED BY WebImplementsAccess, DeadKeysRefused, KeysTenantServed, RevocationHolds, PTL

-----------------------------------------------------------------------------
\* What links a turn, a stored entry and an audit row to the request of theirs.

(***************************************************************************)
(* A turn on the screen, against the row of its request.                   *)
(***************************************************************************)
TurnTrue(turn, q) == turn # NoValue =>
    /\ q # NoValue
    /\ q.endpoint = "query" => q.mode = turn.mode
    /\ turn.status = "ok" => q.reply = "ok"

EntryTrue(e, q) ==
    /\ q # NoValue
    /\ q.reply = "ok"
    /\ q.endpoint = "query" => q.mode = e.mode

EntriesTrue(list, table) ==
    \A i \in DOMAIN list : list[i].request \notin Past =>
      EntryTrue(list[i], table[list[i].request])

(***************************************************************************)
(* A tab pushes what was answered.                                         *)
(***************************************************************************)
PushTrue(push, table) == push # NoValue =>
    /\ EntryTrue(push.entry, table[push.entry.request])
    /\ push.list # NoValue => EntriesTrue(push.list, table)

RowTrue(row, q) ==
    /\ q # NoValue
    /\ row.endpoint = q.endpoint
    /\ row.endpoint = "query" => row.mode = q.mode

AnswersInv ==
    /\ \A r \in Requests : TurnTrue(turns[r], requests[r])
    /\ EntriesTrue(history, requests)
    /\ \A tab \in Tabs : PushTrue(pushing[tab], requests)
    /\ \A row \in audit : RowTrue(row, requests[row.request])

-----------------------------------------------------------------------------
\* What is true of a request stays true of it.

LEMMA LaterTurn ==
    ASSUME RequestsStep, NEW r \in Requests, NEW turn, TurnTrue(turn, requests[r])
    PROVE  TurnTrue(turn, requests'[r])
BY DEF RequestsStep, Advances, TurnTrue

LEMMA LaterEntry ==
    ASSUME RequestsStep, NEW e, e.request \in Requests, EntryTrue(e, requests[e.request])
    PROVE  EntryTrue(e, requests'[e.request])
BY DEF RequestsStep, Advances, EntryTrue

LEMMA LaterList ==
    ASSUME RequestsStep, NEW list \in Lists, EntriesTrue(list, requests)
    PROVE  EntriesTrue(list, requests')
<1>1. \A i \in DOMAIN list : list[i].request \in Requests \cup Past
  BY ListEntries DEF HistoryEntries, Pushed
<1>2. \A i \in DOMAIN list : list[i].request \notin Past =>
         EntryTrue(list[i], requests'[list[i].request])
  BY <1>1, LaterEntry DEF EntriesTrue
<1>3. QED BY <1>2 DEF EntriesTrue

LEMMA LaterPush ==
    ASSUME RequestsStep, ChatInv, NEW tab \in Tabs, PushTrue(pushing[tab], requests)
    PROVE  PushTrue(pushing[tab], requests')
<1>1. CASE pushing[tab] = NoValue
  BY <1>1 DEF PushTrue
<1>2. CASE pushing[tab] # NoValue
  <2>1. PICK e, list : e = pushing[tab].entry /\ list = pushing[tab].list
    OBVIOUS
  <2>2. /\ e.request \in Requests
        /\ list # NoValue => list \in Lists
    BY <1>2, <2>1 DEF ChatInv, GoodPush, GoodList
  <2>3. EntryTrue(e, requests'[e.request])
    BY <1>2, <2>1, <2>2, LaterEntry DEF PushTrue
  <2>4. list # NoValue => EntriesTrue(list, requests')
    BY <1>2, <2>1, <2>2, LaterList DEF PushTrue
  <2>5. QED BY <2>1, <2>3, <2>4 DEF PushTrue
<1>3. QED BY <1>1, <1>2

(***************************************************************************)
(* The audit log stays true: a new row is written of a request that keeps  *)
(* its endpoint and its mode.                                              *)
(***************************************************************************)
LEMMA LaterRows ==
    ASSUME IInv, [Next]_vars, \A row \in audit : RowTrue(row, requests[row.request])
    PROVE  \A row \in audit' : RowTrue(row, requests'[row.request])
<1>1. RequestsStep
  BY StepOfRequests
<1>2. ASSUME NEW row \in audit
      PROVE  RowTrue(row, requests'[row.request])
  <2>1. row.request \in Requests
    BY DEF IInv, TypeOK, AuditRows
  <2>2. RowTrue(row, requests[row.request])
    OBVIOUS
  <2>3. QED BY <1>1, <2>1, <2>2 DEF RequestsStep, Advances, RowTrue
<1>3. ASSUME NEW r \in Requests, At(r, "record")
      PROVE  RowTrue(AuditRow(r), requests'[r])
  <2>1. requests[r] # NoValue
    BY <1>3 DEF At
  <2>2. /\ AuditRow(r).endpoint = requests[r].endpoint
        /\ requests[r].endpoint = "query" => AuditRow(r).mode = requests[r].mode
    BY DEF AuditRow
  <2>3. QED BY <1>1, <2>1, <2>2 DEF RequestsStep, Advances, RowTrue
<1>4. \A r \in Requests : AuditRow(r).request = r
  BY DEF AuditRow
<1>5. QED BY <1>2, <1>3, <1>4, StepOfAudit

-----------------------------------------------------------------------------
\* The steps of the front end.

(***************************************************************************)
(* The request of a new turn carries the mode its tab is in.               *)
(***************************************************************************)
LEMMA AskedTurn ==
    ASSUME ChatInv, IInv, RequestsStep, AnswersInv,
           NEW tab \in Tabs, NEW r \in Requests, NEW question \in Questions,
           Ask(tab, r, question)
    PROVE  \A s \in Requests : TurnTrue(turns'[s], requests'[s])
<1> DEFINE x == [tab |-> tab, mode |-> mode[tab], status |-> "pending"]
           m == IF QueryClass[question] = "rag" THEN mode[tab] ELSE NoValue
           q == [stage |-> "auth", endpoint |-> EndpointOf(question), key |-> NoValue,
                 claimed |-> NoValue, question |-> question, mode |-> m,
                 tenant |-> NoValue, reply |-> NoValue, stale |-> Dead(NoValue)]
<1>1. turns \in TurnTable /\ requests \in RequestTable
  BY DEF ChatInv, ChatTypeOK, TurnTable, IInv, TypeOK, RequestTable
<1>2. turns' = [turns EXCEPT ![r] = x]
  BY DEF Ask, Submit
<1>3. requests' = [requests EXCEPT ![r] = q]
  BY DEF Ask, Arrive
<1>4. q \in RequestRecords
  <2>1. Dead(NoValue) \in BOOLEAN /\ EndpointOf(question) \in Endpoints
    BY DEF Dead, EndpointOf, Endpoints
  <2>2. m \in Modes \cup {NoValue}
    BY DEF ChatInv, ChatTypeOK
  <2>3. QED BY <2>1, <2>2 DEF RequestRecords, Stages
<1>5. q.endpoint = "query" => q.mode = mode[tab]
  BY DEF EndpointOf
<1>6. x.mode = mode[tab] /\ x.status = "pending"
  OBVIOUS
<1>7. q # NoValue
  BY <1>4, RecordsAssumption
<1> HIDE DEF x, q
<1>8. TurnTrue(x, q)
  BY <1>5, <1>6, <1>7 DEF TurnTrue
<1>9. turns'[r] = x /\ requests'[r] = q /\ \A s \in Requests : s # r => turns'[s] = turns[s]
  BY <1>1, <1>2, <1>3 DEF TurnTable, RequestTable
<1>10. ASSUME NEW s \in Requests, s # r
       PROVE  TurnTrue(turns'[s], requests'[s])
  BY <1>9, <1>10, LaterTurn DEF AnswersInv
<1>11. QED BY <1>8, <1>9, <1>10

(***************************************************************************)
(* A turn that is settled stays true, if it is an error or was answered.   *)
(***************************************************************************)
LEMMA SettledTrue ==
    ASSUME ChatInv, AnswersInv, requests' = requests, NEW r \in Requests,
           turns[r] # NoValue, NEW status \in {"ok", "error"}, Settled(r, status),
           status = "ok" => requests[r].reply = "ok"
    PROVE  \A s \in Requests : TurnTrue(turns'[s], requests'[s])
<1>1. /\ turns'[r].mode = turns[r].mode /\ turns'[r].status = status
      /\ \A s \in Requests : s # r => turns'[s] = turns[s]
  BY SettledTurns DEF ChatInv
<1>2. \A s \in Requests : TurnTrue(turns[s], requests[s])
  BY DEF AnswersInv
<1>3. TurnTrue(turns'[r], requests'[r])
  BY <1>1, <1>2 DEF TurnTrue
<1>4. QED BY <1>1, <1>2, <1>3

(***************************************************************************)
(* The list that an answered turn pushes holds answered turns only.        *)
(***************************************************************************)
LEMMA PushedTrue ==
    ASSUME ChatInv, AnswersInv, NEW e \in HistoryEntries,
           EntryTrue(e, requests[e.request])
    PROVE  EntriesTrue(WithEntry(e), requests)
<1> DEFINE list == WithEntry(e)
           n == IF Len(history) < MaxEntries THEN Len(history) + 1 ELSE MaxEntries
<1>1. history \in Lists /\ Len(history) <= MaxEntries /\ EntriesTrue(history, requests)
  BY DEF ChatInv, GoodList, WellOrdered, AnswersInv
<1>2. DOMAIN history = 1..Len(history)
  BY <1>1, ListEntries
<1>3. /\ list \in Lists /\ Len(list) = n /\ n \in 1..MaxEntries /\ list[1] = e
      /\ \A i \in 2..n : i - 1 \in 1..Len(history) /\ list[i] = history[i - 1]
  BY <1>1, WithEntryIs
<1> HIDE DEF list, n
<1>4. DOMAIN list = 1..n /\ n \in Nat
  BY <1>3, ListEntries, WebAssumption
<1>5. ASSUME NEW i \in 1..n, list[i].request \notin Past
      PROVE  EntryTrue(list[i], requests[list[i].request])
  <2>1. CASE i = 1
    BY <1>3, <2>1
  <2>2. CASE i # 1
    <3>1. i \in 2..n
      BY <1>4, <2>2
    <3>2. i - 1 \in DOMAIN history /\ list[i] = history[i - 1]
      BY <1>2, <1>3, <3>1
    <3>3. QED BY <1>1, <1>5, <3>2 DEF EntriesTrue
  <2>3. QED BY <2>1, <2>2
<1>6. EntriesTrue(list, requests)
  BY <1>4, <1>5 DEF EntriesTrue
<1>7. QED BY <1>6 DEF list

-----------------------------------------------------------------------------
\* The invariant.

LEMMA AnswersStepHolds ==
    ASSUME ChatInv, IInv, AnswersInv, [WebNext]_webVars
    PROVE  AnswersInv'
<1>1. [Next]_vars
  BY WebStep
<1>2. RequestsStep
  BY <1>1, StepOfRequests
<1>3. \A row \in audit' : RowTrue(row, requests'[row.request])
  BY <1>1, LaterRows DEF AnswersInv
<1>4. history \in Lists /\ EntriesTrue(history, requests')
  <2>1. history \in Lists /\ EntriesTrue(history, requests)
    BY DEF ChatInv, GoodList, AnswersInv
  <2>2. QED BY <1>2, <2>1, LaterList
<1>5. \A tab \in Tabs : PushTrue(pushing[tab], requests')
  BY <1>2, LaterPush DEF AnswersInv
<1>6. ASSUME UNCHANGED turns
      PROVE  \A s \in Requests : TurnTrue(turns'[s], requests'[s])
  BY <1>2, <1>6, LaterTurn DEF AnswersInv
<1>7. ASSUME \A s \in Requests : TurnTrue(turns'[s], requests'[s]),
             EntriesTrue(history', requests'),
             \A tab \in Tabs : PushTrue(pushing'[tab], requests')
      PROVE  AnswersInv'
  BY <1>3, <1>7 DEF AnswersInv
<1>8. pushing \in PushTable
  BY ChatTables
<1>9. CASE UNCHANGED tabVars
  BY <1>4, <1>5, <1>6, <1>7, <1>9 DEF tabVars
<1>10. ASSUME NEW tab \in Tabs, NEW r \in Requests, NEW question \in Questions,
              Ask(tab, r, question)
       PROVE  AnswersInv'
  <2>1. \A s \in Requests : TurnTrue(turns'[s], requests'[s])
    BY <1>2, <1>10, AskedTurn
  <2>2. UNCHANGED <<history, pushing>>
    BY <1>10 DEF Ask, Submit
  <2>3. QED BY <1>4, <1>5, <1>7, <2>1, <2>2
<1>11. ASSUME NEW r \in Requests, GetAnswer(r)
       PROVE  AnswersInv'
  <2>1. turns[r] # NoValue /\ requests[r].reply = "ok" /\ requests' = requests
    BY <1>11 DEF GetAnswer, ReceiveAnswer, Waiting, vars
  <2>2. PICK t, x : t = turns[r].tab /\ x = [entry |-> Entry(r), list |-> NoValue]
    OBVIOUS
  <2>3. /\ Settled(r, "ok") /\ history' = history
        /\ pushing' = [pushing EXCEPT ![t] = x]
    BY <1>11, <2>2 DEF GetAnswer, ReceiveAnswer
  <2>4. \A s \in Requests : TurnTrue(turns'[s], requests'[s])
    BY <2>1, <2>3, SettledTrue
  <2>5. EntryTrue(Entry(r), requests[r]) /\ Entry(r).request = r
    BY <2>1 DEF AnswersInv, TurnTrue, EntryTrue, Entry
  <2>6. PushTrue(x, requests')
    BY <2>1, <2>2, <2>5 DEF PushTrue
  <2>7. ASSUME NEW tab \in Tabs
        PROVE  PushTrue(pushing'[tab], requests')
    <3>1. pushing'[tab] = x \/ pushing'[tab] = pushing[tab]
      BY <1>8, <2>3 DEF PushTable
    <3>2. QED BY <1>5, <2>6, <3>1
  <2>8. QED BY <1>4, <1>7, <2>3, <2>4, <2>7
<1>12. ASSUME NEW r \in Requests, GetError(r) \/ LoseReply(r)
       PROVE  AnswersInv'
  <2>1. /\ turns[r] # NoValue /\ requests' = requests
        /\ Settled(r, "error") /\ UNCHANGED <<history, pushing>>
    BY <1>12 DEF GetError, LoseReply, ReceiveError, Waiting, vars
  <2>2. \A s \in Requests : TurnTrue(turns'[s], requests'[s])
    BY <2>1, SettledTrue
  <2>3. QED BY <1>4, <1>5, <1>7, <2>1, <2>2
<1>13. ASSUME NEW tab \in Tabs, LoadHistory(tab), UNCHANGED vars
       PROVE  AnswersInv'
  <2>1. PICK e, x : /\ e = pushing[tab].entry
                    /\ x = [pushing[tab] EXCEPT !.list = WithEntry(e)]
    OBVIOUS
  <2>2. /\ pushing[tab] \in Pushes /\ pushing[tab] # NoValue
        /\ pushing' = [pushing EXCEPT ![tab] = x]
        /\ UNCHANGED <<turns, history>> /\ requests' = requests
    BY <1>8, <1>13, <2>1 DEF LoadHistory, PushTable, vars
  <2>3. x.entry = e /\ x.list = WithEntry(e) /\ e \in HistoryEntries
    BY <2>1, <2>2 DEF Pushes
  <2>4. EntryTrue(e, requests[e.request])
    BY <2>1, <2>2 DEF AnswersInv, PushTrue
  <2>5. EntriesTrue(WithEntry(e), requests)
    BY <2>3, <2>4, PushedTrue
  <2>6. PushTrue(x, requests')
    BY <2>2, <2>3, <2>4, <2>5 DEF PushTrue
  <2>7. ASSUME NEW t \in Tabs
        PROVE  PushTrue(pushing'[t], requests')
    <3>1. pushing'[t] = x \/ pushing'[t] = pushing[t]
      BY <1>8, <2>2 DEF PushTable
    <3>2. QED BY <1>5, <2>6, <3>1
  <2>8. QED BY <1>4, <1>6, <1>7, <2>2, <2>7
<1>14. ASSUME NEW tab \in Tabs, pushing' = [pushing EXCEPT ![tab] = NoValue]
       PROVE  \A t \in Tabs : PushTrue(pushing'[t], requests')
  <2>1. \A t \in Tabs : pushing'[t] = NoValue \/ pushing'[t] = pushing[t]
    BY <1>8, <1>14 DEF PushTable
  <2>2. QED BY <1>5, <2>1 DEF PushTrue
<1>15. ASSUME NEW tab \in Tabs, StoreHistory(tab)
       PROVE  AnswersInv'
  <2>1. /\ Loaded(tab) /\ history' = pushing[tab].list
        /\ pushing' = [pushing EXCEPT ![tab] = NoValue] /\ UNCHANGED turns
    BY <1>15 DEF StoreHistory
  <2>2. EntriesTrue(history', requests')
    BY <1>5, <2>1 DEF PushTrue, Loaded
  <2>3. QED BY <1>6, <1>7, <1>14, <2>1, <2>2
<1>16. ASSUME NEW tab \in Tabs, StoreThrows(tab), UNCHANGED vars
       PROVE  AnswersInv'
  <2>1. PICK r : r = pushing[tab].entry.request
    OBVIOUS
  <2>2. /\ Loaded(tab) /\ UNCHANGED history /\ requests' = requests
        /\ pushing' = [pushing EXCEPT ![tab] = NoValue]
        /\ Settled(r, "error")
    BY <1>16, <2>1 DEF StoreThrows, vars
  <2>3. r \in Requests /\ turns[r] # NoValue
    BY <2>1, <2>2 DEF ChatInv, GoodPush, Loaded
  <2>4. \A s \in Requests : TurnTrue(turns'[s], requests'[s])
    BY <2>2, <2>3, SettledTrue
  <2>5. QED BY <1>4, <1>7, <1>14, <2>2, <2>4
<1>17. CASE Browse
  <2>1. ASSUME NEW tab \in Tabs, ClearHistory(tab)
        PROVE  AnswersInv'
    <3>1. history' = <<>> /\ UNCHANGED <<turns, pushing>>
      BY <2>1 DEF ClearHistory
    <3>2. EntriesTrue(history', requests')
      BY <3>1 DEF EntriesTrue
    <3>3. QED BY <1>5, <1>6, <1>7, <3>1, <3>2
  <2>2. ASSUME NEW tab \in Tabs, NEW m \in Modes, ChangeMode(tab, m)
        PROVE  AnswersInv'
    BY <1>4, <1>5, <1>6, <1>7, <2>2 DEF ChangeMode
  <2>3. ASSUME NEW tab \in Tabs, Reload(tab)
        PROVE  AnswersInv'
    <3>1. /\ turns' = [r \in Requests |-> IF r \in TurnsOf(tab) THEN NoValue ELSE turns[r]]
          /\ pushing' = [pushing EXCEPT ![tab] = NoValue] /\ UNCHANGED history
      BY <2>3 DEF Reload
    <3>2. ASSUME NEW s \in Requests
          PROVE  TurnTrue(turns'[s], requests'[s])
      <4>1. turns'[s] = NoValue \/ turns'[s] = turns[s]
        BY <3>1
      <4>2. TurnTrue(turns[s], requests'[s])
        BY <1>2, LaterTurn DEF AnswersInv
      <4>3. QED BY <4>1, <4>2 DEF TurnTrue
    <3>3. QED BY <1>4, <1>7, <1>14, <3>1, <3>2
  <2>4. QED BY <1>17, <2>1, <2>2, <2>3 DEF Browse
<1>18. QED BY <1>9, <1>10, <1>11, <1>12, <1>13, <1>15, <1>16, <1>17
           DEF WebNext, ClientAsks, Serve, Show, Push, webVars

LEMMA AnswersInitHolds == ASSUME WebInit PROVE AnswersInv
<1>1. /\ turns = [r \in Requests |-> NoValue] /\ history \in PastHistories
      /\ pushing = [tab \in Tabs |-> NoValue] /\ audit = {}
  BY DEF WebInit, ChatInit, Init
<1>2. EntriesTrue(history, requests)
  BY <1>1, PastAssumption DEF EntriesTrue
<1>3. QED BY <1>1, <1>2 DEF AnswersInv, TurnTrue, PushTrue

(***************************************************************************)
(* What turns, pushes and history entries say stays backed by the audit    *)
(* log.                                                                    *)
(***************************************************************************)
THEOREM AnswersInvariant == WebSpec => []AnswersInv
<1>1. WebInit => AnswersInv
  BY AnswersInitHolds
<1>2. ChatInv /\ IInv /\ AnswersInv /\ [WebNext]_webVars => AnswersInv'
  BY AnswersStepHolds
<1>3. WebSpec => []IInv
  BY WebImplementsAccess, Invariant, PTL
<1>4. QED BY <1>1, <1>2, <1>3, ChatInvariant, PTL DEF WebSpec

(***************************************************************************)
(* What the history offers to ask again was answered, in the mode it is    *)
(* listed with.                                                            *)
(***************************************************************************)
THEOREM HistoryAnswered == WebSpec => []HistoryIsAnswered
<1>1. AnswersInv => HistoryIsAnswered
  <2> SUFFICES ASSUME AnswersInv, NEW i \in DOMAIN history,
                      history[i].request \notin Past
               PROVE  LET r == history[i].request IN
                      /\ requests[r] # NoValue
                      /\ requests[r].reply = "ok"
                      /\ requests[r].endpoint = "query" => requests[r].mode = history[i].mode
    BY DEF HistoryIsAnswered
  <2>1. EntryTrue(history[i], requests[history[i].request])
    BY DEF AnswersInv, EntriesTrue
  <2>2. QED BY <2>1 DEF EntryTrue
<1>2. QED BY <1>1, AnswersInvariant, PTL

(***************************************************************************)
(* A turn shown as answered was answered, and the audit log has the mode   *)
(* that the turn shows, for any number of tabs, clients and restarts.      *)
(***************************************************************************)
THEOREM TurnsTrue == WebSpec => []TurnsAreTrue
<1>1. AnswersInv => TurnsAreTrue
  <2> SUFFICES ASSUME AnswersInv, NEW r \in Requests, turns[r] # NoValue
               PROVE  /\ requests[r] # NoValue
                      /\ turns[r].status = "ok" => requests[r].reply = "ok"
                      /\ \A row \in audit :
                           row.request = r /\ row.endpoint = "query"
                           => row.mode = turns[r].mode
    BY DEF TurnsAreTrue
  <2>1. TurnTrue(turns[r], requests[r])
    BY DEF AnswersInv
  <2>2. \A row \in audit : RowTrue(row, requests[row.request])
    BY DEF AnswersInv
  <2>3. QED BY <2>1, <2>2 DEF TurnTrue, RowTrue
<1>2. QED BY <1>1, AnswersInvariant, PTL
=============================================================================

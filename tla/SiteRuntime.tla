----------------------------- MODULE SiteRuntime -----------------------------
(***************************************************************************)
(* The data runtime of one site: a schema that only grows, the records of  *)
(* its collection, and requests that are authorised first and act later.   *)
(* Provisioning, migrating and each operation of the provider run in one   *)
(* turn; between the turns of a request the schema may move on, or the     *)
(* runtime be deleted and provisioned anew. A value fits its field or not, *)
(* and a long one takes two units of the room a record has.                *)
(***************************************************************************)
EXTENDS Naturals, FiniteSets

CONSTANTS
  Fields,      \* names of fields
  Records,     \* record ids; an id is given once
  Users,       \* signed-in users of the site
  Requests,    \* requests to the runtime
  Accesses,    \* what a specification may say about access: sets of policies
  MaxBytes,    \* maxRecordBytes, in units
  MaxSchema,   \* bound: schema versions
  MaxCalls     \* bound: MaxRequests of the limiter in one window

ASSUME RuntimeAssumption ==
  MaxSchema \in Nat \ {0} /\ MaxCalls \in Nat /\ MaxBytes \in Nat

VARIABLES
  siteExists,  \* the project's row
  runtime,     \* whether a runtime is provisioned, its schema version and its number
  schema,      \* schema[f]: what the collection says of field f, if it has it
  access,      \* who may use the collection
  records,     \* records[r]: the values of a stored record, by field
  owner,       \* owner[r]: the user it was created for, if any
  given,       \* ids given to records so far
  unfilled,    \* history: required fields that migrated in since the record was written
  bucket,      \* requests the limiter counted in this window
  request,     \* request[q]: where it stands
  actor,       \* actor[q]: a user, or "PUBLIC"
  grant,       \* grant[q]: the policy it was authorised under
  subject,     \* subject[q]: the record it is about
  refused      \* history: the runtime refused an update that fits and leaves room

runtimeVars == <<siteExists, runtime, schema, access, records, owner, given, unfilled, bucket,
                 request, actor, grant, subject, refused>>
Asking == <<request, actor, grant, subject>>
Data == <<records, owner, given, unfilled>>

\* "required" has no default, "supplied" is required and has one, which the validator
\* checks; an optional field may have a default that fits, or one that does not.
Kinds == {"required", "supplied", "optional", "defaulted", "unfit"}
Policies == {"PUBLIC", "OWNER", "AUTHENTICATED"}
\* A schema is a function from some of the fields to their kinds
Schemas == UNION {[S -> Kinds] : S \in (SUBSET Fields) \ {{}}}
NoSchema == [f \in {} |-> "optional"]

RuntimeInit ==
  /\ siteExists = TRUE
  /\ runtime = [on |-> FALSE, version |-> 0] /\ schema = NoSchema /\ access = {}
  /\ records = [r \in {} |-> {}] /\ owner = [r \in {} |-> {}]
  /\ given = {} /\ unfilled = [r \in {} |-> {}]
  /\ bucket = 0 /\ refused = FALSE
  /\ request = [q \in Requests |-> "start"] /\ actor = [q \in Requests |-> "PUBLIC"]
  /\ grant = [q \in Requests |-> {}] /\ subject = [q \in Requests |-> {}]

Of(s, kind) == {f \in DOMAIN s : s[f] = kind}
Mandatory(s) == Of(s, "required") \cup Of(s, "supplied")

-----------------------------------------------------------------------------
(* The provider *)

\* A runtime that exists is returned as it is, whatever the new specification says
ProvisionRuntime(s, a) ==
  /\ ~runtime.on
  /\ runtime' = [on |-> TRUE, version |-> 1]
  /\ schema' = s /\ access' = a
  /\ UNCHANGED <<siteExists, Data, bucket, Asking, refused>>

DeleteRuntime ==
  /\ runtime.on
  /\ runtime' = [on |-> FALSE, version |-> 0]
  /\ schema' = NoSchema /\ access' = {}
  /\ records' = [r \in {} |-> {}] /\ owner' = [r \in {} |-> {}]
  /\ unfilled' = [r \in {} |-> {}] /\ refused' = FALSE
  /\ UNCHANGED <<siteExists, given, bucket, Asking>>

\* #assertAdditive: no field goes or changes, and a new one that is required has a
\* default; the records that are there do not get it
MutRequiredMayCome(s) == \A f \in DOMAIN schema : f \in DOMAIN s /\ s[f] = schema[f]
Additive(s) ==
  /\ \A f \in DOMAIN schema : f \in DOMAIN s /\ s[f] = schema[f]
  /\ \A f \in DOMAIN s \ DOMAIN schema : s[f] # "required"

\* The caller names the version it migrates from. Access may change freely.
ApplySchema(s, a) ==
  /\ runtime.on /\ runtime.version < MaxSchema
  /\ Additive(s)
  /\ runtime' = [runtime EXCEPT !.version = @ + 1]
  /\ schema' = s /\ access' = a
  /\ unfilled' = [r \in DOMAIN unfilled |-> unfilled[r] \cup (Of(s, "supplied") \ DOMAIN schema)]
  /\ UNCHANGED <<siteExists, records, owner, given, bucket, Asking, refused>>

\* validateRecord: no unknown field, every value fits; a whole record has every
\* required field without a default, and takes the defaults as they are; what comes
\* out of it, the part of a patch too, must not be too long
Fits(d) == DOMAIN d \subseteq DOMAIN schema /\ \A f \in DOMAIN d : d[f] # "unfit"
Whole(d) == Of(schema, "required") \subseteq DOMAIN d
Light(d) == Cardinality(DOMAIN d) + Cardinality({f \in DOMAIN d : d[f] = "long"}) <= MaxBytes
Completed(d) ==
  [f \in DOMAIN d \cup UNION {Of(schema, kind) : kind \in {"supplied", "defaulted", "unfit"}} |->
     IF f \in DOMAIN d THEN d[f] ELSE IF schema[f] = "unfit" THEN "unfit" ELSE "short"]

\* What a request brings, and what a patch makes of a record
Inputs == UNION {[fields -> {"short", "long"}] : fields \in SUBSET Fields}
Merged(d, patch) == [f \in DOMAIN d \cup DOMAIN patch |-> IF f \in DOMAIN patch THEN patch[f] ELSE d[f]]

-----------------------------------------------------------------------------
(* The service: a request is counted, the site and its runtime are read, the *)
(* policy is chosen, and the provider is called in a later turn              *)

Step(q, s) == request' = [request EXCEPT ![q] = s]
Over(q) == request' = [request EXCEPT ![q] = "over"]

\* Only anonymous requests are counted, and before anything else
Arrive(q) ==
  /\ request[q] = "start"
  /\ \E who \in Users \cup {"PUBLIC"} :
       /\ actor' = [actor EXCEPT ![q] = who]
       /\ IF who # "PUBLIC" THEN Step(q, "read") /\ UNCHANGED bucket
          ELSE IF bucket < MaxCalls THEN Step(q, "read") /\ bucket' = bucket + 1
          ELSE Over(q) /\ UNCHANGED bucket
  /\ UNCHANGED <<siteExists, runtime, schema, access, Data, grant, subject, refused>>

NextWindow ==
  /\ bucket > 0 /\ bucket' = 0
  /\ UNCHANGED <<siteExists, runtime, schema, access, Data, Asking, refused>>

ReadSite(q) ==
  /\ request[q] = "read"
  /\ IF siteExists THEN Step(q, "authorize") ELSE Over(q)
  /\ UNCHANGED <<siteExists, runtime, schema, access, Data, bucket, actor, grant, subject, refused>>

Policy(q) ==
  IF actor[q] = "PUBLIC" THEN access \cap {"PUBLIC"}
  ELSE IF "OWNER" \in access THEN {"OWNER"}
  ELSE access \cap {"AUTHENTICATED"}

Authorize(q) ==
  /\ request[q] = "authorize"
  /\ IF runtime.on /\ Policy(q) # {}
     THEN /\ grant' = [grant EXCEPT ![q] = Policy(q)]
          /\ \E s \in {"create", "change"} : Step(q, s)
     ELSE Over(q) /\ UNCHANGED grant
  /\ UNCHANGED <<siteExists, runtime, schema, access, Data, bucket, actor, subject, refused>>

\* The provider reads the runtime again: a record is checked against the schema
\* of this moment, not against the one the request was authorised under.
Create(q) ==
  /\ request[q] = "create" /\ Over(q)
  /\ \/ \E r \in Records \ given, d \in Inputs :
          /\ runtime.on /\ Fits(d) /\ Whole(d) /\ Light(Completed(d))
          /\ records' = [x \in DOMAIN records \cup {r} |->
               IF x = r THEN Completed(d) ELSE records[x]]
          /\ owner' = [x \in DOMAIN owner \cup {r} |->
               IF x # r THEN owner[x] ELSE IF grant[q] = {"OWNER"} THEN {actor[q]} ELSE {}]
          /\ given' = given \cup {r}
          /\ unfilled' = [x \in DOMAIN unfilled \cup {r} |-> IF x = r THEN {} ELSE unfilled[x]]
     \/ UNCHANGED Data
  /\ UNCHANGED <<siteExists, runtime, schema, access, bucket, actor, grant, subject, refused>>

\* update and delete under an owner policy read the record's owner a turn before
CheckOwner(q) ==
  /\ request[q] = "change"
  /\ \E r \in given :
       /\ subject' = [subject EXCEPT ![q] = {r}]
       /\ IF grant[q] # {"OWNER"} \/ (r \in DOMAIN owner /\ owner[r] = {actor[q]})
          THEN \E s \in {"update", "delete"} : Step(q, s)
          ELSE Over(q)
  /\ UNCHANGED <<siteExists, runtime, schema, access, Data, bucket, actor, grant, refused>>

\* A patch that fits is merged, and the whole record is checked once more, with the
\* defaults of the fields that came since: it can have become too long by them
Update(q) ==
  /\ request[q] = "update" /\ Over(q)
  /\ \/ \E r \in subject[q] \cap DOMAIN records, patch \in Inputs :
          /\ runtime.on /\ Fits(patch) /\ Light(patch)
          /\ LET whole == Merged(records[r], patch)
                 room == Light(Completed(whole))
             IN IF Fits(whole) /\ Whole(whole) /\ room
                THEN /\ records' = [records EXCEPT ![r] = Completed(whole)]
                     /\ unfilled' = [unfilled EXCEPT ![r] = {}]
                     /\ UNCHANGED refused
                ELSE refused' = (refused \/ room) /\ UNCHANGED <<records, unfilled>>
     \/ UNCHANGED <<records, unfilled, refused>>
  /\ UNCHANGED <<siteExists, runtime, schema, access, owner, given, bucket, actor, grant, subject>>

Delete(q) ==
  /\ request[q] = "delete" /\ Over(q)
  /\ LET left == DOMAIN records \ subject[q] IN
       /\ records' = [r \in left |-> records[r]]
       /\ owner' = [r \in left |-> owner[r]]
       /\ unfilled' = [r \in left |-> unfilled[r]]
  /\ UNCHANGED <<siteExists, runtime, schema, access, given, bucket, actor, grant, subject, refused>>

\* deleteSite takes the runtime away first and the row afterwards
DeleteSite ==
  /\ siteExists /\ ~runtime.on /\ siteExists' = FALSE
  /\ UNCHANGED <<runtime, schema, access, Data, bucket, Asking, refused>>

RuntimeNext ==
  \/ \E s \in Schemas, a \in Accesses : ProvisionRuntime(s, a) \/ ApplySchema(s, a)
  \/ DeleteRuntime \/ DeleteSite \/ NextWindow
  \/ \E q \in Requests :
       \/ Arrive(q) \/ ReadSite(q) \/ Authorize(q) \/ Create(q)
       \/ CheckOwner(q) \/ Update(q) \/ Delete(q)

RuntimeSpec == RuntimeInit /\ [][RuntimeNext]_runtimeVars

-----------------------------------------------------------------------------
(* Properties *)

\* Every variable keeps its shape, and without a runtime there is no record.
RuntimeTypeOK ==
  /\ siteExists \in BOOLEAN /\ refused \in BOOLEAN
  /\ runtime \in [on : BOOLEAN, version : 0..MaxSchema]
  /\ schema \in Schemas \cup {NoSchema} /\ access \in Accesses \cup {{}}
  /\ DOMAIN records = DOMAIN owner /\ DOMAIN records = DOMAIN unfilled
  /\ DOMAIN records \subseteq given /\ given \subseteq Records
  /\ ~runtime.on => DOMAIN records = {}
  /\ bucket \in 0..MaxCalls
  /\ request \in [Requests -> {"start", "read", "authorize", "create", "change", "update",
                              "delete", "over"}]
  /\ actor \in [Requests -> Users \cup {"PUBLIC"}] /\ grant \in [Requests -> SUBSET Policies]
  /\ subject \in [Requests -> SUBSET Records]

\* Every stored record has what the schema of the moment requires and nothing it
\* does not know, in the room a record has, however many migrations it went through
\* since it was written: what it lacks are required fields that a migration brought
\* with a default, until it is written again. No update that fits the schema and
\* leaves the completed record room is refused because of what the record held
\* before, unless an optional field came with a default that fails its own check.
RecordsStayValid ==
  /\ \A r \in DOMAIN records :
       /\ Mandatory(schema) \ DOMAIN records[r] \subseteq unfilled[r] \cap Of(schema, "supplied")
       /\ DOMAIN records[r] \subseteq DOMAIN schema /\ Light(records[r])
  /\ refused => Of(schema, "unfit") # {}
=============================================================================

------------------------------- MODULE Access -------------------------------
(***************************************************************************)
(* Who may ask, and what of the answer they may see: API keys in the       *)
(* application database, authentication of a request, and the enforcement  *)
(* of policies.yaml on the statement that answers it.                      *)
(*                                                                         *)
(* Keys are issued and revoked by a command line program, which reads      *)
(* policies.yaml when it runs; the API reads the file when it starts, once *)
(* to validate it and once to load it.  Between the row that a request     *)
(* reads from the key table and the statement it is allowed, keys are      *)
(* revoked, time passes, the file is edited and the API restarted.         *)
(*                                                                         *)
(* A table pattern stands for the tables it matches, a statement for one   *)
(* SELECT that names each of its tables once and projects plain columns.   *)
(***************************************************************************)
EXTENDS Naturals, Sequences, FiniteSets

CONSTANTS
    Keys,           \* keys that can be issued, each at most once
    EnvKeys,        \* the keys in INSIGHTAI_API_KEYS
    Calls,          \* requests the API can be serving at a time
    Tables, Columns,
    Values,         \* of columns and of scope attributes
    Dimensions,     \* scope dimensions
    Attributes,     \* of principals
    Roles,
    RoleLists,      \* the lists of roles a key or a token may carry
    Catalogs,       \* what policies.yaml may say
    Statements,     \* what may have to be governed
    MaxTime, MaxEdits

Actions == {"deny", "empty_safe"}
Strategies == {"none", "exclude", "null_literal", "hash"}
Bindings == [table : Tables, column : Columns, attribute : Attributes]
Policies == [allowed : SUBSET Tables, denied : SUBSET Tables,
             scopes : SUBSET Dimensions, masks : [Columns -> Strategies],
             missing : Actions]
IsCatalog(cat) ==
    /\ cat.enabled \in BOOLEAN /\ cat.default \in Actions
    /\ DOMAIN cat.dimensions \subseteq Dimensions
    /\ \A d \in DOMAIN cat.dimensions : cat.dimensions[d] \subseteq Bindings
    /\ DOMAIN cat.roles \subseteq Roles
    /\ \A r \in DOMAIN cat.roles : cat.roles[r] \in Policies
StatementType == [tables : SUBSET Tables, columns : SUBSET Columns]

ASSUME RoleListsAssumption == RoleLists \subseteq Seq(Roles)
ASSUME CatalogsAssumption == \A cat \in Catalogs : IsCatalog(cat)
ASSUME StatementsAssumption == Statements \subseteq StatementType
ASSUME KeysAssumption == Keys \cap EnvKeys = {} /\ "other" \notin Keys \cup EnvKeys
ASSUME BoundsAssumption == MaxTime \in Nat /\ MaxEdits \in Nat

VARIABLES
    settings,   \* authentication mode, and whether governance is enabled
    now,        \* the clock
    file,       \* policies.yaml
    edits,      \* how often it was edited
    rows,       \* rows[k]: the row of key k in the application database
    accepted,   \* history: what policies.yaml said when key k was issued
    api,        \* is the API running?
    catalog,    \* the policies it started with
    place,      \* place[e]: where its enumeration of EnvKeys has e
    subjects,   \* history: the places env key e has been known by
    pc,         \* pc[c]: where request c is
    token,      \* the credential it came with
    found,      \* the row its look-up returned
    principal,  \* who it was found to come from
    outcome,    \* what its statement was answered with
    late        \* history: its key could no longer be used when it came

vars == <<settings, now, file, edits, rows, accepted, api, catalog, place, subjects,
          pc, token, found, principal, outcome, late>>
issued == <<rows, accepted>>
server == <<api, catalog, place>>
call   == <<pc, token, found, principal, outcome, late>>

(***************************************************************************)
(* Policies.                                                               *)
(***************************************************************************)
RolesOf(list) == {list[i] : i \in DOMAIN list}

\* A role the catalog does not define is passed over.
Matched(cat, list) == RolesOf(list) \cap DOMAIN cat.roles

\* Mutation: only the first role's tables are denied.
DeniedByFirst(cat, list) ==
    UNION {cat.roles[r].denied : r \in {list[1]} \cap DOMAIN cat.roles}

Denied(cat, list) == UNION {cat.roles[r].denied : r \in Matched(cat, list)}
Allowed(cat, list) == UNION {cat.roles[r].allowed : r \in Matched(cat, list)}
Scopes(cat, list) == UNION {cat.roles[r].scopes : r \in Matched(cat, list)}

\* The last role that masks a column decides how.
Mask(cat, list, col) ==
    LET by == {i \in DOMAIN list : /\ list[i] \in DOMAIN cat.roles
                                   /\ cat.roles[list[i]].masks[col] # "none"}
    IN  IF by = {} THEN "none"
        ELSE cat.roles[list[CHOOSE i \in by : \A j \in by : j <= i]].masks[col]

\* A role can make the catalog's default stricter and not more lenient.
MissingAction(cat, list) ==
    IF \E r \in Matched(cat, list) : cat.roles[r].missing = "deny"
    THEN "deny" ELSE cat.default

\* Dimensions the catalog does not define bind nothing.
Bound(cat, dims) == UNION {cat.dimensions[d] : d \in dims \cap DOMAIN cat.dimensions}

Filters(cat, p) ==
    {[table |-> b.table, column |-> b.column, values |-> p.attributes[b.attribute]] :
        b \in Bound(cat, Scopes(cat, p.roles))}

\* The projection: excluded columns go, unless none would be left.
Projected(cat, list, columns) ==
    LET kept == {col \in columns : Mask(cat, list, col) # "exclude"}
    IN  IF kept = {} THEN [col \in columns |-> "value"]
        ELSE [col \in kept |-> IF Mask(cat, list, col) = "none"
                               THEN "value" ELSE "masked"]

NoColumns == [col \in {} |-> "value"]
Answered(stmt, filters, columns) ==
    [status |-> "allowed", tables |-> stmt.tables, filters |-> filters, columns |-> columns]
Refused(status) ==
    [status |-> status, tables |-> {}, filters |-> {}, columns |-> NoColumns]

NoAttributes == [a \in Attributes |-> {}]
Nobody == [roles |-> <<>>, attributes |-> NoAttributes, known |-> FALSE]

\* SqlGovernanceEnforcer.evaluate
Evaluate(cat, p, stmt) ==
    IF ~cat.enabled \/ ~p.known \/ Matched(cat, p.roles) = {}
    THEN Answered(stmt, {}, [col \in stmt.columns |-> "value"])
    ELSE IF /\ MissingAction(cat, p.roles) = "deny"
            /\ \E f \in Filters(cat, p) : f.values = {}
    THEN Refused("missing_scope")
    ELSE IF stmt.tables \subseteq Allowed(cat, p.roles) \ Denied(cat, p.roles)
    THEN Answered(stmt, Filters(cat, p), Projected(cat, p.roles, stmt.columns))
    ELSE Refused("table_denied")

\* Mutation: the contract looks at what a role says of missing attributes only.
RequiredByRole(cat, r) ==
    IF cat.roles[r].missing = "deny"
    THEN {b.attribute : b \in Bound(cat, cat.roles[r].scopes)} ELSE {}

\* required_attributes_for_roles
Required(cat, r) ==
    IF "deny" \in {cat.roles[r].missing, cat.default}
    THEN {b.attribute : b \in Bound(cat, cat.roles[r].scopes)} ELSE {}

Complete(cat, list, attrs) ==
    \A r \in Matched(cat, list) : \A a \in Required(cat, r) : attrs[a] # {}

\* validate_key_attributes_for_catalog finds nothing wrong
MeetsContract(cat, list, attrs) ==
    /\ Complete(cat, list, attrs)
    /\ cat.enabled /\ DOMAIN cat.roles # {} => RolesOf(list) \subseteq DOMAIN cat.roles

\* validate_governance_catalog finds nothing wrong
Valid(cat) ==
    /\ cat.enabled => DOMAIN cat.roles # {}
    /\ \A d \in DOMAIN cat.dimensions : cat.dimensions[d] # {}
    /\ \A r \in DOMAIN cat.roles : cat.roles[r].scopes \subseteq DOMAIN cat.dimensions

(***************************************************************************)
(* The key table, used by a command line program, and the API process.     *)
(***************************************************************************)
AttributeValues == [Attributes -> SUBSET Values]
KeyModes == {"env", "database", "both"}
Modes == {"none", "jwt"} \cup KeyModes
Rows == [status : {"issued", "revoked"}, roles : RoleLists,
         attributes : AttributeValues, expires : Nat]
NoRow == [status |-> "none", roles |-> <<>>, attributes |-> NoAttributes, expires |-> 0]
Principal(list, attrs) == [roles |-> list, attributes |-> attrs, known |-> TRUE]

\* Mutation: a revocation is recorded and not looked at.
ActiveByDate(row, t) == row.status # "none" /\ (row.expires = 0 \/ t < row.expires)

\* ApiKey.is_active; 0 stands for no expiry
Active(row, t) == row.status = "issued" /\ (row.expires = 0 \/ t < row.expires)

Unusable(row) == row.status = "revoked" \/ (row.expires # 0 /\ now >= row.expires)

\* A frozenset of strings is enumerated in an order of the process's own.
Enumerations ==
    {f \in [EnvKeys -> 1..Cardinality(EnvKeys)] :
        \A d, e \in EnvKeys : f[d] = f[e] => d = e}

\* A process refuses to start if it reads a file that does not validate.
Refuses == settings.governed /\ ~Valid(file)

NoCalls ==
    /\ pc' = [c \in Calls |-> "idle"]
    /\ token' = [c \in Calls |-> "other"]
    /\ found' = [c \in Calls |-> NoRow]
    /\ principal' = [c \in Calls |-> Nobody]
    /\ outcome' = [c \in Calls |-> Refused("none")]
    /\ late' = [c \in Calls |-> FALSE]

Init ==
    /\ settings \in [mode : Modes, governed : BOOLEAN]
    /\ now = 0
    /\ file \in Catalogs
    /\ edits = 0
    /\ rows = [k \in Keys |-> NoRow]
    /\ accepted = [k \in Keys |-> file]
    /\ api = IF Refuses THEN "down" ELSE "up"
    /\ catalog = file
    /\ place \in Enumerations
    /\ subjects = [e \in EnvKeys |-> {}]
    /\ pc = [c \in Calls |-> "idle"]
    /\ token = [c \in Calls |-> "other"]
    /\ found = [c \in Calls |-> NoRow]
    /\ principal = [c \in Calls |-> Nobody]
    /\ outcome = [c \in Calls |-> Refused("none")]
    /\ late = [c \in Calls |-> FALSE]

\* Mutation: contract errors are printed and the key is issued all the same.
CreateAnyway(k) ==
    /\ rows[k].status = "none"
    /\ \E list \in RoleLists, attrs \in AttributeValues :
        rows' = [rows EXCEPT ![k] = [status |-> "issued", roles |-> list,
                                     attributes |-> attrs, expires |-> 0]]
    /\ accepted' = [accepted EXCEPT ![k] = file]
    /\ UNCHANGED <<settings, now, file, edits, server, subjects, call>>

\* insightai-keys create.  A key that breaks the contract is not stored.
Create(k) ==
    /\ rows[k].status = "none"
    /\ \E list \in RoleLists, attrs \in AttributeValues, days \in 0..MaxTime :
        /\ settings.governed => MeetsContract(file, list, attrs)
        /\ rows' = [rows EXCEPT ![k] =
                        [status |-> "issued", roles |-> list, attributes |-> attrs,
                         expires |-> IF days > 0 THEN now + days ELSE 0]]
    /\ accepted' = [accepted EXCEPT ![k] = file]
    /\ UNCHANGED <<settings, now, file, edits, server, subjects, call>>

\* insightai-keys revoke; revoking again changes nothing
Revoke(k) ==
    /\ rows[k].status = "issued"
    /\ rows' = [rows EXCEPT ![k].status = "revoked"]
    /\ UNCHANGED <<settings, now, file, edits, accepted, server, subjects, call>>

Tick ==
    /\ now < MaxTime
    /\ now' = now + 1
    /\ UNCHANGED <<settings, file, edits, issued, server, subjects, call>>

Edit ==
    /\ edits < MaxEdits
    /\ edits' = edits + 1
    /\ file' \in Catalogs
    /\ UNCHANGED <<settings, now, issued, server, subjects, call>>

\* The process ends, with the requests it serves, and another starts by
\* reading the file to validate it.
Restart ==
    /\ api' = IF Refuses THEN "down" ELSE "validated"
    /\ place' \in Enumerations
    /\ NoCalls
    /\ UNCHANGED <<settings, now, file, edits, issued, catalog, subjects>>

\* It reads the file again for the policies it will enforce.
LoadPolicies ==
    /\ api = "validated"
    /\ api' = "up"
    /\ catalog' = file
    /\ UNCHANGED <<settings, now, file, edits, issued, place, subjects, call>>

(***************************************************************************)
(* A request.                                                              *)
(***************************************************************************)
Goto(c, l) == pc' = [pc EXCEPT ![c] = l]

End(c, result) ==
    /\ outcome' = [outcome EXCEPT ![c] = result]
    /\ Goto(c, "end")

Admit(c, p) ==
    /\ principal' = [principal EXCEPT ![c] = p]
    /\ Goto(c, "ask")

elsewhere == <<settings, now, file, edits, issued, server>>

\* What a client can present: keys that exist, or anything else.
Tokens == IF settings.mode \in KeyModes
          THEN {k \in Keys : rows[k].status # "none"} \cup EnvKeys \cup {"other"}
          ELSE {"other"}

\* require_api_auth
Receive(c) ==
    /\ api = "up"
    /\ pc[c] \in {"idle", "end"}
    /\ \E t \in Tokens :
        /\ token' = [token EXCEPT ![c] = t]
        /\ late' = [late EXCEPT ![c] = t \in Keys /\ Unusable(rows[t])]
    /\ principal' = [principal EXCEPT ![c] = Nobody]
    /\ outcome' = [outcome EXCEPT ![c] = Refused("none")]
    /\ Goto(c, CASE settings.mode = "none" -> "ask"
                 [] settings.mode = "jwt"  -> "claims"
                 [] settings.mode = "env"  -> "check"
                 [] OTHER                  -> "lookup")
    /\ UNCHANGED <<elsewhere, subjects, found>>

\* The token's claims are taken as they are, if its signature and dates are good.
ReadClaims(c) ==
    /\ pc[c] = "claims"
    /\ \/ \E list \in RoleLists, attrs \in AttributeValues :
            Admit(c, Principal(list, attrs)) /\ UNCHANGED outcome
       \/ End(c, Refused("unauthorized")) /\ UNCHANGED principal
    /\ UNCHANGED <<elsewhere, subjects, token, found, late>>

\* SqlApiKeyStore.verify: the row is selected by the prefix in the token.
LookUp(c) ==
    /\ pc[c] = "lookup"
    /\ \/ /\ found' = [found EXCEPT ![c] =
                            IF token[c] \in Keys THEN rows[token[c]] ELSE NoRow]
          /\ Goto(c, "check")
          /\ UNCHANGED outcome
       \/ End(c, Refused("failed")) /\ UNCHANGED found
    /\ UNCHANGED <<elsewhere, subjects, token, principal, late>>

\* The secret is hashed and compared, which takes its time, before the row is
\* asked whether it is active.  Then come the keys of the environment.
Check(c) ==
    /\ pc[c] = "check"
    /\ \/ /\ Active(found[c], now)
          /\ Admit(c, Principal(found[c].roles, found[c].attributes))
          /\ UNCHANGED <<subjects, outcome>>
       \/ /\ ~Active(found[c], now)
          /\ settings.mode # "database"
          /\ token[c] \in EnvKeys
          /\ subjects' = [subjects EXCEPT ![token[c]] = @ \cup {place[token[c]]}]
          /\ Admit(c, Principal(<<>>, NoAttributes))
          /\ UNCHANGED outcome
       \/ /\ ~Active(found[c], now)
          /\ settings.mode = "database" \/ token[c] \notin EnvKeys
          /\ End(c, Refused("unauthorized"))
          /\ UNCHANGED <<subjects, principal>>
    /\ found' = [found EXCEPT ![c] = NoRow]
    /\ UNCHANGED <<elsewhere, token, late>>

\* The statement written for the question meets the enforcer of this process.
Enforce(c) ==
    /\ pc[c] = "ask"
    /\ \E stmt \in Statements :
        End(c, IF settings.governed THEN Evaluate(catalog, principal[c], stmt)
               ELSE Answered(stmt, {}, [col \in stmt.columns |-> "value"]))
    /\ UNCHANGED <<elsewhere, subjects, token, found, principal, late>>

Next ==
    \/ \E k \in Keys : Create(k) \/ Revoke(k)
    \/ \E c \in Calls : Receive(c) \/ ReadClaims(c) \/ LookUp(c) \/ Check(c) \/ Enforce(c)
    \/ Tick \/ Edit \/ Restart \/ LoadPolicies

Spec == Init /\ [][Next]_vars

(***************************************************************************)
(* Properties.                                                             *)
(***************************************************************************)
Statuses == {"none", "unauthorized", "failed", "missing_scope", "table_denied", "allowed"}

Principals == [roles : RoleLists \cup {<<>>}, attributes : AttributeValues, known : BOOLEAN]

\* Every variable has the shape the code gives it.
TypeOK ==
    /\ settings \in [mode : Modes, governed : BOOLEAN]
    /\ now \in 0..MaxTime /\ edits \in 0..MaxEdits
    /\ file \in Catalogs /\ catalog \in Catalogs /\ api \in {"down", "validated", "up"}
    /\ rows \in [Keys -> Rows \cup {NoRow}]
    /\ accepted \in [Keys -> Catalogs]
    /\ place \in Enumerations
    /\ subjects \in [EnvKeys -> SUBSET (1..Cardinality(EnvKeys))]
    /\ pc \in [Calls -> {"idle", "claims", "lookup", "check", "ask", "end"}]
    /\ token \in [Calls -> Keys \cup EnvKeys \cup {"other"}]
    /\ found \in [Calls -> Rows \cup {NoRow}]
    /\ principal \in [Calls -> Principals]
    /\ DOMAIN outcome = Calls
    /\ \A c \in Calls : outcome[c].status \in Statuses
    /\ late \in [Calls -> BOOLEAN]

\* A request that comes when its key is revoked or expired is not let in on
\* that key, whatever its look-up races with ("Revoke a key immediately",
\* cli/keys.py; SqlApiKeyStore.verify).
RevokedStaysOut ==
    \A c \in Calls :
        late[c] /\ settings.mode \in KeyModes =>
            /\ pc[c] # "ask"
            /\ outcome[c].status \in {"none", "unauthorized", "failed"}

\* The rows of a table that a role lets a principal see: a reference that knows
\* one role only and nothing of merging.
Seen(cat, r, attrs, t) ==
    {row \in [Columns -> Values] :
        \A d \in cat.roles[r].scopes \cap DOMAIN cat.dimensions :
            \A b \in cat.dimensions[d] : b.table = t => row[b.column] \in attrs[b.attribute]}

\* The rows of a table that satisfy the conditions added to a statement.
Selected(filters, t) ==
    {row \in [Columns -> Values] :
        \A f \in filters : f.table = t => row[f.column] \in f.values}

\* Whom a request speaks for: the key as it was issued, or the claims.
Holder(c) == IF token[c] \in Keys /\ settings.mode \in KeyModes THEN rows[token[c]]
             ELSE principal[c]

\* What a statement shows is within what every role shows by itself: no table
\* a role denies, no row a role's scopes leave out, no value of a column a role
\* masks while another column is selected (an excluded projection is left as it
\* is when nothing else is in it), and no table that none of the roles allows.
Within(cat, who, res) ==
    /\ \A r \in Matched(cat, who.roles) :
        /\ res.tables \cap cat.roles[r].denied = {}
        /\ \A t \in res.tables :
            Selected(res.filters, t) \subseteq Seen(cat, r, who.attributes, t)
        /\ \A col \in DOMAIN res.columns :
            cat.roles[r].masks[col] # "none" =>
                \/ res.columns[col] = "masked"
                \/ \A k \in DOMAIN res.columns : Mask(cat, who.roles, k) = "exclude"
    /\ Matched(cat, who.roles) # {} =>
        \A t \in res.tables :
            \E r \in Matched(cat, who.roles) : t \in cat.roles[r].allowed

\* Merging the roles of a key or a token never shows more than each of them
\* would, and what is enforced on a request is what its key was issued with
\* (merge_role_policies, SqlGovernanceEnforcer.evaluate).
WithinEveryRole ==
    \A c \in Calls :
        outcome[c].status = "allowed" /\ settings.governed /\ catalog.enabled =>
            Within(catalog, Holder(c), outcome[c])

\* Roles that agree on what to do about a missing attribute.
Agreed(cat, list) ==
    \/ cat.default = "deny"
    \/ \A q, r \in Matched(cat, list) : cat.roles[q].missing = cat.roles[r].missing

\* The contract checked when a key is issued and the enforcer ask for the same
\* attributes of roles that agree (attribute_contract.py, resolve_row_filters):
\* an API started with the file as it is now would turn away for want of
\* attributes those keys, and no others, that could not be issued today.
ContractMatchesEnforcement ==
    \A k \in Keys, stmt \in Statements :
        file.enabled /\ Agreed(file, rows[k].roles) =>
            (Complete(file, rows[k].roles, rows[k].attributes) <=>
                Evaluate(file, Principal(rows[k].roles, rows[k].attributes), stmt).status
                    # "missing_scope")

\* What the contract does not ask of a key and the enforcer does: an attribute
\* that a role is let off, by itself and by default, while another role of the
\* key says "deny".
LetOffAlone(cat, key) ==
    /\ cat.default # "deny"
    /\ \E q, r \in Matched(cat, key.roles) :
        /\ cat.roles[q].missing = "deny" /\ cat.roles[r].missing # "deny"
        /\ \E b \in Bound(cat, cat.roles[r].scopes) : key.attributes[b.attribute] = {}

\* A key accepted under the policies that the API runs with has none of its
\* roles passed over, and is turned away for want of attributes for one reason
\* only: the contract asks the roles one by one and the enforcer asks them
\* together, so that a role which says "deny" makes attributes count that
\* another of the key's roles is let off (attribute_contract.py,
\* merge_role_policies).  Nothing is said of a key issued under another version
\* of the file, nor of an API whose file has no roles, which it can only have
\* read in a start during which the file was edited.
AcceptedKeyServed ==
    \A c \in Calls :
        LET key == rows[token[c]]
        IN  /\ settings.governed /\ settings.mode \in KeyModes /\ token[c] \in Keys
            /\ accepted[token[c]] = catalog /\ catalog.enabled
            /\ DOMAIN catalog.roles # {}
            /\ outcome[c].status \in {"missing_scope", "table_denied", "allowed"}
            => /\ RolesOf(key.roles) \subseteq DOMAIN catalog.roles
               /\ outcome[c].status = "missing_scope" => LetOffAlone(catalog, key)

\* An environment key is known, and its requests are counted, under one name
\* ("Stable subject label for env-configured keys", auth/service.py).
SubjectStable == \A e \in EnvKeys : Cardinality(subjects[e]) < 2

=============================================================================

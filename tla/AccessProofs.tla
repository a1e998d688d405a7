---------------------------- MODULE AccessProofs ----------------------------
(***************************************************************************)
(* Access, for any keys, roles, files and statements.                      *)
(***************************************************************************)
EXTENDS Access, Integers, WellFoundedInduction, TLAPS

(***************************************************************************)
(* Every variable keeps its shape.                                         *)
(***************************************************************************)
LEMMA RefusedStatus ==
    ASSUME NEW s PROVE Refused(s).status = s
BY DEF Refused

LEMMA AnsweredStatus ==
    ASSUME NEW stmt, NEW f, NEW cols
    PROVE  Answered(stmt, f, cols).status = "allowed"
BY DEF Answered

LEMMA EvaluateStatus ==
    ASSUME NEW cat, NEW p, NEW stmt
    PROVE  Evaluate(cat, p, stmt).status \in {"allowed", "missing_scope", "table_denied"}
BY RefusedStatus, AnsweredStatus DEF Evaluate

LEMMA EndStatus ==
    ASSUME TypeOK, NEW c \in Calls, NEW res, res.status \in Statuses, End(c, res)
    PROVE  /\ pc' \in [Calls -> {"idle", "claims", "lookup", "check", "ask", "end"}]
           /\ DOMAIN outcome' = Calls
           /\ \A d \in Calls : outcome'[d].status \in Statuses
BY DEF TypeOK, End, Goto

\* Every reachable state of the key table, the API process and its requests
\* has the shape TypeOK gives.
THEOREM TypeCorrect == Spec => []TypeOK
<1>1. Init => TypeOK
  <2> SUFFICES ASSUME Init PROVE TypeOK
    OBVIOUS
  <2> QED
    BY BoundsAssumption, RefusedStatus
    DEF Init, TypeOK, Principals, Nobody, NoAttributes, AttributeValues, Enumerations,
        Statuses
<1>2. TypeOK /\ [Next]_vars => TypeOK'
  <2> SUFFICES ASSUME TypeOK, [Next]_vars PROVE TypeOK'
    OBVIOUS
  <2> USE DEF TypeOK
  <2>1. ASSUME NEW k \in Keys, Create(k) PROVE TypeOK'
    <3>1. PICK list \in RoleLists, attrs \in AttributeValues, days \in 0..MaxTime :
            rows' = [rows EXCEPT ![k] =
                        [status |-> "issued", roles |-> list, attributes |-> attrs,
                         expires |-> IF days > 0 THEN now + days ELSE 0]]
      BY <2>1 DEF Create
    <3>2. (IF days > 0 THEN now + days ELSE 0) \in Nat
      BY BoundsAssumption
    <3>3. rows' \in [Keys -> Rows \cup {NoRow}]
      BY <3>1, <3>2 DEF Rows
    <3>4. accepted' \in [Keys -> Catalogs]
      BY <2>1 DEF Create
    <3> QED
      BY <2>1, <3>3, <3>4 DEF Create, server, call
  <2>2. ASSUME NEW k \in Keys, Revoke(k) PROVE TypeOK'
    <3>1. rows[k] \in Rows
      BY <2>2 DEF Revoke, NoRow
    <3>2. rows' \in [Keys -> Rows \cup {NoRow}]
      BY <2>2, <3>1 DEF Revoke, Rows
    <3> QED
      BY <2>2, <3>2 DEF Revoke, server, call
  <2>3. CASE Tick
    BY <2>3, BoundsAssumption DEF Tick, issued, server, call
  <2>4. CASE Edit
    BY <2>4, BoundsAssumption DEF Edit, issued, server, call
  <2>5. CASE Restart
    <3>1. api' \in {"down", "validated", "up"}
      BY <2>5 DEF Restart
    <3>2. catalog' \in Catalogs /\ place' \in Enumerations
      BY <2>5 DEF Restart
    <3>3. /\ pc' \in [Calls -> {"idle", "claims", "lookup", "check", "ask", "end"}]
          /\ token' \in [Calls -> Keys \cup EnvKeys \cup {"other"}]
          /\ found' \in [Calls -> Rows \cup {NoRow}]
          /\ principal' \in [Calls -> Principals]
          /\ late' \in [Calls -> BOOLEAN]
      BY <2>5 DEF Restart, NoCalls, Principals, Nobody, NoAttributes, AttributeValues
    <3>4. DOMAIN outcome' = Calls /\ \A c \in Calls : outcome'[c].status \in Statuses
      BY <2>5, RefusedStatus DEF Restart, NoCalls, Statuses
    <3> QED
      BY <2>5, <3>1, <3>2, <3>3, <3>4 DEF Restart, issued
  <2>6. ASSUME NEW c \in Calls, Receive(c) PROVE TypeOK'
    <3>1. Refused("none").status \in Statuses
      BY RefusedStatus DEF Statuses
    <3>2. token' \in [Calls -> Keys \cup EnvKeys \cup {"other"}] /\ late' \in [Calls -> BOOLEAN]
      BY <2>6 DEF Receive, Tokens, Unusable
    <3>3. principal' \in [Calls -> Principals]
      BY <2>6 DEF Receive, Principals, Nobody, NoAttributes, AttributeValues
    <3>4. pc' \in [Calls -> {"idle", "claims", "lookup", "check", "ask", "end"}]
      BY <2>6 DEF Receive, Goto
    <3> QED
      BY <2>6, <3>1, <3>2, <3>3, <3>4 DEF Receive, elsewhere, issued, server
  <2>7. ASSUME NEW c \in Calls, ReadClaims(c) PROVE TypeOK'
    <3>1. CASE \E list \in RoleLists, attrs \in AttributeValues :
                    Admit(c, Principal(list, attrs)) /\ UNCHANGED outcome
      <4>1. PICK list \in RoleLists, attrs \in AttributeValues :
                    Admit(c, Principal(list, attrs)) /\ UNCHANGED outcome
        BY <3>1
      <4>2. Principal(list, attrs) \in Principals
        BY DEF Principal, Principals
      <4> QED
        BY <2>7, <4>1, <4>2 DEF ReadClaims, Admit, Goto, elsewhere, issued, server
    <3>2. CASE End(c, Refused("unauthorized")) /\ UNCHANGED principal
      <4>1. Refused("unauthorized").status \in Statuses
        BY RefusedStatus DEF Statuses
      <4> QED
        BY <2>7, <3>2, <4>1, EndStatus DEF ReadClaims, elsewhere, issued, server
    <3> QED
      BY <2>7, <3>1, <3>2 DEF ReadClaims
  <2>8. ASSUME NEW c \in Calls, LookUp(c) PROVE TypeOK'
    <3>1. CASE /\ found' = [found EXCEPT ![c] =
                                IF token[c] \in Keys THEN rows[token[c]] ELSE NoRow]
               /\ Goto(c, "check")
               /\ UNCHANGED outcome
      BY <2>8, <3>1 DEF LookUp, Goto, elsewhere, issued, server
    <3>2. CASE End(c, Refused("failed")) /\ UNCHANGED found
      <4>1. Refused("failed").status \in Statuses
        BY RefusedStatus DEF Statuses
      <4> QED
        BY <2>8, <3>2, <4>1, EndStatus DEF LookUp, elsewhere, issued, server
    <3> QED
      BY <2>8, <3>1, <3>2 DEF LookUp
  <2>9. ASSUME NEW c \in Calls, Check(c) PROVE TypeOK'
    <3>1. found' \in [Calls -> Rows \cup {NoRow}]
      BY <2>9 DEF Check
    <3>2. CASE /\ Active(found[c], now)
               /\ Admit(c, Principal(found[c].roles, found[c].attributes))
               /\ UNCHANGED <<subjects, outcome>>
      <4>1. Principal(found[c].roles, found[c].attributes) \in Principals
        BY <3>2 DEF Active, NoRow, Rows, Principal, Principals
      <4> QED
        BY <2>9, <3>1, <3>2, <4>1 DEF Check, Admit, Goto, elsewhere, issued, server
    <3>3. CASE /\ token[c] \in EnvKeys
               /\ subjects' = [subjects EXCEPT ![token[c]] = @ \cup {place[token[c]]}]
               /\ Admit(c, Principal(<<>>, NoAttributes))
               /\ UNCHANGED outcome
      <4>1. Principal(<<>>, NoAttributes) \in Principals
        BY DEF Principal, Principals, NoAttributes, AttributeValues
      <4>2. subjects' \in [EnvKeys -> SUBSET (1..Cardinality(EnvKeys))]
        BY <3>3 DEF Enumerations
      <4> QED
        BY <2>9, <3>1, <3>3, <4>1, <4>2 DEF Check, Admit, Goto, elsewhere, issued, server
    <3>4. CASE /\ End(c, Refused("unauthorized"))
               /\ UNCHANGED <<subjects, principal>>
      <4>1. Refused("unauthorized").status \in Statuses
        BY RefusedStatus DEF Statuses
      <4> QED
        BY <2>9, <3>1, <3>4, <4>1, EndStatus DEF Check, elsewhere, issued, server
    <3> QED
      BY <2>9, <3>2, <3>3, <3>4 DEF Check
  <2>10. ASSUME NEW c \in Calls, Enforce(c) PROVE TypeOK'
    <3>1. PICK res : End(c, res) /\ res.status \in Statuses
      BY <2>10, EvaluateStatus, AnsweredStatus DEF Enforce, Statuses
    <3> QED
      BY <2>10, <3>1, EndStatus DEF Enforce, elsewhere, issued, server
  <2>11. CASE UNCHANGED vars
    BY <2>11 DEF vars
  <2>12. CASE LoadPolicies
    BY <2>12 DEF LoadPolicies, issued, call
  <2> QED
    BY <2>1, <2>2, <2>3, <2>4, <2>5, <2>6, <2>7, <2>8, <2>9, <2>10, <2>11, <2>12 DEF Next
<1> QED
  BY <1>1, <1>2, PTL DEF Spec

(***************************************************************************)
(* A revoked or expired key lets nobody in.                                *)
(***************************************************************************)
\* The row is held only while its secret is compared.
FoundInv(c) == pc[c] # "check" => found[c] = NoRow

LEMMA FoundInvStep ==
    ASSUME TypeOK, \A d \in Calls : FoundInv(d), [Next]_vars
    PROVE  \A d \in Calls : FoundInv(d)'
<1> SUFFICES ASSUME NEW d \in Calls PROVE FoundInv(d)'
  OBVIOUS
<1> USE DEF TypeOK, FoundInv
<1>1. CASE \/ \E k \in Keys : Create(k) \/ Revoke(k)
           \/ Tick \/ Edit \/ UNCHANGED vars
  BY <1>1 DEF Create, Revoke, Tick, Edit, vars, call
<1>2. CASE Restart \/ LoadPolicies
  BY <1>2 DEF Restart, NoCalls, LoadPolicies, call
<1>3. ASSUME NEW c \in Calls, Receive(c) \/ ReadClaims(c) \/ Check(c) \/ Enforce(c)
      PROVE  FoundInv(d)'
  BY <1>3 DEF Receive, ReadClaims, Check, Enforce, Admit, End, Goto
<1>4. ASSUME NEW c \in Calls, LookUp(c) PROVE FoundInv(d)'
  BY <1>4 DEF LookUp, End, Goto
<1> QED
  BY <1>1, <1>2, <1>3, <1>4 DEF Next

\* A request that came too late speaks for a key that stays unusable, and the
\* row it was shown, whenever that was, is not active either.
LateInv(c) ==
    late[c] /\ settings.mode \in KeyModes =>
        /\ token[c] \in Keys /\ Unusable(rows[token[c]])
        /\ pc[c] = "check" => ~Active(found[c], now)
        /\ pc[c] \in {"idle", "lookup", "check", "end"}
        /\ outcome[c].status \in {"none", "unauthorized", "failed"}

\* What is unusable stays so, and what is inactive.
LEMMA UnusableStays ==
    ASSUME TypeOK, [Next]_vars, NEW k \in Keys, Unusable(rows[k])
    PROVE  Unusable(rows[k])'
<1> USE DEF TypeOK, Unusable
<1>1. rows[k].status # "none" /\ rows[k] \in Rows
  BY DEF NoRow, Rows
<1>2. ASSUME NEW q \in Keys, Create(q) PROVE Unusable(rows[k])'
  BY <1>1, <1>2 DEF Create
<1>3. ASSUME NEW q \in Keys, Revoke(q) PROVE Unusable(rows[k])'
  BY <1>1, <1>3 DEF Revoke
<1>4. CASE Tick
  BY <1>1, <1>4, BoundsAssumption DEF Tick, issued, Rows
<1>5. CASE Edit \/ Restart \/ LoadPolicies
  BY <1>5 DEF Edit, Restart, LoadPolicies, issued
<1>6. ASSUME NEW c \in Calls, Receive(c) \/ ReadClaims(c) \/ LookUp(c) \/ Check(c) \/ Enforce(c)
      PROVE Unusable(rows[k])'
  BY <1>6 DEF Receive, ReadClaims, LookUp, Check, Enforce, elsewhere, issued
<1>7. CASE UNCHANGED vars
  BY <1>7 DEF vars
<1> QED
  BY <1>2, <1>3, <1>4, <1>5, <1>6, <1>7 DEF Next

LEMMA InactiveStays ==
    ASSUME TypeOK, NEW c \in Calls, ~Active(found[c], now), now' \in {now, now + 1},
           found'[c] = found[c]
    PROVE  ~Active(found[c], now)'
BY BoundsAssumption DEF TypeOK, Active, Rows, NoRow

LEMMA LateInvStep ==
    ASSUME TypeOK, \A d \in Calls : FoundInv(d) /\ LateInv(d), [Next]_vars
    PROVE  \A d \in Calls : LateInv(d)'
<1> SUFFICES ASSUME NEW d \in Calls, late'[d], settings'.mode \in KeyModes
             PROVE  LateInv(d)'
  BY DEF LateInv
<1>0. settings' = settings
  BY DEF Next, Create, Revoke, Tick, Edit, Restart, LoadPolicies, Receive, ReadClaims, LookUp, Check,
         Enforce, elsewhere, vars
\* A step that leaves the request alone, but for the clock.
<1>1. ASSUME UNCHANGED call, now' \in {now, now + 1} PROVE LateInv(d)'
  BY <1>0, <1>1, UnusableStays, InactiveStays DEF LateInv, call
\* A step of another request.
<1>2. ASSUME NEW c \in Calls, c # d,
             Receive(c) \/ ReadClaims(c) \/ LookUp(c) \/ Check(c) \/ Enforce(c)
      PROVE  LateInv(d)'
  <2>1. /\ now' = now /\ late'[d] = late[d] /\ token'[d] = token[d]
        /\ found'[d] = found[d] /\ pc'[d] = pc[d] /\ outcome'[d] = outcome[d]
    BY <1>2 DEF TypeOK, Receive, ReadClaims, LookUp, Check, Enforce, Admit, End, Goto, elsewhere
  <2> QED
    BY <1>0, <2>1, UnusableStays, InactiveStays DEF LateInv
<1>3. ASSUME NEW k \in Keys, Create(k) \/ Revoke(k) PROVE LateInv(d)'
  BY <1>1, <1>3 DEF Create, Revoke
<1>4. CASE Tick \/ Edit \/ LoadPolicies \/ UNCHANGED vars
  BY <1>1, <1>4 DEF Tick, Edit, LoadPolicies, vars, call
<1>5. CASE Restart
  BY <1>5 DEF Restart, NoCalls
<1>6. CASE Receive(d)
  <2>1. PICK t \in Tokens : /\ token' = [token EXCEPT ![d] = t]
                            /\ late' = [late EXCEPT ![d] = t \in Keys /\ Unusable(rows[t])]
    BY <1>6 DEF Receive
  <2>2. token'[d] \in Keys /\ Unusable(rows[token'[d]])
    BY <2>1 DEF TypeOK
  <2>3. rows' = rows /\ now' = now
    BY <1>6 DEF Receive, elsewhere, issued
  <2>4. pc'[d] \in {"lookup", "check"} /\ outcome'[d] = Refused("none")
    BY <1>0, <1>6 DEF Receive, Goto, TypeOK, KeyModes
  <2>5. ~Active(found'[d], now')
    BY <1>6 DEF Receive, FoundInv, NoRow, Active
  <2> QED
    BY <2>2, <2>3, <2>4, <2>5, RefusedStatus DEF LateInv, Unusable
<1>7. CASE ReadClaims(d)
  BY <1>0, <1>7 DEF ReadClaims, LateInv
<1>8. CASE LookUp(d)
  <2>1. token' = token /\ late' = late /\ rows' = rows /\ now' = now
    BY <1>8 DEF LookUp, elsewhere, issued
  <2>2. token[d] \in Keys /\ Unusable(rows[token[d]])
    BY <1>0, <2>1 DEF LateInv
  <2>3. CASE found'[d] = rows[token[d]] /\ Goto(d, "check") /\ UNCHANGED outcome
    <3>1. ~Active(rows[token[d]], now)
      BY <2>2, BoundsAssumption DEF Active, Unusable, TypeOK, Rows, NoRow
    <3> QED
      BY <1>0, <2>1, <2>2, <2>3, <3>1 DEF LateInv, Unusable, Goto, TypeOK
  <2>4. CASE End(d, Refused("failed"))
    BY <1>0, <2>1, <2>2, <2>4, RefusedStatus DEF LateInv, Unusable, End, Goto, TypeOK
  <2> QED
    BY <1>8, <2>2, <2>3, <2>4 DEF LookUp, TypeOK
<1>9. CASE Check(d)
  <2>1. token' = token /\ late' = late /\ rows' = rows /\ now' = now
    BY <1>9 DEF Check, elsewhere, issued
  <2>2. token[d] \in Keys /\ Unusable(rows[token[d]]) /\ ~Active(found[d], now)
    BY <1>0, <1>9, <2>1 DEF LateInv, Check
  <2>3. End(d, Refused("unauthorized"))
    BY <1>9, <2>2, KeysAssumption DEF Check
  <2> QED
    BY <1>0, <2>1, <2>2, <2>3, RefusedStatus DEF LateInv, Unusable, End, Goto, TypeOK
<1>10. CASE Enforce(d)
  BY <1>0, <1>10 DEF Enforce, LateInv
<1> QED
  BY <1>2, <1>3, <1>4, <1>5, <1>6, <1>7, <1>8, <1>9, <1>10 DEF Next

\* No request that arrives after its key was revoked or has expired is let in on
\* it, whatever else goes on between the row it is shown and the check.
THEOREM RevokedIsOut == Spec => []RevokedStaysOut
<1> DEFINE IInv == \A d \in Calls : FoundInv(d) /\ LateInv(d)
<1>1. Init => IInv
  BY DEF Init, FoundInv, LateInv
<1>2. TypeOK /\ IInv /\ [Next]_vars => IInv'
  BY FoundInvStep, LateInvStep
<1>3. IInv => RevokedStaysOut
  BY DEF LateInv, RevokedStaysOut
<1> QED
  BY <1>1, <1>2, <1>3, TypeCorrect, PTL DEF Spec

(***************************************************************************)
(* The contract and the enforcer.                                          *)
(***************************************************************************)
LEMMA FilterOfBinding ==
    ASSUME NEW cat, NEW p, NEW r \in Matched(cat, p.roles),
           NEW b \in Bound(cat, cat.roles[r].scopes)
    PROVE  [table |-> b.table, column |-> b.column, values |-> p.attributes[b.attribute]]
                \in Filters(cat, p)
<1>1. b \in Bound(cat, Scopes(cat, p.roles))
  BY DEF Bound, Scopes
<1> QED
  BY <1>1 DEF Filters

LEMMA BindingOfFilter ==
    ASSUME NEW cat, NEW p, NEW f \in Filters(cat, p)
    PROVE  \E r \in Matched(cat, p.roles) :
                \E b \in Bound(cat, cat.roles[r].scopes) :
                    f = [table |-> b.table, column |-> b.column,
                         values |-> p.attributes[b.attribute]]
<1>1. PICK b \in Bound(cat, Scopes(cat, p.roles)) :
            f = [table |-> b.table, column |-> b.column, values |-> p.attributes[b.attribute]]
  BY DEF Filters
<1>2. PICK r \in Matched(cat, p.roles) : b \in Bound(cat, cat.roles[r].scopes)
  BY DEF Bound, Scopes
<1> QED
  BY <1>1, <1>2

\* What the enforcer refuses for want of attributes.
LEMMA MissingScope ==
    ASSUME NEW cat, cat.enabled, NEW p, p.known, NEW stmt
    PROVE  Evaluate(cat, p, stmt).status = "missing_scope" <=>
                /\ MissingAction(cat, p.roles) = "deny"
                /\ \E f \in Filters(cat, p) : f.values = {}
<1>1. ASSUME NEW f \in Filters(cat, p) PROVE Matched(cat, p.roles) # {}
  BY <1>1, BindingOfFilter
<1> QED
  BY <1>1, RefusedStatus, AnsweredStatus DEF Evaluate

LEMMA ContractAgrees ==
    ASSUME NEW cat, cat.enabled, NEW list, NEW attrs, NEW stmt, Agreed(cat, list)
    PROVE  Complete(cat, list, attrs) <=>
                Evaluate(cat, Principal(list, attrs), stmt).status # "missing_scope"
<1> DEFINE p == Principal(list, attrs)
<1>1. p.roles = list /\ p.attributes = attrs /\ p.known
  BY DEF Principal
<1> HIDE DEF p
<1>2. CASE /\ cat.default # "deny"
           /\ \A r \in Matched(cat, list) : cat.roles[r].missing # "deny"
  <2>1. Complete(cat, list, attrs)
    BY <1>2 DEF Complete, Required
  <2>2. MissingAction(cat, list) # "deny"
    BY <1>2 DEF MissingAction
  <2> QED
    BY <1>1, <2>1, <2>2, MissingScope DEF p
<1>3. CASE \/ cat.default = "deny"
           \/ \E r \in Matched(cat, list) : cat.roles[r].missing = "deny"
  <2>1. MissingAction(cat, list) = "deny"
    BY <1>3 DEF MissingAction
  <2>2. ASSUME NEW r \in Matched(cat, list)
        PROVE  Required(cat, r) = {b.attribute : b \in Bound(cat, cat.roles[r].scopes)}
    BY <1>3 DEF Agreed, Required
  <2>3. Complete(cat, list, attrs) <=>
            \A r \in Matched(cat, list) :
                \A b \in Bound(cat, cat.roles[r].scopes) : attrs[b.attribute] # {}
    BY <2>2 DEF Complete
  <2>4. (\E f \in Filters(cat, p) : f.values = {}) <=> ~Complete(cat, list, attrs)
    <3>1. ASSUME NEW f \in Filters(cat, p), f.values = {} PROVE ~Complete(cat, list, attrs)
      BY <1>1, <2>3, <3>1, BindingOfFilter
    <3>2. ASSUME ~Complete(cat, list, attrs) PROVE \E f \in Filters(cat, p) : f.values = {}
      <4>0. PICK r \in Matched(cat, list) :
                \E b \in Bound(cat, cat.roles[r].scopes) : attrs[b.attribute] = {}
        BY <2>3, <3>2
      <4>1. PICK b \in Bound(cat, cat.roles[r].scopes) : attrs[b.attribute] = {}
        BY <4>0
      <4>2. [table |-> b.table, column |-> b.column, values |-> attrs[b.attribute]]
                \in Filters(cat, p)
        BY <1>1, FilterOfBinding
      <4> QED
        BY <4>1, <4>2
    <3> QED
      BY <3>1, <3>2
  <2> QED
    BY <1>1, <2>1, <2>4, MissingScope DEF p
<1> QED
  BY <1>2, <1>3

\* A complete key that is refused for want of attributes lacks one of a role that
\* is let off, which another of its roles makes count.
LEMMA RefusedBetweenRoles ==
    ASSUME NEW cat, cat.enabled, NEW key, NEW stmt,
           Complete(cat, key.roles, key.attributes),
           Evaluate(cat, Principal(key.roles, key.attributes), stmt).status = "missing_scope"
    PROVE  LetOffAlone(cat, key)
<1> DEFINE p == Principal(key.roles, key.attributes)
<1>1. p.roles = key.roles /\ p.attributes = key.attributes /\ p.known
  BY DEF Principal
<1>2. Evaluate(cat, p, stmt).status = "missing_scope"
  OBVIOUS
<1> HIDE DEF p
<1>3. MissingAction(cat, key.roles) = "deny"
  BY <1>1, <1>2, MissingScope
<1>4. PICK f \in Filters(cat, p) : f.values = {}
  BY <1>1, <1>2, MissingScope
<1>5. PICK r \in Matched(cat, key.roles) :
            \E b \in Bound(cat, cat.roles[r].scopes) :
                f = [table |-> b.table, column |-> b.column,
                     values |-> key.attributes[b.attribute]]
  BY <1>1, <1>4, BindingOfFilter
<1>6. PICK b \in Bound(cat, cat.roles[r].scopes) : key.attributes[b.attribute] = {}
  BY <1>4, <1>5
<1>7. "deny" \notin {cat.roles[r].missing, cat.default}
  BY <1>6 DEF Complete, Required
<1>8. \E q \in Matched(cat, key.roles) : cat.roles[q].missing = "deny"
  BY <1>3, <1>7 DEF MissingAction
<1> QED
  BY <1>6, <1>7, <1>8 DEF LetOffAlone

\* The contract and the enforcer ask for the same attributes of roles that
\* agree, for every file, key and statement.
THEOREM ContractIsEnforced == Spec => []ContractMatchesEnforcement
<1>1. ContractMatchesEnforcement
  BY ContractAgrees DEF ContractMatchesEnforcement
<1> QED
  BY <1>1, PTL

(***************************************************************************)
(* What the enforcer lets through.                                         *)
(***************************************************************************)
\* A set of positions in a list has a last one.
LEMMA Largest ==
    ASSUME NEW n \in Nat, NEW S \in SUBSET (1..n), S # {}
    PROVE  \E i \in S : \A j \in S : j <= i
<1> DEFINE T == {n - i : i \in S}
           R == {ss \in Nat \X Nat : ss[1] < ss[2]}
<1>1. PICK x \in T : \A y \in T : ~ (<<y, x>> \in R)
  <2>1. T \subseteq Nat /\ T # {}
    <3>1. \A i \in S : i \in Nat /\ n - i \in Nat
      OBVIOUS
    <3> QED
      BY <3>1, Zenon
  <2>2. IsWellFoundedOn(R, Nat)
    BY NatLessThanWellFounded, Zenon DEF OpToRel
  <2> HIDE DEF T, R
  <2> QED
    BY <2>1, <2>2, WFMin, Zenon
<1>2. PICK i \in S : x = n - i
  BY Zenon
<1>3. ASSUME NEW j \in S PROVE j <= i
  <2>1. /\ n - j \in Nat /\ n - i \in Nat
        /\ i \in Int /\ j \in Int
    OBVIOUS
  <2>2. <<n - j, n - i>> \notin R
    BY <1>1, <1>2, Zenon
  <2>3. ~ (n - j < n - i)
    BY <2>1, <2>2
  <2> QED
    BY <2>1, <2>3
<1> QED
  BY <1>3, Zenon

\* A column that any of the roles masks is masked.
LEMMA MaskedByAny ==
    ASSUME NEW cat, NEW list \in Seq(Roles), NEW col,
           NEW r \in Matched(cat, list), cat.roles[r].masks[col] # "none"
    PROVE  Mask(cat, list, col) # "none"
<1> DEFINE by == {i \in DOMAIN list : /\ list[i] \in DOMAIN cat.roles
                                      /\ cat.roles[list[i]].masks[col] # "none"}
<1>1. PICK k \in DOMAIN list : list[k] = r /\ r \in DOMAIN cat.roles
  BY DEF Matched, RolesOf
<1>2. k \in by
  BY <1>1
<1>3. by \in SUBSET (1..Len(list)) /\ Len(list) \in Nat
  OBVIOUS
<1>4. \E i \in by : \A j \in by : j <= i
  <2> HIDE DEF by
  <2> QED
    BY <1>2, <1>3, Largest
<1>5. PICK last \in by : last = CHOOSE i \in by : \A j \in by : j <= i
  BY <1>4
<1>6. Mask(cat, list, col) = cat.roles[list[last]].masks[col]
  BY <1>2, <1>5 DEF Mask
<1> QED
  BY <1>5, <1>6

LEMMA ProjectedMasks ==
    ASSUME NEW cat, NEW list \in Seq(Roles), NEW columns,
           NEW r \in Matched(cat, list),
           NEW col \in DOMAIN Projected(cat, list, columns),
           cat.roles[r].masks[col] # "none"
    PROVE  \/ Projected(cat, list, columns)[col] = "masked"
           \/ \A k \in DOMAIN Projected(cat, list, columns) : Mask(cat, list, k) = "exclude"
<1>1. Mask(cat, list, col) # "none"
  BY MaskedByAny
<1> QED
  BY <1>1 DEF Projected

LEMMA EvaluateWithin ==
    ASSUME NEW cat, cat.enabled, NEW p, p.roles \in Seq(Roles),
           p.known \/ Matched(cat, p.roles) = {},
           NEW stmt, Evaluate(cat, p, stmt).status = "allowed"
    PROVE  Within(cat, p, Evaluate(cat, p, stmt))
<1>1. CASE Matched(cat, p.roles) = {}
  BY <1>1 DEF Within
<1>2. CASE Matched(cat, p.roles) # {}
  <2> DEFINE res == Evaluate(cat, p, stmt)
  <2>1. /\ stmt.tables \subseteq Allowed(cat, p.roles) \ Denied(cat, p.roles)
        /\ res = Answered(stmt, Filters(cat, p), Projected(cat, p.roles, stmt.columns))
    BY <1>2, RefusedStatus DEF Evaluate
  <2>2. /\ res.tables = stmt.tables /\ res.filters = Filters(cat, p)
        /\ res.columns = Projected(cat, p.roles, stmt.columns)
    BY <2>1 DEF Answered
  <2> HIDE DEF res
  <2>3. ASSUME NEW r \in Matched(cat, p.roles)
        PROVE  res.tables \cap cat.roles[r].denied = {}
    BY <2>1, <2>2 DEF Denied
  <2>4. ASSUME NEW r \in Matched(cat, p.roles), NEW t \in res.tables
        PROVE  Selected(res.filters, t) \subseteq Seen(cat, r, p.attributes, t)
    <3> SUFFICES ASSUME NEW row \in [Columns -> Values],
                        \A f \in Filters(cat, p) : f.table = t => row[f.column] \in f.values,
                        NEW d \in cat.roles[r].scopes \cap DOMAIN cat.dimensions,
                        NEW b \in cat.dimensions[d], b.table = t
                 PROVE  row[b.column] \in p.attributes[b.attribute]
      BY <2>2 DEF Selected, Seen
    <3>1. b \in Bound(cat, cat.roles[r].scopes)
      BY DEF Bound
    <3>2. [table |-> b.table, column |-> b.column, values |-> p.attributes[b.attribute]]
                \in Filters(cat, p)
      BY <3>1, FilterOfBinding
    <3> QED
      BY <3>2
  <2>5. ASSUME NEW r \in Matched(cat, p.roles), NEW col \in DOMAIN res.columns,
               cat.roles[r].masks[col] # "none"
        PROVE  \/ res.columns[col] = "masked"
               \/ \A k \in DOMAIN res.columns : Mask(cat, p.roles, k) = "exclude"
    BY <2>2, <2>5, ProjectedMasks
  <2>6. ASSUME NEW t \in res.tables
        PROVE  \E r \in Matched(cat, p.roles) : t \in cat.roles[r].allowed
    BY <2>1, <2>2 DEF Allowed
  <2> QED
    BY <2>3, <2>4, <2>5, <2>6 DEF Within, res
<1> QED
  BY <1>1, <1>2

(***************************************************************************)
(* From the key that is issued to the statement that is answered.          *)
(***************************************************************************)
Verdicts == {"missing_scope", "table_denied", "allowed"}

\* A key in use was issued; its roles and attributes are the principal's.
Speaks(c) ==
    /\ rows[token[c]].status # "none"
    /\ principal[c] = Principal(rows[token[c]].roles, rows[token[c]].attributes)

SenderInv(c) ==
    /\ pc[c] = "claims" => settings.mode = "jwt"
    /\ pc[c] \in {"lookup", "check"} => settings.mode \in KeyModes
    /\ pc[c] = "check" /\ found[c].status # "none" =>
        /\ token[c] \in Keys /\ rows[token[c]].status # "none"
        /\ found[c].roles = rows[token[c]].roles
        /\ found[c].attributes = rows[token[c]].attributes
    /\ pc[c] = "ask" \/ outcome[c].status \in Verdicts =>
        (settings.mode \in KeyModes /\ token[c] \in Keys => Speaks(c))
    /\ pc[c] # "end" => outcome[c].status = "none"
    /\ principal[c].known \/ principal[c] = Nobody
    /\ settings.governed /\ outcome[c].status \in Verdicts =>
        \E stmt \in Statements : outcome[c] = Evaluate(catalog, principal[c], stmt)

\* A key was checked against the file it is remembered with.
IssuedInv(k) ==
    settings.governed /\ rows[k].status # "none" =>
        MeetsContract(accepted[k], rows[k].roles, rows[k].attributes)

LEMMA SettingsStay == ASSUME [Next]_vars PROVE settings' = settings
BY DEF Next, Create, Revoke, Tick, Edit, Restart, LoadPolicies, Receive, ReadClaims, LookUp, Check,
       Enforce, elsewhere, vars

\* A row keeps what it says of its key's roles and attributes.
LEMMA RowsStay ==
    ASSUME TypeOK, [Next]_vars, NEW k \in Keys, rows[k].status # "none"
    PROVE  /\ rows'[k].status # "none"
           /\ rows'[k].roles = rows[k].roles
           /\ rows'[k].attributes = rows[k].attributes
           /\ accepted'[k] = accepted[k]
<1> USE DEF TypeOK
<1>0. rows[k] \in Rows
  BY DEF NoRow
<1>1. ASSUME NEW q \in Keys, Create(q) PROVE rows'[k] = rows[k] /\ accepted'[k] = accepted[k]
  BY <1>1 DEF Create
<1>2. ASSUME NEW q \in Keys, Revoke(q)
      PROVE  /\ rows'[k].status # "none"
             /\ rows'[k].roles = rows[k].roles
             /\ rows'[k].attributes = rows[k].attributes
             /\ accepted'[k] = accepted[k]
  BY <1>0, <1>2 DEF Revoke, Rows
<1>3. CASE Tick \/ Edit \/ Restart \/ LoadPolicies \/ UNCHANGED vars
  BY <1>3 DEF Tick, Edit, Restart, LoadPolicies, issued, vars
<1>4. ASSUME NEW c \in Calls, Receive(c) \/ ReadClaims(c) \/ LookUp(c) \/ Check(c) \/ Enforce(c)
      PROVE  UNCHANGED issued
  BY <1>4 DEF Receive, ReadClaims, LookUp, Check, Enforce, elsewhere
<1> QED
  BY <1>1, <1>2, <1>3, <1>4 DEF Next, issued

LEMMA IssuedInvStep ==
    ASSUME TypeOK, \A k \in Keys : IssuedInv(k), [Next]_vars
    PROVE  \A k \in Keys : IssuedInv(k)'
<1> SUFFICES ASSUME NEW k \in Keys, settings'.governed, rows'[k].status # "none"
             PROVE  MeetsContract(accepted'[k], rows'[k].roles, rows'[k].attributes)
  BY DEF IssuedInv
<1>1. CASE rows[k].status # "none"
  BY <1>1, RowsStay, SettingsStay DEF IssuedInv
<1>2. CASE rows[k].status = "none"
  <2>1. Create(k)
    BY <1>2 DEF TypeOK, Next, Create, Revoke, Tick, Edit, Restart, LoadPolicies, Receive, ReadClaims, LookUp,
                Check, Enforce, elsewhere, issued, vars
  <2>2. PICK list \in RoleLists, attrs \in AttributeValues :
            /\ settings.governed => MeetsContract(file, list, attrs)
            /\ rows'[k].roles = list /\ rows'[k].attributes = attrs
    BY <2>1 DEF Create, TypeOK
  <2>3. accepted'[k] = file
    BY <2>1 DEF Create, TypeOK
  <2> QED
    BY <2>2, <2>3, SettingsStay
<1> QED
  BY <1>1, <1>2

\* A process serves no request before it has loaded its policies.
ServerInv ==
    api # "up" => \A c \in Calls : pc[c] = "idle" /\ outcome[c].status = "none"

LEMMA ServerInvStep == ASSUME TypeOK, ServerInv, [Next]_vars PROVE ServerInv'
<1>1. CASE \/ \E k \in Keys : Create(k) \/ Revoke(k)
           \/ Tick \/ Edit \/ UNCHANGED vars
  BY <1>1 DEF ServerInv, Create, Revoke, Tick, Edit, vars, call, server
<1>2. CASE Restart
  BY <1>2, RefusedStatus DEF Restart, NoCalls, ServerInv
<1>3. CASE LoadPolicies
  BY <1>3 DEF LoadPolicies, ServerInv
<1>4. ASSUME NEW c \in Calls, Receive(c) \/ ReadClaims(c) \/ LookUp(c) \/ Check(c) \/ Enforce(c)
      PROVE  ServerInv'
  <2>1. api = "up" /\ api' = api
    BY <1>4 DEF ServerInv, Receive, ReadClaims, LookUp, Check, Enforce, elsewhere, server
  <2> QED
    BY <2>1 DEF ServerInv
<1> QED
  BY <1>1, <1>2, <1>3, <1>4 DEF Next

LEMMA SenderInvStep ==
    ASSUME TypeOK, ServerInv, \A d \in Calls : FoundInv(d) /\ SenderInv(d), [Next]_vars
    PROVE  \A d \in Calls : SenderInv(d)'
<1> SUFFICES ASSUME NEW d \in Calls PROVE SenderInv(d)'
  OBVIOUS
<1>0. settings' = settings
  BY SettingsStay
\* A step that does not concern the request, or the process that serves it.
<1>1. ASSUME catalog' = catalog, pc'[d] = pc[d], token'[d] = token[d], found'[d] = found[d],
             principal'[d] = principal[d], outcome'[d] = outcome[d]
      PROVE  SenderInv(d)'
  <2>1. token[d] \in Keys /\ Speaks(d) => Speaks(d)'
    BY <1>1, RowsStay DEF Speaks
  <2> QED
    BY <1>0, <1>1, <2>1, RowsStay DEF SenderInv
<1>2. CASE \/ \E k \in Keys : Create(k) \/ Revoke(k)
           \/ Tick \/ Edit \/ UNCHANGED vars
  BY <1>1, <1>2 DEF Create, Revoke, Tick, Edit, vars, call, server
<1>3. ASSUME NEW c \in Calls, c # d,
             Receive(c) \/ ReadClaims(c) \/ LookUp(c) \/ Check(c) \/ Enforce(c)
      PROVE  SenderInv(d)'
  <2>1. /\ catalog' = catalog /\ token'[d] = token[d] /\ found'[d] = found[d]
        /\ pc'[d] = pc[d] /\ principal'[d] = principal[d] /\ outcome'[d] = outcome[d]
    BY <1>3 DEF TypeOK, Receive, ReadClaims, LookUp, Check, Enforce, Admit, End, Goto,
                elsewhere, server
  <2> QED
    BY <1>1, <2>1
<1>4. CASE Restart
  <2>1. /\ pc'[d] = "idle" /\ outcome'[d].status = "none" /\ principal'[d] = Nobody
    BY <1>4, RefusedStatus DEF Restart, NoCalls
  <2> QED
    BY <2>1 DEF SenderInv, Verdicts
\* Policies are loaded while no request has met them.
<1>10. CASE LoadPolicies
  <2>1. /\ pc'[d] = "idle" /\ outcome'[d].status = "none" /\ principal'[d] = principal[d]
    BY <1>10 DEF LoadPolicies, ServerInv, call
  <2> QED
    BY <1>0, <2>1 DEF SenderInv, Verdicts
<1>5. CASE Receive(d)
  <2>1. outcome'[d].status = "none" /\ principal'[d] = Nobody
    BY <1>5, RefusedStatus DEF Receive, TypeOK
  <2>2. /\ pc'[d] = "ask" => settings.mode \notin KeyModes
        /\ pc'[d] = "claims" => settings.mode = "jwt"
        /\ pc'[d] \in {"lookup", "check"} => settings.mode \in KeyModes
        /\ pc'[d] = "check" => found'[d].status = "none"
    BY <1>5 DEF Receive, Goto, TypeOK, KeyModes, Modes, FoundInv, NoRow
  <2> QED
    BY <1>0, <2>1, <2>2 DEF SenderInv, Verdicts
<1>6. CASE ReadClaims(d)
  <2>1. settings.mode = "jwt" /\ settings.mode \notin KeyModes /\ outcome[d].status = "none"
    BY <1>6 DEF ReadClaims, SenderInv, KeyModes
  <2>2. \/ /\ pc'[d] = "ask" /\ principal'[d].known /\ outcome'[d] = outcome[d]
        \/ /\ pc'[d] = "end" /\ principal'[d] = principal[d]
           /\ outcome'[d].status = "unauthorized"
    BY <1>6, RefusedStatus DEF ReadClaims, Admit, End, Goto, Principal, TypeOK
  <2> QED
    BY <1>0, <2>1, <2>2 DEF SenderInv, Verdicts
<1>7. CASE LookUp(d)
  <2>1. /\ token'[d] = token[d] /\ principal'[d] = principal[d]
        /\ rows' = rows /\ settings.mode \in KeyModes /\ outcome[d].status = "none"
    BY <1>7 DEF LookUp, SenderInv, elsewhere, issued
  <2>2. \/ /\ pc'[d] = "check" /\ outcome'[d] = outcome[d]
           /\ found'[d] = IF token[d] \in Keys THEN rows[token[d]] ELSE NoRow
        \/ pc'[d] = "end" /\ outcome'[d].status = "failed"
    BY <1>7, RefusedStatus DEF LookUp, End, Goto, TypeOK
  <2> QED
    BY <1>0, <2>1, <2>2 DEF SenderInv, Verdicts, NoRow
<1>8. CASE Check(d)
  <2>1. /\ token'[d] = token[d] /\ rows' = rows /\ outcome[d].status = "none"
        /\ settings.mode \in KeyModes
    BY <1>8 DEF Check, SenderInv, elsewhere, issued
  <2>2. CASE /\ Active(found[d], now)
             /\ Admit(d, Principal(found[d].roles, found[d].attributes))
             /\ UNCHANGED <<subjects, outcome>>
    <3>1. /\ found[d].status # "none"
          /\ pc'[d] = "ask" /\ outcome'[d] = outcome[d]
          /\ principal'[d] = Principal(found[d].roles, found[d].attributes)
      BY <2>2 DEF Active, Admit, Goto, TypeOK
    <3>2. Speaks(d)'
      BY <1>8, <2>1, <3>1 DEF SenderInv, Speaks, Check
    <3>3. principal'[d].known
      BY <3>1 DEF Principal
    <3> QED
      BY <2>1, <3>1, <3>2, <3>3 DEF SenderInv, Verdicts
  <2>3. CASE token[d] \in EnvKeys /\ Admit(d, Principal(<<>>, NoAttributes)) /\ UNCHANGED outcome
    <3>1. /\ pc'[d] = "ask" /\ outcome'[d] = outcome[d] /\ principal'[d].known
          /\ token'[d] \notin Keys
      BY <2>1, <2>3, KeysAssumption DEF Admit, Goto, TypeOK, Principal
    <3> QED
      BY <2>1, <3>1 DEF SenderInv, Verdicts
  <2>4. CASE End(d, Refused("unauthorized")) /\ UNCHANGED <<subjects, principal>>
    <3>1. pc'[d] = "end" /\ outcome'[d].status = "unauthorized" /\ principal'[d] = principal[d]
      BY <2>4, RefusedStatus DEF End, Goto, TypeOK
    <3> QED
      BY <3>1 DEF SenderInv, Verdicts
  <2> QED
    BY <1>8, <2>2, <2>3, <2>4 DEF Check
<1>9. CASE Enforce(d)
  <2>1. /\ token' = token /\ principal' = principal /\ rows' = rows /\ catalog' = catalog
        /\ pc[d] = "ask"
    BY <1>9 DEF Enforce, elsewhere, issued, server
  <2>2. pc'[d] = "end"
    BY <1>9 DEF Enforce, End, Goto, TypeOK
  <2>3. settings.governed => \E stmt \in Statements : outcome'[d] = Evaluate(catalog, principal[d], stmt)
    BY <1>9 DEF Enforce, End, TypeOK
  <2>4. settings.mode \in KeyModes /\ token[d] \in Keys => Speaks(d)
    BY <2>1 DEF SenderInv
  <2> QED
    BY <1>0, <2>1, <2>2, <2>3, <2>4 DEF SenderInv, Speaks
<1> QED
  BY <1>2, <1>3, <1>4, <1>5, <1>6, <1>7, <1>8, <1>9, <1>10 DEF Next

LEMMA ServerInvInit == Init => ServerInv
BY RefusedStatus DEF Init, ServerInv

LEMMA SenderInvInit == Init => \A d \in Calls : SenderInv(d)
BY RefusedStatus DEF Init, SenderInv, Verdicts

\* What a request is shown is within what each role of its key shows by itself,
\* for any number of roles in any file.
THEOREM NoRoleIsOutvoted == Spec => []WithinEveryRole
<1> DEFINE IInv == ServerInv /\ \A d \in Calls : FoundInv(d) /\ SenderInv(d)
<1>1. Init => IInv
  BY ServerInvInit, SenderInvInit DEF Init, FoundInv
<1>2. TypeOK /\ IInv /\ [Next]_vars => IInv'
  BY FoundInvStep, SenderInvStep, ServerInvStep
<1>3. TypeOK /\ IInv => WithinEveryRole
  <2> SUFFICES ASSUME TypeOK, IInv, NEW c \in Calls, outcome[c].status = "allowed",
                      settings.governed, catalog.enabled
               PROVE  Within(catalog, Holder(c), outcome[c])
    BY DEF WithinEveryRole
  <2>1. PICK stmt \in Statements : outcome[c] = Evaluate(catalog, principal[c], stmt)
    BY DEF SenderInv, Verdicts
  <2>2. principal[c].roles \in Seq(Roles)
    <3>1. <<>> \in Seq(Roles)
      OBVIOUS
    <3> QED
      BY <3>1, RoleListsAssumption DEF TypeOK, Principals
  <2>3. principal[c].known \/ Matched(catalog, principal[c].roles) = {}
    <3>1. RolesOf(<<>>) = {}
      BY DEF RolesOf
    <3> QED
      BY <3>1 DEF SenderInv, Nobody, Matched
  <2>4. Within(catalog, principal[c], outcome[c])
    BY <2>1, <2>2, <2>3, EvaluateWithin
  <2>5. /\ Holder(c).roles = principal[c].roles
        /\ Holder(c).attributes = principal[c].attributes
    <3>1. CASE token[c] \in Keys /\ settings.mode \in KeyModes
      <4>1. Speaks(c)
        BY <3>1 DEF SenderInv, Verdicts
      <4>2. Holder(c) = rows[token[c]]
        BY <3>1 DEF Holder
      <4> QED
        BY <4>1, <4>2 DEF Speaks, Principal
    <3>2. CASE ~(token[c] \in Keys /\ settings.mode \in KeyModes)
      BY <3>2 DEF Holder
    <3> QED
      BY <3>1, <3>2
  <2> QED
    BY <2>4, <2>5 DEF Within
<1> QED
  BY <1>1, <1>2, <1>3, TypeCorrect, PTL DEF Spec

\* A key accepted under the policies in force is served with all of its roles,
\* and turned away for want of attributes only if one of its roles is let off
\* what another makes count.
THEOREM AcceptedIsServed == Spec => []AcceptedKeyServed
<1> DEFINE IInv == /\ \A d \in Calls : FoundInv(d) /\ SenderInv(d)
                   /\ \A k \in Keys : IssuedInv(k)
                   /\ ServerInv
<1>1. Init => IInv
  <2> SUFFICES ASSUME Init PROVE IInv
    OBVIOUS
  <2>1. \A d \in Calls : FoundInv(d) /\ SenderInv(d)
    BY SenderInvInit DEF Init, FoundInv
  <2>2. \A k \in Keys : IssuedInv(k)
    <3> SUFFICES ASSUME NEW k \in Keys PROVE rows[k].status = "none"
      BY DEF IssuedInv
    <3> QED
      BY DEF Init, NoRow
  <2>3. ServerInv
    BY ServerInvInit
  <2> QED
    BY <2>1, <2>2, <2>3
<1>2. TypeOK /\ IInv /\ [Next]_vars => IInv'
  BY FoundInvStep, SenderInvStep, IssuedInvStep, ServerInvStep
<1>3. TypeOK /\ IInv => AcceptedKeyServed
  <2> SUFFICES ASSUME TypeOK, IInv, NEW c \in Calls,
                      settings.governed, settings.mode \in KeyModes, token[c] \in Keys,
                      accepted[token[c]] = catalog, catalog.enabled,
                      DOMAIN catalog.roles # {},
                      outcome[c].status \in {"missing_scope", "table_denied", "allowed"}
               PROVE  /\ RolesOf(rows[token[c]].roles) \subseteq DOMAIN catalog.roles
                      /\ outcome[c].status = "missing_scope" =>
                            LetOffAlone(catalog, rows[token[c]])
    BY DEF AcceptedKeyServed
  <2> DEFINE key == rows[token[c]]
  <2>1. PICK stmt \in Statements : outcome[c] = Evaluate(catalog, principal[c], stmt)
    BY DEF SenderInv, Verdicts
  <2>2. Speaks(c)
    BY DEF SenderInv, Verdicts
  <2>3. MeetsContract(catalog, key.roles, key.attributes)
    BY <2>2 DEF IssuedInv, Speaks
  <2>4. ASSUME outcome[c].status = "missing_scope" PROVE LetOffAlone(catalog, key)
    <3>1. Evaluate(catalog, Principal(key.roles, key.attributes), stmt).status = "missing_scope"
      BY <2>1, <2>2, <2>4 DEF Speaks
    <3> QED
      BY <2>3, <3>1, RefusedBetweenRoles DEF MeetsContract
  <2>5. RolesOf(key.roles) \subseteq DOMAIN catalog.roles
    BY <2>3 DEF MeetsContract
  <2> QED
    BY <2>4, <2>5
<1> QED
  BY <1>1, <1>2, <1>3, TypeCorrect, PTL DEF Spec

=============================================================================

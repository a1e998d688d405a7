------------------------------ MODULE MCAccess ------------------------------
(***************************************************************************)
(* Two roles, one scope on one of two tables, and files in which the roles *)
(* differ in what they allow, mask and say of a missing attribute.         *)
(***************************************************************************)
EXTENDS Access

CONSTANTS analyst, auditor, school, payroll, id, email, campus, campus_ids, here

Campus == [d \in {campus} |-> {[table |-> school, column |-> id, attribute |-> campus_ids]}]

Masking(strategy) == [col \in Columns |-> IF col = email THEN strategy ELSE "none"]

Policy(allowed, denied, scopes, strategy, missing) ==
    [allowed |-> allowed, denied |-> denied, scopes |-> scopes,
     masks |-> Masking(strategy), missing |-> missing]

Scoped(missing) == Policy(Tables, {}, {campus}, "exclude", missing)
Open(missing)   == Policy({payroll}, {}, {}, "none", missing)
Partial         == Policy({school}, {payroll}, {}, "null_literal", "empty_safe")

Both(first, second) == [r \in {analyst, auditor} |-> IF r = analyst THEN first ELSE second]

File(enabled, default, roles) ==
    [enabled |-> enabled, default |-> default, dimensions |-> Campus, roles |-> roles]

SomeCatalogs ==
    {\* a role that is denied for what the other is let off
     File(TRUE, "empty_safe", Both(Scoped("empty_safe"), Open("deny"))),
     File(TRUE, "deny", Both(Scoped("empty_safe"), Partial)),
     File(TRUE, "empty_safe", [r \in {analyst} |-> Scoped("deny")]),
     File(FALSE, "deny", Both(Scoped("deny"), Partial)),
     \* a file that does not validate: its one dimension is not defined
     [File(TRUE, "deny", Both(Scoped("deny"), Open("deny"))) EXCEPT
        !.dimensions = [d \in {} |-> {}]],
     \* another, without roles
     File(TRUE, "deny", [r \in {} |-> Partial])}

SomeRoleLists == {<<>>, <<analyst>>, <<auditor>>, <<analyst, auditor>>, <<auditor, analyst>>}

SomeStatements ==
    {[tables |-> {school}, columns |-> {id, email}],
     [tables |-> {school}, columns |-> {email}],
     [tables |-> {school, payroll}, columns |-> {id}],
     [tables |-> {payroll}, columns |-> {id, email}]}

=============================================================================

-------------------------------- MODULE Rbac --------------------------------
(***************************************************************************)
(* The rules that the enforcer holds and the database stores, the decision *)
(* they imply under the matcher of test/data/rbac_model.conf, and what     *)
(* each mutator of the NIF (c_src/casbin_nif.cpp) asks casbin to change.   *)
(* A policy rule names a subject and a resource (an object and an action); *)
(* a grouping rule names a user and a role.                                *)
(***************************************************************************)
EXTENDS Naturals, Sequences

CONSTANTS Users, Roles,     \* the subjects of rules
          Superuser,        \* the subject the matcher lets do everything
          Resources         \* what policy rules are about

Subjects  == Users \cup Roles
Policies  == {"p"} \X Subjects \X Resources
Groupings == {"g"} \X Users \X Roles
Rules     == Policies \cup Groupings

(* g(r.sub, p.sub): x is y, or has the role y, directly or through roles   *)
(* it has: y is in every set that holds x and is closed under the rules.   *)
HasLink(x, y, rules) ==
    \A S \in SUBSET (Subjects \cup {x}) :
        /\ x \in S
        /\ \A r \in rules \cap Groupings : r[2] \in S => r[3] \in S
        => y \in S

(* The matcher, of the request <<subject, resource>>.                      *)
Allowed(q, rules) ==
    \/ \E r \in rules \cap Policies : HasLink(q[1], r[2], rules) /\ q[2] = r[3]
    \/ q[1] = Superuser

Decision(q, rules) == IF Allowed(q, rules) THEN "allow" ELSE "deny"

-----------------------------------------------------------------------------
(* An operation changes the rules part by part.  "add" adds a rule that is *)
(* absent, "remove" removes one copy of a rule that is present, "filter"   *)
(* removes every rule of the part.                                         *)
Op(how, parts) == [how |-> how, parts |-> parts]

Ops == [how : {"add", "remove", "filter"}, parts : Seq(SUBSET Rules)]

NoOp == Op("add", <<>>)

About(r, x) == r[2] = x \/ r[3] = x

AddPolicyOps         == {Op("add", <<{r}>>) : r \in Policies}
RemovePolicyOps      == {Op("remove", <<{r}>>) : r \in Policies}
AddGroupingPolicyOps == {Op("add", <<{r}>>) : r \in Groupings}
AddRoleForUserOps    == AddGroupingPolicyOps
DeleteRoleForUserOps == {Op("remove", <<{r}>>) : r \in Groupings}

(* One grouping rule after the other, for the same user.                   *)
AddRolesForUserOps ==
    {Op("add", <<{<<"g", u, a>>}, {<<"g", u, b>>}>>) :
        u \in Users, a \in Roles, b \in Roles}

DeleteRolesForUserOps ==
    {Op("filter", <<{r \in Groupings : r[2] = u}>>) : u \in Users}

(* The members of the role, then the rules about it.                       *)
DeleteRoleOps ==
    {Op("filter", <<{r \in Groupings : r[3] = role},
                    {r \in Policies : r[2] = role}>>) : role \in Roles}

(* The rules of a subject, or those about a resource.                      *)
RemoveFilteredPolicyOps ==
    {Op("filter", <<{r \in Policies : About(r, x)}>>) :
        x \in Subjects \cup Resources}
=============================================================================

----------------------------- MODULE RbacProofs -----------------------------
(* Facts about the operations of module Rbac.                              *)
EXTENDS Rbac, SequenceTheorems, TLAPS

MutatorOps == AddPolicyOps \cup RemovePolicyOps \cup RemoveFilteredPolicyOps
              \cup AddGroupingPolicyOps \cup AddRoleForUserOps
              \cup AddRolesForUserOps \cup DeleteRoleForUserOps
              \cup DeleteRolesForUserOps \cup DeleteRoleOps

(* Every mutator has at least one part, and its parts are sets of rules.   *)
LEMMA MutatorOpsTyped ==
  ASSUME NEW op \in MutatorOps
  PROVE  op \in Ops /\ op.parts # <<>>
<1>1. ASSUME NEW how \in {"add", "remove", "filter"}, NEW S \in SUBSET Rules
      PROVE  Op(how, <<S>>) \in Ops /\ Op(how, <<S>>).parts # <<>>
  <2>1. <<S>> \in Seq(SUBSET Rules) /\ <<S>> # <<>>
    OBVIOUS
  <2>2. QED
    BY <2>1 DEF Op, Ops
<1>2. ASSUME NEW how \in {"add", "remove", "filter"},
             NEW S \in SUBSET Rules, NEW T \in SUBSET Rules
      PROVE  Op(how, <<S, T>>) \in Ops /\ Op(how, <<S, T>>).parts # <<>>
  <2>1. <<S, T>> \in Seq(SUBSET Rules) /\ <<S, T>> # <<>>
    OBVIOUS
  <2>2. QED
    BY <2>1 DEF Op, Ops
<1>3. \A r \in Policies \cup Groupings : {r} \in SUBSET Rules
  BY DEF Rules
<1>4. \A u, role : {r \in Groupings : r[2] = u} \in SUBSET Rules
                   /\ {r \in Groupings : r[3] = role} \in SUBSET Rules
  BY DEF Rules
<1>5. \A x : {r \in Policies : r[2] = x} \in SUBSET Rules
             /\ {r \in Policies : About(r, x)} \in SUBSET Rules
  BY DEF Rules
<1>6. CASE op \in AddPolicyOps \cup AddGroupingPolicyOps \cup AddRoleForUserOps
  <2>1. PICK r \in Policies \cup Groupings : op = Op("add", <<{r}>>)
    BY <1>6 DEF AddPolicyOps, AddGroupingPolicyOps, AddRoleForUserOps
  <2>2. {r} \in SUBSET Rules
    BY <1>3
  <2>3. QED
    BY <1>1, <2>1, <2>2
<1>7. CASE op \in RemovePolicyOps \cup DeleteRoleForUserOps
  <2>1. PICK r \in Policies \cup Groupings : op = Op("remove", <<{r}>>)
    BY <1>7 DEF RemovePolicyOps, DeleteRoleForUserOps
  <2>2. {r} \in SUBSET Rules
    BY <1>3
  <2>3. QED
    BY <1>1, <2>1, <2>2
<1>8. CASE op \in AddRolesForUserOps
  <2>1. PICK u \in Users, a \in Roles, b \in Roles :
               op = Op("add", <<{<<"g", u, a>>}, {<<"g", u, b>>}>>)
    BY <1>8 DEF AddRolesForUserOps
  <2>2. {<<"g", u, a>>} \in SUBSET Rules /\ {<<"g", u, b>>} \in SUBSET Rules
    BY DEF Rules, Groupings
  <2>3. QED
    BY <1>2, <2>1, <2>2
<1>9. CASE op \in DeleteRolesForUserOps
  BY <1>1, <1>4, <1>9 DEF DeleteRolesForUserOps
<1>10. CASE op \in DeleteRoleOps
  BY <1>2, <1>4, <1>5, <1>10 DEF DeleteRoleOps
<1>11. CASE op \in RemoveFilteredPolicyOps
  BY <1>1, <1>5, <1>11 DEF RemoveFilteredPolicyOps
<1>12. QED
  BY <1>6, <1>7, <1>8, <1>9, <1>10, <1>11 DEF MutatorOps

(* More rules make more links, and allow more.                             *)
LEMMA HasLinkMonotone ==
  ASSUME NEW R, NEW S, R \subseteq S, NEW x, NEW y, HasLink(x, y, R)
  PROVE  HasLink(x, y, S)
BY DEF HasLink

LEMMA AllowedMonotone ==
  ASSUME NEW R, NEW S, R \subseteq S, NEW q, Allowed(q, R)
  PROVE  Allowed(q, S)
BY HasLinkMonotone DEF Allowed

LEMMA PolicyForm ==
  /\ \A r \in Policies : r = <<"p", r[2], r[3]>>
  /\ \A r \in Rules : r[1] = "p" => r \in Policies
<1>1. \A r \in Policies : r = <<"p", r[2], r[3]>>
  BY DEF Policies
<1>2. \A r \in Groupings : r[1] = "g"
  BY DEF Groupings
<1>3. QED
  BY <1>1, <1>2 DEF Rules

(* What a whole call that removes makes of the rules.                      *)
Without(rules, op) == {r \in rules : \A i \in 1 .. Len(op.parts) : r \notin op.parts[i]}

LEMMA NoLinkLeft ==
  ASSUME NEW rules, NEW T, NEW x, NEW y, x \in T, y \notin T, T \subseteq Subjects \cup {x},
         \A r \in rules \cap Groupings : r[2] \in T => r[3] \in T
  PROVE  ~HasLink(x, y, rules)
BY DEF HasLink

(* When DeleteRole is through with both its parts, nobody else has the     *)
(* role any more, directly or through other roles, and the role has no     *)
(* rule of its own (DeleteRole of casbin_nif.cpp).                         *)
THEOREM RbacDeleteRole ==
  ASSUME NEW role \in Roles, NEW rules \in SUBSET Rules,
         NEW op, op = Op("filter", <<{r \in Groupings : r[3] = role},
                                     {r \in Policies : r[2] = role}>>)
  PROVE  /\ op \in DeleteRoleOps
         /\ \A x : x # role => ~HasLink(x, role, Without(rules, op))
         /\ \A q : Allowed(q, Without(rules, op)) =>
               \/ q[1] = Superuser
               \/ \E r \in rules \cap Policies :
                     r[2] # role /\ q[2] = r[3] /\ HasLink(q[1], r[2], rules)
<1> DEFINE W == Without(rules, op)
<1>1. Len(op.parts) = 2 /\ op.parts[1] = {r \in Groupings : r[3] = role}
      /\ op.parts[2] = {r \in Policies : r[2] = role}
  BY DEF Op
<1>2. /\ W \subseteq rules
      /\ \A r \in W \cap Groupings : r[3] # role
      /\ \A r \in W \cap Policies : r[2] # role
  BY <1>1 DEF Without
<1> HIDE DEF W
<1>3. ASSUME NEW x, x # role PROVE ~HasLink(x, role, W)
  <2> DEFINE T == (Subjects \cup {x}) \ {role}
  <2>1. \A r \in W \cap Groupings : r[3] \in T
    BY <1>2 DEF Groupings, Subjects
  <2>2. QED
    BY <1>3, <2>1, NoLinkLeft
<1>4. ASSUME NEW q, Allowed(q, W), q[1] # Superuser
      PROVE  \E r \in rules \cap Policies :
                r[2] # role /\ q[2] = r[3] /\ HasLink(q[1], r[2], rules)
  BY <1>2, <1>4, HasLinkMonotone DEF Allowed
<1>5. QED
  BY <1>3, <1>4 DEF DeleteRoleOps, W

(* When DeleteRolesForUser is through, the user has no role: only rules    *)
(* about the user allow its requests.                                      *)
THEOREM RbacDeleteRolesForUser ==
  ASSUME NEW u \in Users, NEW rules \in SUBSET Rules,
         NEW op, op = Op("filter", <<{r \in Groupings : r[2] = u}>>)
  PROVE  /\ op \in DeleteRolesForUserOps
         /\ \A y : y # u => ~HasLink(u, y, Without(rules, op))
         /\ \A x : Allowed(<<u, x>>, Without(rules, op)) =>
                      u = Superuser \/ <<"p", u, x>> \in rules
<1> DEFINE W == Without(rules, op)
<1>1. Len(op.parts) = 1 /\ op.parts[1] = {r \in Groupings : r[2] = u}
  BY DEF Op
<1>2. W \subseteq rules /\ \A r \in W \cap Groupings : r[2] # u
  BY <1>1 DEF Without
<1> HIDE DEF W
<1>3. ASSUME NEW y, y # u PROVE ~HasLink(u, y, W)
  <2> DEFINE T == {u}
  <2>1. \A r \in W \cap Groupings : r[2] \in T => r[3] \in T
    BY <1>2
  <2>2. u \in T /\ y \notin T /\ T \subseteq Subjects \cup {u}
    BY <1>3
  <2> HIDE DEF T
  <2>3. QED
    BY <2>1, <2>2, NoLinkLeft
<1>4. ASSUME NEW x, Allowed(<<u, x>>, W), u # Superuser
      PROVE  <<"p", u, x>> \in rules
  <2>1. PICK r \in W \cap Policies : HasLink(u, r[2], W) /\ x = r[3]
    BY <1>4 DEF Allowed
  <2>2. r[2] = u
    BY <1>3, <2>1
  <2>3. r = <<"p", r[2], r[3]>>
    BY PolicyForm
  <2>4. QED
    BY <1>2, <2>1, <2>2, <2>3
<1>5. QED
  BY <1>3, <1>4 DEF DeleteRolesForUserOps, W

(* The other way round: who is given a role may do at once what the role   *)
(* may (AddRoleForUser), and what was allowed before stays allowed.        *)
THEOREM RbacAddRole ==
  ASSUME NEW u \in Users, NEW role \in Roles, NEW rules \in SUBSET Rules, NEW x
  PROVE  /\ <<"p", role, x>> \in rules =>
               Allowed(<<u, x>>, rules \cup {<<"g", u, role>>})
         /\ \A q : Allowed(q, rules) => Allowed(q, rules \cup {<<"g", u, role>>})
<1> DEFINE R == rules \cup {<<"g", u, role>>}
<1>1. HasLink(u, role, R)
  <2> DEFINE g == <<"g", u, role>>
  <2>1. g \in R \cap Groupings /\ g[2] = u /\ g[3] = role
    BY DEF Groupings
  <2> HIDE DEF g, R
  <2>2. QED
    BY <2>1 DEF HasLink
<1>2. ASSUME <<"p", role, x>> \in rules PROVE Allowed(<<u, x>>, R)
  <2>1. <<"p", role, x>> \in R \cap Policies
    BY <1>2, PolicyForm
  <2>2. QED
    BY <1>1, <2>1 DEF Allowed
<1>3. \A q : Allowed(q, rules) => Allowed(q, R)
  BY AllowedMonotone
<1>4. QED
  BY <1>2, <1>3

(* What is left of an operation when its first part is done.               *)
LEMMA RestOfOp ==
  ASSUME NEW s \in Seq(SUBSET Rules), Len(s) > 1
  PROVE  Tail(s) \in Seq(SUBSET Rules) /\ Tail(s) # <<>>
<1>1. Len(s) \in Nat /\ s # <<>>
  OBVIOUS
<1>2. Tail(s) \in Seq(SUBSET Rules) /\ Len(Tail(s)) = Len(s) - 1
  BY <1>1, HeadTailProperties
<1>3. Len(Tail(s)) # 0
  BY <1>1, <1>2
<1>4. Tail(s) # <<>>
  BY <1>2, <1>3, EmptySeq
<1>5. QED
  BY <1>2, <1>4
=============================================================================

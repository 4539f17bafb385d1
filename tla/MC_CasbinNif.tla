---------------------------- MODULE MC_CasbinNif ----------------------------
(* CasbinNif on a small instance: one user, one role, one resource, so     *)
(* that the request is allowed directly, through the role, or not; the     *)
(* superuser has no rules.                                                 *)
EXTENDS CasbinNif, TLC

CONSTANTS t1, t2, t3, e1, e2, alice, editor, admin, data

TwoThreads  == {t1, t2}
MCThreads   == {t1, t2, t3}
OneObject   == {e1}
TwoObjects  == {e1, e2}
MCUsers     == {alice}
MCRoles     == {editor}
NoRoles     == {}
MCResources == {data}
MCRequests  == {<<alice, data>>}
AllRequests == {<<alice, data>>, <<admin, data>>}

Symmetry == Permutations(Threads) \cup Permutations(Objects)

(* What the callers let overlap.                                           *)
ReadersOverlap == {<<"reader", "reader">>}
WritersOverlap == {"reader", "writer"} \X {"reader", "writer"}
AllOverlap     == Kinds \X Kinds
=============================================================================

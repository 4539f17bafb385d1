--------------------------- MODULE MC_PolicyStore ---------------------------
(* PolicyStore on a small instance: a policy rule for the user, one for    *)
(* the role, and the user's membership.                                    *)
EXTENDS PolicyStore, TLC

CONSTANTS alice, editor, admin, data

MCUsers     == {alice}
MCRoles     == {editor}
MCResources == {data}
=============================================================================

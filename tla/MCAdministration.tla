-------------------------- MODULE MCAdministration --------------------------
(* Small instances for TLC of what administrators do: edit the catalog, or *)
(* get in.  The two share no state, so a behaviour is one of either.       *)
EXTENDS Catalog, AdminAccess, TLC

CONSTANTS u1, u2, r1, r2, g1, g2

VARIABLE subject

MCInit ==
  /\ CatalogInit /\ AccessInit
  /\ subject \in {"catalog", "access"}

MCNext ==
  \/ subject = "catalog" /\ CatalogNext /\ UNCHANGED <<subject, accessVars>>
  \/ subject = "access" /\ AccessNext /\ UNCHANGED <<subject, catalogVars>>

MCSpec == MCInit /\ [][MCNext]_<<subject, catalogVars, accessVars>>

(* The names of one side serve the other: r1 and r2 are handlers and       *)
(* logins, g1 and g2 groups and addresses.                                 *)
MCSymmetry ==
  {u @@ r @@ g : u \in Permutations({u1, u2}), r \in Permutations({r1, r2}),
                 g \in Permutations({g1, g2})}
=============================================================================

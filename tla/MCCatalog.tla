------------------------------ MODULE MCCatalog -----------------------------
(***************************************************************************)
(* A catalogue seeded with a coloured domain and a category below it.      *)
(***************************************************************************)
EXTENDS Catalog, CatalogViews, TLC

CONSTANTS i1, i2, t1, t2

MCPlan == << [Node("DOMAIN", 0, "Electricite") EXCEPT !.accent = "electrician"],
             Node("CATEGORY", 1, "Installation electrique") >>
MCColours  == {"electrician"}
MCSymmetry == Permutations(Instances) \cup Permutations(Tabs)
=============================================================================

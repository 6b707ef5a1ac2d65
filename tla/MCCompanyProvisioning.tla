----------------------- MODULE MCCompanyProvisioning -----------------------
(* Instance of CompanyProvisioning for TLC.  Two names differ only in a      *)
(* character that _safe_db_name replaces, so their plain database name is    *)
(* the same.  `farsi` is written in Persian letters only, like the name of   *)
(* the first company: what remains of its database name is "repair".         *)
EXTENDS CompanyProvisioning, TLC

CONSTANTS w1, w2, first, farsi, north_dash, north_space, a1, a2, free, y2027,
          repair, repair_2, repair_north, repair_north_2

Suffixed == (first :> <<repair, repair_2>>)
         @@ (farsi :> <<repair, repair_2>>)
         @@ (north_dash :> <<repair_north, repair_north_2>>)
         @@ (north_space :> <<repair_north, repair_north_2>>)

Symmetry == Permutations({w1, w2})
=============================================================================

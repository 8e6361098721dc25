----------------------------- MODULE MCScanRuns -----------------------------
(***************************************************************************)
(* Small instances of ScanRuns.  h1, h2 and h3 are the hosts of scope s1,  *)
(* h4 is a host nobody authorised; rule k1 excludes h2 and h3 for the      *)
(* scope s1, and the only blackout window is global or belongs to s1.      *)
(***************************************************************************)
EXTENDS ScanRuns, TLC

CONSTANTS r1, r2, h1, h2, h3, h4, s1, k1, w1

MCScopeOf     == [r \in Runs |-> s1]
MCAuthorised  == [s \in Scopes |-> {h1, h2, h3} \cap Targets]
MCRuleCovers  == [k \in Rules |-> {h2, h3} \cap Targets]
MCRuleScope   == [k \in Rules |-> s1]
MCWindowScope == [w \in Windows |-> s1]
MCAllWindows  == [w \in Windows |-> Global]

Symmetry == Permutations(Pollers)

=============================================================================

--------------------------- MODULE MCAdminSession ---------------------------
(***************************************************************************)
(* AdminSession with two accounts that claim one email, of which one is    *)
(* verified; the email leaves the allowlist, and the secret is rotated.    *)
(***************************************************************************)
EXTENDS AdminSession, TLC

CONSTANTS b1, b2, c1, c2, anna, imposter, ea, eb, s1, s2

MCEmailOf == [a \in Accounts |-> ea]
MCConfigs ==
    {[allowed |-> {ea}, secret |-> s1], [allowed |-> {eb}, secret |-> s1],
     [allowed |-> {}, secret |-> s2]}

Alike == Permutations(Browsers)

=============================================================================

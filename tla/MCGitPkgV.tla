----------------------------- MODULE MCGitPkgV -----------------------------
(* Recipes with one and with two git repositories, one revision tagged *)
EXTENDS GitPkgV, TLC

CONSTANTS t1, t2
Two     == {t1, t2}
TwoUrls == <<"a", "b">>
OneUrl  == <<"a">>
Swapped == Permutations(Tasks)
=============================================================================

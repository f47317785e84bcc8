--------------------------- MODULE MCAuthorityNetwork --------------------------
(* Instances of AuthorityNetwork for TLC.                                  *)
EXTENDS AuthorityNetwork

\* not set; too small a share; two of three
SomeShares == {0, 1, 5}
=============================================================================

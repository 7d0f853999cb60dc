----------------------------- MODULE MCAccounts -----------------------------
(***************************************************************************)
(* Accounts with two actors on two servers, one custom profile, and a user *)
(* who switches profiles, keeps a note and edits a PDS or a DID by hand.   *)
(***************************************************************************)
EXTENDS Accounts, TLC

CONSTANTS a1, a2, s1, s2, c1, c2

MCHome    == a1 :> s1 @@ a2 :> s2
MCStem    == {"default", "play", a1, a2}
MCSetting == {<<"note", "set">>, <<"note", "unset">>, <<"pds", s2>>, <<"did", a2>>}
Commands  == Permutations({c1, c2})
=============================================================================

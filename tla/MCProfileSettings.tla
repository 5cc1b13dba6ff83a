------------------------- MODULE MCProfileSettings -------------------------
(* ProfileSettings on an instance for TLC: no command tells one tenant     *)
(* from another, so profiles that differ by a permutation of them are one. *)
EXTENDS ProfileSettings, TLC

TenantSymmetry == Permutations(Tenants)

\* The bound of the search: a profile that --patch has been used on is followed no further once
\* its token, refresh token and user name come from more than one method, URL and tenant.
OneOrigin ==
    patched =>
        \A c, d \in {profile.user, profile.token, profile.refresh} \ {NoCredential} : c = d
=============================================================================

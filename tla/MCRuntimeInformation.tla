------------------------ MODULE MCRuntimeInformation ------------------------
(***************************************************************************)
(* Instances of RuntimeInformation for TLC.                                *)
(***************************************************************************)
EXTENDS RuntimeInformation, TLC

CONSTANTS n1, n2, s1, s2

RHCOS(min) == [rel |-> "rhcos", maj |-> 4, min |-> min]

\* Releases on both sides of a branch of renderOperatingSystem, the newer one
\* with a minor of two digits.
Openshift == <<RHCOS(4), RHCOS(10)>>

\* They are in order, as the theorem on UpgradeIsNotOlder wants them.
ASSUME OpenshiftAscends == Ascending

\* Neither nodes nor SpecialResources are told apart.
Symmetry == Permutations({n1, n2}) \cup Permutations({s1, s2})

=============================================================================

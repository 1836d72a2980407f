------------------------ MODULE MCProfileProvisioner ------------------------
(* Small instances of ProfileProvisioner.                                  *)
EXTENDS ProfileProvisioner

\* absent, below the maximal delay, above it
Headers == {0, 2, 5}
=============================================================================

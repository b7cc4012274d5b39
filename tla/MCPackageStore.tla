---------------------------- MODULE MCPackageStore ----------------------------
EXTENDS PackageStore

\* An admin takes two credits, more than a welcome; a refund gives one.
UseChanges == {-2, 1}
=============================================================================

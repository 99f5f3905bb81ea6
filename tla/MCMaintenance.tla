--------------------------- MODULE MCMaintenance ----------------------------
\* Maintenance with a window and its postponement.
EXTENDS Maintenance

MCWindows == {<<3, 4>>, <<5, 6>>}
MCMarkSets == {{1}, {1, 2}}
=============================================================================

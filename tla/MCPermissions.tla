--------------------------- MODULE MCPermissions ---------------------------
EXTENDS Permissions
MCManifests == SUBSET {"audio", "write", "read", "manage", "post"}
=============================================================================

-------------------------- MODULE MCRestoreHandoff --------------------------
EXTENDS RestoreHandoff
=============================================================================

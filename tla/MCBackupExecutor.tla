-------------------------- MODULE MCBackupExecutor --------------------------
EXTENDS BackupExecutor
=============================================================================

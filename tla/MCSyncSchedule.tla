--------------------------- MODULE MCSyncSchedule ---------------------------
\* SyncSchedule is checked as it stands: its constants have values in the configurations.
EXTENDS SyncSchedule
=============================================================================

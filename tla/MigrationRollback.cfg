SPECIFICATION MigrationSpec
CONSTANTS
 Operated = {"tasks.manage", "announcements.read"}
 KnownTitles = {"RH_MANAGER", "EMPLOYEE"}
 ColdStarts = TRUE
CHECK_DEADLOCK FALSE
INVARIANTS LatestReverts

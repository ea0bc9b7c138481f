SPECIFICATION Spec
CONSTANTS
  ann = ann
  ben = ben
  Users <- MCUsers
  AtBoot <- OneOrder
  MaxLoops = 1
  Requests = {ban1}
  Backups = {backup1, backup2}
INVARIANTS QuietDuringBackup HourGoesOn BannedIsQuiet

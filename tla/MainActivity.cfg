SPECIFICATION Spec
CONSTANTS
  KeyAlias <- MCKeyAlias
  Broadcasts <- MCBroadcasts
  MaxFix = 2
  Recreation = FALSE
INVARIANTS TypeOK PermissionsRespected QuietInBackground OnlyRepeatHangs PayloadIsOneFix BatteryClose TokenNamesDevice
PROPERTIES FixSent

SPECIFICATION Spec
CONSTANTS
  KeyAlias <- MCKeyAlias
  Broadcasts <- MCBroadcasts
  MaxFix = 2
  Recreation = TRUE
INVARIANTS PermissionsRespected

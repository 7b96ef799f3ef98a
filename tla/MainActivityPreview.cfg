SPECIFICATION Spec
CONSTANTS
  KeyAlias <- MCKeyAlias
  Broadcasts <- MCBroadcasts
  MaxFix = 2
  Recreation = FALSE
INVARIANTS ForegroundPreview

SPECIFICATION Spec
CONSTANTS
  Windows = {w1, w2}
  Cameras = {c1, c2}
  Readers = {r1, r2}
  NONE = NONE
  NumCameras = 2
  MaxImages = 2
INVARIANTS TypeOK ReaderLive ImageBudget WindowIsShown NoOrphan FrameUpright JoinsEnd
PROPERTIES SurfaceRespected CameraDeviceFollows CleanCallReturns PreviewFlows

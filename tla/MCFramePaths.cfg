SPECIFICATION PathsSpec
CONSTANTS
  c1 = c1
  Null = Null
  Cameras = {c1}
  capacity = 3
  MaxFrames = 6
  MaxImages = 4
  MaxStarts = 2
INVARIANTS
  PathsTypeOK
  OneOwner
  WholeFrames
  PixelsOfTheFrame
  NoFrameStranded
PROPERTY
  MailboxIsServed
CHECK_DEADLOCK FALSE

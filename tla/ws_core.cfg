\* A handler and another thread; it stops once the handler has left.
CONSTANTS
  h = h
  t1 = t1
  Handler = h
  Senders = {t1}
  None = None
  Scripts <- Talks
  Configs <- Timeouts
  FrameSize = 2
  MaxSends = 1
SPECIFICATION Spec
INVARIANTS MessagesSound CloseHeard
PROPERTIES SilentPeerFound
CHECK_DEADLOCK FALSE

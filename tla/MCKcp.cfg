CONSTANTS
  Lens = {2}
  Nocwnds = {TRUE, FALSE}
  Senders = {"a"}
  mss = 1
  mtu = 2
  WND_RCV = 3
  snd_wnd = 2
  rcv_wnd = 3
  fastresend = 1
  fastlimit = 1
  IKCP_THRESH_INIT = 2
  IKCP_THRESH_MIN = 2
  MaxMsgs = 2
  MaxNet = 2
  MaxAcks = 2
  MaxFaults = 1
SPECIFICATION FairSpec
INVARIANT NothingIsLost
PROPERTY EverythingArrives
CHECK_DEADLOCK FALSE

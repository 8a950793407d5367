SPECIFICATION FairSpec
CONSTANTS
  Socks = {s1, s2}
  Fds = {f1, f2}
  None = None
  MaxBacklog = 1
  MaxDepth = 3
  ReentrantClose = FALSE
PROPERTY EofIsSeen

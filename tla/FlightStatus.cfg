SPECIFICATION FairSpec
CONSTANTS
  Runs = {1, 2}
  Readers = {w1}
  Users = {u1}
  Streams = {s1}
  Period = 1
  Limit = 1
  PollTtl = 1
  ReadTtl = 1
  MaxVersion = 1
  MaxEdits = 1
  MaxDeaths = 1
CONSTRAINT ToldOrShown
INVARIANTS StatusTypeOK ToldForward ToldIsStored
PROPERTY StreamSettles
CHECK_DEADLOCK FALSE

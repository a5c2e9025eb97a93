SPECIFICATION PartSpec
CONSTANTS
  Tasks = {t1, t2}
  NoTask = NoTask
  RetryCounter = 3
  QueueLength = 1
  MaxFragments = 2
  MaxSdus = 2
  Objects = {o1, o2}
  Makers = {m1, m2}
  Writers = {w1}
  Links = {l1, l2}
  NoObject = NoObject
  NoLink = NoLink
  Blocks = 3
SYMMETRY Symmetry
INVARIANTS NoSendWhilePending ReadsConserved PendingCountsQueue OneWorker BuffersConserved ChannelIsOpen
CHECK_DEADLOCK FALSE

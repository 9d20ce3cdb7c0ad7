CONSTANTS
  Cgroups = {c1}
  Cpus = {u1}
  Events = 2
  Interval = 2
  Alive = 1
  Inactive = 2
  Skew = 1
  MapSize = 1
  Word = 1000
  MaxCount = 2
  MaxMsgs = 1
  MaxLag = 0
SPECIFICATION FairSpec
PROPERTY ResumesAlways

SPECIFICATION Spec
CONSTANTS
  Ticket = {k1}
  Pusher = {w1, w2}
  Poller = {"loop", "request"}
  MaxRemote = 2
  MaxPushes = 2
  ItsmConfigs <- MCItsm
  Guid = {g1, g2}
  NoGuid = NoGuid
  Cycle = {"loop", "request"}
  Window = 1
  Ttl = 2
  PageSize = 1
  MaxTime = 3
  CpiConfigs <- MCCpi
  User = {u1, u2}
  Lifetime = 3
  Margin = 1
  TokenTime = 4
  MaxTokens = 2
  DbUser = {d1, d2}
  PoolSize = 3
  DbFaults = 3
  policies = policies
  whole = whole
  part = part
  MasterSwitch = MasterSwitch
  Key = {MasterSwitch, policies}
  On = On
  Off = Off
  Unset = Unset
  Value = {On, Off, whole, part}
  Default <- MCDefault
  Merged <- MCMerged
  Environment = On
  SettingsConfigs <- MCNoFault
  Caller = {c1, c2}
  RetrySettings = {0, 1, 2}
  Entry = {i1, i2, i3, i4}
  Capacity = 2
  EntryTtl = 1
  TableTime = 3
  Services = {"settings"}
CHECK_DEADLOCK FALSE
INVARIANT SwitchedOffMeansNoFix

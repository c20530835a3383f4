CONSTANTS
  c1 = c1
  c2 = c2
  c3 = c3
  d1 = d1
  d2 = d2
  Conns = {c1, c2, c3}
  Devices = {d1, d2}
  DeviceOf <- MCDeviceOf
  Bytes <- MCBytes
  ShardOf <- MCShardOf
  NumShards = 2
  RecentCap = 2
  SampleCap = 2
  MaxSamples = 4
SPECIFICATION Spec
INVARIANTS NoUpdateLost TotalsHangTogether RateNeverWraps SamplesAddUp RecentIsNewest SamplesAreNewest
CHECK_DEADLOCK FALSE

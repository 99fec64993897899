CONSTANTS
  i1 = i1
  i2 = i2
  r1 = r1
  r2 = r2
  r3 = r3
  c1w = c1w
  c2w = c2w
  w = w
  none = none
  Requests <- MCRequests
  Instances <- MCInstances
  Instance <- MCInstance
  Buckets <- MCBuckets
  IpBucket <- MCIpBucket
  WsBucket <- MCWsBucket
  NoBucket = none
  PathLimit <- MCPathLimit
  WsLimit = 1
  Window = 1
  MaxTime = 2
  MaxOutages = 1
CHECK_DEADLOCK FALSE
SPECIFICATION Spec
PROPERTIES SharedWindowResumes

\* One request and one kafka consumer.
CONSTANTS
  k = k
  r = r
  p = p
  t = t
  u = u
  Requests = {q1}
  Streams = {}
  Stores = {"db"}
  Publishers = {t}
  Consumers = {k}
  Broker <- MCKafkaOnly
SPECIFICATION FairSpec
CHECK_DEADLOCK FALSE
PROPERTY ShutdownEnds

SPECIFICATION LiveSpec
CONSTANTS
  Keys = {k1}
  Values = {v1}
  Nodes = {n1, n2}
  Clients = {c1}
  Evictors = {e1}
  NoKey = NoKey  NoValue = NoValue  NoThread = NoThread  Null = Null
  m_head = m_head  m_tail = m_tail  kOutOfListMarker = kOutOfListMarker
  m_max_size = 1  m_timeout = 1  m_evict_type = "kEvictOne"
  kMaxEvictBatch = 2  SizeMod = 8  MaxTime = 2
  MaxCalls = 3
  Batches <- OnePair
  TestMode = FALSE  CacheAside = TRUE  ClearBesideEvict = FALSE
PROPERTY InsertReturns
CHECK_DEADLOCK FALSE

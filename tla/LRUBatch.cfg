SPECIFICATION Spec
CONSTANTS
  Keys = {k1, k2}
  Values = {v1, v2}
  Nodes = {n1, n2, n3}
  Clients = {c1, c2}
  Evictors = {e1}
  NoKey = NoKey  NoValue = NoValue  NoThread = NoThread  Null = Null
  m_head = m_head  m_tail = m_tail  kOutOfListMarker = kOutOfListMarker
  m_max_size = 1  m_timeout = 1  m_evict_type = "kEvictBatch"
  kMaxEvictBatch = 2  SizeMod = 8  MaxTime = 2
  Batches <- AlsoAllKeys
  TestMode = FALSE  CacheAside = FALSE  ClearBesideEvict = FALSE
SYMMETRY Symmetry
PROPERTY EvictionJustified RefinesCacheSpec

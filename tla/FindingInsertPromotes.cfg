SPECIFICATION Spec
CONSTANTS
  Keys = {k1, k2}
  Values = {v1}
  Nodes = {n1, n2, n3}
  Clients = {c1, c2}
  Evictors = {e1, e2}
  NoKey = NoKey  NoValue = NoValue  NoThread = NoThread  Null = Null
  m_head = m_head  m_tail = m_tail  kOutOfListMarker = kOutOfListMarker
  m_max_size = 1  m_timeout = 0  m_evict_type = "kEvictOne"
  kMaxEvictBatch = 2  SizeMod = 8  MaxTime = 0
  Batches <- OnePair
  TestMode = FALSE  CacheAside = FALSE  ClearBesideEvict = FALSE
SYMMETRY Symmetry
PROPERTY InsertPromotes

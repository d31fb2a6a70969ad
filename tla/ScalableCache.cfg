SPECIFICATION LRUSpec
CONSTANTS
  k1 = k1 k2 = k2 k3 = k3
  Keys = {k1, k2, k3}
  NoKey = NoKey
  Clients = {c1, c2}
  m_max_size = 3  m_num_shards = 2  m_timeout = 1
  ShardOf <- Alternating  Batches <- Some
SYMMETRY Symmetry
INVARIANT TypeOK SnapshotRegular SizeRegular LatestStays MgetRegular

SPECIFICATION Spec
CONSTANTS
  w1 = w1
  w2 = w2
  w3 = w3
  podA = podA
  podB = podB
  a1 = a1
  a2 = a2
  d1 = d1
  NoID = NoID
  Worker = {w1, w2, w3}
  Pods = {podA, podB}
  PodOf <- MCPodOf
  Accounts = {a1, a2}
  Distincts = {d1}
  MaxAttempts = 3
  Setups <- MCMixed
INVARIANTS
  CacheNeverStale

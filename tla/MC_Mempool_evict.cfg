SPECIFICATION Spec
CONSTANTS
  a = a
  b = b
  c = c
  Tx = {1, 2, 3, 4, 5, 6, 7, 8, 9, 10, 11}
  Account = {a, b, c}
  from <- MCFrom
  nonce <- MCNonce
  gas_price <- MCGasPrice
  gas_limit <- MCGasLimit
  max_size = 4
  max_per_account = 2
  min_gas_price = 1
  eviction_threshold_percent = 70
INVARIANTS IndexesExact WithinLimits
PROPERTIES EvictionAdmits ImplementsTransactionPool

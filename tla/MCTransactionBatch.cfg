CONSTANTS
  tx_x = tx_x
  tx_y = tx_y
  tx_z = tx_z
  c1 = c1
  c2 = c2
  r1 = r1
  w1 = w1
  Txs = {tx_x, tx_y, tx_z}
  BadSig = {tx_z}
  Clients = {c1, c2}
  Relays = {r1}
  Workers = {w1}
  Results = {"tes", "tem"}
  MaxSubmits = 3
SPECIFICATION Spec
INVARIANTS OneBatch AppliedOnce NotStranded
PROPERTIES ReturnsApplied ClientsAnswered
CHECK_DEADLOCK FALSE

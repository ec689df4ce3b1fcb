SPECIFICATION Spec
CONSTANTS
  Tx <- ChainTx
  Outpoint <- ChainOut
  TxOf <- ChainTxOf
  Spends <- ChainSpends
  Admit <- ChainAdmit
  Retain <- ChainNone
  Names <- ChainNone
  Carries <- ChainNone
  LandsFirst <- ChainTx
  Expired = {"c3"}
  Engine = {e1}
  FaultKinds = {"store", "hook", "manager"}
  LateKinds = {"mark", "undo", "prune", "delete", "link", "applied"}
  Troubles <- FaultOrCrashes
INVARIANTS TypeOK NeverTwoHeads NeverNone
PROPERTY NoResurrection

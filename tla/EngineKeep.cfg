SPECIFICATION Spec
CONSTANTS
  Tx <- KeepTx
  Outpoint <- KeepOut
  TxOf <- KeepTxOf
  Spends <- KeepSpends
  Admit <- KeepAdmit
  Retain <- KeepRetain
  Names <- KeepNone
  Carries <- KeepNone
  LandsFirst <- KeepTx
  Expired = {}
  Engine = {e1}
  FaultKinds = {"store", "hook", "manager"}
  LateKinds = {"mark", "undo", "prune", "delete", "link", "applied"}
  Troubles <- OneFault
INVARIANTS AppliedWhole AppliedIsIndexed HistoryKept

SPECIFICATION Spec
CONSTANTS
  Tx <- TreeTx
  Outpoint <- TreeOut
  TxOf <- TreeTxOf
  Spends <- TreeSpends
  Admit <- TreeAdmit
  Retain <- TreeRetain
  Names <- TreeNone
  Carries <- TreeNone
  LandsFirst <- TreeTx
  Expired = {}
  Engine = {e1}
  FaultKinds = {"store", "hook", "manager"}
  LateKinds = {"mark", "undo", "prune", "delete", "link", "applied"}
  Troubles <- NoTrouble
INVARIANTS HistoryKept

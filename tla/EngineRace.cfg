SPECIFICATION Spec
CONSTANTS
  Tx <- DuoTx
  Outpoint <- DuoOut
  TxOf <- DuoTxOf
  Spends <- DuoSpends
  Admit <- DuoAdmit
  Retain <- DuoNone
  Names <- DuoNone
  Carries <- DuoNone
  LandsFirst <- DuoTx
  Expired = {}
  Engine = {e1, e2}
  FaultKinds = {"store", "hook", "manager"}
  LateKinds = {"mark", "undo", "applied", "delete", "insert"}
  Troubles <- FaultAndCrash
INVARIANTS Accounted
PROPERTY StaysGone

SPECIFICATION FairSpec
CONSTANTS
  Tx <- JoinTx
  Outpoint <- JoinOut
  TxOf <- JoinTxOf
  Spends <- JoinSpends
  Admit <- JoinAdmit
  Retain <- JoinNone
  Names <- JoinSpends
  Carries <- JoinCarries
  LandsFirst <- JoinTx
  Expired = {}
  Engine = {e1}
  FaultKinds = {"store", "hook"}
  LateKinds = {"mark", "undo", "prune", "delete", "link", "applied"}
  Troubles <- OneFault
INVARIANTS NoOvertaking
PROPERTY Converges

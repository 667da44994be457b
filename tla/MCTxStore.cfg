SPECIFICATION Spec
CONSTANTS
  Tx <- MCTx
  TxIn <- MCTxIn
  WalletOut <- MCWalletOut
  Value <- MCValue
  Index <- MCIndex
  Late <- MCLate
  Own <- MCOwn
  Maturity = 2
  MaxHeight = 5
  MaxBlockTxs = 3
  FinalHeight = 1
INVARIANTS
  SpendTracking
  UnspentComplete
  RecordsAgree
  
  
  ReloadAgrees
CHECK_DEADLOCK FALSE

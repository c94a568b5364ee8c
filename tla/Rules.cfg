SPECIFICATION RulesSpec
CONSTANTS
  RowFee <- MCRowFee
  MarketFee <- MCMarketFee
  OtherFee <- MCOtherFee
  MaxAccounts = 4
  MaxCount = 2
  AccountTx = {t1, t2, t3, t4}
  TopNonce = 3
INVARIANTS
  FeesBounded
  DrawPossible
  OncePerAccount
  ReceiverForEachMint
  MintOwnerChecked
  FewUnnoticed
PROPERTIES
  OriginalOutbidAtOnce
  BlockedOnlyByDearer
\* every row of the account may be settled, and all nonces spent
CHECK_DEADLOCK FALSE

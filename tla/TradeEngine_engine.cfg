SPECIFICATION Spec
CONSTANTS
  Tickers = {t1, t2}
  Traded = {t1}
  Bbos <- MCBbos
  FillPrices = {1, 3}
  Qtys = {1, 2}
  TradeQtys = {1}
  MaxPosition = 3
  Threshold <- MCThreshold
  MaxLoss <- MCMaxLoss
  Garbage <- MCGarbage
  Unit <- MCUnit
  Feature_INVALID = NaN
  MaxFills = 4
INVARIANT TypeOK
INVARIANT AccountsAreRight
INVARIANT QuotesFollowTheBook

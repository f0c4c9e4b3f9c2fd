SPECIFICATION QuoteFairSpec
CONSTANTS
  Reports = 2
  Openers = {w1, w2}
  QuoteLimit = 1
PROPERTY QuoteNeededBecomesJob
CHECK_DEADLOCK FALSE

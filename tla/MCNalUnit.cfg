\* Every short payload, written and read again, under fairness.
SPECIFICATION FairSpec
CONSTANTS
  Headers <- MCHeaders
  Payloads <- MCPayloads
  MaxWords = 2
INVARIANTS TypeOK NoStartCodeInside NoTrailingZero ReaderAccepts RoundTrip EmulationsCounted SubstreamsFound
PROPERTY EveryUnitRead

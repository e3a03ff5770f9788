SPECIFICATION CipherSpec
CONSTANTS
  Datas <- MCDatas
  Keys <- MCKeys
INVARIANTS
  LoopInv
  RoundTrip

SPECIFICATION MCFairSpec
CONSTANTS
  Addrs = {1, 2}
  Data = {0, 1}
  Opcodes = {0, 1, 4}
  Pipelined = TRUE
  DropsReady = TRUE
  MaxRequests = 3
  MaxGarbage = 1
INVARIANTS
  MCTypeOK
  AnswersMatch
  ReadsSeeWrites
PROPERTY RequestsAnswered

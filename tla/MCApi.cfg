SPECIFICATION Spec
CONSTANTS
  Tokens <- MCTokens
  Services <- MCServices
  MaxAttempts = 2
INVARIANTS
  ActsAsPrincipal
  AnswersTruthful
  CommandTruthful
  RepeatsIdempotent

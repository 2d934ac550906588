SPECIFICATION FairSpec
CONSTANTS
  Tokens = {t1}
  Verifiers = {v1, v2}
  Controllers = {k1, k2}
  NoToken = NoToken
INVARIANTS TypeOK OutcomeMatchesAnswers OneController OneVerifier
PROPERTIES OutcomeIsFinal EveryWaitEnds

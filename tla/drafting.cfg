\* Two requests that share two models, a cost price known or not.
SPECIFICATION FairSpec
CONSTANTS
  Requests = {r1, r2}
  pro = pro
  flash = flash
  MODELS <- MCModels
  Letters <- MCLetters
  Floors = {0, 200000}
  MOQ = 1000
  Offers <- MCOffers
  MAX_REGEN_ATTEMPTS = 2
INVARIANT TypeOK
 
PROPERTY Answers
CHECK_DEADLOCK FALSE

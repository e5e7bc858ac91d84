\* Answers of every size, up to the limits of 512 and 1232 bytes.
SPECIFICATION ReplySpec
CONSTANTS
  BufLen <- MCBufLen
  Questions <- MCQuestions
  Offers <- MCOffers
  Zones <- MCZones
  Targets <- MCTargets
INVARIANTS
  WithinLimit
  EdnsAnswered
  RowSuffices
  ShortZoneHasSoa

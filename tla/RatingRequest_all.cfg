CONSTANTS
  Workers = {w1, w2}
  Phones = {p1, p2}
  Values = {5}
  NoRating = NoRating
  MaxCrashes = 1
SPECIFICATION FairSpec
INVARIANTS AskedAtMostOnce RatingToldOnce
PROPERTIES OptOutIsFinal AskedInTheEnd

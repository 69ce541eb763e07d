\* Three words, a beam of two, two costs, all three systems.
SPECIFICATION FairSpec
CONSTANTS
  N = 3
  Systems = {"projective", "swap", "link2"}
  SingleRoot = TRUE
  Labels = {"root", "dep"}
  RootLabel = "root"
  NoLabel = "none"
  BeamSize = 2
  MaxCost = 2
INVARIANTS
  BeamSound
  BeamKeepsBest
PROPERTIES
  SearchEnds

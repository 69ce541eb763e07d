\* Six words, two relations, all three systems, a single root.
SPECIFICATION FairSpec
CONSTANTS
  N = 6
  Systems = {"projective", "swap", "link2"}
  SingleRoot = TRUE
  Labels = {"root", "dep"}
  RootLabel = "root"
  NoLabel = "none"
INVARIANTS
  Sound
  NeverStuck
  ResultIsTree
  ResultIsProjective
  ChildrenFollowHeads
  EmbeddingsFresh
PROPERTIES
  ParsingEnds

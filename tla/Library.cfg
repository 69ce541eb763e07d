\* Every component alone, over all of its small inputs.
SPECIFICATION LibrarySpec
CONSTANTS
  Callers <- MCCallers
  MaxCaches = 4
  Null = 0
  JointInputs <- MCJointInputs
  max_sentence_len = 2
  ParseCosts <- MCParseCosts
  sentence_logprob <- MCLogprob
  change_boundary_logprob <- MCLogprob
  InputTexts <- MCInputTexts
  InputFormats = {"horizontal", "vertical", "presegmented"}
  Rules <- MCRules
  MaxRules = 3
  SplitTokens <- MCSplitTokens
  MaxSplit = 2
  Lowercase <- MCLowercase
  Uppercase <- MCUppercase
  Taggers <- MCTaggers
  TagSentences <- MCTagSentences
  Weights = {0, 1}
  UnknownTag = "unknown"
  N = 4
  RootLabel = "root"
  NoLabel = "none"
  StaticLabels = {"root", "dep"}
  DynamicLabels = {"dep"}
  StaticKinds <- MCStaticKinds
  DynamicKinds <- MCDynamicKinds
  SpaceValues <- MCSpaceValues
  CommentValues <- MCCommentValues
  FirstMiscs <- MCFirstMiscs
  FirstComments <- MCFirstComments
  Texts <- MCTexts
  MaxBytes = 6
  Evaluations <- MCEvaluations
  Requests <- MCRequests
  Descriptions <- MCDescriptions
  DefaultNames <- MCDefaultNames
  Corpora <- MCCorpora
  Keys <- MCKeys
  Iterations = 2
  MaxCorrect = 1
  TrainingData <- MCTrainingData
  Alphabet <- MCAlphabet
  MaxLearned = 20
  Letters = 2
  MapKeys <- MCMapKeys
  MapValue <- MCMapValue
  Buckets = 2
  RawTexts <- MCRawTexts
  TokenLists <- MCTokenLists
  CodeOf <- MCCode
  Categorized <- MCCategorized
  Analyses <- MCAnalyses
  Category <- MCCategory
  GuesserData <- MCGuesserData
  suffix_len = 2
  rules_per_suffix = 2
  max_prefixes = 1
  min_prefix_count = 1
INVARIANTS
  CachesOwned
  JointBest
  FormatsRight
  SplitRight
  TaggingBest
  OraclesRight
  FieldsRight
  JsonRight
  EvaluationRight
  ServiceRight
CHECK_DEADLOCK FALSE

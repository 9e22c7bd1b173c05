\* Every pair of result lists of up to two hits, fused either way.
SPECIFICATION Spec
CONSTANTS
  Docs = {"long", "short"}
  Size <- NodesPerDoc
  Docstores <- AtMostOneMissing
  TopK = 2
  Unit = 3660
  Hash <- SameText
  Section <- Part
  Start <- Offset
  Length <- ThreeCharacters
  Located <- NotTheLast
INVARIANTS
  MoreHitsFirst
  EarlierHitsFirst
  NeighboursFetched
  AnswerIsRuns
  FoundIsAnswered
  TextWhole

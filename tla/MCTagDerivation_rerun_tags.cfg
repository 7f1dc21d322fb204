SPECIFICATION Spec
CONSTANTS
  NoLimit = NoLimit
  Products = {1, 2}
  m1 = m1
  m2 = m2
  Models <- ModelsMC
  Kinds = {"style", "feel"}
  VOCABULARY <- VocabularyMC
  Drafts <- DraftsMC
  RUNS = {2}
  LIMITS = {NoLimit}
  PAGE_SIZE = 1
  MaxJobs = 2
  MaxChanges = 1
SYMMETRY SymmetryMC
CHECK_DEADLOCK FALSE
INVARIANT
  FilesAreRerunnable

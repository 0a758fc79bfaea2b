CONSTANTS
  c1 = c1
  c2 = c2
  Clients = {c1, c2}
  Docs <- MCDocs
  Corpus <- MCCorpus
  Terms <- MCTerms
  TagIDs <- MCTagIDs
  StartToken = "<s>"
  EndToken = "</s>"
  UnknownToken = "<UNK>"
  CountThreshold = 2
  Base = 3
  Log <- MCLog
  NGramData <- MCNGramData
  IndexFile <- MCIndexFile
  PostingMetadata <- MCPostingMetadata
  Requests <- MCRequests
  Misspellings <- MCMisspellings
  Completions <- MCCompletions
  Around <- MCAround
  MaxRequests = 2
SPECIFICATION Spec
INVARIANTS TypeOK IDsKept SearchExact SearchSound CompletionExact ServerErrorsExplained
CHECK_DEADLOCK FALSE

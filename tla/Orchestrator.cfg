SPECIFICATION FairSpec
CONSTANTS
  Torrents = {t1}
  None = None
  Capacity = 2
  QueueCapacity = 1
  MaxAdds = 1
  MaxRemovals = 1
  MaxReports = 1
  MaxResumes = 1
  MaxErrors = 1
  MaxResets = 1
  MaxRestarts = 1
CHECK_DEADLOCK FALSE
INVARIANTS
  TypeOK
  RowsMirrorCatalog
  LiveIsVisible
  SourceIsKnown
PROPERTIES
  CompletionIsProcessed

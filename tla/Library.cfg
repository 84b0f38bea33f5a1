SPECIFICATION LibrarySpec
CONSTANTS
  National = 2
  Chunk = 2
  Questions <- MCQuestions
INVARIANTS TimesAreKept RecentAreRecent LookupIsExact BestMatchesFirst StreamIsExact
           CountedAreStreamed TextIsRecovered
CHECK_DEADLOCK FALSE

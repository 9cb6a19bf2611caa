\* A u64 of 19 makes a sum of two parts too large.
CONSTANTS
  Lines <- SomeLines
  MaxLines <- LinesOf
  MaxCount = 19
  NanosPerSecond = 10
SPECIFICATION ScrapeSpec
INVARIANTS ReadingIsWhatTheEngineMeant FailureHasACause SamplesAreWhole LoraIsTheNewest
\* A scrape ends.
CHECK_DEADLOCK FALSE

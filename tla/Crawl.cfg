SPECIFICATION FairCrawlSpec
CONSTANTS
    MaxPages = 3
    MaxTotal = 4
INVARIANTS CrawlTypeOK CrawlIsFaithful
PROPERTIES CrawlEnds
CHECK_DEADLOCK FALSE

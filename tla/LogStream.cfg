SPECIFICATION MCSpec
CONSTANTS
  BufferSize = 2
  MaxEvents = 3
  MaxMatches = 2
  MaxStarts = 2
INVARIANTS FeedConsistent LossFlagged
PROPERTIES ConsumerLives

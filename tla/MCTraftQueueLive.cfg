SPECIFICATION FairSpec
CONSTANTS
  p1 = p1
  p2 = p2
  c1 = c1
  c2 = c2
  Producers <- TwoProducers
  Consumers <- OneConsumer
  MaxItems = 2
  Sizes = {1, 2}
  ScoreLimit = 3
PROPERTIES
  EverythingDelivered

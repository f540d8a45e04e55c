CONSTANTS
  NetName = "all"
  Order <- MCOrder
  Producer <- MCProducer
  Consumers <- MCConsumers
  Answers <- MCAnswers
  NoActor = NoActor
SPECIFICATION FairSpec
INVARIANTS ArrayShared GroupsCorrect ReportCorrect
PROPERTY Ends

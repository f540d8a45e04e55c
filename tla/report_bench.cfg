CONSTANTS
  NetName = "bench"
  Order <- MCOrder
  Producer <- MCProducer
  Consumers <- MCConsumers
  Answers <- MCAnswers
  NoActor = NoActor
SPECIFICATION Spec
INVARIANT NoFireable

SPECIFICATION FairExchange
CONSTANTS
  n1 = n1
  n2 = n2
  n3 = n3
  Node = {n1, n2, n3}
  Nameless = {n1}
  Core = {"set", "long"}
  Message = Message
  Input = {Touch}
  SequenceLimit = 4
  MaxInvokeId = 4
  FirstSequence = {3}
  FirstInvoke = {4}
  Opens <- MCOpens
  MaxMade = 2
  NoRoute = NoRoute
INVARIANTS ExchangeTypeOK RoutesTrue NumbersAscend InvokesApart
PROPERTIES PingAnswered

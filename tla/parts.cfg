SPECIFICATION PartsSpec
CONSTANTS
  Names = {"n"}
  MessageTypes = {"t", "u"}
  KnownTypes = {"t"}
  Contents = {1, 2}
  Unparsable = {2}
  Clients = {"c"}
  MaxCalls = 2
  MaxLocal = 1
  Nodes = {"n"}
  Topics = {"x"}
  Services = {"s"}
  ServiceTypes <- MCServiceTypes
  Threads = {1, 2}
  Slots = {1, 2}
  MaxObjects = 3
  Callers = {1, 2}
  Period = 2
  MaxTime = 4
  Senders = {1, 2}
  MaxSeq = 4
  RecTopics = {"a", "b"}
  Partition <- MCPartition
  Regexes <- MCRegexes
  MaxRequests = 3
  GivenPartitions <- MCPartitions
  GivenNamespaces <- MCNamespaces
  GivenTopics <- MCTopics
  GivenTypes <- MCTypes
  MaxNameLength = 12
  LoggedKeys <- MCLoggedKeys
  MaxMessages = 2
  LastTime = 1
  Peers = {"p"}
  SubTopics = {"x", "y"}
  Askers = {1, 2}
  MaxAsks = 3
  MaxChanges = 3
  RecordNames <- MCRecordNames
  Rates <- MCRates
  Responders = {"a", "b", "c", "d"}
  Here = {"a", "b"}
  TypesOf <- MCTypesOf
  ReturnedBy <- MCReturnedBy
  Known = {"r", "p", "Empty"}
  Typed = {"t1", "t2"}
  Generic = {"g1", "g2"}
  Raw = {"r1", "r2"}
  Throwing = {"g2"}
  TypeOf <- MCTypeOf
  Linked = {"A", "B"}
  Loaded = {"A", "C"}
  Registered = {"h", "m"}
  Files <- MCFiles
  Converted <- MCConverted
  Clock = {"c1", "c2"}
  BaseOf <- MCBaseOf
  Servers = {"s"}
  Times <- MCTimes
  Second = 3
  IntLimit = 2
  MaxSet = 3
  Self = "me"
  Others = {"q"}
  TokenNodes = {"m", "n"}
  TokenTypes = {"t", "u"}
  MaxTokens = 2
  Queries = {"a", "b"}
  Queryables = {"s", "t"}
  QueryKind <- MCQueryKind
  Blocking = {"a"}
  Forgotten = {"b"}
  Link = {"l"}
  LinkOf <- MCLinkOf
  MaxEvents = 1
INVARIANTS ClientsAreTold NodeState RateKept DropsBounded MatchingIsRecorded NamesSurvive
  LogAnswers ListIsOfThisCall HandlersSuit ListedIsMade ClocksFollow BooksAgreeWithTokens
  QueriesSound
CHECK_DEADLOCK FALSE

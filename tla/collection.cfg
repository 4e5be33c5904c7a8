CONSTANTS
  c1 = c1  c2 = c2  s1 = s1  s2 = s2  x = x  y = y  empty = empty  Null = Null
  vendor = vendor  registry = registry  news = news  crm = crm  github = github
  domain = domain  number = number
  Companies <- TwoCompanies
  Sessions <- Transactions
  Mentions <- Records
  Probes = {github}
  Days = {1}
  Texts = {x, y, empty}
  Empty = empty
  Ids = {domain, number}
  Source <- RecordSource
  IdOf <- RecordId
  Kind <- IdKind
  MaxMentions = 2
  MaxFaults = 1
SPECIFICATION Spec
INVARIANTS OneCompanyPerId EmbeddingMatches MirroredOncePerInsert
SYMMETRY Symmetric
CHECK_DEADLOCK FALSE

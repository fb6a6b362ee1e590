SPECIFICATION Spec
INVARIANTS TypeOK OutageIsUnavailable
PROPERTIES SilentLogin ContractSpec
CONSTANTS
  t1 = t1  s1 = s1  s2 = s2
  i1 = i1  i2 = i2  p1 = p1  p2 = p2  d1 = d1  d2 = d2
  joe = joe  jane = jane  f1 = f1  id = id  m1 = m1  m2 = m2  iss1 = iss1  iss2 = iss2
  Identities = {i1, i2}
  Providers = {p1, p2}
  Domains = {d1, d2}
  Accounts = {joe, jane}
  LocalAccounts = {joe}
  Fqdns = {f1}
  ClientId = id
  MapFiles = {m1, m2}
  Issuers = {iss1, iss2}
  None = None
  TokenInfo <- MCTokenInfo
  ProviderOf <- MCProviderOf
  ProviderDomains <- MCProviderDomains
  UserName <- MCUserName
  UserDomain <- MCUserDomain
  SciIssuer <- MCSciIssuer
  SciUser <- MCSciUser
  Minute = 1
  WithSciTokens = TRUE
  MapVersions <- MCMapVersions
  InitialWorlds <- MCInitialWorlds
  GlobusTokens = {t1}
  SciTokens = {s1, s2}
  Configs <- AllConfigs
  MaxTime = 2
  MaxEvents = 2

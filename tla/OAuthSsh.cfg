SPECIFICATION OAuthSshSpec
INVARIANTS ClientTypeOK OutcomeIsOurs OfferedAccountsAccepted
PROPERTIES TokenToOurPromptOnly CommandEnds
CHECK_DEADLOCK FALSE
CONSTANTS
  t1 = t1  i1 = i1  p1 = p1  d1 = d1  f1 = f1  id = id  m1 = m1
  joe = joe  jane = jane  globus = globus
  GlobusTokens = {t1}
  SciTokens = {}
  Identities = {i1}
  Providers = {p1}
  Domains = {d1}
  Accounts = {joe, jane, globus}
  LocalAccounts = {joe, jane}
  Fqdns = {f1}
  ClientId = id
  MapFiles = {m1}
  Issuers = {}
  None = None
  TokenInfo <- OneTokenInfo
  ProviderOf <- OneProviderOf
  ProviderDomains <- OneProviderDomains
  UserName <- OneUserName
  UserDomain <- OneUserDomain
  SciIssuer <- NoSciTokens
  SciUser <- NoSciTokens
  Minute = 1
  WithSciTokens = FALSE
  MapVersions <- MapsOfOne
  InitialWorlds <- OneWorlds
  Configs <- ServiceConfigs
  MaxTime = 2
  MaxEvents = 1
  Token = t1
  LocalUser = joe
  GlobusAccount = globus
  Stacks <- Stack
  MaxCommands = 2

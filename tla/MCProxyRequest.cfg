SPECIFICATION Spec
CONSTANTS
  Calls <- MCCalls
  MaxBatch = 3
  Users = {"all", "limited", "plain"}
  PasswordOf <- MCPasswordOf
  AllowedOf <- MCAllowedOf
  FetchBlocks = {"all", "limited"}
  OverrideOf <- MCOverrideOf
  Auths <- MCAuths
  NoAuth = NoAuth
  Hashed = {"plain"}
  Blank = ""
  NoUser = NoUser
  NoPath = NoPath
INVARIANTS
  TypeOK
  OnlyAllowedIsForwarded
  RefusalFailsAll
  BatchRepliesMatch

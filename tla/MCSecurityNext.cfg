CONSTANTS
  Registry <- MCRegistry
  RequestIdBits = 4
  OcspResponses <- MCOcspResponses
  OcspRequests <- MCOcspRequests
  SignedDatas <- MCSignedDatas
  SnmpMessages <- MCSnmpMessages
  LdapSegments <- MCLdapSegments
  Tickets <- MCTickets
  PlainKeys <- MCPlainKeys
  EncryptedKeys <- MCEncryptedKeys
  Pfxs <- MCPfxs
  Foreign <- MCForeign
  Filters <- MCFilters
SPECIFICATION Spec
INVARIANT NextUpdateIsKept

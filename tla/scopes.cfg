SPECIFICATION Spec
CONSTANTS
  Backends = {b1, b2}
  Roles <- MCRoles
  Setters <- MCSetters
  Databases <- MCDatabases
  Applications <- MCApplications
  TenantTexts <- MCTenantTexts
  Composite = {FALSE, TRUE}
  b1 = b1
  b2 = b2
INVARIANTS ClientNamesSeparated TenantSeparated PolicyGovernsItsName

SPECIFICATION Spec
CONSTANTS
  Methods = {"jwt", "service-principal", "oauth"}
  ProdURLs = {"u1"}
  DevURLs = {"u2"}
  Tenants = {t1, t2}
  Unset = "unset"
SYMMETRY TenantSymmetry
CONSTRAINT OneOrigin
INVARIANTS
  TypeOK
  CredentialsBelong
  RefreshTokenStaysHome
  OtherSettingsKept

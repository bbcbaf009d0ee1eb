SPECIFICATION Spec
CONSTANTS
  r1 = r1
  r2 = r2
  r3 = r3
  t1 = t1
  t2 = t2
  Requests = {r1, r2, r3}
  Tenants = {t1, t2}
  Batch = 2
  LastDay = 1
CONSTANT TenantOf <- SharedTenant
INVARIANT TenantsDoNotClash

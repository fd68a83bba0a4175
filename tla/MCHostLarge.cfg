SPECIFICATION E2eSpec
CONSTANTS
    s1 = s1  s2 = s2  h1 = h1  t1 = t1  u1 = u1  NoPort = NoPort
    app1 = app1  app2 = app2  uid1 = uid1  policy1 = policy1  NoValue = NoValue
    Accepts = {a1, a2}  Conns = {c1}  Ips = {ip}  MaxLc = 3  NoHandler = NoHandler
INVARIANT LargeIsAccepted
CHECK_DEADLOCK FALSE

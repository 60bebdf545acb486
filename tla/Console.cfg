\* Two requests at a time; a cap of one; three offers; 996 is less than one per cent off; a
\* cache of one entry and one tick; two people and four rows; two chat sessions, two seconds.
CONSTANTS
  PromoProcs = {p1, p2}
  Accounts = {a, b}
  DiscountIds = {d1, d2}
  Caps = {1}
  MaxPromoOps = 6
  MaxPromoFaults = 1
  NoDiscount = NoDiscount
  NoAccount = NoAccount
  OfferProcs = {p1, p2}
  OfferIds <- Ids
  ListPrice = 1000
  OfferPrices = {560, 996}
  MaxOfferOps = 4
  MaxOfferFaults = 1
  Tenants = {t1, t2}
  NoTenant = NoTenant
  Subdomains = {k1, k2}
  NoSubdomain = NoSubdomain
  NotFound = NotFound
  NoAnswer = NoAnswer
  Workers = {w1}
  NoWorker = NoWorker
  PortalProcs = {p1, p2}
  Ttl = 1
  QueryTime = 1
  MaxEntries = 1
  MaxTenantOps = 2
  People = {op, e1}
  Operator = op
  NoPerson = NoPerson
  Boards = {b1, b2}
  NoBoard = NoBoard
  MaxRows = 4
  AdminProcs = {p1, p2}
  MaxAdminOps = 5
  ChatUsers = {u1}
  NoUser = NoUser
  SupportProcs = {p1, p2}
  MaxSessions = 2
  MaxMessages = 2
  MaxSeconds = 2
  MaxSupportOps = 4
SPECIFICATION Spec
SYMMETRY Symmetry
INVARIANTS OncePerAccount ProviderFollows ShownIsBilled OneActiveOffer ShownAtOnce AdminRemains NothingMissed
PROPERTIES CapHeld BoundedStaleness
CHECK_DEADLOCK FALSE

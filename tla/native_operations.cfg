\* Two workers; two bookings of overlapping slots, a move and a cancellation;
\* an order with three kinds of write; one crash, dropped connection or edit each.
\* Two revisions of a claim, delivered three times, with two crashes or dropped
\* connections, or a new configuration of the destination.
SPECIFICATION MCSpec
CONSTANTS
  c1 = c1
  c2 = c2
  mv = mv
  cx = cx
  out = out
  w1 = w1
  w2 = w2
  ad = ad
  nt = nt
  oc = oc
  shop = shop
  nobody = nobody
  Creates = {c1, c2}
  Moves = {mv}
  Cancels = {cx}
  Clerks = {w1, w2}
  NoOne = nobody
  Outsiders = {out}
  Starts = {1, 2}
  Length = 1
  Notice = 0
  Leads = {0, 1}
  MaxUpsets = 1
  MaxClock = 1
  Changes = {ad}
  Notes = {nt}
  Cancellations = {oc}
  Workers = {w1, w2}
  Nobody = nobody
  Staff = shop
  MaxVersion = 3
  MaxTroubles = 1
  Couriers = {w1, w2}
  NoCourier = nobody
  Destinations = {1, 2}
  SheetOf <- SameSheet
  MaxRevision = 2
  MaxDeliveries = 3
  MaxMishaps = 2
  MaxRedirects = 1
INVARIANTS NativeTypesOK ReceiptsTruthful SlotGivenOnce NoticesCurrent
PROPERTY WritesInOrder
SYMMETRY Alike
CHECK_DEADLOCK FALSE

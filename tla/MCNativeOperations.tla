-------------------------- MODULE MCNativeOperations --------------------------
(***************************************************************************)
(* The three capabilities that write to a provider for a confirmed action, *)
(* each checked on its own: focus says which one a behaviour is about, and *)
(* the others keep their initial state.                                    *)
(***************************************************************************)
EXTENDS Booking, Orders, ClaimDelivery, TLC

CONSTANTS c1, c2, mv, cx, out, w1, w2, ad, nt, oc, shop, nobody

\* Two configurations of the destination that differ in whom they notify.
SameSheet == <<"queue", "queue">>

VARIABLE focus

MCvars == <<focus, bookingVars, ordersVars, claimVars>>

MCInit ==
  /\ focus \in {"slots", "notices", "orders", "claims"}
  /\ BookingInit
  /\ OrdersInit
  /\ ClaimInit
  /\ focus # "orders" => connector = "woocommerce"
  /\ focus # "notices" => setup = 0
  /\ destination = CHOOSE d \in Destinations : TRUE

\* Slots: two bookings, a move, no message, no cancellation, no configuration.
SlotsNext ==
  /\ focus = "slots"
  /\ BookingWork
  /\ \A a \in Cancels : request'[a] = request[a]
  /\ setup' = setup
  /\ UNCHANGED <<focus, ordersVars, claimVars>>

\* Notices: one appointment at the later start, moved and cancelled, and the
\* messages about it; the calendar is left alone and the lock does not drop.
NoticesNext ==
  /\ focus = "notices"
  /\ BookingNext
  /\ Cardinality({c \in Creates : request'[c].state # "none"}) <= 1
  /\ \A a \in Actions : request'[a].start \in {0, 2}
  /\ touched' = {}
  /\ ~guardLost'
  /\ UNCHANGED <<focus, ordersVars, claimVars>>

\* Orders: any two of the actions; a note of a sheet is a change like any other.
ShopNext ==
  /\ focus = "orders"
  /\ OrdersNext
  /\ Cardinality({a \in OrderActions : ordered'[a].state # "none"}) <= 2
  /\ connector = "google_sheets" => \A a \in Notes : ordered'[a].state = "none"
  /\ UNCHANGED <<focus, bookingVars, claimVars>>

\* Claims: two revisions with a piece of evidence at most; crashes and losses of
\* locks or a new configuration, not both.  The configurations are alike, so it does
\* not matter which is in force first.
DeliveryNext ==
  /\ focus = "claims"
  /\ ClaimNext
  /\ \A r \in Submitted : evidence'[r] <= 1
  /\ 0 \in {mishaps', redirects'}
  /\ UNCHANGED <<focus, bookingVars, ordersVars>>

MCNext == SlotsNext \/ NoticesNext \/ ShopNext \/ DeliveryNext

MCSpec == MCInit /\ [][MCNext]_MCvars

\* The workers are alike, and the same for all three.
Alike == Permutations(Clerks)

\* Every variable has the shape the code gives it.
NativeTypesOK == BookingTypeOK /\ OrdersTypeOK /\ ClaimTypeOK

\* Of each capability: however often a confirmed action is executed, and
\* whatever dies or drops, the provider is written to once at most, and the
\* receipt never says the opposite of what happened there.
ReceiptsTruthful == BookingReceipts /\ OrderReceipts /\ ClaimReceipts

\* What the provider holds only goes forward: an order is not overwritten by an
\* action confirmed on an older version of it, and the row of a claim not by an
\* earlier revision of its case.
WritesInOrder == NoLostUpdate /\ QueueForward
===============================================================================

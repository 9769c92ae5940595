-------------------------------- MODULE Orders --------------------------------
(***************************************************************************)
(* The writes of confirmed actions to one order of a tenant, kept by a     *)
(* WooCommerce shop or in a Google sheet.  Neither offers an atomic        *)
(* compare-and-set: the connector reads the order, compares it with the    *)
(* version the customer confirmed, and writes in a second call.            *)
(*                                                                         *)
(* Two locks serialise the program's own workers: an advisory lock for     *)
(* each action, with a receipt claimed before the write, and the row of    *)
(* the connection, held while the provider is called.  Staff of the shop   *)
(* edit the order without either, connections drop, workers die, and an    *)
(* action may be delivered again.                                          *)
(***************************************************************************)
EXTENDS Naturals, FiniteSets, ProviderCalls

CONSTANTS
  Changes,        \* update_shipping_address and update_contact_information actions
  Notes,          \* add_order_note actions
  Cancellations,  \* request_order_cancellation actions (these need an approval)
  Workers,        \* the workers that execute actions
  Nobody,         \* no worker, or no writer yet
  Staff,          \* whoever edits the order in the shop
  MaxVersion,     \* bound: versions of the order
  MaxTroubles     \* bound: crashes, dropped connections, reconfigurations

OrderActions == Changes \cup Notes \cup Cancellations
OrderOutcomes == {"SUCCEEDED", "REJECTED", "FAILED", "UNCERTAIN"}
Connectors == {"woocommerce", "google_sheets"}

ASSUME OrdersAssumption ==
  /\ Nobody \notin Workers
  /\ Nobody \notin OrderActions
  /\ Staff \notin OrderActions \cup {Nobody}
  /\ MaxVersion \in Nat
  /\ MaxTroubles \in Nat

VARIABLES
  connector,    \* where the order is kept
  order,        \* the order at the provider
  binding,      \* the digest of the configuration in force
  connected,    \* the connection is CONNECTED
  ordered,      \* the action of each request: its state and parameters
  orderReceipt, \* public.order_operations
  actionLock,   \* the advisory lock of an action: who holds it
  lease,        \* the row lock of the connection: who holds it
  leaseLost,    \* a connection holding a lease has dropped
  worker,       \* what each worker is doing
  troubles,     \* crashes, drops and reconfigurations so far
  applied       \* how often the provider applied an action

ordersVars == <<connector, order, binding, connected, ordered, orderReceipt, actionLock, lease,
                leaseLost, worker, troubles, applied>>

NoAction == [state |-> "none", expected |-> 0, binding |-> 0]
Resting == [at |-> "resting", action |-> Nobody, result |-> "none"]

OrdersInit ==
  /\ connector \in Connectors
  /\ order = [version |-> 1, open |-> TRUE, marks |-> {}, cancellation |-> FALSE,
              lastBy |-> Staff]
  /\ binding = 1
  /\ connected = TRUE
  /\ ordered = [a \in OrderActions |-> NoAction]
  /\ orderReceipt = [a \in OrderActions |-> "none"]
  /\ actionLock = [a \in OrderActions |-> Nobody]
  /\ lease = Nobody
  /\ leaseLost = FALSE
  /\ worker = [w \in Workers |-> Resting]
  /\ troubles = 0
  /\ applied = [a \in OrderActions |-> 0]

--------------------------------------------------------------------------------

Becomes(w, record) == worker' = [worker EXCEPT ![w] = record]
Answers(w, result) == Becomes(w, [worker[w] EXCEPT !.at = "answered", !.result = result])
\* With its transaction gone, execute_connector ends in an exception whatever
\* the provider said, which _provider turns into an unknown outcome.
Reports(w, result) == Answers(w, IF lease = w THEN result ELSE "UNCERTAIN")
Trouble == troubles < MaxTroubles /\ troubles' = troubles + 1

\* The marker of the action: in the metadata of an order, in one of its notes,
\* or in the receipts of its row.
Marked(a) == a \in order.marks

\* Mutation: the version of the order is not compared.
WritableUnversioned(a) == a \in Notes \/ order.open

\* write_precondition
Writable(a) ==
  /\ order.version = ordered[a].expected
  /\ a \in Notes \/ order.open

\* Notes of a shop are a resource of their own; everything else, the marker of
\* the action included, is part of what the version is the digest of.
Applied(a) ==
  [order EXCEPT
     !.marks = @ \cup {a},
     !.cancellation = @ \/ a \in Cancellations,
     !.version = IF connector = "woocommerce" /\ a \in Notes THEN @ ELSE @ + 1,
     !.lastBy = IF connector = "woocommerce" /\ a \in Notes THEN @ ELSE a]

\* request_action up to the confirmation: the version is the one just read.
RequestOrder(a) ==
  /\ ordered[a].state = "none"
  /\ connected
  /\ ordered' = [ordered EXCEPT ![a] = [state |-> "confirmed", expected |-> order.version,
                                        binding |-> binding]]
  /\ UNCHANGED <<connector, order, binding, connected, orderReceipt, actionLock, lease,
                 leaseLost, worker, troubles, applied>>

\* revalidate: the configuration must be the one of the request; an approved
\* cancellation is compared with the order again.
RevalidateOrder(w, a) ==
  /\ worker[w] = Resting
  /\ ordered[a].state = "confirmed"
  /\ IF /\ ordered[a].binding = binding
        /\ a \in Cancellations => connected /\ order.version = ordered[a].expected
       THEN Becomes(w, [Resting EXCEPT !.at = "permitted", !.action = a]) /\ UNCHANGED ordered
       ELSE ordered' = [ordered EXCEPT ![a].state = "settled"] /\ UNCHANGED worker
  /\ UNCHANGED <<connector, order, binding, connected, orderReceipt, actionLock, lease,
                 leaseLost, troubles, applied>>

\* claim_or_replay finds nothing to replay.
Unclaimed(a) == orderReceipt[a] = "none"

\* execute_authorized up to its first commit: the lock of the action, and the
\* claim or the answer of an earlier execution.
ClaimOrReplay(w) ==
  LET a == worker[w].action IN
  /\ worker[w].at = "permitted"
  /\ actionLock[a] = Nobody
  /\ IF Unclaimed(a)
       THEN /\ orderReceipt' = [orderReceipt EXCEPT ![a] = "CLAIMED"]
            /\ actionLock' = [actionLock EXCEPT ![a] = w]
            /\ Becomes(w, [worker[w] EXCEPT !.at = "claimed"])
       ELSE /\ Becomes(w, [worker[w] EXCEPT !.at = "returning",
                 !.result = IF orderReceipt[a] = "CLAIMED" THEN "UNCERTAIN"
                            ELSE orderReceipt[a]])
            /\ UNCHANGED <<orderReceipt, actionLock>>
  /\ UNCHANGED <<connector, order, binding, connected, ordered, lease, leaseLost, troubles,
                 applied>>

\* _perform: the configuration is compared once more, and execute_connector
\* takes the row of the connection.
Lease(w) ==
  LET a == worker[w].action IN
  /\ worker[w].at = "claimed"
  /\ \/ /\ ordered[a].binding # binding
        /\ Answers(w, "REJECTED")
        /\ UNCHANGED lease
     \/ /\ ordered[a].binding = binding
        /\ lease = Nobody
        /\ IF connected
             THEN lease' = w /\ Becomes(w, [worker[w] EXCEPT !.at = "leasing"])
             ELSE Answers(w, "REJECTED") /\ UNCHANGED lease
  /\ UNCHANGED <<connector, order, binding, connected, ordered, orderReceipt, actionLock,
                 leaseLost, troubles, applied>>

\* The connector reads the order: the marker of this action means that it has
\* been applied; otherwise the order must be as it was confirmed.  The read
\* itself may fail.
ReadOrder(w) ==
  LET a == worker[w].action IN
  /\ worker[w].at = "leasing"
  /\ \/ /\ Marked(a)
        /\ Reports(w, "SUCCEEDED")
        /\ lease' = IF lease = w THEN Nobody ELSE lease
     \/ /\ ~Marked(a)
        /\ Writable(a)
        /\ a \in Cancellations => ~order.cancellation
        /\ Becomes(w, [worker[w] EXCEPT !.at = "read"])
        /\ UNCHANGED lease
     \/ /\ ~Marked(a)
        /\ ~Writable(a) \/ (a \in Cancellations /\ order.cancellation)
        /\ Reports(w, "REJECTED")
        /\ lease' = IF lease = w THEN Nobody ELSE lease
     \/ /\ \E result \in {"FAILED", "REJECTED"} : Reports(w, result)
        /\ lease' = IF lease = w THEN Nobody ELSE lease
  /\ UNCHANGED <<connector, order, binding, connected, ordered, orderReceipt, actionLock,
                 leaseLost, troubles, applied>>

\* What the connector of the order makes of a call.
OrderResult(fault) == IF connector = "woocommerce" THEN WooResult(fault) ELSE SheetResult(fault)

\* The write, as it ends.  A row of a sheet is compared with what was read once
\* more just before.
PutOrder(w) ==
  LET a == worker[w].action IN
  /\ worker[w].at = "read"
  /\ order.version < MaxVersion
  /\ \E call \in WriteCalls :
       /\ call.done /\ connector = "google_sheets" => order.version = ordered[a].expected
       /\ order' = IF call.done THEN Applied(a) ELSE order
       /\ applied' = [applied EXCEPT ![a] = @ + IF call.done THEN 1 ELSE 0]
       /\ Reports(w, OrderResult(call.fault))
  /\ lease' = IF lease = w THEN Nobody ELSE lease
  /\ UNCHANGED <<connector, binding, connected, ordered, orderReceipt, actionLock, leaseLost,
                 troubles>>

\* The database connection that holds the lease drops while the provider is
\* being called.
LeaseDrops(w) ==
  /\ lease = w
  /\ Trouble
  /\ lease' = Nobody
  /\ leaseLost' = TRUE
  /\ UNCHANGED <<connector, order, binding, connected, ordered, orderReceipt, actionLock, worker,
                 applied>>

\* The second transaction, and with it the end of the lock of the action.
FinishOrder(w) ==
  LET a == worker[w].action IN
  /\ worker[w].at = "answered"
  /\ orderReceipt' = [orderReceipt EXCEPT ![a] = worker[w].result]
  /\ actionLock' = [actionLock EXCEPT ![a] = IF @ = w THEN Nobody ELSE @]
  /\ Becomes(w, [worker[w] EXCEPT !.at = "returning"])
  /\ UNCHANGED <<connector, order, binding, connected, ordered, lease, leaseLost, troubles,
                 applied>>

ReturnOrder(w) ==
  /\ worker[w].at = "returning"
  /\ ordered' = [ordered EXCEPT ![worker[w].action].state = "settled"]
  /\ Becomes(w, Resting)
  /\ UNCHANGED <<connector, order, binding, connected, orderReceipt, actionLock, lease,
                 leaseLost, troubles, applied>>

\* The worker dies, and its transactions with it.
WorkerDies(w) ==
  /\ worker[w] # Resting
  /\ Trouble
  /\ actionLock' = [a \in OrderActions |-> IF actionLock[a] = w THEN Nobody ELSE actionLock[a]]
  /\ lease' = IF lease = w THEN Nobody ELSE lease
  /\ Becomes(w, Resting)
  /\ UNCHANGED <<connector, order, binding, connected, ordered, orderReceipt, leaseLost, applied>>

\* Only the connection with the lock of the action drops.
ActionLockDrops(w) ==
  /\ worker[w].action # Nobody
  /\ actionLock[worker[w].action] = w
  /\ Trouble
  /\ actionLock' = [actionLock EXCEPT ![worker[w].action] = Nobody]
  /\ UNCHANGED <<connector, order, binding, connected, ordered, orderReceipt, lease, leaseLost,
                 worker, applied>>

\* The shop changes the order, or ships it.
StaffEdits ==
  /\ order.version < MaxVersion
  /\ \E open \in {order.open, FALSE} :
       order' = [order EXCEPT !.version = @ + 1, !.open = open, !.lastBy = Staff]
  /\ UNCHANGED <<connector, binding, connected, ordered, orderReceipt, actionLock, lease,
                 leaseLost, worker, troubles, applied>>

\* The administrator changes the binding of the tenant, or the connection is
\* found without authority; neither while the connection is leased.
Reconfigure ==
  /\ Trouble
  /\ \/ binding' = binding + 1 /\ UNCHANGED connected
     \/ lease = Nobody /\ connected' = FALSE /\ UNCHANGED binding
  /\ UNCHANGED <<connector, order, ordered, orderReceipt, actionLock, lease, leaseLost, worker,
                 applied>>

OrdersNext ==
  \/ \E a \in OrderActions : RequestOrder(a)
  \/ \E w \in Workers, a \in OrderActions : RevalidateOrder(w, a)
  \/ \E w \in Workers : ClaimOrReplay(w)
  \/ \E w \in Workers : Lease(w)
  \/ \E w \in Workers : ReadOrder(w)
  \/ \E w \in Workers : PutOrder(w)
  \/ \E w \in Workers : FinishOrder(w)
  \/ \E w \in Workers : ReturnOrder(w)
  \/ \E w \in Workers : LeaseDrops(w)
  \/ \E w \in Workers : WorkerDies(w)
  \/ \E w \in Workers : ActionLockDrops(w)
  \/ StaffEdits
  \/ Reconfigure

OrdersSpec == OrdersInit /\ [][OrdersNext]_ordersVars

--------------------------------------------------------------------------------
\* Properties.

\* The shape of the order, of the receipts and of the workers.
OrdersTypeOK ==
  /\ connector \in Connectors
  /\ order.version \in Nat
  /\ order.marks \subseteq OrderActions
  /\ order.lastBy \in OrderActions \cup {Staff}
  /\ binding \in Nat
  /\ ordered \in [OrderActions -> [state: {"none", "confirmed", "settled"}, expected: Nat,
                                   binding: Nat]]
  /\ orderReceipt \in [OrderActions -> {"none", "CLAIMED"} \cup OrderOutcomes]
  /\ actionLock \in [OrderActions -> Workers \cup {Nobody}]
  /\ lease \in Workers \cup {Nobody}
  /\ applied \in [OrderActions -> Nat]

\* Whatever is delivered again, dies or drops, an action is applied to the
\* order once at most, and its receipt never says the opposite of what happened.
OrderReceipts ==
  \A a \in OrderActions :
    /\ applied[a] <= 1
    /\ orderReceipt[a] = "SUCCEEDED" => applied[a] = 1
    /\ orderReceipt[a] \in {"REJECTED", "FAILED"} => applied[a] = 0

\* Two actions confirmed on the same version of the order do not both write it:
\* only staff of the shop, or a lost lease, comes between what was confirmed
\* and what is overwritten.
NoLostUpdate ==
  [][\A a \in OrderActions : applied'[a] > applied[a] =>
       \/ order.version = ordered[a].expected
       \/ order.lastBy = Staff
       \/ leaseLost]_ordersVars
==============================================================================

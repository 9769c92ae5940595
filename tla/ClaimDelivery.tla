---------------------------- MODULE ClaimDelivery ----------------------------
(***************************************************************************)
(* What happens to a claim after the customer confirmed it: each submitted *)
(* revision of the case is delivered to the people who decide, as evidence *)
(* files in Drive, a row of a queue in Sheets and a notice by Gmail.       *)
(*                                                                         *)
(* A delivery is a series of effects, each with a durable claim before the *)
(* call and a receipt after it, under an advisory lock for the destination *)
(* and another for the effect.  Submissions are delivered again, revisions *)
(* overtake each other, workers die and connections with a lock drop.      *)
(*                                                                         *)
(* Every key of a lock and of the ledger holds the digest of the whole     *)
(* configuration of the destination.  Under another configuration, be it   *)
(* only another address for the notice, everything is delivered anew, and  *)
(* nothing keeps a worker under the old one and one under the new apart.   *)
(*                                                                         *)
(* The case itself is in CaseLifecycle.  Nobody edits the sheet by hand,   *)
(* and the connector's read, comparison and write of a row are one step:   *)
(* one call, under the lock of the row of the connection.                  *)
(***************************************************************************)
EXTENDS Naturals, FiniteSets, ProviderCalls

CONSTANTS
  Couriers,      \* the workers that execute submissions
  NoCourier,     \* no worker
  Destinations,  \* the configurations, by their digest
  SheetOf,       \* the sheet of each; others may have the same
  MaxRevision,   \* bound: revisions of the case
  MaxDeliveries, \* bound: times submissions are executed
  MaxMishaps,    \* bound: crashes and dropped locks
  MaxRedirects   \* bound: new configurations

ASSUME ClaimDeliveryAssumption ==
  /\ NoCourier \notin Couriers
  /\ SheetOf = [d \in Destinations |-> SheetOf[d]]
  /\ MaxRevision \in Nat \ {0}
  /\ MaxDeliveries \in Nat
  /\ MaxMishaps \in Nat
  /\ MaxRedirects \in Nat

Submitted == 1 .. MaxRevision
Products == {"drive", "sheets", "gmail"}

\* What is done once under a configuration: a piece of evidence, or the row or
\* the notice of a revision.
Effects == Products \X Destinations \X Submitted
\* A revision delivered under a configuration, and the row that then holds it.
Deliverable == Destinations \X Submitted

\* Two successes write nothing, as their data say: SUPERSEDED, REUSED.
EffectOutcomes == {"SUCCEEDED", "REUSED", "SUPERSEDED", "REJECTED", "FAILED", "UNCERTAIN"}

VARIABLES
  revision,    \* the revision of the case
  evidence,    \* the pieces of evidence each revision has
  destination, \* the configuration in force
  submissions, \* what was confirmed: a revision, under the configuration of its request
  ledger,      \* public.case_delivery_operations
  guards,      \* the advisory locks of the destinations and of the effects
  courier,     \* what each worker is doing
  queueRows,   \* the rows of the case in the sheets, by what they hold
  performed,   \* how often the provider performed an effect
  deliveries,  \* executions so far
  mishaps,     \* crashes and dropped locks so far
  redirects,   \* new configurations so far
  unguarded    \* sheets where two workers may have been without a lock in common

claimVars == <<revision, evidence, destination, submissions, ledger, guards, courier, queueRows,
               performed, deliveries, mishaps, redirects, unguarded>>

NoEffect == <<"none", 0, 0>>
AtRest == [at |-> "rest", revision |-> 0, effect |-> NoEffect, result |-> "none", seen |-> {}]

\* What can be locked: the case at a destination, and each effect.
Root(d) == <<"root", d, 0>>
Lockable == Effects \cup {Root(d) : d \in Destinations}

ClaimInit ==
  /\ revision = 0
  /\ evidence = [r \in Submitted |-> 0]
  /\ destination \in Destinations
  /\ submissions = {}
  /\ ledger = [e \in Effects |-> "none"]
  /\ guards = [k \in Lockable |-> NoCourier]
  /\ courier = [w \in Couriers |-> AtRest]
  /\ queueRows = {}
  /\ performed = [e \in Effects |-> 0]
  /\ deliveries = 0
  /\ mishaps = 0
  /\ redirects = 0
  /\ unguarded = {}

--------------------------------------------------------------------------------

Turns(w, record) == courier' = [courier EXCEPT ![w] = record]
Ends(w, result) == Turns(w, [courier[w] EXCEPT !.at = "answered", !.result = result])
Free(w) == [k \in Lockable |-> IF guards[k] = w THEN NoCourier ELSE guards[k]]
Mishap == mishaps < MaxMishaps /\ mishaps' = mishaps + 1

\* The rows of the case that a worker under a configuration sees.
RowsOf(d) == {x \in queueRows : SheetOf[x[1]] = SheetOf[d]}

\* The pieces of evidence in order, then the row, then the notice.
Piece(d, r, n) == IF n <= evidence[r] THEN <<"drive", d, n>> ELSE <<"sheets", d, r>>
Following(r, e) ==
  IF e[1] = "drive" THEN Piece(e[2], r, e[3] + 1) ELSE <<"gmail", e[2], r>>

\* A worker goes on to an effect: evidence is exported before it is claimed.
SetsOut(w, r, e) ==
  Turns(w, [AtRest EXCEPT !.at = IF e[1] = "drive" THEN "exporting" ELSE "claiming",
                          !.revision = r, !.effect = e])

\* A customer confirms a submission under the configuration in force.  It is
\* the next revision of the case, perhaps with a further piece of evidence; or
\* it says again what the case says, and shares its revision.
Submit ==
  /\ \/ /\ revision < MaxRevision
        /\ revision' = revision + 1
        /\ \E more \in {0, 1} :
             evidence' = [evidence EXCEPT ![revision + 1] =
                            more + IF revision = 0 THEN 0 ELSE evidence[revision]]
     \/ /\ revision > 0
        /\ UNCHANGED <<revision, evidence>>
  /\ submissions' = submissions \cup {<<destination, revision'>>}
  /\ UNCHANGED <<destination, ledger, guards, courier, queueRows, performed, deliveries, mishaps,
                 redirects, unguarded>>

\* revalidate, supports and perform: the submission was made under the
\* configuration in force.
Permitted(d) == d = destination

\* Another worker is at the same sheet, under another configuration.
Beside(w, d) ==
  \E v \in Couriers \ {w} :
    courier[v] # AtRest /\ courier[v].effect[2] # d /\ SheetOf[courier[v].effect[2]] = SheetOf[d]

\* perform, as far as the lock of the case at this destination; without its
\* permit it is refused and changes nothing.  The worker keeps this
\* configuration, whatever becomes of it.
Perform(w, x) ==
  /\ courier[w] = AtRest
  /\ x \in submissions
  /\ Permitted(x[1])
  /\ deliveries < MaxDeliveries
  /\ deliveries' = deliveries + 1
  /\ guards[Root(x[1])] = NoCourier
  /\ guards' = [guards EXCEPT ![Root(x[1])] = w]
  /\ SetsOut(w, x[2], Piece(x[1], x[2], 1))
  /\ unguarded' = IF Beside(w, x[1]) THEN unguarded \cup {SheetOf[x[1]]} ELSE unguarded
  /\ UNCHANGED <<revision, evidence, destination, submissions, ledger, queueRows, performed,
                 mishaps, redirects>>

\* export_evidence: the file, or the end of the delivery.
Export(w) ==
  /\ courier[w].at = "exporting"
  /\ \/ Turns(w, [courier[w] EXCEPT !.at = "claiming"]) /\ UNCHANGED guards
     \/ Turns(w, AtRest) /\ guards' = Free(w)
  /\ UNCHANGED <<revision, evidence, destination, submissions, ledger, queueRows, performed,
                 deliveries, mishaps, redirects, unguarded>>

\* Mutation: a claim that was left behind is taken over.
UnseenOrLeft(e) == ledger[e] \in {"none", "CLAIMED"}

\* once finds no row for the effect.
Unseen(e) == ledger[e] = "none"

\* once, up to its first commit: a claim that was left behind is unknown, a
\* receipt is replayed.  The digests that once compares never differ: what is
\* written follows from the effect, a file being stored under its digest and a
\* revision standing for one content.
ClaimEffect(w) ==
  LET e == courier[w].effect IN
  /\ courier[w].at = "claiming"
  /\ guards[e] = NoCourier
  /\ guards' = [guards EXCEPT ![e] = w]
  /\ \/ /\ Unseen(e)
        /\ ledger' = [ledger EXCEPT ![e] = "CLAIMED"]
        /\ Turns(w, [courier[w] EXCEPT !.at = IF e[1] = "sheets" THEN "reading" ELSE "calling"])
     \/ /\ ~Unseen(e) /\ ledger[e] = "CLAIMED"
        /\ Ends(w, "UNCERTAIN")
        /\ UNCHANGED ledger
     \/ /\ ~Unseen(e) /\ ledger[e] # "CLAIMED"
        /\ Ends(w, ledger[e])
        /\ UNCHANGED ledger
  /\ UNCHANGED <<revision, evidence, destination, submissions, queueRows, performed, deliveries,
                 mishaps, redirects, unguarded>>

\* What a worker delivers.
Held(w) == <<courier[w].effect[2], courier[w].revision>>

\* Mutation: the row of a later revision is written over.
NeverOvertaken(w) == FALSE

\* _queue: the row of the case is of a later revision.
Overtaken(w) == \E x \in RowsOf(Held(w)[1]) : x[2] > Held(w)[2]

\* Two rows of one revision have the same values, unless they name the files
\* of different uploads.
SameValues(x, y) == x[2] = y[2] /\ (x[1] = y[1] \/ evidence[x[2]] = 0)

\* _queue: the row of the case has these values, or others of this revision.
Standing(w) == \E x \in RowsOf(Held(w)[1]) : SameValues(x, Held(w))
Conflicting(w) == \E x \in RowsOf(Held(w)[1]) : x[2] = Held(w)[2] /\ ~SameValues(x, Held(w))

\* _queue up to the write.  The scan may fail, and it never chooses between two
\* rows.
ReadQueue(w) ==
  LET rows == RowsOf(Held(w)[1])
      single == Cardinality(rows) <= 1
  IN
  /\ courier[w].at = "reading"
  /\ \/ Ends(w, "FAILED")
     \/ ~single /\ Ends(w, "REJECTED")
     \/ single /\ Overtaken(w) /\ Ends(w, "SUPERSEDED")
     \/ single /\ Standing(w) /\ Ends(w, "REUSED")
     \/ single /\ Conflicting(w) /\ Ends(w, "REJECTED")
     \/ /\ single /\ ~Overtaken(w) /\ ~Standing(w) /\ ~Conflicting(w)
        /\ Turns(w, [courier[w] EXCEPT !.at = "calling", !.seen = rows])
  /\ UNCHANGED <<revision, evidence, destination, submissions, ledger, guards, queueRows,
                 performed, deliveries, mishaps, redirects, unguarded>>

\* The write of one effect: a row that was there is updated, only if it still
\* is what was read; otherwise one is appended.
Recorded(w) ==
  IF courier[w].effect[1] = "sheets" THEN (queueRows \ courier[w].seen) \cup {Held(w)}
  ELSE queueRows

\* The call, as it ends.
CallOut(w) ==
  LET e == courier[w].effect IN
  /\ courier[w].at = "calling"
  /\ \E call \in WriteCalls :
       /\ call.done /\ e[1] = "sheets" => courier[w].seen \subseteq queueRows
       /\ performed' = [performed EXCEPT ![e] = @ + IF call.done THEN 1 ELSE 0]
       /\ queueRows' = IF call.done THEN Recorded(w) ELSE queueRows
       /\ Ends(w, GoogleResult(call.fault))
  /\ UNCHANGED <<revision, evidence, destination, submissions, ledger, guards, deliveries,
                 mishaps, redirects, unguarded>>

\* deliver goes on after a success that was not overtaken, up to the notice.
GoesOn(w) == courier[w].result \in {"SUCCEEDED", "REUSED"} /\ courier[w].effect[1] # "gmail"

\* _finish, which changes only a row that is still a claim, and the way on.
FinishEffect(w) ==
  LET e == courier[w].effect
      r == courier[w].revision
  IN
  /\ courier[w].at = "answered"
  /\ ledger' = [ledger EXCEPT ![e] = IF @ = "CLAIMED" THEN courier[w].result ELSE @]
  /\ \/ /\ GoesOn(w)
        /\ SetsOut(w, r, Following(r, e))
        /\ guards' = [guards EXCEPT ![e] = IF @ = w THEN NoCourier ELSE @]
     \/ ~GoesOn(w) /\ Turns(w, AtRest) /\ guards' = Free(w)
  /\ UNCHANGED <<revision, evidence, destination, submissions, queueRows, performed, deliveries,
                 mishaps, redirects, unguarded>>

CourierDies(w) ==
  /\ courier[w] # AtRest
  /\ Mishap
  /\ Turns(w, AtRest)
  /\ guards' = Free(w)
  /\ UNCHANGED <<revision, evidence, destination, submissions, ledger, queueRows, performed,
                 deliveries, redirects, unguarded>>

\* The connections that hold locks of a worker drop, all or some; it goes on.
LockDrops(w) ==
  /\ Mishap
  /\ \E lost \in SUBSET {k \in Lockable : guards[k] = w} \ {{}} :
       /\ guards' = [k \in Lockable |-> IF k \in lost THEN NoCourier ELSE guards[k]]
       /\ unguarded' = unguarded \cup {SheetOf[d] : d \in {c \in Destinations : Root(c) \in lost}}
  /\ UNCHANGED <<revision, evidence, destination, submissions, ledger, courier, queueRows,
                 performed, deliveries, redirects>>

\* The administrator configures another destination, or an earlier one again.
Redirect ==
  /\ redirects < MaxRedirects
  /\ redirects' = redirects + 1
  /\ destination' \in Destinations \ {destination}
  /\ UNCHANGED <<revision, evidence, submissions, ledger, guards, courier, queueRows, performed,
                 deliveries, mishaps, unguarded>>

ClaimNext ==
  \/ Submit
  \/ \E w \in Couriers, x \in Deliverable : Perform(w, x)
  \/ \E w \in Couriers : Export(w)
  \/ \E w \in Couriers : ClaimEffect(w)
  \/ \E w \in Couriers : ReadQueue(w)
  \/ \E w \in Couriers : CallOut(w)
  \/ \E w \in Couriers : FinishEffect(w)
  \/ \E w \in Couriers : CourierDies(w)
  \/ \E w \in Couriers : LockDrops(w)
  \/ Redirect

ClaimSpec == ClaimInit /\ [][ClaimNext]_claimVars

--------------------------------------------------------------------------------
\* Properties.

\* The shape of the ledger, the locks and the workers.
ClaimTypeOK ==
  /\ revision \in 0 .. MaxRevision
  /\ evidence \in [Submitted -> 0 .. MaxRevision]
  /\ destination \in Destinations
  /\ submissions \subseteq Deliverable
  /\ ledger \in [Effects -> {"none", "CLAIMED"} \cup EffectOutcomes]
  /\ guards \in [Lockable -> Couriers \cup {NoCourier}]
  /\ queueRows \subseteq Deliverable
  /\ performed \in [Effects -> Nat]
  /\ \A w \in Couriers : courier[w].effect \in Effects \cup {NoEffect}

\* The row of a revision was written to a sheet, under one configuration or
\* another.
RowWritten(sheet, r) ==
  \E d \in Destinations : SheetOf[d] = sheet /\ performed[<<"sheets", d, r>>] = 1

\* Whatever is executed again, dies or loses its locks, under one configuration
\* no effect is performed twice; its receipt never denies one that was
\* performed, and one that claims success stands for it, or for a row that was
\* written to that sheet: of this revision, or of the later one that overtook
\* it.  Nobody is told of a revision before its row was written to the sheet of
\* the configuration that names the recipient.
ClaimReceipts ==
  \A e \in Effects :
    /\ performed[e] <= 1
    /\ ledger[e] \in {"REJECTED", "FAILED", "SUPERSEDED", "REUSED"} => performed[e] = 0
    /\ ledger[e] = "SUCCEEDED" => performed[e] = 1
    /\ ledger[e] = "REUSED" => RowWritten(SheetOf[e[2]], e[3])
    /\ ledger[e] = "SUPERSEDED" => \E r \in Submitted : r > e[3] /\ RowWritten(SheetOf[e[2]], r)
    /\ e[1] = "gmail" /\ performed[e] = 1 => RowWritten(SheetOf[e[2]], e[3])

\* The case has one row in a sheet, which never goes back to an earlier
\* revision in whatever order the submissions are executed and whatever is
\* configured in between, as long as no lock of a destination with that sheet
\* is lost and no two configurations with that sheet are delivered at once.
QueueForward ==
  [][\A d \in Destinations :
       \/ SheetOf[d] \in unguarded
       \/ /\ Cardinality(RowsOf(d)') <= 1
          /\ \A x \in RowsOf(d), y \in RowsOf(d)' : x[2] <= y[2]]_claimVars
==============================================================================

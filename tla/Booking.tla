------------------------------- MODULE Booking -------------------------------
(***************************************************************************)
(* Appointments of one tenant: the calendar at Google, the rows of         *)
(* public.appointments, the operations that write both, and the messages   *)
(* about an appointment that are prepared later (MessagePipeline sends).   *)
(*                                                                         *)
(* A write takes the advisory lock of the tenant, claims a receipt in a    *)
(* transaction of its own, looks at the calendar, writes to it and records *)
(* the outcome in another transaction.  The worker may die between any two *)
(* of these, the connection that holds the lock may drop, an operation may *)
(* be delivered again, and people edit the calendar by hand.               *)
(***************************************************************************)
EXTENDS Naturals, FiniteSets, ProviderCalls

CONSTANTS
  Creates,    \* create_appointment actions; the id of an appointment is derived from its action
  Moves,      \* reschedule_appointment actions
  Cancels,    \* request_cancellation actions (these need an approval)
  Clerks,     \* workers that execute actions and notification jobs
  NoOne,      \* nobody
  Outsiders,  \* calendar events of other people
  Starts,     \* instants the working hours offer
  Length,     \* how long an appointment keeps its professional busy
  Notice,     \* how long ahead an appointment must be made
  Leads,      \* values the administrator gives to reminder_minutes_before
  MaxUpsets,  \* bound: crashes, dropped connections and changes by hand, together
  MaxClock    \* bound: the clock

Actions == Creates \cup Moves \cup Cancels
Events == Creates \cup Outsiders
Revisions == 1 .. (1 + Cardinality(Moves \cup Cancels))
Kinds == {"confirmation", "reminder", "cancellation_request"}
Outcomes == {"SUCCEEDED", "REJECTED", "FAILED", "UNCERTAIN"}

ASSUME BookingAssumption ==
  /\ Creates \cap (Moves \cup Cancels) = {}
  /\ Moves \cap Cancels = {}
  /\ Events \cap Outsiders = Outsiders
  /\ Creates \cap Outsiders = {}
  /\ NoOne \notin Clerks
  /\ IsFiniteSet(Moves \cup Cancels)
  /\ Starts \subseteq Nat
  /\ Leads \subseteq Nat
  /\ Length \in Nat \ {0}
  /\ Notice \in Nat
  /\ MaxUpsets \in Nat
  /\ MaxClock \in Nat

VARIABLES
  clock,       \* minutes, coarsely
  setup,       \* the configuration; its digest is itself
  upsets,      \* crashes, dropped connections and changes by hand so far
  event,       \* the calendar
  touched,     \* events changed or made by hand
  appointment, \* public.appointments
  request,     \* the action and the parameters it was requested with
  receipt,     \* public.appointment_operations
  guard,       \* who holds the advisory lock of the tenant
  guardLost,   \* a connection holding it has dropped
  clerk,       \* what each worker is doing
  job,         \* outbox jobs of topic appointments.notify
  message,     \* outbound messages about appointments
  writes       \* how often an action changed the calendar

bookingVars == <<clock, setup, upsets, event, touched, appointment, request, receipt,
                 guard, guardLost, clerk, job, message, writes>>

NoEvent == [status |-> "absent", start |-> 0, etag |-> 0]
NoRow == [status |-> "ABSENT", start |-> 0, etag |-> 0, revision |-> 0]
NoRequest == [state |-> "none", target |-> NoOne, start |-> 0, setup |-> 0]
Idle == [at |-> "idle", action |-> NoOne, result |-> "none", seen |-> NoRow, job |-> NoOne]
Keys == [appointment: Creates, revision: Revisions, kind: Kinds]

BookingInit ==
  /\ clock = 0
  /\ setup \in Leads
  /\ upsets = 0
  /\ event = [e \in Events |-> NoEvent]
  /\ touched = {}
  /\ appointment = [c \in Creates |-> NoRow]
  /\ request = [a \in Actions |-> NoRequest]
  /\ receipt = [a \in Actions |-> "none"]
  /\ guard = NoOne
  /\ guardLost = FALSE
  /\ clerk = [w \in Clerks |-> Idle]
  /\ job = {}
  /\ message = [k \in Keys |-> "none"]
  /\ writes = [a \in Actions |-> 0]

--------------------------------------------------------------------------------
\* The pieces of an execution.

\* is_free: two half-open busy intervals meet.
Overlap(s, t) == s < t + Length /\ t < s + Length

\* candidate_slot: inside the working hours and far enough ahead.
Bookable(s) == s \in Starts /\ clock + Notice <= s

Live(e) == event[e].status = "confirmed"

\* Mutation: only the calendar is asked, not the rows.
InCalendar(s, own) == \E e \in Events \ {own} : Live(e) /\ Overlap(s, event[e].start)

\* _occupied: the calendar and the rows, apart from the appointment itself.
Occupied(s, own) ==
  \/ \E e \in Events \ {own} : Live(e) /\ Overlap(s, event[e].start)
  \/ \E c \in Creates \ {own} : appointment[c] # NoRow /\ Overlap(s, appointment[c].start)

\* The appointment a request is about.
Subject(a) == IF a \in Creates THEN a ELSE request[a].target

\* What _perform asks of an existing appointment before it goes on.
Unchanged(c) ==
  /\ appointment[c].status = "BOOKED"
  /\ Live(c)
  /\ event[c].etag = appointment[c].etag

\* The appointment as it is after the operation succeeded.
Outcome(a, row, etag) ==
  CASE a \in Creates -> [status |-> "BOOKED", start |-> request[a].start, etag |-> etag,
                         revision |-> 1]
    [] a \in Moves -> [row EXCEPT !.start = request[a].start, !.etag = etag,
                                  !.revision = @ + 1]
    [] OTHER -> [row EXCEPT !.status = "CANCELLATION_REQUESTED", !.revision = @ + 1]

\* _queue_communications: the jobs of the new revision.  The result of an
\* approved cancellation is told by the approval coordinator.
Announced(a, c, row) ==
  IF row.status = "BOOKED"
    THEN {[appointment |-> c, revision |-> row.revision, kind |-> "confirmation", due |-> clock]}
         \cup {[appointment |-> c, revision |-> row.revision, kind |-> "reminder",
                due |-> row.start - setup] :
                 x \in {y \in {0} : clock + setup < row.start}}
    ELSE {}

\* Mutation: messages about earlier revisions are left to be sent.
LeftPrepared(c, revision) == message

\* The messages of the revision before this one that have not been sent.
Superseded(c, revision) ==
  [k \in Keys |-> IF /\ k.appointment = c
                     /\ k.revision + 1 = revision
                     /\ message[k] = "PREPARED"
                    THEN "BLOCKED" ELSE message[k]]

Goes(w, record) == clerk' = [clerk EXCEPT ![w] = record]
Releases(w) == guard' = IF guard = w THEN NoOne ELSE guard

--------------------------------------------------------------------------------
\* Actions.

\* request_action, up to the confirmation of exactly these parameters.
Request(a) ==
  /\ request[a].state = "none"
  /\ \E c \in Creates, s \in Starts :
       /\ a \in Creates => c = a
       /\ a \notin Creates => appointment[c] # NoRow
       /\ request' = [request EXCEPT ![a] =
            [state |-> "confirmed", target |-> c, start |-> s, setup |-> setup]]
  /\ UNCHANGED <<clock, setup, upsets, event, touched, appointment, receipt, guard, guardLost,
                 clerk, job, message, writes>>

\* revalidate, directly before the operation is executed: an approved
\* cancellation is compared with the calendar and the configuration again.
Revalidate(w, a) ==
  /\ clerk[w] = Idle
  /\ request[a].state = "confirmed"
  /\ IF a \in Cancels /\ ~(Unchanged(Subject(a)) /\ request[a].setup = setup)
       THEN request' = [request EXCEPT ![a].state = "settled"] /\ UNCHANGED clerk
       ELSE Goes(w, [Idle EXCEPT !.at = "permitted", !.action = a]) /\ UNCHANGED request
  /\ UNCHANGED <<clock, setup, upsets, event, touched, appointment, receipt, guard, guardLost,
                 job, message, writes>>

\* Mutation: a claim that was left behind is handed out as it is.
ReplayedRaw(r) == r

\* What a receipt found at the start is answered with.
Replayed(r) == IF r = "CLAIMED" THEN "UNCERTAIN" ELSE r

\* Mutation: a claim left behind by a crash is taken over.
ClaimAgain(w) ==
  LET a == clerk[w].action IN
  /\ clerk[w].at = "permitted"
  /\ guard = NoOne
  /\ receipt[a] \in {"none", "CLAIMED"}
  /\ guard' = w
  /\ receipt' = [receipt EXCEPT ![a] = "CLAIMED"]
  /\ Goes(w, [clerk[w] EXCEPT !.at = "claimed"])
  /\ UNCHANGED <<clock, setup, upsets, event, touched, appointment, request, guardLost,
                 job, message, writes>>

\* resource_lock, and the first transaction under it: an earlier receipt is the
\* answer, otherwise the operation is claimed, with the configuration of now.
Claim(w) ==
  LET a == clerk[w].action IN
  /\ clerk[w].at = "permitted"
  /\ guard = NoOne
  /\ IF receipt[a] # "none"
       THEN /\ Goes(w, [clerk[w] EXCEPT !.at = "returning", !.result = Replayed(receipt[a])])
            /\ UNCHANGED <<receipt, guard>>
       ELSE /\ receipt' = [receipt EXCEPT ![a] = "CLAIMED"]
            /\ guard' = w
            /\ Goes(w, IF request[a].setup = setup
                         THEN [clerk[w] EXCEPT !.at = "claimed"]
                         ELSE [clerk[w] EXCEPT !.at = "answered", !.result = "REJECTED"])
  /\ UNCHANGED <<clock, setup, upsets, event, touched, appointment, request, guardLost, job,
                 message, writes>>

\* _perform up to the call that writes: the appointment as it was read is
\* compared with the calendar, and the slot looked for in both.
Inspect(w) ==
  LET a == clerk[w].action
      c == Subject(a)
      fits == Bookable(request[a].start) /\ ~Occupied(request[a].start, c)
  IN
  /\ clerk[w].at = "claimed"
  /\ Goes(w,
       IF (a \notin Creates => Unchanged(c)) /\ (a \notin Cancels => fits)
         THEN [clerk[w] EXCEPT !.at = IF a \in Cancels THEN "answered" ELSE "checked",
                               !.result = IF a \in Cancels THEN "SUCCEEDED" ELSE "none",
                               !.seen = appointment[c]]
         ELSE [clerk[w] EXCEPT !.at = "answered", !.result = "REJECTED"])
  /\ UNCHANGED <<clock, setup, upsets, event, touched, appointment, request, receipt, guard,
                 guardLost, job, message, writes>>

\* calendar.create_event: the id of the event is derived from the action, so
\* an event that is already there is the one this action made.
\* calendar.reschedule_event: If-Match with the etag of the row.
Written(w) ==
  LET a == clerk[w].action
      c == Subject(a)
  IN  IF a \in Creates
        THEN [event EXCEPT ![c] = IF @ = NoEvent
               THEN [status |-> "confirmed", start |-> request[a].start, etag |-> 1] ELSE @]
        ELSE [event EXCEPT ![c].start = request[a].start, ![c].etag = @ + 1]

Accepted(w) ==
  LET a == clerk[w].action IN
  a \in Creates \/ (Live(Subject(a)) /\ event[Subject(a)].etag = clerk[w].seen.etag)

\* The call to Google, as it ends.  An etag that no longer fits is a client
\* error.
Write(w) ==
  LET a == clerk[w].action IN
  /\ clerk[w].at = "checked"
  /\ \E call \in WriteCalls :
       /\ call.done => Accepted(w)
       /\ event' = IF call.done THEN Written(w) ELSE event
       /\ writes' = [writes EXCEPT ![a] = @ + IF call.done THEN 1 ELSE 0]
       /\ Goes(w, [clerk[w] EXCEPT
            !.at = "answered",
            !.result = GoogleResult(call.fault),
            !.seen = IF call.fault = "none"
                       THEN Outcome(a, @, Written(w)[Subject(a)].etag) ELSE @])
  /\ UNCHANGED <<clock, setup, upsets, touched, appointment, request, receipt, guard, guardLost,
                 job, message>>

\* The row to save: a cancellation only changes the row.
Saved(w) ==
  LET a == clerk[w].action
  IN  IF a \in Cancels THEN Outcome(a, clerk[w].seen, 0) ELSE clerk[w].seen

\* The second transaction: row, communications and receipt together.
Finish(w) ==
  LET a == clerk[w].action
      c == Subject(a)
  IN
  /\ clerk[w].at = "answered"
  /\ IF clerk[w].result = "SUCCEEDED"
       THEN /\ appointment' = [appointment EXCEPT ![c] = Saved(w)]
            /\ message' = Superseded(c, Saved(w).revision)
            /\ job' = job \cup Announced(a, c, Saved(w))
       ELSE UNCHANGED <<appointment, message, job>>
  /\ receipt' = [receipt EXCEPT ![a] = clerk[w].result]
  /\ Releases(w)
  /\ Goes(w, [clerk[w] EXCEPT !.at = "returning", !.seen = NoRow])
  /\ UNCHANGED <<clock, setup, upsets, event, touched, request, guardLost, writes>>

\* The transaction of the action commits with the result.
Return(w) ==
  /\ clerk[w].at = "returning"
  /\ request' = [request EXCEPT ![clerk[w].action].state = "settled"]
  /\ Goes(w, Idle)
  /\ UNCHANGED <<clock, setup, upsets, event, touched, appointment, receipt, guard, guardLost,
                 job, message, writes>>

\* The worker dies; its transactions end, and with them the lock.
ClerkDies(w) ==
  /\ clerk[w] # Idle
  /\ upsets < MaxUpsets
  /\ upsets' = upsets + 1
  /\ Goes(w, Idle)
  /\ Releases(w)
  /\ UNCHANGED <<clock, setup, event, touched, appointment, request, receipt, guardLost,
                 job, message, writes>>

\* Only the connection that holds the lock drops; the worker goes on.
GuardDrops(w) ==
  /\ guard = w
  /\ upsets < MaxUpsets
  /\ upsets' = upsets + 1
  /\ guard' = NoOne
  /\ guardLost' = TRUE
  /\ UNCHANGED <<clock, setup, event, touched, appointment, request, receipt, clerk, job,
                 message, writes>>

--------------------------------------------------------------------------------
\* Messages.

Key(j) == [appointment |-> j.appointment, revision |-> j.revision, kind |-> j.kind]

\* prepare_appointment_notification up to its first commit: a job of an old
\* revision, or a reminder that has become pointless, ends here; one that is
\* early under the present configuration is put off under a key of its own.
Notify(w, j) ==
  LET c == j.appointment
      row == appointment[c]
      due == row.start - setup
  IN
  /\ clerk[w] = Idle
  /\ guard = NoOne
  /\ j \in job
  /\ j.due <= clock
  /\ \/ /\ \/ j.revision # row.revision
           \/ j.kind = "reminder" /\ (row.status # "BOOKED" \/ row.start <= clock)
        /\ job' = job \ {j}
        /\ UNCHANGED <<clerk, guard>>
     \/ /\ j.revision = row.revision
        /\ j.kind = "reminder" /\ row.status = "BOOKED" /\ clock < due
        /\ job' = (job \ {j}) \cup {[j EXCEPT !.due = due]}
        /\ UNCHANGED <<clerk, guard>>
     \/ /\ j.revision = row.revision
        /\ j.kind = "reminder" => (row.status = "BOOKED" /\ row.start > clock /\ due <= clock)
        /\ guard' = w
        /\ Goes(w, [Idle EXCEPT !.at = "noticing", !.job = j])
        /\ UNCHANGED job
  /\ UNCHANGED <<clock, setup, upsets, event, touched, appointment, request, receipt, guardLost,
                 message, writes>>

\* prepare_proactive, still under the lock; or the conversation is with a
\* human and nobody is told.
Prepare(w) ==
  LET j == clerk[w].job IN
  /\ clerk[w].at = "noticing"
  /\ job' = job \ {j}
  /\ \E attended \in BOOLEAN :
       message' = IF ~attended /\ message[Key(j)] = "none"
                    THEN [message EXCEPT ![Key(j)] = "PREPARED"] ELSE message
  /\ Releases(w)
  /\ Goes(w, Idle)
  /\ UNCHANGED <<clock, setup, upsets, event, touched, appointment, request, receipt, guardLost,
                 writes>>

--------------------------------------------------------------------------------
\* The environment.

\* configure: under the lock as well; calendar, resource and zone are fixed.
Configure(lead) ==
  /\ guard = NoOne
  /\ upsets < MaxUpsets
  /\ setup # lead
  /\ setup' = lead
  /\ upsets' = upsets + 1
  /\ UNCHANGED <<clock, event, touched, appointment, request, receipt, guard, guardLost, clerk,
                 job, message, writes>>

\* Somebody makes, moves or cancels an event in the calendar.
EditCalendar(e) ==
  /\ upsets < MaxUpsets
  /\ upsets' = upsets + 1
  /\ touched' = touched \cup {e}
  /\ \/ /\ e \in Outsiders \/ Live(e)
        /\ \E s \in Starts :
             event' = [event EXCEPT ![e] = [status |-> "confirmed", start |-> s,
                                            etag |-> event[e].etag + 1]]
     \/ /\ Live(e)
        /\ event' = [event EXCEPT ![e].status = "cancelled", ![e].etag = @ + 1]
  /\ UNCHANGED <<clock, setup, appointment, request, receipt, guard, guardLost, clerk, job,
                 message, writes>>

BookingTick ==
  /\ clock < MaxClock
  /\ clock' = clock + 1
  /\ UNCHANGED <<setup, upsets, event, touched, appointment, request, receipt, guard, guardLost,
                 clerk, job, message, writes>>

\* Everything but the messages.
BookingWork ==
  \/ \E a \in Actions : Request(a)
  \/ \E w \in Clerks, a \in Actions : Revalidate(w, a)
  \/ \E w \in Clerks : Claim(w)
  \/ \E w \in Clerks : Inspect(w)
  \/ \E w \in Clerks : Write(w)
  \/ \E w \in Clerks : Finish(w)
  \/ \E w \in Clerks : Return(w)
  \/ \E w \in Clerks : ClerkDies(w)
  \/ \E w \in Clerks : GuardDrops(w)
  \/ \E lead \in Leads : Configure(lead)
  \/ \E e \in Events : EditCalendar(e)

BookingMessages ==
  \/ \E w \in Clerks, j \in job : Notify(w, j)
  \/ \E w \in Clerks : Prepare(w)
  \/ BookingTick

BookingNext == BookingWork \/ BookingMessages

BookingSpec == BookingInit /\ [][BookingNext]_bookingVars

--------------------------------------------------------------------------------
\* Properties.

\* The rows, the receipts and the workers have the shape the code gives them.
BookingTypeOK ==
  /\ clock \in Nat
  /\ setup \in Leads
  /\ upsets \in Nat
  /\ event \in [Events -> [status: {"absent", "confirmed", "cancelled"}, start: Nat, etag: Nat]]
  /\ touched \subseteq Events
  /\ appointment \in [Creates -> [status: {"ABSENT", "BOOKED", "CANCELLATION_REQUESTED"},
                                  start: Nat, etag: Nat, revision: Nat]]
  /\ receipt \in [Actions -> {"none", "CLAIMED"} \cup Outcomes]
  /\ \A w \in Clerks : clerk[w].result \in {"none"} \cup Outcomes
  /\ guard \in Clerks \cup {NoOne}
  /\ guardLost \in BOOLEAN
  /\ message \in [Keys -> {"none", "PREPARED", "BLOCKED"}]
  /\ writes \in [Actions -> Nat]

\* No slot is given to two appointments: while no connection dropped with the
\* lock, neither two rows nor two events made by the program overlap.  Crashes,
\* unanswered writes and edits by hand must not lead there.
SlotGivenOnce ==
  ~guardLost =>
    \A c, d \in Creates : c # d =>
      /\ appointment[c] # NoRow /\ appointment[d] # NoRow
           => ~Overlap(appointment[c].start, appointment[d].start)
      /\ Live(c) /\ Live(d) /\ {c, d} \cap touched = {}
           => ~Overlap(event[c].start, event[d].start)

\* However often an action is delivered, and whatever dies or drops, it writes
\* to the calendar once at most; a receipt that says so stands for a write, and
\* one that says refused or failed for none.
BookingReceipts ==
  \A a \in Creates \cup Moves :
    /\ writes[a] <= 1
    /\ receipt[a] = "SUCCEEDED" => writes[a] = 1
    /\ receipt[a] \in {"REJECTED", "FAILED"} => writes[a] = 0

\* A message that may still be sent is about the appointment as it stands,
\* and a reminder about one nobody asked to cancel.
NoticesCurrent ==
  ~guardLost =>
    \A k \in Keys : message[k] = "PREPARED" =>
      /\ k.revision = appointment[k.appointment].revision
      /\ k.kind = "reminder" => appointment[k.appointment].status = "BOOKED"
==============================================================================

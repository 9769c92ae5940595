----------------------- MODULE NativeOperations_proofs ------------------------
(***************************************************************************)
(* What the capabilities that write to a provider guarantee for any number *)
(* of actions, workers and revisions: appointments in a calendar, orders   *)
(* in a shop, claims with the people who decide them.  In all three an     *)
(* action is claimed, performed and receipted in separate commits; the     *)
(* inductive invariants say who holds the claim, what a worker may still   *)
(* believe, and what the provider has seen.                                *)
(***************************************************************************)
EXTENDS MCNativeOperations, FiniteSetTheorems, TLAPS

--------------------------------------------------------------------------------
\* Appointments: SlotGivenOnce, NoticesCurrent and BookingReceipts.

\* An event of the calendar.
EventRows == [status: {"absent", "confirmed", "cancelled"}, start: Nat, etag: Nat]

\* A row of public.appointments: what its columns can hold.
AppointmentRows ==
  [status: {"ABSENT", "BOOKED", "CANCELLATION_REQUESTED"}, start: Nat, etag: Nat, revision: Nat]

\* A confirmed action on an appointment, as public.action_intents has it.
ActionRequests ==
  [state: {"none", "confirmed", "settled"}, target: Creates \cup {NoOne}, start: Nat, setup: Nat]

\* A job of the queue for a confirmation or a reminder.
NoticeJobs == [appointment: Creates, revision: Nat, kind: Kinds, due: Nat]

\* A worker that executes an action.
Executing == {"permitted", "claimed", "checked", "answered", "returning"}

\* What a worker of the calendar remembers.
ClerkStates ==
  [at: {"idle", "noticing"} \cup Executing, action: Actions \cup {NoOne},
   result: {"none"} \cup Outcomes, seen: AppointmentRows, job: NoticeJobs \cup {NoOne}]

\* The types.
BookingShape ==
  /\ clock \in Nat
  /\ setup \in Leads
  /\ upsets \in Nat
  /\ event \in [Events -> EventRows]
  /\ touched \subseteq Events
  /\ appointment \in [Creates -> AppointmentRows]
  /\ request \in [Actions -> ActionRequests]
  /\ receipt \in [Actions -> {"none", "CLAIMED"} \cup Outcomes]
  /\ guard \in Clerks \cup {NoOne}
  /\ guardLost \in BOOLEAN
  /\ clerk \in [Clerks -> ClerkStates]
  /\ job \subseteq NoticeJobs
  /\ message \in [Keys -> {"none", "PREPARED", "BLOCKED"}]
  /\ writes \in [Actions -> Nat]

\* An action somebody requested.
Placed(a) ==
  /\ a \in Actions
  /\ request[a].state # "none"

\* What a worker remembers fits what it is at: a requested action, a job, a row that
\* was booked, an outcome.
ClerkSound(record) ==
  /\ record.at \in Executing => Placed(record.action)
  /\ record.at = "noticing" => record.job \in NoticeJobs
  /\ record.at = "checked" =>
       /\ record.action \notin Cancels
       /\ record.action \in Moves => record.seen.status = "BOOKED"
  /\ record.at = "answered" =>
       /\ record.result # "none"
       /\ record.result = "SUCCEEDED" =>
            /\ record.seen.status = "BOOKED"
            /\ record.action \in Creates => record.seen.revision = 1

\* A requested move or cancellation is of an appointment that has a row, and every
\* worker remembers what it should.
WorkPlaced ==
  /\ \A a \in Actions : request[a].state # "none" =>
       /\ request[a].target \in Creates
       /\ a \in Creates => request[a].target = a
       /\ a \notin Creates => appointment[request[a].target] # NoRow
  /\ \A w \in Clerks : ClerkSound(clerk[w])

\* A worker between the claim of an action and its receipt.
Working(w) == clerk[w].at \in {"claimed", "checked", "answered"}

\* A worker that works on an action holds the claim on it, alone.
ClaimsHeld ==
  \A w \in Clerks : Working(w) =>
    /\ receipt[clerk[w].action] = "CLAIMED"
    /\ \A v \in Clerks : v # w /\ Working(v) => clerk[v].action # clerk[w].action

\* What the calendar was asked to do agrees with the receipt, and before it with what
\* the worker knows.
WritesCounted ==
  /\ \A a \in Actions : receipt[a] = "none" => writes[a] = 0
  /\ \A w \in Clerks :
       LET a == clerk[w].action IN
       /\ clerk[w].at \in {"claimed", "checked"} => writes[a] = 0
       /\ clerk[w].at = "answered" =>
            /\ writes[a] <= 1
            /\ clerk[w].result \in {"REJECTED", "FAILED"} => writes[a] = 0
            /\ clerk[w].result = "SUCCEEDED" /\ a \notin Cancels => writes[a] = 1

\* The advisory lock of the calendar, while its connection stands.
GuardHeld ==
  ~guardLost => \A w \in Clerks : Working(w) \/ clerk[w].at = "noticing" => guard = w

\* A row exists only for a booking whose receipt says that it succeeded.
RowsReceipted ==
  \A c \in Creates : receipt[c] # "SUCCEEDED" => appointment[c] = NoRow

\* No other row overlaps the time.
FreeOfRows(s, c) ==
  \A d \in Creates \ {c} : appointment[d] # NoRow => ~Overlap(s, appointment[d].start)

\* No other event of ours overlaps the time, except where somebody changed it by hand.
FreeOfEvents(s, c) ==
  \A d \in Creates \ {c} : Live(d) /\ d \notin touched => ~Overlap(s, event[d].start)

\* What was found free under the lock is still free, and the row that was read still
\* current.
CheckedStands(w) ==
  LET a == clerk[w].action
      c == Subject(clerk[w].action)
  IN  clerk[w].at = "checked" =>
        /\ FreeOfRows(request[a].start, c)
        /\ FreeOfEvents(request[a].start, c)
        /\ a \in Moves => clerk[w].seen = appointment[c]

\* What was written is still free of the other rows, and of the row that was read.
AnsweredStands(w) ==
  LET a == clerk[w].action
      c == Subject(clerk[w].action)
  IN  clerk[w].at = "answered" /\ clerk[w].result = "SUCCEEDED" =>
        /\ FreeOfRows(clerk[w].seen.start, c)
        /\ a \in Moves => clerk[w].seen.revision = appointment[c].revision + 1
        /\ a \in Cancels => clerk[w].seen = appointment[c]

\* The message is about the revision the row has.
NoticingStands(w) ==
  LET row == appointment[clerk[w].job.appointment]
  IN  clerk[w].at = "noticing" =>
        /\ clerk[w].job.revision = row.revision
        /\ clerk[w].job.kind = "reminder" => row.status = "BOOKED"

\* While the lock stands, so does everything a worker read under it.
SeenStands ==
  ~guardLost =>
    \A w \in Clerks : CheckedStands(w) /\ AnsweredStands(w) /\ NoticingStands(w)

\* The inductive invariant of the calendar.
BookingInv ==
  /\ BookingShape /\ WorkPlaced
  /\ ClaimsHeld /\ WritesCounted /\ BookingReceipts
  /\ GuardHeld /\ RowsReceipted /\ SeenStands
  /\ SlotGivenOnce /\ NoticesCurrent

\* The constants, as Booking assumes them.
LEMMA BookingConstants ==
  /\ Creates \cap (Moves \cup Cancels) = {} /\ Moves \cap Cancels = {}
  /\ NoOne \notin Clerks /\ Starts \subseteq Nat /\ Leads \subseteq Nat
  /\ Length \in Nat \ {0} /\ Notice \in Nat
BY BookingAssumption

\* What the outcome of a call to the calendar says of the event: a rejection and a
\* failure leave it alone.
LEMMA WriteCallFacts ==
  ASSUME NEW call \in WriteCalls
  PROVE  /\ call.done \in BOOLEAN
         /\ GoogleResult(call.fault) \in Outcomes
         /\ call.fault = "none" => call.done
         /\ GoogleResult(call.fault) \in {"REJECTED", "FAILED"} => ~call.done
         /\ GoogleResult(call.fault) = "SUCCEEDED" <=> call.fault = "none"
<1>1. PICK f \in CallFaults : \E d \in Done(f) : call = [fault |-> f, done |-> d]
  BY DEF WriteCalls
<1>2. call.fault = f /\ call.done \in Done(f)
  BY <1>1
<1> QED BY <1>2 DEF CallFaults, Done, GoogleResult, Unknown, Outcomes

\* The initial rows are rows.
LEMMA RowsAreRows ==
  /\ NoEvent \in EventRows /\ NoRow \in AppointmentRows /\ NoRequest \in ActionRequests
  /\ Idle \in ClerkStates
  /\ Idle.at = "idle" /\ NoRequest.state = "none"
BY DEF NoEvent, EventRows, NoRow, AppointmentRows, NoRequest, ActionRequests, Idle, ClerkStates

\* A step of a worker changes that worker only.
LEMMA ClerkGoes ==
  ASSUME BookingShape, NEW w \in Clerks, NEW record \in ClerkStates, Goes(w, record)
  PROVE  /\ clerk' \in [Clerks -> ClerkStates]
         /\ clerk'[w] = record
         /\ \A v \in Clerks \ {w} : clerk'[v] = clerk[v]
BY DEF BookingShape, Goes

\* A worker that goes on with a result and a row.
Updated(state, at, r, row) == [state EXCEPT !.at = at, !.result = r, !.seen = row]

\* It remembers the result and the row, and still the action.
LEMMA UpdatedState ==
  ASSUME NEW state \in ClerkStates, NEW at \in Executing, NEW r \in {"none"} \cup Outcomes,
         NEW row \in AppointmentRows
  PROVE  /\ Updated(state, at, r, row) \in ClerkStates
         /\ Updated(state, at, r, row).at = at
         /\ Updated(state, at, r, row).action = state.action
         /\ Updated(state, at, r, row).result = r
         /\ Updated(state, at, r, row).seen = row
BY DEF Updated, ClerkStates

\* What it remembers then.
Remembered(record, state, at, r, row) ==
  /\ record \in ClerkStates
  /\ record.at = at /\ record.action = state.action
  /\ record.result = r /\ record.seen = row

\* The same, to be cited of a state that is an expression.
LEMMA UpdatedRemembers ==
  \A state \in ClerkStates, at \in Executing, r \in {"none"} \cup Outcomes,
     row \in AppointmentRows :
    Remembered(Updated(state, at, r, row), state, at, r, row)
BY UpdatedState DEF Remembered

\* The appointment of a requested action is one.
LEMMA SubjectPlaced ==
  ASSUME WorkPlaced, NEW a, Placed(a)
  PROVE  /\ Subject(a) = request[a].target
         /\ Subject(a) \in Creates /\ Subject(a) \in Events
         /\ a \in Creates => Subject(a) = a
         /\ a \notin Creates => appointment[Subject(a)] # NoRow
BY DEF WorkPlaced, Placed, Subject, Events

\* The row of a finished action is a row; without a success it is the old one.
LEMMA OutcomeRow ==
  ASSUME BookingShape, NEW a \in Actions, NEW row \in AppointmentRows, NEW etag \in Nat
  PROVE  /\ Outcome(a, row, etag) \in AppointmentRows
         /\ a \in Creates => /\ Outcome(a, row, etag).start = request[a].start
                             /\ Outcome(a, row, etag).status = "BOOKED"
                             /\ Outcome(a, row, etag).revision = 1
         /\ a \in Moves => /\ Outcome(a, row, etag).start = request[a].start
                           /\ Outcome(a, row, etag).status = row.status
                           /\ Outcome(a, row, etag).revision = row.revision + 1
         /\ a \in Cancels => /\ Outcome(a, row, etag).start = row.start
                             /\ Outcome(a, row, etag).status = "CANCELLATION_REQUESTED"
                             /\ Outcome(a, row, etag).revision = row.revision + 1
<1>0. request[a] \in ActionRequests /\ request[a].start \in Nat
  BY DEF BookingShape, ActionRequests
<1>1. CASE a \in Creates
  BY <1>0, <1>1, BookingConstants DEF Outcome, AppointmentRows
<1>2. CASE a \in Moves
  <2>1. Outcome(a, row, etag) = [row EXCEPT !.start = request[a].start, !.etag = etag,
                                            !.revision = row.revision + 1]
    BY <1>2, BookingConstants DEF Outcome, AppointmentRows
  <2>2. /\ Outcome(a, row, etag) \in AppointmentRows
        /\ Outcome(a, row, etag).start = request[a].start
        /\ Outcome(a, row, etag).status = row.status
        /\ Outcome(a, row, etag).revision = row.revision + 1
    <3>1. row.revision + 1 \in Nat
      BY DEF AppointmentRows
    <3>2. ASSUME NEW n \in Nat, NEW s \in Nat
          PROVE  /\ [row EXCEPT !.start = s, !.etag = etag, !.revision = n] \in AppointmentRows
                 /\ [row EXCEPT !.start = s, !.etag = etag, !.revision = n].start = s
                 /\ [row EXCEPT !.start = s, !.etag = etag, !.revision = n].status = row.status
                 /\ [row EXCEPT !.start = s, !.etag = etag, !.revision = n].revision = n
      BY DEF AppointmentRows
    <3> DEFINE new == Outcome(a, row, etag)
               n == row.revision + 1
               s == request[a].start
    <3>3. new = [row EXCEPT !.start = s, !.etag = etag, !.revision = n] /\ n \in Nat /\ s \in Nat
      BY <1>0, <2>1, <3>1
    <3> HIDE DEF new, n, s
    <3>4. new \in AppointmentRows /\ new.start = s /\ new.status = row.status /\ new.revision = n
      BY <3>2, <3>3
    <3> QED BY <3>4 DEF new, n, s
  <2> QED BY <1>2, <2>2, BookingConstants
<1>3. CASE a \in Cancels
  <2>1. Outcome(a, row, etag) = [row EXCEPT !.status = "CANCELLATION_REQUESTED",
                                            !.revision = row.revision + 1]
    BY <1>3, BookingConstants DEF Outcome, AppointmentRows
  <2>2. /\ Outcome(a, row, etag) \in AppointmentRows
        /\ Outcome(a, row, etag).start = row.start
        /\ Outcome(a, row, etag).status = "CANCELLATION_REQUESTED"
        /\ Outcome(a, row, etag).revision = row.revision + 1
    <3>1. row.revision + 1 \in Nat
      BY DEF AppointmentRows
    <3>2. ASSUME NEW n \in Nat, NEW new,
                 new = [row EXCEPT !.status = "CANCELLATION_REQUESTED", !.revision = n]
          PROVE  /\ new \in AppointmentRows /\ new.start = row.start
                 /\ new.status = "CANCELLATION_REQUESTED" /\ new.revision = n
      BY <3>2 DEF AppointmentRows
    <3> QED BY <2>1, <3>1, <3>2
  <2> QED BY <1>3, <2>2, BookingConstants
<1> QED BY <1>1, <1>2, <1>3 DEF Actions

\* A write to the calendar changes the event of the action only, and leaves an event.
LEMMA CalendarWritten ==
  ASSUME BookingShape, WorkPlaced, NEW w \in Clerks, Placed(clerk[w].action)
  PROVE  LET a == clerk[w].action
             c == Subject(clerk[w].action)
         IN  /\ Written(w) \in [Events -> EventRows]
             /\ \A e \in Events \ {c} : Written(w)[e] = event[e]
             /\ Written(w)[c].etag \in Nat
             /\ Written(w)[c] = event[c] \/ Written(w)[c].start = request[a].start
<1> DEFINE a == clerk[w].action
           c == Subject(a)
<1>1. a \in Actions /\ c \in Events
  BY SubjectPlaced DEF Placed
<1>2. request[a].start \in Nat
  BY <1>1 DEF BookingShape, ActionRequests
<1>3. event[c] \in EventRows /\ event \in [Events -> EventRows]
  BY <1>1 DEF BookingShape
<1> HIDE DEF c, a
<1>4. ASSUME NEW row \in EventRows, row = event[c] \/ row.start = request[a].start,
             Written(w) = [event EXCEPT ![c] = row]
      PROVE  /\ Written(w) \in [Events -> EventRows]
             /\ \A e \in Events \ {c} : Written(w)[e] = event[e]
             /\ Written(w)[c].etag \in Nat
             /\ Written(w)[c] = event[c] \/ Written(w)[c].start = request[a].start
  BY <1>1, <1>3, <1>4 DEF EventRows
<1>5. CASE a \in Creates
  <2>1. [status |-> "confirmed", start |-> request[a].start, etag |-> 1] \in EventRows
    BY <1>2 DEF EventRows
  <2> DEFINE row == IF event[c] = NoEvent
                    THEN [status |-> "confirmed", start |-> request[a].start, etag |-> 1]
                    ELSE event[c]
  <2>2. row \in EventRows /\ (row = event[c] \/ row.start = request[a].start)
    BY <1>3, <2>1
  <2>3. Written(w) = [event EXCEPT ![c] = row]
    BY <1>1, <1>3, <1>5 DEF Written, a, c
  <2> QED BY <1>4, <2>2, <2>3 DEF a, c
<1>6. CASE a \notin Creates
  <2> DEFINE row == [event[c] EXCEPT !.start = request[a].start, !.etag = event[c].etag + 1]
  <2>2. row \in EventRows /\ row.start = request[a].start
    <3>1. event[c].etag + 1 \in Nat
      BY <1>3 DEF EventRows
    <3> DEFINE n == event[c].etag + 1
    <3> HIDE DEF n
    <3>2. [event[c] EXCEPT !.start = request[a].start, !.etag = n] \in EventRows
      BY <1>2, <1>3, <3>1 DEF EventRows, n
    <3>3. [event[c] EXCEPT !.start = request[a].start, !.etag = n].start = request[a].start
      BY <1>3 DEF EventRows
    <3> QED BY <3>2, <3>3 DEF n
  <2>3. Written(w) = [event EXCEPT ![c] = row]
    BY <1>1, <1>3, <1>6 DEF Written, EventRows, a, c
  <2> QED BY <1>4, <2>2, <2>3 DEF a, c
<1> QED BY <1>5, <1>6 DEF a, c

\* Nothing is booked and nobody is at anything.
LEMMA BookingShapeInit == BookingInit => BookingShape /\ WorkPlaced
<1> SUFFICES ASSUME BookingInit PROVE BookingShape /\ WorkPlaced
  OBVIOUS
<1>1. BookingShape
  BY RowsAreRows, BookingConstants DEF BookingInit, BookingShape
<1>2. WorkPlaced
  BY RowsAreRows DEF BookingInit, WorkPlaced, ClerkSound, Executing
<1> QED BY <1>1, <1>2

\* No step leaves the types, nor what a worker remembers.
LEMMA BookingShapeStep ==
  BookingShape /\ WorkPlaced /\ [BookingNext]_bookingVars => BookingShape' /\ WorkPlaced'
<1> SUFFICES ASSUME BookingShape, WorkPlaced, [BookingNext]_bookingVars
             PROVE  BookingShape' /\ WorkPlaced'
  OBVIOUS
<1>s. /\ \A w \in Clerks : clerk[w] \in ClerkStates
      /\ \A a \in Actions : request[a] \in ActionRequests
      /\ \A c \in Creates : appointment[c] \in AppointmentRows
      /\ \A e \in Events : event[e] \in EventRows
      /\ setup \in Nat
  BY BookingConstants DEF BookingShape
<1>u. \A w \in Clerks : /\ clerk[w].result \in {"none"} \cup Outcomes
                         /\ clerk[w].seen \in AppointmentRows
  BY <1>s DEF ClerkStates
<1>k. ASSUME NEW w \in Clerks, NEW record \in ClerkStates, Goes(w, record),
             ClerkSound(record), UNCHANGED <<request, appointment>>
      PROVE  clerk' \in [Clerks -> ClerkStates] /\ WorkPlaced'
  <2>1. /\ clerk' \in [Clerks -> ClerkStates]
        /\ clerk'[w] = record
        /\ \A v \in Clerks \ {w} : clerk'[v] = clerk[v]
    BY <1>k, ClerkGoes
  <2> QED BY <1>k, <2>1 DEF WorkPlaced, ClerkSound, Placed
<1>1. ASSUME NEW a \in Actions, Request(a) PROVE BookingShape' /\ WorkPlaced'
  <2>1. PICK c \in Creates, s \in Starts :
          /\ a \in Creates => c = a
          /\ a \notin Creates => appointment[c] # NoRow
          /\ request' = [request EXCEPT ![a] =
               [state |-> "confirmed", target |-> c, start |-> s, setup |-> setup]]
    BY <1>1 DEF Request
  <2>2. [state |-> "confirmed", target |-> c, start |-> s, setup |-> setup] \in ActionRequests
    BY <1>s, BookingConstants DEF ActionRequests
  <2>3. /\ request' \in [Actions -> ActionRequests]
        /\ request'[a].state = "confirmed" /\ request'[a].target = c
        /\ \A b \in Actions \ {a} : request'[b] = request[b]
    BY <2>1, <2>2 DEF BookingShape
  <2>4. BookingShape'
    BY <1>1, <2>3 DEF Request, BookingShape
  <2>5. WorkPlaced'
    BY <1>1, <2>1, <2>3 DEF Request, WorkPlaced, ClerkSound, Placed
  <2> QED BY <2>4, <2>5
<1>2. ASSUME NEW w \in Clerks, NEW a \in Actions, Revalidate(w, a)
      PROVE  BookingShape' /\ WorkPlaced'
  <2>1. CASE request' = [request EXCEPT ![a].state = "settled"] /\ UNCHANGED clerk
    <3>1. /\ [request[a] EXCEPT !.state = "settled"] \in ActionRequests
          /\ [request[a] EXCEPT !.state = "settled"].target = request[a].target
          /\ [request[a] EXCEPT !.state = "settled"].state = "settled"
      BY <1>s DEF ActionRequests
    <3>2. /\ request' \in [Actions -> ActionRequests]
          /\ request'[a].target = request[a].target /\ request'[a].state = "settled"
          /\ \A b \in Actions \ {a} : request'[b] = request[b]
      BY <2>1, <3>1 DEF BookingShape
    <3>3. BookingShape'
      BY <1>2, <2>1, <3>2 DEF Revalidate, BookingShape
    <3> QED BY <1>2, <2>1, <3>2, <3>3 DEF Revalidate, WorkPlaced, ClerkSound, Placed
  <2>2. CASE Goes(w, [Idle EXCEPT !.at = "permitted", !.action = a]) /\ UNCHANGED request
    <3> DEFINE record == [Idle EXCEPT !.at = "permitted", !.action = a]
    <3>1. record \in ClerkStates /\ record.at = "permitted" /\ record.action = a
      BY RowsAreRows DEF Idle, ClerkStates, Executing, AppointmentRows, NoRow
    <3>2. Placed(a)
      BY <1>2 DEF Revalidate, Placed
    <3>3. /\ clerk' \in [Clerks -> ClerkStates]
          /\ clerk'[w] = record
          /\ \A v \in Clerks \ {w} : clerk'[v] = clerk[v]
      BY <2>2, <3>1, ClerkGoes
    <3>4. BookingShape'
      BY <1>2, <2>2, <3>3 DEF Revalidate, BookingShape
    <3>5. ClerkSound(record)
      BY <3>1, <3>2 DEF ClerkSound
    <3> QED BY <1>k, <1>2, <2>2, <3>1, <3>4, <3>5 DEF Revalidate
  <2> QED BY <1>2, <2>1, <2>2 DEF Revalidate
<1>3. ASSUME NEW w \in Clerks, Claim(w) PROVE BookingShape' /\ WorkPlaced'
  <2> DEFINE a == clerk[w].action
  <2>1. Placed(a) /\ a \in Actions
    BY <1>3 DEF Claim, WorkPlaced, ClerkSound, Placed, Executing
  <2>2. PICK at \in {"returning", "claimed", "answered"}, r \in {"none"} \cup Outcomes :
          /\ Goes(w, Updated(clerk[w], at, r, clerk[w].seen))
          /\ at = "answered" => r = "REJECTED"
    <3>1. CASE receipt[a] # "none"
      <4>1. Replayed(receipt[a]) \in Outcomes
        BY <2>1, <3>1 DEF Replayed, BookingShape, Outcomes
      <4>2. Goes(w, [clerk[w] EXCEPT !.at = "returning", !.result = Replayed(receipt[a])])
        BY <1>3, <3>1 DEF Claim
      <4>3. [clerk[w] EXCEPT !.at = "returning", !.result = Replayed(receipt[a])]
              = Updated(clerk[w], "returning", Replayed(receipt[a]), clerk[w].seen)
        BY <1>s DEF Updated, ClerkStates
      <4> QED BY <4>1, <4>2, <4>3
    <3>2. CASE receipt[a] = "none" /\ request[a].setup # setup
      <4>1. Goes(w, [clerk[w] EXCEPT !.at = "answered", !.result = "REJECTED"])
        BY <1>3, <3>2 DEF Claim
      <4>2. [clerk[w] EXCEPT !.at = "answered", !.result = "REJECTED"]
              = Updated(clerk[w], "answered", "REJECTED", clerk[w].seen)
        BY <1>s DEF Updated, ClerkStates
      <4> QED BY <4>1, <4>2 DEF Outcomes
    <3>3. CASE receipt[a] = "none" /\ request[a].setup = setup
      <4>1. Goes(w, [clerk[w] EXCEPT !.at = "claimed"])
        BY <1>3, <3>3 DEF Claim
      <4>2. [clerk[w] EXCEPT !.at = "claimed"]
              = Updated(clerk[w], "claimed", clerk[w].result, clerk[w].seen)
        BY <1>s DEF Updated, ClerkStates
      <4> QED BY <1>u, <4>1, <4>2
    <3> QED BY <3>1, <3>2, <3>3
  <2> DEFINE record == Updated(clerk[w], at, r, clerk[w].seen)
  <2>3. record \in ClerkStates /\ record.at = at /\ record.action = a /\ record.result = r
    <3>1. clerk[w] \in ClerkStates /\ clerk[w].seen \in AppointmentRows
      BY <1>s, <1>u
    <3>2. at \in Executing /\ r \in {"none"} \cup Outcomes
      BY <2>2 DEF Executing
    <3>3. Remembered(record, clerk[w], at, r, clerk[w].seen)
      BY <3>1, <3>2, UpdatedRemembers, Zenon
    <3> QED BY <3>3 DEF Remembered
  <2>6. ClerkSound(record)
    BY <2>1, <2>2, <2>3 DEF ClerkSound, Executing
  <2>4. clerk' \in [Clerks -> ClerkStates] /\ WorkPlaced'
    BY <1>k, <1>3, <2>2, <2>3, <2>6 DEF Claim
  <2>5. receipt' \in [Actions -> {"none", "CLAIMED"} \cup Outcomes]
        /\ guard' \in Clerks \cup {NoOne}
    BY <1>3, <2>1 DEF Claim, BookingShape
  <2> QED BY <1>3, <2>4, <2>5 DEF Claim, BookingShape
<1>4. ASSUME NEW w \in Clerks, Inspect(w) PROVE BookingShape' /\ WorkPlaced'
  <2> DEFINE a == clerk[w].action
  <2>1. Placed(a) /\ Subject(a) \in Creates
    BY <1>4, SubjectPlaced DEF Inspect, WorkPlaced, ClerkSound, Executing
  <2>2. PICK at \in {"checked", "answered"}, r \in {"none"} \cup Outcomes,
             row \in AppointmentRows :
          /\ Goes(w, Updated(clerk[w], at, r, row))
          /\ at = "checked" => a \notin Cancels
          /\ (at = "checked" \/ r # "REJECTED") /\ a \notin Creates => row.status = "BOOKED"
          /\ at = "answered" => r = "REJECTED" \/ (a \in Cancels /\ r = "SUCCEEDED")
    <3>1. CASE /\ a \notin Creates => Unchanged(Subject(a))
               /\ Goes(w, [clerk[w] EXCEPT !.at = IF a \in Cancels THEN "answered" ELSE "checked",
                                       !.result = IF a \in Cancels THEN "SUCCEEDED" ELSE "none",
                                       !.seen = appointment[Subject(a)]])
      <4> DEFINE at == IF a \in Cancels THEN "answered" ELSE "checked"
                 r == IF a \in Cancels THEN "SUCCEEDED" ELSE "none"
      <4>1. Goes(w, Updated(clerk[w], at, r, appointment[Subject(a)]))
        BY <1>s, <3>1 DEF Updated, ClerkStates
      <4>2. /\ at \in {"checked", "answered"} /\ r \in {"none"} \cup Outcomes
            /\ appointment[Subject(a)] \in AppointmentRows
            /\ a \notin Creates => appointment[Subject(a)].status = "BOOKED"
        BY <1>s, <2>1, <3>1 DEF Outcomes, Unchanged
      <4>3. (at = "checked" => a \notin Cancels) /\ (at = "answered" => a \in Cancels
            /\ r = "SUCCEEDED")
        OBVIOUS
      <4> QED BY <4>1, <4>2, <4>3
    <3>2. CASE Goes(w, [clerk[w] EXCEPT !.at = "answered", !.result = "REJECTED"])
      <4>1. Goes(w, Updated(clerk[w], "answered", "REJECTED", clerk[w].seen))
        BY <1>s, <3>2 DEF Updated, ClerkStates
      <4>2. clerk[w].seen \in AppointmentRows /\ "REJECTED" \in Outcomes
        BY <1>u DEF Outcomes
      <4> QED BY <4>1, <4>2
    <3> QED BY <1>4, <3>1, <3>2 DEF Inspect
  <2> DEFINE record == Updated(clerk[w], at, r, row)
  <2>3. /\ record \in ClerkStates /\ record.at = at /\ record.action = a
        /\ record.result = r /\ record.seen = row
    <3>1. clerk[w] \in ClerkStates
      BY <1>s
    <3>2. at \in Executing /\ r \in {"none"} \cup Outcomes /\ row \in AppointmentRows
      BY <2>2 DEF Executing
    <3>3. Remembered(record, clerk[w], at, r, row)
      BY <3>1, <3>2, UpdatedRemembers, Zenon
    <3> QED BY <3>3 DEF Remembered
  <2>6. ClerkSound(record)
    BY <2>1, <2>2, <2>3, BookingConstants DEF ClerkSound, Executing
  <2>4. clerk' \in [Clerks -> ClerkStates] /\ WorkPlaced'
    BY <1>k, <1>4, <2>2, <2>3, <2>6 DEF Inspect
  <2> QED BY <1>4, <2>4 DEF Inspect, BookingShape
<1>5. ASSUME NEW w \in Clerks, Write(w) PROVE BookingShape' /\ WorkPlaced'
  <2> DEFINE a == clerk[w].action
             c == Subject(a)
  <2>1. Placed(a) /\ a \in Actions /\ c \in Creates
    BY <1>5, SubjectPlaced DEF Write, WorkPlaced, ClerkSound, Executing, Placed
  <2>2. PICK call \in WriteCalls :
          /\ event' = IF call.done THEN Written(w) ELSE event
          /\ writes' = [writes EXCEPT ![a] = @ + IF call.done THEN 1 ELSE 0]
          /\ Goes(w, [clerk[w] EXCEPT
               !.at = "answered",
               !.result = GoogleResult(call.fault),
               !.seen = IF call.fault = "none"
                          THEN Outcome(a, @, Written(w)[Subject(a)].etag) ELSE @])
    BY <1>5 DEF Write
  <2>3. Written(w) \in [Events -> EventRows] /\ Written(w)[c].etag \in Nat
    BY <2>1, CalendarWritten
  <2>4. clerk[w].seen \in AppointmentRows
    BY <1>s DEF ClerkStates
  <2> DEFINE row == IF call.fault = "none"
                    THEN Outcome(a, clerk[w].seen, Written(w)[c].etag) ELSE clerk[w].seen
  <2>5. row \in AppointmentRows
    BY <2>1, <2>3, <2>4, OutcomeRow
  <2> DEFINE record == Updated(clerk[w], "answered", GoogleResult(call.fault), row)
  <2>6. Goes(w, record)
    BY <1>s, <2>2 DEF ClerkStates, Updated
  <2> HIDE DEF row
  <2>7. /\ record \in ClerkStates /\ record.at = "answered" /\ record.action = a
        /\ record.result = GoogleResult(call.fault) /\ record.seen = row
    BY <1>s, <2>5, UpdatedState, WriteCallFacts DEF Executing
  <2> HIDE DEF record
  <2>10. a \notin Cancels /\ (a \in Moves => clerk[w].seen.status = "BOOKED")
    BY <1>5 DEF Write, WorkPlaced, ClerkSound
  <2>11. call.fault = "none" =>
           row.status = "BOOKED" /\ (a \in Creates => row.revision = 1)
    BY <2>1, <2>3, <2>4, <2>10, OutcomeRow DEF row, Actions
  <2>12. ClerkSound(record)
    BY <2>1, <2>7, <2>11, WriteCallFacts DEF ClerkSound, Executing, Outcomes
  <2>8. clerk' \in [Clerks -> ClerkStates] /\ WorkPlaced'
    BY <1>k, <1>5, <2>6, <2>7, <2>12 DEF Write
  <2>9. event' \in [Events -> EventRows] /\ writes' \in [Actions -> Nat]
    BY <2>1, <2>2, <2>3, WriteCallFacts DEF BookingShape
  <2> QED BY <1>5, <2>8, <2>9 DEF Write, BookingShape
<1>6. ASSUME NEW w \in Clerks, Finish(w) PROVE BookingShape' /\ WorkPlaced'
  <2> DEFINE a == clerk[w].action
             c == Subject(a)
             record == Updated(clerk[w], "returning", clerk[w].result, NoRow)
  <2>1. Placed(a) /\ a \in Actions /\ c \in Creates
    BY <1>6, SubjectPlaced DEF Finish, WorkPlaced, ClerkSound, Executing, Placed
  <2>2. clerk[w].seen \in AppointmentRows /\ clerk[w].result \in {"none"} \cup Outcomes
    BY <1>s DEF ClerkStates
  <2>3. Saved(w) \in AppointmentRows
    BY <2>1, <2>2, OutcomeRow DEF Saved
  <2>4. record \in ClerkStates /\ record.at = "returning" /\ record.action = a
    <3>1. /\ NoRow \in AppointmentRows /\ "returning" \in Executing
          /\ clerk[w] \in ClerkStates /\ clerk[w].result \in {"none"} \cup Outcomes
      BY <1>s, <1>u, RowsAreRows DEF Executing
    <3> DEFINE state == clerk[w]
               result == clerk[w].result
               new == Updated(state, "returning", result, NoRow)
    <3> HIDE DEF state, result
    <3>2. state \in ClerkStates /\ result \in {"none"} \cup Outcomes
      BY <3>1 DEF state, result
    <3>3. new \in ClerkStates /\ new.at = "returning" /\ new.action = state.action
      BY <3>1, <3>2, UpdatedState
    <3> QED BY <3>3 DEF state, result
  <2>14. Goes(w, record)
    BY <1>6, <1>s DEF Finish, Updated, ClerkStates
  <2> HIDE DEF record
  <2>5. /\ clerk' \in [Clerks -> ClerkStates]
        /\ clerk'[w] = record
        /\ \A v \in Clerks \ {w} : clerk'[v] = clerk[v]
    BY <2>4, <2>14, ClerkGoes
  <2>6. /\ appointment' \in [Creates -> AppointmentRows]
        /\ \A d \in Creates \ {c} : appointment'[d] = appointment[d]
        /\ appointment'[c] \in {appointment[c], Saved(w)}
    BY <1>6, <2>1, <2>3 DEF Finish, BookingShape
  <2>7. message' \in [Keys -> {"none", "PREPARED", "BLOCKED"}]
    BY <1>6 DEF Finish, Superseded, BookingShape
  <2>8. job' \subseteq NoticeJobs
    <3>1. Announced(a, c, Saved(w)) \subseteq NoticeJobs
      BY <1>s, <2>1, <2>3 DEF Announced, NoticeJobs, Kinds, AppointmentRows, BookingShape
    <3> QED BY <1>6, <3>1 DEF Finish, BookingShape
  <2>9. receipt' \in [Actions -> {"none", "CLAIMED"} \cup Outcomes]
        /\ guard' \in Clerks \cup {NoOne}
    BY <1>6, <2>1, <2>2 DEF Finish, Releases, BookingShape
  <2>10. BookingShape'
    BY <1>6, <2>5, <2>6, <2>7, <2>8, <2>9 DEF Finish, BookingShape
  <2>11. clerk[w].result = "SUCCEEDED" => Saved(w) # NoRow
    <3>1. clerk[w].result = "SUCCEEDED" => clerk[w].seen.status = "BOOKED"
      BY <1>6 DEF Finish, WorkPlaced, ClerkSound
    <3>2. a \in Cancels => Saved(w).status = "CANCELLATION_REQUESTED"
      BY <2>1, <2>2, OutcomeRow DEF Saved
    <3> QED BY <3>1, <3>2 DEF Saved, NoRow
  <2>12. \A d \in Creates : appointment[d] # NoRow => appointment'[d] # NoRow
    BY <1>6, <2>6, <2>11 DEF Finish
  <2>13. ClerkSound(record)
    BY <2>1, <2>4 DEF ClerkSound
  <2>15. request' = request
    BY <1>6 DEF Finish
  <2>16. \A v \in Clerks : ClerkSound(clerk[v]) => ClerkSound(clerk[v])'
    <3> SUFFICES ASSUME NEW v \in Clerks, ClerkSound(clerk[v]) PROVE ClerkSound(clerk[v])'
      OBVIOUS
    <3>1. CASE v = w
      BY <2>5, <2>13, <2>15, <3>1 DEF ClerkSound, Placed
    <3>2. CASE v # w
      BY <2>5, <2>15, <3>2 DEF ClerkSound, Placed
    <3> QED BY <3>1, <3>2
  <2> QED BY <2>10, <2>12, <2>15, <2>16 DEF WorkPlaced
<1>7. ASSUME NEW w \in Clerks, Return(w) PROVE BookingShape' /\ WorkPlaced'
  <2> DEFINE a == clerk[w].action
  <2>1. Placed(a) /\ a \in Actions
    BY <1>7 DEF Return, WorkPlaced, ClerkSound, Executing, Placed
  <2>2. /\ [request[a] EXCEPT !.state = "settled"] \in ActionRequests
        /\ [request[a] EXCEPT !.state = "settled"].target = request[a].target
        /\ [request[a] EXCEPT !.state = "settled"].state = "settled"
    BY <1>s, <2>1 DEF ActionRequests
  <2>3. /\ request' \in [Actions -> ActionRequests]
        /\ request'[a].target = request[a].target /\ request'[a].state = "settled"
        /\ \A b \in Actions \ {a} : request'[b] = request[b]
    BY <1>7, <2>1, <2>2 DEF Return, BookingShape
  <2>4. /\ clerk' \in [Clerks -> ClerkStates]
        /\ clerk'[w] = Idle
        /\ \A v \in Clerks \ {w} : clerk'[v] = clerk[v]
    BY <1>7, ClerkGoes, RowsAreRows DEF Return
  <2>5. BookingShape'
    BY <1>7, <2>3, <2>4 DEF Return, BookingShape
  <2>6. ClerkSound(Idle)
    BY RowsAreRows DEF ClerkSound, Executing
  <2> HIDE DEF a
  <2> QED BY <1>7, <2>1, <2>3, <2>4, <2>5, <2>6, RowsAreRows
      DEF Return, WorkPlaced, ClerkSound, Placed, Executing
<1>8. ASSUME NEW w \in Clerks, ClerkDies(w) PROVE BookingShape' /\ WorkPlaced'
  <2>1. ClerkSound(Idle)
    BY RowsAreRows DEF ClerkSound, Executing
  <2>2. clerk' \in [Clerks -> ClerkStates] /\ WorkPlaced'
    BY <1>k, <1>8, <2>1, RowsAreRows DEF ClerkDies
  <2> QED BY <1>8, <2>2 DEF ClerkDies, Releases, BookingShape
<1>9. ASSUME NEW w \in Clerks, GuardDrops(w) PROVE BookingShape' /\ WorkPlaced'
  BY <1>9 DEF GuardDrops, BookingShape, WorkPlaced, ClerkSound, Placed
<1>10. ASSUME NEW lead \in Leads, Configure(lead) PROVE BookingShape' /\ WorkPlaced'
  BY <1>10 DEF Configure, BookingShape, WorkPlaced, ClerkSound, Placed
<1>11. ASSUME NEW e \in Events, EditCalendar(e) PROVE BookingShape' /\ WorkPlaced'
  <2>1. event' \in [Events -> EventRows]
    <3>1. \A s \in Starts : [status |-> "confirmed", start |-> s, etag |-> event[e].etag + 1]
                              \in EventRows
      BY <1>s, BookingConstants DEF EventRows
    <3>2. [event[e] EXCEPT !.status = "cancelled", !.etag = event[e].etag + 1] \in EventRows
      <4>1. event[e].etag + 1 \in Nat
        BY <1>s DEF EventRows
      <4>2. \A n \in Nat : [event[e] EXCEPT !.status = "cancelled", !.etag = n] \in EventRows
        BY <1>s DEF EventRows
      <4> QED BY <4>1, <4>2
    <3>3. CASE \E s \in Starts :
                 event' = [event EXCEPT ![e] = [status |-> "confirmed", start |-> s,
                                                etag |-> event[e].etag + 1]]
      BY <3>1, <3>3 DEF BookingShape
    <3>4. CASE event' = [event EXCEPT ![e].status = "cancelled", ![e].etag = @ + 1]
      <4>1. event' = [event EXCEPT ![e] = [event[e] EXCEPT !.status = "cancelled",
                                                           !.etag = event[e].etag + 1]]
        BY <1>s, <3>4 DEF BookingShape, EventRows
      <4> QED BY <3>2, <4>1 DEF BookingShape
    <3> QED BY <1>11, <3>3, <3>4 DEF EditCalendar
  <2> QED BY <1>11, <2>1 DEF EditCalendar, BookingShape, WorkPlaced, ClerkSound, Placed
<1>12. ASSUME NEW w \in Clerks, NEW j \in job, Notify(w, j) PROVE BookingShape' /\ WorkPlaced'
  <2>1. j \in NoticeJobs /\ appointment[j.appointment] \in AppointmentRows
    BY <1>s DEF BookingShape, NoticeJobs
  <2>2. CASE job' = job \ {j} /\ UNCHANGED <<clerk, guard>>
    BY <1>12, <2>2 DEF Notify, BookingShape, WorkPlaced, ClerkSound, Placed
  <2>3. CASE /\ clock < appointment[j.appointment].start - setup
             /\ job' = (job \ {j}) \cup {[j EXCEPT !.due = appointment[j.appointment].start - setup]}
             /\ UNCHANGED <<clerk, guard>>
    <3>1. appointment[j.appointment].start - setup \in Nat
      BY <1>s, <2>1, <2>3 DEF BookingShape, AppointmentRows
    <3>2. [j EXCEPT !.due = appointment[j.appointment].start - setup] \in NoticeJobs
      BY <2>1, <3>1 DEF NoticeJobs
    <3> QED BY <1>12, <2>3, <3>2 DEF Notify, BookingShape, WorkPlaced, ClerkSound, Placed
  <2>4. CASE guard' = w /\ Goes(w, [Idle EXCEPT !.at = "noticing", !.job = j]) /\ UNCHANGED job
    <3> DEFINE record == [Idle EXCEPT !.at = "noticing", !.job = j]
    <3>1. record \in ClerkStates /\ record.at = "noticing" /\ record.job = j
      BY <2>1, RowsAreRows DEF Idle, ClerkStates, Executing
    <3>2. ClerkSound(record)
      BY <2>1, <3>1 DEF ClerkSound, Executing
    <3>3. clerk' \in [Clerks -> ClerkStates] /\ WorkPlaced'
      BY <1>k, <1>12, <2>4, <3>1, <3>2 DEF Notify
    <3> QED BY <1>12, <2>4, <3>3 DEF Notify, BookingShape
  <2> QED BY <1>12, <2>2, <2>3, <2>4 DEF Notify
<1>13. ASSUME NEW w \in Clerks, Prepare(w) PROVE BookingShape' /\ WorkPlaced'
  <2>1. ClerkSound(Idle)
    BY RowsAreRows DEF ClerkSound, Executing
  <2>2. clerk' \in [Clerks -> ClerkStates] /\ WorkPlaced'
    BY <1>k, <1>13, <2>1, RowsAreRows DEF Prepare
  <2>3. message' \in [Keys -> {"none", "PREPARED", "BLOCKED"}]
    BY <1>13 DEF Prepare, BookingShape
  <2> QED BY <1>13, <2>2, <2>3 DEF Prepare, Releases, BookingShape
<1>14. CASE BookingTick \/ UNCHANGED bookingVars
  BY <1>14 DEF BookingTick, bookingVars, BookingShape, WorkPlaced, ClerkSound, Placed
<1> QED
  BY <1>1, <1>2, <1>3, <1>4, <1>5, <1>6, <1>7, <1>8, <1>9, <1>10, <1>11, <1>12, <1>13, <1>14
  DEF BookingNext, BookingWork, BookingMessages
\* The other workers stay where they are.
OthersKeep(w) == \A v \in Clerks \ {w} : clerk'[v] = clerk[v]

\* Revalidate: what it changes, and what it found.
LEMMA RevalidateDoes ==
  ASSUME BookingShape, NEW w \in Clerks, NEW a \in Actions, Revalidate(w, a)
  PROVE  /\ clerk[w].at = "idle" /\ OthersKeep(w)
         /\ clerk'[w].at \in {"idle", "permitted"}
<1>1. clerk[w].at = "idle"
  BY RowsAreRows DEF Revalidate
<1>2. CASE UNCHANGED clerk
  BY <1>1, <1>2 DEF OthersKeep
<1>3. CASE Goes(w, [Idle EXCEPT !.at = "permitted", !.action = a])
  <2>1. /\ [Idle EXCEPT !.at = "permitted", !.action = a] \in ClerkStates
        /\ [Idle EXCEPT !.at = "permitted", !.action = a].at = "permitted"
    BY RowsAreRows DEF Idle, ClerkStates, Executing, AppointmentRows, NoRow
  <2> QED BY <1>1, <1>3, <2>1, ClerkGoes DEF OthersKeep
<1> QED BY <1>2, <1>3 DEF Revalidate

\* Claim: what it changes, and what it found.
LEMMA ClaimDoes ==
  ASSUME BookingShape, WorkPlaced, NEW w \in Clerks, Claim(w)
  PROVE  LET a == clerk[w].action IN
         /\ Placed(a) /\ a \in Actions
         /\ clerk[w].at = "permitted" /\ guard = NoOne
         /\ clerk'[w].action = a /\ OthersKeep(w)
         /\ \/ receipt[a] # "none" /\ clerk'[w].at = "returning" /\ UNCHANGED <<receipt, guard>>
            \/ /\ receipt[a] = "none" /\ guard' = w
               /\ receipt' = [receipt EXCEPT ![a] = "CLAIMED"]
               /\ clerk'[w].at = "claimed" \/ (clerk'[w].at = "answered"
                    /\ clerk'[w].result = "REJECTED")
<1> DEFINE a == clerk[w].action
<1>1. Placed(a) /\ a \in Actions /\ clerk[w].at = "permitted" /\ guard = NoOne
  BY DEF Claim, WorkPlaced, ClerkSound, Placed, Executing
<1>2. clerk[w] \in ClerkStates
  BY DEF BookingShape
<1>3. clerk[w].seen \in AppointmentRows /\ clerk[w].result \in {"none"} \cup Outcomes
  BY <1>2 DEF ClerkStates
<1>4. ASSUME NEW at \in Executing, NEW r \in {"none"} \cup Outcomes,
             Goes(w, Updated(clerk[w], at, r, clerk[w].seen))
      PROVE  /\ clerk'[w].action = a /\ OthersKeep(w)
             /\ clerk'[w].at = at /\ clerk'[w].result = r
  <2> DEFINE new == Updated(clerk[w], at, r, clerk[w].seen)
  <2>0. Remembered(new, clerk[w], at, r, clerk[w].seen)
    BY <1>2, <1>3, <1>4, UpdatedRemembers, Zenon
  <2> HIDE DEF new
  <2>1. new \in ClerkStates /\ new.at = at /\ new.action = a /\ new.result = r
    BY <2>0 DEF Remembered
  <2>2. Goes(w, new)
    BY <1>4 DEF new
  <2> QED BY <2>1, <2>2, ClerkGoes DEF OthersKeep
<1>5. CASE receipt[a] # "none"
  <2>1. Replayed(receipt[a]) \in Outcomes
    BY <1>1, <1>5 DEF Replayed, BookingShape, Outcomes
  <2>2. Goes(w, [clerk[w] EXCEPT !.at = "returning", !.result = Replayed(receipt[a])])
    BY <1>5 DEF Claim
  <2>3. [clerk[w] EXCEPT !.at = "returning", !.result = Replayed(receipt[a])]
          = Updated(clerk[w], "returning", Replayed(receipt[a]), clerk[w].seen)
    BY <1>2 DEF Updated, ClerkStates
  <2> QED BY <1>1, <1>4, <1>5, <2>1, <2>2, <2>3 DEF Claim, Executing
<1>6. CASE receipt[a] = "none" /\ request[a].setup # setup
  <2>1. Goes(w, [clerk[w] EXCEPT !.at = "answered", !.result = "REJECTED"])
    BY <1>6 DEF Claim
  <2>2. [clerk[w] EXCEPT !.at = "answered", !.result = "REJECTED"]
          = Updated(clerk[w], "answered", "REJECTED", clerk[w].seen)
    BY <1>2 DEF Updated, ClerkStates
  <2> QED BY <1>1, <1>4, <1>6, <2>1, <2>2 DEF Claim, Executing, Outcomes
<1>7. CASE receipt[a] = "none" /\ request[a].setup = setup
  <2>1. Goes(w, [clerk[w] EXCEPT !.at = "claimed"])
    BY <1>7 DEF Claim
  <2>2. [clerk[w] EXCEPT !.at = "claimed"]
          = Updated(clerk[w], "claimed", clerk[w].result, clerk[w].seen)
    BY <1>2 DEF Updated, ClerkStates
  <2> QED BY <1>1, <1>3, <1>4, <1>7, <2>1, <2>2 DEF Claim, Executing
<1> QED BY <1>5, <1>6, <1>7

\* Inspect: what it changes, and what it found.
LEMMA InspectDoes ==
  ASSUME BookingShape, WorkPlaced, NEW w \in Clerks, Inspect(w)
  PROVE  LET a == clerk[w].action
             c == Subject(clerk[w].action)
         IN
         /\ Placed(a) /\ a \in Actions /\ c \in Creates
         /\ clerk[w].at = "claimed"
         /\ clerk'[w].action = a /\ OthersKeep(w)
         /\ \/ clerk'[w].at = "answered" /\ clerk'[w].result = "REJECTED"
            \/ /\ a \in Cancels /\ clerk'[w].at = "answered" /\ clerk'[w].result = "SUCCEEDED"
               /\ clerk'[w].seen = appointment[c]
            \/ /\ a \notin Cancels /\ clerk'[w].at = "checked" /\ ~Occupied(request[a].start, c)
               /\ clerk'[w].seen = appointment[c]
<1> DEFINE a == clerk[w].action
           c == Subject(clerk[w].action)
<1>1. Placed(a) /\ a \in Actions /\ c \in Creates /\ clerk[w].at = "claimed"
  BY SubjectPlaced DEF Inspect, WorkPlaced, ClerkSound, Placed, Executing
<1>2. clerk[w] \in ClerkStates /\ appointment[c] \in AppointmentRows
  BY <1>1 DEF BookingShape
<1>3. clerk[w].seen \in AppointmentRows /\ clerk[w].result \in {"none"} \cup Outcomes
  BY <1>2 DEF ClerkStates
<1>4. ASSUME NEW at \in Executing, NEW r \in {"none"} \cup Outcomes, NEW row \in AppointmentRows,
             Goes(w, Updated(clerk[w], at, r, row))
      PROVE  /\ clerk'[w].action = a /\ OthersKeep(w)
             /\ clerk'[w].at = at /\ clerk'[w].result = r /\ clerk'[w].seen = row
  <2> DEFINE new == Updated(clerk[w], at, r, row)
  <2>0. Remembered(new, clerk[w], at, r, row)
    BY <1>2, <1>3, <1>4, UpdatedRemembers, Zenon
  <2> HIDE DEF new
  <2>1. /\ new \in ClerkStates /\ new.at = at /\ new.action = a
        /\ new.result = r /\ new.seen = row
    BY <2>0 DEF Remembered
  <2>2. Goes(w, new)
    BY <1>4 DEF new
  <2> QED BY <2>1, <2>2, ClerkGoes DEF OthersKeep
<1>5. \/ Goes(w, [clerk[w] EXCEPT !.at = "answered", !.result = "REJECTED"])
      \/ a \in Cancels /\ Goes(w, [clerk[w] EXCEPT !.at = "answered", !.result = "SUCCEEDED",
                                                   !.seen = appointment[c]])
      \/ /\ a \notin Cancels /\ ~Occupied(request[a].start, c)
         /\ Goes(w, [clerk[w] EXCEPT !.at = "checked", !.result = "none",
                                     !.seen = appointment[c]])
  BY DEF Inspect
<1>6. CASE Goes(w, [clerk[w] EXCEPT !.at = "answered", !.result = "REJECTED"])
  <2>1. [clerk[w] EXCEPT !.at = "answered", !.result = "REJECTED"]
          = Updated(clerk[w], "answered", "REJECTED", clerk[w].seen)
    BY <1>2 DEF Updated, ClerkStates
  <2> QED BY <1>1, <1>3, <1>4, <1>6, <2>1 DEF Executing, Outcomes
<1>7. CASE a \in Cancels /\ Goes(w, [clerk[w] EXCEPT !.at = "answered", !.result = "SUCCEEDED",
                                                     !.seen = appointment[c]])
  <2>1. [clerk[w] EXCEPT !.at = "answered", !.result = "SUCCEEDED", !.seen = appointment[c]]
          = Updated(clerk[w], "answered", "SUCCEEDED", appointment[c])
    BY <1>2 DEF Updated, ClerkStates
  <2>2. Goes(w, Updated(clerk[w], "answered", "SUCCEEDED", appointment[c]))
    BY <1>7, <2>1
  <2> QED BY <1>1, <1>2, <1>4, <1>7, <2>2 DEF Executing, Outcomes
<1>8. CASE /\ a \notin Cancels /\ ~Occupied(request[a].start, c)
           /\ Goes(w, [clerk[w] EXCEPT !.at = "checked", !.result = "none",
              !.seen = appointment[c]])
  <2>1. [clerk[w] EXCEPT !.at = "checked", !.result = "none", !.seen = appointment[c]]
          = Updated(clerk[w], "checked", "none", appointment[c])
    BY <1>2 DEF Updated, ClerkStates
  <2>2. Goes(w, Updated(clerk[w], "checked", "none", appointment[c]))
    BY <1>8, <2>1
  <2> QED BY <1>1, <1>2, <1>4, <1>8, <2>2 DEF Executing
<1> QED BY <1>5, <1>6, <1>7, <1>8

\* Write: what it changes, and what it found.
LEMMA WriteDoes ==
  ASSUME BookingShape, WorkPlaced, NEW w \in Clerks, Write(w)
  PROVE  LET a == clerk[w].action
             c == Subject(clerk[w].action)
         IN
         /\ Placed(a) /\ a \in Actions \ Cancels /\ c \in Creates
         /\ clerk[w].at = "checked"
         /\ clerk'[w].at = "answered" /\ clerk'[w].action = a /\ OthersKeep(w)
         /\ \E call \in WriteCalls :
              /\ clerk'[w].result = GoogleResult(call.fault)
              /\ writes' = [writes EXCEPT ![a] = @ + IF call.done THEN 1 ELSE 0]
              /\ event' = IF call.done THEN Written(w) ELSE event
              /\ call.fault = "none" =>
                   /\ clerk'[w].seen.start = request[a].start
                   /\ a \in Moves => clerk'[w].seen.revision = clerk[w].seen.revision + 1
<1> DEFINE a == clerk[w].action
           c == Subject(clerk[w].action)
<1>1. /\ Placed(a) /\ a \in Actions /\ c \in Creates /\ clerk[w].at = "checked"
      /\ a \notin Cancels
  BY SubjectPlaced DEF Write, WorkPlaced, ClerkSound, Placed, Executing
<1>2. clerk[w] \in ClerkStates
  BY DEF BookingShape
<1>3. clerk[w].seen \in AppointmentRows
  BY <1>2 DEF ClerkStates
<1>4. PICK call \in WriteCalls :
        /\ event' = IF call.done THEN Written(w) ELSE event
        /\ writes' = [writes EXCEPT ![a] = @ + IF call.done THEN 1 ELSE 0]
        /\ Goes(w, [clerk[w] EXCEPT
             !.at = "answered",
             !.result = GoogleResult(call.fault),
             !.seen = IF call.fault = "none"
                        THEN Outcome(a, @, Written(w)[Subject(a)].etag) ELSE @])
  BY DEF Write
<1>5. Written(w)[c].etag \in Nat
  BY <1>1, CalendarWritten
<1> DEFINE row == IF call.fault = "none"
                  THEN Outcome(a, clerk[w].seen, Written(w)[c].etag) ELSE clerk[w].seen
           r == GoogleResult(call.fault)
<1>6. /\ row \in AppointmentRows
      /\ call.fault = "none" => /\ row.start = request[a].start
                                /\ a \in Moves => row.revision = clerk[w].seen.revision + 1
  BY <1>1, <1>3, <1>5, OutcomeRow DEF Actions
<1>7. Goes(w, Updated(clerk[w], "answered", r, row))
  BY <1>2, <1>4 DEF ClerkStates, Updated
<1>8. r \in {"none"} \cup Outcomes /\ "answered" \in Executing
  BY WriteCallFacts DEF Executing
<1> HIDE DEF row, r
<1> DEFINE new == Updated(clerk[w], "answered", r, row)
<1>e. Remembered(new, clerk[w], "answered", r, row)
  BY <1>2, <1>6, <1>8, UpdatedRemembers, Zenon
<1>9. new \in ClerkStates /\ new.at = "answered" /\ new.action = a /\ new.result = r
      /\ new.seen = row
  BY <1>e DEF Remembered
<1>10. /\ clerk'[w].at = "answered" /\ clerk'[w].action = a /\ OthersKeep(w)
       /\ clerk'[w].result = r /\ clerk'[w].seen = row
  BY <1>7, <1>9, ClerkGoes DEF OthersKeep
<1> QED BY <1>1, <1>4, <1>6, <1>10 DEF r

\* Finish: what it changes, and what it found.
LEMMA FinishDoes ==
  ASSUME BookingShape, WorkPlaced, NEW w \in Clerks, Finish(w)
  PROVE  LET a == clerk[w].action
             c == Subject(clerk[w].action)
         IN
         /\ Placed(a) /\ a \in Actions /\ c \in Creates
         /\ clerk[w].at = "answered"
         /\ clerk'[w].at = "returning" /\ clerk'[w].action = a /\ OthersKeep(w)
         /\ Saved(w) \in AppointmentRows
         /\ Saved(w).start = clerk[w].seen.start
         /\ a \in Cancels => Saved(w).revision = clerk[w].seen.revision + 1
         /\ a \notin Cancels => Saved(w) = clerk[w].seen
<1> DEFINE a == clerk[w].action
           c == Subject(clerk[w].action)
<1>1. Placed(a) /\ a \in Actions /\ c \in Creates /\ clerk[w].at = "answered"
  BY SubjectPlaced DEF Finish, WorkPlaced, ClerkSound, Placed, Executing
<1>2. clerk[w] \in ClerkStates
  BY DEF BookingShape
<1>3. clerk[w].seen \in AppointmentRows /\ clerk[w].result \in {"none"} \cup Outcomes
  BY <1>2 DEF ClerkStates
<1>4. /\ Saved(w) \in AppointmentRows
      /\ Saved(w).start = clerk[w].seen.start
      /\ a \in Cancels => Saved(w).revision = clerk[w].seen.revision + 1
      /\ a \notin Cancels => Saved(w) = clerk[w].seen
  BY <1>1, <1>3, OutcomeRow DEF Saved
<1>5. Goes(w, Updated(clerk[w], "returning", clerk[w].result, NoRow))
  BY <1>2 DEF Finish, Updated, ClerkStates
<1>6. NoRow \in AppointmentRows /\ "returning" \in Executing
  BY RowsAreRows DEF Executing
<1> DEFINE state == clerk[w]
           r == clerk[w].result
<1>7. state \in ClerkStates /\ r \in {"none"} \cup Outcomes
  BY <1>2, <1>3
<1> HIDE DEF state, r
<1>8. /\ Updated(state, "returning", r, NoRow) \in ClerkStates
      /\ Updated(state, "returning", r, NoRow).at = "returning"
      /\ Updated(state, "returning", r, NoRow).action = state.action
  BY <1>6, <1>7, UpdatedState
<1>9. clerk'[w].at = "returning" /\ clerk'[w].action = a /\ OthersKeep(w)
  BY <1>5, <1>8, ClerkGoes DEF OthersKeep, state, r
<1> QED BY <1>1, <1>4, <1>9

\* A worker that rests has nothing in hand.
LEMMA RestDoes ==
  ASSUME BookingShape, NEW w \in Clerks, Return(w) \/ ClerkDies(w) \/ Prepare(w)
  PROVE  clerk'[w].at = "idle" /\ OthersKeep(w)
<1>1. Goes(w, Idle)
  BY DEF Return, ClerkDies, Prepare
<1> QED BY <1>1, ClerkGoes, RowsAreRows DEF OthersKeep

\* Notify: what it changes, and what it found.
LEMMA NotifyDoes ==
  ASSUME BookingShape, NEW w \in Clerks, NEW j \in job, Notify(w, j)
  PROVE  /\ clerk[w].at = "idle" /\ guard = NoOne /\ OthersKeep(w)
         /\ \/ clerk' = clerk /\ guard' = guard
            \/ /\ clerk'[w].at = "noticing" /\ clerk'[w].job = j /\ guard' = w
               /\ j.revision = appointment[j.appointment].revision
               /\ j.kind = "reminder" => appointment[j.appointment].status = "BOOKED"
<1>1. clerk[w].at = "idle" /\ guard = NoOne
  BY RowsAreRows DEF Notify
<1>2. CASE UNCHANGED <<clerk, guard>>
  BY <1>1, <1>2 DEF OthersKeep
<1>3. CASE /\ Goes(w, [Idle EXCEPT !.at = "noticing", !.job = j]) /\ guard' = w
           /\ j.revision = appointment[j.appointment].revision
           /\ j.kind = "reminder" => appointment[j.appointment].status = "BOOKED"
  <2>1. j \in NoticeJobs
    BY DEF BookingShape
  <2>2. /\ [Idle EXCEPT !.at = "noticing", !.job = j] \in ClerkStates
        /\ [Idle EXCEPT !.at = "noticing", !.job = j].at = "noticing"
        /\ [Idle EXCEPT !.at = "noticing", !.job = j].job = j
    BY <2>1, RowsAreRows DEF Idle, ClerkStates, Executing
  <2> QED BY <1>1, <1>3, <2>2, ClerkGoes DEF OthersKeep
<1> QED BY <1>2, <1>3 DEF Notify

\* No step makes a receipt untrue: an action is claimed once, and its claim is not
\* given up before its receipt.
LEMMA ReceiptsStep ==
  ASSUME BookingShape, WorkPlaced, ClaimsHeld, WritesCounted, BookingReceipts,
         [BookingNext]_bookingVars
  PROVE  ClaimsHeld' /\ WritesCounted' /\ BookingReceipts'
<1>t. receipt \in [Actions -> {"none", "CLAIMED"} \cup Outcomes] /\ writes \in [Actions -> Nat]
  BY DEF BookingShape
<1>p. \A w \in Clerks : Working(w) => clerk[w].action \in Actions
  BY DEF WorkPlaced, ClerkSound, Placed, Executing, Working
<1>n. ASSUME NEW w \in Clerks, OthersKeep(w), UNCHANGED <<receipt, writes>>,
             clerk'[w].at \notin {"claimed", "checked", "answered"}
      PROVE  ClaimsHeld' /\ WritesCounted' /\ BookingReceipts'
  BY <1>n DEF OthersKeep, ClaimsHeld, WritesCounted, BookingReceipts, Working
<1>1. ASSUME NEW w \in Clerks, NEW a \in Actions, Revalidate(w, a)
      PROVE  ClaimsHeld' /\ WritesCounted' /\ BookingReceipts'
  BY <1>1, <1>n, RevalidateDoes DEF Revalidate
<1>2. ASSUME NEW w \in Clerks, Return(w) \/ ClerkDies(w) \/ Prepare(w)
      PROVE  ClaimsHeld' /\ WritesCounted' /\ BookingReceipts'
  BY <1>2, <1>n, RestDoes DEF Return, ClerkDies, Prepare
<1>3. ASSUME NEW w \in Clerks, NEW j \in job, Notify(w, j)
      PROVE  ClaimsHeld' /\ WritesCounted' /\ BookingReceipts'
  BY <1>3, <1>n, NotifyDoes DEF Notify
<1>4. CASE UNCHANGED <<clerk, receipt, writes>>
  BY <1>4 DEF ClaimsHeld, WritesCounted, BookingReceipts, Working
<1>5. ASSUME NEW w \in Clerks, Claim(w) PROVE ClaimsHeld' /\ WritesCounted' /\ BookingReceipts'
  <2> DEFINE a == clerk[w].action
  <2>1. writes' = writes
    BY <1>5 DEF Claim
  <2>2. CASE receipt[a] # "none" /\ clerk'[w].at = "returning" /\ UNCHANGED <<receipt, guard>>
    BY <1>5, <1>n, <2>1, <2>2, ClaimDoes
  <2>3. CASE /\ receipt[a] = "none" /\ receipt' = [receipt EXCEPT ![a] = "CLAIMED"]
             /\ clerk'[w].at = "claimed" \/ (clerk'[w].at = "answered"
                  /\ clerk'[w].result = "REJECTED")
    <3>1. a \in Actions /\ clerk'[w].action = a /\ OthersKeep(w)
      BY <1>5, ClaimDoes
    <3>2. receipt'[a] = "CLAIMED" /\ \A b \in Actions \ {a} : receipt'[b] = receipt[b]
      BY <1>t, <2>3, <3>1
    <3>3. writes[a] = 0
      BY <2>3, <3>1 DEF WritesCounted
    <3>4. \A v \in Clerks \ {w} : Working(v) => clerk[v].action # a
      BY <2>3 DEF ClaimsHeld
    <3> HIDE DEF a
    <3>5. ClaimsHeld'
      BY <1>p, <3>1, <3>2, <3>4 DEF ClaimsHeld, Working, OthersKeep
    <3>6. WritesCounted'
      BY <1>t, <2>1, <2>3, <3>1, <3>2, <3>3 DEF WritesCounted, OthersKeep
    <3>7. BookingReceipts'
      BY <2>1, <3>1, <3>2 DEF BookingReceipts, Actions
    <3> QED BY <3>5, <3>6, <3>7
  <2> QED BY <1>5, <2>2, <2>3, ClaimDoes
<1>6. ASSUME NEW w \in Clerks, Inspect(w) PROVE ClaimsHeld' /\ WritesCounted' /\ BookingReceipts'
  <2>1. writes' = writes /\ receipt' = receipt
    BY <1>6 DEF Inspect
  <2>2. /\ clerk[w].at = "claimed" /\ clerk'[w].action = clerk[w].action /\ OthersKeep(w)
        /\ \/ clerk'[w].at = "checked"
           \/ clerk'[w].at = "answered" /\ clerk'[w].result = "REJECTED"
           \/ /\ clerk'[w].at = "answered" /\ clerk'[w].result = "SUCCEEDED"
              /\ clerk[w].action \in Cancels
    BY <1>6, InspectDoes
  <2>3. ClaimsHeld'
    BY <2>1, <2>2 DEF ClaimsHeld, Working, OthersKeep
  <2>4. WritesCounted'
    BY <2>1, <2>2 DEF WritesCounted, OthersKeep
  <2> QED BY <2>1, <2>3, <2>4 DEF BookingReceipts
<1>7. ASSUME NEW w \in Clerks, Write(w) PROVE ClaimsHeld' /\ WritesCounted' /\ BookingReceipts'
  <2> DEFINE a == clerk[w].action
  <2>1. /\ a \in Actions /\ clerk[w].at = "checked" /\ clerk'[w].at = "answered"
        /\ clerk'[w].action = a /\ OthersKeep(w) /\ receipt' = receipt
    BY <1>7, WriteDoes DEF Write
  <2>2. PICK call \in WriteCalls :
          /\ clerk'[w].result = GoogleResult(call.fault)
          /\ writes' = [writes EXCEPT ![a] = @ + IF call.done THEN 1 ELSE 0]
    BY <1>7, WriteDoes
  <2>3. writes[a] = 0 /\ receipt[a] = "CLAIMED"
    BY <2>1 DEF WritesCounted, ClaimsHeld, Working
  <2>4. /\ writes'[a] = IF call.done THEN 1 ELSE 0
        /\ \A b \in Actions \ {a} : writes'[b] = writes[b]
    BY <1>t, <2>1, <2>2, <2>3
  <2>5. \A v \in Clerks \ {w} : Working(v) => clerk[v].action # a
    BY <2>1 DEF ClaimsHeld, Working
  <2> HIDE DEF a
  <2>6. ClaimsHeld'
    BY <2>1, <2>3, <2>5 DEF ClaimsHeld, Working, OthersKeep, a
  <2>7. WritesCounted'
    <3>1. \A b \in Actions : receipt'[b] = "none" => writes'[b] = 0
      BY <2>1, <2>3, <2>4 DEF WritesCounted
    <3>2. /\ clerk'[w].result # "none" /\ writes'[a] <= 1
          /\ clerk'[w].result \in {"REJECTED", "FAILED"} => writes'[a] = 0
          /\ clerk'[w].result = "SUCCEEDED" => writes'[a] = 1
      BY <2>2, <2>4, WriteCallFacts DEF Outcomes
    <3>3. \A v \in Clerks \ {w} : Working(v) => writes'[clerk[v].action] = writes[clerk[v].action]
      BY <1>p, <2>4, <2>5
    <3> QED BY <2>1, <3>1, <3>2, <3>3 DEF WritesCounted, Working, OthersKeep
  <2>8. BookingReceipts'
    BY <2>1, <2>3, <2>4, WriteCallFacts DEF BookingReceipts, Actions
  <2> QED BY <2>6, <2>7, <2>8
<1>8. ASSUME NEW w \in Clerks, Finish(w) PROVE ClaimsHeld' /\ WritesCounted' /\ BookingReceipts'
  <2> DEFINE a == clerk[w].action
             r == clerk[w].result
  <2>1. /\ a \in Actions /\ clerk[w].at = "answered" /\ clerk'[w].at = "returning"
        /\ OthersKeep(w) /\ writes' = writes
    BY <1>8, FinishDoes DEF Finish
  <2>2. receipt'[a] = r /\ \A b \in Actions \ {a} : receipt'[b] = receipt[b]
    BY <1>8, <1>t, <2>1 DEF Finish
  <2>3. /\ r # "none" /\ writes[a] <= 1
        /\ r \in {"REJECTED", "FAILED"} => writes[a] = 0
        /\ r = "SUCCEEDED" /\ a \notin Cancels => writes[a] = 1
    BY <2>1 DEF WritesCounted, WorkPlaced, ClerkSound
  <2>4. \A v \in Clerks \ {w} : Working(v) => clerk[v].action # a
    BY <2>1 DEF ClaimsHeld, Working
  <2> HIDE DEF a, r
  <2>5. ClaimsHeld'
    BY <1>p, <2>1, <2>2, <2>4 DEF ClaimsHeld, Working, OthersKeep
  <2>6. WritesCounted'
    BY <2>1, <2>2, <2>3 DEF WritesCounted, OthersKeep
  <2>7. BookingReceipts'
    BY <2>1, <2>2, <2>3, BookingConstants DEF BookingReceipts, Actions
  <2> QED BY <2>5, <2>6, <2>7
<1>9. ASSUME NEW a \in Actions, Request(a) PROVE UNCHANGED <<clerk, receipt, writes>>
  BY <1>9 DEF Request
<1>10. ASSUME NEW w \in Clerks, GuardDrops(w) PROVE UNCHANGED <<clerk, receipt, writes>>
  BY <1>10 DEF GuardDrops
<1>11. ASSUME NEW lead \in Leads, Configure(lead) PROVE UNCHANGED <<clerk, receipt, writes>>
  BY <1>11 DEF Configure
<1>12. ASSUME NEW e \in Events, EditCalendar(e) PROVE UNCHANGED <<clerk, receipt, writes>>
  BY <1>12 DEF EditCalendar
<1>13. CASE BookingTick \/ UNCHANGED bookingVars
  BY <1>4, <1>13 DEF BookingTick, bookingVars
<1> QED
  BY <1>1, <1>2, <1>3, <1>4, <1>5, <1>6, <1>7, <1>8, <1>9, <1>10, <1>11, <1>12, <1>13
  DEF BookingNext, BookingWork, BookingMessages

\* A request stays what it was, but for being settled.
LEMMA RequestsKept ==
  ASSUME BookingShape, WorkPlaced, [BookingNext]_bookingVars, NEW b, Placed(b)
  PROVE  /\ request'[b].start = request[b].start
         /\ request'[b].target = request[b].target
         /\ Subject(b)' = Subject(b)
<1>s. \A a \in Actions : request[a] \in ActionRequests
  BY DEF BookingShape
<1>q. request'[b].start = request[b].start /\ request'[b].target = request[b].target
        => Subject(b)' = Subject(b)
  BY DEF Subject
<1>b. b \in Actions /\ request[b].state # "none"
  BY DEF Placed
<1>1. ASSUME NEW a \in Actions, request' = [request EXCEPT ![a].state = "settled"]
      PROVE  request'[b].start = request[b].start /\ request'[b].target = request[b].target
  <2>1. /\ [request[a] EXCEPT !.state = "settled"].start = request[a].start
        /\ [request[a] EXCEPT !.state = "settled"].target = request[a].target
    BY <1>s DEF ActionRequests
  <2> QED BY <1>1, <1>b, <2>1 DEF BookingShape
<1>2. ASSUME NEW a \in Actions, Request(a) PROVE request'[b] = request[b]
  BY <1>2, <1>b DEF Request, BookingShape
<1>3. ASSUME NEW w \in Clerks, NEW a \in Actions, Revalidate(w, a)
      PROVE  request'[b].start = request[b].start /\ request'[b].target = request[b].target
  BY <1>1, <1>3 DEF Revalidate
<1>4. ASSUME NEW w \in Clerks, Return(w)
      PROVE  request'[b].start = request[b].start /\ request'[b].target = request[b].target
  <2>1. clerk[w].action \in Actions
    BY <1>4 DEF Return, WorkPlaced, ClerkSound, Executing, Placed
  <2> QED BY <1>1, <1>4, <2>1 DEF Return
<1>5. ASSUME NEW w \in Clerks,
             \/ Claim(w) \/ Inspect(w) \/ Write(w) \/ Finish(w)
             \/ ClerkDies(w) \/ GuardDrops(w) \/ Prepare(w)
      PROVE  request' = request
  BY <1>5 DEF Claim, Inspect, Write, Finish, ClerkDies, GuardDrops, Prepare
<1>6. ASSUME NEW w \in Clerks, NEW j \in job, Notify(w, j) PROVE request' = request
  BY <1>6 DEF Notify
<1>7. ASSUME NEW lead \in Leads, Configure(lead) PROVE request' = request
  BY <1>7 DEF Configure
<1>8. ASSUME NEW e \in Events, EditCalendar(e) PROVE request' = request
  BY <1>8 DEF EditCalendar
<1>9. CASE BookingTick \/ UNCHANGED bookingVars
  BY <1>9, <1>q DEF BookingTick, bookingVars
<1> QED
  BY <1>q, <1>2, <1>3, <1>4, <1>5, <1>6, <1>7, <1>8, <1>9
  DEF BookingNext, BookingWork, BookingMessages

\* While the lock stands, at most one worker is under it.
LEMMA Alone ==
  ASSUME GuardHeld, ~guardLost, NEW w \in Clerks, Working(w) \/ clerk[w].at = "noticing"
  PROVE  /\ guard = w
         /\ \A v \in Clerks \ {w} : ~Working(v) /\ clerk[v].at # "noticing"
BY DEF GuardHeld

\* The lock stays with the worker under it, until its connection drops.
LEMMA GuardStep ==
  ASSUME BookingShape, WorkPlaced, GuardHeld, [BookingNext]_bookingVars
  PROVE  GuardHeld'
<1>n. ASSUME NEW w \in Clerks, OthersKeep(w), UNCHANGED <<guard, guardLost>>,
             Working(w)' \/ clerk'[w].at = "noticing" => Working(w) \/ clerk[w].at = "noticing"
      PROVE  GuardHeld'
  BY <1>n DEF GuardHeld, OthersKeep, Working
<1>r. ASSUME NEW w \in Clerks, OthersKeep(w), guardLost' = guardLost,
             Releases(w), clerk'[w].at \in {"idle", "returning"}
      PROVE  GuardHeld'
  BY <1>r DEF GuardHeld, OthersKeep, Working, Releases
<1>g. ASSUME NEW w \in Clerks, OthersKeep(w), guard = NoOne, guard' = w, guardLost' = guardLost
      PROVE  GuardHeld'
  BY <1>g, BookingConstants DEF GuardHeld, OthersKeep, Working
<1>1. ASSUME NEW w \in Clerks, NEW a \in Actions, Revalidate(w, a) PROVE GuardHeld'
  BY <1>1, <1>n, RevalidateDoes DEF Revalidate, Working
<1>2. ASSUME NEW w \in Clerks, Claim(w) PROVE GuardHeld'
  BY <1>2, <1>n, <1>g, ClaimDoes DEF Claim, Working
<1>3. ASSUME NEW w \in Clerks, Inspect(w) PROVE GuardHeld'
  BY <1>3, <1>n, InspectDoes DEF Inspect, Working
<1>4. ASSUME NEW w \in Clerks, Write(w) PROVE GuardHeld'
  BY <1>4, <1>n, WriteDoes DEF Write, Working
<1>5. ASSUME NEW w \in Clerks, Finish(w) PROVE GuardHeld'
  BY <1>5, <1>r, FinishDoes DEF Finish
<1>6. ASSUME NEW w \in Clerks, Return(w) PROVE GuardHeld'
  BY <1>6, <1>n, RestDoes DEF Return, Working
<1>7. ASSUME NEW w \in Clerks, ClerkDies(w) \/ Prepare(w) PROVE GuardHeld'
  BY <1>7, <1>r, RestDoes DEF ClerkDies, Prepare
<1>8. ASSUME NEW w \in Clerks, GuardDrops(w) PROVE GuardHeld'
  BY <1>8 DEF GuardDrops, GuardHeld
<1>9. ASSUME NEW w \in Clerks, NEW j \in job, Notify(w, j) PROVE GuardHeld'
  <2>1. CASE clerk' = clerk /\ guard' = guard
    BY <1>9, <2>1 DEF Notify, GuardHeld, Working
  <2>2. CASE guard' = w
    BY <1>9, <1>g, <2>2, NotifyDoes DEF Notify
  <2> QED BY <1>9, <2>1, <2>2, NotifyDoes
<1>10. CASE UNCHANGED <<clerk, guard, guardLost>>
  BY <1>10 DEF GuardHeld, Working
<1>11. ASSUME NEW a \in Actions, Request(a) PROVE UNCHANGED <<clerk, guard, guardLost>>
  BY <1>11 DEF Request
<1>12. ASSUME NEW lead \in Leads, Configure(lead) PROVE UNCHANGED <<clerk, guard, guardLost>>
  BY <1>12 DEF Configure
<1>13. ASSUME NEW e \in Events, EditCalendar(e) PROVE UNCHANGED <<clerk, guard, guardLost>>
  BY <1>13 DEF EditCalendar
<1>14. CASE BookingTick \/ UNCHANGED bookingVars
  BY <1>10, <1>14 DEF BookingTick, bookingVars
<1> QED
  BY <1>1, <1>2, <1>3, <1>4, <1>5, <1>6, <1>7, <1>8, <1>9, <1>10, <1>11, <1>12, <1>13, <1>14
  DEF BookingNext, BookingWork, BookingMessages

\* Only a worker with an answer writes rows, and only of its own appointment.
LEMMA FinishWrites ==
  ASSUME BookingShape, WorkPlaced, ClaimsHeld, NEW w \in Clerks, Finish(w)
  PROVE  LET a == clerk[w].action
             c == Subject(clerk[w].action)
         IN  /\ receipt[a] = "CLAIMED" /\ receipt'[a] = clerk[w].result
             /\ \A b \in Actions \ {a} : receipt'[b] = receipt[b]
             /\ \/ /\ clerk[w].result # "SUCCEEDED"
                   /\ UNCHANGED <<appointment, message>>
                \/ /\ clerk[w].result = "SUCCEEDED"
                   /\ appointment'[c] = Saved(w)
                   /\ \A d \in Creates \ {c} : appointment'[d] = appointment[d]
                   /\ message' = Superseded(c, Saved(w).revision)
<1> DEFINE a == clerk[w].action
           c == Subject(clerk[w].action)
<1>1. a \in Actions /\ c \in Creates /\ clerk[w].at = "answered"
  BY FinishDoes
<1>2. receipt[a] = "CLAIMED"
  BY <1>1 DEF ClaimsHeld, Working
<1>3. receipt' = [receipt EXCEPT ![a] = clerk[w].result]
  BY DEF Finish
<1>4. receipt'[a] = clerk[w].result /\ \A b \in Actions \ {a} : receipt'[b] = receipt[b]
  BY <1>1, <1>3 DEF BookingShape
<1>5. CASE clerk[w].result # "SUCCEEDED"
  BY <1>2, <1>4, <1>5 DEF Finish
<1>6. CASE clerk[w].result = "SUCCEEDED"
  <2>1. /\ appointment' = [appointment EXCEPT ![c] = Saved(w)]
        /\ message' = Superseded(c, Saved(w).revision)
    BY <1>6 DEF Finish
  <2> QED BY <1>1, <1>2, <1>4, <1>6, <2>1 DEF BookingShape
<1> QED BY <1>5, <1>6

\* A row appears with its receipt.
LEMMA RowsReceiptedStep ==
  ASSUME BookingShape, WorkPlaced, ClaimsHeld, RowsReceipted, [BookingNext]_bookingVars
  PROVE  RowsReceipted'
<1>1. ASSUME NEW w \in Clerks, Finish(w) PROVE RowsReceipted'
  <2> DEFINE a == clerk[w].action
             c == Subject(clerk[w].action)
  <2>1. Placed(a) /\ a \in Actions /\ c \in Creates
    BY <1>1, FinishDoes
  <2>2. (a \in Creates => c = a) /\ (a \notin Creates => appointment[c] # NoRow)
    BY <2>1, SubjectPlaced
  <2>3. a \in Creates => appointment[a] = NoRow
    BY <1>1, FinishWrites DEF RowsReceipted
  <2>4. a \notin Creates => receipt[c] = "SUCCEEDED"
    BY <2>1, <2>2 DEF RowsReceipted
  <2>5. c \in Actions
    BY <2>1 DEF Actions
  <2>6. CASE clerk[w].result # "SUCCEEDED"
    <3>1. appointment' = appointment
      BY <1>1, <2>6, FinishWrites
    <3>2. \A b \in Actions : receipt'[b] # "SUCCEEDED" => receipt[b] # "SUCCEEDED"
      BY <1>1, FinishWrites
    <3> QED BY <3>1, <3>2 DEF RowsReceipted, Actions
  <2>7. CASE clerk[w].result = "SUCCEEDED"
    <3>1. receipt'[c] = "SUCCEEDED"
      BY <1>1, <2>2, <2>4, <2>5, <2>7, FinishWrites
    <3>2. \A d \in Creates \ {c} : appointment'[d] = appointment[d]
      BY <1>1, <2>7, FinishWrites
    <3>3. \A d \in Creates \ {c} : receipt'[d] # "SUCCEEDED" => receipt[d] # "SUCCEEDED"
      BY <1>1, FinishWrites DEF Actions
    <3> QED BY <3>1, <3>2, <3>3 DEF RowsReceipted
  <2> QED BY <2>6, <2>7
<1>2. ASSUME NEW w \in Clerks, Claim(w) PROVE RowsReceipted'
  <2>1. clerk[w].action \in Actions /\ appointment' = appointment
    BY <1>2, ClaimDoes DEF Claim
  <2>2. \A b \in Actions : receipt'[b] # "SUCCEEDED" => receipt[b] # "SUCCEEDED"
    BY <1>2, <2>1, ClaimDoes DEF BookingShape
  <2> QED BY <2>1, <2>2 DEF RowsReceipted, Actions
<1>3. CASE UNCHANGED <<receipt, appointment>>
  BY <1>3 DEF RowsReceipted
<1>4. ASSUME NEW w \in Clerks,
             \/ Inspect(w) \/ Write(w) \/ Return(w)
             \/ ClerkDies(w) \/ GuardDrops(w) \/ Prepare(w)
      PROVE  UNCHANGED <<receipt, appointment>>
  BY <1>4 DEF Inspect, Write, Return, ClerkDies, GuardDrops, Prepare
<1>5. ASSUME NEW w \in Clerks, NEW a \in Actions, Revalidate(w, a)
      PROVE  UNCHANGED <<receipt, appointment>>
  BY <1>5 DEF Revalidate
<1>6. ASSUME NEW w \in Clerks, NEW j \in job, Notify(w, j) PROVE UNCHANGED <<receipt, appointment>>
  BY <1>6 DEF Notify
<1>7. ASSUME NEW a \in Actions, Request(a) PROVE UNCHANGED <<receipt, appointment>>
  BY <1>7 DEF Request
<1>8. ASSUME NEW lead \in Leads, Configure(lead) PROVE UNCHANGED <<receipt, appointment>>
  BY <1>8 DEF Configure
<1>9. ASSUME NEW e \in Events, EditCalendar(e) PROVE UNCHANGED <<receipt, appointment>>
  BY <1>9 DEF EditCalendar
<1>10. CASE BookingTick \/ UNCHANGED bookingVars
  BY <1>3, <1>10 DEF BookingTick, bookingVars
<1> QED
  BY <1>1, <1>2, <1>3, <1>4, <1>5, <1>6, <1>7, <1>8, <1>9, <1>10
  DEF BookingNext, BookingWork, BookingMessages

\* Overlapping is mutual.
LEMMA OverlapMeets == \A s, t : Overlap(s, t) <=> Overlap(t, s)
BY DEF Overlap

\* What one worker saw under the lock stands, whatever another does that is not under
\* it.
LEMMA SeenKept ==
  ASSUME BookingShape, WorkPlaced, [BookingNext]_bookingVars, NEW w \in Clerks,
         clerk'[w] = clerk[w], appointment' = appointment,
         \A d \in Creates : Live(d)' /\ d \notin touched' =>
            Live(d) /\ d \notin touched /\ event'[d].start = event[d].start,
         CheckedStands(w), AnsweredStands(w), NoticingStands(w)
  PROVE  CheckedStands(w)' /\ AnsweredStands(w)' /\ NoticingStands(w)'
<1> DEFINE a == clerk[w].action
<1>1. clerk[w].at \in {"checked", "answered"} =>
        /\ Placed(a) /\ request'[a].start = request[a].start /\ Subject(a)' = Subject(a)
  BY RequestsKept DEF WorkPlaced, ClerkSound, Executing
<1>2. CheckedStands(w)'
  <2> SUFFICES ASSUME clerk'[w].at = "checked"
               PROVE  /\ FreeOfRows(request[clerk[w].action].start, Subject(clerk[w].action))'
                      /\ FreeOfEvents(request[clerk[w].action].start, Subject(clerk[w].action))'
                      /\ (clerk[w].action \in Moves)' =>
                            (clerk[w].seen = appointment[Subject(clerk[w].action)])'
    BY DEF CheckedStands
  <2>1. /\ FreeOfRows(request[a].start, Subject(a))
        /\ FreeOfEvents(request[a].start, Subject(a))
        /\ a \in Moves => clerk[w].seen = appointment[Subject(a)]
    BY DEF CheckedStands
  <2>2. FreeOfRows(request[clerk[w].action].start, Subject(clerk[w].action))'
    BY <1>1, <2>1 DEF FreeOfRows, Subject
  <2>3. FreeOfEvents(request[clerk[w].action].start, Subject(clerk[w].action))'
    BY <1>1, <2>1 DEF FreeOfEvents, Subject
  <2> QED BY <1>1, <2>1, <2>2, <2>3 DEF Subject
<1>3. AnsweredStands(w)'
  BY <1>1 DEF AnsweredStands, FreeOfRows, Subject
<1>4. NoticingStands(w)'
  BY DEF NoticingStands
<1> QED BY <1>2, <1>3, <1>4

\* What Inspect found free is free.
LEMMA InspectSeen ==
  ASSUME BookingShape, WorkPlaced, SlotGivenOnce, ~guardLost, NEW w \in Clerks, Inspect(w)
  PROVE  CheckedStands(w)' /\ AnsweredStands(w)' /\ NoticingStands(w)'
<1> DEFINE a == clerk[w].action
           c == Subject(clerk[w].action)
<1>1. /\ appointment' = appointment /\ request' = request /\ event' = event
      /\ touched' = touched
  BY DEF Inspect
<1>2. Placed(a) /\ a \in Actions /\ c \in Creates /\ clerk'[w].action = a
  BY InspectDoes
<1>3. Subject(clerk[w].action)' = c
  BY <1>1, <1>2 DEF Subject
<1>4. CASE clerk'[w].at = "answered" /\ clerk'[w].result = "REJECTED"
  BY <1>4 DEF CheckedStands, AnsweredStands, NoticingStands
<1>5. CASE /\ a \in Cancels /\ clerk'[w].at = "answered" /\ clerk'[w].result = "SUCCEEDED"
           /\ clerk'[w].seen = appointment[c]
  <2>1. appointment[c] # NoRow /\ a \notin Moves
    BY <1>2, <1>5, SubjectPlaced, BookingConstants
  <2>2. FreeOfRows(appointment[c].start, c)
    BY <1>2, <2>1 DEF FreeOfRows, SlotGivenOnce
  <2>3. FreeOfRows(clerk[w].seen.start, Subject(clerk[w].action))'
    BY <1>1, <1>3, <1>5, <2>2 DEF FreeOfRows
  <2> HIDE DEF c
  <2>4. AnsweredStands(w)'
    BY <1>1, <1>2, <1>3, <1>5, <2>1, <2>3 DEF AnsweredStands
  <2> QED BY <1>5, <2>4 DEF CheckedStands, NoticingStands
<1>6. CASE /\ a \notin Cancels /\ clerk'[w].at = "checked" /\ ~Occupied(request[a].start, c)
           /\ clerk'[w].seen = appointment[c]
  <2>1. FreeOfRows(request[a].start, c) /\ FreeOfEvents(request[a].start, c)
    BY <1>6 DEF Occupied, FreeOfRows, FreeOfEvents, Events
  <2>2. /\ FreeOfRows(request[clerk[w].action].start, Subject(clerk[w].action))'
        /\ FreeOfEvents(request[clerk[w].action].start, Subject(clerk[w].action))'
    BY <1>1, <1>2, <1>3, <2>1 DEF FreeOfRows, FreeOfEvents, Live
  <2> HIDE DEF c
  <2>3. CheckedStands(w)'
    BY <1>1, <1>2, <1>3, <1>6, <2>2 DEF CheckedStands
  <2> QED BY <1>6, <2>3 DEF AnsweredStands, NoticingStands
<1> QED BY <1>4, <1>5, <1>6, InspectDoes

\* What Write wrote is what it found free.
LEMMA WriteSeen ==
  ASSUME BookingShape, WorkPlaced, NEW w \in Clerks, CheckedStands(w), Write(w)
  PROVE  CheckedStands(w)' /\ AnsweredStands(w)' /\ NoticingStands(w)'
<1> DEFINE a == clerk[w].action
           c == Subject(clerk[w].action)
<1>1. appointment' = appointment /\ request' = request
  BY DEF Write
<1>2. /\ Placed(a) /\ a \in Actions \ Cancels /\ c \in Creates /\ clerk[w].at = "checked"
      /\ clerk'[w].at = "answered" /\ clerk'[w].action = a
  BY WriteDoes
<1>3. Subject(clerk[w].action)' = c
  BY <1>1, <1>2 DEF Subject
<1>4. PICK call \in WriteCalls :
        /\ clerk'[w].result = GoogleResult(call.fault)
        /\ call.fault = "none" =>
             /\ clerk'[w].seen.start = request[a].start
             /\ a \in Moves => clerk'[w].seen.revision = clerk[w].seen.revision + 1
  BY WriteDoes
<1>5. FreeOfRows(request[a].start, c) /\ (a \in Moves => clerk[w].seen = appointment[c])
  BY <1>2 DEF CheckedStands
<1>6. clerk'[w].result = "SUCCEEDED" => call.fault = "none"
  BY <1>4, WriteCallFacts
<1>7. clerk'[w].result = "SUCCEEDED" =>
        FreeOfRows(clerk[w].seen.start, Subject(clerk[w].action))'
  BY <1>1, <1>3, <1>4, <1>5, <1>6 DEF FreeOfRows
<1>8. clerk'[w].result = "SUCCEEDED" /\ a \in Moves =>
        clerk'[w].seen.revision = appointment[c].revision + 1
  BY <1>4, <1>5, <1>6
<1> HIDE DEF c
<1>9. AnsweredStands(w)'
  BY <1>1, <1>2, <1>3, <1>7, <1>8 DEF AnsweredStands
<1> QED BY <1>2, <1>9 DEF CheckedStands, NoticingStands

\* A lock that is lost is not found again.
LEMMA LostStaysLost == [BookingNext]_bookingVars /\ ~guardLost' => guardLost' = guardLost
BY DEF BookingNext, BookingWork, BookingMessages, bookingVars, Request, Revalidate, Claim,
       Inspect, Write, Finish, Return, ClerkDies, GuardDrops, Configure, EditCalendar, Notify,
       Prepare, BookingTick

\* No step takes away what a worker saw under the lock.
LEMMA SeenStandsStep ==
  ASSUME BookingShape, WorkPlaced, GuardHeld, SeenStands, SlotGivenOnce,
         [BookingNext]_bookingVars
  PROVE  SeenStands'
<1> SUFFICES ASSUME ~guardLost', NEW w \in Clerks
             PROVE  CheckedStands(w)' /\ AnsweredStands(w)' /\ NoticingStands(w)'
  BY DEF SeenStands
<1>a. ~guardLost
  BY LostStaysLost
<1>b. CheckedStands(w) /\ AnsweredStands(w) /\ NoticingStands(w)
  BY <1>a DEF SeenStands
<1>k. ASSUME clerk'[w] = clerk[w], appointment' = appointment,
             \A d \in Creates : Live(d)' /\ d \notin touched' =>
                Live(d) /\ d \notin touched /\ event'[d].start = event[d].start
      PROVE  CheckedStands(w)' /\ AnsweredStands(w)' /\ NoticingStands(w)'
  BY <1>b, <1>k, SeenKept
<1>e. ASSUME clerk'[w] = clerk[w], UNCHANGED <<appointment, event, touched>>
      PROVE  CheckedStands(w)' /\ AnsweredStands(w)' /\ NoticingStands(w)'
  BY <1>e, <1>k DEF Live
<1>t. ASSUME clerk'[w].at \notin {"checked", "answered", "noticing"}
      PROVE  CheckedStands(w)' /\ AnsweredStands(w)' /\ NoticingStands(w)'
  BY <1>t DEF CheckedStands, AnsweredStands, NoticingStands
<1>1. ASSUME NEW v \in Clerks, NEW b \in Actions, Revalidate(v, b)
      PROVE  CheckedStands(w)' /\ AnsweredStands(w)' /\ NoticingStands(w)'
  <2>1. CASE v = w
    BY <1>1, <1>t, <2>1, RevalidateDoes
  <2>2. CASE v # w
    BY <1>1, <1>e, <2>2, RevalidateDoes DEF Revalidate, OthersKeep
  <2> QED BY <2>1, <2>2
<1>2. ASSUME NEW v \in Clerks, Claim(v)
      PROVE  CheckedStands(w)' /\ AnsweredStands(w)' /\ NoticingStands(w)'
  <2>1. CASE v = w
    <3>1. clerk'[w].at = "answered" => clerk'[w].result = "REJECTED"
      BY <1>2, <2>1, ClaimDoes
    <3>2. clerk'[w].at \in {"returning", "claimed", "answered"}
      BY <1>2, <2>1, ClaimDoes
    <3> QED BY <3>1, <3>2 DEF CheckedStands, AnsweredStands, NoticingStands
  <2>2. CASE v # w
    BY <1>2, <1>e, <2>2, ClaimDoes DEF Claim, OthersKeep
  <2> QED BY <2>1, <2>2
<1>3. ASSUME NEW v \in Clerks, Inspect(v)
      PROVE  CheckedStands(w)' /\ AnsweredStands(w)' /\ NoticingStands(w)'
  <2>1. CASE v = w
    BY <1>3, <1>a, <2>1, InspectSeen
  <2>2. CASE v # w
    BY <1>3, <1>e, <2>2, InspectDoes DEF Inspect, OthersKeep
  <2> QED BY <2>1, <2>2
<1>4. ASSUME NEW v \in Clerks, Write(v)
      PROVE  CheckedStands(w)' /\ AnsweredStands(w)' /\ NoticingStands(w)'
  <2>1. CASE v = w
    BY <1>4, <1>b, <2>1, WriteSeen
  <2>2. CASE v # w
    <3>1. clerk[v].at = "checked" /\ clerk'[w] = clerk[w]
      BY <1>4, <2>2, WriteDoes DEF OthersKeep
    <3>2. ~Working(w) /\ clerk[w].at # "noticing"
      BY <1>a, <2>2, <3>1, Alone DEF Working
    <3> QED BY <1>t, <3>1, <3>2 DEF Working
  <2> QED BY <2>1, <2>2
<1>5. ASSUME NEW v \in Clerks, Finish(v)
      PROVE  CheckedStands(w)' /\ AnsweredStands(w)' /\ NoticingStands(w)'
  <2>1. CASE v = w
    BY <1>5, <1>t, <2>1, FinishDoes
  <2>2. CASE v # w
    <3>1. clerk[v].at = "answered" /\ clerk'[w] = clerk[w]
      BY <1>5, <2>2, FinishDoes DEF OthersKeep
    <3>2. ~Working(w) /\ clerk[w].at # "noticing"
      BY <1>a, <2>2, <3>1, Alone DEF Working
    <3> QED BY <1>t, <3>1, <3>2 DEF Working
  <2> QED BY <2>1, <2>2
<1>6. ASSUME NEW v \in Clerks, Return(v) \/ ClerkDies(v) \/ Prepare(v)
      PROVE  CheckedStands(w)' /\ AnsweredStands(w)' /\ NoticingStands(w)'
  <2>1. CASE v = w
    BY <1>6, <1>t, <2>1, RestDoes
  <2>2. CASE v # w
    BY <1>6, <1>e, <2>2, RestDoes DEF Return, ClerkDies, Prepare, OthersKeep
  <2> QED BY <2>1, <2>2
<1>7. ASSUME NEW v \in Clerks, NEW j \in job, Notify(v, j)
      PROVE  CheckedStands(w)' /\ AnsweredStands(w)' /\ NoticingStands(w)'
  <2>0. UNCHANGED <<appointment, event, touched>>
    BY <1>7 DEF Notify
  <2>1. CASE clerk'[w] = clerk[w]
    BY <1>e, <2>0, <2>1
  <2>2. CASE /\ v = w /\ clerk'[w].at = "noticing" /\ clerk'[w].job = j
             /\ j.revision = appointment[j.appointment].revision
             /\ j.kind = "reminder" => appointment[j.appointment].status = "BOOKED"
    BY <2>0, <2>2 DEF CheckedStands, AnsweredStands, NoticingStands
  <2> QED BY <1>7, <2>1, <2>2, NotifyDoes DEF OthersKeep
<1>8. ASSUME NEW v \in Clerks, GuardDrops(v)
      PROVE  CheckedStands(w)' /\ AnsweredStands(w)' /\ NoticingStands(w)'
  BY <1>8 DEF GuardDrops
<1>9. ASSUME NEW e \in Events, EditCalendar(e)
      PROVE  CheckedStands(w)' /\ AnsweredStands(w)' /\ NoticingStands(w)'
  <2>1. /\ clerk' = clerk /\ appointment' = appointment /\ touched' = touched \cup {e}
        /\ \A d \in Events \ {e} : event'[d] = event[d]
    BY <1>9 DEF EditCalendar, BookingShape
  <2> QED BY <1>k, <2>1 DEF Live, Events
<1>10. ASSUME NEW a \in Actions, Request(a)
       PROVE  CheckedStands(w)' /\ AnsweredStands(w)' /\ NoticingStands(w)'
  BY <1>10, <1>e DEF Request
<1>11. ASSUME NEW lead \in Leads, Configure(lead)
       PROVE  CheckedStands(w)' /\ AnsweredStands(w)' /\ NoticingStands(w)'
  BY <1>11, <1>e DEF Configure
<1>12. CASE BookingTick \/ UNCHANGED bookingVars
  BY <1>12, <1>e DEF BookingTick, bookingVars
<1> QED
  BY <1>1, <1>2, <1>3, <1>4, <1>5, <1>6, <1>7, <1>8, <1>9, <1>10, <1>11, <1>12
  DEF BookingNext, BookingWork, BookingMessages

\* No step gives a time to two appointments.
LEMMA SlotsStep ==
  ASSUME BookingShape, WorkPlaced, ClaimsHeld, SeenStands, SlotGivenOnce,
         [BookingNext]_bookingVars
  PROVE  SlotGivenOnce'
<1> SUFFICES ASSUME ~guardLost'
             PROVE  \A c, d \in Creates : c # d =>
                      /\ appointment'[c] # NoRow /\ appointment'[d] # NoRow
                           => ~Overlap(appointment'[c].start, appointment'[d].start)
                      /\ event'[c].status = "confirmed" /\ event'[d].status = "confirmed"
                           /\ c \notin touched' /\ d \notin touched'
                           => ~Overlap(event'[c].start, event'[d].start)
  BY DEF SlotGivenOnce, Overlap, Live
<1>a. ~guardLost
  BY LostStaysLost
<1>b. \A c, d \in Creates : c # d =>
        /\ appointment[c] # NoRow /\ appointment[d] # NoRow
             => ~Overlap(appointment[c].start, appointment[d].start)
        /\ Live(c) /\ Live(d) /\ c \notin touched /\ d \notin touched
             => ~Overlap(event[c].start, event[d].start)
  BY <1>a DEF SlotGivenOnce
<1>1. ASSUME NEW w \in Clerks, Finish(w), NEW c \in Creates, NEW d \in Creates, c # d
      PROVE  /\ appointment'[c] # NoRow /\ appointment'[d] # NoRow
                  => ~Overlap(appointment'[c].start, appointment'[d].start)
             /\ event'[c].status = "confirmed" /\ event'[d].status = "confirmed"
                  /\ c \notin touched' /\ d \notin touched'
                  => ~Overlap(event'[c].start, event'[d].start)
  <2> DEFINE a == clerk[w].action
             own == Subject(clerk[w].action)
  <2>1. event' = event /\ touched' = touched
    BY <1>1 DEF Finish
  <2>2. CASE clerk[w].result # "SUCCEEDED"
    BY <1>1, <1>b, <2>1, <2>2, FinishWrites DEF Live
  <2>3. CASE clerk[w].result = "SUCCEEDED"
    <3>1. /\ appointment'[own] = Saved(w) /\ own \in Creates
          /\ \A o \in Creates \ {own} : appointment'[o] = appointment[o]
      BY <1>1, <2>3, FinishWrites, FinishDoes
    <3>2. FreeOfRows(clerk[w].seen.start, own) /\ Saved(w).start = clerk[w].seen.start
      BY <1>1, <1>a, <2>3, FinishDoes DEF SeenStands, AnsweredStands
    <3> HIDE DEF own
    <3>3. \A o \in Creates \ {own} : appointment'[o] # NoRow =>
            ~Overlap(appointment'[own].start, appointment'[o].start)
      BY <3>1, <3>2 DEF FreeOfRows
    <3>4. appointment'[c] # NoRow /\ appointment'[d] # NoRow
            => ~Overlap(appointment'[c].start, appointment'[d].start)
      <4>1. CASE c = own
        BY <1>1, <3>3, <4>1
      <4>2. CASE d = own
        BY <1>1, <3>3, <4>2, OverlapMeets
      <4>3. CASE c # own /\ d # own
        BY <1>1, <1>b, <3>1, <4>3
      <4> QED BY <4>1, <4>2, <4>3
    <3> QED BY <1>1, <1>b, <2>1, <3>4 DEF Live
  <2> QED BY <2>2, <2>3
<1>2. ASSUME NEW w \in Clerks, Write(w), NEW c \in Creates, NEW d \in Creates, c # d
      PROVE  /\ appointment'[c] # NoRow /\ appointment'[d] # NoRow
                  => ~Overlap(appointment'[c].start, appointment'[d].start)
             /\ event'[c].status = "confirmed" /\ event'[d].status = "confirmed"
                  /\ c \notin touched' /\ d \notin touched'
                  => ~Overlap(event'[c].start, event'[d].start)
  <2> DEFINE a == clerk[w].action
             own == Subject(clerk[w].action)
  <2>1. /\ appointment' = appointment /\ touched' = touched
        /\ event' = event \/ event' = Written(w)
    BY <1>2, WriteDoes DEF Write
  <2>2. /\ own \in Creates
        /\ \A e \in Events \ {own} : event'[e] = event[e]
        /\ event'[own] = event[own] \/ event'[own].start = request[a].start
    BY <1>2, <2>1, WriteDoes, CalendarWritten
  <2>3. FreeOfEvents(request[a].start, own)
    BY <1>2, <1>a, WriteDoes DEF SeenStands, CheckedStands
  <2> HIDE DEF own, a
  <2>4. \A o \in Creates \ {own} :
          event'[own].status = "confirmed" /\ event'[o].status = "confirmed"
            /\ own \notin touched' /\ o \notin touched'
            => ~Overlap(event'[own].start, event'[o].start)
    <3> SUFFICES ASSUME NEW o \in Creates, o # own, event'[own].status = "confirmed",
          event'[o].status = "confirmed",
                        own \notin touched' /\ o \notin touched'
                 PROVE  ~Overlap(event'[own].start, event'[o].start)
      OBVIOUS
    <3>1. event'[o] = event[o] /\ Live(o) /\ o \notin touched /\ own \notin touched
      BY <2>1, <2>2 DEF Live, Events
    <3>2. CASE event'[own] = event[own]
      <4>1. Live(own)
        BY <3>2 DEF Live
      <4>2. ~Overlap(event[own].start, event[o].start)
        BY <1>b, <2>2, <3>1, <4>1
      <4> QED BY <3>1, <3>2, <4>2
    <3>3. CASE event'[own].start = request[a].start
      BY <2>3, <3>1, <3>3 DEF FreeOfEvents
    <3> QED BY <2>2, <3>2, <3>3
  <2>5. event'[c].status = "confirmed" /\ event'[d].status = "confirmed" /\ c \notin touched'
        /\ d \notin touched'
          => ~Overlap(event'[c].start, event'[d].start)
    <3>1. CASE c = own
      BY <1>2, <2>4, <3>1
    <3>2. CASE d = own
      BY <1>2, <2>4, <3>2, OverlapMeets
    <3>3. CASE c # own /\ d # own
      BY <1>2, <1>b, <2>1, <2>2, <3>3 DEF Live, Events
    <3> QED BY <3>1, <3>2, <3>3
  <2> QED BY <1>2, <1>b, <2>1, <2>5
<1>3. ASSUME NEW e \in Events, EditCalendar(e), NEW c \in Creates, NEW d \in Creates, c # d
      PROVE  /\ appointment'[c] # NoRow /\ appointment'[d] # NoRow
                  => ~Overlap(appointment'[c].start, appointment'[d].start)
             /\ event'[c].status = "confirmed" /\ event'[d].status = "confirmed"
                  /\ c \notin touched' /\ d \notin touched'
                  => ~Overlap(event'[c].start, event'[d].start)
  <2>1. /\ appointment' = appointment /\ touched' = touched \cup {e}
        /\ \A o \in Events \ {e} : event'[o] = event[o]
    BY <1>3 DEF EditCalendar, BookingShape
  <2> QED BY <1>3, <1>b, <2>1 DEF Live, Events
<1>4. CASE UNCHANGED <<appointment, event, touched>>
  BY <1>4, <1>b DEF Live
<1>5. ASSUME NEW w \in Clerks,
             \/ Claim(w) \/ Inspect(w) \/ Return(w)
             \/ ClerkDies(w) \/ GuardDrops(w) \/ Prepare(w)
      PROVE  UNCHANGED <<appointment, event, touched>>
  BY <1>5 DEF Claim, Inspect, Return, ClerkDies, GuardDrops, Prepare
<1>6. ASSUME NEW w \in Clerks, NEW a \in Actions, Revalidate(w, a)
      PROVE  UNCHANGED <<appointment, event, touched>>
  BY <1>6 DEF Revalidate
<1>7. ASSUME NEW w \in Clerks, NEW j \in job, Notify(w, j)
      PROVE  UNCHANGED <<appointment, event, touched>>
  BY <1>7 DEF Notify
<1>8. ASSUME NEW a \in Actions, Request(a) PROVE UNCHANGED <<appointment, event, touched>>
  BY <1>8 DEF Request
<1>9. ASSUME NEW lead \in Leads, Configure(lead) PROVE UNCHANGED <<appointment, event, touched>>
  BY <1>9 DEF Configure
<1>10. CASE BookingTick \/ UNCHANGED bookingVars
  BY <1>4, <1>10 DEF BookingTick, bookingVars
<1> QED
  BY <1>1, <1>2, <1>3, <1>4, <1>5, <1>6, <1>7, <1>8, <1>9, <1>10
  DEF BookingNext, BookingWork, BookingMessages

\* A finished action raises the revision of its row by one, or leaves it.
LEMMA NextRevision ==
  ASSUME BookingShape, WorkPlaced, ClaimsHeld, RowsReceipted, SeenStands, ~guardLost,
         NEW w \in Clerks, Finish(w), clerk[w].result = "SUCCEEDED"
  PROVE  Saved(w).revision = appointment[Subject(clerk[w].action)].revision + 1
<1> DEFINE a == clerk[w].action
           c == Subject(clerk[w].action)
<1>1. /\ Placed(a) /\ a \in Actions /\ c \in Creates /\ clerk[w].at = "answered"
      /\ a \in Cancels => Saved(w).revision = clerk[w].seen.revision + 1
      /\ a \notin Cancels => Saved(w) = clerk[w].seen
  BY FinishDoes
<1>2. /\ a \in Moves => clerk[w].seen.revision = appointment[c].revision + 1
      /\ a \in Cancels => clerk[w].seen = appointment[c]
  BY <1>1 DEF SeenStands, AnsweredStands
<1>3. CASE a \in Creates
  <2>1. clerk[w].seen.revision = 1
    BY <1>1, <1>3 DEF WorkPlaced, ClerkSound
  <2>2. c = a /\ appointment[a] = NoRow
    BY <1>1, <1>3, SubjectPlaced, FinishWrites DEF RowsReceipted
  <2>3. NoRow.revision = 0
    BY DEF NoRow
  <2> HIDE DEF a, c
  <2>4. Saved(w) = clerk[w].seen
    BY <1>1, <1>3, BookingConstants
  <2>5. appointment[c].revision = 0
    BY <2>2, <2>3
  <2> QED BY <2>1, <2>4, <2>5 DEF c, a
<1>4. CASE a \in Moves
  BY <1>1, <1>2, <1>4, BookingConstants
<1>5. CASE a \in Cancels
  BY <1>1, <1>2, <1>5
<1> QED BY <1>1, <1>3, <1>4, <1>5 DEF Actions

\* No message goes out of date: one that was prepared is of a revision that the row
\* had, and a reminder of a booked one.
LEMMA NoticesStep ==
  ASSUME BookingShape, WorkPlaced, ClaimsHeld, RowsReceipted, SeenStands, NoticesCurrent,
         [BookingNext]_bookingVars
  PROVE  NoticesCurrent'
<1> SUFFICES ASSUME ~guardLost', NEW k \in Keys, message'[k] = "PREPARED"
             PROVE  /\ k.revision = appointment'[k.appointment].revision
                    /\ k.kind = "reminder" => appointment'[k.appointment].status = "BOOKED"
  BY DEF NoticesCurrent
<1>a. ~guardLost
  BY LostStaysLost
<1>b. message[k] = "PREPARED" =>
        /\ k.revision = appointment[k.appointment].revision
        /\ k.kind = "reminder" => appointment[k.appointment].status = "BOOKED"
  BY <1>a DEF NoticesCurrent
<1>c. k.appointment \in Creates
  BY DEF Keys
<1>1. ASSUME NEW w \in Clerks, Finish(w)
      PROVE  /\ k.revision = appointment'[k.appointment].revision
             /\ k.kind = "reminder" => appointment'[k.appointment].status = "BOOKED"
  <2> DEFINE own == Subject(clerk[w].action)
  <2>1. CASE clerk[w].result # "SUCCEEDED"
    BY <1>1, <1>b, <2>1, FinishWrites
  <2>2. CASE clerk[w].result = "SUCCEEDED"
    <3>1. /\ \A o \in Creates \ {own} : appointment'[o] = appointment[o]
          /\ message' = Superseded(own, Saved(w).revision)
      BY <1>1, <2>2, FinishWrites
    <3>2. Saved(w).revision = appointment[own].revision + 1
      BY <1>1, <1>a, <2>2, NextRevision
    <3> HIDE DEF own
    <3>3. message[k] = "PREPARED" /\ ~(k.appointment = own /\ k.revision + 1 = Saved(w).revision)
      BY <3>1 DEF Superseded
    <3>4. k.appointment # own
      BY <1>b, <3>2, <3>3
    <3> QED BY <1>b, <1>c, <3>1, <3>3, <3>4
  <2> QED BY <2>1, <2>2
<1>2. ASSUME NEW w \in Clerks, Prepare(w)
      PROVE  /\ k.revision = appointment'[k.appointment].revision
             /\ k.kind = "reminder" => appointment'[k.appointment].status = "BOOKED"
  <2> DEFINE j == clerk[w].job
  <2>1. /\ appointment' = appointment /\ clerk[w].at = "noticing"
        /\ message' = message \/ message' = [message EXCEPT ![Key(j)] = "PREPARED"]
    BY <1>2 DEF Prepare
  <2>2. message[k] = "PREPARED" \/ k = Key(j)
    BY <2>1 DEF BookingShape
  <2>3. /\ j.revision = appointment[j.appointment].revision
        /\ j.kind = "reminder" => appointment[j.appointment].status = "BOOKED"
    BY <1>a, <2>1 DEF SeenStands, NoticingStands
  <2> QED BY <1>b, <2>1, <2>2, <2>3 DEF Key
<1>3. CASE UNCHANGED <<appointment, message>>
  BY <1>3, <1>b
<1>4. ASSUME NEW w \in Clerks,
             \/ Claim(w) \/ Inspect(w) \/ Write(w) \/ Return(w) \/ ClerkDies(w) \/ GuardDrops(w)
      PROVE  UNCHANGED <<appointment, message>>
  BY <1>4 DEF Claim, Inspect, Write, Return, ClerkDies, GuardDrops
<1>5. ASSUME NEW w \in Clerks, NEW a \in Actions, Revalidate(w, a)
      PROVE  UNCHANGED <<appointment, message>>
  BY <1>5 DEF Revalidate
<1>6. ASSUME NEW w \in Clerks, NEW j \in job, Notify(w, j) PROVE UNCHANGED <<appointment, message>>
  BY <1>6 DEF Notify
<1>7. ASSUME NEW a \in Actions, Request(a) PROVE UNCHANGED <<appointment, message>>
  BY <1>7 DEF Request
<1>8. ASSUME NEW lead \in Leads, Configure(lead) PROVE UNCHANGED <<appointment, message>>
  BY <1>8 DEF Configure
<1>9. ASSUME NEW e \in Events, EditCalendar(e) PROVE UNCHANGED <<appointment, message>>
  BY <1>9 DEF EditCalendar
<1>10. CASE BookingTick \/ UNCHANGED bookingVars
  BY <1>3, <1>10 DEF BookingTick, bookingVars
<1> QED
  BY <1>1, <1>2, <1>3, <1>4, <1>5, <1>6, <1>7, <1>8, <1>9, <1>10
  DEF BookingNext, BookingWork, BookingMessages

\* The initial states satisfy the inductive invariant.
LEMMA BookingStart == BookingInit => BookingInv
<1> SUFFICES ASSUME BookingInit PROVE BookingInv
  OBVIOUS
<1>1. BookingShape /\ WorkPlaced
  BY BookingShapeInit
<1>2. /\ \A w \in Clerks : clerk[w].at = "idle"
      /\ \A a \in Actions : receipt[a] = "none" /\ writes[a] = 0
      /\ \A c \in Creates : appointment[c] = NoRow /\ ~Live(c)
      /\ \A k \in Keys : message[k] = "none"
  BY RowsAreRows DEF BookingInit, Live, NoEvent, Events
<1>3. ClaimsHeld /\ WritesCounted
  BY <1>2 DEF ClaimsHeld, WritesCounted, Working
<1>4. BookingReceipts /\ GuardHeld
  BY <1>2 DEF BookingReceipts, GuardHeld, Working, Actions
<1>5. RowsReceipted /\ SeenStands
  BY <1>2 DEF RowsReceipted, SeenStands, CheckedStands, AnsweredStands, NoticingStands
<1>6. SlotGivenOnce /\ NoticesCurrent
  BY <1>2 DEF SlotGivenOnce, NoticesCurrent
<1> QED BY <1>1, <1>3, <1>4, <1>5, <1>6 DEF BookingInv

\* No step leaves it.
LEMMA BookingStep == BookingInv /\ [BookingNext]_bookingVars => BookingInv'
<1> SUFFICES ASSUME BookingInv, [BookingNext]_bookingVars PROVE BookingInv'
  OBVIOUS
<1> USE DEF BookingInv
<1>1. BookingShape' /\ WorkPlaced'
  BY BookingShapeStep
<1>2. ClaimsHeld' /\ WritesCounted' /\ BookingReceipts'
  BY ReceiptsStep
<1>3. GuardHeld' /\ RowsReceipted'
  BY GuardStep, RowsReceiptedStep
<1>4. SeenStands'
  BY SeenStandsStep
<1>5. SlotGivenOnce' /\ NoticesCurrent'
  BY SlotsStep, NoticesStep
<1> QED BY <1>1, <1>2, <1>3, <1>4, <1>5

\* Every reachable state of the calendar, for any appointments, actions and workers,
\* satisfies the inductive invariant.
THEOREM BookingInvariant == BookingSpec => []BookingInv
BY BookingStart, BookingStep, PTL DEF BookingSpec

\* Booking: every variable keeps its type.
THEOREM BookingTyped == BookingSpec => []BookingTypeOK
<1>1. BookingInv => BookingTypeOK
  BY DEF BookingInv, BookingShape, BookingTypeOK, EventRows, AppointmentRows, ClerkStates
<1> QED BY <1>1, BookingInvariant, PTL

\* AppointmentsService._perform: however often an action is executed, the calendar is
\* asked once at most to perform it, and the receipt never says the opposite of what
\* happened there.
THEOREM BookingReceiptsHold == BookingSpec => []BookingReceipts
<1>1. BookingInv => BookingReceipts
  BY DEF BookingInv
<1> QED BY <1>1, BookingInvariant, PTL

\* AppointmentsService._perform: while the advisory lock of the calendar stands, no
\* two appointments are given the same time, whatever executions overlap or die.
THEOREM SlotGivenOnceHolds == BookingSpec => []SlotGivenOnce
<1>1. BookingInv => SlotGivenOnce
  BY DEF BookingInv
<1> QED BY <1>1, BookingInvariant, PTL

\* AppointmentsService._queue_communications and prepare_appointment_notification:
\* what is sent about an appointment is of the revision it has when it is prepared,
\* whatever moves and cancellations come in between.
THEOREM NoticesCurrentHolds == BookingSpec => []NoticesCurrent
<1>1. BookingInv => NoticesCurrent
  BY DEF BookingInv
<1> QED BY <1>1, BookingInvariant, PTL

--------------------------------------------------------------------------------
\* Orders: NoLostUpdate and OrderReceipts.

\* The order in the shop, as far as it matters: its version, its notes, its
\* cancellation and who changed it last.
OrderRows ==
  [version: Nat, open: BOOLEAN, marks: SUBSET OrderActions, cancellation: BOOLEAN,
   lastBy: OrderActions \cup {Staff}]

\* A confirmed action on the order, with the version it was confirmed on.
OrderRequests == [state: {"none", "confirmed", "settled"}, expected: Nat, binding: Nat]

\* What a worker of the orders can be at.
WorkerPlaces == {"resting", "permitted", "claimed", "leasing", "read", "answered", "returning"}

\* What a worker of the orders remembers.
WorkerStates ==
  [at: WorkerPlaces, action: OrderActions \cup {Nobody}, result: {"none"} \cup OrderOutcomes]

\* The types.
OrdersShape ==
  /\ connector \in Connectors
  /\ order \in OrderRows
  /\ binding \in Nat
  /\ connected \in BOOLEAN
  /\ ordered \in [OrderActions -> OrderRequests]
  /\ orderReceipt \in [OrderActions -> {"none", "CLAIMED"} \cup OrderOutcomes]
  /\ actionLock \in [OrderActions -> Workers \cup {Nobody}]
  /\ lease \in Workers \cup {Nobody}
  /\ leaseLost \in BOOLEAN
  /\ worker \in [Workers -> WorkerStates]
  /\ applied \in [OrderActions -> Nat]

\* A worker is at a requested action, and one with an answer has an outcome.
OrderWork ==
  \A w \in Workers :
    /\ worker[w].at # "resting" =>
         worker[w].action \in OrderActions /\ ordered[worker[w].action].state # "none"
    /\ worker[w].at = "answered" => worker[w].result # "none"

\* A worker between the claim of an action and its receipt.
Serving(w) == worker[w].at \in {"claimed", "leasing", "read", "answered"}

\* A worker that serves an action holds the claim on it, alone.
OrderClaims ==
  \A w \in Workers : Serving(w) =>
    /\ orderReceipt[worker[w].action] = "CLAIMED"
    /\ \A v \in Workers : v # w /\ Serving(v) => worker[v].action # worker[w].action

\* The marks on the order agree with how often each action was applied, and that with
\* the receipt, and before it with what the worker knows.
AppliedCounted ==
  /\ \A a \in OrderActions :
       /\ orderReceipt[a] = "none" => applied[a] = 0
       /\ Marked(a) <=> applied[a] # 0
  /\ \A w \in Workers :
       LET a == worker[w].action IN
       /\ worker[w].at \in {"claimed", "leasing", "read"} => applied[a] = 0
       /\ worker[w].at = "answered" =>
            /\ applied[a] <= 1
            /\ worker[w].result \in {"REJECTED", "FAILED"} => applied[a] = 0
            /\ worker[w].result = "SUCCEEDED" => applied[a] = 1

\* While no lease is lost: whoever is past it holds it, and the version it found
\* current still is, but for the staff of the shop.
LeaseFresh ==
  ~leaseLost =>
    \A w \in Workers :
      /\ worker[w].at \in {"leasing", "read"} => lease = w
      /\ worker[w].at = "read" =>
           \/ order.version = ordered[worker[w].action].expected
           \/ order.lastBy = Staff

\* The inductive invariant of the orders.
OrdersInv ==
  /\ OrdersShape /\ OrderWork
  /\ OrderClaims /\ AppliedCounted /\ OrderReceipts
  /\ LeaseFresh

\* The constants, as Orders assumes them.
LEMMA OrderConstants ==
  Nobody \notin Workers /\ Nobody \notin OrderActions /\ Staff \notin OrderActions
BY OrdersAssumption

\* What the outcome of a call to the shop says of the order: a rejection and a failure
\* leave it alone, a success does not.
LEMMA OrderCallFacts ==
  ASSUME NEW call \in WriteCalls, connector \in Connectors
  PROVE  /\ call.done \in BOOLEAN
         /\ OrderResult(call.fault) \in OrderOutcomes
         /\ OrderResult(call.fault) \in {"REJECTED", "FAILED"} => ~call.done
         /\ OrderResult(call.fault) = "SUCCEEDED" => call.done
<1>1. PICK f \in CallFaults : \E d \in Done(f) : call = [fault |-> f, done |-> d]
  BY DEF WriteCalls
<1>2. call.fault = f /\ call.done \in Done(f)
  BY <1>1
<1>3. CASE connector = "woocommerce"
  BY <1>2, <1>3 DEF CallFaults, Done, OrderResult, WooResult, WooUnknown, OrderOutcomes
<1>4. CASE connector = "google_sheets"
  <2>1. GoogleResult(f) \in OrderOutcomes /\ SheetResult(f) \in OrderOutcomes
    BY <1>1 DEF GoogleResult, SheetResult, OrderOutcomes, Unknown, CallFaults
  <2>2. SheetResult(f) = "SUCCEEDED" => GoogleResult(f) = "SUCCEEDED"
    BY DEF SheetResult
  <2>3. SheetResult(f) \in {"REJECTED", "FAILED"} => GoogleResult(f) \in {"REJECTED", "FAILED"}
    <3>1. f \in {"unreachable", "throttled"} => GoogleResult(f) = "FAILED"
      BY DEF GoogleResult, Unknown
    <3>2. CASE GoogleResult(f) \in {"SUCCEEDED", "UNCERTAIN"}
      BY <3>1, <3>2 DEF SheetResult
    <3> QED BY <2>1, <3>2 DEF OrderOutcomes
  <2>4. /\ GoogleResult(f) = "SUCCEEDED" => f = "none"
        /\ GoogleResult(f) \in {"REJECTED", "FAILED"} =>
             f \in {"refused", "unreachable", "throttled", "client_error"}
    BY <1>1 DEF GoogleResult, Unknown, CallFaults
  <2>5. OrderResult(f) = SheetResult(f)
    BY <1>4 DEF OrderResult
  <2>6. /\ f = "none" => Done(f) = {TRUE}
        /\ f \in {"refused", "unreachable", "throttled", "client_error"} => Done(f) = {FALSE}
        /\ call.done \in BOOLEAN
    BY <1>1, <1>2 DEF Done, CallFaults
  <2> QED BY <1>2, <2>1, <2>2, <2>3, <2>4, <2>5, <2>6
<1> QED BY <1>3, <1>4 DEF Connectors

\* The initial records are records.
LEMMA RestingFacts == Resting \in WorkerStates /\ Resting.at = "resting" /\ NoAction.state = "none"
  /\ NoAction \in OrderRequests
BY DEF Resting, WorkerStates, WorkerPlaces, NoAction, OrderRequests

\* The other workers stay where they are.
WorkersKeep(w) == \A v \in Workers \ {w} : worker'[v] = worker[v]

\* A step of a worker changes that worker only.
LEMMA WorkerBecomes ==
  ASSUME OrdersShape, NEW w \in Workers, NEW record \in WorkerStates, Becomes(w, record)
  PROVE  worker' \in [Workers -> WorkerStates] /\ worker'[w] = record /\ WorkersKeep(w)
BY DEF OrdersShape, Becomes, WorkersKeep

\* A worker that goes on remembers its action.
LEMMA WorkerGoesTo ==
  ASSUME OrdersShape, NEW w \in Workers, NEW at \in WorkerPlaces,
         Becomes(w, [worker[w] EXCEPT !.at = at])
  PROVE  /\ worker' \in [Workers -> WorkerStates] /\ WorkersKeep(w)
         /\ worker'[w].at = at /\ worker'[w].action = worker[w].action
         /\ worker'[w].result = worker[w].result
<1>1. worker[w] \in WorkerStates
  BY DEF OrdersShape
<1>2. /\ [worker[w] EXCEPT !.at = at] \in WorkerStates
      /\ [worker[w] EXCEPT !.at = at].at = at
      /\ [worker[w] EXCEPT !.at = at].action = worker[w].action
      /\ [worker[w] EXCEPT !.at = at].result = worker[w].result
  BY <1>1 DEF WorkerStates
<1> QED BY <1>2, WorkerBecomes

\* A worker with an answer remembers its action.
LEMMA WorkerEnds ==
  ASSUME OrdersShape, NEW w \in Workers, NEW at \in WorkerPlaces, NEW r \in OrderOutcomes,
         Becomes(w, [worker[w] EXCEPT !.at = at, !.result = r])
  PROVE  /\ worker' \in [Workers -> WorkerStates] /\ WorkersKeep(w)
         /\ worker'[w].at = at /\ worker'[w].action = worker[w].action
         /\ worker'[w].result = r
<1>1. worker[w] \in WorkerStates
  BY DEF OrdersShape
<1>2. /\ [worker[w] EXCEPT !.at = at, !.result = r] \in WorkerStates
      /\ [worker[w] EXCEPT !.at = at, !.result = r].at = at
      /\ [worker[w] EXCEPT !.at = at, !.result = r].action = worker[w].action
      /\ [worker[w] EXCEPT !.at = at, !.result = r].result = r
  BY <1>1 DEF WorkerStates
<1> QED BY <1>2, WorkerBecomes

\* A worker that returns an outcome remembers its action.
LEMMA WorkerReports ==
  ASSUME OrdersShape, NEW w \in Workers, NEW r \in OrderOutcomes, Reports(w, r)
  PROVE  /\ worker' \in [Workers -> WorkerStates] /\ WorkersKeep(w)
         /\ worker'[w].at = "answered" /\ worker'[w].action = worker[w].action
         /\ worker'[w].result \in {r, "UNCERTAIN"}
<1>1. PICK x \in {r, "UNCERTAIN"} : Becomes(w, [worker[w] EXCEPT !.at = "answered", !.result = x])
  BY DEF Reports, Answers
<1>2. x \in OrderOutcomes
  BY DEF OrderOutcomes
<1> QED BY <1>1, <1>2, WorkerEnds DEF WorkerPlaces

\* ClaimOrReplay: what it changes, and what it found.
LEMMA ClaimOrReplayDoes ==
  ASSUME OrdersShape, OrderWork, NEW w \in Workers, ClaimOrReplay(w)
  PROVE  LET a == worker[w].action IN
         /\ worker' \in [Workers -> WorkerStates] /\ WorkersKeep(w)
         /\ a \in OrderActions /\ worker'[w].action = a
         /\ \/ worker'[w].at = "returning" /\ UNCHANGED <<orderReceipt, actionLock>>
            \/ /\ orderReceipt[a] = "none" /\ worker'[w].at = "claimed"
               /\ orderReceipt' = [orderReceipt EXCEPT ![a] = "CLAIMED"]
               /\ actionLock' = [actionLock EXCEPT ![a] = w]
<1> DEFINE a == worker[w].action
<1>1. a \in OrderActions
  BY DEF ClaimOrReplay, OrderWork
<1>2. CASE Unclaimed(a)
  <2>1. Becomes(w, [worker[w] EXCEPT !.at = "claimed"])
    BY <1>2 DEF ClaimOrReplay
  <2>2. /\ worker' \in [Workers -> WorkerStates] /\ WorkersKeep(w)
        /\ worker'[w].at = "claimed" /\ worker'[w].action = a
    BY <2>1, WorkerGoesTo DEF WorkerPlaces
  <2> QED BY <1>1, <1>2, <2>2 DEF ClaimOrReplay, Unclaimed
<1>3. CASE ~Unclaimed(a)
  <2> DEFINE r == IF orderReceipt[a] = "CLAIMED" THEN "UNCERTAIN" ELSE orderReceipt[a]
  <2>1. r \in OrderOutcomes
    BY <1>1, <1>3 DEF OrdersShape, Unclaimed, OrderOutcomes
  <2>2. Becomes(w, [worker[w] EXCEPT !.at = "returning", !.result = r])
    BY <1>3 DEF ClaimOrReplay
  <2> HIDE DEF r
  <2>3. /\ worker' \in [Workers -> WorkerStates] /\ WorkersKeep(w)
        /\ worker'[w].at = "returning" /\ worker'[w].action = a
    BY <2>1, <2>2, WorkerEnds DEF WorkerPlaces
  <2> QED BY <1>1, <1>3, <2>3 DEF ClaimOrReplay
<1> QED BY <1>2, <1>3

\* Lease: what it changes, and what it found.
LEMMA LeaseDoes ==
  ASSUME OrdersShape, OrderWork, NEW w \in Workers, Lease(w)
  PROVE  LET a == worker[w].action IN
         /\ worker' \in [Workers -> WorkerStates] /\ WorkersKeep(w)
         /\ a \in OrderActions /\ worker'[w].action = a /\ worker[w].at = "claimed"
         /\ \/ worker'[w].at = "answered" /\ worker'[w].result = "REJECTED" /\ lease' = lease
            \/ worker'[w].at = "leasing" /\ lease = Nobody /\ lease' = w
<1>1. worker[w].action \in OrderActions /\ worker[w].at = "claimed"
  BY DEF Lease, OrderWork
<1>2. CASE Answers(w, "REJECTED") /\ lease' = lease
  <2>1. /\ worker' \in [Workers -> WorkerStates] /\ WorkersKeep(w)
        /\ worker'[w].at = "answered" /\ worker'[w].action = worker[w].action
        /\ worker'[w].result = "REJECTED"
    BY <1>2, WorkerEnds DEF Answers, WorkerPlaces, OrderOutcomes
  <2> QED BY <1>1, <1>2, <2>1
<1>3. CASE /\ lease = Nobody /\ lease' = w
           /\ Becomes(w, [worker[w] EXCEPT !.at = "leasing"])
  <2>1. /\ worker' \in [Workers -> WorkerStates] /\ WorkersKeep(w)
        /\ worker'[w].at = "leasing" /\ worker'[w].action = worker[w].action
    BY <1>3, WorkerGoesTo DEF WorkerPlaces
  <2> QED BY <1>1, <1>3, <2>1
<1> QED BY <1>2, <1>3 DEF Lease

\* ReadOrder: what it changes, and what it found.
LEMMA ReadOrderDoes ==
  ASSUME OrdersShape, OrderWork, NEW w \in Workers, ReadOrder(w)
  PROVE  LET a == worker[w].action IN
         /\ worker' \in [Workers -> WorkerStates] /\ WorkersKeep(w)
         /\ a \in OrderActions /\ worker'[w].action = a /\ worker[w].at = "leasing"
         /\ \/ /\ worker'[w].at = "read" /\ lease' = lease
               /\ order.version = ordered[a].expected
            \/ /\ worker'[w].at = "answered"
               /\ lease' = IF lease = w THEN Nobody ELSE lease
               /\ worker'[w].result # "none"
               /\ worker'[w].result = "SUCCEEDED" => Marked(a)
<1> DEFINE a == worker[w].action
<1>1. a \in OrderActions /\ worker[w].at = "leasing"
  BY DEF ReadOrder, OrderWork
<1>2. CASE /\ Writable(a) /\ Becomes(w, [worker[w] EXCEPT !.at = "read"]) /\ lease' = lease
  <2>1. /\ worker' \in [Workers -> WorkerStates] /\ WorkersKeep(w)
        /\ worker'[w].at = "read" /\ worker'[w].action = a
    BY <1>2, WorkerGoesTo DEF WorkerPlaces
  <2> QED BY <1>1, <1>2, <2>1 DEF Writable
<1>3. ASSUME NEW r \in {"SUCCEEDED", "REJECTED", "FAILED"}, r = "SUCCEEDED" => Marked(a),
             Reports(w, r), lease' = IF lease = w THEN Nobody ELSE lease
      PROVE  /\ worker' \in [Workers -> WorkerStates] /\ WorkersKeep(w)
             /\ worker'[w].action = a /\ worker'[w].at = "answered"
             /\ worker'[w].result # "none"
             /\ worker'[w].result = "SUCCEEDED" => Marked(a)
  BY <1>3, WorkerReports DEF OrderOutcomes
<1>4. \/ /\ Writable(a) /\ Becomes(w, [worker[w] EXCEPT !.at = "read"]) /\ lease' = lease
      \/ /\ lease' = IF lease = w THEN Nobody ELSE lease
         /\ \E r \in {"SUCCEEDED", "REJECTED", "FAILED"} :
              Reports(w, r) /\ (r = "SUCCEEDED" => Marked(a))
  BY DEF ReadOrder
<1> QED BY <1>1, <1>2, <1>3, <1>4

\* The order after an action is an order, with one more mark.
LEMMA AppliedOrder ==
  ASSUME OrdersShape, NEW a \in OrderActions
  PROVE  /\ Applied(a) \in OrderRows
         /\ Applied(a).marks = order.marks \cup {a}
<1>1. /\ order.version \in Nat /\ order.marks \subseteq OrderActions
      /\ order.cancellation \in BOOLEAN /\ order.lastBy \in OrderActions \cup {Staff}
      /\ order \in OrderRows
  BY DEF OrdersShape, OrderRows
<1> DEFINE v == IF connector = "woocommerce" /\ a \in Notes THEN order.version
                ELSE order.version + 1
           l == IF connector = "woocommerce" /\ a \in Notes THEN order.lastBy ELSE a
           m == order.marks \cup {a}
           c == order.cancellation \/ a \in Cancellations
<1>2. Applied(a) = [order EXCEPT !.marks = m, !.cancellation = c, !.version = v, !.lastBy = l]
  BY <1>1 DEF Applied, OrderRows
<1>3. v \in Nat /\ l \in OrderActions \cup {Staff} /\ m \subseteq OrderActions
  BY <1>1
<1>4. c \in BOOLEAN
  OBVIOUS
<1> HIDE DEF v, l, m, c
<1>5. /\ [order EXCEPT !.marks = m, !.cancellation = c, !.version = v, !.lastBy = l] \in OrderRows
      /\ [order EXCEPT !.marks = m, !.cancellation = c, !.version = v, !.lastBy = l].marks = m
  BY <1>1, <1>3, <1>4 DEF OrderRows
<1> QED BY <1>2, <1>5 DEF m

\* PutOrder: what it changes, and what it found.
LEMMA PutOrderDoes ==
  ASSUME OrdersShape, OrderWork, NEW w \in Workers, PutOrder(w)
  PROVE  LET a == worker[w].action IN
         /\ worker' \in [Workers -> WorkerStates] /\ WorkersKeep(w)
         /\ a \in OrderActions /\ worker'[w].action = a /\ worker[w].at = "read"
         /\ worker'[w].at = "answered" /\ worker'[w].result # "none"
         /\ lease' = IF lease = w THEN Nobody ELSE lease
         /\ order' \in OrderRows
         /\ \/ /\ order' = order /\ applied' = applied
               /\ worker'[w].result # "SUCCEEDED"
            \/ /\ order' = Applied(a) /\ order'.marks = order.marks \cup {a}
               /\ applied' = [applied EXCEPT ![a] = @ + 1]
               /\ worker'[w].result \in {"SUCCEEDED", "UNCERTAIN"}
<1> DEFINE a == worker[w].action
<1>1. a \in OrderActions /\ worker[w].at = "read"
  BY DEF PutOrder, OrderWork
<1>2. PICK call \in WriteCalls :
        /\ order' = IF call.done THEN Applied(a) ELSE order
        /\ applied' = [applied EXCEPT ![a] = @ + IF call.done THEN 1 ELSE 0]
        /\ Reports(w, OrderResult(call.fault))
  BY DEF PutOrder
<1> DEFINE r == OrderResult(call.fault)
<1>3. /\ r \in OrderOutcomes /\ call.done \in BOOLEAN
      /\ r \in {"REJECTED", "FAILED"} => ~call.done
      /\ r = "SUCCEEDED" => call.done
  BY OrderCallFacts DEF OrdersShape
<1>4. Reports(w, r)
  BY <1>2
<1> HIDE DEF r
<1>5. /\ worker' \in [Workers -> WorkerStates] /\ WorkersKeep(w)
      /\ worker'[w].at = "answered" /\ worker'[w].action = a
      /\ worker'[w].result \in {r, "UNCERTAIN"}
  BY <1>3, <1>4, WorkerReports
<1>6. lease' = IF lease = w THEN Nobody ELSE lease
  BY DEF PutOrder
<1>7. CASE call.done
  <2>1. /\ order' = Applied(a) /\ order' \in OrderRows /\ order'.marks = order.marks \cup {a}
    BY <1>1, <1>2, <1>7, AppliedOrder
  <2>2. applied' = [applied EXCEPT ![a] = @ + 1]
    BY <1>2, <1>7
  <2> QED BY <1>1, <1>3, <1>5, <1>6, <1>7, <2>1, <2>2 DEF OrderOutcomes
<1>8. CASE ~call.done
  <2>1. order' = order /\ order' \in OrderRows
    BY <1>2, <1>8 DEF OrdersShape
  <2>2. applied' = applied
    BY <1>1, <1>2, <1>8 DEF OrdersShape
  <2> QED BY <1>1, <1>3, <1>5, <1>6, <1>8, <2>1, <2>2 DEF OrderOutcomes
<1> QED BY <1>7, <1>8

\* FinishOrder: what it changes, and what it found.
LEMMA FinishOrderDoes ==
  ASSUME OrdersShape, OrderWork, NEW w \in Workers, FinishOrder(w)
  PROVE  LET a == worker[w].action IN
         /\ worker' \in [Workers -> WorkerStates] /\ WorkersKeep(w)
         /\ a \in OrderActions /\ worker'[w].action = a /\ worker[w].at = "answered"
         /\ worker'[w].at = "returning" /\ worker[w].result \in OrderOutcomes
         /\ orderReceipt'[a] = worker[w].result
         /\ \A b \in OrderActions \ {a} : orderReceipt'[b] = orderReceipt[b]
         /\ orderReceipt' \in [OrderActions -> {"none", "CLAIMED"} \cup OrderOutcomes]
<1>1. worker[w].action \in OrderActions /\ worker[w].at = "answered"
  BY DEF FinishOrder, OrderWork
<1>2. worker[w].result \in OrderOutcomes
  BY <1>1 DEF OrdersShape, WorkerStates, OrderWork
<1>3. /\ worker' \in [Workers -> WorkerStates] /\ WorkersKeep(w)
      /\ worker'[w].at = "returning" /\ worker'[w].action = worker[w].action
  BY WorkerGoesTo DEF FinishOrder, WorkerPlaces
<1>4. orderReceipt' = [orderReceipt EXCEPT ![worker[w].action] = worker[w].result]
  BY DEF FinishOrder
<1> QED BY <1>1, <1>2, <1>3, <1>4 DEF OrdersShape

\* RevalidateOrder: what it changes, and what it found.
LEMMA RevalidateOrderDoes ==
  ASSUME OrdersShape, NEW w \in Workers, NEW a \in OrderActions, RevalidateOrder(w, a)
  PROVE  /\ worker' \in [Workers -> WorkerStates] /\ WorkersKeep(w)
         /\ worker[w].at = "resting" /\ ordered[a].state = "confirmed"
         /\ \/ worker' = worker
            \/ worker'[w].at = "permitted" /\ worker'[w].action = a /\ ordered' = ordered
<1>1. worker[w].at = "resting" /\ ordered[a].state = "confirmed"
  BY RestingFacts DEF RevalidateOrder
<1>2. CASE worker' = worker
  BY <1>1, <1>2 DEF OrdersShape, WorkersKeep
<1>3. CASE /\ Becomes(w, [Resting EXCEPT !.at = "permitted", !.action = a]) /\ ordered' = ordered
  <2>1. /\ [Resting EXCEPT !.at = "permitted", !.action = a] \in WorkerStates
        /\ [Resting EXCEPT !.at = "permitted", !.action = a].at = "permitted"
        /\ [Resting EXCEPT !.at = "permitted", !.action = a].action = a
    BY DEF Resting, WorkerStates, WorkerPlaces
  <2> QED BY <1>1, <1>3, <2>1, WorkerBecomes
<1> QED BY <1>2, <1>3 DEF RevalidateOrder

\* A worker that rests has nothing in hand.
LEMMA WorkerRests ==
  ASSUME OrdersShape, NEW w \in Workers, ReturnOrder(w) \/ WorkerDies(w)
  PROVE  worker' \in [Workers -> WorkerStates] /\ WorkersKeep(w) /\ worker'[w].at = "resting"
<1>1. Becomes(w, Resting)
  BY DEF ReturnOrder, WorkerDies
<1> QED BY <1>1, WorkerBecomes, RestingFacts

\* A settled request stays what it was otherwise.
LEMMA RequestSettled ==
  ASSUME OrdersShape, NEW a \in OrderActions, ordered' = [ordered EXCEPT ![a].state = "settled"]
  PROVE  /\ ordered' \in [OrderActions -> OrderRequests]
         /\ ordered'[a].state = "settled" /\ ordered'[a].expected = ordered[a].expected
         /\ \A b \in OrderActions \ {a} : ordered'[b] = ordered[b]
<1>1. ordered[a] \in OrderRequests
  BY DEF OrdersShape
<1>2. /\ [ordered[a] EXCEPT !.state = "settled"] \in OrderRequests
      /\ [ordered[a] EXCEPT !.state = "settled"].state = "settled"
      /\ [ordered[a] EXCEPT !.state = "settled"].expected = ordered[a].expected
  BY <1>1 DEF OrderRequests
<1> QED BY <1>2 DEF OrdersShape

\* What was requested stays as it was requested.
OrderedKept ==
  \A a \in OrderActions : ordered[a].state # "none" =>
    ordered'[a].state # "none" /\ ordered'[a].expected = ordered[a].expected

\* No step forgets a request, or what it was confirmed on.
LEMMA OrderedStep ==
  ASSUME OrdersShape, OrderWork, [OrdersNext]_ordersVars
  PROVE  ordered' \in [OrderActions -> OrderRequests] /\ OrderedKept
<1>1. ASSUME NEW a \in OrderActions, RequestOrder(a)
      PROVE  ordered' \in [OrderActions -> OrderRequests] /\ OrderedKept
  <2>1. [state |-> "confirmed", expected |-> order.version, binding |-> binding] \in OrderRequests
    BY DEF OrdersShape, OrderRows, OrderRequests
  <2>2. ordered[a].state = "none"
    BY <1>1 DEF RequestOrder
  <2> QED BY <1>1, <2>1, <2>2 DEF RequestOrder, OrdersShape, OrderedKept
<1>2. ASSUME NEW w \in Workers, NEW a \in OrderActions, RevalidateOrder(w, a)
      PROVE  ordered' \in [OrderActions -> OrderRequests] /\ OrderedKept
  <2>1. CASE ordered' = ordered
    BY <2>1 DEF OrdersShape, OrderedKept
  <2>2. CASE ordered' = [ordered EXCEPT ![a].state = "settled"]
    BY <2>2, RequestSettled DEF OrderedKept
  <2> QED BY <1>2, <2>1, <2>2 DEF RevalidateOrder
<1>3. ASSUME NEW w \in Workers, ReturnOrder(w)
      PROVE  ordered' \in [OrderActions -> OrderRequests] /\ OrderedKept
  BY <1>3, RequestSettled DEF ReturnOrder, OrderWork, OrderedKept
<1>4. CASE ordered' = ordered
  BY <1>4 DEF OrdersShape, OrderedKept
<1>5. ASSUME NEW w \in Workers,
             \/ ClaimOrReplay(w) \/ Lease(w) \/ ReadOrder(w) \/ PutOrder(w) \/ FinishOrder(w)
             \/ LeaseDrops(w) \/ WorkerDies(w) \/ ActionLockDrops(w)
      PROVE  ordered' = ordered
  BY <1>5 DEF ClaimOrReplay, Lease, ReadOrder, PutOrder, FinishOrder, LeaseDrops, WorkerDies,
              ActionLockDrops
<1>6. CASE StaffEdits \/ Reconfigure \/ UNCHANGED ordersVars
  BY <1>4, <1>6 DEF StaffEdits, Reconfigure, ordersVars
<1> QED BY <1>1, <1>2, <1>3, <1>4, <1>5, <1>6 DEF OrdersNext

\* No step leaves the types of a worker.
LEMMA WorkerStep ==
  ASSUME OrdersShape, OrderWork, [OrdersNext]_ordersVars
  PROVE  worker' \in [Workers -> WorkerStates] /\ OrderWork'
<1>o. OrderedKept
  BY OrderedStep
<1>w. ASSUME NEW w \in Workers, worker' \in [Workers -> WorkerStates], WorkersKeep(w),
             worker'[w].at # "resting" =>
               worker'[w].action \in OrderActions /\ ordered[worker'[w].action].state # "none",
             worker'[w].at = "answered" => worker'[w].result # "none"
      PROVE  worker' \in [Workers -> WorkerStates] /\ OrderWork'
  BY <1>o, <1>w DEF OrderWork, WorkersKeep, OrderedKept
<1>1. ASSUME NEW w \in Workers, NEW a \in OrderActions, RevalidateOrder(w, a)
      PROVE  worker' \in [Workers -> WorkerStates] /\ OrderWork'
  BY <1>1, <1>w, RevalidateOrderDoes
<1>2. ASSUME NEW w \in Workers, ClaimOrReplay(w)
      PROVE  worker' \in [Workers -> WorkerStates] /\ OrderWork'
  <2>1. ordered[worker[w].action].state # "none"
    BY <1>2 DEF ClaimOrReplay, OrderWork
  <2> QED BY <1>2, <1>w, <2>1, ClaimOrReplayDoes
<1>3. ASSUME NEW w \in Workers, Lease(w)
      PROVE  worker' \in [Workers -> WorkerStates] /\ OrderWork'
  <2>1. ordered[worker[w].action].state # "none"
    BY <1>3 DEF Lease, OrderWork
  <2> QED BY <1>3, <1>w, <2>1, LeaseDoes
<1>4. ASSUME NEW w \in Workers, ReadOrder(w)
      PROVE  worker' \in [Workers -> WorkerStates] /\ OrderWork'
  <2>1. ordered[worker[w].action].state # "none"
    BY <1>4 DEF ReadOrder, OrderWork
  <2> QED BY <1>4, <1>w, <2>1, ReadOrderDoes
<1>5. ASSUME NEW w \in Workers, PutOrder(w)
      PROVE  worker' \in [Workers -> WorkerStates] /\ OrderWork'
  <2>1. ordered[worker[w].action].state # "none"
    BY <1>5 DEF PutOrder, OrderWork
  <2> QED BY <1>5, <1>w, <2>1, PutOrderDoes
<1>6. ASSUME NEW w \in Workers, FinishOrder(w)
      PROVE  worker' \in [Workers -> WorkerStates] /\ OrderWork'
  <2>1. ordered[worker[w].action].state # "none"
    BY <1>6 DEF FinishOrder, OrderWork
  <2> QED BY <1>6, <1>w, <2>1, FinishOrderDoes
<1>7. ASSUME NEW w \in Workers, ReturnOrder(w) \/ WorkerDies(w)
      PROVE  worker' \in [Workers -> WorkerStates] /\ OrderWork'
  BY <1>7, <1>w, WorkerRests
<1>8. CASE worker' = worker
  BY <1>8, <1>o DEF OrdersShape, OrderWork, OrderedKept
<1>9. ASSUME NEW w \in Workers, LeaseDrops(w) \/ ActionLockDrops(w) PROVE worker' = worker
  BY <1>9 DEF LeaseDrops, ActionLockDrops
<1>10. ASSUME NEW a \in OrderActions, RequestOrder(a) PROVE worker' = worker
  BY <1>10 DEF RequestOrder
<1>11. CASE StaffEdits \/ Reconfigure \/ UNCHANGED ordersVars
  BY <1>8, <1>11 DEF StaffEdits, Reconfigure, ordersVars
<1> QED BY <1>1, <1>2, <1>3, <1>4, <1>5, <1>6, <1>7, <1>8, <1>9, <1>10, <1>11 DEF OrdersNext

\* The order after a change by the staff is an order with the same marks.
LEMMA StaffOrder ==
  ASSUME OrdersShape, StaffEdits
  PROVE  order' \in OrderRows /\ order'.marks = order.marks /\ order'.lastBy = Staff
<1>1. PICK open \in {order.open, FALSE} :
        order' = [order EXCEPT !.version = @ + 1, !.open = open, !.lastBy = Staff]
  BY DEF StaffEdits
<1>0. order \in OrderRows
  BY DEF OrdersShape
<1>a. order.version \in Nat /\ order.open \in BOOLEAN
  BY <1>0 DEF OrderRows
<1>b. open \in BOOLEAN
  BY <1>a
<1>2. order \in OrderRows /\ order.version + 1 \in Nat /\ open \in BOOLEAN
  BY <1>0, <1>a, <1>b
<1>3. \A n \in Nat : LET new == [order EXCEPT !.version = n, !.open = open, !.lastBy = Staff]
                     IN  new \in OrderRows /\ new.marks = order.marks /\ new.lastBy = Staff
  BY <1>2 DEF OrderRows
<1>4. order' = [order EXCEPT !.version = order.version + 1, !.open = open, !.lastBy = Staff]
  BY <1>1, <1>2 DEF OrderRows
<1> QED BY <1>2, <1>3, <1>4

\* No step leaves the types.
LEMMA OrdersShapeStep ==
  ASSUME OrdersShape, OrderWork, [OrdersNext]_ordersVars
  PROVE  OrdersShape' /\ OrderWork'
<1>1. /\ worker' \in [Workers -> WorkerStates] /\ OrderWork'
      /\ ordered' \in [OrderActions -> OrderRequests]
  BY WorkerStep, OrderedStep
<1>2. order' \in OrderRows
  <2>1. ASSUME NEW w \in Workers, PutOrder(w) PROVE order' \in OrderRows
    BY <2>1, PutOrderDoes
  <2>2. CASE StaffEdits
    BY <2>2, StaffOrder
  <2>3. CASE order' = order
    BY <2>3 DEF OrdersShape
  <2> QED BY <2>1, <2>2, <2>3
      DEF OrdersNext, ordersVars, RequestOrder, RevalidateOrder, ClaimOrReplay, Lease, ReadOrder,
          FinishOrder, ReturnOrder, LeaseDrops, WorkerDies, ActionLockDrops, Reconfigure
<1>3. applied' \in [OrderActions -> Nat]
  <2>1. ASSUME NEW w \in Workers, PutOrder(w) PROVE applied' \in [OrderActions -> Nat]
    BY <2>1, PutOrderDoes DEF OrdersShape
  <2>2. CASE applied' = applied
    BY <2>2 DEF OrdersShape
  <2> QED BY <2>1, <2>2
      DEF OrdersNext, ordersVars, RequestOrder, RevalidateOrder, ClaimOrReplay, Lease, ReadOrder,
          FinishOrder, ReturnOrder, LeaseDrops, WorkerDies, ActionLockDrops, Reconfigure,
          StaffEdits
<1>4. orderReceipt' \in [OrderActions -> {"none", "CLAIMED"} \cup OrderOutcomes]
  <2>1. ASSUME NEW w \in Workers, FinishOrder(w)
        PROVE orderReceipt' \in [OrderActions -> {"none", "CLAIMED"} \cup OrderOutcomes]
    BY <2>1, FinishOrderDoes
  <2>2. ASSUME NEW w \in Workers, ClaimOrReplay(w)
        PROVE orderReceipt' \in [OrderActions -> {"none", "CLAIMED"} \cup OrderOutcomes]
    BY <2>2, ClaimOrReplayDoes DEF OrdersShape
  <2>3. CASE orderReceipt' = orderReceipt
    BY <2>3 DEF OrdersShape
  <2> QED BY <2>1, <2>2, <2>3
      DEF OrdersNext, ordersVars, RequestOrder, RevalidateOrder, Lease, ReadOrder, PutOrder,
          ReturnOrder, LeaseDrops, WorkerDies, ActionLockDrops, Reconfigure, StaffEdits
<1>5. lease' \in Workers \cup {Nobody} /\ leaseLost' \in BOOLEAN
  BY DEF OrdersNext, ordersVars, RequestOrder, RevalidateOrder, ClaimOrReplay, Lease, ReadOrder,
         PutOrder, FinishOrder, ReturnOrder, LeaseDrops, WorkerDies, ActionLockDrops,
         Reconfigure, StaffEdits, OrdersShape
<1>6. actionLock' \in [OrderActions -> Workers \cup {Nobody}]
  BY DEF OrdersNext, ordersVars, RequestOrder, RevalidateOrder, ClaimOrReplay, Lease, ReadOrder,
         PutOrder, FinishOrder, ReturnOrder, LeaseDrops, WorkerDies, ActionLockDrops,
         Reconfigure, StaffEdits, OrdersShape
<1>7. connector' \in Connectors /\ binding' \in Nat /\ connected' \in BOOLEAN
  <2>1. CASE UNCHANGED <<connector, binding, connected>>
    BY <2>1 DEF OrdersShape
  <2>2. CASE Reconfigure
    <3>1. connector' = connector /\ binding' \in {binding, binding + 1}
      BY <2>2 DEF Reconfigure
    <3>2. connected' = connected \/ connected' = FALSE
      BY <2>2 DEF Reconfigure
    <3>3. connector \in Connectors /\ binding \in Nat /\ connected \in BOOLEAN
      BY DEF OrdersShape
    <3>4. connected' \in BOOLEAN
      BY <3>2, <3>3
    <3>5. binding' \in Nat
      BY <3>1, <3>3
    <3> QED BY <3>1, <3>3, <3>4, <3>5
  <2> QED BY <2>1, <2>2
      DEF OrdersNext, ordersVars, RequestOrder, RevalidateOrder, ClaimOrReplay, Lease, ReadOrder,
          PutOrder, FinishOrder, ReturnOrder, LeaseDrops, WorkerDies, ActionLockDrops, StaffEdits
<1> QED BY <1>1, <1>2, <1>3, <1>4, <1>5, <1>6, <1>7 DEF OrdersShape

\* No step makes a receipt untrue: an action is claimed once, and its claim is not
\* given up before its receipt.
LEMMA OrderReceiptsStep ==
  ASSUME OrdersShape, OrderWork, OrderClaims, AppliedCounted, OrderReceipts,
         [OrdersNext]_ordersVars
  PROVE  OrderClaims' /\ AppliedCounted' /\ OrderReceipts'
<1>t. /\ orderReceipt \in [OrderActions -> {"none", "CLAIMED"} \cup OrderOutcomes]
      /\ applied \in [OrderActions -> Nat]
  BY DEF OrdersShape
<1>p. \A w \in Workers : Serving(w) => worker[w].action \in OrderActions
  BY DEF OrderWork, Serving
<1>n. ASSUME NEW w \in Workers, WorkersKeep(w), UNCHANGED <<orderReceipt, applied>>,
             order'.marks = order.marks,
             worker'[w].at \notin {"claimed", "leasing", "read", "answered"}
      PROVE  OrderClaims' /\ AppliedCounted' /\ OrderReceipts'
  BY <1>n DEF WorkersKeep, OrderClaims, AppliedCounted, OrderReceipts, Serving, Marked
<1>e. ASSUME UNCHANGED <<worker, orderReceipt, applied>>, order'.marks = order.marks
      PROVE  OrderClaims' /\ AppliedCounted' /\ OrderReceipts'
  BY <1>e DEF OrderClaims, AppliedCounted, OrderReceipts, Serving, Marked
<1>1. ASSUME NEW w \in Workers, NEW a \in OrderActions, RevalidateOrder(w, a)
      PROVE  OrderClaims' /\ AppliedCounted' /\ OrderReceipts'
  <2>1. worker'[w].at \in {"resting", "permitted"} /\ WorkersKeep(w)
    BY <1>1, RevalidateOrderDoes
  <2>2. UNCHANGED <<orderReceipt, applied>> /\ order'.marks = order.marks
    BY <1>1 DEF RevalidateOrder
  <2> QED BY <1>n, <2>1, <2>2
<1>2. ASSUME NEW w \in Workers, ReturnOrder(w) \/ WorkerDies(w)
      PROVE  OrderClaims' /\ AppliedCounted' /\ OrderReceipts'
  BY <1>2, <1>n, WorkerRests DEF ReturnOrder, WorkerDies
<1>3. ASSUME NEW w \in Workers, ClaimOrReplay(w)
      PROVE  OrderClaims' /\ AppliedCounted' /\ OrderReceipts'
  <2> DEFINE a == worker[w].action
  <2>1. /\ applied' = applied /\ order' = order /\ WorkersKeep(w)
        /\ a \in OrderActions /\ worker'[w].action = a
    BY <1>3, ClaimOrReplayDoes DEF ClaimOrReplay
  <2>2. CASE worker'[w].at = "returning" /\ orderReceipt' = orderReceipt
    BY <1>n, <2>1, <2>2
  <2>3. CASE /\ orderReceipt[a] = "none" /\ worker'[w].at = "claimed"
             /\ orderReceipt' = [orderReceipt EXCEPT ![a] = "CLAIMED"]
    <3>1. orderReceipt'[a] = "CLAIMED"
          /\ \A b \in OrderActions \ {a} : orderReceipt'[b] = orderReceipt[b]
      BY <1>t, <2>1, <2>3
    <3>2. applied[a] = 0
      BY <2>1, <2>3 DEF AppliedCounted
    <3>3. \A v \in Workers \ {w} : Serving(v) => worker[v].action # a
      BY <2>3 DEF OrderClaims
    <3> HIDE DEF a
    <3>4. OrderClaims'
      BY <1>p, <2>1, <3>1, <3>3 DEF OrderClaims, Serving, WorkersKeep
    <3>5. AppliedCounted'
      BY <1>t, <2>1, <2>3, <3>1, <3>2 DEF AppliedCounted, WorkersKeep, Marked
    <3>6. OrderReceipts'
      BY <2>1, <3>1 DEF OrderReceipts
    <3> QED BY <3>4, <3>5, <3>6
  <2> QED BY <1>3, <2>2, <2>3, ClaimOrReplayDoes
<1>4. ASSUME NEW w \in Workers, Lease(w) \/ ReadOrder(w)
      PROVE  OrderClaims' /\ AppliedCounted' /\ OrderReceipts'
  <2> DEFINE a == worker[w].action
  <2>1. /\ UNCHANGED <<orderReceipt, applied, order>> /\ WorkersKeep(w)
        /\ a \in OrderActions /\ worker'[w].action = a
        /\ worker[w].at \in {"claimed", "leasing"}
        /\ \/ worker'[w].at \in {"leasing", "read"}
           \/ worker'[w].at = "answered" /\ (worker'[w].result = "SUCCEEDED" => Marked(a))
    BY <1>4, LeaseDoes, ReadOrderDoes DEF Lease, ReadOrder
  <2>2. applied[a] = 0 /\ ~Marked(a)
    BY <2>1 DEF AppliedCounted
  <2> HIDE DEF a
  <2>3. OrderClaims'
    BY <2>1 DEF OrderClaims, Serving, WorkersKeep, a
  <2>4. AppliedCounted'
    BY <2>1, <2>2 DEF AppliedCounted, WorkersKeep, Marked
  <2> QED BY <2>1, <2>3, <2>4 DEF OrderReceipts
<1>5. ASSUME NEW w \in Workers, PutOrder(w)
      PROVE  OrderClaims' /\ AppliedCounted' /\ OrderReceipts'
  <2> DEFINE a == worker[w].action
  <2>1. /\ orderReceipt' = orderReceipt /\ WorkersKeep(w)
        /\ a \in OrderActions /\ worker'[w].action = a
        /\ worker[w].at = "read" /\ worker'[w].at = "answered"
    BY <1>5, PutOrderDoes DEF PutOrder
  <2>2. applied[a] = 0 /\ orderReceipt[a] = "CLAIMED" /\ ~Marked(a)
    BY <2>1 DEF AppliedCounted, OrderClaims, Serving
  <2>3. /\ applied'[a] \in {0, 1}
        /\ a \in order'.marks <=> applied'[a] # 0
        /\ worker'[w].result \in {"REJECTED", "FAILED"} => applied'[a] = 0
        /\ worker'[w].result = "SUCCEEDED" => applied'[a] = 1
        /\ \A b \in OrderActions \ {a} :
             applied'[b] = applied[b] /\ (b \in order'.marks <=> b \in order.marks)
    BY <1>5, <1>t, <2>1, <2>2, PutOrderDoes DEF Marked
  <2>4. \A v \in Workers \ {w} : Serving(v) => worker[v].action # a
    BY <2>1 DEF OrderClaims, Serving
  <2> HIDE DEF a
  <2>5. OrderClaims'
    BY <2>1, <2>2, <2>4 DEF OrderClaims, Serving, WorkersKeep, a
  <2>6. AppliedCounted'
    <3>1. \A b \in OrderActions : /\ orderReceipt'[b] = "none" => applied'[b] = 0
                                  /\ b \in order'.marks <=> applied'[b] # 0
      BY <2>1, <2>2, <2>3 DEF AppliedCounted, Marked
    <3>2. \A v \in Workers \ {w} : Serving(v) => applied'[worker[v].action] = applied[worker[v].action]
      BY <1>p, <2>3, <2>4
    <3> QED BY <2>1, <2>3, <3>1, <3>2 DEF AppliedCounted, Marked, Serving, WorkersKeep
  <2>7. OrderReceipts'
    BY <2>1, <2>2, <2>3 DEF OrderReceipts
  <2> QED BY <2>5, <2>6, <2>7
<1>6. ASSUME NEW w \in Workers, FinishOrder(w)
      PROVE  OrderClaims' /\ AppliedCounted' /\ OrderReceipts'
  <2> DEFINE a == worker[w].action
             r == worker[w].result
  <2>1. /\ applied' = applied /\ order' = order /\ WorkersKeep(w) /\ a \in OrderActions
        /\ worker[w].at = "answered" /\ worker'[w].at = "returning" /\ r \in OrderOutcomes
        /\ orderReceipt'[a] = r
        /\ \A b \in OrderActions \ {a} : orderReceipt'[b] = orderReceipt[b]
    BY <1>6, FinishOrderDoes DEF FinishOrder
  <2>2. /\ applied[a] <= 1
        /\ r \in {"REJECTED", "FAILED"} => applied[a] = 0
        /\ r = "SUCCEEDED" => applied[a] = 1
    BY <2>1 DEF AppliedCounted
  <2>3. \A v \in Workers \ {w} : Serving(v) => worker[v].action # a
    BY <2>1 DEF OrderClaims, Serving
  <2> HIDE DEF a, r
  <2>4. OrderClaims'
    BY <1>p, <2>1, <2>3 DEF OrderClaims, Serving, WorkersKeep
  <2>5. AppliedCounted'
    BY <2>1 DEF AppliedCounted, WorkersKeep, Marked, OrderOutcomes
  <2>6. OrderReceipts'
    BY <2>1, <2>2 DEF OrderReceipts
  <2> QED BY <2>4, <2>5, <2>6
<1>7. ASSUME NEW w \in Workers, LeaseDrops(w) \/ ActionLockDrops(w)
      PROVE  OrderClaims' /\ AppliedCounted' /\ OrderReceipts'
  BY <1>7, <1>e DEF LeaseDrops, ActionLockDrops
<1>8. ASSUME NEW a \in OrderActions, RequestOrder(a)
      PROVE  OrderClaims' /\ AppliedCounted' /\ OrderReceipts'
  BY <1>8, <1>e DEF RequestOrder
<1>9. CASE StaffEdits
  BY <1>9, <1>e, StaffOrder DEF StaffEdits
<1>10. CASE Reconfigure \/ UNCHANGED ordersVars
  BY <1>10, <1>e DEF Reconfigure, ordersVars
<1> QED BY <1>1, <1>2, <1>3, <1>4, <1>5, <1>6, <1>7, <1>8, <1>9, <1>10 DEF OrdersNext

\* No step changes the order behind the back of a worker that holds the lease, but for
\* the staff.
LEMMA LeaseStep ==
  ASSUME OrdersShape, OrderWork, LeaseFresh, [OrdersNext]_ordersVars
  PROVE  LeaseFresh'
<1> SUFFICES ASSUME ~leaseLost', NEW w \in Workers
             PROVE  /\ worker'[w].at \in {"leasing", "read"} => lease' = w
                    /\ worker'[w].at = "read" =>
                         \/ order'.version = ordered'[worker'[w].action].expected
                         \/ order'.lastBy = Staff
  BY DEF LeaseFresh
<1>a. ~leaseLost
  BY DEF OrdersNext, ordersVars, RequestOrder, RevalidateOrder, ClaimOrReplay, Lease, ReadOrder,
         PutOrder, FinishOrder, ReturnOrder, LeaseDrops, WorkerDies, ActionLockDrops,
         Reconfigure, StaffEdits
<1>b. \A v \in Workers :
        /\ worker[v].at \in {"leasing", "read"} => lease = v
        /\ worker[v].at = "read" =>
             \/ order.version = ordered[worker[v].action].expected
             \/ order.lastBy = Staff
  BY <1>a DEF LeaseFresh
<1>c. worker[w].at = "read" => ordered'[worker[w].action].expected = ordered[worker[w].action].expected
  BY OrderedStep DEF OrderWork, OrderedKept
<1>k. ASSUME worker'[w] = worker[w], order' = order \/ order'.lastBy = Staff,
             lease = w => lease' = w
      PROVE  /\ worker'[w].at \in {"leasing", "read"} => lease' = w
             /\ worker'[w].at = "read" =>
                  \/ order'.version = ordered'[worker'[w].action].expected
                  \/ order'.lastBy = Staff
  BY <1>b, <1>c, <1>k
<1>t. ASSUME worker'[w].at \notin {"leasing", "read"}
      PROVE  /\ worker'[w].at \in {"leasing", "read"} => lease' = w
             /\ worker'[w].at = "read" =>
                  \/ order'.version = ordered'[worker'[w].action].expected
                  \/ order'.lastBy = Staff
  BY <1>t
<1> DEFINE Goal == /\ worker'[w].at \in {"leasing", "read"} => lease' = w
                   /\ worker'[w].at = "read" =>
                        \/ order'.version = ordered'[worker'[w].action].expected
                        \/ order'.lastBy = Staff
<1>1. ASSUME NEW v \in Workers, NEW a \in OrderActions, RevalidateOrder(v, a) PROVE Goal
  <2>1. order' = order /\ lease' = lease
    BY <1>1 DEF RevalidateOrder
  <2>2. CASE v = w
    BY <1>1, <1>t, <2>2, RevalidateOrderDoes
  <2>3. CASE v # w
    BY <1>1, <1>k, <2>1, <2>3, RevalidateOrderDoes DEF WorkersKeep
  <2> QED BY <2>2, <2>3
<1>2. ASSUME NEW v \in Workers, ClaimOrReplay(v) PROVE Goal
  <2>1. order' = order /\ lease' = lease
    BY <1>2 DEF ClaimOrReplay
  <2>2. CASE v = w
    BY <1>2, <1>t, <2>2, ClaimOrReplayDoes
  <2>3. CASE v # w
    BY <1>2, <1>k, <2>1, <2>3, ClaimOrReplayDoes DEF WorkersKeep
  <2> QED BY <2>2, <2>3
<1>3. ASSUME NEW v \in Workers, Lease(v) PROVE Goal
  <2>1. order' = order
    BY <1>3 DEF Lease
  <2>2. CASE v = w
    BY <1>3, <2>2, LeaseDoes
  <2>3. CASE v # w
    <3>1. lease = w => lease' = w
      BY <1>3, LeaseDoes, OrderConstants
    <3> QED BY <1>3, <1>k, <2>1, <2>3, <3>1, LeaseDoes DEF WorkersKeep
  <2> QED BY <2>2, <2>3
<1>4. ASSUME NEW v \in Workers, ReadOrder(v) PROVE Goal
  <2>1. order' = order /\ ordered' = ordered
    BY <1>4 DEF ReadOrder
  <2>2. CASE v = w
    BY <1>4, <1>b, <2>1, <2>2, ReadOrderDoes
  <2>3. CASE v # w
    <3>1. lease = w => lease' = w
      BY <1>4, <2>3, ReadOrderDoes
    <3> QED BY <1>4, <1>k, <2>1, <2>3, <3>1, ReadOrderDoes DEF WorkersKeep
  <2> QED BY <2>2, <2>3
<1>5. ASSUME NEW v \in Workers, PutOrder(v) PROVE Goal
  <2>1. CASE v = w
    BY <1>5, <1>t, <2>1, PutOrderDoes
  <2>2. CASE v # w
    <3>1. lease = v /\ worker'[w] = worker[w]
      BY <1>5, <1>b, <2>2, PutOrderDoes DEF WorkersKeep
    <3>2. worker[w].at \notin {"leasing", "read"}
      BY <1>b, <2>2, <3>1
    <3> QED BY <1>t, <3>1, <3>2
  <2> QED BY <2>1, <2>2
<1>6. ASSUME NEW v \in Workers, FinishOrder(v) PROVE Goal
  <2>1. order' = order /\ lease' = lease
    BY <1>6 DEF FinishOrder
  <2>2. CASE v = w
    BY <1>6, <1>t, <2>2, FinishOrderDoes
  <2>3. CASE v # w
    BY <1>6, <1>k, <2>1, <2>3, FinishOrderDoes DEF WorkersKeep
  <2> QED BY <2>2, <2>3
<1>7. ASSUME NEW v \in Workers, ReturnOrder(v) \/ WorkerDies(v) PROVE Goal
  <2>1. order' = order /\ (v # w /\ lease = w => lease' = w)
    BY <1>7 DEF ReturnOrder, WorkerDies
  <2>2. CASE v = w
    BY <1>7, <1>t, <2>2, WorkerRests
  <2>3. CASE v # w
    BY <1>7, <1>k, <2>1, <2>3, WorkerRests DEF WorkersKeep
  <2> QED BY <2>2, <2>3
<1>8. ASSUME NEW v \in Workers, LeaseDrops(v) \/ ActionLockDrops(v) PROVE Goal
  BY <1>8, <1>k DEF LeaseDrops, ActionLockDrops
<1>9. ASSUME NEW a \in OrderActions, RequestOrder(a) PROVE Goal
  BY <1>9, <1>k DEF RequestOrder
<1>10. CASE StaffEdits
  BY <1>10, <1>k, StaffOrder DEF StaffEdits
<1>11. CASE Reconfigure \/ UNCHANGED ordersVars
  BY <1>11, <1>k DEF Reconfigure, ordersVars
<1> QED BY <1>1, <1>2, <1>3, <1>4, <1>5, <1>6, <1>7, <1>8, <1>9, <1>10, <1>11 DEF OrdersNext

\* The initial states satisfy the inductive invariant.
LEMMA OrdersStart == OrdersInit => OrdersInv
<1> SUFFICES ASSUME OrdersInit PROVE OrdersInv
  OBVIOUS
<1>1. OrdersShape
  BY RestingFacts DEF OrdersInit, OrdersShape, OrderRows
<1>2. /\ \A w \in Workers : worker[w].at = "resting"
      /\ \A a \in OrderActions : orderReceipt[a] = "none" /\ applied[a] = 0 /\ ~Marked(a)
  BY RestingFacts DEF OrdersInit, Marked
<1>3. OrderWork /\ OrderClaims /\ AppliedCounted /\ OrderReceipts /\ LeaseFresh
  BY <1>2 DEF OrderWork, OrderClaims, AppliedCounted, OrderReceipts, LeaseFresh, Serving
<1> QED BY <1>1, <1>3 DEF OrdersInv

\* No step leaves it.
LEMMA OrdersStep == OrdersInv /\ [OrdersNext]_ordersVars => OrdersInv'
<1> SUFFICES ASSUME OrdersInv, [OrdersNext]_ordersVars PROVE OrdersInv'
  OBVIOUS
<1> USE DEF OrdersInv
<1>1. OrdersShape' /\ OrderWork'
  BY OrdersShapeStep
<1>2. OrderClaims' /\ AppliedCounted' /\ OrderReceipts'
  BY OrderReceiptsStep
<1>3. LeaseFresh'
  BY LeaseStep
<1> QED BY <1>1, <1>2, <1>3

\* A step that applies an action to the order finds it as it was confirmed, or changed
\* by the staff, unless a lease was lost.
LEMMA OrderWrittenFresh ==
  ASSUME OrdersInv, [OrdersNext]_ordersVars, NEW a \in OrderActions, applied'[a] > applied[a]
  PROVE  \/ order.version = ordered[a].expected
         \/ order.lastBy = Staff
         \/ leaseLost
<1>1. CASE \E w \in Workers : PutOrder(w)
  <2>1. PICK w \in Workers : PutOrder(w)
    BY <1>1
  <2>2. worker[w].action \in OrderActions /\ worker[w].at = "read"
    BY <2>1, PutOrderDoes DEF OrdersInv
  <2>3. a = worker[w].action
    BY <2>1, <2>2, PutOrderDoes DEF OrdersInv, OrdersShape
  <2> QED BY <2>2, <2>3 DEF OrdersInv, LeaseFresh
<1>2. CASE applied' = applied
  BY <1>2 DEF OrdersInv, OrdersShape
<1> QED BY <1>1, <1>2
    DEF OrdersNext, ordersVars, RequestOrder, RevalidateOrder, ClaimOrReplay, Lease, ReadOrder,
        FinishOrder, ReturnOrder, LeaseDrops, WorkerDies, ActionLockDrops, Reconfigure,
        StaffEdits

\* Every reachable state of the orders, for any actions and workers and both
\* connectors, satisfies the inductive invariant.
THEOREM OrdersInvariant == OrdersSpec => []OrdersInv
BY OrdersStart, OrdersStep, PTL DEF OrdersSpec

\* OrdersService.execute_authorized: an action that was confirmed on an older version
\* of the order is not applied to it, whatever executions overlap, unless a lease ran
\* out or the staff changed the order in the shop.
THEOREM NoLostUpdateHolds == OrdersSpec => NoLostUpdate
<1>1. OrdersInv /\ [OrdersNext]_ordersVars =>
        [\A a \in OrderActions : applied'[a] > applied[a] =>
           \/ order.version = ordered[a].expected
           \/ order.lastBy = Staff
           \/ leaseLost]_ordersVars
  BY OrderWrittenFresh
<1> QED BY <1>1, OrdersInvariant, PTL DEF OrdersSpec, NoLostUpdate

--------------------------------------------------------------------------------
\* Claims: QueueForward and ClaimReceipts.

\* What a worker of the deliveries can be at, besides its rest.
CourierPlaces == {"exporting", "claiming", "reading", "calling", "answered"}

\* What a worker remembers that delivers a revision.
CourierBusy ==
  [at: CourierPlaces, revision: Submitted, effect: Effects,
   result: {"none"} \cup EffectOutcomes, seen: SUBSET Deliverable]

\* A worker at rest, or at a delivery.
CourierStates == CourierBusy \cup {AtRest}

\* A row of public.case_delivery_operations: none, a claim, an outcome.
LedgerEntries == {"none", "CLAIMED"} \cup EffectOutcomes

\* The types; a revision has at most one piece of evidence more than the one before.
ClaimShape ==
  /\ revision \in 0 .. MaxRevision
  /\ evidence \in [Submitted -> 0 .. MaxRevision]
  /\ \A r \in Submitted : evidence[r] <= r
  /\ destination \in Destinations
  /\ submissions \subseteq Deliverable
  /\ ledger \in [Effects -> LedgerEntries]
  /\ guards \in [Lockable -> Couriers \cup {NoCourier}]
  /\ courier \in [Couriers -> CourierStates]
  /\ queueRows \subseteq Deliverable
  /\ performed \in [Effects -> Nat]

\* The configuration a worker delivers under, and its sheet.
Under(w) == courier[w].effect[2]
SheetAt(w) == SheetOf[Under(w)]

\* A worker at a delivery.
Busy(w) == courier[w].at # "rest"

\* A worker about to write the row.
CallsSheet(w) == courier[w].at = "calling" /\ courier[w].effect[1] = "sheets"

\* What a worker remembers fits what it is at: the row and the notice are those of its
\* revision, and the rows it saw are of its sheet.
CourierSound(record) ==
  record.at # "rest" =>
    /\ record.effect[1] # "drive" => record.effect[3] = record.revision
    /\ record.at = "exporting" => record.effect[1] = "drive"
    /\ record.at = "reading" => record.effect[1] = "sheets"
    /\ record.at = "answered" => record.result # "none"
    /\ \A x \in record.seen : SheetOf[x[1]] = SheetOf[record.effect[2]]

\* Of every worker.
CouriersSound == \A w \in Couriers : CourierSound(courier[w])

\* The advisory lock of the destination, while its connection stands.
RootHeld ==
  \A w \in Couriers : Busy(w) /\ SheetAt(w) \notin unguarded => guards[Root(Under(w))] = w

\* Two workers are not at one sheet, under whatever configurations, unless it is counted
\* as one where they may be.
AloneAtSheet ==
  \A v, w \in Couriers : v # w /\ Busy(v) /\ Busy(w) /\ SheetAt(v) = SheetAt(w) =>
    SheetAt(w) \in unguarded

\* A sheet has one row of the case at most, and what a worker read of it is still there
\* and not of a later revision.
SheetCurrent(d) ==
  /\ \A x, y \in RowsOf(d) : x = y
  /\ \A w \in Couriers : CallsSheet(w) /\ SheetAt(w) = SheetOf[d] =>
       /\ courier[w].seen = RowsOf(d)
       /\ \A x \in RowsOf(d) : x[2] <= courier[w].revision

\* So is every sheet where no two workers may be.
QueueCurrent == \A d \in Destinations : SheetOf[d] \notin unguarded => SheetCurrent(d)

\* A row that is there was written.
RowsWritten == \A x \in queueRows : performed[<<"sheets", x[1], x[2]>>] = 1

\* A worker between the claim of an effect and its answer.
Performing(w) == courier[w].at \in {"reading", "calling"}

\* What an outcome says of an effect.
Told(e, r) ==
  /\ r \in {"REJECTED", "FAILED", "SUPERSEDED", "REUSED"} => performed[e] = 0
  /\ r = "SUCCEEDED" => performed[e] = 1
  /\ r = "REUSED" => RowWritten(SheetOf[e[2]], e[3])
  /\ r = "SUPERSEDED" => \E s \in Submitted : s > e[3] /\ RowWritten(SheetOf[e[2]], s)

\* A worker that performs an effect holds the claim on it, alone, and has not
\* performed it yet; nothing is performed without a claim.
EffectsClaimed ==
  /\ \A e \in Effects : ledger[e] = "none" => performed[e] = 0
  /\ \A w \in Couriers : Performing(w) =>
       /\ ledger[courier[w].effect] \in {"CLAIMED", "UNCERTAIN"}
       /\ performed[courier[w].effect] = 0
       /\ \A v \in Couriers : v # w /\ Performing(v) => courier[v].effect # courier[w].effect
  /\ \A w \in Couriers : courier[w].at = "answered" => ledger[courier[w].effect] # "none"

\* An answer that waits to be recorded is true, and will stay true: nobody is
\* performing that effect any more.
AnswersTold ==
  \A w \in Couriers : courier[w].at = "answered" /\ courier[w].result # "UNCERTAIN" =>
    /\ Told(courier[w].effect, courier[w].result)
    /\ \A v \in Couriers : Performing(v) => courier[v].effect # courier[w].effect

\* Who is at the notice of a revision finds its row written.
NoticeAfterRow ==
  \A w \in Couriers : Busy(w) /\ courier[w].effect[1] = "gmail" =>
    RowWritten(SheetOf[courier[w].effect[2]], courier[w].effect[3])

\* The inductive invariant of the deliveries.
ClaimInv ==
  /\ ClaimShape /\ CouriersSound
  /\ RootHeld /\ AloneAtSheet /\ QueueCurrent /\ RowsWritten
  /\ EffectsClaimed /\ AnswersTold /\ NoticeAfterRow /\ ClaimReceipts

\* The constants, as ClaimDelivery assumes them.
LEMMA DeliveryConstants == NoCourier \notin Couriers /\ MaxRevision \in Nat \ {0}
BY ClaimDeliveryAssumption

\* An effect is a product, a configuration and a revision, and is not the lock of a
\* destination.
LEMMA EffectParts ==
  /\ \A e \in Effects :
       e[1] \in Products /\ e[2] \in Destinations /\ e[3] \in Submitted /\ e = <<e[1], e[2], e[3]>>
  /\ \A p \in Products, d \in Destinations, r \in Submitted :
       /\ <<p, d, r>> \in Effects
       /\ <<p, d, r>>[1] = p /\ <<p, d, r>>[2] = d /\ <<p, d, r>>[3] = r
  /\ \A d \in Destinations : Root(d) \in Lockable
  /\ \A e \in Effects : e \in Lockable /\ \A d \in Destinations : e # Root(d)
  /\ \A c, d \in Destinations : Root(c) = Root(d) => c = d
BY DEF Effects, Root, Lockable, Products

\* A row is a configuration and a revision.
LEMMA RowParts ==
  /\ \A x \in Deliverable :
       x[1] \in Destinations /\ x[2] \in Submitted /\ x[2] \in Nat /\ x = <<x[1], x[2]>>
  /\ \A d \in Destinations, r \in Submitted :
       <<d, r>> \in Deliverable /\ <<d, r>>[1] = d /\ <<d, r>>[2] = r
BY DEF Deliverable, Submitted

\* What the outcome of a call says of the effect.
LEMMA DeliveryCallFacts ==
  ASSUME NEW call \in WriteCalls
  PROVE  /\ call.done \in BOOLEAN
         /\ GoogleResult(call.fault) \in {"SUCCEEDED", "REJECTED", "FAILED", "UNCERTAIN"}
         /\ GoogleResult(call.fault) \in {"REJECTED", "FAILED"} => ~call.done
         /\ GoogleResult(call.fault) = "SUCCEEDED" => call.done
<1>1. PICK f \in CallFaults : \E d \in Done(f) : call = [fault |-> f, done |-> d]
  BY DEF WriteCalls
<1>2. call.fault = f /\ call.done \in Done(f)
  BY <1>1
<1> QED BY <1>2 DEF CallFaults, Done, GoogleResult, Unknown

\* The pieces of evidence of a revision, and its row after them.
LEMMA PieceFacts ==
  ASSUME ClaimShape, NEW d \in Destinations, NEW r \in Submitted, NEW n \in Nat \ {0}
  PROVE  /\ Piece(d, r, n) \in Effects
         /\ Piece(d, r, n)[2] = d
         /\ Piece(d, r, n)[1] \in {"drive", "sheets"}
         /\ Piece(d, r, n)[1] # "drive" => Piece(d, r, n)[3] = r
<1>1. CASE n <= evidence[r]
  <2>1. n \in Submitted
    BY <1>1, DeliveryConstants DEF ClaimShape, Submitted
  <2>2. Piece(d, r, n) = <<"drive", d, n>>
    BY <1>1 DEF Piece
  <2> QED BY <2>1, <2>2, EffectParts DEF Products
<1>2. CASE ~(n <= evidence[r])
  <2>1. Piece(d, r, n) = <<"sheets", d, r>>
    BY <1>2 DEF Piece
  <2> QED BY <2>1, EffectParts DEF Products
<1> QED BY <1>1, <1>2

\* The effect after an effect is of the same configuration; the notice comes after the
\* row.
LEMMA FollowingFacts ==
  ASSUME ClaimShape, NEW r \in Submitted, NEW e \in Effects, e[1] # "drive" => e[3] = r,
         e[1] # "gmail"
  PROVE  /\ Following(r, e) \in Effects
         /\ Following(r, e)[2] = e[2]
         /\ Following(r, e)[1] # "drive" => Following(r, e)[3] = r
         /\ Following(r, e)[1] = "gmail" => e = <<"sheets", e[2], r>>
<1>1. e[1] \in Products /\ e[2] \in Destinations /\ e[3] \in Submitted /\ e = <<e[1], e[2], e[3]>>
  BY EffectParts
<1>2. CASE e[1] = "drive"
  <2>1. Following(r, e) = Piece(e[2], r, e[3] + 1)
    BY <1>2 DEF Following
  <2>2. e[3] + 1 \in Nat \ {0}
    BY <1>1 DEF Submitted
  <2> QED BY <1>1, <2>1, <2>2, PieceFacts
<1>3. CASE e[1] = "sheets"
  <2>1. Following(r, e) = <<"gmail", e[2], r>>
    BY <1>3 DEF Following
  <2> QED BY <1>1, <1>3, <2>1, EffectParts DEF Products
<1> QED BY <1>1, <1>2, <1>3 DEF Products

\* A worker at rest is at no delivery.
LEMMA CourierRecords ==
  /\ AtRest \in CourierStates /\ AtRest.at = "rest"
  /\ \A record \in CourierStates : record.at # "rest" => record \in CourierBusy
  /\ \A record \in CourierBusy :
       /\ record.at \in CourierPlaces /\ record.at # "rest" /\ record # AtRest
       /\ record.effect \in Effects /\ record.revision \in Submitted
       /\ record.seen \subseteq Deliverable
BY DEF AtRest, CourierStates, CourierBusy, CourierPlaces

\* The other workers stay where they are.
CouriersKeep(w) == \A v \in Couriers \ {w} : courier'[v] = courier[v]

\* A step of one worker.
Steps(w) == courier' \in [Couriers -> CourierStates] /\ CouriersKeep(w)

\* It goes on with its delivery.
Continues(w) ==
  /\ Steps(w)
  /\ courier[w] \in CourierBusy /\ courier'[w] \in CourierBusy
  /\ courier'[w].effect[2] = courier[w].effect[2]

\* It goes on with the same effect.
KeepsEffect(w) ==
  /\ Continues(w)
  /\ courier'[w].effect = courier[w].effect /\ courier'[w].revision = courier[w].revision

\* It ends its delivery.
Rests(w) == Steps(w) /\ courier'[w] = AtRest

\* A step of a worker changes that worker only.
LEMMA CourierTurns ==
  ASSUME ClaimShape, NEW w \in Couriers, NEW record \in CourierStates, Turns(w, record)
  PROVE  Steps(w) /\ courier'[w] = record
BY DEF ClaimShape, Turns, CouriersKeep, Steps

\* A worker that goes on remembers its effect.
LEMMA CourierTo ==
  ASSUME ClaimShape, NEW w \in Couriers, NEW at \in CourierPlaces, courier[w] \in CourierBusy,
         Turns(w, [courier[w] EXCEPT !.at = at])
  PROVE  /\ KeepsEffect(w)
         /\ courier'[w].at = at /\ courier'[w].seen = courier[w].seen
<1>2. /\ [courier[w] EXCEPT !.at = at] \in CourierBusy
      /\ [courier[w] EXCEPT !.at = at].at = at
      /\ [courier[w] EXCEPT !.at = at].effect = courier[w].effect
      /\ [courier[w] EXCEPT !.at = at].revision = courier[w].revision
      /\ [courier[w] EXCEPT !.at = at].seen = courier[w].seen
  BY DEF CourierBusy
<1>3. [courier[w] EXCEPT !.at = at] \in CourierStates
  BY <1>2 DEF CourierStates
<1>4. Steps(w) /\ courier'[w] = [courier[w] EXCEPT !.at = at]
  BY <1>3, CourierTurns
<1> QED BY <1>2, <1>4 DEF KeepsEffect, Continues

\* A worker with an answer remembers its effect.
LEMMA CourierEnds ==
  ASSUME ClaimShape, NEW w \in Couriers, NEW r \in EffectOutcomes, courier[w] \in CourierBusy,
         Ends(w, r)
  PROVE  /\ KeepsEffect(w) /\ courier'[w].at = "answered"
         /\ courier'[w].result = r /\ courier'[w].seen = courier[w].seen
<1> DEFINE new == [courier[w] EXCEPT !.at = "answered", !.result = r]
<1>2. /\ new \in CourierBusy
      /\ new.at = "answered" /\ new.result = r /\ new.effect = courier[w].effect
      /\ new.revision = courier[w].revision /\ new.seen = courier[w].seen
  BY DEF CourierBusy, CourierPlaces
<1>3. new \in CourierStates
  BY <1>2 DEF CourierStates
<1>4. Steps(w) /\ courier'[w] = new
  BY <1>3, CourierTurns DEF Ends
<1> HIDE DEF new
<1> QED BY <1>2, <1>4 DEF KeepsEffect, Continues

\* A worker that rests has nothing in hand.
LEMMA CourierRests ==
  ASSUME ClaimShape, NEW w \in Couriers, Turns(w, AtRest)
  PROVE  Rests(w) /\ courier'[w].at = "rest"
BY CourierTurns, CourierRecords DEF Rests

\* A worker that sets out has the effect in hand, and has read nothing.
LEMMA CourierSetsOut ==
  ASSUME ClaimShape, NEW w \in Couriers, NEW r \in Submitted, NEW e \in Effects,
         e[1] # "drive" => e[3] = r, SetsOut(w, r, e)
  PROVE  /\ Steps(w) /\ courier'[w] \in CourierBusy
         /\ courier'[w].at \in {"exporting", "claiming"} /\ courier'[w].effect = e
         /\ courier'[w].revision = r /\ CourierSound(courier'[w])
<1> DEFINE at == IF e[1] = "drive" THEN "exporting" ELSE "claiming"
<1>1. at \in {"exporting", "claiming"} /\ (at = "exporting" => e[1] = "drive")
  OBVIOUS
<1>2. Turns(w, [AtRest EXCEPT !.at = at, !.revision = r, !.effect = e])
  BY DEF SetsOut
<1> HIDE DEF at
<1> DEFINE new == [AtRest EXCEPT !.at = at, !.revision = r, !.effect = e]
<1>3. /\ new \in CourierBusy /\ new.at = at /\ new.revision = r /\ new.effect = e
      /\ new.seen = {}
  BY <1>1 DEF AtRest, CourierBusy, CourierPlaces
<1>4. new \in CourierStates
  BY <1>3 DEF CourierStates
<1>5. Steps(w) /\ courier'[w] = new
  BY <1>2, <1>4, CourierTurns
<1> HIDE DEF new
<1> QED BY <1>1, <1>3, <1>5 DEF CourierSound

\* Perform: what it changes, and what it found.
LEMMA PerformDoes ==
  ASSUME ClaimShape, NEW w \in Couriers, NEW x \in Deliverable, Perform(w, x)
  PROVE  /\ Steps(w) /\ courier[w].at = "rest"
         /\ courier'[w] \in CourierBusy /\ CourierSound(courier'[w])
         /\ courier'[w].at \in {"exporting", "claiming"}
         /\ courier'[w].effect[1] \in {"drive", "sheets"} /\ courier'[w].effect[2] = x[1]
         /\ guards[Root(x[1])] = NoCourier /\ guards' = [guards EXCEPT ![Root(x[1])] = w]
         /\ Root(x[1]) \in Lockable
<1> DEFINE e == Piece(x[1], x[2], 1)
<1>1. x[1] \in Destinations /\ x[2] \in Submitted
  BY RowParts
<1>2. /\ e \in Effects /\ e[2] = x[1] /\ e[1] \in {"drive", "sheets"}
      /\ e[1] # "drive" => e[3] = x[2]
  BY <1>1, PieceFacts
<1>3. SetsOut(w, x[2], e)
  BY DEF Perform
<1> HIDE DEF e
<1>4. /\ Steps(w) /\ courier'[w] \in CourierBusy
      /\ courier'[w].at \in {"exporting", "claiming"} /\ courier'[w].effect = e
      /\ CourierSound(courier'[w])
  BY <1>1, <1>2, <1>3, CourierSetsOut
<1>5. courier[w].at = "rest"
  BY CourierRecords DEF Perform
<1>6. guards[Root(x[1])] = NoCourier /\ guards' = [guards EXCEPT ![Root(x[1])] = w]
  BY DEF Perform
<1> QED BY <1>1, <1>2, <1>4, <1>5, <1>6, EffectParts

\* Export: what it changes, and what it found.
LEMMA ExportDoes ==
  ASSUME ClaimShape, NEW w \in Couriers, Export(w)
  PROVE  /\ courier[w].at = "exporting"
         /\ \/ /\ KeepsEffect(w) /\ courier'[w].at = "claiming"
               /\ courier'[w].seen = courier[w].seen /\ guards' = guards
            \/ Rests(w) /\ guards' = Free(w)
<1>1. courier[w].at = "exporting" /\ courier[w] \in CourierBusy
  BY CourierRecords DEF ClaimShape, Export
<1>2. CASE Turns(w, [courier[w] EXCEPT !.at = "claiming"]) /\ guards' = guards
  BY <1>1, <1>2, CourierTo DEF CourierPlaces
<1>3. CASE Turns(w, AtRest) /\ guards' = Free(w)
  BY <1>1, <1>3, CourierRests
<1> QED BY <1>2, <1>3 DEF Export

\* ClaimEffect: what it changes, and what it found.
LEMMA ClaimEffectDoes ==
  ASSUME ClaimShape, NEW w \in Couriers, ClaimEffect(w)
  PROVE  LET e == courier[w].effect IN
         /\ KeepsEffect(w) /\ courier'[w].seen = courier[w].seen
         /\ courier[w].at = "claiming" /\ e \in Effects
         /\ guards' = [guards EXCEPT ![e] = w]
         /\ \/ /\ ledger[e] = "none" /\ ledger' = [ledger EXCEPT ![e] = "CLAIMED"]
               /\ courier'[w].at \in {"reading", "calling"}
               /\ courier'[w].at = "calling" <=> e[1] # "sheets"
            \/ /\ ledger[e] # "none" /\ ledger' = ledger
               /\ courier'[w].at = "answered" /\ courier'[w].result # "none"
               /\ courier'[w].result # "UNCERTAIN" =>
                    courier'[w].result = ledger[e] /\ ledger[e] \notin {"CLAIMED", "UNCERTAIN"}
<1> DEFINE e == courier[w].effect
<1>1. /\ courier[w].at = "claiming" /\ guards' = [guards EXCEPT ![e] = w]
  BY DEF ClaimEffect
<1>2. courier[w] \in CourierBusy /\ e \in Effects
  BY <1>1, CourierRecords DEF ClaimShape
<1>3. CASE ledger[e] = "none"
  <2>1. /\ ledger' = [ledger EXCEPT ![e] = "CLAIMED"]
        /\ Turns(w, [courier[w] EXCEPT !.at = IF e[1] = "sheets" THEN "reading" ELSE "calling"])
    BY <1>3 DEF ClaimEffect, Unseen
  <2> DEFINE at == IF e[1] = "sheets" THEN "reading" ELSE "calling"
  <2>2. /\ at \in CourierPlaces /\ at \in {"reading", "calling"}
        /\ at = "calling" <=> e[1] # "sheets"
    BY DEF CourierPlaces
  <2>3. Turns(w, [courier[w] EXCEPT !.at = at])
    BY <2>1
  <2> HIDE DEF at
  <2>4. KeepsEffect(w) /\ courier'[w].at = at /\ courier'[w].seen = courier[w].seen
    BY <1>2, <2>2, <2>3, CourierTo
  <2> QED BY <1>1, <1>2, <1>3, <2>1, <2>2, <2>4
<1>4. CASE ledger[e] # "none"
  <2>1. PICK r \in EffectOutcomes :
          /\ Ends(w, r) /\ ledger' = ledger
          /\ r # "UNCERTAIN" => r = ledger[e] /\ ledger[e] \notin {"CLAIMED", "UNCERTAIN"}
    <3>1. CASE ledger[e] = "CLAIMED"
      BY <1>4, <3>1 DEF ClaimEffect, Unseen, EffectOutcomes
    <3>2. CASE ledger[e] # "CLAIMED"
      <4>1. ledger[e] \in EffectOutcomes
        BY <1>2, <1>4, <3>2 DEF ClaimShape, LedgerEntries
      <4> QED BY <1>4, <3>2, <4>1 DEF ClaimEffect, Unseen
    <3> QED BY <3>1, <3>2
  <2>2. /\ KeepsEffect(w) /\ courier'[w].at = "answered"
        /\ courier'[w].result = r /\ courier'[w].seen = courier[w].seen
    BY <1>2, <2>1, CourierEnds
  <2>3. r # "none"
    BY DEF EffectOutcomes
  <2> QED BY <1>1, <1>2, <1>4, <2>1, <2>2, <2>3
<1> QED BY <1>3, <1>4

\* ReadQueue: what it changes, and what it found.
LEMMA ReadQueueDoes ==
  ASSUME ClaimShape, NEW w \in Couriers, ReadQueue(w)
  PROVE  /\ KeepsEffect(w) /\ courier[w].at = "reading" /\ courier[w].effect \in Effects
         /\ \/ /\ courier'[w].at = "answered" /\ courier'[w].seen = courier[w].seen
               /\ courier'[w].result \in {"FAILED", "REJECTED", "SUPERSEDED", "REUSED"}
               /\ courier'[w].result = "SUPERSEDED" => Overtaken(w)
               /\ courier'[w].result = "REUSED" => Standing(w)
            \/ /\ courier'[w].at = "calling" /\ ~Overtaken(w)
               /\ courier'[w].seen = RowsOf(Under(w))
<1>1. courier[w] \in CourierBusy /\ courier[w].effect \in Effects /\ courier[w].at = "reading"
  BY CourierRecords DEF ClaimShape, ReadQueue
<1>2. ASSUME NEW r \in {"FAILED", "REJECTED", "SUPERSEDED", "REUSED"}, Ends(w, r)
      PROVE  /\ KeepsEffect(w) /\ courier'[w].seen = courier[w].seen
             /\ courier'[w].at = "answered" /\ courier'[w].result = r
  BY <1>1, <1>2, CourierEnds DEF EffectOutcomes
<1>3. CASE /\ Turns(w, [courier[w] EXCEPT !.at = "calling", !.seen = RowsOf(Under(w))])
           /\ ~Overtaken(w)
  <2> DEFINE rows == RowsOf(Under(w))
             new == [courier[w] EXCEPT !.at = "calling", !.seen = rows]
  <2>1. rows \in SUBSET Deliverable
    BY DEF ClaimShape, RowsOf
  <2> HIDE DEF rows
  <2>2. /\ new \in CourierBusy /\ new.at = "calling" /\ new.seen = rows
        /\ new.effect = courier[w].effect /\ new.revision = courier[w].revision
    BY <1>1, <2>1 DEF CourierBusy, CourierPlaces
  <2>3. new \in CourierStates
    BY <2>2 DEF CourierStates
  <2>4. Steps(w) /\ courier'[w] = new
    BY <1>3, <2>3, CourierTurns DEF rows
  <2> HIDE DEF new
  <2>5. KeepsEffect(w) /\ courier'[w].at = "calling" /\ courier'[w].seen = rows
    BY <1>1, <2>2, <2>4 DEF KeepsEffect, Continues
  <2> QED BY <1>1, <1>3, <2>5 DEF rows
<1>4. Held(w)[1] = Under(w)
  BY DEF Held, Under
<1> QED BY <1>1, <1>2, <1>3, <1>4 DEF ReadQueue

\* CallOut: what it changes, and what it found.
LEMMA CallOutDoes ==
  ASSUME ClaimShape, NEW w \in Couriers, CallOut(w)
  PROVE  LET e == courier[w].effect IN
         /\ KeepsEffect(w) /\ courier'[w].seen = courier[w].seen
         /\ courier[w].at = "calling" /\ e \in Effects
         /\ courier'[w].at = "answered"
         /\ \/ /\ performed' = performed /\ queueRows' = queueRows
               /\ courier'[w].result \in {"REJECTED", "FAILED", "UNCERTAIN"}
            \/ /\ performed' = [performed EXCEPT ![e] = performed[e] + 1]
               /\ queueRows' = Recorded(w)
               /\ courier'[w].result \in {"SUCCEEDED", "UNCERTAIN"}
<1> DEFINE e == courier[w].effect
<1>1. courier[w] \in CourierBusy /\ e \in Effects /\ courier[w].at = "calling"
  BY CourierRecords DEF ClaimShape, CallOut
<1>2. PICK call \in WriteCalls :
        /\ performed' = [performed EXCEPT ![e] = @ + IF call.done THEN 1 ELSE 0]
        /\ queueRows' = IF call.done THEN Recorded(w) ELSE queueRows
        /\ Ends(w, GoogleResult(call.fault))
  BY DEF CallOut
<1> DEFINE r == GoogleResult(call.fault)
<1>3. /\ r \in {"SUCCEEDED", "REJECTED", "FAILED", "UNCERTAIN"} /\ call.done \in BOOLEAN
      /\ r \in {"REJECTED", "FAILED"} => ~call.done
      /\ r = "SUCCEEDED" => call.done
  BY DeliveryCallFacts
<1>4. r \in EffectOutcomes /\ Ends(w, r)
  BY <1>2, <1>3 DEF EffectOutcomes
<1> HIDE DEF r
<1>5. /\ KeepsEffect(w) /\ courier'[w].seen = courier[w].seen
      /\ courier'[w].at = "answered" /\ courier'[w].result = r
  BY <1>1, <1>4, CourierEnds
<1>6. CASE call.done
  <2>1. performed' = [performed EXCEPT ![e] = performed[e] + 1] /\ queueRows' = Recorded(w)
    BY <1>2, <1>6
  <2> QED BY <1>1, <1>3, <1>5, <1>6, <2>1
<1>7. CASE ~call.done
  <2>1. performed' = performed
    BY <1>1, <1>2, <1>7 DEF ClaimShape
  <2>2. queueRows' = queueRows
    BY <1>2, <1>7
  <2> QED BY <1>1, <1>3, <1>5, <1>7, <2>1, <2>2
<1> QED BY <1>6, <1>7

\* FinishEffect: what it changes, and what it found.
LEMMA FinishEffectDoes ==
  ASSUME ClaimShape, CouriersSound, NEW w \in Couriers, FinishEffect(w)
  PROVE  LET e == courier[w].effect
             r == courier[w].revision
         IN
         /\ courier[w].at = "answered" /\ e \in Effects /\ r \in Submitted
         /\ ledger'[e] = IF ledger[e] = "CLAIMED" THEN courier[w].result ELSE ledger[e]
         /\ \A f \in Effects \ {e} : ledger'[f] = ledger[f]
         /\ ledger' \in [Effects -> LedgerEntries]
         /\ courier[w].result \in EffectOutcomes
         /\ \/ Rests(w) /\ guards' = Free(w)
            \/ /\ courier[w].result \in {"SUCCEEDED", "REUSED"} /\ e[1] # "gmail"
               /\ e[1] # "drive" => e[3] = r
               /\ Continues(w) /\ CourierSound(courier'[w])
               /\ courier'[w].at \in {"exporting", "claiming"}
               /\ courier'[w].effect = Following(r, e)
               /\ guards' = [guards EXCEPT ![e] = IF guards[e] = w THEN NoCourier ELSE guards[e]]
<1> DEFINE e == courier[w].effect
           r == courier[w].revision
<1>1. courier[w] \in CourierBusy /\ e \in Effects /\ courier[w].at = "answered" /\ r \in Submitted
  BY CourierRecords DEF ClaimShape, FinishEffect
<1>2. courier[w].result \in EffectOutcomes /\ (e[1] # "drive" => e[3] = r)
  BY <1>1 DEF CouriersSound, CourierSound, CourierBusy
<1>3. ledger' = [ledger EXCEPT ![e] = IF @ = "CLAIMED" THEN courier[w].result ELSE @]
  BY DEF FinishEffect
<1>4. /\ ledger'[e] = IF ledger[e] = "CLAIMED" THEN courier[w].result ELSE ledger[e]
      /\ \A f \in Effects \ {e} : ledger'[f] = ledger[f]
      /\ ledger' \in [Effects -> LedgerEntries]
  BY <1>1, <1>2, <1>3 DEF ClaimShape, LedgerEntries
<1>5. CASE ~GoesOn(w)
  <2>1. Turns(w, AtRest) /\ guards' = Free(w)
    BY <1>5 DEF FinishEffect
  <2> QED BY <1>1, <1>2, <1>4, <2>1, CourierRests
<1>6. CASE GoesOn(w)
  <2> DEFINE next == Following(r, e)
  <2>1. courier[w].result \in {"SUCCEEDED", "REUSED"} /\ e[1] # "gmail"
    BY <1>6 DEF GoesOn
  <2>2. /\ SetsOut(w, r, next)
        /\ guards' = [guards EXCEPT ![e] = IF @ = w THEN NoCourier ELSE @]
    BY <1>6 DEF FinishEffect
  <2>3. next \in Effects /\ next[2] = e[2] /\ (next[1] # "drive" => next[3] = r)
    BY <1>1, <1>2, <2>1, FollowingFacts
  <2> HIDE DEF next
  <2>4. /\ Steps(w) /\ courier'[w] \in CourierBusy
        /\ courier'[w].at \in {"exporting", "claiming"} /\ courier'[w].effect = next
        /\ CourierSound(courier'[w])
    BY <1>1, <2>2, <2>3, CourierSetsOut
  <2>5. Continues(w)
    BY <1>1, <2>3, <2>4 DEF Continues
  <2> QED BY <1>1, <1>2, <1>4, <2>1, <2>2, <2>4, <2>5 DEF next
<1> QED BY <1>5, <1>6

\* A worker that dies rests.
LEMMA CourierDiesDoes ==
  ASSUME ClaimShape, NEW w \in Couriers, CourierDies(w)
  PROVE  Rests(w) /\ guards' = Free(w)
BY CourierRests DEF CourierDies

\* Freeing the locks of one worker leaves those of the others.
LEMMA LocksFreed ==
  ASSUME ClaimShape, NEW w \in Couriers
  PROVE  /\ Free(w) \in [Lockable -> Couriers \cup {NoCourier}]
         /\ \A v \in Couriers \ {w}, k \in Lockable : guards[k] = v => Free(w)[k] = v
BY DEF ClaimShape, Free

\* A step takes a worker on, sends it out or lets it rest.
LEMMA CourierSteps ==
  ASSUME ClaimShape, CouriersSound, [ClaimNext]_claimVars
  PROVE  \/ courier' = courier
         \/ \E w \in Couriers : Continues(w) \/ Rests(w)
         \/ \E w \in Couriers, x \in Deliverable : Perform(w, x)
<1>1. ASSUME NEW w \in Couriers,
             \/ Export(w) \/ ClaimEffect(w) \/ ReadQueue(w) \/ CallOut(w)
             \/ FinishEffect(w) \/ CourierDies(w)
      PROVE  Continues(w) \/ Rests(w)
  <2>1. KeepsEffect(w) => Continues(w)
    BY DEF KeepsEffect
  <2> QED BY <1>1, <2>1, ExportDoes, ClaimEffectDoes, ReadQueueDoes, CallOutDoes, FinishEffectDoes,
             CourierDiesDoes
<1>2. ASSUME Submit \/ Redirect \/ (\E w \in Couriers : LockDrops(w)) \/ UNCHANGED claimVars
      PROVE  courier' = courier
  BY <1>2 DEF Submit, Redirect, LockDrops, claimVars
<1> QED BY <1>1, <1>2 DEF ClaimNext

\* No step leaves the types, nor what a worker remembers.
LEMMA ClaimShapeStep ==
  ASSUME ClaimShape, CouriersSound, [ClaimNext]_claimVars
  PROVE  ClaimShape' /\ CouriersSound'
<1>k. ASSUME NEW w \in Couriers, CouriersKeep(w), CourierSound(courier'[w]) PROVE CouriersSound'
  BY <1>k DEF CouriersKeep, CouriersSound, CourierSound
<1>r. ASSUME NEW w \in Couriers, Rests(w) PROVE CourierSound(courier'[w])
  BY <1>r, CourierRecords DEF Rests, CourierSound
<1>m. \A w \in Couriers : Continues(w) \/ Rests(w) \/ Steps(w) =>
        courier' \in [Couriers -> CourierStates] /\ CouriersKeep(w)
  BY DEF Continues, Rests, Steps
<1>s. \A w \in Couriers : KeepsEffect(w) => Continues(w)
  BY DEF KeepsEffect
<1>1. ASSUME NEW w \in Couriers, NEW x \in Deliverable, Perform(w, x)
      PROVE  ClaimShape' /\ CouriersSound'
  <2>1. /\ courier' \in [Couriers -> CourierStates] /\ CouriersKeep(w)
        /\ CourierSound(courier'[w])
    BY <1>1, <1>m, PerformDoes
  <2>2. guards' \in [Lockable -> Couriers \cup {NoCourier}]
    BY <1>1, PerformDoes DEF ClaimShape
  <2>3. ClaimShape'
    BY <1>1, <2>1, <2>2 DEF Perform, ClaimShape
  <2> QED BY <1>k, <2>1, <2>3
<1>2. ASSUME NEW w \in Couriers, Export(w) PROVE ClaimShape' /\ CouriersSound'
  <2>1. courier' \in [Couriers -> CourierStates] /\ CouriersKeep(w)
    BY <1>2, <1>m, <1>s, ExportDoes
  <2>2. guards' \in [Lockable -> Couriers \cup {NoCourier}]
    BY <1>2, ExportDoes, LocksFreed DEF ClaimShape
  <2>3. ClaimShape'
    BY <1>2, <2>1, <2>2 DEF Export, ClaimShape
  <2>4. CourierSound(courier'[w])
    BY <1>2, <1>r, ExportDoes DEF CouriersSound, CourierSound, KeepsEffect
  <2> QED BY <1>k, <2>1, <2>3, <2>4
<1>3. ASSUME NEW w \in Couriers, ClaimEffect(w) PROVE ClaimShape' /\ CouriersSound'
  <2>1. courier' \in [Couriers -> CourierStates] /\ CouriersKeep(w)
    BY <1>3, <1>m, <1>s, ClaimEffectDoes
  <2>2. guards' \in [Lockable -> Couriers \cup {NoCourier}]
    BY <1>3, ClaimEffectDoes, EffectParts DEF ClaimShape
  <2>5. ledger' \in [Effects -> LedgerEntries]
    BY <1>3, ClaimEffectDoes DEF ClaimShape, LedgerEntries
  <2>3. ClaimShape'
    BY <1>3, <2>1, <2>2, <2>5 DEF ClaimEffect, ClaimShape
  <2>4. CourierSound(courier'[w])
    BY <1>3, ClaimEffectDoes DEF CouriersSound, CourierSound, KeepsEffect
  <2> QED BY <1>k, <2>1, <2>3, <2>4
<1>4. ASSUME NEW w \in Couriers, ReadQueue(w) PROVE ClaimShape' /\ CouriersSound'
  <2>1. courier' \in [Couriers -> CourierStates] /\ CouriersKeep(w)
    BY <1>4, <1>m, <1>s, ReadQueueDoes
  <2>3. ClaimShape'
    BY <1>4, <2>1 DEF ReadQueue, ClaimShape
  <2>4. CourierSound(courier'[w])
    BY <1>4, ReadQueueDoes DEF CouriersSound, CourierSound, KeepsEffect, RowsOf, Under
  <2> QED BY <1>k, <2>1, <2>3, <2>4
<1>5. ASSUME NEW w \in Couriers, CallOut(w) PROVE ClaimShape' /\ CouriersSound'
  <2>1. courier' \in [Couriers -> CourierStates] /\ CouriersKeep(w)
    BY <1>5, <1>m, <1>s, CallOutDoes
  <2>4. CourierSound(courier'[w])
    BY <1>5, CallOutDoes DEF CouriersSound, CourierSound, KeepsEffect
  <2>2. performed' \in [Effects -> Nat]
    BY <1>5, CallOutDoes DEF ClaimShape
  <2>5. queueRows' \subseteq Deliverable
    <3>1. courier[w].revision \in Submitted /\ courier[w].effect[2] \in Destinations
      BY <1>5, CallOutDoes, CourierRecords, EffectParts DEF KeepsEffect, Continues
    <3>2. Held(w) \in Deliverable
      BY <3>1, RowParts DEF Held
    <3> QED BY <1>5, <3>2, CallOutDoes DEF ClaimShape, Recorded
  <2>3. ClaimShape'
    BY <1>5, <2>1, <2>2, <2>5 DEF CallOut, ClaimShape
  <2> QED BY <1>k, <2>1, <2>3, <2>4
<1>6. ASSUME NEW w \in Couriers, FinishEffect(w) PROVE ClaimShape' /\ CouriersSound'
  <2>1. /\ courier' \in [Couriers -> CourierStates] /\ CouriersKeep(w)
        /\ ledger' \in [Effects -> LedgerEntries]
    BY <1>6, <1>m, FinishEffectDoes
  <2>2. guards' \in [Lockable -> Couriers \cup {NoCourier}]
    <3>1. CASE guards' = Free(w)
      BY <3>1, LocksFreed
    <3>2. CASE \E g \in Couriers \cup {NoCourier} :
                 guards' = [guards EXCEPT ![courier[w].effect] = g]
      BY <3>2 DEF ClaimShape
    <3>3. guards[courier[w].effect] \in Couriers \cup {NoCourier}
      BY <1>6, FinishEffectDoes, EffectParts DEF ClaimShape
    <3> QED BY <1>6, <3>1, <3>2, <3>3, FinishEffectDoes
  <2>3. ClaimShape'
    BY <1>6, <2>1, <2>2 DEF FinishEffect, ClaimShape
  <2>4. CourierSound(courier'[w])
    BY <1>6, <1>r, FinishEffectDoes
  <2> QED BY <1>k, <2>1, <2>3, <2>4
<1>7. ASSUME NEW w \in Couriers, CourierDies(w) PROVE ClaimShape' /\ CouriersSound'
  <2>1. courier' \in [Couriers -> CourierStates] /\ CouriersKeep(w) /\ CourierSound(courier'[w])
    BY <1>7, <1>m, <1>r, CourierDiesDoes
  <2>2. guards' \in [Lockable -> Couriers \cup {NoCourier}]
    BY <1>7, LocksFreed DEF CourierDies
  <2>3. ClaimShape'
    BY <1>7, <2>1, <2>2 DEF CourierDies, ClaimShape
  <2> QED BY <1>k, <2>1, <2>3
<1>8. ASSUME NEW w \in Couriers, LockDrops(w) PROVE ClaimShape' /\ CouriersSound'
  <2>1. guards' \in [Lockable -> Couriers \cup {NoCourier}]
    BY <1>8 DEF LockDrops, ClaimShape
  <2> QED BY <1>8, <2>1 DEF LockDrops, ClaimShape, CouriersSound, CourierSound
<1>9. CASE Submit
  <2>1. CASE UNCHANGED <<revision, evidence>> /\ revision > 0
    <3>1. revision \in Submitted
      BY <2>1, DeliveryConstants DEF ClaimShape, Submitted
    <3>2. <<destination, revision>> \in Deliverable
      BY <3>1, RowParts DEF ClaimShape
    <3> QED BY <1>9, <2>1, <3>2 DEF Submit, ClaimShape, CouriersSound, CourierSound
  <2>2. ASSUME revision < MaxRevision, revision' = revision + 1, NEW more \in {0, 1},
               evidence' = [evidence EXCEPT ![revision + 1] =
                              more + IF revision = 0 THEN 0 ELSE evidence[revision]]
        PROVE  ClaimShape' /\ CouriersSound'
    <3> DEFINE n == more + IF revision = 0 THEN 0 ELSE evidence[revision]
    <3>1. revision \in Nat /\ revision + 1 \in Submitted /\ revision' \in 0 .. MaxRevision
      BY <2>2, DeliveryConstants DEF ClaimShape, Submitted
    <3>2. n \in 0 .. MaxRevision /\ n <= revision + 1
      <4>1. CASE revision = 0
        BY <4>1, DeliveryConstants
      <4>2. CASE revision # 0
        <5>1. revision \in Submitted
          BY <4>2, DeliveryConstants DEF ClaimShape, Submitted
        <5>2. evidence[revision] \in Nat /\ evidence[revision] <= revision
          BY <5>1 DEF ClaimShape
        <5> QED BY <2>2, <3>1, <4>2, <5>2, DeliveryConstants
      <4> QED BY <4>1, <4>2
    <3> HIDE DEF n
    <3>3. evidence' = [evidence EXCEPT ![revision + 1] = n]
      BY <2>2 DEF n
    <3>4. evidence' \in [Submitted -> 0 .. MaxRevision] /\ \A r \in Submitted : evidence'[r] <= r
      BY <3>1, <3>2, <3>3 DEF ClaimShape
    <3>5. <<destination, revision'>> \in Deliverable
      BY <2>2, <3>1, RowParts DEF ClaimShape
    <3> QED BY <1>9, <3>1, <3>4, <3>5 DEF Submit, ClaimShape, CouriersSound, CourierSound
  <2> QED BY <1>9, <2>1, <2>2 DEF Submit
<1>10. CASE Redirect
  BY <1>10 DEF Redirect, ClaimShape, CouriersSound, CourierSound
<1>11. CASE UNCHANGED claimVars
  BY <1>11 DEF claimVars, ClaimShape, CouriersSound, CourierSound
<1> QED BY <1>1, <1>2, <1>3, <1>4, <1>5, <1>6, <1>7, <1>8, <1>9, <1>10, <1>11 DEF ClaimNext

\* What is counted as unguarded remains so.
LEMMA UnguardedStays == [ClaimNext]_claimVars => unguarded \subseteq unguarded'
BY DEF ClaimNext, claimVars, Submit, Perform, Export, ClaimEffect, ReadQueue, CallOut,
       FinishEffect, CourierDies, LockDrops, Redirect

\* A worker that was at a delivery before, and still is, is under its configuration.
LEMMA StillBusy ==
  ASSUME ClaimShape, CouriersSound, [ClaimNext]_claimVars, NEW w \in Couriers, Busy(w)',
         \A x \in Deliverable : ~Perform(w, x)
  PROVE  Busy(w) /\ courier'[w].effect[2] = courier[w].effect[2]
         /\ courier[w].effect \in Effects
<1>1. courier'[w] # AtRest
  BY CourierRecords DEF Busy
<1>2. CASE courier'[w] = courier[w]
  BY <1>2, CourierRecords DEF Busy, ClaimShape
<1>3. CASE \E v \in Couriers : Continues(v) \/ Rests(v)
  <2>1. PICK v \in Couriers : Continues(v) \/ Rests(v)
    BY <1>3
  <2>2. CASE v = w
    BY <1>1, <2>1, <2>2, CourierRecords DEF Continues, Rests, Busy
  <2>3. CASE v # w
    BY <1>2, <2>1, <2>3 DEF Continues, Rests, Steps, CouriersKeep
  <2> QED BY <2>2, <2>3
<1>4. CASE \E v \in Couriers, x \in Deliverable : Perform(v, x)
  BY <1>2, <1>4, PerformDoes DEF Steps, CouriersKeep
<1> QED BY <1>2, <1>3, <1>4, CourierSteps

\* The lock of the destination stays with the worker under it, until its connection
\* drops.
LEMMA RootStep ==
  ASSUME ClaimShape, CouriersSound, RootHeld, [ClaimNext]_claimVars
  PROVE  RootHeld'
<1> SUFFICES ASSUME NEW w \in Couriers, Busy(w)',
                    SheetOf[courier'[w].effect[2]] \notin unguarded'
             PROVE  guards'[Root(courier'[w].effect[2])] = w
  BY DEF RootHeld, Under, SheetAt
<1>1. ASSUME NEW x \in Deliverable, Perform(w, x)
      PROVE  guards'[Root(courier'[w].effect[2])] = w
  BY <1>1, PerformDoes DEF ClaimShape
<1>2. ASSUME \A x \in Deliverable : ~Perform(w, x)
      PROVE  guards'[Root(courier'[w].effect[2])] = w
  <2> DEFINE d == courier[w].effect[2]
  <2>1. Busy(w) /\ courier'[w].effect[2] = d /\ courier[w].effect \in Effects
    BY <1>2, StillBusy
  <2>2. d \in Destinations
    BY <2>1, EffectParts
  <2>3. guards[Root(d)] = w /\ Root(d) \in Lockable
    BY <2>1, <2>2, UnguardedStays, EffectParts DEF RootHeld, Under, SheetAt
  <2>4. courier'[w] # AtRest
    BY CourierRecords DEF Busy
  <2>5. SheetOf[d] \notin unguarded'
    BY <2>1
  <2> HIDE DEF d
  <2>e. \A e \in Effects : \A g : [guards EXCEPT ![e] = g][Root(d)] = guards[Root(d)]
    BY <2>2, EffectParts DEF ClaimShape
  <2>f. \A v \in Couriers : guards' = Free(v) /\ Rests(v) => guards'[Root(d)] = w
    BY <2>3, <2>4, LocksFreed DEF Rests
  <2>6. ASSUME NEW v \in Couriers, NEW x \in Deliverable, Perform(v, x) PROVE guards'[Root(d)] = w
    <3>1. guards[Root(x[1])] = NoCourier /\ guards' = [guards EXCEPT ![Root(x[1])] = v]
      BY <2>6, PerformDoes
    <3>2. Root(x[1]) # Root(d)
      BY <2>3, <3>1, DeliveryConstants
    <3> QED BY <2>3, <3>1, <3>2 DEF ClaimShape
  <2>7. ASSUME NEW v \in Couriers, Export(v) PROVE guards'[Root(d)] = w
    BY <2>3, <2>7, <2>f, ExportDoes
  <2>8. ASSUME NEW v \in Couriers, ClaimEffect(v) PROVE guards'[Root(d)] = w
    <3>1. courier[v].effect \in Effects /\ guards' = [guards EXCEPT ![courier[v].effect] = v]
      BY <2>8, ClaimEffectDoes
    <3>2. guards'[Root(d)] = guards[Root(d)]
      BY <2>e, <3>1
    <3> QED BY <2>3, <3>2
  <2>9. ASSUME NEW v \in Couriers, FinishEffect(v) PROVE guards'[Root(d)] = w
    <3>1. courier[v].effect \in Effects
      BY <2>9, FinishEffectDoes
    <3>2. CASE \E g : guards' = [guards EXCEPT ![courier[v].effect] = g]
      <4>1. guards'[Root(d)] = guards[Root(d)]
        BY <2>e, <3>1, <3>2
      <4> QED BY <2>3, <4>1
    <3>3. CASE guards' = Free(v) /\ Rests(v)
      BY <2>f, <3>3
    <3> QED BY <2>9, <3>2, <3>3, FinishEffectDoes
  <2>10. ASSUME NEW v \in Couriers, CourierDies(v) PROVE guards'[Root(d)] = w
    BY <2>10, <2>f, CourierDiesDoes
  <2>11. ASSUME NEW v \in Couriers, LockDrops(v) PROVE guards'[Root(d)] = w
    <3>1. PICK lost \in SUBSET {k \in Lockable : guards[k] = v} \ {{}} :
            /\ guards' = [k \in Lockable |-> IF k \in lost THEN NoCourier ELSE guards[k]]
            /\ unguarded' = unguarded \cup
                 {SheetOf[c] : c \in {b \in Destinations : Root(b) \in lost}}
      BY <2>11 DEF LockDrops
    <3>2. Root(d) \notin lost
      BY <2>2, <2>5, <3>1
    <3> QED BY <2>3, <3>1, <3>2
  <2>12. ASSUME guards' = guards PROVE guards'[Root(d)] = w
    BY <2>3, <2>12
  <2>13. guards'[Root(d)] = w
    BY <2>6, <2>7, <2>8, <2>9, <2>10, <2>11, <2>12
       DEF ClaimNext, claimVars, Submit, ReadQueue, CallOut, Redirect
  <2> QED BY <2>1, <2>13
<1> QED BY <1>1, <1>2

\* Who sets out for a sheet is alone there, or that is counted.
LEMMA AloneStep ==
  ASSUME ClaimShape, CouriersSound, RootHeld, AloneAtSheet, [ClaimNext]_claimVars
  PROVE  AloneAtSheet'
<1>1. ASSUME NEW v \in Couriers, NEW w \in Couriers, NEW x \in Deliverable, v # w,
             Perform(w, x), Busy(v)',
             SheetOf[courier'[v].effect[2]] = SheetOf[courier'[w].effect[2]]
      PROVE  SheetOf[courier'[w].effect[2]] \in unguarded'
  <2>1. /\ courier'[v] = courier[v] /\ courier'[w].effect[2] = x[1]
        /\ guards[Root(x[1])] = NoCourier
    BY <1>1, PerformDoes DEF Steps, CouriersKeep
  <2>2. Busy(v) /\ courier[v] # AtRest
    BY <1>1, <2>1, CourierRecords DEF Busy
  <2>3. CASE courier[v].effect[2] # x[1]
    <3>1. Beside(w, x[1])
      BY <1>1, <2>1, <2>2, <2>3 DEF Beside
    <3> QED BY <1>1, <2>1, <3>1 DEF Perform
  <2>4. CASE courier[v].effect[2] = x[1]
    <3>1. SheetOf[x[1]] \in unguarded
      BY <2>1, <2>2, <2>4, DeliveryConstants DEF RootHeld, Under, SheetAt
    <3> QED BY <2>1, <3>1, UnguardedStays
  <2> QED BY <2>3, <2>4
<1> SUFFICES ASSUME NEW v \in Couriers, NEW w \in Couriers, v # w, Busy(v)', Busy(w)',
                    SheetOf[courier'[v].effect[2]] = SheetOf[courier'[w].effect[2]]
             PROVE  SheetOf[courier'[w].effect[2]] \in unguarded'
  BY DEF AloneAtSheet, Under, SheetAt
<1>2. CASE \E x \in Deliverable : Perform(w, x)
  BY <1>1, <1>2
<1>3. CASE \E x \in Deliverable : Perform(v, x)
  BY <1>1, <1>3
<1>4. CASE \A x \in Deliverable : ~Perform(v, x) /\ ~Perform(w, x)
  BY <1>4, StillBusy, UnguardedStays DEF AloneAtSheet, Under, SheetAt
<1> QED BY <1>2, <1>3, <1>4

\* The rows of a sheet do not go back to an earlier revision.
RowsGoUp(d) == \A x \in RowsOf(d), y \in RowsOf(d)' : x[2] <= y[2]

\* What one worker writes to its sheet, alone there and with what it read still current,
\* is the only row of that sheet; other sheets stay as they are.
LEMMA RowsAfterCall ==
  ASSUME ClaimShape, CouriersSound, NEW v \in Couriers, NEW d \in Destinations, CallsSheet(v),
         queueRows' = Recorded(v)
  PROVE  /\ SheetAt(v) = SheetOf[d] /\ courier[v].seen = RowsOf(d) => RowsOf(d)' = {Held(v)}
         /\ SheetAt(v) # SheetOf[d] => RowsOf(d)' = RowsOf(d)
<1>1. queueRows' = (queueRows \ courier[v].seen) \cup {Held(v)}
  BY DEF Recorded, CallsSheet
<1>2. Held(v)[1] = Under(v)
  BY DEF Held, Under
<1>3. \A x \in courier[v].seen : SheetOf[x[1]] = SheetAt(v)
  BY DEF CallsSheet, CouriersSound, CourierSound, SheetAt, Under
<1> DEFINE seen == courier[v].seen
<1> HIDE DEF seen
<1>4. RowsOf(d)' = {x \in queueRows' : SheetOf[x[1]] = SheetOf[d]}
  BY DEF RowsOf
<1>5. CASE SheetAt(v) = SheetOf[d] /\ courier[v].seen = RowsOf(d)
  <2>1. \A x : x \in RowsOf(d) <=> x \in queueRows /\ SheetOf[x[1]] = SheetOf[d]
    BY DEF RowsOf
  <2>2. \A x : x \in RowsOf(d)' <=> x = Held(v)
    BY <1>1, <1>2, <1>4, <1>5, <2>1 DEF SheetAt
  <2> QED BY <1>5, <2>2
<1>6. CASE SheetAt(v) # SheetOf[d]
  <2>1. \A x : x \in RowsOf(d) <=> x \in queueRows /\ SheetOf[x[1]] = SheetOf[d]
    BY DEF RowsOf
  <2>2. \A x : x \in RowsOf(d)' <=> x \in RowsOf(d)
    BY <1>1, <1>2, <1>3, <1>4, <1>6, <2>1 DEF SheetAt
  <2> QED BY <1>6, <2>2
<1> QED BY <1>5, <1>6

\* No step puts a second row of the case into a sheet, or takes one back to an earlier
\* revision, where no two workers may be.
LEMMA QueueStep ==
  ASSUME ClaimShape, CouriersSound, AloneAtSheet, QueueCurrent, [ClaimNext]_claimVars,
         NEW d \in Destinations, SheetOf[d] \notin unguarded'
  PROVE  SheetCurrent(d)' /\ RowsGoUp(d)
<1>a. SheetOf[d] \notin unguarded /\ SheetCurrent(d)
  BY UnguardedStays DEF QueueCurrent
<1>n. \A x \in RowsOf(d) : x[2] \in Nat /\ x[2] <= x[2]
  BY RowParts DEF ClaimShape, RowsOf
<1> DEFINE Calls(w) == courier'[w].at = "calling" /\ courier'[w].effect[1] = "sheets"
                       /\ SheetOf[courier'[w].effect[2]] = SheetOf[d]
           Current(w) == /\ courier'[w].seen = RowsOf(d)'
                         /\ \A x \in RowsOf(d)' : x[2] <= courier'[w].revision
           Goal == /\ \A x, y \in RowsOf(d)' : x = y
                   /\ \A w \in Couriers : Calls(w) => Current(w)
                   /\ RowsGoUp(d)
<1>g. Goal => SheetCurrent(d)' /\ RowsGoUp(d)
  BY DEF SheetCurrent, CallsSheet, SheetAt, Under
<1>b. \A w \in Couriers : courier'[w] = courier[w] /\ Calls(w) =>
        courier'[w].seen = RowsOf(d) /\ \A x \in RowsOf(d) : x[2] <= courier'[w].revision
  BY <1>a DEF SheetCurrent, CallsSheet, SheetAt, Under
<1>k. ASSUME RowsOf(d)' = RowsOf(d),
             \A w \in Couriers : courier'[w] = courier[w] \/ (Calls(w) => Current(w))
      PROVE  Goal
  <2>1. \A w \in Couriers : Calls(w) => Current(w)
    BY <1>b, <1>k
  <2>2. \A x, y \in RowsOf(d) : x = y /\ x[2] <= y[2]
    BY <1>a, <1>n DEF SheetCurrent
  <2> QED BY <1>k, <2>1, <2>2 DEF RowsGoUp
<1>q. ASSUME queueRows' = queueRows PROVE RowsOf(d)' = RowsOf(d)
  BY <1>q DEF RowsOf
<1>o. ASSUME queueRows' = queueRows, NEW v \in Couriers, CouriersKeep(v), ~Calls(v) PROVE Goal
  BY <1>k, <1>o, <1>q DEF CouriersKeep
<1>m. \A w \in Couriers : Continues(w) \/ Rests(w) \/ KeepsEffect(w) \/ Steps(w) => CouriersKeep(w)
  BY DEF Continues, Rests, Steps, KeepsEffect
<1>r. \A w \in Couriers : Rests(w) => ~Calls(w)
  BY CourierRecords DEF Rests
<1>1. ASSUME NEW v \in Couriers, NEW x \in Deliverable, Perform(v, x) PROVE Goal
  <2>1. queueRows' = queueRows
    BY <1>1 DEF Perform
  <2>2. CouriersKeep(v) /\ ~Calls(v)
    BY <1>1, <1>m, PerformDoes
  <2> QED BY <1>o, <2>1, <2>2
<1>2. ASSUME NEW v \in Couriers, Export(v) PROVE Goal
  <2>1. queueRows' = queueRows
    BY <1>2 DEF Export
  <2>2. CouriersKeep(v) /\ ~Calls(v)
    BY <1>2, <1>m, <1>r, ExportDoes
  <2> QED BY <1>o, <2>1, <2>2
<1>3. ASSUME NEW v \in Couriers, ClaimEffect(v) PROVE Goal
  <2>1. queueRows' = queueRows
    BY <1>3 DEF ClaimEffect
  <2>2. CouriersKeep(v) /\ ~Calls(v)
    BY <1>3, <1>m, ClaimEffectDoes DEF KeepsEffect
  <2> QED BY <1>o, <2>1, <2>2
<1>4. ASSUME NEW v \in Couriers, ReadQueue(v) PROVE Goal
  <2>1. queueRows' = queueRows
    BY <1>4 DEF ReadQueue
  <2>2. \A w \in Couriers : w # v => courier'[w] = courier[w]
    BY <1>4, <1>m, ReadQueueDoes DEF CouriersKeep
  <2>3. Calls(v) => Current(v)
    <3> SUFFICES ASSUME Calls(v) PROVE Current(v)
      OBVIOUS
    <3>1. /\ courier'[v].effect = courier[v].effect /\ courier'[v].revision = courier[v].revision
          /\ courier[v].revision \in Submitted
      BY <1>4, ReadQueueDoes, CourierRecords DEF KeepsEffect, Continues
    <3>2. courier'[v].seen = RowsOf(Under(v)) /\ ~Overtaken(v)
      BY <1>4, ReadQueueDoes
    <3>3. RowsOf(Under(v)) = RowsOf(d)
      BY <3>1 DEF RowsOf, Under
    <3>4. Held(v)[1] = Under(v) /\ Held(v)[2] = courier[v].revision
      BY DEF Held, Under
    <3>5. ASSUME NEW x \in RowsOf(d) PROVE x[2] <= courier[v].revision
      <4>1. ~(x[2] > courier[v].revision)
        BY <3>2, <3>3, <3>4 DEF Overtaken
      <4> QED BY <1>n, <3>1, <4>1 DEF Submitted
    <3> QED BY <1>q, <2>1, <3>1, <3>2, <3>3, <3>5
  <2> QED BY <1>k, <1>q, <2>1, <2>2, <2>3
<1>5. ASSUME NEW v \in Couriers, CallOut(v) PROVE Goal
  <2>1. /\ courier[v].at = "calling" /\ ~Calls(v) /\ CouriersKeep(v)
        /\ queueRows' = queueRows \/ queueRows' = Recorded(v)
    BY <1>5, <1>m, CallOutDoes
  <2>2. CASE queueRows' = queueRows
    BY <1>o, <2>1, <2>2
  <2>3. CASE queueRows' = Recorded(v) /\ ~CallsSheet(v)
    BY <2>1, <2>2, <2>3 DEF Recorded, CallsSheet
  <2>4. CASE queueRows' = Recorded(v) /\ CallsSheet(v) /\ SheetAt(v) # SheetOf[d]
    <3>1. RowsOf(d)' = RowsOf(d)
      BY <2>4, RowsAfterCall
    <3> QED BY <1>k, <2>1, <3>1 DEF CouriersKeep
  <2>5. CASE queueRows' = Recorded(v) /\ CallsSheet(v) /\ SheetAt(v) = SheetOf[d]
    <3>1. /\ courier[v].seen = RowsOf(d)
          /\ \A x \in RowsOf(d) : x[2] <= courier[v].revision
      BY <1>a, <2>5 DEF SheetCurrent
    <3>2. RowsOf(d)' = {Held(v)}
      BY <2>5, <3>1, RowsAfterCall
    <3>3. Held(v)[2] = courier[v].revision
      BY DEF Held
    <3>4. ASSUME NEW w \in Couriers, Calls(w) PROVE FALSE
      <4>1. w # v /\ courier'[w] = courier[w]
        BY <2>1, <3>4 DEF CouriersKeep
      <4> QED BY <1>a, <2>1, <2>5, <3>4, <4>1 DEF AloneAtSheet, Busy, SheetAt, Under
    <3>5. RowsGoUp(d)
      BY <3>1, <3>2, <3>3 DEF RowsGoUp
    <3> QED BY <3>2, <3>4, <3>5
  <2> QED BY <2>1, <2>2, <2>3, <2>4, <2>5
<1>6. ASSUME NEW v \in Couriers, FinishEffect(v) PROVE Goal
  <2>1. queueRows' = queueRows
    BY <1>6 DEF FinishEffect
  <2>2. CouriersKeep(v) /\ ~Calls(v)
    BY <1>6, <1>m, <1>r, FinishEffectDoes
  <2> QED BY <1>o, <2>1, <2>2
<1>7. ASSUME NEW v \in Couriers, CourierDies(v) PROVE Goal
  <2>1. queueRows' = queueRows
    BY <1>7 DEF CourierDies
  <2>2. CouriersKeep(v) /\ ~Calls(v)
    BY <1>7, <1>m, <1>r, CourierDiesDoes
  <2> QED BY <1>o, <2>1, <2>2
<1>8. ASSUME queueRows' = queueRows, courier' = courier PROVE Goal
  BY <1>8, <1>k, <1>q
<1>9. Goal
  <2>1. ASSUME NEW v \in Couriers, LockDrops(v) PROVE queueRows' = queueRows /\ courier' = courier
    BY <2>1 DEF LockDrops
  <2>2. CASE Submit \/ Redirect \/ UNCHANGED claimVars
    BY <1>8, <2>2 DEF Submit, Redirect, claimVars
  <2> HIDE DEF Goal
  <2> QED BY <1>1, <1>2, <1>3, <1>4, <1>5, <1>6, <1>7, <1>8, <2>1, <2>2 DEF ClaimNext
<1> QED BY <1>9, <1>g

\* Who performs an effect after a step performed it before, or claims it now.
LEMMA PerformingStep ==
  ASSUME ClaimShape, CouriersSound, [ClaimNext]_claimVars, NEW v \in Couriers, Performing(v)'
  PROVE  /\ courier'[v].effect = courier[v].effect /\ courier[v].effect \in Effects
         /\ Performing(v) \/ (ClaimEffect(v) /\ ledger[courier[v].effect] = "none")
<1>e. courier[v] \in CourierBusy => courier[v].effect \in Effects
  BY CourierRecords
<1>s. courier'[v] = courier[v] => /\ courier'[v].effect = courier[v].effect /\ Performing(v)
                                  /\ courier[v].effect \in Effects
  BY <1>e, CourierRecords DEF Performing, ClaimShape
<1>m. \A w \in Couriers : Continues(w) \/ Rests(w) \/ KeepsEffect(w) \/ Steps(w) =>
        w = v \/ courier'[v] = courier[v]
  BY DEF Continues, Rests, Steps, KeepsEffect, CouriersKeep
<1>r. \A w \in Couriers : Rests(w) => w # v
  BY CourierRecords DEF Rests, Performing
<1>1. ASSUME NEW w \in Couriers, NEW x \in Deliverable, Perform(w, x) PROVE courier'[v] = courier[v]
  BY <1>1, <1>m, PerformDoes DEF Performing
<1>2. ASSUME NEW w \in Couriers, Export(w) PROVE courier'[v] = courier[v]
  BY <1>2, <1>m, <1>r, ExportDoes DEF Performing
<1>3. ASSUME NEW w \in Couriers, ClaimEffect(w)
      PROVE  \/ courier'[v] = courier[v]
             \/ /\ courier'[v].effect = courier[v].effect /\ courier[v].effect \in Effects
                /\ ClaimEffect(v) /\ ledger[courier[v].effect] = "none"
  BY <1>3, <1>m, ClaimEffectDoes DEF Performing, KeepsEffect
<1>4. ASSUME NEW w \in Couriers, ReadQueue(w)
      PROVE  \/ courier'[v] = courier[v]
             \/ /\ courier'[v].effect = courier[v].effect /\ courier[v].effect \in Effects
                /\ Performing(v)
  BY <1>4, <1>m, ReadQueueDoes DEF Performing, KeepsEffect
<1>5. ASSUME NEW w \in Couriers, CallOut(w) PROVE courier'[v] = courier[v]
  BY <1>5, <1>m, CallOutDoes DEF Performing
<1>6. ASSUME NEW w \in Couriers, FinishEffect(w) PROVE courier'[v] = courier[v]
  BY <1>6, <1>m, <1>r, FinishEffectDoes DEF Performing
<1>7. ASSUME NEW w \in Couriers, CourierDies(w) PROVE courier'[v] = courier[v]
  BY <1>7, <1>m, <1>r, CourierDiesDoes
<1>8. ASSUME \/ Submit \/ Redirect \/ UNCHANGED claimVars \/ \E w \in Couriers : LockDrops(w)
      PROVE  courier'[v] = courier[v]
  BY <1>8 DEF Submit, Redirect, LockDrops, claimVars
<1> QED BY <1>s, <1>1, <1>2, <1>3, <1>4, <1>5, <1>6, <1>7, <1>8 DEF ClaimNext

\* An answer was there before, or comes from one of three steps.
LEMMA AnsweredStep ==
  ASSUME ClaimShape, CouriersSound, [ClaimNext]_claimVars, NEW w \in Couriers,
         courier'[w].at = "answered"
  PROVE  /\ courier'[w] = courier[w] \/ ClaimEffect(w) \/ ReadQueue(w) \/ CallOut(w)
         /\ courier'[w].effect = courier[w].effect /\ courier[w].effect \in Effects
<1>m. \A v \in Couriers : Continues(v) \/ Rests(v) \/ KeepsEffect(v) \/ Steps(v) =>
        w = v \/ courier'[w] = courier[w]
  BY DEF Continues, Rests, Steps, KeepsEffect, CouriersKeep
<1>r. \A v \in Couriers : Rests(v) => w # v
  BY CourierRecords DEF Rests
<1>1. ASSUME NEW v \in Couriers, NEW x \in Deliverable, Perform(v, x) PROVE courier'[w] = courier[w]
  BY <1>1, <1>m, PerformDoes
<1>2. ASSUME NEW v \in Couriers, Export(v) PROVE courier'[w] = courier[w]
  BY <1>2, <1>m, <1>r, ExportDoes
<1>3. ASSUME NEW v \in Couriers, ClaimEffect(v) PROVE courier'[w] = courier[w] \/ ClaimEffect(w)
  BY <1>3, <1>m, ClaimEffectDoes
<1>4. ASSUME NEW v \in Couriers, ReadQueue(v) PROVE courier'[w] = courier[w] \/ ReadQueue(w)
  BY <1>4, <1>m, ReadQueueDoes
<1>5. ASSUME NEW v \in Couriers, CallOut(v) PROVE courier'[w] = courier[w] \/ CallOut(w)
  BY <1>5, <1>m, CallOutDoes
<1>6. ASSUME NEW v \in Couriers, FinishEffect(v) PROVE courier'[w] = courier[w]
  BY <1>6, <1>m, <1>r, FinishEffectDoes
<1>7. ASSUME NEW v \in Couriers, CourierDies(v) PROVE courier'[w] = courier[w]
  BY <1>7, <1>m, <1>r, CourierDiesDoes
<1>8. ASSUME \/ Submit \/ Redirect \/ UNCHANGED claimVars \/ \E v \in Couriers : LockDrops(v)
      PROVE  courier'[w] = courier[w]
  BY <1>8 DEF Submit, Redirect, LockDrops, claimVars
<1>9. courier'[w] = courier[w] \/ ClaimEffect(w) \/ ReadQueue(w) \/ CallOut(w)
  BY <1>1, <1>2, <1>3, <1>4, <1>5, <1>6, <1>7, <1>8 DEF ClaimNext
<1>10. CASE courier'[w] = courier[w]
  BY <1>9, <1>10, CourierRecords DEF ClaimShape
<1>11. CASE ClaimEffect(w) \/ ReadQueue(w) \/ CallOut(w)
  BY <1>9, <1>11, ClaimEffectDoes, ReadQueueDoes, CallOutDoes DEF KeepsEffect
<1> QED BY <1>9, <1>10, <1>11

\* Only a call performs an effect.
LEMMA PerformedStep ==
  ASSUME ClaimShape, [ClaimNext]_claimVars, NEW e \in Effects
  PROVE  \/ performed'[e] = performed[e]
         \/ \E w \in Couriers : CallOut(w) /\ courier[w].effect = e
<1>1. ASSUME NEW w \in Couriers, CallOut(w), courier[w].effect # e
      PROVE  performed'[e] = performed[e]
  BY <1>1, CallOutDoes DEF ClaimShape
<1> QED BY <1>1
    DEF ClaimNext, claimVars, Submit, Perform, Export, ClaimEffect, ReadQueue, FinishEffect,
        CourierDies, LockDrops, Redirect

\* The ledger changes by a claim or a receipt.
LEMMA LedgerStep ==
  ASSUME ClaimShape, CouriersSound, [ClaimNext]_claimVars, NEW e \in Effects
  PROVE  \/ ledger'[e] = ledger[e]
         \/ /\ ledger[e] = "none" /\ ledger'[e] = "CLAIMED"
            /\ \E w \in Couriers : ClaimEffect(w) /\ courier[w].effect = e
         \/ /\ ledger[e] = "CLAIMED"
            /\ \E w \in Couriers : /\ FinishEffect(w) /\ courier[w].effect = e
                                   /\ ledger'[e] = courier[w].result
<1>1. ASSUME NEW w \in Couriers, ClaimEffect(w)
      PROVE  \/ ledger'[e] = ledger[e]
             \/ ledger[e] = "none" /\ ledger'[e] = "CLAIMED" /\ courier[w].effect = e
  BY <1>1, ClaimEffectDoes DEF ClaimShape
<1>2. ASSUME NEW w \in Couriers, FinishEffect(w)
      PROVE  \/ ledger'[e] = ledger[e]
             \/ ledger[e] = "CLAIMED" /\ courier[w].effect = e /\ ledger'[e] = courier[w].result
  BY <1>2, FinishEffectDoes
<1> QED BY <1>1, <1>2
    DEF ClaimNext, claimVars, Submit, Perform, Export, ReadQueue, CallOut,
        CourierDies, LockDrops, Redirect

\* No step gives a claim away, or performs an effect that nobody claimed.
LEMMA EffectsStep ==
  ASSUME ClaimShape, CouriersSound, EffectsClaimed, AnswersTold, [ClaimNext]_claimVars
  PROVE  EffectsClaimed'
<1>1. \A e \in Effects : ledger'[e] = "none" => performed'[e] = 0
  <2> SUFFICES ASSUME NEW e \in Effects, ledger'[e] = "none" PROVE performed'[e] = 0
    OBVIOUS
  <2>1. ledger[e] = "none"
    BY LedgerStep, FinishEffectDoes DEF EffectOutcomes
  <2>2. \A w \in Couriers : CallOut(w) => courier[w].effect # e
    BY <2>1, CallOutDoes DEF EffectsClaimed, Performing
  <2> QED BY <2>1, <2>2, PerformedStep DEF EffectsClaimed
<1>2. ASSUME NEW w \in Couriers, Performing(w)'
      PROVE  /\ ledger'[courier'[w].effect] \in {"CLAIMED", "UNCERTAIN"}
             /\ performed'[courier'[w].effect] = 0
             /\ \A v \in Couriers : v # w
                  /\ Performing(v)' => courier'[v].effect # courier'[w].effect
  <2> DEFINE e == courier[w].effect
  <2>1. /\ courier'[w].effect = e /\ e \in Effects
        /\ Performing(w) \/ (ClaimEffect(w) /\ ledger[e] = "none")
    BY <1>2, PerformingStep
  <2>2. CASE Performing(w)
    <3>1. ledger[e] \in {"CLAIMED", "UNCERTAIN"} /\ performed[e] = 0
      BY <2>2 DEF EffectsClaimed
    <3> HIDE DEF e
    <3>2. ledger'[e] \in {"CLAIMED", "UNCERTAIN"}
      <4>1. ASSUME NEW v \in Couriers, FinishEffect(v), courier[v].effect = e
            PROVE  courier[v].result = "UNCERTAIN"
        BY <2>2, <4>1, FinishEffectDoes DEF AnswersTold, e
      <4> QED BY <2>1, <3>1, <4>1, LedgerStep
    <3>3. performed'[e] = 0
      <4>1. ASSUME NEW v \in Couriers, CallOut(v), courier[v].effect = e PROVE FALSE
        <5>1. v # w
          BY <1>2, <4>1, CallOutDoes DEF Performing
        <5>2. Performing(v)
          BY <4>1, CallOutDoes DEF Performing
        <5> QED BY <2>2, <4>1, <5>1, <5>2 DEF EffectsClaimed, e
      <4> QED BY <2>1, <3>1, <4>1, PerformedStep
    <3>4. ASSUME NEW v \in Couriers, v # w, Performing(v)' PROVE courier'[v].effect # e
      <4>1. /\ courier'[v].effect = courier[v].effect
            /\ Performing(v) \/ ledger[courier[v].effect] = "none"
        BY <3>4, PerformingStep
      <4>2. Performing(v) => courier[v].effect # e
        BY <2>2, <3>4 DEF EffectsClaimed, e
      <4> QED BY <3>1, <4>1, <4>2
    <3> QED BY <2>1, <3>2, <3>3, <3>4
  <2>3. CASE ClaimEffect(w) /\ ledger[e] = "none"
    <3>1. ledger'[e] = "CLAIMED" /\ CouriersKeep(w)
      BY <2>1, <2>3, ClaimEffectDoes DEF ClaimShape, KeepsEffect, Continues, Steps
    <3>2. performed' = performed /\ performed[e] = 0
      BY <2>1, <2>3 DEF ClaimEffect, EffectsClaimed
    <3>3. ASSUME NEW v \in Couriers, v # w, Performing(v)' PROVE courier'[v].effect # e
      <4>1. courier'[v] = courier[v] /\ Performing(v)
        BY <3>1, <3>3 DEF CouriersKeep, Performing
      <4>2. ledger[courier[v].effect] # "none"
        BY <4>1 DEF EffectsClaimed
      <4> QED BY <2>3, <4>1, <4>2
    <3> QED BY <2>1, <3>1, <3>2, <3>3
  <2> QED BY <2>1, <2>2, <2>3
<1>3. ASSUME NEW w \in Couriers, courier'[w].at = "answered"
      PROVE  ledger'[courier'[w].effect] # "none"
  <2>1. courier'[w].effect = courier[w].effect /\ courier[w].effect \in Effects
    BY <1>3, AnsweredStep
  <2>2. CASE ClaimEffect(w)
    BY <1>3, <2>1, <2>2, ClaimEffectDoes
  <2>3. CASE ~ClaimEffect(w)
    <3>1. ledger[courier[w].effect] # "none"
      BY <1>3, <2>3, AnsweredStep, ReadQueueDoes, CallOutDoes DEF EffectsClaimed, Performing
    <3>2. ASSUME NEW v \in Couriers, FinishEffect(v) PROVE courier[v].result # "none"
      BY <3>2, FinishEffectDoes DEF EffectOutcomes
    <3> QED BY <2>1, <3>1, <3>2, LedgerStep
  <2> QED BY <2>2, <2>3
<1> QED BY <1>1, <1>2, <1>3 DEF EffectsClaimed

\* What was performed is not performed again.
LEMMA PerformedKept ==
  ASSUME ClaimShape, EffectsClaimed, [ClaimNext]_claimVars, NEW e \in Effects, performed[e] = 1
  PROVE  performed'[e] = 1
<1>1. ASSUME NEW w \in Couriers, CallOut(w) PROVE courier[w].effect # e
  BY <1>1, CallOutDoes DEF EffectsClaimed, Performing
<1> QED BY <1>1, PerformedStep

\* A row that was written stays written.
LEMMA WrittenKept ==
  ASSUME ClaimShape, EffectsClaimed, [ClaimNext]_claimVars, NEW sheet, NEW r \in Submitted,
         RowWritten(sheet, r)
  PROVE  RowWritten(sheet, r)'
<1>1. PICK d \in Destinations : SheetOf[d] = sheet /\ performed[<<"sheets", d, r>>] = 1
  BY DEF RowWritten
<1>2. <<"sheets", d, r>> \in Effects
  BY EffectParts DEF Products
<1>3. performed'[<<"sheets", d, r>>] = 1
  BY <1>1, <1>2, PerformedKept
<1> QED BY <1>1, <1>3 DEF RowWritten

\* What was truly told stays true while the effect is left alone.
LEMMA ToldKept ==
  ASSUME ClaimShape, EffectsClaimed, [ClaimNext]_claimVars, NEW e \in Effects, NEW r,
         performed'[e] = performed[e], Told(e, r)
  PROVE  Told(e, r)'
<1>1. e[3] \in Submitted
  BY EffectParts
<1>2. r = "REUSED" => RowWritten(SheetOf[e[2]], e[3])'
  BY <1>1, WrittenKept DEF Told
<1>3. r = "SUPERSEDED" => \E s \in Submitted : s > e[3] /\ RowWritten(SheetOf[e[2]], s)'
  BY WrittenKept DEF Told
<1> QED BY <1>2, <1>3 DEF Told

\* The rows that are there were written, and so is one that is written now.
LEMMA RowsWrittenStep ==
  ASSUME ClaimShape, CouriersSound, RowsWritten, EffectsClaimed, [ClaimNext]_claimVars
  PROVE  RowsWritten'
<1> SUFFICES ASSUME NEW x \in queueRows' PROVE performed'[<<"sheets", x[1], x[2]>>] = 1
  BY DEF RowsWritten
<1>1. CASE x \in queueRows
  <2>1. performed[<<"sheets", x[1], x[2]>>] = 1 /\ <<"sheets", x[1], x[2]>> \in Effects
    BY <1>1, RowParts, EffectParts DEF ClaimShape, RowsWritten, Products
  <2> QED BY <2>1, PerformedKept
<1>2. CASE x \notin queueRows
  <2>1. PICK w \in Couriers : CallOut(w)
    BY <1>2 DEF ClaimNext, claimVars, Submit, Perform, Export, ClaimEffect, ReadQueue,
                FinishEffect, CourierDies, LockDrops, Redirect
  <2> DEFINE e == courier[w].effect
  <2>2. /\ performed' = [performed EXCEPT ![e] = performed[e] + 1]
        /\ queueRows' = Recorded(w) /\ e \in Effects /\ courier[w].at = "calling"
    BY <1>2, <2>1, CallOutDoes
  <2>3. e[1] = "sheets" /\ x = Held(w)
    BY <1>2, <2>2 DEF Recorded
  <2>4. e = <<"sheets", x[1], x[2]>>
    <3>1. e[3] = courier[w].revision
      BY <2>2, <2>3 DEF CouriersSound, CourierSound
    <3>2. e = <<e[1], e[2], e[3]>>
      BY <2>2, EffectParts
    <3>3. x[1] = e[2] /\ x[2] = courier[w].revision
      BY <2>3 DEF Held
    <3> QED BY <2>3, <3>1, <3>2, <3>3
  <2>5. performed[e] = 0
    BY <2>2 DEF EffectsClaimed, Performing
  <2> HIDE DEF e
  <2>6. performed'[e] = 1
    BY <2>2, <2>5 DEF ClaimShape
  <2> QED BY <2>4, <2>6
<1> QED BY <1>1, <1>2

\* No step makes an answer untrue that waits to be recorded.
LEMMA AnswersStep ==
  ASSUME ClaimShape, CouriersSound, RowsWritten, EffectsClaimed, AnswersTold, ClaimReceipts,
         [ClaimNext]_claimVars
  PROVE  AnswersTold'
<1> SUFFICES ASSUME NEW w \in Couriers, courier'[w].at = "answered",
                    courier'[w].result # "UNCERTAIN"
             PROVE  /\ Told(courier[w].effect, courier[w].result)'
                    /\ \A v \in Couriers : Performing(v)' => courier'[v].effect # courier'[w].effect
  BY DEF AnswersTold
<1>0. courier'[w].effect = courier[w].effect /\ courier[w].effect \in Effects
  BY AnsweredStep
<1> DEFINE e == courier[w].effect
           r == courier'[w].result
<1>w. ASSUME NEW f \in Effects, NEW s, f = e, s = r, Told(f, s)'
      PROVE  Told(courier[w].effect, courier[w].result)'
  BY <1>0, <1>w DEF Told, RowWritten
<1>p. PICK f \in Effects, s \in {r} : f = e /\ s = r
  BY <1>0
<1>m. \A v \in Couriers : KeepsEffect(v) => CouriersKeep(v)
  BY DEF KeepsEffect, Continues, Steps
<1>o. ASSUME CouriersKeep(w), \A v \in Couriers \ {w} : Performing(v) => courier[v].effect # e
      PROVE  \A v \in Couriers : Performing(v)' => courier'[v].effect # courier'[w].effect
  BY <1>0, <1>o DEF CouriersKeep, Performing
<1>1. CASE courier'[w] = courier[w]
  <2>1. /\ Told(e, courier[w].result) /\ ledger[e] # "none"
        /\ \A v \in Couriers : Performing(v) => courier[v].effect # e
    BY <1>1 DEF AnswersTold, EffectsClaimed
  <2>2. \A v \in Couriers : CallOut(v) => Performing(v)
    BY CallOutDoes DEF Performing
  <2>3. Told(f, s) /\ \A v \in Couriers : CallOut(v) => courier[v].effect # f
    BY <1>1, <1>p, <2>1, <2>2
  <2>4. performed'[f] = performed[f]
    BY <2>3, PerformedStep
  <2>5. Told(f, s)'
    BY <2>3, <2>4, ToldKept
  <2>6. Told(courier[w].effect, courier[w].result)'
    BY <1>p, <1>w, <2>5
  <2>7. \A v \in Couriers : Performing(v)' => courier'[v].effect # courier'[w].effect
    BY <1>0, <2>1, PerformingStep
  <2> QED BY <2>6, <2>7
<1>2. CASE ClaimEffect(w)
  <2>1. /\ r = ledger[e] /\ ledger[e] \notin {"CLAIMED", "UNCERTAIN", "none"}
        /\ CouriersKeep(w)
    BY <1>2, <1>m, ClaimEffectDoes
  <2>2. performed' = performed
    BY <1>2 DEF ClaimEffect
  <2>3. Told(f, s)
    BY <1>p, <2>1 DEF Told, ClaimReceipts
  <2>4. Told(f, s)'
    BY <2>2, <2>3, ToldKept
  <2>5. \A v \in Couriers : Performing(v) => courier[v].effect # e
    BY <2>1 DEF EffectsClaimed
  <2> QED BY <1>o, <1>p, <1>w, <2>1, <2>4, <2>5
<1>3. CASE ReadQueue(w)
  <2>1. /\ Performing(w) /\ performed[e] = 0 /\ CouriersKeep(w) /\ courier[w].at = "reading"
        /\ r \in {"FAILED", "REJECTED", "SUPERSEDED", "REUSED"}
        /\ (r = "SUPERSEDED" => Overtaken(w)) /\ (r = "REUSED" => Standing(w))
    BY <1>3, <1>m, ReadQueueDoes DEF EffectsClaimed, Performing
  <2>2. performed' = performed
    BY <1>3 DEF ReadQueue
  <2>3. e[3] = courier[w].revision
    BY <2>1 DEF CouriersSound, CourierSound
  <2>4. ASSUME NEW x \in RowsOf(Held(w)[1])
        PROVE  RowWritten(SheetOf[e[2]], x[2]) /\ x[2] \in Submitted
    <3>1. Held(w)[1] = e[2]
      BY DEF Held
    <3>2. x \in queueRows /\ SheetOf[x[1]] = SheetOf[e[2]]
      BY <2>4, <3>1 DEF RowsOf
    <3> QED BY <3>2, RowParts DEF RowWritten, RowsWritten, ClaimShape
  <2>5. Told(f, s)
    <3>1. Held(w)[2] = e[3]
      BY <2>3 DEF Held
    <3>2. r = "SUPERSEDED" => \E q \in Submitted : q > e[3] /\ RowWritten(SheetOf[e[2]], q)
      BY <2>1, <2>4, <3>1 DEF Overtaken
    <3>3. r = "REUSED" => RowWritten(SheetOf[e[2]], e[3])
      BY <2>1, <2>4, <3>1 DEF Standing, SameValues
    <3> HIDE DEF e, r
    <3> QED BY <1>p, <2>1, <3>2, <3>3 DEF Told
  <2>6. Told(f, s)'
    BY <2>2, <2>5, ToldKept
  <2>7. \A v \in Couriers \ {w} : Performing(v) => courier[v].effect # e
    BY <2>1 DEF EffectsClaimed
  <2> QED BY <1>o, <1>p, <1>w, <2>1, <2>6, <2>7
<1>4. CASE CallOut(w)
  <2>1. Performing(w) /\ performed[e] = 0 /\ CouriersKeep(w)
    BY <1>4, <1>m, CallOutDoes DEF EffectsClaimed, Performing
  <2>2. \/ performed'[e] = 0 /\ r \in {"REJECTED", "FAILED"}
        \/ performed'[e] = 1 /\ r = "SUCCEEDED"
    BY <1>0, <1>4, <2>1, CallOutDoes DEF ClaimShape
  <2>3. Told(f, s)'
    BY <1>p, <2>2 DEF Told
  <2>4. \A v \in Couriers \ {w} : Performing(v) => courier[v].effect # e
    BY <2>1 DEF EffectsClaimed
  <2> QED BY <1>o, <1>p, <1>w, <2>1, <2>3, <2>4
<1> QED BY <1>1, <1>2, <1>3, <1>4, AnsweredStep

\* Nobody gets to the notice before the row.
LEMMA NoticeStep ==
  ASSUME ClaimShape, CouriersSound, EffectsClaimed, AnswersTold, NoticeAfterRow,
         [ClaimNext]_claimVars
  PROVE  NoticeAfterRow'
<1> SUFFICES ASSUME NEW w \in Couriers, Busy(w)', courier'[w].effect[1] = "gmail"
             PROVE  RowWritten(SheetOf[courier[w].effect[2]], courier[w].effect[3])'
  BY DEF NoticeAfterRow
<1> DEFINE e == courier[w].effect
           r == courier[w].revision
<1>w. ASSUME NEW sheet, NEW q \in Submitted, sheet = SheetOf[courier'[w].effect[2]],
             q = courier'[w].effect[3], RowWritten(sheet, q)
      PROVE  RowWritten(SheetOf[courier[w].effect[2]], courier[w].effect[3])'
  <2>1. RowWritten(sheet, q)'
    BY <1>w, WrittenKept
  <2> QED BY <1>w, <2>1 DEF RowWritten
<1>k. ASSUME courier'[w].effect = e, Busy(w)
      PROVE  RowWritten(SheetOf[courier[w].effect[2]], courier[w].effect[3])'
  <2>1. e \in Effects
    BY <1>k, CourierRecords DEF ClaimShape, Busy
  <2>2. e[3] \in Submitted
    BY <2>1, EffectParts
  <2>3. RowWritten(SheetOf[e[2]], e[3])
    BY <1>k DEF NoticeAfterRow
  <2> QED BY <1>k, <1>w, <2>2, <2>3
<1>a. courier'[w] # AtRest
  BY CourierRecords DEF Busy
<1>m. \A v \in Couriers : Continues(v) \/ Rests(v) \/ KeepsEffect(v) \/ Steps(v) =>
        v = w \/ courier'[w] = courier[w]
  BY DEF Continues, Rests, Steps, KeepsEffect, CouriersKeep
<1>c. courier'[w] = courier[w] => courier'[w].effect = e /\ Busy(w)
  BY DEF Busy
<1>r. \A v \in Couriers : Rests(v) => courier'[w] = courier[w]
  BY <1>a, <1>m DEF Rests
<1>s. \A v \in Couriers : KeepsEffect(v) => courier'[w].effect = e /\ Busy(w)
  BY <1>c, <1>m, CourierRecords DEF KeepsEffect, Continues, Busy
<1>1. ASSUME NEW v \in Couriers, NEW x \in Deliverable, Perform(v, x)
      PROVE  courier'[w].effect = e /\ Busy(w)
  BY <1>1, <1>c, <1>m, PerformDoes
<1>2. ASSUME NEW v \in Couriers, Export(v) \/ ClaimEffect(v) \/ ReadQueue(v) \/ CallOut(v)
                                   \/ CourierDies(v)
      PROVE  courier'[w].effect = e /\ Busy(w)
  BY <1>2, <1>c, <1>r, <1>s, ExportDoes, ClaimEffectDoes, ReadQueueDoes, CallOutDoes,
     CourierDiesDoes
<1>3. ASSUME NEW v \in Couriers, FinishEffect(v)
      PROVE  RowWritten(SheetOf[courier[w].effect[2]], courier[w].effect[3])'
  <2>1. CASE courier'[w] = courier[w]
    BY <1>c, <1>k, <2>1
  <2>2. CASE courier'[w] # courier[w]
    <3>1. v = w /\ ~Rests(w)
      BY <1>3, <1>m, <1>r, <2>2, FinishEffectDoes
    <3>2. /\ courier[w].result \in {"SUCCEEDED", "REUSED"} /\ e[1] # "gmail"
          /\ e[1] # "drive" => e[3] = r
          /\ courier[w].at = "answered" /\ e \in Effects /\ r \in Submitted
          /\ courier'[w].effect = Following(r, e)
      BY <1>3, <3>1, FinishEffectDoes
    <3>3. Told(e, courier[w].result)
      BY <3>2 DEF AnswersTold
    <3> HIDE DEF e, r
    <3>4. /\ courier'[w].effect[2] = e[2] /\ courier'[w].effect[3] = r
          /\ e = <<"sheets", e[2], r>>
      BY <3>2, FollowingFacts
    <3>5. e[2] \in Destinations /\ e[3] = r
      BY <3>2, <3>4, EffectParts
    <3>6. RowWritten(SheetOf[e[2]], r)
      BY <3>2, <3>3, <3>4, <3>5 DEF Told, RowWritten
    <3> QED BY <1>w, <3>2, <3>4, <3>6
  <2> QED BY <2>1, <2>2
<1>4. ASSUME \/ Submit \/ Redirect \/ UNCHANGED claimVars \/ \E v \in Couriers : LockDrops(v)
      PROVE  courier'[w] = courier[w]
  BY <1>4 DEF Submit, Redirect, LockDrops, claimVars
<1> HIDE DEF e
<1> QED BY <1>c, <1>k, <1>1, <1>2, <1>3, <1>4 DEF ClaimNext

\* No step makes a receipt untrue.
LEMMA ClaimReceiptsStep ==
  ASSUME ClaimShape, CouriersSound, EffectsClaimed, AnswersTold, NoticeAfterRow, ClaimReceipts,
         [ClaimNext]_claimVars
  PROVE  ClaimReceipts'
<1> SUFFICES ASSUME NEW e \in Effects
             PROVE  /\ performed'[e] <= 1
                    /\ Told(e, ledger[e])'
                    /\ e[1] = "gmail" /\ performed'[e] = 1 => RowWritten(SheetOf[e[2]], e[3])'
  BY DEF ClaimReceipts, Told
<1>0. e[2] \in Destinations /\ e[3] \in Submitted
  BY EffectParts
<1>1. CASE performed'[e] = performed[e]
  <2>1. performed'[e] <= 1
    BY <1>1 DEF ClaimReceipts
  <2>2. e[1] = "gmail" /\ performed'[e] = 1 => RowWritten(SheetOf[e[2]], e[3])'
    BY <1>0, <1>1, WrittenKept DEF ClaimReceipts
  <2>3. Told(e, ledger[e])'
    <3>1. CASE ledger'[e] = ledger[e]
      <4> DEFINE s == ledger[e]
      <4>1. Told(e, s)
        BY DEF ClaimReceipts, Told
      <4> HIDE DEF s
      <4>2. ASSUME NEW x, x = s PROVE Told(e, x)'
        BY <1>1, <4>1, <4>2, ToldKept
      <4>3. PICK x \in {s} : x = s
        OBVIOUS
      <4> QED BY <3>1, <4>2, <4>3 DEF Told, s
    <3>2. CASE ledger'[e] = "CLAIMED"
      BY <3>2 DEF Told
    <3>3. ASSUME NEW w \in Couriers, FinishEffect(w), courier[w].effect = e,
                 ledger'[e] = courier[w].result
          PROVE  Told(e, ledger[e])'
      <4>1. CASE courier[w].result = "UNCERTAIN"
        BY <3>3, <4>1 DEF Told
      <4>2. CASE courier[w].result # "UNCERTAIN"
        <5>1. Told(e, courier[w].result)
          BY <3>3, <4>2, FinishEffectDoes DEF AnswersTold
        <5> DEFINE s == courier[w].result
        <5> HIDE DEF s
        <5>2. ASSUME NEW x, x = s PROVE Told(e, x)'
          BY <1>1, <5>1, <5>2, ToldKept DEF s
        <5>3. PICK x \in {s} : x = s
          OBVIOUS
        <5> QED BY <3>3, <5>2, <5>3 DEF Told, s
      <4> QED BY <4>1, <4>2
    <3> QED BY <3>1, <3>2, <3>3, LedgerStep
  <2> QED BY <2>1, <2>2, <2>3
<1>2. ASSUME NEW w \in Couriers, CallOut(w), courier[w].effect = e
      PROVE  /\ performed'[e] <= 1
             /\ Told(e, ledger[e])'
             /\ e[1] = "gmail" /\ performed'[e] = 1 => RowWritten(SheetOf[e[2]], e[3])'
  <2>1. /\ Performing(w) /\ Busy(w)
        /\ ledger[e] \in {"CLAIMED", "UNCERTAIN"} /\ performed[e] = 0
    BY <1>2, CallOutDoes DEF EffectsClaimed, Performing, Busy
  <2>2. ledger' = ledger
    BY <1>2 DEF CallOut
  <2>3. performed'[e] <= 1
    BY <1>2, <2>1, CallOutDoes DEF ClaimShape
  <2>4. Told(e, ledger[e])'
    BY <2>1, <2>2 DEF Told
  <2>5. e[1] = "gmail" => RowWritten(SheetOf[e[2]], e[3])'
    BY <1>0, <1>2, <2>1, WrittenKept DEF NoticeAfterRow
  <2> QED BY <2>3, <2>4, <2>5
<1> QED BY <1>1, <1>2, PerformedStep

\* The initial states satisfy the inductive invariant.
LEMMA DeliveryStart == ClaimInit => ClaimInv
<1> SUFFICES ASSUME ClaimInit PROVE ClaimInv
  OBVIOUS
<1>1. ClaimShape
  <2> USE DEF ClaimInit
  <2>1. revision \in 0 .. MaxRevision /\ destination \in Destinations
    <3>1. 0 \in 0 .. MaxRevision
      BY DeliveryConstants
    <3>2. revision = 0 /\ destination \in Destinations
      OBVIOUS
    <3> QED BY <3>1, <3>2
  <2>2. /\ evidence \in [Submitted -> 0 .. MaxRevision] /\ \A r \in Submitted : evidence[r] <= r
    BY DeliveryConstants DEF Submitted
  <2>3. /\ ledger \in [Effects -> LedgerEntries] /\ performed \in [Effects -> Nat]
        /\ queueRows \subseteq Deliverable /\ submissions \subseteq Deliverable
    BY DEF LedgerEntries
  <2>4. /\ guards \in [Lockable -> Couriers \cup {NoCourier}]
        /\ courier \in [Couriers -> CourierStates]
    BY CourierRecords
  <2> QED BY <2>1, <2>2, <2>3, <2>4 DEF ClaimShape
<1>2. /\ \A w \in Couriers : courier[w].at = "rest"
      /\ \A e \in Effects : ledger[e] = "none" /\ performed[e] = 0
      /\ queueRows = {}
  BY CourierRecords DEF ClaimInit
<1>3. CouriersSound /\ RootHeld /\ AloneAtSheet /\ QueueCurrent /\ RowsWritten
  BY <1>2 DEF CouriersSound, CourierSound, RootHeld, AloneAtSheet, QueueCurrent, SheetCurrent,
              RowsOf, RowsWritten, Busy, CallsSheet
<1>4. EffectsClaimed /\ AnswersTold /\ NoticeAfterRow
  BY <1>2 DEF EffectsClaimed, AnswersTold, NoticeAfterRow, Performing, Busy
<1>5. ClaimReceipts
  BY <1>2 DEF ClaimReceipts
<1> QED BY <1>1, <1>3, <1>4, <1>5 DEF ClaimInv

\* No step leaves it.
LEMMA DeliveryStep == ClaimInv /\ [ClaimNext]_claimVars => ClaimInv'
<1> SUFFICES ASSUME ClaimInv, [ClaimNext]_claimVars PROVE ClaimInv'
  OBVIOUS
<1> USE DEF ClaimInv
<1>1. ClaimShape' /\ CouriersSound'
  BY ClaimShapeStep
<1>2. RootHeld' /\ AloneAtSheet'
  BY RootStep, AloneStep
<1>3. QueueCurrent'
  BY QueueStep DEF QueueCurrent
<1>4. RowsWritten' /\ EffectsClaimed'
  BY RowsWrittenStep, EffectsStep
<1>5. AnswersTold' /\ NoticeAfterRow' /\ ClaimReceipts'
  BY AnswersStep, NoticeStep, ClaimReceiptsStep
<1> QED BY <1>1, <1>2, <1>3, <1>4, <1>5

\* A set whose members are all the same has one at most.
LEMMA OneAtMost ==
  ASSUME NEW S, \A x, y \in S : x = y
  PROVE  Cardinality(S) <= 1
<1>1. CASE S = {}
  BY <1>1, FS_EmptySet
<1>2. ASSUME NEW x \in S PROVE Cardinality(S) <= 1
  <2>1. S = {x}
    BY <1>2
  <2> QED BY <2>1, FS_Singleton
<1> QED BY <1>1, <1>2

\* A step leaves one row of the case in a sheet at most, of no earlier revision, unless
\* two workers may be there.
LEMMA RowsForward ==
  ASSUME ClaimInv, [ClaimNext]_claimVars, NEW d \in Destinations
  PROVE  \/ SheetOf[d] \in unguarded
         \/ /\ Cardinality(RowsOf(d)') <= 1
            /\ \A x \in RowsOf(d), y \in RowsOf(d)' : x[2] <= y[2]
<1> USE DEF ClaimInv
<1>1. CASE SheetOf[d] \notin unguarded'
  <2>1. \A x, y \in RowsOf(d)' : x = y
    BY <1>1, QueueStep DEF SheetCurrent
  <2>2. PICK S \in {RowsOf(d)'} : S = RowsOf(d)'
    OBVIOUS
  <2>3. Cardinality(RowsOf(d)') <= 1
    BY <2>1, OneAtMost
  <2> QED BY <1>1, <2>3, QueueStep DEF RowsGoUp
<1>2. CASE SheetOf[d] \in unguarded' /\ SheetOf[d] \notin unguarded
  <2>1. queueRows' = queueRows
    BY <1>2 DEF ClaimNext, claimVars, Submit, Perform, Export, ClaimEffect, ReadQueue, CallOut,
                FinishEffect, CourierDies, LockDrops, Redirect
  <2>2. RowsOf(d)' = RowsOf(d)
    BY <2>1 DEF RowsOf
  <2>3. \A x, y \in RowsOf(d) : x = y
    BY <1>2 DEF QueueCurrent, SheetCurrent
  <2>4. Cardinality(RowsOf(d)) <= 1
    BY <2>3, OneAtMost
  <2>5. \A x \in RowsOf(d) : x[2] \in Nat /\ x[2] <= x[2]
    BY RowParts DEF ClaimShape, RowsOf
  <2>6. \A x \in RowsOf(d), y \in RowsOf(d) : x[2] <= y[2]
    BY <2>3, <2>5
  <2> QED BY <2>2, <2>4, <2>6
<1> QED BY <1>1, <1>2

\* The variables of the deliveries keep their types.
LEMMA ClaimTypes == ClaimInv => ClaimTypeOK
<1> SUFFICES ASSUME ClaimShape PROVE ClaimTypeOK
  BY DEF ClaimInv
<1>1. \A w \in Couriers : courier[w].effect \in Effects \cup {NoEffect}
  BY DEF ClaimShape, CourierStates, CourierBusy, AtRest
<1> QED BY <1>1 DEF ClaimShape, ClaimTypeOK, LedgerEntries

\* Every reachable state of the deliveries of a case, for any workers, revisions and
\* configurations, whatever sheets these have in common, satisfies the inductive
\* invariant: who is at a sheet alone, what it may still believe of its row, who holds
\* the claim of an effect, and which receipts are true.
THEOREM ClaimInvariant == ClaimSpec => []ClaimInv
BY DeliveryStart, DeliveryStep, PTL DEF ClaimSpec

\* GoogleClaimsDelivery.deliver and PersistentClaimDeliveryLedger.once: under one
\* configuration no effect is performed twice, its receipt never denies it, nor claims a
\* row that was not written, and nobody is told of a revision before its row was.
THEOREM ClaimReceiptsHold == ClaimSpec => []ClaimReceipts
<1>1. ClaimInv => ClaimReceipts
  BY DEF ClaimInv
<1> QED BY <1>1, ClaimInvariant, PTL

\* GoogleClaimsDelivery._queue: the case has one row in a sheet, which never goes back
\* to an earlier revision in whatever order the submissions are executed, as long as no
\* lock of a destination with that sheet is lost and no two configurations with that
\* sheet are delivered at once.
THEOREM QueueForwardHolds == ClaimSpec => QueueForward
<1>1. ClaimInv /\ [ClaimNext]_claimVars =>
        [\A d \in Destinations :
           \/ SheetOf[d] \in unguarded
           \/ /\ Cardinality(RowsOf(d)') <= 1
              /\ \A x \in RowsOf(d), y \in RowsOf(d)' : x[2] <= y[2]]_claimVars
  BY RowsForward
<1> QED BY <1>1, ClaimInvariant, PTL DEF ClaimSpec, QueueForward

--------------------------------------------------------------------------------
\* The three side by side.

\* The three invariants together.
NativeInv == BookingInv /\ OrdersInv /\ ClaimInv

\* A step of one capability leaves the others alone.
LEMMA FocusedStep ==
  [MCNext]_MCvars =>
    /\ [BookingNext]_bookingVars
    /\ [OrdersNext]_ordersVars
    /\ [ClaimNext]_claimVars
BY DEF MCNext, MCvars, SlotsNext, NoticesNext, ShopNext, DeliveryNext, BookingNext

\* The three capabilities side by side satisfy their inductive invariants, for any
\* value of the constants of each.
THEOREM NativeInvariant == MCSpec => []NativeInv
<1>1. MCInit => NativeInv
  BY BookingStart, OrdersStart, DeliveryStart DEF MCInit, NativeInv
<1>2. NativeInv /\ [MCNext]_MCvars => NativeInv'
  BY FocusedStep, BookingStep, OrdersStep, DeliveryStep DEF NativeInv
<1> QED BY <1>1, <1>2, PTL DEF MCSpec

\* Every variable of the three capabilities keeps its type.
THEOREM NativeTypesHold == MCSpec => []NativeTypesOK
<1>1. BookingInv => BookingTypeOK
  BY DEF BookingInv, BookingShape, BookingTypeOK, EventRows, AppointmentRows, ClerkStates
<1>2. OrdersInv => OrdersTypeOK
  <2> SUFFICES ASSUME OrdersShape PROVE OrdersTypeOK
    BY DEF OrdersInv
  <2>1. order.version \in Nat /\ order.marks \subseteq OrderActions
        /\ order.lastBy \in OrderActions \cup {Staff}
    BY DEF OrdersShape, OrderRows
  <2> QED BY <2>1 DEF OrdersShape, OrdersTypeOK, OrderRequests
<1>3. ClaimInv => ClaimTypeOK
  BY ClaimTypes
<1>4. NativeInv => NativeTypesOK
  BY <1>1, <1>2, <1>3 DEF NativeInv, NativeTypesOK
<1> QED BY <1>4, NativeInvariant, PTL

\* AppointmentsService, OrdersService and GoogleClaimsDelivery: however often a
\* confirmed action is executed, and whatever dies or drops, the provider is written
\* to once at most, and the receipt never says the opposite of what happened there.
THEOREM ReceiptsTruthfulHolds == MCSpec => []ReceiptsTruthful
<1>1. NativeInv => ReceiptsTruthful
  BY DEF NativeInv, BookingInv, OrdersInv, ClaimInv, ReceiptsTruthful
<1> QED BY <1>1, NativeInvariant, PTL

\* What the provider holds only goes forward: an order is not overwritten by an action
\* confirmed on an older version, and the row of a claim not by an earlier revision of
\* its case.
THEOREM WritesInOrderHolds == MCSpec => WritesInOrder
<1>1. NativeInv /\ [MCNext]_MCvars =>
        [\A a \in OrderActions : applied'[a] > applied[a] =>
           \/ order.version = ordered[a].expected
           \/ order.lastBy = Staff
           \/ leaseLost]_ordersVars
  BY FocusedStep, OrderWrittenFresh DEF NativeInv
<1>2. NativeInv /\ [MCNext]_MCvars =>
        [\A d \in Destinations :
           \/ SheetOf[d] \in unguarded
           \/ /\ Cardinality(RowsOf(d)') <= 1
              /\ \A x \in RowsOf(d), y \in RowsOf(d)' : x[2] <= y[2]]_claimVars
  BY FocusedStep, RowsForward DEF NativeInv
<1> QED BY <1>1, <1>2, NativeInvariant, PTL DEF MCSpec, WritesInOrder, NoLostUpdate, QueueForward
===============================================================================

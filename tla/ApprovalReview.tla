---------------------------- MODULE ApprovalReview ----------------------------
(***************************************************************************)
(* The review of one pending approval request by the owner of one of its   *)
(* links: the notice with the link, one-time codes by e-mail, and what is  *)
(* done with them.  What the decision leads to is in ActionApproval.       *)
(*                                                                         *)
(* Every transaction of a review holds the locks of action, route and      *)
(* request, reads the link and saves it whole.  What the mailer answered   *)
(* is recorded afterwards, in a transaction that takes none of those       *)
(* locks: it may come between the reading and the saving of another.       *)
(***************************************************************************)
EXTENDS Naturals, FiniteSets

CONSTANTS
  Visits,       \* requests to the public endpoints, and runs of the notify job
  MaxAttempts,  \* otp_max_attempts of the route
  MaxSends      \* otp_max_sends of the route

ASSUME ReviewAssumption == {MaxAttempts, MaxSends} \subseteq Nat \ {0}

\* Challenges are named by the send that issued them; 0 is none.
Challenges == 1 .. MaxSends

VARIABLES
  request,   \* approval_requests.state
  link,      \* the row of approval_links
  overdue,   \* the code has expired; the request is over its deadline
  cooling,   \* within the cooldown of the last send
  visit,     \* what each visit is at
  mailed,    \* history: challenges whose code the reviewer has
  noticed,   \* history: notices that were mailed
  guesses,   \* history: codes that were compared and refused
  decidedBy  \* history: the challenge a decision was made with

linkVars == <<request, link, overdue, cooling, visit, mailed, noticed, guesses, decidedBy>>

MailStates == {"PENDING", "CLAIMED", "SENT", "FAILED", "UNCERTAIN"}
MailAnswers == {"SENT", "FAILED", "UNCERTAIN"}

NewLink == [invalidated |-> FALSE, notice |-> "PENDING", challenge |-> 0, digest |-> FALSE,
            delivery |-> "PENDING", attempts |-> 0, sends |-> 0]
Away == [at |-> "away", read |-> NewLink, answer |-> "none"]

LinkInit ==
  /\ request = "PENDING"
  /\ link = NewLink
  /\ overdue = {}
  /\ cooling = FALSE
  /\ visit = [p \in Visits |-> Away]
  /\ mailed = {}
  /\ noticed = 0
  /\ guesses = 0
  /\ decidedBy = 0

--------------------------------------------------------------------------------
\* Transactions.

Locked == \E p \in Visits : visit[p].at \in {"notifying", "issuing", "verifying"}
Leaves(p) == visit' = [visit EXCEPT ![p] = Away]
Read(p) == visit[p].read

\* The transaction commits; of what it read only the challenge is used later.
MailsNext(p, what) ==
  visit' = [visit EXCEPT ![p] =
              [at |-> what, read |-> [NewLink EXCEPT !.sends = Read(p).sends], answer |-> "none"]]

\* locked and _usable: the request is pending and within its deadline, and the
\* link is read.
Begin(p, purpose) ==
  /\ visit[p] = Away
  /\ ~Locked
  /\ request = "PENDING" /\ "request" \notin overdue
  /\ ~link.invalidated
  /\ visit' = [visit EXCEPT ![p] = [Away EXCEPT !.at = purpose, !.read = link]]
  /\ UNCHANGED <<request, link, overdue, cooling, mailed, noticed, guesses, decidedBy>>

\* close_request: the link is invalidated with the request.
Closing(row) == [row EXCEPT !.invalidated = TRUE, !.digest = FALSE]

\* A request that is not usable any more is closed by whoever comes first; its
\* route changed, or its deadline passed.
CloseUnusableRequest ==
  /\ ~Locked
  /\ request = "PENDING"
  /\ request' = IF "request" \in overdue THEN "EXPIRED" ELSE "INVALIDATED"
  /\ link' = Closing(link)
  /\ UNCHANGED <<overdue, cooling, visit, mailed, noticed, guesses, decidedBy>>

\* Time passes.
CodeExpires ==
  /\ link.challenge # 0
  /\ overdue' = overdue \cup {"code"}
  /\ UNCHANGED <<request, link, cooling, visit, mailed, noticed, guesses, decidedBy>>

DeadlinePassed ==
  /\ overdue' = {"code", "request"}
  /\ UNCHANGED <<request, link, cooling, visit, mailed, noticed, guesses, decidedBy>>

CooldownEnds ==
  /\ cooling
  /\ cooling' = FALSE
  /\ UNCHANGED <<request, link, overdue, visit, mailed, noticed, guesses, decidedBy>>

--------------------------------------------------------------------------------
\* send_notices.

\* The notice is claimed before it is mailed.
ClaimNotice(p) ==
  /\ visit[p].at = "notifying"
  /\ Read(p).notice = "PENDING"
  /\ link' = [Read(p) EXCEPT !.notice = "CLAIMED"]
  /\ MailsNext(p, "mailing_notice")
  /\ UNCHANGED <<request, overdue, cooling, mailed, noticed, guesses, decidedBy>>

\* A claim found in place was abandoned, or is another run's: it is not mailed.
DoubtNotice(p) ==
  /\ visit[p].at = "notifying"
  /\ Read(p).notice # "PENDING"
  /\ link' = IF Read(p).notice = "CLAIMED" THEN [Read(p) EXCEPT !.notice = "UNCERTAIN"] ELSE link
  /\ Leaves(p)
  /\ UNCHANGED <<request, overdue, cooling, mailed, noticed, guesses, decidedBy>>

--------------------------------------------------------------------------------
\* start_otp.

\* A new challenge replaces the last one; its mail is claimed and counted.
IssueCode(p) ==
  /\ visit[p].at = "issuing"
  /\ Read(p).attempts < MaxAttempts /\ Read(p).sends < MaxSends
  /\ ~cooling
  /\ link' = [Read(p) EXCEPT !.challenge = Read(p).sends + 1, !.digest = TRUE,
                             !.delivery = "CLAIMED", !.sends = @ + 1]
  /\ cooling' = TRUE
  /\ overdue' = overdue \ {"code"}
  /\ MailsNext(p, "mailing_code")
  /\ UNCHANGED <<request, mailed, noticed, guesses, decidedBy>>

\* Out of attempts, sends or patience: the answer does not say so.
RefuseCode(p) ==
  /\ visit[p].at = "issuing"
  /\ cooling \/ Read(p).attempts >= MaxAttempts \/ Read(p).sends >= MaxSends
  /\ Leaves(p)
  /\ UNCHANGED <<request, link, overdue, cooling, mailed, noticed, guesses, decidedBy>>

--------------------------------------------------------------------------------
\* The mailer: _send, outside any transaction, then the record of its answer.

\* An answer of SENT or FAILED is so, any other says nothing.
Arrives(answer) == IF answer = "UNCERTAIN" THEN BOOLEAN ELSE {answer = "SENT"}

Mail(p) ==
  /\ visit[p].at \in {"mailing_notice", "mailing_code"}
  /\ \E answer \in MailAnswers : \E arrives \in Arrives(answer) :
       /\ visit' = [visit EXCEPT ![p].at = IF @ = "mailing_code" THEN "mailed_code"
                                                                 ELSE "mailed_notice",
                                 ![p].answer = answer]
       /\ IF visit[p].at = "mailing_code"
            THEN /\ mailed' = IF arrives THEN mailed \cup {Read(p).sends + 1} ELSE mailed
                 /\ UNCHANGED noticed
            ELSE /\ noticed' = IF arrives THEN noticed + 1 ELSE noticed
                 /\ UNCHANGED mailed
  /\ UNCHANGED <<request, link, overdue, cooling, guesses, decidedBy>>

\* Mutation: the answer is recorded for whatever challenge the link has by then.
RecordAnswerAnyChallenge(p) ==
  /\ \/ /\ visit[p].at = "mailed_notice"
        /\ link' = IF link.notice = "CLAIMED" THEN [link EXCEPT !.notice = visit[p].answer] ELSE link
     \/ /\ visit[p].at = "mailed_code"
        /\ link' = IF link.delivery = "CLAIMED"
                     THEN [link EXCEPT !.delivery = visit[p].answer] ELSE link
  /\ Leaves(p)
  /\ UNCHANGED <<request, overdue, cooling, mailed, noticed, guesses, decidedBy>>

\* Only what is still claimed, and for a code only by the same challenge.
RecordAnswer(p) ==
  /\ \/ /\ visit[p].at = "mailed_notice"
        /\ link' = IF link.notice = "CLAIMED" THEN [link EXCEPT !.notice = visit[p].answer] ELSE link
     \/ /\ visit[p].at = "mailed_code"
        /\ link' = IF link.delivery = "CLAIMED" /\ link.challenge = Read(p).sends + 1
                     THEN [link EXCEPT !.delivery = visit[p].answer] ELSE link
  /\ Leaves(p)
  /\ UNCHANGED <<request, overdue, cooling, mailed, noticed, guesses, decidedBy>>

--------------------------------------------------------------------------------
\* review and decide: _verified_link.

\* The code of challenge c is accepted.
Accepted(p, c) ==
  /\ Read(p).attempts < MaxAttempts
  /\ Read(p).digest /\ Read(p).challenge = c
  /\ Read(p).delivery = "SENT"
  /\ "code" \notin overdue

\* A refused code counts; the last attempt invalidates the link.
RefuseGuess(p) ==
  LET attempts == Read(p).attempts + 1
      counted == [Read(p) EXCEPT !.attempts = attempts]
  IN
  /\ visit[p].at = "verifying"
  /\ Read(p).attempts < MaxAttempts
  /\ link' = IF attempts >= MaxAttempts THEN Closing(counted) ELSE counted
  /\ guesses' = guesses + 1
  /\ Leaves(p)
  /\ UNCHANGED <<request, overdue, cooling, mailed, noticed, decidedBy>>

\* The reviewer, with the code of c, decides; the request closes with its links.
DecideWithCode(p, c) ==
  /\ visit[p].at = "verifying"
  /\ c \in mailed
  /\ Accepted(p, c)
  /\ request' \in {"APPROVED", "REJECTED"}
  /\ link' = Closing(link)
  /\ decidedBy' = c
  /\ Leaves(p)
  /\ UNCHANGED <<overdue, cooling, mailed, noticed, guesses>>

\* The transaction is rolled back, the process dies, or, once the code was
\* accepted, the reviewer only looks.
VisitEnds(p) ==
  /\ visit[p] # Away
  /\ Leaves(p)
  /\ UNCHANGED <<request, link, overdue, cooling, mailed, noticed, guesses, decidedBy>>

LinkNext ==
  \/ \E p \in Visits, purpose \in {"notifying", "issuing", "verifying"} : Begin(p, purpose)
  \/ CloseUnusableRequest
  \/ CodeExpires
  \/ DeadlinePassed
  \/ CooldownEnds
  \/ \E p \in Visits : ClaimNotice(p)
  \/ \E p \in Visits : DoubtNotice(p)
  \/ \E p \in Visits : IssueCode(p)
  \/ \E p \in Visits : RefuseCode(p)
  \/ \E p \in Visits : Mail(p)
  \/ \E p \in Visits : RecordAnswer(p)
  \/ \E p \in Visits : RefuseGuess(p)
  \/ \E p \in Visits, c \in Challenges : DecideWithCode(p, c)
  \/ \E p \in Visits : VisitEnds(p)

LinkSpec == LinkInit /\ [][LinkNext]_linkVars

--------------------------------------------------------------------------------
\* Properties.

\* The shape of the row and of the visits.
LinkTypeOK ==
  /\ request \in {"PENDING", "APPROVED", "REJECTED", "EXPIRED", "INVALIDATED"}
  /\ {link.notice, link.delivery} \subseteq MailStates
  /\ {link.challenge, decidedBy} \cup mailed \subseteq {0} \cup Challenges
  /\ \A p \in Visits : visit[p].answer \in MailAnswers \cup {"none"}

\* "Five cumulative attempts, three sends": over all codes and all parallel
\* visits no more codes are tried and mailed than the route allows, and the
\* notice is mailed once, whatever dies between a claim and its mail.
MailAndGuessesBounded ==
  /\ guesses <= MaxAttempts
  /\ Cardinality(mailed) <= MaxSends
  /\ noticed <= 1

\* "Only a confirmed SENT OTP can verify": a link says SENT of no code that the
\* reviewer does not have, a decision was made with the last code issued, and a
\* closed request leaves no link that could be used.
CodesProveMailbox ==
  /\ link.delivery = "SENT" => link.challenge \in mailed
  /\ request \in {"APPROVED", "REJECTED"} => decidedBy = link.challenge
  /\ request # "PENDING" => link.invalidated /\ ~link.digest

\* Who decides over a link has its last code, and did not get it by trying.
ReviewProven == MailAndGuessesBounded /\ CodesProveMailbox
===============================================================================

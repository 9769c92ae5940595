--------------------------- MODULE Channels_proofs ----------------------------
(***************************************************************************)
(* What the records behind the channels guarantee for any number of        *)
(* concurrent requests: the link a customer approves an action with, the   *)
(* media a customer sent, and the WhatsApp number of a tenant. In each of  *)
(* them a request reads, asks somebody outside, and writes without holding *)
(* what it read; the inductive invariants say what is still true when it   *)
(* writes.                                                                 *)
(***************************************************************************)
EXTENDS ApprovalReview, MediaEvidence, WhatsAppAccounts, FiniteSetTheorems, TLAPS

--------------------------------------------------------------------------------
\* Approval links: LinkSpec => []ReviewProven.

\* The row of public.approval_links: what its columns can hold.
LinkRows ==
  [invalidated: BOOLEAN, notice: MailStates, challenge: 0 .. MaxSends, digest: BOOLEAN,
   delivery: MailStates, attempts: 0 .. MaxAttempts, sends: 0 .. MaxSends]

\* What a visit to the link remembers: the row it read, and the answer of the mail
\* server.
VisitRecords ==
  [at: {"away", "notifying", "issuing", "verifying", "mailing_notice", "mailing_code",
        "mailed_notice", "mailed_code"},
   read: LinkRows, answer: MailAnswers \cup {"none"}]

\* A visit that holds the lock of the link between reading its row and writing it.
InTransaction(p) == visit[p].at \in {"notifying", "issuing", "verifying"}

\* Who has come back from the mail server has an answer.
AnswersGiven ==
  \A p \in Visits :
    visit[p].at \in {"mailed_notice", "mailed_code"} => visit[p].answer \in MailAnswers

\* The types, with the bounds on attempts and on codes that the row itself enforces.
LinkShape ==
  /\ request \in {"PENDING", "APPROVED", "REJECTED", "EXPIRED", "INVALIDATED"}
  /\ link \in LinkRows
  /\ visit \in [Visits -> VisitRecords]
  /\ AnswersGiven
  /\ decidedBy \in 0 .. MaxSends

\* The row lock: one visit at a time is between its read and its write.
OneTransaction == \A p, q \in Visits : InTransaction(p) /\ InTransaction(q) => p = q

\* What a visit read under the lock still stands when it writes, except for an expiry,
\* which only closes.
ReadIsCurrent ==
  \A p \in Visits : InTransaction(p) =>
    /\ request = "PENDING" /\ ~link.invalidated
    /\ Read(p).challenge = link.challenge /\ Read(p).digest = link.digest
    /\ Read(p).attempts = link.attempts /\ Read(p).sends = link.sends
    /\ ~Read(p).invalidated
    /\ Read(p).notice = "PENDING" => link.notice = "PENDING"
    /\ Read(p).delivery = "SENT" => link.challenge \in mailed

\* Codes are counted before they are mailed: the challenge is the number of codes
\* issued, a guess costs an attempt, and a code that is known to be mailed was issued.
CodesCounted ==
  /\ link.challenge = link.sends
  /\ guesses = link.attempts
  /\ mailed \subseteq 1 .. link.sends
  /\ \A p \in Visits :
       /\ visit[p].at \in {"mailing_code", "mailed_code"} => Read(p).sends < link.sends
       /\ visit[p].at = "mailed_code" /\ visit[p].answer = "SENT" => Read(p).sends + 1 \in mailed

\* The notice is claimed before it is mailed, and the claim is made once.
NoticeOnce ==
  /\ noticed \in {0, 1}
  /\ \A p \in Visits : visit[p].at = "mailing_notice" => noticed = 0 /\ link.notice # "PENDING"
  /\ \A p, q \in Visits :
       visit[p].at = "mailing_notice" /\ visit[q].at = "mailing_notice" => p = q
  /\ link.notice = "PENDING" => noticed = 0

\* The inductive invariant of a review link.
ReviewInv == LinkShape /\ OneTransaction /\ ReadIsCurrent /\ CodesCounted /\ NoticeOnce
             /\ CodesProveMailbox

\* A new link has no code, no guesses and no notice.
LEMMA ReviewInit == LinkInit => ReviewInv
<1> SUFFICES ASSUME LinkInit PROVE ReviewInv
  OBVIOUS
<1> USE ReviewAssumption DEF LinkInit, NewLink, Away, InTransaction, Read
<1>1. LinkShape
  BY DEF LinkShape, LinkRows, VisitRecords, AnswersGiven, MailStates, MailAnswers
<1>2. OneTransaction /\ ReadIsCurrent /\ NoticeOnce /\ CodesProveMailbox
  BY DEF OneTransaction, ReadIsCurrent, NoticeOnce, CodesProveMailbox
<1>3. CodesCounted
  BY DEF CodesCounted
<1> QED BY <1>1, <1>2, <1>3 DEF ReviewInv

\* The limits on attempts and codes are positive.
LEMMA Limits == MaxAttempts \in Nat \ {0} /\ MaxSends \in Nat \ {0}
BY ReviewAssumption

\* The rows an update starts from are rows.
LEMMA RowsTyped ==
  /\ NewLink \in LinkRows
  /\ Away \in VisitRecords /\ Away.at = "away"
  /\ MailAnswers \subseteq MailStates
<1>1. NewLink \in LinkRows
  BY Limits DEF NewLink, LinkRows, MailStates
<1> QED BY <1>1 DEF Away, VisitRecords, MailAnswers, MailStates

\* Going on to mail something changes this visit only, and keeps the count that was
\* read.
LEMMA NextMail ==
  ASSUME LinkShape, NEW p \in Visits, NEW what \in {"mailing_notice", "mailing_code"},
         MailsNext(p, what)
  PROVE  /\ visit' \in [Visits -> VisitRecords]
         /\ visit'[p].at = what /\ visit'[p].read.sends = Read(p).sends
         /\ \A q \in Visits \ {p} : visit'[q] = visit[q]
         /\ AnswersGiven'
<1> DEFINE row == [NewLink EXCEPT !.sends = Read(p).sends]
           next == [at |-> what, read |-> row, answer |-> "none"]
<1>1. Read(p).sends \in 0 .. MaxSends
  BY DEF LinkShape, VisitRecords, LinkRows, Read
<1>2. row \in LinkRows /\ row.sends = Read(p).sends
  BY <1>1, RowsTyped DEF LinkRows
<1>3. visit' = [visit EXCEPT ![p] = next]
  BY DEF MailsNext
<1> HIDE DEF row
<1>4. next \in VisitRecords
  BY <1>2 DEF VisitRecords
<1> QED BY <1>2, <1>3, <1>4 DEF LinkShape, AnswersGiven

\* Leaving changes this visit only.
LEMMA LeavingLink ==
  ASSUME LinkShape, NEW p \in Visits, Leaves(p)
  PROVE  /\ visit' \in [Visits -> VisitRecords]
         /\ visit'[p].at = "away"
         /\ \A q \in Visits \ {p} : visit'[q] = visit[q]
         /\ AnswersGiven'
BY RowsTyped DEF Leaves, LinkShape, AnswersGiven

\* No step leaves the types.
LEMMA LinkShapeStep == ReviewInv /\ [LinkNext]_linkVars => LinkShape'
<1> SUFFICES ASSUME ReviewInv, [LinkNext]_linkVars PROVE LinkShape'
  OBVIOUS
<1> USE DEF ReviewInv, LinkShape, InTransaction, Read
<1> DEFINE LinkTyped == link' \in LinkRows
           VisitTyped == visit' \in [Visits -> VisitRecords] /\ AnswersGiven'
<1>1. ASSUME NEW p \in Visits, NEW purpose \in {"notifying", "issuing", "verifying"},
             Begin(p, purpose)
      PROVE  LinkShape'
  BY <1>1, RowsTyped DEF Begin, VisitRecords, AnswersGiven
<1>2. CASE CloseUnusableRequest
  BY <1>2 DEF CloseUnusableRequest, Closing, LinkRows, AnswersGiven
<1>3. CASE CodeExpires \/ DeadlinePassed \/ CooldownEnds
  BY <1>3 DEF CodeExpires, DeadlinePassed, CooldownEnds, AnswersGiven
<1>4. ASSUME NEW p \in Visits, ClaimNotice(p) PROVE LinkShape'
  <2>1. VisitTyped
    BY <1>4, NextMail DEF ClaimNotice
  <2>2. LinkTyped
    BY <1>4 DEF ClaimNotice, VisitRecords, LinkRows, MailStates
  <2> QED BY <1>4, <2>1, <2>2 DEF ClaimNotice
<1>5. ASSUME NEW p \in Visits, DoubtNotice(p) PROVE LinkShape'
  <2>1. VisitTyped
    BY <1>5, LeavingLink DEF DoubtNotice
  <2>2. LinkTyped
    BY <1>5 DEF DoubtNotice, VisitRecords, LinkRows, MailStates
  <2> QED BY <1>5, <2>1, <2>2 DEF DoubtNotice
<1>6. ASSUME NEW p \in Visits, IssueCode(p) PROVE LinkShape'
  <2>1. VisitTyped
    BY <1>6, NextMail DEF IssueCode
  <2>2. Read(p) \in LinkRows /\ Read(p).sends + 1 \in 0 .. MaxSends
    BY <1>6, Limits DEF IssueCode, VisitRecords, LinkRows
  <2>3. LinkTyped
    <3>1. \A row \in LinkRows, n \in 0 .. MaxSends :
            [row EXCEPT !.challenge = n, !.digest = TRUE, !.delivery = "CLAIMED", !.sends = n]
              \in LinkRows
      BY DEF LinkRows, MailStates
    <3>2. link' = [Read(p) EXCEPT !.challenge = Read(p).sends + 1, !.digest = TRUE,
                                  !.delivery = "CLAIMED", !.sends = Read(p).sends + 1]
      BY <1>6 DEF IssueCode
    <3> HIDE DEF Read
    <3> QED BY <2>2, <3>1, <3>2
  <2> QED BY <1>6, <2>1, <2>3 DEF IssueCode
<1>7. ASSUME NEW p \in Visits, RefuseCode(p) PROVE LinkShape'
  BY <1>7, LeavingLink DEF RefuseCode
<1>8. ASSUME NEW p \in Visits, Mail(p) PROVE LinkShape'
  <2>1. PICK answer \in MailAnswers :
          visit' = [visit EXCEPT ![p].at = IF @ = "mailing_code" THEN "mailed_code"
                                                                 ELSE "mailed_notice",
                                 ![p].answer = answer]
    BY <1>8 DEF Mail
  <2> DEFINE at == IF visit[p].at = "mailing_code" THEN "mailed_code" ELSE "mailed_notice"
             next == [visit[p] EXCEPT !.at = at, !.answer = answer]
  <2>2. next \in VisitRecords /\ next.answer = answer
    BY DEF VisitRecords
  <2>3. visit' = [visit EXCEPT ![p] = next]
    BY <2>1
  <2>4. VisitTyped
    BY <2>2, <2>3 DEF AnswersGiven
  <2> QED BY <1>8, <2>4 DEF Mail
<1>9. ASSUME NEW p \in Visits, RecordAnswer(p) PROVE LinkShape'
  <2>1. VisitTyped
    BY <1>9, LeavingLink DEF RecordAnswer
  <2>2. visit[p].answer \in MailStates
    BY <1>9, RowsTyped DEF RecordAnswer, AnswersGiven
  <2>3. LinkTyped
    BY <1>9, <2>2 DEF RecordAnswer, LinkRows
  <2> QED BY <1>9, <2>1, <2>3 DEF RecordAnswer
<1>10. ASSUME NEW p \in Visits, RefuseGuess(p) PROVE LinkShape'
  <2>1. VisitTyped
    BY <1>10, LeavingLink DEF RefuseGuess
  <2>2. LinkTyped
    <3>1. Read(p) \in LinkRows /\ Read(p).attempts + 1 \in 0 .. MaxAttempts
      BY <1>10, Limits DEF RefuseGuess, VisitRecords, LinkRows
    <3> QED BY <1>10, <3>1 DEF RefuseGuess, Closing, LinkRows
  <2> QED BY <1>10, <2>1, <2>2 DEF RefuseGuess
<1>11. ASSUME NEW p \in Visits, NEW c \in Challenges, DecideWithCode(p, c) PROVE LinkShape'
  <2>1. VisitTyped
    BY <1>11, LeavingLink DEF DecideWithCode
  <2>2. LinkTyped
    BY <1>11 DEF DecideWithCode, Closing, LinkRows
  <2>3. c \in 0 .. MaxSends
    BY Limits DEF Challenges
  <2> QED BY <1>11, <2>1, <2>2, <2>3 DEF DecideWithCode
<1>12. ASSUME NEW p \in Visits, VisitEnds(p) PROVE LinkShape'
  BY <1>12, LeavingLink DEF VisitEnds
<1>13. CASE UNCHANGED linkVars
  BY <1>13 DEF linkVars, AnswersGiven
<1> QED
  BY <1>1, <1>2, <1>3, <1>4, <1>5, <1>6, <1>7, <1>8, <1>9, <1>10, <1>11, <1>12, <1>13
  DEF LinkNext

\* An update that does not touch the notice does not disturb the claim on it.
LEMMA NoticeKept ==
  ASSUME NoticeOnce, noticed' = noticed,
         link'.notice = "PENDING" => link.notice = "PENDING",
         \A q \in Visits : visit'[q].at = "mailing_notice" => visit[q].at = "mailing_notice"
  PROVE  NoticeOnce'
BY DEF NoticeOnce

\* No step leaves the inductive invariant: under the lock what was read is current,
\* and what happens while the mail server is asked only closes or counts up.
LEMMA ReviewStep == ReviewInv /\ [LinkNext]_linkVars => ReviewInv'
<1> SUFFICES ASSUME ReviewInv, [LinkNext]_linkVars, LinkShape' PROVE ReviewInv'
  BY LinkShapeStep
<1> USE DEF ReviewInv, LinkShape, LinkRows, VisitRecords, InTransaction, Read
<1>1. ASSUME NEW p \in Visits, NEW purpose \in {"notifying", "issuing", "verifying"}, Begin(p, purpose) PROVE ReviewInv'
  <2>1. OneTransaction'
    BY <1>1 DEF Begin, Locked, OneTransaction
  <2>2. ReadIsCurrent'
    BY <1>1 DEF Begin, Locked, ReadIsCurrent, CodesProveMailbox, Away
  <2>3. CodesCounted'
    BY <1>1 DEF Begin, Locked, ReadIsCurrent, CodesCounted
  <2>4. NoticeOnce'
    BY <1>1 DEF Begin, Locked, ReadIsCurrent, NoticeOnce
  <2>5. CodesProveMailbox'
    BY <1>1 DEF Begin, Locked, ReadIsCurrent, CodesProveMailbox, CodesCounted
  <2> QED BY <2>1, <2>2, <2>3, <2>4, <2>5
<1>2. CASE CloseUnusableRequest
  <2>1. OneTransaction'
    BY <1>2 DEF CloseUnusableRequest, Locked, Closing, OneTransaction
  <2>2. ReadIsCurrent'
    BY <1>2 DEF CloseUnusableRequest, Locked, Closing, OneTransaction, ReadIsCurrent, CodesCounted
  <2>3. CodesCounted'
    BY <1>2 DEF CloseUnusableRequest, Locked, Closing, ReadIsCurrent, CodesCounted
  <2>4. NoticeOnce'
    BY <1>2 DEF CloseUnusableRequest, Locked, Closing, ReadIsCurrent, NoticeOnce
  <2>5. CodesProveMailbox'
    BY <1>2 DEF CloseUnusableRequest, Locked, Closing, ReadIsCurrent, CodesProveMailbox,
       CodesCounted
  <2> QED BY <2>1, <2>2, <2>3, <2>4, <2>5
<1>3. CASE CodeExpires \/ DeadlinePassed \/ CooldownEnds
  <2>1. OneTransaction'
    BY <1>3 DEF CodeExpires, DeadlinePassed, CooldownEnds, OneTransaction
  <2>2. ReadIsCurrent'
    BY <1>3 DEF CodeExpires, DeadlinePassed, CooldownEnds, OneTransaction, ReadIsCurrent,
       CodesCounted
  <2>3. CodesCounted'
    BY <1>3 DEF CodeExpires, DeadlinePassed, CooldownEnds, ReadIsCurrent, CodesCounted
  <2>4. NoticeOnce'
    BY <1>3 DEF CodeExpires, DeadlinePassed, CooldownEnds, ReadIsCurrent, NoticeOnce
  <2>5. CodesProveMailbox'
    BY <1>3 DEF CodeExpires, DeadlinePassed, CooldownEnds, ReadIsCurrent, CodesProveMailbox,
       CodesCounted
  <2> QED BY <2>1, <2>2, <2>3, <2>4, <2>5
<1>4. ASSUME NEW p \in Visits, ClaimNotice(p) PROVE ReviewInv'
  <2>1. OneTransaction'
    BY <1>4, NextMail DEF ClaimNotice, OneTransaction
  <2>2. ReadIsCurrent'
    BY <1>4, NextMail DEF ClaimNotice, OneTransaction, ReadIsCurrent, CodesCounted
  <2>3. CodesCounted'
    BY <1>4, NextMail, SMTT(40) DEF ClaimNotice, ReadIsCurrent, CodesCounted
  <2>4. NoticeOnce'
    BY <1>4, NextMail, SMTT(40) DEF ClaimNotice, ReadIsCurrent, NoticeOnce
  <2>5. CodesProveMailbox'
    BY <1>4, NextMail DEF ClaimNotice, ReadIsCurrent, CodesProveMailbox, CodesCounted
  <2> QED BY <2>1, <2>2, <2>3, <2>4, <2>5
<1>5. ASSUME NEW p \in Visits, DoubtNotice(p) PROVE ReviewInv'
  <2>1. OneTransaction'
    BY <1>5, LeavingLink DEF DoubtNotice, OneTransaction
  <2>2. ReadIsCurrent'
    BY <1>5, LeavingLink DEF DoubtNotice, OneTransaction, ReadIsCurrent, CodesCounted
  <2>3. CodesCounted'
    BY <1>5, LeavingLink DEF DoubtNotice, ReadIsCurrent, CodesCounted
  <2>4. NoticeOnce'
    <3>1. \A q \in Visits : visit'[q].at = "mailing_notice" => q # p /\ visit'[q] = visit[q]
      BY <1>5, LeavingLink DEF DoubtNotice
    <3>2. link.notice # "PENDING" => link'.notice # "PENDING"
      BY <1>5 DEF DoubtNotice, LinkShape, LinkRows, VisitRecords
    <3>3. link'.notice = "PENDING" => noticed = 0
      BY <1>5, <3>2 DEF NoticeOnce
    <3> QED BY <1>5, <3>1, <3>2, <3>3 DEF DoubtNotice, NoticeOnce
  <2>5. CodesProveMailbox'
    BY <1>5, LeavingLink DEF DoubtNotice, ReadIsCurrent, CodesProveMailbox, CodesCounted
  <2> QED BY <2>1, <2>2, <2>3, <2>4, <2>5
<1>6. ASSUME NEW p \in Visits, IssueCode(p) PROVE ReviewInv'
  <2>1. OneTransaction'
    BY <1>6, NextMail DEF IssueCode, OneTransaction
  <2>2. ReadIsCurrent'
    BY <1>6, NextMail DEF IssueCode, OneTransaction, ReadIsCurrent, CodesCounted
  <2>3. CodesCounted'
    BY <1>6, NextMail DEF IssueCode, ReadIsCurrent, CodesCounted
  <2>4. NoticeOnce'
    BY <1>6, NextMail, SMTT(40) DEF IssueCode, ReadIsCurrent, NoticeOnce
  <2>5. CodesProveMailbox'
    BY <1>6, NextMail DEF IssueCode, ReadIsCurrent, CodesProveMailbox, CodesCounted
  <2> QED BY <2>1, <2>2, <2>3, <2>4, <2>5
<1>7. ASSUME NEW p \in Visits, RefuseCode(p) PROVE ReviewInv'
  <2>1. OneTransaction'
    BY <1>7, LeavingLink DEF RefuseCode, OneTransaction
  <2>2. ReadIsCurrent'
    BY <1>7, LeavingLink DEF RefuseCode, OneTransaction, ReadIsCurrent, CodesCounted
  <2>3. CodesCounted'
    BY <1>7, LeavingLink DEF RefuseCode, ReadIsCurrent, CodesCounted
  <2>4. NoticeOnce'
    BY <1>7, LeavingLink DEF RefuseCode, NoticeOnce
  <2>5. CodesProveMailbox'
    BY <1>7, LeavingLink DEF RefuseCode, ReadIsCurrent, CodesProveMailbox, CodesCounted
  <2> QED BY <2>1, <2>2, <2>3, <2>4, <2>5
<1>8. ASSUME NEW p \in Visits, Mail(p) PROVE ReviewInv'
  <2>1. OneTransaction'
    BY <1>8 DEF Mail, Arrives, OneTransaction
  <2>2. ReadIsCurrent'
    BY <1>8 DEF Mail, Arrives, OneTransaction, ReadIsCurrent, CodesCounted
  <2>3. CodesCounted'
    <3>1. PICK answer \in MailAnswers, arrives \in BOOLEAN :
            /\ answer = "SENT" => arrives
            /\ visit' = [visit EXCEPT ![p].at = IF @ = "mailing_code" THEN "mailed_code"
                                                                     ELSE "mailed_notice",
                                     ![p].answer = answer]
            /\ mailed' = IF visit[p].at = "mailing_code" /\ arrives
                           THEN mailed \cup {Read(p).sends + 1} ELSE mailed
      BY <1>8 DEF Mail, Arrives
    <3>2. visit'[p].read = visit[p].read /\ visit'[p].answer = answer
      BY <3>1
    <3>3. visit[p].at = "mailing_code" => Read(p).sends + 1 \in 1 .. link.sends
      BY DEF CodesCounted
    <3>4. mailed \subseteq mailed' /\ mailed' \subseteq 1 .. link.sends
      BY <3>1, <3>3 DEF CodesCounted
    <3>5. \A q \in Visits \ {p} : visit'[q] = visit[q]
      BY <3>1
    <3>6. /\ visit[p].at \in {"mailing_code", "mailing_notice"}
          /\ visit'[p].at = IF visit[p].at = "mailing_code" THEN "mailed_code" ELSE "mailed_notice"
          /\ UNCHANGED <<link, guesses>>
      BY <1>8, <3>1 DEF Mail
    <3>7. /\ visit'[p].at = "mailed_code" /\ visit'[p].answer = "SENT" =>
               Read(p).sends + 1 \in mailed'
          /\ visit'[p].at = "mailed_code" => Read(p).sends < link.sends
          /\ visit'[p].at # "mailing_code"
      BY <3>1, <3>2, <3>6 DEF CodesCounted
    <3>8. Read(p)' = Read(p) /\ \A q \in Visits \ {p} : Read(q)' = Read(q)
      BY <3>2, <3>5 DEF Read
    <3> QED BY <3>4, <3>5, <3>6, <3>7, <3>8 DEF CodesCounted
  <2>4. NoticeOnce'
    BY <1>8 DEF Mail, Arrives, ReadIsCurrent, NoticeOnce
  <2>5. CodesProveMailbox'
    BY <1>8 DEF Mail, Arrives, ReadIsCurrent, CodesProveMailbox, CodesCounted
  <2> QED BY <2>1, <2>2, <2>3, <2>4, <2>5
<1>9. ASSUME NEW p \in Visits, RecordAnswer(p) PROVE ReviewInv'
  <2>1. OneTransaction'
    BY <1>9, LeavingLink DEF RecordAnswer, OneTransaction
  <2>2. ReadIsCurrent'
    BY <1>9, LeavingLink DEF RecordAnswer, OneTransaction, ReadIsCurrent, CodesCounted
  <2>3. CodesCounted'
    BY <1>9, LeavingLink, SMTT(40) DEF RecordAnswer, ReadIsCurrent, CodesCounted
  <2>4. NoticeOnce'
    <3>1. link'.notice = "PENDING" => link.notice = "PENDING"
      BY <1>9 DEF RecordAnswer, AnswersGiven, MailAnswers
    <3>2. \A q \in Visits : visit'[q].at = "mailing_notice" => visit[q].at = "mailing_notice"
      BY <1>9, LeavingLink DEF RecordAnswer
    <3> QED BY <1>9, <3>1, <3>2, NoticeKept DEF RecordAnswer
  <2>5. CodesProveMailbox'
    BY <1>9, LeavingLink DEF RecordAnswer, ReadIsCurrent, CodesProveMailbox, CodesCounted
  <2> QED BY <2>1, <2>2, <2>3, <2>4, <2>5
<1>10. ASSUME NEW p \in Visits, RefuseGuess(p) PROVE ReviewInv'
  <2>1. OneTransaction'
    BY <1>10, LeavingLink DEF RefuseGuess, Closing, OneTransaction
  <2>2. ReadIsCurrent'
    BY <1>10, LeavingLink DEF RefuseGuess, Closing, OneTransaction, ReadIsCurrent, CodesCounted
  <2>3. CodesCounted'
    BY <1>10, LeavingLink DEF RefuseGuess, Closing, ReadIsCurrent, CodesCounted
  <2>4. NoticeOnce'
    <3>1. link'.notice = Read(p).notice
      BY <1>10 DEF RefuseGuess, Closing
    <3>2. link'.notice = "PENDING" => link.notice = "PENDING"
      BY <1>10, <3>1 DEF RefuseGuess, ReadIsCurrent
    <3>3. \A q \in Visits : visit'[q].at = "mailing_notice" => visit[q].at = "mailing_notice"
      BY <1>10, LeavingLink DEF RefuseGuess
    <3> QED BY <1>10, <3>2, <3>3, NoticeKept DEF RefuseGuess
  <2>5. CodesProveMailbox'
    BY <1>10, LeavingLink DEF RefuseGuess, Closing, ReadIsCurrent, CodesProveMailbox, CodesCounted
  <2> QED BY <2>1, <2>2, <2>3, <2>4, <2>5
<1>11. ASSUME NEW p \in Visits, NEW c \in Challenges, DecideWithCode(p, c) PROVE ReviewInv'
  <2>1. OneTransaction'
    BY <1>11, LeavingLink DEF DecideWithCode, Accepted, Closing, OneTransaction
  <2>2. ReadIsCurrent'
    BY <1>11, LeavingLink
       DEF DecideWithCode, Accepted, Closing, OneTransaction, ReadIsCurrent, CodesCounted
  <2>3. CodesCounted'
    BY <1>11, LeavingLink DEF DecideWithCode, Accepted, Closing, ReadIsCurrent, CodesCounted
  <2>4. NoticeOnce'
    BY <1>11, LeavingLink DEF DecideWithCode, Accepted, Closing, ReadIsCurrent, NoticeOnce
  <2>5. CodesProveMailbox'
    BY <1>11, LeavingLink
       DEF DecideWithCode, Accepted, Closing, ReadIsCurrent, CodesProveMailbox, CodesCounted
  <2> QED BY <2>1, <2>2, <2>3, <2>4, <2>5
<1>12. ASSUME NEW p \in Visits, VisitEnds(p) PROVE ReviewInv'
  <2>1. OneTransaction'
    BY <1>12, LeavingLink DEF VisitEnds, OneTransaction
  <2>2. ReadIsCurrent'
    BY <1>12, LeavingLink DEF VisitEnds, OneTransaction, ReadIsCurrent, CodesCounted
  <2>3. CodesCounted'
    BY <1>12, LeavingLink DEF VisitEnds, ReadIsCurrent, CodesCounted
  <2>4. NoticeOnce'
    BY <1>12, LeavingLink, SMTT(40) DEF VisitEnds, NoticeOnce
  <2>5. CodesProveMailbox'
    BY <1>12, LeavingLink DEF VisitEnds, ReadIsCurrent, CodesProveMailbox, CodesCounted
  <2> QED BY <2>1, <2>2, <2>3, <2>4, <2>5
<1>13. CASE UNCHANGED linkVars
  BY <1>13 DEF linkVars, OneTransaction, ReadIsCurrent, CodesCounted, NoticeOnce, CodesProveMailbox
<1> QED
  BY <1>1, <1>2, <1>3, <1>4, <1>5, <1>6, <1>7, <1>8, <1>9, <1>10, <1>11, <1>12, <1>13
  DEF LinkNext

\* Every reachable state of a review link, for any number of visits and any limits,
\* satisfies the inductive invariant.
THEOREM ReviewInvariant == LinkSpec => []ReviewInv
BY ReviewInit, ReviewStep, PTL DEF LinkSpec

\* Codes are mailed for challenges 1 to sends only, so there are at most MaxSends of
\* them.
LEMMA MailedBounded == ASSUME ReviewInv PROVE Cardinality(mailed) <= MaxSends
<1>1. mailed \in SUBSET (1 .. MaxSends)
  BY Limits DEF ReviewInv, LinkShape, LinkRows, CodesCounted
<1>2. IsFiniteSet(1 .. MaxSends) /\ Cardinality(1 .. MaxSends) = MaxSends
  BY Limits, FS_Interval
<1>3. Cardinality(mailed) <= Cardinality(1 .. MaxSends)
  BY <1>1, <1>2, FS_Subset
<1> QED BY <1>2, <1>3

\* ApprovalReviewService: whatever visits overlap, a decision through the link was
\* made with a code mailed for it and not superseded, guesses and codes stay within
\* their limits, and the notice is mailed at most once.
THEOREM ReviewProvenHolds == LinkSpec => []ReviewProven
<1>1. ReviewInv => ReviewProven
  <2> SUFFICES ASSUME ReviewInv PROVE ReviewProven
    OBVIOUS
  <2>1. guesses <= MaxAttempts /\ noticed <= 1
    BY Limits DEF ReviewInv, LinkShape, LinkRows, CodesCounted, NoticeOnce
  <2> QED BY <2>1, MailedBounded DEF ReviewInv, ReviewProven, MailAndGuessesBounded
<1> QED BY <1>1, ReviewInvariant, PTL

--------------------------------------------------------------------------------
\* Media: MediaSpec => []EvidencePrivate.

\* What public.media_observations can say for a message.
Observations == {"none", "READY", "PENDING_PROVIDER", "HUMAN_REVIEW", "FAILED", "QUARANTINED",
                 "DELETED"}

\* The row of public.media_evidence: what its columns can hold.
EvidenceRows ==
  [status: {"none", "PROCESSING", "READY", "PENDING_PROVIDER", "HUMAN_REVIEW", "FAILED",
            "QUARANTINED", "DELETED"},
   digest: BOOLEAN, key: BOOLEAN, scan: {"NOT_RUN", "CLEAN", "INFECTED", "UNAVAILABLE"},
   result: {"none", "READY", "PENDING_PROVIDER", "HUMAN_REVIEW", "FAILED", "QUARANTINED"},
   deleted: BOOLEAN, expired: BOOLEAN]

\* The stages of process.
Processing == {"fetching", "storing", "scanning", "normalizing", "attaching"}
\* The stages of delete.
Deleting == {"blanking", "unlinking", "clearing"}

\* What a process that holds the lock of the object can be at.
HandlerStates == [at: {"idle"} \cup Processing \cup Deleting, message: SUBSET Messages]

\* The types.
MediaShape ==
  /\ payload \in {"CLEAN", "INFECTED"}
  /\ evidence \in EvidenceRows
  /\ file \in BOOLEAN
  /\ attached \in [Messages -> Observations]
  /\ handler \in [Handlers -> HandlerStates]

\* The advisory lock: one process at a time works on the object.
OneHandler ==
  \A h, g \in Handlers : handler[h] # AtRest /\ handler[g] # AtRest => h = g

\* What holds at a stage: who processes found the object not deleted and who deletes
\* has marked it; before the original is stored it is on the volume; before the row is
\* cleared every observation was overwritten and the file removed.
StagesMatch ==
  \A h \in Handlers :
    /\ handler[h].at \in Processing => ~evidence.deleted
    /\ handler[h].at \in Deleting => evidence.deleted
    /\ handler[h].at = "storing" => file
    /\ handler[h].at \in {"unlinking", "clearing"} =>
         \A m \in Messages : attached[m] \in {"none", "DELETED"}
    /\ handler[h].at = "clearing" => ~file

\* The row tells the truth about the volume and the scanner: a digest means a file, a
\* verdict is the scanner's own, and content was only taken out of a clean object.
RowTruthful ==
  /\ evidence.digest /\ ~evidence.deleted => file
  /\ evidence.scan \in {"NOT_RUN", "UNAVAILABLE", payload}
  /\ evidence.result = "READY" => payload = "CLEAN"

\* The inductive invariant of a media object.
MediaInv == MediaShape /\ OneHandler /\ StagesMatch /\ RowTruthful /\ EvidencePrivate


\* Going to the next stage keeps the lock with its holder.
LEMMA HandlersEnter ==
  ASSUME MediaShape, OneHandler, NEW h \in Handlers, handler[h] # AtRest,
         NEW stage \in Processing \cup Deleting, Enters(h, stage)
  PROVE  /\ handler' \in [Handlers -> HandlerStates]
         /\ handler'[h].at = stage
         /\ handler'[h].message = handler[h].message
         /\ handler'[h] # AtRest
         /\ \A g \in Handlers \ {h} : handler'[g] = AtRest
         /\ OneHandler'
<1>1. handler[h] \in HandlerStates
  BY DEF MediaShape
<1>2. [handler[h] EXCEPT !.at = stage] \in HandlerStates
  BY <1>1 DEF HandlerStates
<1>3. \A g \in Handlers \ {h} : handler[g] = AtRest
  BY DEF OneHandler
<1>4. handler' \in [Handlers -> HandlerStates]
  BY <1>2 DEF Enters, MediaShape
<1>5. handler'[h] = [handler[h] EXCEPT !.at = stage]
  BY DEF Enters, MediaShape
<1>6. handler'[h].at = stage /\ handler'[h].message = handler[h].message
  BY <1>1, <1>5 DEF HandlerStates
<1>7. handler'[h] # AtRest
  BY <1>6 DEF AtRest, Processing, Deleting
<1>8. \A g \in Handlers \ {h} : handler'[g] = AtRest
  BY <1>3 DEF Enters, MediaShape
<1> QED BY <1>4, <1>6, <1>7, <1>8 DEF OneHandler

\* When the holder is done, or dies, nobody holds the lock.
LEMMA HandlersRest ==
  ASSUME MediaShape, OneHandler, NEW h \in Handlers, handler[h] # AtRest, Rests(h)
  PROVE  /\ handler' \in [Handlers -> HandlerStates]
         /\ \A g \in Handlers : handler'[g] = AtRest
         /\ OneHandler'
<1>1. AtRest \in HandlerStates
  BY DEF AtRest, HandlerStates
<1>2. \A g \in Handlers \ {h} : handler[g] = AtRest
  BY DEF OneHandler
<1> QED BY <1>1, <1>2 DEF Rests, MediaShape, OneHandler

\* Whoever takes a free lock is the only one to hold it.
LEMMA HandlersStart ==
  ASSUME MediaShape, LockFree, NEW h \in Handlers, NEW state \in HandlerStates, state # AtRest,
         handler' = [handler EXCEPT ![h] = state]
  PROVE  /\ handler' \in [Handlers -> HandlerStates]
         /\ handler'[h] = state
         /\ \A g \in Handlers \ {h} : handler'[g] = AtRest
         /\ OneHandler'
BY DEF LockFree, MediaShape, OneHandler

\* Every update of the row gives a row.
LEMMA EvidenceSaved ==
  ASSUME NEW row \in EvidenceRows
  PROVE  /\ [row EXCEPT !.status = "PROCESSING"] \in EvidenceRows
         /\ \A r \in {"READY", "PENDING_PROVIDER", "HUMAN_REVIEW", "FAILED", "QUARANTINED"} :
              [row EXCEPT !.status = r, !.result = r] \in EvidenceRows
         /\ [row EXCEPT !.digest = TRUE, !.key = TRUE] \in EvidenceRows
         /\ [row EXCEPT !.digest = FALSE, !.key = FALSE] \in EvidenceRows
         /\ \A scan \in {"CLEAN", "INFECTED", "UNAVAILABLE"} :
              [row EXCEPT !.scan = scan] \in EvidenceRows
         /\ [row EXCEPT !.expired = TRUE] \in EvidenceRows
         /\ [row EXCEPT !.status = "DELETED", !.deleted = TRUE, !.result = "none", !.key = TRUE]
              \in EvidenceRows
BY DEF EvidenceRows

\* Nothing is known of the object and nobody works on it.
LEMMA MediaInitEstablishes == MediaInit => MediaInv
<1> SUFFICES ASSUME MediaInit PROVE MediaInv
  OBVIOUS
<1>1. NoEvidence \in EvidenceRows /\ AtRest \in HandlerStates
  BY DEF NoEvidence, EvidenceRows, AtRest, HandlerStates
<1>2. MediaShape
  BY <1>1 DEF MediaInit, MediaShape, Observations
<1>3. OneHandler
  BY DEF MediaInit, OneHandler
<1>4. StagesMatch
  BY DEF MediaInit, StagesMatch, AtRest, Processing, Deleting
<1>5. RowTruthful /\ EvidencePrivate
  BY DEF MediaInit, RowTruthful, EvidencePrivate, DeletedForGood, OnlyCleanShown, Allowed,
         NoEvidence
<1> QED BY <1>2, <1>3, <1>4, <1>5 DEF MediaInv


\* No step leaves the inductive invariant: the lock makes the stages of one process
\* follow each other, and a process that dies leaves a row that the next one can take
\* at its word.
LEMMA MediaStep == MediaInv /\ [MediaNext]_mediaVars => MediaInv'
<1> SUFFICES ASSUME MediaInv, [MediaNext]_mediaVars PROVE MediaInv'
  OBVIOUS
<1>i. MediaShape /\ OneHandler /\ StagesMatch /\ RowTruthful /\ DeletedForGood /\ OnlyCleanShown
  BY DEF MediaInv, EvidencePrivate
<1>e. evidence \in EvidenceRows /\ attached \in [Messages -> Observations] /\ file \in BOOLEAN
  BY <1>i DEF MediaShape
<1>q. MediaShape' /\ OneHandler' /\ StagesMatch' /\ RowTruthful' /\ DeletedForGood' /\ OnlyCleanShown'
        => MediaInv'
  BY DEF MediaInv, EvidencePrivate
<1>1. ASSUME NEW h \in Handlers, NEW m \in Messages, Claim(h, m) PROVE MediaInv'
  <2> DEFINE state == [at |-> "fetching", message |-> {m}]
  <2>1. state \in HandlerStates /\ state # AtRest
    BY DEF HandlerStates, AtRest, Processing, Deleting
  <2>2. /\ handler' \in [Handlers -> HandlerStates]
        /\ handler'[h] = state
        /\ \A g \in Handlers \ {h} : handler'[g] = AtRest
        /\ OneHandler'
    <3>1. LockFree /\ handler' = [handler EXCEPT ![h] = state]
      BY <1>1 DEF Claim, LockFree
    <3> QED BY <1>i, <2>1, <3>1, HandlersStart
  <2>3. MediaShape' /\ OneHandler'
    BY <1>1, <1>e, <1>i, <2>2, EvidenceSaved DEF Claim, MediaShape, Save
  <2>4. StagesMatch'
    BY <1>1, <1>i, <1>e, <2>2
       DEF Claim, Retryable, NoEvidence, Gone, Save, StagesMatch, EvidenceRows, AtRest,
           Processing, Deleting
  <2>5. RowTruthful'
    BY <1>1, <1>i, <1>e
       DEF Claim, Retryable, NoEvidence, Gone, Save, StagesMatch, RowTruthful, EvidenceRows,
           Processing
  <2>6. DeletedForGood'
    BY <1>1, <1>i, <1>e
       DEF Claim, Retryable, NoEvidence, Gone, Save, StagesMatch, DeletedForGood, EvidenceRows,
           Processing, Deleting, Observations
  <2>7. OnlyCleanShown'
    BY <1>1, <1>i, <1>e
       DEF Claim, Retryable, NoEvidence, Gone, Save, StagesMatch, RowTruthful, OnlyCleanShown,
           Allowed, Gone, EvidenceRows, Processing, Deleting, Observations
  <2> QED BY <2>3, <2>4, <2>5, <2>6, <2>7, <1>q
<1>2. ASSUME NEW h \in Handlers, NEW m \in Messages, AdoptInterrupted(h, m) PROVE MediaInv'
  <2> DEFINE state == [at |-> "attaching", message |-> {m}]
  <2>1. state \in HandlerStates /\ state # AtRest
    BY DEF HandlerStates, AtRest, Processing, Deleting
  <2>2. /\ handler' \in [Handlers -> HandlerStates]
        /\ handler'[h] = state
        /\ \A g \in Handlers \ {h} : handler'[g] = AtRest
        /\ OneHandler'
    <3>1. LockFree /\ handler' = [handler EXCEPT ![h] = state]
      BY <1>2 DEF AdoptInterrupted, LockFree
    <3> QED BY <1>i, <2>1, <3>1, HandlersStart
  <2>3. MediaShape' /\ OneHandler'
    BY <1>2, <1>e, <1>i, <2>2, EvidenceSaved DEF AdoptInterrupted, MediaShape, Save
  <2>4. StagesMatch'
    BY <1>2, <1>i, <1>e, <2>2
       DEF AdoptInterrupted, Gone, Save, StagesMatch, EvidenceRows, AtRest, Processing, Deleting
  <2>5. RowTruthful'
    BY <1>2, <1>i, <1>e
       DEF AdoptInterrupted, Gone, Save, StagesMatch, RowTruthful, EvidenceRows, Processing
  <2>6. DeletedForGood'
    BY <1>2, <1>i, <1>e
       DEF AdoptInterrupted, Gone, Save, StagesMatch, DeletedForGood, EvidenceRows, Processing,
           Deleting, Observations
  <2>7. OnlyCleanShown'
    BY <1>2, <1>i, <1>e
       DEF AdoptInterrupted, Gone, Save, StagesMatch, RowTruthful, OnlyCleanShown, Allowed, Gone,
           EvidenceRows, Processing, Deleting, Observations
  <2> QED BY <2>3, <2>4, <2>5, <2>6, <2>7, <1>q
<1>3. ASSUME NEW m \in Messages, AttachDeleted(m) PROVE MediaInv'
  <2>3. MediaShape' /\ OneHandler'
    BY <1>3, <1>e, <1>i
       DEF AttachDeleted, Attach, MediaShape, OneHandler, Observations, EvidenceRows, Gone
  <2>4. StagesMatch'
    BY <1>3, <1>i, <1>e
       DEF AttachDeleted, Attach, StagesMatch, EvidenceRows, AtRest, Processing, Deleting
  <2>5. RowTruthful'
    BY <1>3, <1>i, <1>e
       DEF AttachDeleted, Attach, StagesMatch, RowTruthful, EvidenceRows, Processing
  <2>6. DeletedForGood'
    BY <1>3, <1>i, <1>e
       DEF AttachDeleted, Attach, StagesMatch, DeletedForGood, EvidenceRows, Processing, Deleting,
           Observations
  <2>7. OnlyCleanShown'
    BY <1>3, <1>i, <1>e
       DEF AttachDeleted, Attach, StagesMatch, RowTruthful, OnlyCleanShown, Allowed, Gone,
           EvidenceRows, Processing, Deleting, Observations
  <2> QED BY <2>3, <2>4, <2>5, <2>6, <2>7, <1>q
<1>4. ASSUME NEW m \in Messages, AttachStored(m) PROVE MediaInv'
  <2>3. MediaShape' /\ OneHandler'
    BY <1>4, <1>e, <1>i
       DEF AttachStored, Attach, MediaShape, OneHandler, Observations, EvidenceRows, Gone
  <2>4. StagesMatch'
    <3>1. \A g \in Handlers : handler'[g].at = "idle"
      BY <1>4 DEF AttachStored, LockFree, AtRest
    <3> QED BY <3>1 DEF StagesMatch, Processing, Deleting
  <2>5. RowTruthful'
    BY <1>4, <1>i, <1>e DEF AttachStored, Attach, StagesMatch, RowTruthful, EvidenceRows, Processing
  <2>6. DeletedForGood'
    BY <1>4 DEF AttachStored, Gone, DeletedForGood
  <2>7. OnlyCleanShown'
    BY <1>4, <1>i, <1>e
       DEF AttachStored, Attach, StagesMatch, RowTruthful, OnlyCleanShown, Allowed, Gone,
           EvidenceRows, Processing, Deleting, Observations
  <2> QED BY <2>3, <2>4, <2>5, <2>6, <2>7, <1>q
<1>5. ASSUME NEW h \in Handlers, Fetch(h) PROVE MediaInv'
  <2>1. handler[h] # AtRest
    BY <1>5 DEF Fetch, Stage, AtRest
  <2>2. /\ handler' \in [Handlers -> HandlerStates]
        /\ \A g \in Handlers \ {h} : handler'[g] = AtRest
        /\ OneHandler'
    BY <1>5, <1>i, <2>1, HandlersEnter DEF Fetch, Failing, Processing, Deleting
  <2>s. \/ handler'[h].at = "scanning" /\ evidence' = evidence /\ evidence.digest /\ file
             /\ file' = file
        \/ handler'[h].at = "storing" /\ evidence' = evidence /\ file'
        \/ handler'[h].at = "attaching"
             /\ evidence' = [evidence EXCEPT !.status = "FAILED", !.result = "FAILED"]
                  /\ file' = file
    BY <1>5, <1>i, <2>1, HandlersEnter DEF Fetch, Failing, Save, Processing, Deleting
  <2>3. MediaShape' /\ OneHandler'
    BY <1>5, <1>e, <1>i, <2>2, <2>s, EvidenceSaved DEF Fetch, Failing, Save, MediaShape
  <2>4. StagesMatch'
    <3>1. \A g \in Handlers \ {h} : handler'[g].at = "idle"
      BY <2>2 DEF AtRest
    <3>2. ~evidence.deleted /\ ~evidence'.deleted
      BY <1>5, <1>i, <1>e, <2>s DEF Fetch, Stage, StagesMatch, Processing, EvidenceRows
    <3>3. /\ handler'[h].at \in {"scanning", "storing", "attaching"}
          /\ handler'[h].at = "storing" => file'
      BY <2>s
    <3> QED BY <3>1, <3>2, <3>3 DEF StagesMatch, Processing, Deleting
  <2>5. RowTruthful'
    BY <1>5, <1>i, <1>e
       DEF Fetch, Failing, Save, Stage, StagesMatch, RowTruthful, EvidenceRows, Processing
  <2>6. DeletedForGood'
    BY <1>5, <1>i, <1>e
       DEF Fetch, Failing, Save, Stage, StagesMatch, DeletedForGood, EvidenceRows, Processing,
           Deleting, Observations
  <2>7. OnlyCleanShown'
    BY <1>5, <1>i, <1>e
       DEF Fetch, Failing, Save, Stage, StagesMatch, RowTruthful, OnlyCleanShown, Allowed, Gone,
           EvidenceRows, Processing, Deleting, Observations
  <2> QED BY <2>3, <2>4, <2>5, <2>6, <2>7, <1>q
<1>6. ASSUME NEW h \in Handlers, PersistOriginal(h) PROVE MediaInv'
  <2>1. handler[h] # AtRest
    BY <1>6 DEF PersistOriginal, Stage, AtRest
  <2>2. /\ handler' \in [Handlers -> HandlerStates]
        /\ handler'[h].at = "scanning"
        /\ \A g \in Handlers \ {h} : handler'[g] = AtRest
        /\ OneHandler'
    BY <1>6, <1>i, <2>1, HandlersEnter DEF PersistOriginal, Processing, Deleting
  <2>3. MediaShape' /\ OneHandler'
    BY <1>6, <1>e, <1>i, <2>2, EvidenceSaved DEF PersistOriginal, Save, MediaShape
  <2>4. StagesMatch'
    BY <1>6, <1>i, <1>e, <2>2
       DEF PersistOriginal, Save, Stage, StagesMatch, EvidenceRows, AtRest, Processing, Deleting
  <2>5. RowTruthful'
    BY <1>6, <1>i, <1>e
       DEF PersistOriginal, Save, Stage, StagesMatch, RowTruthful, EvidenceRows, Processing
  <2>6. DeletedForGood'
    BY <1>6, <1>i, <1>e
       DEF PersistOriginal, Save, Stage, StagesMatch, DeletedForGood, EvidenceRows, Processing,
           Deleting, Observations
  <2>7. OnlyCleanShown'
    BY <1>6, <1>i, <1>e
       DEF PersistOriginal, Save, Stage, StagesMatch, RowTruthful, OnlyCleanShown, Allowed, Gone,
           EvidenceRows, Processing, Deleting, Observations
  <2> QED BY <2>3, <2>4, <2>5, <2>6, <2>7, <1>q
<1>7. ASSUME NEW h \in Handlers, Scan(h) PROVE MediaInv'
  <2>1. handler[h] # AtRest
    BY <1>7 DEF Scan, Stage, AtRest
  <2>2. /\ handler' \in [Handlers -> HandlerStates]
        /\ \A g \in Handlers \ {h} : handler'[g] = AtRest
        /\ OneHandler'
    BY <1>7, <1>i, <2>1, HandlersEnter DEF Scan, Failing, Processing, Deleting
  <2>s. \/ handler'[h].at = "normalizing"
             /\ \E scan \in {payload, "UNAVAILABLE"} : evidence' = [evidence EXCEPT !.scan = scan]
        \/ handler'[h].at = "attaching"
             /\ evidence' = [evidence EXCEPT !.status = "FAILED", !.result = "FAILED"]
    BY <1>7, <1>i, <2>1, HandlersEnter DEF Scan, Failing, Save, Processing, Deleting
  <2>3. MediaShape' /\ OneHandler'
    BY <1>7, <1>e, <1>i, <2>2, <2>s, EvidenceSaved DEF Scan, Failing, Save, MediaShape
  <2>4. StagesMatch'
    <3>1. \A g \in Handlers \ {h} : handler'[g].at = "idle"
      BY <2>2 DEF AtRest
    <3>2. ~evidence.deleted
      BY <1>7, <1>i DEF Scan, Stage, StagesMatch, Processing
    <3>3. ~evidence'.deleted
      BY <1>e, <2>s, <3>2 DEF EvidenceRows
    <3>4. handler'[h].at \in {"normalizing", "attaching"}
      BY <2>s
    <3> QED BY <3>1, <3>3, <3>4 DEF StagesMatch, Processing, Deleting
  <2>5. RowTruthful'
    BY <1>7, <1>i, <1>e
       DEF Scan, Failing, Save, Stage, StagesMatch, RowTruthful, EvidenceRows, Processing
  <2>6. DeletedForGood'
    BY <1>7, <1>i, <1>e
       DEF Scan, Failing, Save, Stage, StagesMatch, DeletedForGood, EvidenceRows, Processing,
           Deleting, Observations
  <2>7. OnlyCleanShown'
    <3>1. CASE \E scan \in {payload, "UNAVAILABLE"} : evidence' = [evidence EXCEPT !.scan = scan]
      <4>1. PICK scan \in {payload, "UNAVAILABLE"} : evidence' = [evidence EXCEPT !.scan = scan]
        BY <3>1
      <4>2. /\ evidence'.scan = scan /\ evidence'.digest = evidence.digest
            /\ evidence'.deleted = evidence.deleted
        BY <1>e, <4>1 DEF EvidenceRows
      <4> QED BY <1>7, <1>i, <4>2
          DEF Scan, Stage, StagesMatch, RowTruthful, OnlyCleanShown, Allowed, Gone, Processing
    <3>2. CASE evidence' = [evidence EXCEPT !.status = "FAILED", !.result = "FAILED"]
      BY <1>7, <1>i, <1>e, <3>2 DEF Scan, OnlyCleanShown, Allowed, EvidenceRows
    <3> QED BY <2>s, <3>1, <3>2
  <2> QED BY <2>3, <2>4, <2>5, <2>6, <2>7, <1>q
<1>8. ASSUME NEW h \in Handlers, Normalize(h) PROVE MediaInv'
  <2>1. handler[h] # AtRest
    BY <1>8 DEF Normalize, Stage, AtRest
  <2>2. /\ handler' \in [Handlers -> HandlerStates]
        /\ handler'[h].at = "attaching"
        /\ \A g \in Handlers \ {h} : handler'[g] = AtRest
        /\ OneHandler'
    BY <1>8, <1>i, <2>1, HandlersEnter DEF Normalize, Processing, Deleting
  <2>3. MediaShape' /\ OneHandler'
    BY <1>8, <1>e, <1>i, <2>2, EvidenceSaved DEF Normalize, Results, Save, MediaShape
  <2>4. StagesMatch'
    BY <1>8, <1>i, <1>e, <2>2
       DEF Normalize, Results, Save, Stage, StagesMatch, EvidenceRows, AtRest, Processing, Deleting
  <2>5. RowTruthful'
    BY <1>8, <1>i, <1>e
       DEF Normalize, Results, Save, Stage, StagesMatch, RowTruthful, EvidenceRows, Processing
  <2>6. DeletedForGood'
    BY <1>8, <1>i, <1>e
       DEF Normalize, Results, Save, Stage, StagesMatch, DeletedForGood, EvidenceRows, Processing,
           Deleting, Observations
  <2>7. OnlyCleanShown'
    BY <1>8, <1>i, <1>e
       DEF Normalize, Results, Save, Stage, StagesMatch, RowTruthful, OnlyCleanShown, Allowed,
           Gone, EvidenceRows, Processing, Deleting, Observations
  <2> QED BY <2>3, <2>4, <2>5, <2>6, <2>7, <1>q
<1>9. ASSUME NEW h \in Handlers, AttachResult(h) PROVE MediaInv'
  <2>1. handler[h] # AtRest
    BY <1>9 DEF AttachResult, Stage, AtRest
  <2>2. /\ handler' \in [Handlers -> HandlerStates]
        /\ \A g \in Handlers : handler'[g] = AtRest
        /\ OneHandler'
    BY <1>9, <1>i, <2>1, HandlersRest DEF AttachResult
  <2>3. MediaShape' /\ OneHandler'
    <3>1. evidence.result \in Observations
      BY <1>e DEF EvidenceRows, Observations
    <3>2. attached' \in [Messages -> Observations]
      BY <1>9, <1>e, <3>1 DEF AttachResult, Attach
    <3> QED BY <1>9, <1>i, <2>2, <3>2 DEF AttachResult, MediaShape
  <2>4. StagesMatch'
    BY <1>9, <1>i, <1>e, <2>2
       DEF AttachResult, Attach, Save, Stage, StagesMatch, EvidenceRows, AtRest, Processing,
           Deleting
  <2>5. RowTruthful'
    BY <1>9, <1>i, <1>e
       DEF AttachResult, Attach, Save, Stage, StagesMatch, RowTruthful, EvidenceRows, Processing
  <2>6. DeletedForGood'
    BY <1>9, <1>i, <1>e
       DEF AttachResult, Attach, Save, Stage, StagesMatch, DeletedForGood, EvidenceRows,
           Processing, Deleting, Observations
  <2>7. OnlyCleanShown'
    BY <1>9, <1>i, <1>e
       DEF AttachResult, Attach, Save, Stage, StagesMatch, RowTruthful, OnlyCleanShown, Allowed,
           Gone, EvidenceRows, Processing, Deleting, Observations
  <2> QED BY <2>3, <2>4, <2>5, <2>6, <2>7, <1>q
<1>10. ASSUME NEW h \in Handlers, RevokeAccess(h) PROVE MediaInv'
  <2> DEFINE state == [AtRest EXCEPT !.at = "blanking"]
  <2>1. state \in HandlerStates /\ state # AtRest
    BY DEF HandlerStates, AtRest, Processing, Deleting
  <2>2. /\ handler' \in [Handlers -> HandlerStates]
        /\ handler'[h] = state
        /\ \A g \in Handlers \ {h} : handler'[g] = AtRest
        /\ OneHandler'
    <3>1. LockFree /\ handler' = [handler EXCEPT ![h] = state]
      BY <1>10 DEF RevokeAccess, LockFree
    <3> QED BY <1>i, <2>1, <3>1, HandlersStart
  <2>3. MediaShape' /\ OneHandler'
    BY <1>10, <1>e, <1>i, <2>2, EvidenceSaved DEF RevokeAccess, MediaShape, Save
  <2>4. StagesMatch'
    BY <1>10, <1>i, <1>e, <2>2
       DEF RevokeAccess, Save, StagesMatch, EvidenceRows, AtRest, Processing, Deleting
  <2>5. RowTruthful'
    BY <1>10, <1>i, <1>e DEF RevokeAccess, Save, StagesMatch, RowTruthful, EvidenceRows, Processing
  <2>6. DeletedForGood'
    BY <1>10, <1>i, <1>e
       DEF RevokeAccess, Save, StagesMatch, DeletedForGood, EvidenceRows, Processing, Deleting,
           Observations
  <2>7. OnlyCleanShown'
    BY <1>10, <1>i, <1>e
       DEF RevokeAccess, Save, StagesMatch, RowTruthful, OnlyCleanShown, Allowed, Gone,
           EvidenceRows, Processing, Deleting, Observations
  <2> QED BY <2>3, <2>4, <2>5, <2>6, <2>7, <1>q
<1>11. ASSUME NEW h \in Handlers, BlankObservations(h) PROVE MediaInv'
  <2>1. handler[h] # AtRest
    BY <1>11 DEF BlankObservations, Stage, AtRest
  <2>2. /\ handler' \in [Handlers -> HandlerStates]
        /\ handler'[h].at = "unlinking"
        /\ \A g \in Handlers \ {h} : handler'[g] = AtRest
        /\ OneHandler'
    BY <1>11, <1>i, <2>1, HandlersEnter DEF BlankObservations, Processing, Deleting
  <2>3. MediaShape' /\ OneHandler'
    BY <1>11, <1>e, <1>i, <2>2, EvidenceSaved DEF BlankObservations, Save, MediaShape, Observations
  <2>4. StagesMatch'
    BY <1>11, <1>i, <1>e, <2>2
       DEF BlankObservations, Save, Stage, StagesMatch, EvidenceRows, AtRest, Processing, Deleting
  <2>5. RowTruthful'
    BY <1>11, <1>i, <1>e
       DEF BlankObservations, Save, Stage, StagesMatch, RowTruthful, EvidenceRows, Processing
  <2>6. DeletedForGood'
    BY <1>11, <1>i, <1>e
       DEF BlankObservations, Save, Stage, StagesMatch, DeletedForGood, EvidenceRows, Processing,
           Deleting, Observations
  <2>7. OnlyCleanShown'
    BY <1>11, <1>i, <1>e
       DEF BlankObservations, Save, Stage, StagesMatch, RowTruthful, OnlyCleanShown, Allowed,
           Gone, EvidenceRows, Processing, Deleting, Observations
  <2> QED BY <2>3, <2>4, <2>5, <2>6, <2>7, <1>q
<1>12. ASSUME NEW h \in Handlers, Unlink(h) PROVE MediaInv'
  <2>1. handler[h] # AtRest
    BY <1>12 DEF Unlink, Stage, AtRest
  <2>2. CASE Enters(h, "clearing") /\ file' = FALSE
    <3>1. /\ handler' \in [Handlers -> HandlerStates]
          /\ handler'[h].at = "clearing"
          /\ \A g \in Handlers \ {h} : handler'[g] = AtRest
          /\ OneHandler'
      BY <2>2, <1>i, <2>1, HandlersEnter DEF Deleting
    <3>3. MediaShape'
      BY <1>12, <1>i, <2>2, <3>1 DEF Unlink, MediaShape
    <3>4. StagesMatch'
      BY <1>12, <1>i, <2>2, <3>1 DEF Unlink, Stage, StagesMatch, AtRest, Processing, Deleting
    <3> QED BY <1>12, <1>i, <2>2, <3>1, <3>3, <3>4, <1>q
        DEF Unlink, Stage, StagesMatch, RowTruthful, DeletedForGood, OnlyCleanShown, Allowed, Gone,
            Deleting
  <2>3. CASE Rests(h) /\ UNCHANGED file
    <3>1. /\ handler' \in [Handlers -> HandlerStates]
          /\ \A g \in Handlers : handler'[g] = AtRest
          /\ OneHandler'
      BY <2>3, <1>i, <2>1, HandlersRest
    <3>3. MediaShape' /\ StagesMatch'
      BY <1>12, <1>i, <2>3, <3>1 DEF Unlink, MediaShape, StagesMatch, AtRest, Processing, Deleting
    <3> QED BY <1>12, <1>i, <2>3, <3>1, <3>3, <1>q
        DEF Unlink, RowTruthful, DeletedForGood, OnlyCleanShown, Allowed, Gone
  <2> QED BY <1>12, <2>2, <2>3 DEF Unlink
<1>13. ASSUME NEW h \in Handlers, ClearEvidence(h) PROVE MediaInv'
  <2>1. handler[h] # AtRest
    BY <1>13 DEF ClearEvidence, Stage, AtRest
  <2>2. /\ handler' \in [Handlers -> HandlerStates]
        /\ \A g \in Handlers : handler'[g] = AtRest
        /\ OneHandler'
    BY <1>13, <1>i, <2>1, HandlersRest DEF ClearEvidence
  <2>3. MediaShape' /\ OneHandler'
    BY <1>13, <1>e, <1>i, <2>2, EvidenceSaved DEF ClearEvidence, Save, MediaShape
  <2>4. StagesMatch'
    BY <1>13, <1>i, <1>e, <2>2
       DEF ClearEvidence, Save, Stage, StagesMatch, EvidenceRows, AtRest, Processing, Deleting
  <2>5. RowTruthful'
    BY <1>13, <1>i, <1>e
       DEF ClearEvidence, Save, Stage, StagesMatch, RowTruthful, EvidenceRows, Processing
  <2>6. DeletedForGood'
    BY <1>13, <1>i, <1>e
       DEF ClearEvidence, Save, Stage, StagesMatch, DeletedForGood, EvidenceRows, Processing,
           Deleting, Observations
  <2>7. OnlyCleanShown'
    BY <1>13, <1>i, <1>e
       DEF ClearEvidence, Save, Stage, StagesMatch, RowTruthful, OnlyCleanShown, Allowed, Gone,
           EvidenceRows, Processing, Deleting, Observations
  <2> QED BY <2>3, <2>4, <2>5, <2>6, <2>7, <1>q
<1>14. ASSUME NEW h \in Handlers, HandlerDies(h) PROVE MediaInv'
  <2>1. handler[h] # AtRest
    BY <1>14 DEF HandlerDies, Stage, AtRest
  <2>2. /\ handler' \in [Handlers -> HandlerStates]
        /\ \A g \in Handlers : handler'[g] = AtRest
        /\ OneHandler'
    BY <1>14, <1>i, <2>1, HandlersRest DEF HandlerDies
  <2>3. MediaShape' /\ OneHandler'
    BY <1>14, <1>e, <1>i, <2>2, EvidenceSaved DEF HandlerDies, Save, MediaShape
  <2>4. StagesMatch'
    BY <1>14, <1>i, <1>e, <2>2
       DEF HandlerDies, Save, Stage, StagesMatch, EvidenceRows, AtRest, Processing, Deleting
  <2>5. RowTruthful'
    BY <1>14, <1>i, <1>e
       DEF HandlerDies, Save, Stage, StagesMatch, RowTruthful, EvidenceRows, Processing
  <2>6. DeletedForGood'
    BY <1>14, <1>i, <1>e
       DEF HandlerDies, Save, Stage, StagesMatch, DeletedForGood, EvidenceRows, Processing,
           Deleting, Observations
  <2>7. OnlyCleanShown'
    BY <1>14, <1>i, <1>e
       DEF HandlerDies, Save, Stage, StagesMatch, RowTruthful, OnlyCleanShown, Allowed, Gone,
           EvidenceRows, Processing, Deleting, Observations
  <2> QED BY <2>3, <2>4, <2>5, <2>6, <2>7, <1>q
<1>15. CASE EvidenceExpires
  <2>3. MediaShape' /\ OneHandler'
    BY <1>15, <1>e, <1>i, EvidenceSaved DEF EvidenceExpires, MediaShape, OneHandler
  <2>4. StagesMatch'
    BY <1>15, <1>i, <1>e
       DEF EvidenceExpires, StagesMatch, EvidenceRows, AtRest, Processing, Deleting
  <2>5. RowTruthful'
    BY <1>15, <1>i, <1>e DEF EvidenceExpires, StagesMatch, RowTruthful, EvidenceRows, Processing
  <2>6. DeletedForGood'
    BY <1>15, <1>i, <1>e
       DEF EvidenceExpires, StagesMatch, DeletedForGood, EvidenceRows, Processing, Deleting,
           Observations
  <2>7. OnlyCleanShown'
    BY <1>15, <1>i, <1>e
       DEF EvidenceExpires, StagesMatch, RowTruthful, OnlyCleanShown, Allowed, Gone, EvidenceRows,
           Processing, Deleting, Observations
  <2> QED BY <2>3, <2>4, <2>5, <2>6, <2>7, <1>q
<1>16. CASE UNCHANGED mediaVars
  BY <1>16, <1>i, <1>q
     DEF mediaVars, MediaShape, OneHandler, StagesMatch, RowTruthful, DeletedForGood,
         OnlyCleanShown, Allowed, Gone
<1> QED
  BY <1>1, <1>2, <1>3, <1>4, <1>5, <1>6, <1>7, <1>8, <1>9, <1>10, <1>11, <1>12, <1>13, <1>14,
     <1>15, <1>16
  DEF MediaNext

\* Every reachable state of a media object, for any messages and processes, satisfies
\* the inductive invariant.
THEOREM MediaInvariant == MediaSpec => []MediaInv
BY MediaInitEstablishes, MediaStep, PTL DEF MediaSpec

\* MediaEvidenceService: also when a process died between any two commits, what is
\* shown is clean and on the volume, and a completed deletion leaves neither the file
\* nor an observation with content.
THEOREM EvidencePrivateHolds == MediaSpec => []EvidencePrivate
BY MediaInvariant, PTL DEF MediaInv

--------------------------------------------------------------------------------
\* WhatsApp numbers: AccountsSpec => []NumberTruthful.

\* A request of complete, after it has consumed its signup state.
Completing == {"exchanging", "authorized"}
\* A disconnection, after it has committed the inactive row.
Disconnecting == {"loading", "deleting", "revoking", "clearing"}

\* A row of public.whatsapp_signup_states.
SignupRows ==
  [state: {"none", "open", "consumed"}, client: SUBSET Clients, by: SUBSET Staff]

\* The row of public.whatsapp_accounts: what its columns can hold.
AccountRows ==
  [status: {"none", "active", "inactive"}, client: SUBSET Clients, token: {0} \cup Signups,
   verified: {0} \cup Signups, health: {"UNKNOWN", "HEALTHY", "ERROR", "REAUTH_REQUIRED"},
   error: {"none", "health", "meta_revoke_pending"}]

\* What an administrator's request remembers; an inspection that is over has a
\* verdict.
Errands ==
  {e \in [at: {"idle", "inspected"} \cup Completing \cup Disconnecting, signup: {0} \cup Signups,
          token: {0} \cup Signups, verified: {0} \cup Signups,
          verdict: {"none", "HEALTHY", "ERROR", "REAUTH_REQUIRED"},
          loaded: BOOLEAN, deleted: BOOLEAN] :
     e.at = "inspected" => e.verdict # "none"}

\* The types.
AccountsShape ==
  /\ signup \in [Signups -> SignupRows]
  /\ account \in AccountRows
  /\ tokens \subseteq Signups
  /\ honoured \subseteq Signups
  /\ errand \in [Staff -> Errands]

\* A signup whose state was consumed: its token exists, or existed, and no other
\* request will bring it.
Consumed(s) == s \in Signups /\ signup[s].state = "consumed"

\* Only an active row refers to a token; the verified signup and the tokens of the
\* vault are of consumed states.
RowBacked ==
  /\ account.status # "active" => account.token = 0
  /\ account.verified # 0 => Consumed(account.verified)
  /\ \A s \in tokens : Consumed(s)

\* A signup in flight has a token that neither the row, nor the vault, nor any other
\* request has seen: its state can be consumed only once.
SignupsFresh ==
  \A a \in Staff : errand[a].at \in Completing =>
    /\ Consumed(errand[a].signup)
    /\ errand[a].signup # account.verified
    /\ errand[a].signup \notin tokens
    /\ \A b \in Staff :
         /\ b # a /\ errand[b].at \in Completing => errand[b].signup # errand[a].signup
         /\ errand[b].at \in Disconnecting => errand[b].token # errand[a].signup

\* A disconnection works on a token that the row has given up for good; what it found
\* deleted is not in the vault, and what Meta confirmed is not honoured.
DisconnectionsStale ==
  \A a \in Staff : errand[a].at \in Disconnecting =>
    /\ Consumed(errand[a].token)
    /\ errand[a].token = errand[a].verified
    /\ errand[a].token # account.token
    /\ errand[a].deleted => errand[a].token \notin tokens
    /\ errand[a].at = "clearing" => errand[a].deleted /\ errand[a].token \notin honoured

\* The inductive invariant of a WhatsApp number.
AccountsInv ==
  AccountsShape /\ RowBacked /\ SignupsFresh /\ DisconnectionsStale /\ NumberTruthful

\* A step of one administrator changes what that administrator is at.
LEMMA ErrandMoves ==
  ASSUME AccountsShape, NEW a \in Staff, NEW e \in Errands,
         errand' = [errand EXCEPT ![a] = e]
  PROVE  /\ errand' \in [Staff -> Errands]
         /\ errand'[a] = e
         /\ \A b \in Staff \ {a} : errand'[b] = errand[b]
BY DEF AccountsShape

\* Proceeding to a step keeps what the request has read.
LEMMA ErrandsTyped ==
  /\ NoErrand \in Errands
  /\ NoErrand.at = "idle"
  /\ \A e \in Errands, step \in Completing \cup Disconnecting :
       /\ [e EXCEPT !.at = step] \in Errands
       /\ [e EXCEPT !.at = step].at = step
       /\ [e EXCEPT !.at = step].signup = e.signup
       /\ [e EXCEPT !.at = step].token = e.token
       /\ [e EXCEPT !.at = step].verified = e.verified
       /\ [e EXCEPT !.at = step].deleted = e.deleted
BY DEF Errands, NoErrand, Completing, Disconnecting

\* The rows an update starts from are rows.
LEMMA RowsOfNumber ==
  /\ NoSignup \in SignupRows
  /\ NoAccount \in AccountRows
  /\ \A a \in Staff, c \in Clients :
       [state |-> "open", client |-> {c}, by |-> {a}] \in SignupRows
  /\ \A row \in SignupRows : [row EXCEPT !.state = "consumed"] \in SignupRows
BY DEF SignupRows, AccountRows, NoSignup, NoAccount

\* The number has no account and nobody is at anything.
LEMMA AccountsInitEstablishes == AccountsInit => AccountsInv
<1> SUFFICES ASSUME AccountsInit PROVE AccountsInv
  OBVIOUS
<1>1. AccountsShape
  BY ErrandsTyped, RowsOfNumber DEF AccountsInit, AccountsShape
<1>2. RowBacked
  BY DEF AccountsInit, RowBacked, NoAccount
<1>3. SignupsFresh /\ DisconnectionsStale
  BY ErrandsTyped DEF AccountsInit, SignupsFresh, DisconnectionsStale, Completing, Disconnecting
<1>4. NumberTruthful
  BY DEF AccountsInit, NumberTruthful, TokenCurrent, DisconnectionTold, NoAccount
<1> QED BY <1>1, <1>2, <1>3, <1>4 DEF AccountsInv

\* No step leaves the inductive invariant: what a request read before it asked Meta
\* may be out of date, but a stale request refers to a token that never comes back.
LEMMA AccountsStep == AccountsInv /\ [AccountsNext]_accountVars => AccountsInv'
<1> SUFFICES ASSUME AccountsInv, [AccountsNext]_accountVars PROVE AccountsInv'
  OBVIOUS
<1>i. /\ AccountsShape /\ RowBacked /\ SignupsFresh /\ DisconnectionsStale
      /\ TokenCurrent /\ DisconnectionTold
  BY DEF AccountsInv, NumberTruthful
<1>q. (/\ AccountsShape' /\ RowBacked' /\ SignupsFresh' /\ DisconnectionsStale'
       /\ TokenCurrent' /\ DisconnectionTold')
        => AccountsInv'
  BY DEF AccountsInv, NumberTruthful
<1>e. /\ \A a \in Staff : errand[a] \in Errands
      /\ errand \in [Staff -> Errands]
      /\ account \in AccountRows
      /\ signup \in [Signups -> SignupRows]
  BY <1>i DEF AccountsShape
<1>1. ASSUME NEW a \in Staff, NEW c \in Clients, StartSignup(a, c) PROVE AccountsInv'
  <2>1. PICK s \in Signups :
          /\ signup[s] = NoSignup
          /\ signup' = [signup EXCEPT ![s] = [state |-> "open", client |-> {c}, by |-> {a}]]
    BY <1>1 DEF StartSignup
  <2>2. /\ signup' \in [Signups -> SignupRows]
        /\ \A t \in Signups : Consumed(t) => signup'[t] = signup[t]
    BY <1>e, <2>1, RowsOfNumber DEF Consumed, NoSignup
  <2>3. AccountsShape'
    BY <1>1, <1>i, <2>2 DEF StartSignup, AccountsShape
  <2>4. RowBacked'
    BY <1>1, <1>i, <1>e, <2>2 DEF StartSignup, RowBacked, Consumed
  <2>5. SignupsFresh'
    BY <1>1, <1>i, <1>e, <2>2
       DEF StartSignup, RowBacked, SignupsFresh, DisconnectionsStale, Consumed, Completing,
           Disconnecting
  <2>6. DisconnectionsStale'
    BY <1>1, <1>i, <1>e, <2>2
       DEF StartSignup, RowBacked, SignupsFresh, DisconnectionsStale, Consumed, Completing,
           Disconnecting
  <2>7. TokenCurrent'
    BY <1>1, <1>i, <1>e, <2>2
       DEF StartSignup, RowBacked, TokenCurrent, Consumed, SignupsFresh, DisconnectionsStale,
           Completing, Disconnecting
  <2>8. DisconnectionTold'
    BY <1>1, <1>i, <1>e, <2>2
       DEF StartSignup, RowBacked, SignupsFresh, DisconnectionsStale, DisconnectionTold, Consumed,
           Completing, Disconnecting
  <2> QED BY <2>3, <2>4, <2>5, <2>6, <2>7, <2>8, <1>q
<1>2. ASSUME NEW a \in Staff, NEW s \in Signups, ConsumeSignup(a, s) PROVE AccountsInv'
  <2> DEFINE e == [NoErrand EXCEPT !.at = "exchanging", !.signup = s]
  <2>1. e \in Errands /\ e.at = "exchanging" /\ e.signup = s
    BY DEF NoErrand, Errands, Completing
  <2>2. /\ errand' \in [Staff -> Errands]
        /\ errand'[a].at = "exchanging" /\ errand'[a].signup = s
        /\ \A b \in Staff \ {a} : errand'[b] = errand[b]
    BY <1>2, <1>i, <2>1, ErrandMoves DEF ConsumeSignup
  <2>9. /\ signup' \in [Signups -> SignupRows]
        /\ signup[s].state = "open" /\ signup'[s].state = "consumed"
        /\ \A t \in Signups \ {s} : signup'[t] = signup[t]
    BY <1>2, <1>e, RowsOfNumber DEF ConsumeSignup, SignupRows
  <2>3. AccountsShape'
    BY <1>2, <1>i, <2>2, <2>9 DEF ConsumeSignup, AccountsShape
  <2>a. account' = account /\ tokens' = tokens /\ honoured' = honoured
    BY <1>2 DEF ConsumeSignup
  <2>4. RowBacked'
    BY <1>i, <1>e, <2>2, <2>9, <2>a DEF RowBacked, Consumed
  <2>5. SignupsFresh'
    <3>1. /\ s # account.verified /\ s \notin tokens
          /\ \A b \in Staff : /\ errand[b].at \in Completing => errand[b].signup # s
                              /\ errand[b].at \in Disconnecting => errand[b].token # s
      <4>1. ~Consumed(s)
        BY <2>9 DEF Consumed
      <4>2. s # 0
        BY DEF Signups
      <4> QED BY <1>i, <4>1, <4>2 DEF RowBacked, SignupsFresh, DisconnectionsStale
    <3>2. \A t : Consumed(t) => Consumed(t)'
      BY <2>9 DEF Consumed
    <3>3. Consumed(s)'
      BY <2>9 DEF Consumed
    <3>4. errand'[a].at \notin Disconnecting
      BY <2>2 DEF Disconnecting
    <3> SUFFICES ASSUME NEW c \in Staff, errand'[c].at \in Completing
                 PROVE  /\ Consumed(errand[c].signup)'
                        /\ errand'[c].signup # account.verified
                        /\ errand'[c].signup \notin tokens
                        /\ \A b \in Staff :
                             /\ b # c /\ errand'[b].at \in Completing =>
                                  errand'[b].signup # errand'[c].signup
                             /\ errand'[b].at \in Disconnecting =>
                                  errand'[b].token # errand'[c].signup
      BY <2>a DEF SignupsFresh
    <3>5. CASE c = a
      <4>1. errand'[c].signup = s /\ Consumed(s)'
        BY <2>2, <3>3, <3>5
      <4>2. Consumed(errand[c].signup)'
        BY <4>1 DEF Consumed
      <4>3. ASSUME NEW b \in Staff, b # c, errand'[b].at \in Completing
            PROVE  errand'[b].signup # s
        <5>1. errand'[b] = errand[b]
          BY <2>2, <3>5, <4>3
        <5> QED BY <3>1, <4>3, <5>1
      <4>4. ASSUME NEW b \in Staff, errand'[b].at \in Disconnecting
            PROVE  errand'[b].token # s
        <5>1. errand'[b] = errand[b]
          BY <2>2, <3>4, <4>4
        <5> QED BY <3>1, <4>4, <5>1
      <4> QED BY <3>1, <4>1, <4>2, <4>3, <4>4
    <3>6. CASE c # a
      <4>1. errand'[c] = errand[c]
        BY <2>2, <3>6
      <4>2. Consumed(errand[c].signup)'
        BY <1>i, <3>2, <4>1 DEF SignupsFresh
      <4>3. /\ errand[c].at \in Completing
            /\ errand[c].signup # account.verified /\ errand[c].signup \notin tokens
            /\ errand[c].signup # s
        <5>1. errand[c].at \in Completing
          BY <4>1
        <5>2. errand[c].signup # s
          BY <3>1, <5>1
        <5> QED BY <1>i, <5>1, <5>2 DEF SignupsFresh
      <4>4. ASSUME NEW b \in Staff, b # c, errand'[b].at \in Completing
            PROVE  errand'[b].signup # errand'[c].signup
        BY <1>i, <2>2, <4>1, <4>3, <4>4 DEF SignupsFresh
      <4>5. ASSUME NEW b \in Staff, errand'[b].at \in Disconnecting
            PROVE  errand'[b].token # errand'[c].signup
        BY <1>i, <2>2, <3>4, <4>1, <4>3, <4>5 DEF SignupsFresh
      <4> QED BY <4>1, <4>2, <4>3, <4>4, <4>5
    <3> QED BY <3>5, <3>6
  <2>6. DisconnectionsStale'
    BY <1>i, <1>e, <2>2, <2>9, <2>a
       DEF RowBacked, SignupsFresh, DisconnectionsStale, Consumed, Completing, Disconnecting
  <2>7. TokenCurrent'
    BY <1>i, <1>e, <2>2, <2>9, <2>a
       DEF RowBacked, TokenCurrent, Consumed, SignupsFresh, DisconnectionsStale, Completing,
           Disconnecting
  <2>8. DisconnectionTold'
    BY <1>i, <1>e, <2>2, <2>9, <2>a
       DEF RowBacked, SignupsFresh, DisconnectionsStale, DisconnectionTold, Consumed, Completing,
           Disconnecting
  <2> QED BY <2>3, <2>4, <2>5, <2>6, <2>7, <2>8, <1>q
<1>3. ASSUME NEW a \in Staff, Exchange(a) PROVE AccountsInv'
  <2>1. [errand[a] EXCEPT !.at = "authorized"] \in Errands
    BY <1>e, ErrandsTyped DEF Completing
  <2>2. /\ errand' \in [Staff -> Errands]
        /\ errand'[a].at \in {"authorized", "idle"}
        /\ errand'[a].at = "authorized" => errand'[a].signup = errand[a].signup
        /\ \A b \in Staff \ {a} : errand'[b] = errand[b]
    <3>1. CASE Proceeds(a, "authorized")
      BY <3>1, <1>i, <1>e, <2>1, ErrandMoves, ErrandsTyped DEF Proceeds, Completing
    <3>2. CASE Returns(a)
      BY <3>2, <1>i, ErrandMoves, ErrandsTyped DEF Returns
    <3> QED BY <1>3, <3>1, <3>2 DEF Exchange
  <2>9. /\ errand[a].at = "exchanging" /\ Consumed(errand[a].signup)
        /\ honoured' \in {honoured, honoured \cup {errand[a].signup}}
        /\ signup' = signup /\ account' = account /\ tokens' = tokens
    BY <1>3, <1>i DEF Exchange, ErrandAt, SignupsFresh, Completing
  <2>3. AccountsShape'
    BY <1>i, <2>2, <2>9 DEF AccountsShape, Consumed
  <2>4. RowBacked'
    BY <1>i, <1>e, <2>2, <2>9 DEF RowBacked, Consumed
  <2>5. SignupsFresh'
    BY <1>i, <1>e, <2>2, <2>9
       DEF RowBacked, SignupsFresh, DisconnectionsStale, Consumed, Completing, Disconnecting
  <2>6. DisconnectionsStale'
    BY <1>i, <1>e, <2>2, <2>9
       DEF RowBacked, SignupsFresh, DisconnectionsStale, Consumed, Completing, Disconnecting
  <2>7. TokenCurrent'
    BY <1>i, <1>e, <2>2, <2>9
       DEF RowBacked, TokenCurrent, Consumed, SignupsFresh, DisconnectionsStale, Completing,
           Disconnecting
  <2>8. DisconnectionTold'
    BY <1>i, <1>e, <2>2, <2>9
       DEF RowBacked, SignupsFresh, DisconnectionsStale, DisconnectionTold, Consumed, Completing,
           Disconnecting
  <2> QED BY <2>3, <2>4, <2>5, <2>6, <2>7, <2>8, <1>q
<1>4. ASSUME NEW a \in Staff, Connect(a) PROVE AccountsInv'
  <2>2. /\ errand' \in [Staff -> Errands]
        /\ errand'[a].at = "idle"
        /\ \A b \in Staff \ {a} : errand'[b] = errand[b]
    BY <1>4, <1>i, ErrandMoves, ErrandsTyped DEF Connect, Returns
  <2> DEFINE s == errand[a].signup
  <2>9. /\ errand[a].at = "authorized" /\ Consumed(s)
        /\ account' = [status |-> "active", client |-> signup[s].client, token |-> s,
                       verified |-> s, health |-> "HEALTHY", error |-> "none"]
        /\ tokens' = (tokens \ {account.token}) \cup {s}
        /\ signup' = signup /\ honoured' = honoured
    BY <1>4, <1>i DEF Connect, ErrandAt, SignupsFresh, Completing
  <2>3. AccountsShape'
    <3>1. signup[s].client \subseteq Clients
      BY <1>e, <2>9 DEF SignupRows, Consumed
    <3>2. account' \in AccountRows
      BY <2>9, <3>1 DEF AccountRows, Consumed
    <3> QED BY <1>i, <2>2, <2>9, <3>2 DEF AccountsShape, Consumed
  <2>a. /\ account'.status = "active" /\ account'.client = signup[s].client
        /\ account'.token = s /\ account'.verified = s
    BY <2>9
  <2> HIDE DEF s
  <2>b. s = errand[a].signup /\ s \in tokens' /\ s \in Signups /\ s # 0
    BY <2>9 DEF s, Consumed, Signups
  <2>4. RowBacked'
    BY <1>i, <1>e, <2>2, <2>9, <2>a, <2>b DEF RowBacked, Consumed
  <2>5. SignupsFresh'
    BY <1>i, <1>e, <2>2, <2>9, <2>a, <2>b
       DEF RowBacked, SignupsFresh, DisconnectionsStale, Consumed, Completing, Disconnecting
  <2>6. DisconnectionsStale'
    BY <1>i, <1>e, <2>2, <2>9, <2>a, <2>b
       DEF RowBacked, SignupsFresh, DisconnectionsStale, Consumed, Completing, Disconnecting
  <2>7. TokenCurrent'
    BY <1>i, <1>e, <2>2, <2>9, <2>a, <2>b
       DEF RowBacked, TokenCurrent, Consumed, SignupsFresh, DisconnectionsStale, Completing,
           Disconnecting
  <2>8. DisconnectionTold'
    BY <1>i, <1>e, <2>2, <2>9, <2>a, <2>b
       DEF RowBacked, SignupsFresh, DisconnectionsStale, DisconnectionTold, Consumed, Completing,
           Disconnecting
  <2> QED BY <2>3, <2>4, <2>5, <2>6, <2>7, <2>8, <1>q
<1>5. ASSUME NEW a \in Staff, RefuseConnection(a) PROVE AccountsInv'
  <2>2. /\ errand' \in [Staff -> Errands]
        /\ errand'[a].at = "idle"
        /\ \A b \in Staff \ {a} : errand'[b] = errand[b]
    BY <1>5, <1>i, ErrandMoves, ErrandsTyped DEF RefuseConnection, Returns
  <2>3. AccountsShape'
    BY <1>5, <1>i, <2>2 DEF RefuseConnection, AccountsShape
  <2>4. RowBacked'
    BY <1>5, <1>i, <2>2 DEF RefuseConnection, RowBacked, Consumed
  <2>5. SignupsFresh'
    BY <1>5, <1>i, <2>2
       DEF RefuseConnection, RowBacked, SignupsFresh, DisconnectionsStale, Consumed, Completing,
           Disconnecting
  <2>6. DisconnectionsStale'
    BY <1>5, <1>i, <2>2
       DEF RefuseConnection, RowBacked, SignupsFresh, DisconnectionsStale, Consumed, Completing,
           Disconnecting
  <2>7. TokenCurrent'
    BY <1>5, <1>i, <2>2
       DEF RefuseConnection, RowBacked, TokenCurrent, Consumed, SignupsFresh, DisconnectionsStale,
           Completing, Disconnecting
  <2>8. DisconnectionTold'
    BY <1>5, <1>i, <2>2
       DEF RefuseConnection, RowBacked, SignupsFresh, DisconnectionsStale, DisconnectionTold,
           Consumed, Completing, Disconnecting
  <2> QED BY <2>3, <2>4, <2>5, <2>6, <2>7, <2>8, <1>q
<1>6. ASSUME NEW a \in Staff, Inspect(a) PROVE AccountsInv'
  <2>1. PICK verdict \in {"ERROR", "REAUTH_REQUIRED", "HEALTHY"} :
          errand' = [errand EXCEPT ![a] = [Reading("inspected") EXCEPT !.verdict = verdict]]
    BY <1>6 DEF Inspect, Inspections
  <2> DEFINE e == [Reading("inspected") EXCEPT !.verdict = verdict]
  <2>9. e \in Errands /\ e.at = "inspected"
    BY <1>e DEF Reading, NoErrand, Errands, AccountRows
  <2>2. /\ errand' \in [Staff -> Errands]
        /\ errand'[a].at = "inspected"
        /\ \A b \in Staff \ {a} : errand'[b] = errand[b]
    BY <1>i, <2>1, <2>9, ErrandMoves
  <2>3. AccountsShape'
    BY <1>6, <1>i, <2>2 DEF Inspect, AccountsShape
  <2>4. RowBacked'
    BY <1>6, <1>i, <2>2 DEF Inspect, RowBacked, Consumed
  <2>5. SignupsFresh'
    BY <1>6, <1>i, <2>2
       DEF Inspect, RowBacked, SignupsFresh, DisconnectionsStale, Consumed, Completing,
           Disconnecting
  <2>6. DisconnectionsStale'
    BY <1>6, <1>i, <2>2
       DEF Inspect, RowBacked, SignupsFresh, DisconnectionsStale, Consumed, Completing,
           Disconnecting
  <2>7. TokenCurrent'
    BY <1>6, <1>i, <2>2
       DEF Inspect, RowBacked, TokenCurrent, Consumed, SignupsFresh, DisconnectionsStale,
           Completing, Disconnecting
  <2>8. DisconnectionTold'
    BY <1>6, <1>i, <2>2
       DEF Inspect, RowBacked, SignupsFresh, DisconnectionsStale, DisconnectionTold, Consumed,
           Completing, Disconnecting
  <2> QED BY <2>3, <2>4, <2>5, <2>6, <2>7, <2>8, <1>q
<1>7. ASSUME NEW a \in Staff, RecordHealth(a) PROVE AccountsInv'
  <2>2. /\ errand' \in [Staff -> Errands]
        /\ errand'[a].at = "idle"
        /\ \A b \in Staff \ {a} : errand'[b] = errand[b]
    BY <1>7, <1>i, ErrandMoves, ErrandsTyped DEF RecordHealth, Returns
  <2>9. /\ account' \in AccountRows
        /\ account'.status = account.status /\ account'.client = account.client
        /\ account'.token = account.token /\ account'.verified = account.verified
        /\ account.status # "active" => account' = account
    <3>1. errand[a].at = "inspected"
      BY <1>7 DEF RecordHealth, ErrandAt
    <3>2. CASE account' = account
      BY <1>e, <3>2
    <3>3. CASE /\ account.status = "active"
               /\ account' = [account EXCEPT !.health = errand[a].verdict,
                         !.error = IF errand[a].verdict # "HEALTHY" THEN "health" ELSE "none"]
      <4>1. errand[a].verdict \in {"HEALTHY", "ERROR", "REAUTH_REQUIRED"}
        BY <1>e, <3>1 DEF Errands
      <4> QED BY <1>e, <3>3, <4>1 DEF AccountRows
    <3> QED BY <1>7, <3>2, <3>3 DEF RecordHealth
  <2>3. AccountsShape'
    BY <1>7, <1>i, <2>2, <2>9 DEF RecordHealth, AccountsShape
  <2>a. signup' = signup /\ tokens' = tokens /\ honoured' = honoured
    BY <1>7 DEF RecordHealth
  <2>4. RowBacked'
    BY <1>i, <2>2, <2>9, <2>a DEF RowBacked, Consumed
  <2>5. SignupsFresh'
    BY <1>i, <2>2, <2>9, <2>a
       DEF RowBacked, SignupsFresh, DisconnectionsStale, Consumed, Completing, Disconnecting
  <2>6. DisconnectionsStale'
    BY <1>i, <2>2, <2>9, <2>a
       DEF RowBacked, SignupsFresh, DisconnectionsStale, Consumed, Completing, Disconnecting
  <2>7. TokenCurrent'
    BY <1>i, <2>2, <2>9, <2>a
       DEF RowBacked, TokenCurrent, Consumed, SignupsFresh, DisconnectionsStale, Completing,
           Disconnecting
  <2>8. DisconnectionTold'
    BY <1>i, <2>2, <2>9, <2>a
       DEF RowBacked, SignupsFresh, DisconnectionsStale, DisconnectionTold, Consumed, Completing,
           Disconnecting
  <2> QED BY <2>3, <2>4, <2>5, <2>6, <2>7, <2>8, <1>q
<1>8. ASSUME NEW a \in Staff, Disconnect(a) PROVE AccountsInv'
  <2>1. /\ errand' = [errand EXCEPT ![a] = Reading("loading")]
        /\ signup' = signup /\ tokens' = tokens /\ honoured' = honoured
    BY <1>8 DEF Disconnect
  <2>9. /\ Reading("loading") \in Errands
        /\ Reading("loading").at = "loading"
        /\ Reading("loading").token = account.token
        /\ Reading("loading").verified = account.verified
        /\ ~Reading("loading").deleted
    BY <1>e DEF Reading, NoErrand, Errands, AccountRows, Disconnecting
  <2>2. /\ errand' \in [Staff -> Errands]
        /\ errand'[a].at = "loading"
        /\ errand'[a].token = account.token /\ errand'[a].verified = account.verified
        /\ ~errand'[a].deleted
        /\ \A b \in Staff \ {a} : errand'[b] = errand[b]
    BY <1>i, <2>1, <2>9, ErrandMoves
  <2>a. /\ account' \in AccountRows
        /\ account'.status = "inactive" /\ account'.token = 0
        /\ account'.verified = account.verified
        /\ account'.health = "REAUTH_REQUIRED" /\ account'.error = "meta_revoke_pending"
    BY <1>8, <1>e DEF Disconnect, AccountRows
  <2>b. /\ account.token = account.verified /\ account.token \in tokens
        /\ account.token # 0 /\ Consumed(account.token)
    BY <1>8, <1>i DEF Disconnect, RowBacked, TokenCurrent, Consumed, AccountsShape, Signups
  <2>3. AccountsShape'
    BY <1>i, <2>1, <2>2, <2>a DEF AccountsShape
  <2>4. RowBacked'
    BY <1>i, <2>1, <2>2, <2>a, <2>b DEF RowBacked, Consumed
  <2>5. SignupsFresh'
    BY <1>i, <2>1, <2>2, <2>a, <2>b
       DEF RowBacked, SignupsFresh, DisconnectionsStale, Consumed, Completing, Disconnecting
  <2>6. DisconnectionsStale'
    <3>1. \A b \in Staff \ {a} : errand[b].at \in Disconnecting => errand[b].token # 0
      BY <1>i DEF DisconnectionsStale, Consumed, Signups
    <3>3. \A t : Consumed(t) => Consumed(t)'
      BY <2>1 DEF Consumed
    <3> QED BY <1>i, <2>1, <2>2, <2>a, <2>b, <3>1, <3>3 DEF DisconnectionsStale
  <2>7. TokenCurrent'
    BY <1>i, <2>1, <2>2, <2>a, <2>b
       DEF RowBacked, TokenCurrent, Consumed, SignupsFresh, DisconnectionsStale, Completing,
           Disconnecting
  <2>8. DisconnectionTold'
    BY <1>i, <2>1, <2>2, <2>a, <2>b
       DEF RowBacked, SignupsFresh, DisconnectionsStale, DisconnectionTold, Consumed, Completing,
           Disconnecting
  <2> QED BY <2>3, <2>4, <2>5, <2>6, <2>7, <2>8, <1>q
<1>9. ASSUME NEW a \in Staff, LoadOldToken(a) PROVE AccountsInv'
  <2>1. PICK loaded \in BOOLEAN :
          errand' = [errand EXCEPT ![a].at = "deleting", ![a].loaded = loaded]
    BY <1>9 DEF LoadOldToken
  <2> DEFINE e == [errand[a] EXCEPT !.at = "deleting", !.loaded = loaded]
  <2>9. /\ e \in Errands /\ e.at = "deleting" /\ e.token = errand[a].token
        /\ e.verified = errand[a].verified /\ e.deleted = errand[a].deleted
    BY <1>e DEF Errands, Disconnecting
  <2>a. errand' = [errand EXCEPT ![a] = e]
    BY <1>e, <2>1
  <2>2. /\ errand' \in [Staff -> Errands]
        /\ errand'[a].at = "deleting"
        /\ errand'[a].token = errand[a].token /\ errand'[a].verified = errand[a].verified
        /\ errand'[a].deleted = errand[a].deleted
        /\ \A b \in Staff \ {a} : errand'[b] = errand[b]
    BY <1>i, <2>9, <2>a, ErrandMoves
  <2>b. /\ errand[a].at = "loading"
        /\ signup' = signup /\ account' = account /\ tokens' = tokens /\ honoured' = honoured
    BY <1>9 DEF LoadOldToken, ErrandAt
  <2>3. AccountsShape'
    BY <1>i, <2>2, <2>b DEF AccountsShape
  <2>4. RowBacked'
    BY <1>i, <2>2, <2>b DEF RowBacked, Consumed
  <2>5. SignupsFresh'
    BY <1>i, <2>2, <2>b
       DEF RowBacked, SignupsFresh, DisconnectionsStale, Consumed, Completing, Disconnecting
  <2>6. DisconnectionsStale'
    BY <1>i, <2>2, <2>b
       DEF RowBacked, SignupsFresh, DisconnectionsStale, Consumed, Completing, Disconnecting
  <2>7. TokenCurrent'
    BY <1>i, <2>2, <2>b
       DEF RowBacked, TokenCurrent, Consumed, SignupsFresh, DisconnectionsStale, Completing,
           Disconnecting
  <2>8. DisconnectionTold'
    BY <1>i, <2>2, <2>b
       DEF RowBacked, SignupsFresh, DisconnectionsStale, DisconnectionTold, Consumed, Completing,
           Disconnecting
  <2> QED BY <2>3, <2>4, <2>5, <2>6, <2>7, <2>8, <1>q
<1>10. ASSUME NEW a \in Staff, DeleteOldSecret(a) PROVE AccountsInv'
  <2>1. PICK deleted \in BOOLEAN :
          /\ tokens' = IF deleted THEN tokens \ {errand[a].token} ELSE tokens
          /\ errand' = [errand EXCEPT ![a] = IF errand[a].loaded
                                             THEN [@ EXCEPT !.at = "revoking", !.deleted = deleted]
                                             ELSE NoErrand]
    BY <1>10 DEF DeleteOldSecret
  <2> DEFINE e == IF errand[a].loaded
                  THEN [errand[a] EXCEPT !.at = "revoking", !.deleted = deleted] ELSE NoErrand
  <2>9. /\ e \in Errands /\ e.at \in {"revoking", "idle"}
        /\ e.at = "revoking" => /\ e.token = errand[a].token /\ e.verified = errand[a].verified
                                /\ e.deleted = deleted
    <3>1. CASE errand[a].loaded
      BY <1>e, <3>1 DEF Errands, Disconnecting
    <3>2. CASE ~errand[a].loaded
      BY <3>2, ErrandsTyped
    <3> QED BY <3>1, <3>2
  <2>a. errand' = [errand EXCEPT ![a] = e]
    BY <1>e, <2>1
  <2>2. /\ errand' \in [Staff -> Errands]
        /\ errand'[a].at \in {"revoking", "idle"}
        /\ errand'[a].at = "revoking" =>
             /\ errand'[a].token = errand[a].token /\ errand'[a].verified = errand[a].verified
             /\ errand'[a].deleted = deleted
        /\ \A b \in Staff \ {a} : errand'[b] = errand[b]
    BY <1>i, <2>9, <2>a, ErrandMoves
  <2>b. /\ errand[a].at = "deleting"
        /\ signup' = signup /\ account' = account /\ honoured' = honoured
        /\ tokens' \subseteq tokens
        /\ tokens \ {errand[a].token} \subseteq tokens'
        /\ deleted => errand[a].token \notin tokens'
    BY <1>10, <2>1 DEF DeleteOldSecret, ErrandAt
  <2>3. AccountsShape'
    BY <1>i, <2>2, <2>b DEF AccountsShape
  <2>4. RowBacked'
    BY <1>i, <2>2, <2>b DEF RowBacked, Consumed
  <2>5. SignupsFresh'
    BY <1>i, <2>2, <2>b
       DEF RowBacked, SignupsFresh, DisconnectionsStale, Consumed, Completing, Disconnecting
  <2>6. DisconnectionsStale'
    BY <1>i, <2>2, <2>b
       DEF RowBacked, SignupsFresh, DisconnectionsStale, Consumed, Completing, Disconnecting
  <2>7. TokenCurrent'
    BY <1>i, <2>2, <2>b
       DEF RowBacked, TokenCurrent, Consumed, SignupsFresh, DisconnectionsStale, Completing,
           Disconnecting
  <2>8. DisconnectionTold'
    BY <1>i, <2>2, <2>b
       DEF RowBacked, SignupsFresh, DisconnectionsStale, DisconnectionTold, Consumed, Completing,
           Disconnecting
  <2> QED BY <2>3, <2>4, <2>5, <2>6, <2>7, <2>8, <1>q
<1>11. ASSUME NEW a \in Staff, RevokeAtMeta(a) PROVE AccountsInv'
  <2>9. /\ errand[a].at = "revoking"
        /\ signup' = signup /\ account' = account /\ tokens' = tokens
        /\ honoured' \subseteq honoured
    BY <1>11 DEF RevokeAtMeta, ErrandAt
  <2>2. /\ errand' \in [Staff -> Errands]
        /\ errand'[a].at \in {"clearing", "idle"}
        /\ errand'[a].at = "clearing" =>
             /\ errand'[a].token = errand[a].token /\ errand'[a].verified = errand[a].verified
             /\ errand[a].deleted /\ errand'[a].deleted = errand[a].deleted
             /\ errand[a].token \notin honoured'
        /\ \A b \in Staff \ {a} : errand'[b] = errand[b]
    <3>1. CASE /\ errand[a].deleted /\ Proceeds(a, "clearing")
               /\ honoured' = honoured \ {errand[a].token}
      <4>1. [errand[a] EXCEPT !.at = "clearing"] \in Errands
        BY <1>e, ErrandsTyped DEF Disconnecting
      <4>2. errand' = [errand EXCEPT ![a] = [errand[a] EXCEPT !.at = "clearing"]]
        BY <1>e, <3>1 DEF Proceeds
      <4>3. /\ errand' \in [Staff -> Errands]
            /\ errand'[a] = [errand[a] EXCEPT !.at = "clearing"]
            /\ \A b \in Staff \ {a} : errand'[b] = errand[b]
        BY <1>i, <4>1, <4>2, ErrandMoves
      <4>4. "clearing" \in Completing \cup Disconnecting
        BY DEF Disconnecting
      <4>5. /\ errand'[a].at = "clearing" /\ errand'[a].token = errand[a].token
            /\ errand'[a].verified = errand[a].verified
            /\ errand'[a].deleted = errand[a].deleted
        BY <1>e, <4>3, <4>4, ErrandsTyped
      <4> QED BY <3>1, <4>3, <4>5
    <3>2. CASE Returns(a)
      BY <3>2, <1>i, ErrandMoves, ErrandsTyped DEF Returns
    <3> QED BY <1>11, <3>1, <3>2 DEF RevokeAtMeta
  <2>3. AccountsShape'
    BY <1>i, <2>2, <2>9 DEF AccountsShape
  <2>4. RowBacked'
    BY <1>i, <2>2, <2>9 DEF RowBacked, Consumed
  <2>5. SignupsFresh'
    BY <1>i, <2>2, <2>9
       DEF RowBacked, SignupsFresh, DisconnectionsStale, Consumed, Completing, Disconnecting
  <2>6. DisconnectionsStale'
    <3>1. \A t : Consumed(t) => Consumed(t)'
      BY <2>9 DEF Consumed
    <3>2. /\ errand[a].at \in Disconnecting /\ Consumed(errand[a].token)
          /\ errand[a].token = errand[a].verified /\ errand[a].token # account.token
          /\ errand[a].deleted => errand[a].token \notin tokens
      BY <1>i, <2>9 DEF DisconnectionsStale, Disconnecting
    <3>3. errand'[a].at \in Disconnecting =>
            /\ errand'[a].at = "clearing" /\ errand'[a].token = errand[a].token
            /\ errand'[a].verified = errand[a].verified /\ errand'[a].deleted = errand[a].deleted
            /\ errand'[a].deleted /\ errand'[a].token \notin honoured'
      BY <2>2, <2>9 DEF Disconnecting
    <3> QED BY <1>i, <2>2, <2>9, <3>1, <3>2, <3>3 DEF DisconnectionsStale
  <2>7. TokenCurrent'
    BY <1>i, <2>2, <2>9
       DEF RowBacked, TokenCurrent, Consumed, SignupsFresh, DisconnectionsStale, Completing,
           Disconnecting
  <2>8. DisconnectionTold'
    BY <1>i, <2>2, <2>9
       DEF RowBacked, SignupsFresh, DisconnectionsStale, DisconnectionTold, Consumed, Completing,
           Disconnecting
  <2> QED BY <2>3, <2>4, <2>5, <2>6, <2>7, <2>8, <1>q
<1>12. ASSUME NEW a \in Staff, ClearPending(a) PROVE AccountsInv'
  <2>2. /\ errand' \in [Staff -> Errands]
        /\ errand'[a].at = "idle"
        /\ \A b \in Staff \ {a} : errand'[b] = errand[b]
    BY <1>12, <1>i, ErrandMoves, ErrandsTyped DEF ClearPending, Returns
  <2>9. /\ account' \in AccountRows
        /\ account'.status = account.status /\ account'.client = account.client
        /\ account'.token = account.token /\ account'.verified = account.verified
        /\ account'.health = account.health
        /\ account' # account => /\ account.status = "inactive"
                                 /\ account.verified = errand[a].verified
    BY <1>12, <1>e DEF ClearPending, AccountRows
  <2>a. /\ errand[a].at = "clearing"
        /\ signup' = signup /\ tokens' = tokens /\ honoured' = honoured
    BY <1>12 DEF ClearPending, ErrandAt
  <2>3. AccountsShape'
    BY <1>i, <2>2, <2>9, <2>a DEF AccountsShape
  <2>4. RowBacked'
    BY <1>i, <2>2, <2>9, <2>a DEF RowBacked, Consumed
  <2>5. SignupsFresh'
    BY <1>i, <2>2, <2>9, <2>a
       DEF RowBacked, SignupsFresh, DisconnectionsStale, Consumed, Completing, Disconnecting
  <2>6. DisconnectionsStale'
    BY <1>i, <2>2, <2>9, <2>a
       DEF RowBacked, SignupsFresh, DisconnectionsStale, Consumed, Completing, Disconnecting
  <2>7. TokenCurrent'
    BY <1>i, <2>2, <2>9, <2>a
       DEF RowBacked, TokenCurrent, Consumed, SignupsFresh, DisconnectionsStale, Completing,
           Disconnecting
  <2>8. DisconnectionTold'
    BY <1>i, <2>2, <2>9, <2>a
       DEF RowBacked, SignupsFresh, DisconnectionsStale, DisconnectionTold, Consumed, Completing,
           Disconnecting
  <2> QED BY <2>3, <2>4, <2>5, <2>6, <2>7, <2>8, <1>q
<1>13. ASSUME NEW a \in Staff, StaffStops(a) PROVE AccountsInv'
  <2>2. /\ errand' \in [Staff -> Errands]
        /\ errand'[a].at = "idle"
        /\ \A b \in Staff \ {a} : errand'[b] = errand[b]
    BY <1>13, <1>i, ErrandMoves, ErrandsTyped DEF StaffStops, Returns
  <2>3. AccountsShape'
    BY <1>13, <1>i, <2>2 DEF StaffStops, AccountsShape
  <2>4. RowBacked'
    BY <1>13, <1>i, <2>2 DEF StaffStops, RowBacked, Consumed
  <2>5. SignupsFresh'
    BY <1>13, <1>i, <2>2
       DEF StaffStops, RowBacked, SignupsFresh, DisconnectionsStale, Consumed, Completing,
           Disconnecting
  <2>6. DisconnectionsStale'
    BY <1>13, <1>i, <2>2
       DEF StaffStops, RowBacked, SignupsFresh, DisconnectionsStale, Consumed, Completing,
           Disconnecting
  <2>7. TokenCurrent'
    BY <1>13, <1>i, <2>2
       DEF StaffStops, RowBacked, TokenCurrent, Consumed, SignupsFresh, DisconnectionsStale,
           Completing, Disconnecting
  <2>8. DisconnectionTold'
    BY <1>13, <1>i, <2>2
       DEF StaffStops, RowBacked, SignupsFresh, DisconnectionsStale, DisconnectionTold, Consumed,
           Completing, Disconnecting
  <2> QED BY <2>3, <2>4, <2>5, <2>6, <2>7, <2>8, <1>q
<1>14. CASE UNCHANGED accountVars
  BY <1>14, <1>i, <1>q DEF accountVars, AccountsShape, RowBacked, SignupsFresh, DisconnectionsStale,
     TokenCurrent, DisconnectionTold, Consumed
<1> QED
  BY <1>1, <1>2, <1>3, <1>4, <1>5, <1>6, <1>7, <1>8, <1>9, <1>10, <1>11, <1>12, <1>13, <1>14
     DEF AccountsNext

\* Every reachable state of a number, for any tenants, administrators and signups,
\* satisfies the inductive invariant.
THEOREM AccountsInvariant == AccountsSpec => []AccountsInv
BY AccountsInitEstablishes, AccountsStep, PTL DEF AccountsSpec

\* WhatsAppSignupService, health checks and WhatsAppDisconnectCoordinator: however
\* they overlap, an active number works with the token it was last verified with, and
\* a disconnected one never looks healthy and is reported as pending until its last
\* token is gone from Meta and from the vault.
THEOREM NumberTruthfulHolds == AccountsSpec => []NumberTruthful
BY AccountsInvariant, PTL DEF AccountsInv
===============================================================================

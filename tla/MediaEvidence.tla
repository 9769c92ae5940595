---------------------------- MODULE MediaEvidence ----------------------------
(***************************************************************************)
(* One media object that customers sent: the row of its evidence, the file *)
(* on the private volume, and the observation each message got of it.      *)
(*                                                                         *)
(* Processing and deleting hold the advisory lock of the object, and       *)
(* commit many times on the way: before the download, the original, the    *)
(* scan, the result, and its attachment to the message.  A process may die *)
(* between any two of them, which frees the lock.                          *)
(***************************************************************************)
EXTENDS Naturals

CONSTANTS
  Messages,  \* inbound messages that carry the object
  Handlers   \* processes that normalize, delete or purge

VARIABLES
  payload,   \* what a scanner that is available finds in the object
  evidence,  \* the row of public.media_evidence
  file,      \* the original is on the volume
  attached,  \* public.media_observations, by message
  handler    \* what each process is doing, and for which message

mediaVars == <<payload, evidence, file, attached, handler>>

\* digest and key: content_digest and storage_key are set.  result: the status
\* of the observation, with the customer's content when it is READY.
NoEvidence == [status |-> "none", digest |-> FALSE, key |-> FALSE, scan |-> "NOT_RUN",
               result |-> "none", deleted |-> FALSE, expired |-> FALSE]

AtRest == [at |-> "idle", message |-> {}]

MediaInit ==
  /\ payload \in {"CLEAN", "INFECTED"}
  /\ evidence = NoEvidence
  /\ file = FALSE
  /\ attached = [m \in Messages |-> "none"]
  /\ handler = [h \in Handlers |-> AtRest]

LockFree == \A h \in Handlers : handler[h] = AtRest
Stage(h, stage) == handler[h].at = stage
Enters(h, stage) == handler' = [handler EXCEPT ![h].at = stage]
Rests(h) == handler' = [handler EXCEPT ![h] = AtRest]

\* _save: the row, whole.
Save(row) == evidence' = row

\* _attach: the message has this observation, instead of an earlier one.
Attach(m, result) == attached' = [attached EXCEPT ![m] = result]

--------------------------------------------------------------------------------
\* process.

Gone == evidence.deleted \/ evidence.expired

\* What an explicit retry may do again.
Retryable ==
  /\ evidence.status \in {"PENDING_PROVIDER", "QUARANTINED"}
  /\ evidence.scan # "INFECTED"

\* A new object, or one that is tried again: the claim is committed first.
Claim(h, m) ==
  /\ LockFree
  /\ evidence = NoEvidence \/ (~Gone /\ Retryable)
  /\ Save([evidence EXCEPT !.status = "PROCESSING"])
  /\ handler' = [handler EXCEPT ![h] = [at |-> "fetching", message |-> {m}]]
  /\ UNCHANGED <<payload, file, attached>>

\* Deleted or expired evidence is not looked at again.
AttachDeleted(m) ==
  /\ LockFree
  /\ Gone
  /\ Attach(m, "DELETED")
  /\ UNCHANGED <<payload, evidence, file, handler>>

\* A claim that was interrupted is for a human, and not paid for twice.
AdoptInterrupted(h, m) ==
  /\ LockFree
  /\ ~Gone
  /\ evidence.status = "PROCESSING"
  /\ Save([evidence EXCEPT !.status = "HUMAN_REVIEW", !.result = "HUMAN_REVIEW"])
  /\ handler' = [handler EXCEPT ![h] = [at |-> "attaching", message |-> {m}]]
  /\ UNCHANGED <<payload, file, attached>>

\* A message that repeats an object gets the stored result.
AttachStored(m) ==
  /\ LockFree
  /\ ~Gone
  /\ evidence.status \notin {"none", "PROCESSING"}
  /\ Attach(m, evidence.result)
  /\ UNCHANGED <<payload, evidence, file, handler>>

\* What went wrong ends in a FAILED observation.
Failing(h) == Save([evidence EXCEPT !.status = "FAILED", !.result = "FAILED"])
              /\ Enters(h, "attaching")

\* The original is read if it is stored, and else downloaded and written.
Fetch(h) ==
  /\ Stage(h, "fetching")
  /\ \/ evidence.digest /\ file /\ Enters(h, "scanning") /\ UNCHANGED <<evidence, file>>
     \/ ~evidence.digest /\ file' = TRUE /\ Enters(h, "storing") /\ UNCHANGED evidence
     \/ Failing(h) /\ UNCHANGED file
  /\ UNCHANGED <<payload, attached>>

\* Its digest and its key are committed before anything looks into it.
PersistOriginal(h) ==
  /\ Stage(h, "storing")
  /\ Save([evidence EXCEPT !.digest = TRUE, !.key = TRUE])
  /\ Enters(h, "scanning")
  /\ UNCHANGED <<payload, file, attached>>

\* The scan; before it, digest and type are compared with what was claimed.
Scan(h) ==
  /\ Stage(h, "scanning")
  /\ \/ /\ \E scan \in {payload, "UNAVAILABLE"} : Save([evidence EXCEPT !.scan = scan])
        /\ Enters(h, "normalizing")
     \/ Failing(h)
  /\ UNCHANGED <<payload, file, attached>>

\* What normalizing may come to.
Results ==
  IF evidence.scan # "CLEAN" THEN {"QUARANTINED"}
  ELSE {"READY", "PENDING_PROVIDER", "HUMAN_REVIEW", "FAILED"}

Normalize(h) ==
  /\ Stage(h, "normalizing")
  /\ \E result \in Results : Save([evidence EXCEPT !.status = result, !.result = result])
  /\ Enters(h, "attaching")
  /\ UNCHANGED <<payload, file, attached>>

AttachResult(h) ==
  /\ Stage(h, "attaching")
  /\ \E m \in handler[h].message : Attach(m, evidence.result)
  /\ Rests(h)
  /\ UNCHANGED <<payload, evidence, file>>

--------------------------------------------------------------------------------
\* delete, asked for by an administrator or by the purge of what has expired; the
\* purge finds again what was not cleared.

\* Access is revoked first.
RevokeAccess(h) ==
  /\ LockFree
  /\ evidence # NoEvidence
  /\ Save([evidence EXCEPT !.status = "DELETED", !.deleted = TRUE, !.result = "none",
                           !.key = TRUE])
  /\ handler' = [handler EXCEPT ![h].at = "blanking"]
  /\ UNCHANGED <<payload, file, attached>>

\* Every observation that refers to the object is overwritten.
BlankObservations(h) ==
  /\ Stage(h, "blanking")
  /\ attached' = [m \in Messages |-> IF attached[m] = "none" THEN "none" ELSE "DELETED"]
  /\ Enters(h, "unlinking")
  /\ UNCHANGED <<payload, evidence, file>>

\* Mutation: the file of the digest in the row.
UnlinkByDigest(h) ==
  /\ Stage(h, "unlinking")
  /\ \/ Enters(h, "clearing") /\ file' = (file /\ ~evidence.digest)
     \/ Rests(h) /\ UNCHANGED file
  /\ UNCHANGED <<payload, evidence, attached>>

\* delete_object: whatever is in the directory of the object; it may fail.
Unlink(h) ==
  /\ Stage(h, "unlinking")
  /\ \/ Enters(h, "clearing") /\ file' = FALSE
     \/ Rests(h) /\ UNCHANGED file
  /\ UNCHANGED <<payload, evidence, attached>>

\* Nothing is left to clean.
ClearEvidence(h) ==
  /\ Stage(h, "clearing")
  /\ Save([evidence EXCEPT !.digest = FALSE, !.key = FALSE])
  /\ Rests(h)
  /\ UNCHANGED <<payload, file, attached>>

--------------------------------------------------------------------------------
\* The process dies; its database session ends, and with it the lock.
HandlerDies(h) ==
  /\ handler[h] # AtRest
  /\ Rests(h)
  /\ UNCHANGED <<payload, evidence, file, attached>>

\* The retention period ends.
EvidenceExpires ==
  /\ evidence # NoEvidence
  /\ ~evidence.expired
  /\ evidence' = [evidence EXCEPT !.expired = TRUE]
  /\ UNCHANGED <<payload, file, attached, handler>>

\* allowed: what signed access, a download and an export need.
Allowed ==
  /\ evidence.digest
  /\ evidence.scan = "CLEAN"
  /\ evidence.status \in {"READY", "PENDING_PROVIDER", "HUMAN_REVIEW"}
  /\ ~Gone

MediaNext ==
  \/ \E h \in Handlers, m \in Messages : Claim(h, m)
  \/ \E h \in Handlers, m \in Messages : AdoptInterrupted(h, m)
  \/ \E m \in Messages : AttachDeleted(m)
  \/ \E m \in Messages : AttachStored(m)
  \/ \E h \in Handlers : Fetch(h)
  \/ \E h \in Handlers : PersistOriginal(h)
  \/ \E h \in Handlers : Scan(h)
  \/ \E h \in Handlers : Normalize(h)
  \/ \E h \in Handlers : AttachResult(h)
  \/ \E h \in Handlers : RevokeAccess(h)
  \/ \E h \in Handlers : BlankObservations(h)
  \/ \E h \in Handlers : Unlink(h)
  \/ \E h \in Handlers : ClearEvidence(h)
  \/ \E h \in Handlers : HandlerDies(h)
  \/ EvidenceExpires

MediaSpec == MediaInit /\ [][MediaNext]_mediaVars

--------------------------------------------------------------------------------
\* Properties.

\* The shape of the row and of what the processes do.
MediaTypeOK ==
  /\ evidence.status \in {"none", "PROCESSING", "READY", "PENDING_PROVIDER", "HUMAN_REVIEW",
                          "FAILED", "QUARANTINED", "DELETED"}
  /\ evidence.scan \in {"NOT_RUN", "CLEAN", "INFECTED", "UNAVAILABLE"}
  /\ \A h \in Handlers : handler[h].message \subseteq Messages

\* Evidence whose deletion was completed has no file and no observation with the
\* customer's content left, also when the processing before it was interrupted
\* and messages with the same object came late.
DeletedForGood ==
  evidence.deleted /\ ~evidence.key =>
    /\ ~file
    /\ \A m \in Messages : attached[m] \in {"none", "DELETED"}

\* What may be downloaded is on the volume and clean, and the agent never reads
\* content out of an object that is not, however often it was tried.
OnlyCleanShown ==
  /\ Allowed => file /\ payload = "CLEAN"
  /\ (\E m \in Messages : attached[m] = "READY") => payload = "CLEAN"

\* What a customer sent is shown only clean, and when it is deleted it is gone.
EvidencePrivate == DeletedForGood /\ OnlyCleanShown
==============================================================================

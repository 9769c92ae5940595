------------------------------ MODULE Knowledge ------------------------------
(***************************************************************************)
(* Knowledge of one tenant: a source is ingested by a worker, what is new  *)
(* in it is proposed, an administrator reviews the proposals into a draft  *)
(* version, the documents of the draft are embedded by another worker, and *)
(* the draft is promoted to Test, from where an agent may use it.          *)
(*                                                                         *)
(* A request of an administrator is one transaction: what it reads first   *)
(* may be out of date when it commits, unless a row is locked or a unique  *)
(* constraint refuses the commit.  The jobs of the workers may fail at any *)
(* point and are delivered again.                                          *)
(***************************************************************************)
EXTENDS Naturals, Sequences, FiniteSets

CONSTANTS
  Ingestions,   \* runs of the ingestion of the source
  Facts,        \* structured facts the source may hold
  Documents,    \* documents the source may hold
  Extras,       \* documents that administrators add without a proposal
  Contents,     \* what the source may hold when it is fetched; its digest is itself
  Pieces,       \* the batches a document takes to embed: 1 .. n
  Reviewers,    \* administrators, each with one request at a time
  MaxVersions,  \* bound: knowledge versions
  MaxTries      \* attempts at a job before it is dead

Parts == Facts \cup Documents
Artifacts == Parts \cup Extras
ToEmbed == Documents \cup Extras
Numbers == 1 .. MaxVersions

ASSUME KnowledgeAssumption ==
  /\ Contents \subseteq SUBSET Parts
  /\ {} \notin Contents
  /\ Extras \cap Parts = {}
  /\ Facts \cap Documents = {}
  /\ MaxVersions \in Nat
  /\ MaxTries \in Nat \ {0}

VARIABLES
  ingestion,      \* public.knowledge_ingestions, with the jobs of each
  proposal,       \* public.knowledge_proposals, by the part proposed
  sourceVersions, \* public.knowledge_source_versions, in the order of their numbers
  draftOf,        \* public.knowledge_source_diffs: the draft of an ingestion, 0 if none
  artifact,       \* how many rows of structured_facts and knowledge_documents a part has
  version,        \* public.knowledge_versions and their members, by number
  embedding,      \* the job knowledge.embed of a version
  chunk,          \* public.knowledge_chunks, by version, document and piece
  desk,           \* the open request of each administrator
  refused         \* versions the database would not let into PRODUCTION

knowledgeVars == <<ingestion, proposal, sourceVersions, draftOf, artifact, version, embedding,
                   chunk, desk, refused>>

NoIngestion == [state |-> "none", content |-> {}, job |-> "none", tries |-> 0, change |-> "none"]
Unproposed == [state |-> "none", from |-> "none"]
NoJob == [job |-> "none", todo |-> {}, tries |-> 0]
AtDesk == [at |-> "idle", about |-> "none", decision |-> "none", number |-> 0, seen |-> {},
           sources |-> 0]

KnowledgeInit ==
  /\ ingestion = [i \in Ingestions |-> NoIngestion]
  /\ proposal = [p \in Parts |-> Unproposed]
  /\ sourceVersions = <<>>
  /\ draftOf = [i \in Ingestions |-> 0]
  /\ artifact = [x \in Artifacts |-> 0]
  /\ version = <<>>
  /\ embedding = [n \in Numbers |-> NoJob]
  /\ chunk = {}
  /\ desk = [a \in Reviewers |-> AtDesk]
  /\ refused = {}

--------------------------------------------------------------------------------
\* Ingestion.

\* create_ingestion: the row and its job.
Requested(i) == [ingestion EXCEPT ![i].state = "PENDING", ![i].job = "queued"]

\* request_ingestion, of a source or of a file that was uploaded.
RequestIngestion(i) ==
  /\ ingestion[i].state = "none"
  /\ ingestion' = Requested(i)
  /\ UNCHANGED <<proposal, sourceVersions, draftOf, artifact, version, embedding, chunk, desk,
                 refused>>

\* _claim: an earlier attempt may have left the row in PROCESSING; one that is
\* over is not touched again.
ClaimIngestion(i) ==
  /\ ingestion[i].job = "queued"
  /\ ingestion' =
       IF ingestion[i].state \in {"PENDING", "PROCESSING"}
         THEN [ingestion EXCEPT ![i].state = "PROCESSING", ![i].job = "running"]
         ELSE [ingestion EXCEPT ![i].job = "done"]
  /\ UNCHANGED <<proposal, sourceVersions, draftOf, artifact, version, embedding, chunk, desk,
                 refused>>

\* Mutation: attempts are not counted.
AgainForever(job, tries) == job

\* An attempt that raises, or whose end the queue does not hear of, is made
\* again while the queue allows it.
Again(job, tries) == IF tries + 1 < MaxTries THEN job ELSE "dead"

AttemptFails(i) ==
  /\ ingestion[i].job = "running"
  /\ ingestion' = [ingestion EXCEPT ![i].job = Again("queued", ingestion[i].tries),
                                    ![i].tries = @ + 1]
  /\ UNCHANGED <<proposal, sourceVersions, draftOf, artifact, version, embedding, chunk, desk,
                 refused>>

\* append_knowledge_ingestion_artifact: the source has one artifact of a digest,
\* whichever ingestion found it first, and a trigger proposes a new one.
Proposed(i, content) ==
  [p \in Parts |-> IF p \in content /\ proposal[p].state = "none"
                     THEN [state |-> "PROPOSED", from |-> i] ELSE proposal[p]]

\* _fetch and the extractor: what the source holds by now.
Fetched(i) == IF ingestion[i].job = "running" THEN Contents ELSE {}

\* _complete, in one transaction: proposals, state and the job that looks for a
\* change.
CompleteIngestion(i) ==
  /\ \E content \in Fetched(i), heard \in BOOLEAN :
       /\ ingestion' = [ingestion EXCEPT ![i] =
            [state |-> "SUCCEEDED", content |-> content, change |-> "queued",
             job |-> IF heard THEN "done" ELSE Again("queued", @.tries),
             tries |-> @.tries + IF heard THEN 0 ELSE 1]]
       /\ proposal' = Proposed(i, content)
  /\ UNCHANGED <<sourceVersions, draftOf, artifact, version, embedding, chunk, desk, refused>>

\* IngestionRejected: _fail.
RejectIngestion(i) ==
  /\ ingestion[i].job = "running"
  /\ ingestion' = [ingestion EXCEPT ![i].state = "FAILED", ![i].job = "done"]
  /\ UNCHANGED <<proposal, sourceVersions, draftOf, artifact, version, embedding, chunk, desk,
                 refused>>

--------------------------------------------------------------------------------
\* Drafts.

Draft(n) == version[n].state = "DRAFT"

\* The members a new draft starts with: those of the last version past Draft.
BaseMembers ==
  LET past == {n \in DOMAIN version : ~Draft(n)}
  IN  IF past = {} THEN {} ELSE version[CHOOSE n \in past : \A m \in past : m <= n].members

NewDraft(members) == Append(version, [state |-> "DRAFT", members |-> members, digest |-> {}])

\* The digest last approved for the source is the one that was fetched.
UnchangedSource(i) ==
  sourceVersions # <<>> /\ sourceVersions[Len(sourceVersions)] = ingestion[i].content

\* record_knowledge_source_diff, called by the scheduler's job: one draft per
\* ingestion, none if the source has not changed.
DetectChange(i) ==
  /\ ingestion[i].change = "queued"
  /\ ingestion' = [ingestion EXCEPT ![i].change = "done"]
  /\ IF draftOf[i] # 0 \/ UnchangedSource(i)
       THEN UNCHANGED <<version, draftOf>>
       ELSE /\ Len(version) < MaxVersions
            /\ version' = NewDraft(BaseMembers)
            /\ draftOf' = [draftOf EXCEPT ![i] = Len(version) + 1]
  /\ UNCHANGED <<proposal, sourceVersions, artifact, embedding, chunk, desk, refused>>

\* create_version: a draft without members, whatever it is based on.
CreateVersion ==
  /\ Len(version) < MaxVersions
  /\ version' = NewDraft({})
  /\ UNCHANGED <<ingestion, proposal, sourceVersions, draftOf, artifact, embedding, chunk, desk,
                 refused>>

\* append_source_version: the administrator vouches for a content.
AppendSourceVersion ==
  /\ \E content \in Contents :
       /\ \A k \in DOMAIN sourceVersions : sourceVersions[k] # content
       /\ sourceVersions' = Append(sourceVersions, content)
  /\ UNCHANGED <<ingestion, proposal, draftOf, artifact, version, embedding, chunk, desk, refused>>

\* add_structured_fact, add_document: of an approved version of the source.
AddArtifact(x) ==
  /\ sourceVersions # <<>>
  /\ artifact[x] = 0
  /\ artifact' = [artifact EXCEPT ![x] = 1]
  /\ UNCHANGED <<ingestion, proposal, sourceVersions, draftOf, version, embedding, chunk, desk,
                 refused>>

\* A member is inserted at the position after the last one that was seen; the
\* position is unique, so the insertion fails if another one came first.
Joins(a) == desk[a].number # 0 /\ version[desk[a].number].members = desk[a].seen

Opens(a, request) == desk' = [desk EXCEPT ![a] = request]
Closes(a) == desk' = [desk EXCEPT ![a] = AtDesk]

\* add_members up to the commit: the trigger asks for a Draft.
BeginAdd(a, n, x) ==
  /\ desk[a] = AtDesk
  /\ Draft(n)
  /\ artifact[x] > 0
  /\ x \notin version[n].members
  /\ Opens(a, [AtDesk EXCEPT !.at = "adding", !.about = x, !.number = n,
                             !.seen = version[n].members])
  /\ UNCHANGED <<ingestion, proposal, sourceVersions, draftOf, artifact, version, embedding,
                 chunk, refused>>

EndAdd(a) ==
  /\ desk[a].at = "adding"
  /\ Joins(a)
  /\ version' = [version EXCEPT ![desk[a].number].members = @ \cup {desk[a].about}]
  /\ Closes(a)
  /\ UNCHANGED <<ingestion, proposal, sourceVersions, draftOf, artifact, embedding, chunk, refused>>

\* Any request may end in an error instead, which takes everything back.
Abandon(a) ==
  /\ desk[a] # AtDesk
  /\ Closes(a)
  /\ UNCHANGED <<ingestion, proposal, sourceVersions, draftOf, artifact, version, embedding,
                 chunk, refused>>

--------------------------------------------------------------------------------
\* Review.

\* Mutation: a proposal that was approved with edits may be decided again.
UndecidedIfEdited(p) == proposal[p].state \in {"PROPOSED", "EDITED"}

\* review, and again _close_revision: the proposal is still open.
Undecided(p) == proposal[p].state = "PROPOSED"

\* _locked_proposal: still open, and in no other request.
Reviewable(p) ==
  /\ Undecided(p)
  /\ \A a \in Reviewers : desk[a].at = "reviewing" => desk[a].about # p

\* review up to the commit.  Conflicts with the facts of the deployed versions
\* are recorded and resolved by the same decision.
BeginReview(a, p, decision) ==
  LET i == proposal[p].from IN
  /\ desk[a] = AtDesk
  /\ Reviewable(p)
  /\ decision # "REJECTED" /\ draftOf[i] # 0 => Draft(draftOf[i])
  /\ decision # "REJECTED" /\ draftOf[i] = 0 => ~UnchangedSource(i)
  /\ Opens(a, [at |-> "reviewing", about |-> p, decision |-> decision, number |-> draftOf[i],
               seen |-> IF draftOf[i] = 0 THEN BaseMembers ELSE version[draftOf[i]].members,
               sources |-> Len(sourceVersions)])
  /\ UNCHANGED <<ingestion, proposal, sourceVersions, draftOf, artifact, version, embedding,
                 chunk, refused>>

\* _approved_source_version: the approved version of exactly this content, made
\* if there is none; its number must not have been taken since.
Approved(i) == \E k \in DOMAIN sourceVersions : sourceVersions[k] = ingestion[i].content

\* _close_revision: the decision of a proposal.
Decided(p, decision) == [proposal EXCEPT ![p].state = decision]

\* _draft_version: the draft of the ingestion, or a new one.
DraftFor(a) == IF desk[a].number = 0 THEN Len(version) + 1 ELSE desk[a].number

\* _close_revision, _materialize and the commit of a review: the decision, and
\* unless it is a rejection the artifact, its source version and its place in
\* the draft.
EndReview(a) ==
  LET p == desk[a].about
      i == proposal[p].from
      n == DraftFor(a)
  IN
  /\ desk[a].at = "reviewing"
  /\ Undecided(p)
  /\ IF desk[a].decision = "REJECTED"
       THEN UNCHANGED <<sourceVersions, draftOf, artifact, version>>
       ELSE /\ \/ /\ desk[a].number = 0
                  /\ draftOf[i] = 0
                  /\ Len(version) < MaxVersions
                  /\ version' = NewDraft(desk[a].seen \cup {p})
               \/ /\ Joins(a)
                  /\ version' = [version EXCEPT ![n].members = @ \cup {p}]
            /\ draftOf' = [draftOf EXCEPT ![i] = n]
            /\ artifact' = [artifact EXCEPT ![p] = @ + 1]
            /\ IF Approved(i)
                 THEN UNCHANGED sourceVersions
                 ELSE /\ Len(sourceVersions) = desk[a].sources
                      /\ sourceVersions' = Append(sourceVersions, ingestion[i].content)
  /\ proposal' = Decided(p, desk[a].decision)
  /\ Closes(a)
  /\ UNCHANGED <<ingestion, embedding, chunk, refused>>

--------------------------------------------------------------------------------
\* Embeddings.

\* request_embeddings: the key of the job is the version, so there is one job
\* however often it is asked for.
RequestEmbeddings(n) ==
  /\ Draft(n)
  /\ embedding[n] = NoJob
  /\ embedding' = [embedding EXCEPT ![n].job = "queued"]
  /\ UNCHANGED <<ingestion, proposal, sourceVersions, draftOf, artifact, version, chunk, desk,
                 refused>>

EmbeddingFails(n) ==
  embedding' = [embedding EXCEPT ![n].job = Again("queued", embedding[n].tries),
                                 ![n].tries = @ + 1, ![n].todo = {}]

\* _load_documents: the documents that are members now.
LoadDocuments(n) ==
  /\ embedding[n].job = "queued"
  /\ IF Draft(n)
       THEN embedding' = [embedding EXCEPT ![n].job = "running",
                            ![n].todo = (version[n].members \cap ToEmbed) \X Pieces]
       ELSE EmbeddingFails(n)
  /\ UNCHANGED <<ingestion, proposal, sourceVersions, draftOf, artifact, version, chunk, desk,
                 refused>>

\* The vectors of a batch, stored in a transaction of their own; a chunk that is
\* there is left as it is.  Documents come whole and in order.
EmbedBatch(n) ==
  /\ embedding[n].job = "running"
  /\ \E d \in ToEmbed, k \in Pieces :
       /\ <<d, k>> \in embedding[n].todo
       /\ \A j \in Pieces : j < k => <<d, j>> \notin embedding[n].todo
       /\ \/ /\ Draft(n)
             /\ chunk' = chunk \cup {<<n, d, k>>}
             /\ embedding' = [embedding EXCEPT ![n].todo = @ \ {<<d, k>>}]
          \/ /\ EmbeddingFails(n)
             /\ UNCHANGED chunk
  /\ UNCHANGED <<ingestion, proposal, sourceVersions, draftOf, artifact, version, desk, refused>>

FinishEmbedding(n) ==
  /\ embedding[n].job = "running"
  /\ embedding[n].todo = {}
  /\ embedding' = [embedding EXCEPT ![n].job = "done"]
  /\ UNCHANGED <<ingestion, proposal, sourceVersions, draftOf, artifact, version, chunk, desk,
                 refused>>

\* has_complete_document_embeddings: no document without any chunk.
Embedded(n) ==
  \A d \in version[n].members \cap ToEmbed : \E k \in Pieces : <<n, d, k>> \in chunk

--------------------------------------------------------------------------------
\* Promotion.

\* member_digests, knowledge_digest: the digest of what the version holds now.
DigestOf(n) == version[n].members

\* promote_to_test, promote_to_test_v0 up to the update: the evidence is for the
\* digest of the members as they were read.  No conflict is open at a commit.
BeginPromotion(a, n) ==
  /\ desk[a] = AtDesk
  /\ Draft(n)
  /\ Embedded(n)
  /\ version[n].members # {}
  /\ Opens(a, [AtDesk EXCEPT !.at = "promoting", !.number = n, !.seen = DigestOf(n)])
  /\ UNCHANGED <<ingestion, proposal, sourceVersions, draftOf, artifact, version, embedding,
                 chunk, refused>>

\* The update asks for a Draft, and nothing else, once more.
EndPromotion(a) ==
  LET n == desk[a].number IN
  /\ desk[a].at = "promoting"
  /\ Draft(n)
  /\ version' = [version EXCEPT ![n].state = "TEST", ![n].digest = desk[a].seen]
  /\ Closes(a)
  /\ UNCHANGED <<ingestion, proposal, sourceVersions, draftOf, artifact, embedding, chunk, refused>>

KnowledgeNext ==
  \/ \E i \in Ingestions : RequestIngestion(i)
  \/ \E i \in Ingestions : ClaimIngestion(i)
  \/ \E i \in Ingestions : AttemptFails(i)
  \/ \E i \in Ingestions : CompleteIngestion(i)
  \/ \E i \in Ingestions : RejectIngestion(i)
  \/ \E i \in Ingestions : DetectChange(i)
  \/ CreateVersion
  \/ AppendSourceVersion
  \/ \E x \in Extras : AddArtifact(x)
  \/ \E a \in Reviewers, n \in DOMAIN version, x \in Artifacts : BeginAdd(a, n, x)
  \/ \E a \in Reviewers : EndAdd(a)
  \/ \E a \in Reviewers : Abandon(a)
  \/ \E a \in Reviewers, p \in Parts, decision \in {"APPROVED", "EDITED", "REJECTED"} :
       BeginReview(a, p, decision)
  \/ \E a \in Reviewers : EndReview(a)
  \/ \E n \in DOMAIN version : RequestEmbeddings(n)
  \/ \E n \in DOMAIN version : LoadDocuments(n)
  \/ \E n \in DOMAIN version : EmbedBatch(n)
  \/ \E n \in DOMAIN version : FinishEmbedding(n)
  \/ \E a \in Reviewers, n \in DOMAIN version : BeginPromotion(a, n)
  \/ \E a \in Reviewers : EndPromotion(a)

KnowledgeSpec == KnowledgeInit /\ [][KnowledgeNext]_knowledgeVars

--------------------------------------------------------------------------------
\* Properties.

\* The shape of every table and of the open requests.
KnowledgeTypeOK ==
  /\ \A i \in Ingestions :
       /\ ingestion[i].state \in {"none", "PENDING", "PROCESSING", "SUCCEEDED", "FAILED"}
       /\ ingestion[i].job \in {"none", "queued", "running", "done", "dead"}
       /\ ingestion[i].tries \in 0 .. MaxTries
       /\ ingestion[i].state = "SUCCEEDED" <=> ingestion[i].content \in Contents
  /\ \A p \in Parts : proposal[p].state \in
       {"none", "PROPOSED", "APPROVED", "EDITED", "REJECTED"}
  /\ sourceVersions \in Seq(Contents)
  /\ draftOf \in [Ingestions -> 0 .. Len(version)]
  /\ artifact \in [Artifacts -> Nat]
  /\ \A n \in DOMAIN version :
       /\ version[n].state \in {"DRAFT", "TEST"}
       /\ version[n].members \subseteq Artifacts
       /\ Draft(n) <=> version[n].digest = {}
  /\ chunk \subseteq Numbers \X ToEmbed \X Pieces
  /\ refused \subseteq Numbers

\* Whatever two administrators decide at the same time, and however often the
\* jobs are delivered: a part of the source becomes an artifact once if it was
\* approved and never otherwise, it is a member of the draft of the ingestion
\* that found it, and an approved version of the source has the content it was
\* found in.  Nothing is proposed that the recorded content does not hold.
ReviewConclusive ==
  \A p \in Parts :
    LET i == proposal[p].from IN
    /\ artifact[p] = (IF proposal[p].state \in {"APPROVED", "EDITED"} THEN 1 ELSE 0)
    /\ proposal[p].state # "none" => ingestion[i].state = "SUCCEEDED" /\ p \in ingestion[i].content
    /\ artifact[p] = 1 => draftOf[i] # 0 /\ p \in version[draftOf[i]].members /\ Approved(i)

\* "Every document in the exact Knowledge version must be embedded before
\* entering Test": knowledge/service.py, promote_to_test.
TestIsEmbedded ==
  \A n \in DOMAIN version :
    version[n].state = "TEST" =>
      \A d \in version[n].members \cap ToEmbed, k \in Pieces : <<n, d, k>> \in chunk
==============================================================================

------------------------------ MODULE MCPlatform ------------------------------
(***************************************************************************)
(* What a tenant is set up with, each part checked on its own: focus says  *)
(* which one a behaviour is about, and the others keep their initial       *)
(* state.  Two people, or two processes, are at work in every part.        *)
(***************************************************************************)
EXTENDS Onboarding, Metering, WhatsAppAccounts, MediaEvidence, ApprovalReview, TLC

CONSTANTS i1, i2, f1, f2, d1, x1, p1, p2, b1, zero, nobody

ASSUME HandMadeAssumption ==
  /\ {f1, d1} \in Contents
  /\ x1 \in Extras
  /\ MaxVersions > 0

VARIABLE focus

\* The parts that share nothing with another.
channelVars == <<accountVars, mediaVars, linkVars>>
MCvars == <<focus, knowledgeVars, publicationVars, connectionVars, meteringVars, channelVars>>

\* A page that may change one fact and keeps a document.
TwoContents == {{f1, d1}, {f2, d1}}

\* Knowledge made by hand: an approved source version, and one more document
\* that is the only member of a draft and embedded.
ByHand ==
  /\ ingestion = [i \in Ingestions |-> NoIngestion]
  /\ proposal = [p \in Parts |-> Unproposed]
  /\ sourceVersions = <<{f1, d1}>>
  /\ draftOf = [i \in Ingestions |-> 0]
  /\ artifact = [x \in Artifacts |-> IF x = x1 THEN 1 ELSE 0]
  /\ version = <<[state |-> "DRAFT", members |-> {x1}, digest |-> {}]>>
  /\ embedding = [n \in Numbers |-> IF n = 1 THEN [NoJob EXCEPT !.job = "done"] ELSE NoJob]
  /\ chunk = {<<1, x1, k>> : k \in Pieces}
  /\ desk = [a \in Reviewers |-> AtDesk]
  /\ refused = {}

MCInit ==
  /\ focus \in {"review", "versions", "edits", "release", "connections", "runs", "hours",
               "numbers", "media", "links"}
  /\ IF focus \in {"edits", "release"} THEN ByHand ELSE KnowledgeInit
  /\ PublicationInit
  /\ ConnectionsInit
  /\ MeteringInit
  /\ focus # "connections" => authKind = "OAUTH2"
  /\ AccountsInit
  /\ MediaInit
  /\ focus # "media" => payload = "CLEAN"
  /\ LinkInit

\* Review: two ingestions of the page, decided by two administrators; attempts
\* fail where one ingestion is requested.
ReviewNext ==
  /\ focus = "review"
  /\ KnowledgeNext
  /\ UNCHANGED embedding
  /\ \A a \in Reviewers : desk'[a].at \in {"idle", "reviewing"}
                          /\ desk'[a].decision \in {"none", "APPROVED", "REJECTED"}
  /\ \A i, j \in Ingestions : ingestion'[i].tries > 0 /\ i # j => ingestion'[j] = NoIngestion
  /\ artifact'[x1] = 0
  /\ Len(version') <= Cardinality({i \in Ingestions : draftOf'[i] # 0})
  /\ UNCHANGED <<focus, publicationVars, connectionVars, meteringVars, channelVars>>

\* Versions: a draft is given members, embedded and promoted; one ingestion.
VersionsNext ==
  /\ focus = "versions"
  /\ KnowledgeNext
  /\ ingestion'[i2] = NoIngestion
  /\ \A a \in Reviewers : desk'[a].decision \in {"none", "EDITED"}
  /\ \A i \in Ingestions : ingestion'[i].content \in {{}, {f1, d1}} /\ ingestion'[i].change # "done"
  /\ Len(sourceVersions') <= 1
  /\ ingestion'[i1].tries = 0
  /\ embedding'[2] = NoJob
  /\ UNCHANGED <<focus, publicationVars, connectionVars, meteringVars, channelVars>>

Promotion ==
  /\ \E a \in Reviewers :
       EndPromotion(a) \/ \E n \in DOMAIN version : BeginPromotion(a, n)
  /\ Cardinality({a \in Reviewers : desk'[a] # AtDesk}) <= 1

\* Edits: the console, beside drafts that are made elsewhere.
EditsNext ==
  /\ focus = "edits"
  /\ PublicationNext
  /\ \A v \in DOMAIN agent' : agent'[v].state = "DRAFT"
  /\ UNCHANGED <<focus, knowledgeVars, connectionVars, meteringVars, channelVars>>

\* Release: two versions, with the knowledge promoted at some point.
ReleasesNext ==
  /\ focus = "release"
  /\ \/ PublicationNext /\ UNCHANGED knowledgeVars
     \/ Promotion /\ UNCHANGED publicationVars
     \/ \E n \in DOMAIN version : PublishKnowledge(n) /\ UNCHANGED publicationVars
  /\ \A e \in Editors : form'[e].at # "editing"
  /\ Latest' <= 2
  /\ \A v \in DOMAIN agent' : agent'[v].knowledge = 1
  /\ UNCHANGED <<focus, connectionVars, meteringVars, channelVars>>

\* Connections: a privacy job and a redeployment do not meet in one behaviour.
ConnectedNext ==
  /\ focus = "connections"
  /\ ConnectionsNext
  /\ forsaken' = {} \/ masterKey' = "old"
  /\ UNCHANGED <<focus, knowledgeVars, publicationVars, meteringVars, channelVars>>

\* Runs: what the turns of the agent reserve, use and record.
RunsNext ==
  /\ focus = "runs"
  /\ MeteringNext
  /\ hour' = hour
  /\ UNCHANGED <<focus, knowledgeVars, publicationVars, connectionVars, channelVars,
                 allocated, allocator>>

\* Hours: two schedulers record the stored bytes.
HoursNext ==
  /\ focus = "hours"
  /\ MeteringNext
  /\ UNCHANGED <<focus, knowledgeVars, publicationVars, connectionVars, channelVars,
                 run, budget, alerts>>

\* Numbers: two tenants and two administrators want the same number.
NumbersNext ==
  /\ focus = "numbers"
  /\ AccountsNext
  /\ UNCHANGED <<focus, knowledgeVars, publicationVars, connectionVars, meteringVars,
                 mediaVars, linkVars>>

\* Media: an object that two messages carry.
MediaHandledNext ==
  /\ focus = "media"
  /\ MediaNext
  /\ UNCHANGED <<focus, knowledgeVars, publicationVars, connectionVars, meteringVars,
                 accountVars, linkVars>>

\* Links: two visits to the link of an approval.
LinksNext ==
  /\ focus = "links"
  /\ LinkNext
  /\ UNCHANGED <<focus, knowledgeVars, publicationVars, connectionVars, meteringVars,
                 accountVars, mediaVars>>

MCNext ==
  \/ ReviewNext
  \/ VersionsNext
  \/ EditsNext
  \/ ReleasesNext
  \/ ConnectedNext
  \/ RunsNext
  \/ HoursNext
  \/ NumbersNext
  \/ MediaHandledNext
  \/ LinksNext

MCSpec == MCInit /\ [][MCNext]_MCvars

\* Ingestions, tenants and messages are named alike: no part has two of them.
Alike == Permutations({p1, p2}) \cup Permutations(Ingestions)

--------------------------------------------------------------------------------
\* Every variable has the shape the code gives it.
PlatformTypesOK ==
  /\ KnowledgeTypeOK /\ PublicationTypeOK /\ ConnectionsTypeOK /\ MeteringTypeOK
  /\ AccountsTypeOK /\ MediaTypeOK /\ LinkTypeOK
===============================================================================

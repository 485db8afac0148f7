--------------------------- MODULE SocietyPublish ---------------------------
(***************************************************************************)
(* Publication of research in crates/fractal-society/src: a package of     *)
(* bytes (commit_service.rs), a pipeline run with its proof (pipeline.rs,  *)
(* persistence/), an artifact directory (artifact_format/), and a reviewed *)
(* paper with its concept index and git commit (research_package.rs,       *)
(* concept_index.rs, git_output.rs); and what is read back and verified.   *)
(*                                                                         *)
(* Each publication is a sequence of effects on files, logs and the chain, *)
(* carried out one after the other by one process; any of them may fail,   *)
(* and a crash may leave a file cut short or a line without its end.       *)
(* Retries are further publications.  A hash stands for what is hashed.    *)
(***************************************************************************)
EXTENDS Values, SequencesExt, TLC

CONSTANTS
  Authors, Payloads,
  Times,        \* what a caller may give as now, or a chain answer with
  Runs,         \* the pipeline runs
  RunReports,   \* RunReports[r]: whether each verifier passed run r
  Papers,       \* the reviewed papers
  ConceptsOf,   \* ConceptsOf[p]: the concepts of a paper, in order
  MaxJobs,      \* bound: publications
  MaxFaults     \* bound: failures and crashes

ConceptKinds == {"topic", "contribution", "openProblem", "claim", "system", "method", "deadEnd"}
ConceptStates == {"active", "supported", "refuted", "superseded", "abandoned"}

ASSUME PublishAssumption ==
  /\ MaxJobs \in Nat /\ MaxFaults \in Nat
  /\ \A p \in Papers :
       /\ Len(ConceptsOf[p]) \in Nat /\ DOMAIN ConceptsOf[p] = 1 .. Len(ConceptsOf[p])
       /\ \A i \in DOMAIN ConceptsOf[p] :
            ConceptsOf[p][i].kind \in ConceptKinds /\ ConceptsOf[p][i].status \in ConceptStates

VARIABLES
  store,     \* the artifact store: "whole" or "torn" per hash
  eventLog,  \* the lines of the event log
  onChain,   \* the hashes submitted to the chain
  dir,       \* the files of the output directories: content and state per path
  index,     \* the lines of concept-index.jsonl
  repo,      \* the directories and the index of the last git commit
  pub,       \* the publication under way: what it publishes and its next effect
  receipts,  \* the publications that returned Ok
  jobs, faults

publishVars == <<store, eventLog, onChain, dir, index, repo, pub, receipts, jobs, faults>>

---------------------------------------------------------------------------
\* A document, up to canonical_json: what it is, who signed it, what it is about, the
\* chain reference or time it carries, and the one its signature covers.
Doc(kind, by, of, ref, sig) == [kind |-> kind, by |-> by, of |-> of, ref |-> ref, sig |-> sig]
Plain(kind, of) == Doc(kind, "nobody", of, 0, 0)

\* The payload of a package.
Payload(p) == Plain("payload", p)

\* ArtifactManifest with created_at, as manifest_signable_bytes signs it.
PackageManifest(job) == Doc("packageManifest", job.by, job.of, job.at, job.at)

\* ProofManifest by proof_manifest::build; run_pipeline_with_commitment attaches
\* the chain reference of the hash without it and signs again.
ProofManifest(job, anchored) ==
  LET ref == IF anchored THEN job.at ELSE 0 IN Doc("proof", job.by, job.of, ref, ref)

\* RunBundle::new, which names the three hashes.
Bundle(job) == [ProofManifest(job, job.anchored) EXCEPT !.kind = "bundle"]

\* verify_author of either manifest: the signature covers the whole of it.
SignedBy(doc, author) == doc.by = author /\ doc.sig = doc.ref

---------------------------------------------------------------------------
\* reward_gate::evaluate with the window closed and one pass required.
RewardReleased(reports) ==
  /\ \A i \in DOMAIN reports : reports[i]
  /\ Cardinality({i \in DOMAIN reports : reports[i]}) >= 1

\* PipelineOutcome::stage, of a run whose evidence hash is not empty.
StageOf(out) ==
  IF out.reward THEN "reward" ELSE IF out.committed THEN "commit"
  ELSE IF out.reports # <<>> THEN "verify" ELSE "score"

\* The outcome run_pipeline_with_commitment returns: committed in any case.
OutcomeOf(job) ==
  [reports |-> RunReports[job.of], committed |-> TRUE, reward |-> RewardReleased(RunReports[job.of])]

---------------------------------------------------------------------------
\* An effect: store.put, event_log.append, submit, a file of a directory, a
\* line of the index, a git commit.
Effect(op, doc, at) == [op |-> op, doc |-> doc, at |-> at]
Nowhere == Plain("nowhere", "none")

\* commit_research_package
CommitResearchPackage(job) ==
  <<Effect("put", Payload(job.of), Nowhere), Effect("put", PackageManifest(job), Nowhere),
    Effect("event", Payload(job.of), PackageManifest(job)),
    Effect("submit", Payload(job.of), Nowhere)>>

\* put_canonical and append_event.
Persist(doc) == <<Effect("put", doc, Nowhere), Effect("event", doc, doc)>>

\* run_pipeline_with_commitment: submit the hash of the manifest as built.
AnchorRun(job) ==
  IF job.anchored THEN <<Effect("submit", ProofManifest(job, FALSE), Nowhere)>> ELSE <<>>

\* Seeded defect: the bundle is stored first.
PersistPipelineResultFirst(job) ==
  AnchorRun(job) \o Persist(Bundle(job)) \o Persist(Plain("evidence", job.of))
  \o Persist(Plain("scorecard", job.of)) \o Persist(ProofManifest(job, job.anchored))

\* persist_pipeline_result
PersistPipelineResult(job) ==
  AnchorRun(job) \o Persist(Plain("evidence", job.of)) \o Persist(Plain("scorecard", job.of))
  \o Persist(ProofManifest(job, job.anchored)) \o Persist(Bundle(job))

\* submit_rlmf_attestation of a root or, without one, a commitment hash.
SubmitAttestation(job) == <<Effect("submit", Plain("attestation", job.of), Nowhere)>>

\* A path of the artifact directory.
ArtifactPath(name) == Plain("artifactPath", name)

\* The directory of a paper goes by its package_id.
PaperPath(paper, name) == Doc("paperPath", paper, name, 0, 0)

\* A page rendered from the manifest.
PageOf(kind, proof) == [proof EXCEPT !.kind = kind]

\* build_files of an artifact: the pages of text stand for one before and one
\* after the evidence.
ArtifactFiles(job) ==
  LET proof == ProofManifest(job, job.anchored)
  IN <<<<"paper", PageOf("page", proof)>>, <<"manifest", proof>>,
       <<"scorecard", Plain("scorecard", job.of)>>, <<"bundle", Bundle(job)>>,
       <<"card", PageOf("card", proof)>>>>
     \o (IF job.graph THEN <<<<"graph", Plain("graph", job.of)>>>> ELSE <<>>)

\* write_artifact_dir: the files, then directory-manifest.json.
WriteArtifactDir(job) ==
  [i \in DOMAIN ArtifactFiles(job) |->
     Effect("write", ArtifactFiles(job)[i][2], ArtifactPath(ArtifactFiles(job)[i][1]))]
  \o <<Effect("write", [Bundle(job) EXCEPT !.kind = "listing"], ArtifactPath("listing"))>>

\* add_node refuses an id it has, and build_graph ignores that: the concepts
\* that are the first of their id, ...
FirstOfId(concepts) == {i \in DOMAIN concepts : \A j \in 1 .. i - 1 : concepts[j].id # concepts[i].id}

\* ... in their order.
GraphOf(concepts) ==
  LET first == FirstOfId(concepts)
      places == InPlaces(first, {p \in first \X first : p[1] < p[2]})
  IN [i \in DOMAIN places |-> concepts[places[i]]]

\* build_graph: the kind and the status a concept gets as a node.
NodeKind(kind) ==
  CASE kind \in {"topic", "contribution", "openProblem"} -> "approach"
    [] kind = "claim" -> "hypothesis" [] kind \in {"system", "method"} -> "strategy"
    [] kind = "deadEnd" -> "deadEnd"
NodeStatus(status) ==
  CASE status = "active" -> "active" [] status = "supported" -> "proven"
    [] status = "refuted" -> "disproven" [] status = "superseded" -> "superseded"
    [] status = "abandoned" -> "abandoned"

\* kind_from_node
KindFromNode(kind) ==
  CASE kind = "hypothesis" -> "claim" [] kind = "strategy" -> "system"
    [] kind \in {"deadEnd", "abandoned"} -> "deadEnd" [] kind \in {"approach", "config"} -> "contribution"

\* status_from_node
StatusFromNode(status) ==
  CASE status = "active" -> "active" [] status = "proven" -> "supported"
    [] status = "disproven" -> "refuted" [] status = "superseded" -> "superseded"
    [] status = "abandoned" -> "abandoned"

\* entries_for: a row for each node of the graph.
EntriesFor(paper) ==
  [i \in DOMAIN GraphOf(ConceptsOf[paper]) |->
     LET c == GraphOf(ConceptsOf[paper])[i]
     IN Doc(KindFromNode(NodeKind(c.kind)), paper, c.id, StatusFromNode(NodeStatus(c.status)), 0)]

\* The root hash of the files of a paper.
PaperRoot(paper) == Plain("root", paper)

\* build_files of a paper: the pages, claims.json and concepts.json.
PaperFiles == <<"pages", "claims", "concepts">>

\* What they hold follows from the digest.
PaperContent(name, paper) == Plain(name, paper)

\* assemble_package: the files, ...
PaperWrites(job) ==
  [i \in DOMAIN PaperFiles |-> Effect("write", PaperContent(PaperFiles[i], job.of), PaperPath(job.of, PaperFiles[i]))]

\* ... the root hash to the chain, ...
PaperSubmit(job) ==
  IF job.anchored THEN <<Effect("submit", PaperRoot(job.of), Nowhere)>> ELSE <<>>

\* ... the manifest signed with its chain reference, the directory manifest.
PaperManifests(job) ==
  <<Effect("write", Doc("paperManifest", job.by, job.of, job.at, job.at), PaperPath(job.of, "manifest")),
    Effect("write", Plain("listing", job.of), PaperPath(job.of, "listing"))>>

\* concept_index::append
IndexAppend(job) == [i \in DOMAIN EntriesFor(job.of) |-> Effect("line", EntriesFor(job.of)[i], Nowhere)]

\* commit_package_to_repo: one commit of everything.
CommitToRepo == <<Effect("commit", Nowhere, Nowhere)>>

\* The compile_paper example.
CompilePaper(job) ==
  PaperWrites(job) \o PaperSubmit(job) \o PaperManifests(job) \o IndexAppend(job) \o CommitToRepo

EffectsOf(job) ==
  CASE job.op = "package" -> CommitResearchPackage(job)
    [] job.op = "run" -> PersistPipelineResult(job)
    [] job.op = "artifact" -> WriteArtifactDir(job)
    [] job.op = "paper" -> CompilePaper(job)
    [] job.op = "attest" -> SubmitAttestation(job)

---------------------------------------------------------------------------
\* Lines of an append-only file: good if they parse, ended by a newline.
Line(entry, good, ended) == [entry |-> entry, good |-> good, ended |-> ended]

\* Appending to a file whose last line has no end glues the two together.
Appended(lines, entry, good, ended) ==
  IF lines # <<>> /\ ~Last(lines).ended
  THEN [lines EXCEPT ![Len(lines)] = Line(@.entry, FALSE, ended)]
  ELSE Append(lines, Line(entry, good, ended))

\* replay and read_all: one line that does not parse fails the whole file.
ReadableLines(lines) == \A i \in DOMAIN lines : lines[i].good

\* FileEventLog::append drops an event whose id it has.
Logged(lines, doc) == \E i \in DOMAIN lines : lines[i].entry.of = doc

IdleJob == [job |-> [op |-> "none"], at |-> 0]
Publishing == pub # IdleJob

PublishInit ==
  /\ store = Empty /\ eventLog = <<>> /\ onChain = {} /\ dir = Empty /\ index = <<>>
  /\ repo = [dir |-> Empty, index |-> <<>>]
  /\ pub = IdleJob /\ receipts = {} /\ jobs = 0 /\ faults = 0

\* A publication begins.  Empty payloads and ids are refused before any effect.
Begin(job) ==
  /\ ~Publishing /\ jobs < MaxJobs
  /\ pub' = [job |-> job, at |-> 1] /\ jobs' = jobs + 1
  /\ UNCHANGED <<store, eventLog, onChain, dir, index, repo, receipts, faults>>

\* FileArtifactStore::put rewrites the file, also one that is there.
PerformPut(e) ==
  /\ e.op = "put" /\ store' = Put(store, e.doc, "whole")
  /\ UNCHANGED <<eventLog, onChain, dir, index, repo>>

\* FileEventLog::append reads the whole log first and drops an id it has.
PerformEvent(e) ==
  /\ e.op = "event" /\ ReadableLines(eventLog)
  /\ eventLog' = IF Logged(eventLog, e.doc) THEN eventLog
                 ELSE Appended(eventLog, [of |-> e.doc, to |-> e.at], TRUE, TRUE)
  /\ UNCHANGED <<store, onChain, dir, index, repo>>

\* submit of an adapter: the hash is on the chain, the answer says where.
PerformSubmit(e) ==
  /\ e.op = "submit" /\ onChain' = onChain \cup {e.doc}
  /\ UNCHANGED <<store, eventLog, dir, index, repo>>

\* write_file
PerformWrite(e) ==
  /\ e.op = "write" /\ dir' = Put(dir, e.at, [doc |-> e.doc, state |-> "whole"])
  /\ UNCHANGED <<store, eventLog, onChain, index, repo>>

\* A line of the concept index, which is not read first.
PerformLine(e) ==
  /\ e.op = "line" /\ index' = Appended(index, e.doc, TRUE, TRUE)
  /\ UNCHANGED <<store, eventLog, onChain, dir, repo>>

\* git add -A and git commit, which fails when there is nothing to commit.
PerformCommit(e) ==
  /\ e.op = "commit" /\ repo # [dir |-> dir, index |-> index]
  /\ repo' = [dir |-> dir, index |-> index]
  /\ UNCHANGED <<store, eventLog, onChain, dir, index>>

Perform(e) ==
  PerformPut(e) \/ PerformEvent(e) \/ PerformSubmit(e) \/ PerformWrite(e) \/ PerformLine(e) \/ PerformCommit(e)

\* The next effect goes through; after the last one the call returns Ok.
AdvanceJob ==
  /\ Publishing
  /\ \E effects \in {EffectsOf(pub.job)} :
       /\ Perform(effects[pub.at])
       /\ IF pub.at = Len(effects)
          THEN pub' = IdleJob /\ receipts' = receipts \cup {pub.job}
          ELSE pub' = [pub EXCEPT !.at = @ + 1] /\ UNCHANGED receipts
  /\ UNCHANGED <<jobs, faults>>

\* An error of the next effect: what was done before stays.  The log that does
\* not parse and the commit with nothing to commit refuse by themselves.
RefuseJob ==
  /\ Publishing
  /\ \E e \in {EffectsOf(pub.job)[pub.at]} :
       \/ e.op = "event" /\ ~ReadableLines(eventLog)
       \/ e.op = "commit" /\ repo = [dir |-> dir, index |-> index]
  /\ pub' = IdleJob
  /\ UNCHANGED <<store, eventLog, onChain, dir, index, repo, receipts, jobs, faults>>

\* An input or output error, or a crash before the effect; the answer of the
\* chain may be lost after the hash went in.
Fail ==
  /\ Publishing /\ faults < MaxFaults
  /\ \E e \in {EffectsOf(pub.job)[pub.at]} :
       onChain' \in {onChain} \cup (IF e.op = "submit" THEN {onChain \cup {e.doc}} ELSE {})
  /\ pub' = IdleJob /\ faults' = faults + 1
  /\ UNCHANGED <<store, eventLog, dir, index, repo, receipts, jobs>>

\* A crash in the middle of a write: fs::write has truncated the file, the line
\* is cut or lacks its newline.
Tear ==
  /\ Publishing /\ faults < MaxFaults
  /\ \E e \in {EffectsOf(pub.job)[pub.at]}, good \in BOOLEAN :
       \/ /\ e.op = "put" /\ good
          /\ store' = Put(store, e.doc, "torn") /\ UNCHANGED <<eventLog, dir, index>>
       \/ /\ e.op = "write" /\ good
          /\ dir' = Put(dir, e.at, [doc |-> e.doc, state |-> "torn"])
          /\ UNCHANGED <<store, eventLog, index>>
       \/ /\ e.op = "event" /\ ReadableLines(eventLog) /\ ~Logged(eventLog, e.doc)
          /\ eventLog' = Appended(eventLog, [of |-> e.doc, to |-> e.at], good, FALSE)
          /\ UNCHANGED <<store, dir, index>>
       \/ /\ e.op = "line"
          /\ index' = Appended(index, e.doc, good, FALSE) /\ UNCHANGED <<store, eventLog, dir>>
  /\ pub' = IdleJob /\ faults' = faults + 1
  /\ UNCHANGED <<onChain, repo, receipts, jobs>>

\* The calls a user may make. The time of a manifest is the caller's, so that a
\* retry may give the same one again and store the same manifest.
Jobs ==
  [op : {"package"}, by : Authors, of : Payloads, at : Times, anchored : {TRUE}, graph : {FALSE}]
  \cup [op : {"run"}, by : Authors, of : Runs, at : Times, anchored : BOOLEAN, graph : {FALSE}]
  \cup [op : {"artifact"}, by : Authors, of : Runs, at : Times, anchored : {TRUE}, graph : BOOLEAN]
  \cup [op : {"paper"}, by : {"reviewer"}, of : Papers, at : Times, anchored : BOOLEAN, graph : {FALSE}]
  \cup [op : {"attest"}, by : Authors, of : Payloads, at : Times, anchored : {TRUE}, graph : {FALSE}]

PublishNext == (\E job \in Jobs : Begin(job)) \/ AdvanceJob \/ RefuseJob \/ Fail \/ Tear

PublishSpec == PublishInit /\ [][PublishNext]_publishVars

---------------------------------------------------------------------------
\* find_manifest_hash: the first event of the content hash, or none.
FindManifest(h) ==
  LET at == {i \in DOMAIN eventLog : eventLog[i].entry.of = h /\ h.kind = "payload"}
  IN IF at = {} THEN Nowhere ELSE eventLog[Min(at)].entry.to

\* retrieve_research_package succeeds: a torn manifest does not parse, a torn
\* payload is not noticed.
Retrievable(h) ==
  /\ h \in DOMAIN store /\ ReadableLines(eventLog)
  /\ FindManifest(h) # Nowhere /\ Get(store, FindManifest(h), "absent") = "whole"

\* verify_package of what was retrieved for h: the bytes, the manifest, its
\* signature and the committed hash.
VerifyPackage(h, author) ==
  /\ store[h] = "whole"
  /\ Payload(FindManifest(h).of) = h /\ SignedBy(FindManifest(h), author)

\* What get_verified finds for a hash.
Loaded(h) == Get(store, h, "absent") = "whole"

\* offline_verify::verify: the manifest repeats the hashes of the bundle and has
\* the proof hash itself, and its author signed it.
OfflineVerifies(bundle, proof, author) ==
  [proof EXCEPT !.kind = "bundle"] = bundle /\ SignedBy(proof, author)

\* load_proof: the artifacts the bundle names, then the verdict.
ProofVerifies(bundle, author) ==
  LET proof == [bundle EXCEPT !.kind = "proof"]
  IN /\ Loaded(proof) /\ Loaded(Plain("scorecard", bundle.of)) /\ Loaded(Plain("evidence", bundle.of))
     /\ OfflineVerifies(bundle, proof, author)

\* known_paths
KnownPaths(hasGraph) ==
  {"paper", "manifest", "scorecard", "bundle", "card"} \cup (IF hasGraph THEN {"graph"} ELSE {})

\* read_artifact_dir: the parts that must parse, and the root hash of all.
Parsed == {"manifest", "scorecard", "bundle"}
HasGraph == ArtifactPath("graph") \in DOMAIN dir
DirReadable ==
  /\ \A name \in Parsed \cup (IF HasGraph THEN {"graph"} ELSE {}) :
       ArtifactPath(name) \in DOMAIN dir /\ dir[ArtifactPath(name)].state = "whole"
  /\ \A name \in KnownPaths(HasGraph) : ArtifactPath(name) \in DOMAIN dir
ReadRoot == [name \in KnownPaths(HasGraph) |-> dir[ArtifactPath(name)]]

\* The root hash write_artifact_dir returned.
WrittenRoot(job) ==
  [name \in KnownPaths(job.graph) |->
     LET i == CHOOSE i \in DOMAIN ArtifactFiles(job) : ArtifactFiles(job)[i][1] = name
     IN [doc |-> ArtifactFiles(job)[i][2], state |-> "whole"]]

\* read_all of the committed index, which query and dead_end_count filter.
IndexRows == {repo.index[i].entry : i \in DOMAIN repo.index}
IndexReadable == ReadableLines(repo.index)

---------------------------------------------------------------------------
(* Properties *)

\* A package on the chain is linked, while the log can be read, to a manifest
\* that is stored with its payload. It can be retrieved from its hash alone unless
\* a crash in a republication cut that manifest (put rewrites in place a file it
\* has), and verify_package then accepts it for exactly one author, or for nobody
\* while the payload is cut.
OnChainVerifies ==
  \A h \in onChain : h.kind = "payload" /\ ReadableLines(eventLog) =>
    /\ FindManifest(h) # Nowhere /\ {h, FindManifest(h)} \subseteq DOMAIN store
    /\ Retrievable(h) \/ store[FindManifest(h)] = "torn"
    /\ Retrievable(h) => Cardinality({a \in Authors : VerifyPackage(h, a)}) = (IF Loaded(h) THEN 1 ELSE 0)

\* A hash goes to the chain only when what it commits to is there: of a package
\* the payload whole and, if the log can be read, a link to a stored manifest. The
\* package cannot be retrieved then only if that is the manifest of an earlier
\* publication, whose event FileEventLog::append keeps, and a crash cut it. Of a
\* paper, all files.
AnchoredIsBacked ==
  [][\A h \in onChain' \ onChain :
       /\ h.kind = "payload" =>
            /\ Loaded(h)
            /\ ReadableLines(eventLog) /\ ~Retrievable(h) =>
                 FindManifest(h) # PackageManifest(pub.job) /\ Get(store, FindManifest(h), "absent") = "torn"
       /\ h.kind = "root" => \A i \in DOMAIN PaperFiles :
            Get(dir, PaperPath(h.of, PaperFiles[i]), [doc |-> h, state |-> "absent"]).state = "whole"]_publishVars

\* A stored bundle can be loaded: the artifacts it names were stored before it,
\* and unless a crash tore one of them, load_proof verifies it for its author.
BundleIsLoadable ==
  \A b \in DOMAIN store : b.kind = "bundle" =>
    LET parts == {[b EXCEPT !.kind = "proof"], Plain("scorecard", b.of), Plain("evidence", b.of)}
    IN /\ parts \subseteq DOMAIN store
       /\ (\A d \in parts : store[d] = "whole") => ProofVerifies(b, b.by)

\* A write of an artifact directory ends with a directory that read_artifact_dir
\* reads back with the root hash write_artifact_dir returns, whatever an earlier
\* write or a crash had left in it; except for a graph left by an earlier write
\* that had one, which the reader takes for part of this one.
RootIsRead ==
  pub.job.op = "artifact" /\ pub.at = Len(EffectsOf(pub.job)) =>
    \/ DirReadable /\ ReadRoot = WrittenRoot(pub.job)
    \/ HasGraph /\ ~pub.job.graph

\* A run whose reward is released was passed by every verifier and at least one,
\* its evidence, scorecard, proof and bundle are stored, and if it was to be
\* anchored the hash of its manifest is on the chain (reward_gate::evaluate runs
\* before any of this, persist_pipeline_result after).
RewardIsBacked ==
  \A job \in receipts : job.op = "run" /\ StageOf(OutcomeOf(job)) = "reward" =>
    /\ RunReports[job.of] # <<>> /\ \A i \in DOMAIN RunReports[job.of] : RunReports[job.of][i]
    /\ {Plain("evidence", job.of), Plain("scorecard", job.of), ProofManifest(job, job.anchored), Bundle(job)} \subseteq DOMAIN store
    /\ job.anchored => ProofManifest(job, FALSE) \in onChain

\* The concept index keeps what was found out: once a paper is committed, each
\* concept of its graph (of several with one id the first, as build_graph drops
\* the others in silence) is listed in the repository with the status the
\* reviewer gave it and dead ends as dead ends, unless a line of the index was
\* torn.
IndexKeepsStatus ==
  \A job \in receipts : job.op = "paper" /\ IndexReadable =>
    \A i \in DOMAIN GraphOf(ConceptsOf[job.of]) :
      LET c == GraphOf(ConceptsOf[job.of])[i]
      IN \E row \in IndexRows :
           /\ row.by = job.of /\ row.of = c.id /\ row.ref = c.status
           /\ (row.kind = "deadEnd") = (c.kind = "deadEnd")

\* Publication (commit_service.rs, pipeline.rs, artifact_format,
\* concept_index.rs): with a stop between any two effects, what the chain
\* points to verifies unless a crash cut it, a stored bundle loads, a directory
\* reads back as it was written, a released reward is backed and a dead end
\* stays one.
PublishSafe ==
  /\ OnChainVerifies /\ BundleIsLoadable /\ RootIsRead
  /\ RewardIsBacked /\ IndexKeepsStatus

=============================================================================

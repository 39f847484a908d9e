----------------------- MODULE KnowledgePublication ------------------------
(***************************************************************************)
(* Publication and rollback of the governed knowledge (the publication     *)
(* service of knowledge/review.py, publication_sources.py and              *)
(* publication_endpoints.py), over the records of KnowledgeReview.         *)
(*                                                                         *)
(* A publication is an immutable manifest: one published revision of each  *)
(* record it has.  A new one starts from the one that is active, which the *)
(* caller names, takes records out, puts records in, and becomes active in *)
(* the transaction that creates it; an older one can be made active again. *)
(* The navigation graph is rebuilt with every activation.                  *)
(*                                                                         *)
(* The access groups of the caller, the coverage by the embedding index,   *)
(* cardinalities, hierarchies, sizes and the preview only make the code    *)
(* refuse more and are left out; a refusal changes nothing.                *)
(***************************************************************************)
EXTENDS KnowledgeReview

CONSTANTS MaxActivations   \* bound of the model: publications and rollbacks
ASSUME PublicationAssumption == MaxActivations \in Nat

VARIABLES
    pubs,     \* the publications, in the order of their generations
    current,  \* the active one, 0 for none
    graph,    \* what each of them has in the navigation graph
    log       \* the activations

publicationVars == <<pubs, current, graph, log>>
knowledgeVars == <<reviewVars, publicationVars>>

\* A revision is <<record, number>>.
ChainOf(r)  == IF r \in Mentions THEN mentions[r] ELSE facts[r]
Content(x)  == ChainOf(x[1])[x[2]]
Names(E)    == {x[1] : x \in E}
InText(E)   == {VersionOf[x[1]] : x \in E}

ManifestOf(p) == IF p = 0 THEN {} ELSE pubs[p].manifest
Change(p) == <<pubs[p].base, pubs[p].sources, pubs[p].removed, pubs[p].replaced>>

PublicationInit ==
    /\ pubs = <<>> /\ current = 0
    /\ graph = {} /\ log = <<>>

\* The whole document, with all its chunks, is there under its own policy.
Servable(v) ==
    /\ active[DocumentOf[v]] # NoVersion /\ v \notin retired
    /\ chunkPolicy[v] = policy[DocumentOf[v]]

\* Mutant: a release is restored whatever became of its sources.
LoadableByRecord(p) ==
    p # 0 => \A x \in ManifestOf(p) : Content(x).status = "PUBLISHED"

\* The sources and the revisions of a publication can all still be read.
Loadable(p) ==
    p # 0 =>
        /\ \A v \in InText(ManifestOf(p)) : Servable(v)
        /\ \A x \in ManifestOf(p) :
              /\ Content(x).status = "PUBLISHED"
              /\ Content(x).policy = chunkPolicy[VersionOf[x[1]]]
              /\ Content(x).tbox = pubs[p].tbox

\* A head that may enter a publication.
Publishable(x) ==
    /\ Readable(x[1], ChainOf(x[1]), x[2])
    /\ Content(x).status \in Endorsed

\* The entries of the old release go, those of the new one are built.
Rematerialized(old, new, manifest) ==
    {g \in graph : g.by # old} \cup {[by |-> new, entry |-> x] : x \in manifest}

\* Mutant: the publication that is left stays marked as active.
ActivateBeside(new, action, all, manifest) ==
    /\ Len(log) < MaxActivations
    /\ pubs' = [all EXCEPT ![new].status = "ACTIVE"]
    /\ graph' = Rematerialized(current, new, manifest)
    /\ log' = Append(log, [action |-> action, from |-> current, to |-> new])
    /\ current' = new

\* The state's pointer moves from the old release to the new one.
Activate(new, action, all, manifest) ==
    /\ Len(log) < MaxActivations
    /\ pubs' = [p \in DOMAIN all |->
                  [all[p] EXCEPT !.status = IF p = new THEN "ACTIVE"
                                            ELSE IF p = current THEN "RETIRED" ELSE @]]
    /\ graph' = Rematerialized(current, new, manifest)
    /\ log' = Append(log, [action |-> action, from |-> current, to |-> new])
    /\ current' = new

-----------------------------------------------------------------------------

Carried(removed, replaced) ==
    {x \in ManifestOf(current) : x[1] \notin removed \cup replaced}

\* Mutant: a revision that is published already gets a successor too.
PublishedAnew(sources) == {<<x[1], x[2] + 1>> : x \in sources}

\* Mutant: the manifest names the approvals.
PublishedAsNamed(sources) == sources

\* The published revisions that the sources become.
Published(sources) ==
    {<<x[1], IF Content(x).status = "APPROVED" THEN x[2] + 1 ELSE x[2]>> : x \in sources}

\* An endpoint that goes into the release: a source or a carried revision, or
\* the approval of which a carried revision is the unchanged successor.
Translated(end, sources, carried) ==
    LET m == end.mention
        k == end.n
    IN  \/ <<m, k>> \in sources \cup carried
        \/ /\ <<m, k + 1>> \in carried
           /\ mentions[m][k].status = "APPROVED" /\ Visible(m, mentions[m][k])
           /\ mentions[m][k + 1] = [mentions[m][k] EXCEPT !.status = "PUBLISHED"]

\* Mutant: what was closed in its base is taken to be closed.
ClosedBefore(E, manifest) == TRUE

\* The facts among E are about mentions in the manifest.
ClosedIn(E, manifest) ==
    \A x \in E : x[1] \in Facts =>
        \A s \in Slots[x[1]] :
            LET end == Content(x).ends[s] IN <<end.mention, end.n>> \in manifest

OneVersionEach(E) ==
    \A v, w \in InText(E) : DocumentOf[v] = DocumentOf[w] => v = w

\* A record of the release changes only if the caller says so.
NewNames(sources, removed, carried) ==
    Names(sources) \cap (removed \cup Names(carried)) = {}

\* The publication's id is the digest of the change; a repeated request finds
\* the publication and changes nothing.
Unknown(change) == \A p \in DOMAIN pubs : Change(p) # change

Publish(sources, removed, replaced) ==
    LET carried  == Carried(removed, replaced)
        manifest == carried \cup Published(sources)
        fresh    == {x \in sources : Content(x).status = "APPROVED"}
        new == [base |-> current, sources |-> sources, removed |-> removed,
                replaced |-> replaced, manifest |-> manifest,
                tbox |-> tbox, status |-> "BUILDING"]
    IN  /\ removed \cap replaced = {}
        /\ sources \cup removed \cup replaced # {}
        /\ replaced # {} => sources # {}
        /\ Unknown(<<current, sources, removed, replaced>>)
        /\ Loadable(current)
        /\ removed \cup replaced \subseteq Names(ManifestOf(current))
        /\ \A x \in sources : Publishable(x)
        /\ NewNames(sources, removed, carried)
        /\ \A x \in fresh : x[1] \in Facts =>
              \A s \in Slots[x[1]] : Translated(Content(x).ends[s], sources, carried)
        /\ ClosedIn(carried \cup (sources \ fresh), manifest)
        /\ \A x \in carried \cup sources : Content(x).tbox = tbox
        /\ manifest = {} => pubs[current].tbox = tbox
        /\ manifest # ManifestOf(current)
        /\ \A v \in InText(manifest) : Servable(v)
        /\ OneVersionEach(manifest)
        /\ Release(Names(fresh) \cap Mentions, Names(fresh) \cap Facts)
        /\ Activate(Len(pubs) + 1, "PUBLISH", Append(pubs, new), manifest)

Rollback(target) ==
    /\ current # 0 /\ target # current
    /\ Loadable(target)
    /\ Activate(target, "ROLLBACK", pubs, ManifestOf(target))
    /\ UNCHANGED reviewVars

\* Retirement also asks whether the active publication uses the document.
Cited(d) == \E v \in InText(ManifestOf(current)) : DocumentOf[v] = d

RetireUncited(d) ==
    /\ ~Cited(d)
    /\ RetireDocument(d)
    /\ UNCHANGED publicationVars

\* A published mention is chosen only from the active publication.
ReassignFromRelease(f, n, x, t, k) ==
    /\ mentions[t][k].status = "PUBLISHED" => <<t, k>> \in ManifestOf(current)
    /\ ReassignProperty(f, n, x, t, k)
    /\ UNCHANGED publicationVars

Heads == {x \in {<<r, Len(ChainOf(r))>> : r \in Mentions \cup Facts} : Publishable(x)}

KnowledgeInit == ReviewInit /\ PublicationInit

KnowledgeNext ==
    \/ Review /\ UNCHANGED publicationVars
    \/ \E f \in Facts, x, t \in Mentions :
          \E n \in 1..Len(facts[f]), k \in 1..Len(mentions[t]) :
             ReassignFromRelease(f, n, x, t, k)
    \/ \E removed \in SUBSET Names(ManifestOf(current)) :
          \E replaced \in SUBSET (Names(ManifestOf(current)) \ removed) :
             \E sources \in SUBSET Heads : Publish(sources, removed, replaced)
    \/ \E target \in DOMAIN pubs : Rollback(target)
    \/ \E v \in Versions, p \in 1..MaxPolicy :
          PublishVersion(v, p) /\ UNCHANGED publicationVars
    \/ \E d \in Documents : RetireUncited(d)
    \/ ActivateTBox /\ UNCHANGED publicationVars

KnowledgeSpec == KnowledgeInit /\ [][KnowledgeNext]_knowledgeVars

-----------------------------------------------------------------------------
(***************************************************************************)
(* Properties.                                                             *)
(***************************************************************************)

PublicationTypeOK ==
    /\ ReviewTypeOK
    /\ current \in 0..Len(pubs)
    /\ \A p \in DOMAIN pubs :
          /\ pubs[p].base \in 0..(p - 1)
          /\ pubs[p].status \in {"ACTIVE", "RETIRED"}
          /\ pubs[p].tbox \in 1..MaxTBox
          /\ \A x \in pubs[p].manifest :
                x[1] \in Mentions \cup Facts /\ x[2] \in 1..Len(ChainOf(x[1]))
    /\ \A g \in graph : g.by \in DOMAIN pubs
    /\ \A i \in DOMAIN log : log[i].from \in 0..Len(pubs) /\ log[i].to \in DOMAIN pubs

\* Every publication ever completed can stand alone: one published revision
\* of each record, all under one T-Box and from one version of each document,
\* and the facts are about mentions that are in it too.
ManifestsStandAlone ==
    \A p \in DOMAIN pubs :
        LET E == pubs[p].manifest
        IN  /\ \A x, y \in E : x[1] = y[1] => x = y
            /\ \A x \in E : Content(x).status = "PUBLISHED" /\ Content(x).tbox = pubs[p].tbox
            /\ \A x \in E : x[1] \in Facts =>
                  \A s \in Slots[x[1]] :
                      \E y \in E : y = <<Content(x).ends[s].mention, Content(x).ends[s].n>>
            /\ \A x, y \in E :
                  LET v == VersionOf[x[1]] w == VersionOf[y[1]]
                  IN  DocumentOf[v] = DocumentOf[w] => v = w

\* Nothing but an import is published outside a publication, and whatever was
\* published stays in the manifest that published it.
EveryReleaseRecorded ==
    \A r \in Mentions \cup Facts : \A i \in 1..Len(ChainOf(r)) :
        LET rev == ChainOf(r)[i]
        IN  rev.status = "PUBLISHED" /\ rev.origin = "OTHER" =>
                \E p \in DOMAIN pubs : <<r, i>> \in pubs[p].manifest

\* The activations form one chain to the active publication, each publication
\* enters it once as new, from its base, and it alone is marked active and
\* shown by the navigation graph.  A change set is published once, whatever is
\* rolled back in between.
ActivationsChain ==
    /\ \A p, q \in DOMAIN pubs : Change(p) = Change(q) => p = q
    /\ graph = {[by |-> current, entry |-> x] : x \in ManifestOf(current)}
    /\ \A i \in DOMAIN log : log[i].from = IF i = 1 THEN 0 ELSE log[i - 1].to
    /\ current = IF log = <<>> THEN 0 ELSE log[Len(log)].to
    /\ \A p \in DOMAIN pubs :
          /\ (pubs[p].status = "ACTIVE") = (p = current)
          /\ \E i \in DOMAIN log : log[i] = [action |-> "PUBLISH", from |-> pubs[p].base, to |-> p]
    /\ \A i, j \in DOMAIN log :
          log[i].action = "PUBLISH" /\ log[j].action = "PUBLISH" /\ log[i].to = log[j].to => i = j

\* What is served was not withdrawn: no source of the active publication is
\* retired, whichever of publishing, restoring and retiring comes first.
ServedIsNotWithdrawn ==
    \A v \in InText(ManifestOf(current)) :
        active[DocumentOf[v]] # NoVersion /\ v \notin retired

\* "Hidden, stale or already-approved dependents cannot be silently left
\* attached to an identity that has just been split" (review.py,
\* _review_batch_tx): after a split no live fact has an endpoint on an
\* earlier revision of the mention.
SplitLeavesNoFactBehind ==
    [][\A m \in Mentions : \A n \in 1..Len(mentions[m]) :
          SplitMention(m, n) => Dependents(m, 1..n, Pending \cup Endorsed)' = {}]_knowledgeVars
=============================================================================

-------------------------- MODULE KnowledgeReview --------------------------
(***************************************************************************)
(* The governed knowledge records (knowledge/store.py) and their review    *)
(* (knowledge/review.py, property_assignment.py, identity_review.py).      *)
(*                                                                         *)
(* A record, the mention of an entity in a text or a fact, is a chain of   *)
(* immutable revisions under a head.  A fact names the revisions of the    *)
(* mentions it is about, and the entities it took them for.  Every         *)
(* operation is one transaction that locks the heads it changes and        *)
(* compares them with the revisions its caller saw, so an operation is one *)
(* action, and its argument n is a revision the caller may have read long  *)
(* ago.  A batch of decisions is the sequence of its members.              *)
(*                                                                         *)
(* Documents and the ontology move under the records: another version of a *)
(* document becomes the active one, its access policy changes, it is       *)
(* retired, a new T-Box replaces the old.  The text, the typing of         *)
(* entities and predicates, and who may read what are abstract: they only  *)
(* make the code refuse more.                                              *)
(***************************************************************************)
EXTENDS Naturals, Sequences, FiniteSets

CONSTANTS
    Mentions,      \* ids of the mentions
    Facts,         \* ids of the assertions
    Entities,      \* the identities an extraction or an editor may name
    Documents,
    Versions,      \* versions of documents, each with its one snapshot
    DocumentOf,    \* the document of a version
    VersionOf,     \* the version whose chunk is the evidence of a record
    Slots,         \* the endpoints of a fact: a literal has no object
    NoVersion, NoEdit,
    LegacyImport,  \* allow_legacy_authoritative_import
    MaxRevisions,  \* bounds of the model: the revisions of each record,
    MaxPolicy,     \* the versions of access policies
    MaxTBox        \* and of the T-Box

ASSUME ReviewAssumption ==
    /\ DocumentOf \in [Versions -> Documents]
    /\ VersionOf \in [Mentions \cup Facts -> Versions]
    /\ Slots \in [Facts -> {{"subject"}, {"subject", "object"}}]
    /\ NoVersion \notin Versions
    /\ Mentions \cap Facts = {}
    /\ LegacyImport \in BOOLEAN
    /\ MaxRevisions \in [Mentions \cup Facts -> Nat]
    /\ MaxPolicy \in Nat \ {0} /\ MaxTBox \in Nat \ {0}

VARIABLES
    mentions,     \* the revisions of each mention, the head's being the last
    facts,        \* the revisions of each fact
    active,       \* the active version of each document, or NoVersion
    retired,      \* the versions that were active when their document retired
    policy,       \* the access policy's version of each document
    chunkPolicy,  \* and of the chunks of each version, 0 before it is ingested
    tbox          \* the active T-Box

recordVars == <<mentions, facts>>
sourceVars == <<active, retired, policy, chunkPolicy>>
reviewVars == <<recordVars, sourceVars, tbox>>

Status     == {"CANDIDATE", "APPROVED", "PUBLISHED", "QUARANTINED", "REJECTED"}
Origins    == {"EXPERT_IMPORT", "OTHER"}
Pending    == {"CANDIDATE", "QUARANTINED"}
Endorsed   == {"APPROVED", "PUBLISHED"}
Decisions  == {"APPROVED", "REJECTED", "QUARANTINED"}

\* The identity that a split of revision n of mention m creates is its own.
Identities == Entities \cup (Mentions \X Nat)
OwnIdentity(m, n) == <<m, n>>

Endpoints == [mention : Mentions, n : Nat \ {0}, entity : Identities]
MentionRevisions ==
    [status : Status, origin : Origins, entity : Identities,
     policy : 1..MaxPolicy, tbox : 1..MaxTBox]
FactRevisions(f) ==
    [status : Status, origin : Origins, ends : [Slots[f] -> Endpoints],
     policy : 1..MaxPolicy, tbox : 1..MaxTBox]

RecordsTypeOK ==
    /\ mentions \in [Mentions -> Seq(MentionRevisions)]
    /\ \A m \in Mentions : Len(mentions[m]) <= MaxRevisions[m]
    /\ facts = [f \in Facts |-> facts[f]]
    /\ \A f \in Facts : facts[f] \in Seq(FactRevisions(f)) /\ Len(facts[f]) <= MaxRevisions[f]

SourcesTypeOK ==
    /\ active \in [Documents -> Versions \cup {NoVersion}]
    /\ \A d \in Documents : active[d] # NoVersion => DocumentOf[active[d]] = d
    /\ retired \subseteq Versions
    /\ policy \in [Documents -> 1..MaxPolicy]
    /\ chunkPolicy \in [Versions -> 0..MaxPolicy]
    /\ tbox \in 1..MaxTBox

ReviewTypeOK == RecordsTypeOK /\ SourcesTypeOK

ReviewInit ==
    /\ mentions = [m \in Mentions |-> <<>>]
    /\ facts = [f \in Facts |-> <<>>]
    /\ active = [d \in Documents |-> NoVersion]
    /\ retired = {}
    /\ policy = [d \in Documents |-> 1]
    /\ chunkPolicy = [v \in Versions |-> 0]
    /\ tbox = 1

-----------------------------------------------------------------------------
(***************************************************************************)
(* Heads, and what the queries on them can see.                            *)
(***************************************************************************)

Written(chain) == chain # <<>>
Latest(chain)  == chain[Len(chain)]

\* Every record of new gets the revision that new has for it.
Extend(chains, new) ==
    [r \in DOMAIN chains |->
        IF r \in DOMAIN new THEN Append(chains[r], new[r]) ELSE chains[r]]

Room(chains, R) == \A r \in R : Len(chains[r]) < MaxRevisions[r]

\* A revision answers while its version is its document's active one, under
\* the access policy and the T-Box it was written under.
Visible(r, rev) ==
    LET v == VersionOf[r]
    IN  /\ active[DocumentOf[v]] = v
        /\ rev.policy = chunkPolicy[v]
        /\ rev.tbox = tbox

\* The head is locked, compared with n and read under the queue's guards.
Readable(r, chain, n) ==
    n = Len(chain) /\ n > 0 /\ Visible(r, chain[n])

\* The endpoint that names revision k of m, and those a fact in v can have.
Named(m, k) == [mention |-> m, n |-> k, entity |-> mentions[m][k].entity]
Nameable(v) ==
    UNION {{Named(m, k) : k \in 1..Len(mentions[m])} :
             m \in {x \in Mentions : VersionOf[x] = v}}

\* The facts whose head has a status in S and an endpoint among the
\* revisions K of m; hidden ones are those no reviewer can see.
Dependents(m, K, S) ==
    {f \in Facts :
        /\ Written(facts[f]) /\ Latest(facts[f]).status \in S
        /\ \E s \in Slots[f] : LET e == Latest(facts[f]).ends[s]
                               IN  e.mention = m /\ e.n \in K}
Seen(F) == {f \in F : Visible(f, Latest(facts[f]))}

\* Mutant: a moved endpoint keeps the identity it had.
ReboundKeeping(f, m, K, end, status) ==
    LET old == Latest(facts[f])
    IN  [old EXCEPT !.status = status,
                    !.ends = [s \in Slots[f] |->
                                IF old.ends[s].mention = m /\ old.ends[s].n \in K
                                THEN [end EXCEPT !.entity = old.ends[s].entity]
                                ELSE old.ends[s]]]

\* The head of f with the endpoints among the revisions K of m moved to end.
Rebound(f, m, K, end, status) ==
    LET old == Latest(facts[f])
    IN  [old EXCEPT !.status = status,
                    !.ends = [s \in Slots[f] |->
                                IF old.ends[s].mention = m /\ old.ends[s].n \in K
                                THEN end ELSE old.ends[s]]]

-----------------------------------------------------------------------------
(***************************************************************************)
(* New records.                                                            *)
(***************************************************************************)

\* A batch writes mentions M and facts F about them, ent and to being what
\* they say; a record may only be cited from the text it is found in now.
Batch(M, F, ent, to, status, origin) ==
    /\ M # {}
    /\ Room(mentions, M) /\ Room(facts, F)
    /\ \A r \in M \cup F :
          active[DocumentOf[VersionOf[r]]] = VersionOf[r]
    /\ \A f \in F, s \in {"subject", "object"} :
          s \in Slots[f] => VersionOf[to[f][s]] = VersionOf[f]
    /\ mentions' = Extend(mentions,
          [m \in M |-> [status |-> status, origin |-> origin, entity |-> ent[m],
                        policy |-> chunkPolicy[VersionOf[m]], tbox |-> tbox]])
    /\ facts' = Extend(facts,
          [f \in F |-> [status |-> status, origin |-> origin,
                        ends |-> [s \in Slots[f] |->
                                    [mention |-> to[f][s],
                                     n |-> Len(mentions[to[f][s]]) + 1,
                                     entity |-> ent[to[f][s]]]],
                        policy |-> chunkPolicy[VersionOf[f]], tbox |-> tbox]])
    /\ UNCHANGED <<sourceVars, tbox>>

\* What an extraction, a rule or a person proposes.
PersistCandidates(M, F, ent, to, status) ==
    /\ status \in Pending
    /\ \A m \in M : ~Written(mentions[m])
    /\ \A f \in F : ~Written(facts[f])
    /\ Batch(M, F, ent, to, status, "OTHER")

\* The reviewed records of an expert, over whatever the heads were.
ImportAuthoritative(M, F, ent, to) ==
    /\ LegacyImport
    /\ Batch(M, F, ent, to, "PUBLISHED", "EXPERT_IMPORT")

\* A property found through the document's structure, on an existing mention.
PersistContextCandidate(f, m) ==
    /\ Slots[f] = {"subject"} /\ ~Written(facts[f]) /\ Room(facts, {f})
    /\ VersionOf[m] = VersionOf[f]
    /\ Written(mentions[m])
    /\ LET k == Len(mentions[m])
           now == mentions[m][k]
       IN  /\ Visible(m, now)
           /\ now.status \in {"CANDIDATE", "APPROVED", "PUBLISHED"}
           /\ now.origin = "OTHER"
           /\ facts' = Extend(facts,
                [g \in {f} |-> [status |-> "CANDIDATE", origin |-> "OTHER",
                                ends |-> [s \in Slots[g] |-> Named(m, k)],
                                policy |-> now.policy, tbox |-> now.tbox]])
    /\ UNCHANGED <<mentions, sourceVars, tbox>>

-----------------------------------------------------------------------------
(***************************************************************************)
(* Review.                                                                 *)
(***************************************************************************)

\* Nothing in the code ever takes a record to SUPERSEDED.
LegalTransitions ==
    [s \in Status |->
        CASE s = "CANDIDATE"   -> {"APPROVED", "QUARANTINED", "REJECTED"}
          [] s = "APPROVED"    -> {"PUBLISHED", "QUARANTINED", "REJECTED"}
          [] s = "PUBLISHED"   -> {"QUARANTINED"}
          [] s = "QUARANTINED" -> {"CANDIDATE", "APPROVED", "REJECTED"}
          [] s = "REJECTED"    -> {}]

\* A corrected draft stays in quarantine.
MayBecome(s, d, edit) ==
    \/ d \in LegalTransitions[s]
    \/ s = "QUARANTINED" /\ d = "QUARANTINED" /\ edit # NoEdit

\* The facts that a decision on m sends back to review, whichever of its
\* revisions they are on.
Unsettled(m, old, d, edit) ==
    IF d = "QUARANTINED" /\ (edit # NoEdit \/ old.status = "APPROVED")
    THEN Seen(Dependents(m, 1..Len(mentions[m]), Pending \cup {"APPROVED"}))
    ELSE {}

DecideMention(m, n, d, edit) ==
    /\ Readable(m, mentions[m], n)
    /\ LET old == mentions[m][n]
           new == [old EXCEPT !.status = d,
                              !.entity = IF edit = NoEdit THEN @ ELSE edit]
           end == [mention |-> m, n |-> n + 1, entity |-> new.entity]
           moved == Unsettled(m, old, d, edit)
       IN  /\ MayBecome(old.status, d, edit)
           /\ Room(mentions, {m}) /\ Room(facts, moved)
           /\ mentions' = Extend(mentions, [x \in {m} |-> new])
           /\ facts' = Extend(facts,
                [f \in moved |-> Rebound(f, m, 1..n, end, "QUARANTINED")])
    /\ UNCHANGED <<sourceVars, tbox>>

\* Entity resolution: m is taken for entity e, and so by the facts awaiting
\* review on exactly the revision that the reviewer saw.
Resolve(m, n, e) ==
    /\ Readable(m, mentions[m], n)
    /\ mentions[m][n].status \in Pending
    /\ LET end == [mention |-> m, n |-> n + 1, entity |-> e]
           moved == Seen(Dependents(m, {n}, Pending))
       IN  /\ Room(mentions, {m}) /\ Room(facts, moved)
           /\ mentions' = Extend(mentions,
                [x \in {m} |-> [mentions[m][n] EXCEPT !.status = "APPROVED", !.entity = e]])
           /\ facts' = Extend(facts,
                [f \in moved |-> Rebound(f, m, {n}, end, Latest(facts[f]).status)])
    /\ UNCHANGED <<sourceVars, tbox>>

\* Linked to an entity somebody proposed or another mention already has.
LinkMention(m, n) ==
    \E e \in Entities \cup {Latest(mentions[x]).entity :
                              x \in {y \in Mentions : Written(mentions[y])}} :
        Resolve(m, n, e)

\* Split off as an identity of its own, unless a fact would stay behind.
SplitMention(m, n) ==
    /\ Dependents(m, {n}, Pending \cup Endorsed) = Seen(Dependents(m, {n}, Pending))
    /\ Resolve(m, n, OwnIdentity(m, n))

\* Mutant: an approval takes the endpoints as they are.
EndorsedByAnyone(f, end) ==
    LET chain == mentions[end.mention]
    IN  /\ VersionOf[end.mention] = VersionOf[f]
        /\ Written(chain) /\ Visible(end.mention, Latest(chain))
        /\ Latest(chain).entity = end.entity

\* The head of the mention is approved and means what the fact says.
EndorsedBy(f, end) ==
    LET chain == mentions[end.mention]
    IN  /\ VersionOf[end.mention] = VersionOf[f]
        /\ Written(chain) /\ Visible(end.mention, Latest(chain))
        /\ Latest(chain).status \in Endorsed
        /\ Latest(chain).entity = end.entity

\* An approved fact moves to the heads of its mentions.
DecideFact(f, n, d, edit) ==
    /\ Readable(f, facts[f], n) /\ Room(facts, {f})
    /\ LET old == facts[f][n]
           ends == IF edit = NoEdit THEN old.ends ELSE edit
       IN  /\ MayBecome(old.status, d, edit)
           /\ d = "APPROVED" => \A s \in Slots[f] : EndorsedBy(f, ends[s])
           /\ facts' = Extend(facts,
                [g \in {f} |->
                    [old EXCEPT !.status = d,
                                !.ends = [s \in Slots[f] |->
                                    LET m == ends[s].mention
                                    IN  IF d = "APPROVED" THEN Named(m, Len(mentions[m]))
                                        ELSE ends[s]]]])
    /\ UNCHANGED <<mentions, sourceVars, tbox>>

\* A mention an identity may be chosen from, seen at revision k.
Confirmed(t, k) ==
    /\ k = Len(mentions[t]) /\ k > 0
    /\ LET v == VersionOf[t]
           now == mentions[t][k]
       IN  /\ now.tbox = tbox /\ now.policy = chunkPolicy[v]
           /\ active[DocumentOf[v]] # NoVersion /\ v \notin retired
           /\ \/ now.status = "APPROVED" /\ active[DocumentOf[v]] = v
              \/ now.status = "PUBLISHED"

\* A property is given to the entity of mention t, through a mention x of its
\* own that cites the property's text.
ReassignProperty(f, n, x, t, k) ==
    /\ Slots[f] = {"subject"}
    /\ Readable(f, facts[f], n) /\ facts[f][n].status \in Pending
    /\ Confirmed(t, k)
    /\ VersionOf[x] = VersionOf[f] /\ ~Written(mentions[x])
    /\ MaxRevisions[x] >= 2 /\ Room(facts, {f})
    /\ LET old == facts[f][n]
           e == mentions[t][k].entity
           proposed == [status |-> "CANDIDATE", origin |-> old.origin, entity |-> e,
                        policy |-> old.policy, tbox |-> old.tbox]
       IN  /\ e # old.ends["subject"].entity
           /\ mentions' = [mentions EXCEPT ![x] =
                             <<proposed, [proposed EXCEPT !.status = "APPROVED"]>>]
           /\ facts' = Extend(facts,
                [g \in {f} |-> [old EXCEPT !.status = "QUARANTINED",
                                           !.ends = [s \in Slots[f] |->
                                [mention |-> x, n |-> 2, entity |-> e]]]])
    /\ UNCHANGED <<sourceVars, tbox>>

-----------------------------------------------------------------------------
(***************************************************************************)
(* What publication does to the records: the approved heads of mentions M  *)
(* and facts F get a published successor each, and the facts move to the   *)
(* published revisions of their mentions.                                  *)
(***************************************************************************)

\* Mutant: whatever is not rejected can be published.
ApprovedEnough(r, chain) ==
    Written(chain) /\ Latest(chain).status # "REJECTED" /\ Visible(r, Latest(chain))

Approved(r, chain) ==
    Written(chain) /\ Latest(chain).status = "APPROVED" /\ Visible(r, Latest(chain))

AsPublished(M) ==
    Extend(mentions, [m \in M |-> [Latest(mentions[m]) EXCEPT !.status = "PUBLISHED"]])

\* The revision itself or, if that is an approval, its successor.
PublishedEnd(end, after) ==
    [end EXCEPT !.n = IF after[end.mention][@].status = "PUBLISHED" THEN @ ELSE @ + 1]

Release(M, F) ==
    LET after == AsPublished(M)
    IN  /\ \A m \in M : Approved(m, mentions[m])
        /\ \A f \in F : Approved(f, facts[f])
        /\ Room(mentions, M) /\ Room(facts, F)
        /\ \A f \in F : \A s \in Slots[f] :
              LET end == Latest(facts[f]).ends[s]
                  j == PublishedEnd(end, after).n
              IN  /\ j \in 1..Len(after[end.mention])
                  /\ after[end.mention][j] =
                        [mentions[end.mention][end.n] EXCEPT !.status = "PUBLISHED"]
        /\ mentions' = after
        /\ facts' = Extend(facts,
             [f \in F |-> [Latest(facts[f]) EXCEPT
                             !.status = "PUBLISHED",
                             !.ends = [s \in Slots[f] |->
                                         PublishedEnd(Latest(facts[f]).ends[s], after)]]])
        /\ UNCHANGED <<sourceVars, tbox>>

-----------------------------------------------------------------------------
(***************************************************************************)
(* The ground the records stand on (see IngestionLifecycle).               *)
(***************************************************************************)

\* Ingestion publishes v, for the first time or again, perhaps with a newer
\* access policy; the chunks of other versions keep theirs.
PublishVersion(v, p) ==
    LET d == DocumentOf[v]
    IN  /\ p >= policy[d]
        /\ active' = [active EXCEPT ![d] = v]
        /\ retired' = retired \ {v}
        /\ policy' = [policy EXCEPT ![d] = p]
        /\ chunkPolicy' = [chunkPolicy EXCEPT ![v] = p]
        /\ UNCHANGED <<recordVars, tbox>>

RecordsOf(d) == {r \in Mentions \cup Facts : DocumentOf[VersionOf[r]] = d}

\* The records of a document that review has not finished with.
InReview(d) ==
    {m \in RecordsOf(d) \cap Mentions :
        Written(mentions[m]) /\ Latest(mentions[m]).status \in Pending \cup {"APPROVED"}}
    \cup
    {f \in RecordsOf(d) \cap Facts :
        Written(facts[f]) /\ Latest(facts[f]).status \in Pending \cup {"APPROVED"}}

RetireDocument(d) ==
    /\ active[d] # NoVersion
    /\ InReview(d) = {}
    /\ retired' = retired \cup {active[d]}
    /\ active' = [active EXCEPT ![d] = NoVersion]
    /\ UNCHANGED <<recordVars, policy, chunkPolicy, tbox>>

\* A draft of a higher version becomes the T-Box.
ActivateTBox ==
    /\ tbox < MaxTBox
    /\ tbox' = tbox + 1
    /\ UNCHANGED <<recordVars, sourceVars>>

NewRecords ==
    \E M \in SUBSET Mentions, F \in SUBSET Facts :
       \E ent \in [M -> Entities], to \in [F -> [{"subject", "object"} -> M]] :
          \/ \E status \in Pending : PersistCandidates(M, F, ent, to, status)
          \/ ImportAuthoritative(M, F, ent, to)

MentionReview ==
    \E m \in Mentions : \E n \in 1..Len(mentions[m]) :
       \/ \E d \in Decisions, edit \in Entities \cup {NoEdit} : DecideMention(m, n, d, edit)
       \/ LinkMention(m, n)
       \/ SplitMention(m, n)

FactReview ==
    \E f \in Facts : \E n \in 1..Len(facts[f]), d \in Decisions :
       \E edit \in [Slots[f] -> Nameable(VersionOf[f])] \cup {NoEdit} :
          DecideFact(f, n, d, edit)

Review ==
    \/ NewRecords
    \/ \E f \in Facts, m \in Mentions : PersistContextCandidate(f, m)
    \/ MentionReview
    \/ FactReview

Reassignment ==
    \E f \in Facts, x, t \in Mentions :
       \E n \in 1..Len(facts[f]), k \in 1..Len(mentions[t]) :
          ReassignProperty(f, n, x, t, k)

ReviewNext ==
    \/ Review
    \/ Reassignment
    \/ \E M \in SUBSET Mentions, F \in SUBSET Facts : Release(M, F)
    \/ \E v \in Versions, p \in 1..MaxPolicy : PublishVersion(v, p)
    \/ \E d \in Documents : RetireDocument(d)
    \/ ActivateTBox

ReviewSpec == ReviewInit /\ [][ReviewNext]_reviewVars

-----------------------------------------------------------------------------
(***************************************************************************)
(* Properties.                                                             *)
(***************************************************************************)

\* Every revision of a fact takes its mentions for the entities that the
\* revisions it names take them for, in its own text: no rebinding, by an
\* edit, a resolution, a reassignment or a publication, leaves the two apart.
EndpointsAgree ==
    \A f \in Facts : \A i \in 1..Len(facts[f]) : \A s \in Slots[f] :
        LET e == facts[f][i].ends[s]
        IN  /\ VersionOf[e.mention] = VersionOf[f]
            /\ e.n \in 1..Len(mentions[e.mention])
            /\ mentions[e.mention][e.n].entity = e.entity

\* A fact is approved only on approved mentions, published only on published
\* ones (_approved_endpoint_tx, the translation map of _publish_tx).
FactsRestOnEndorsed ==
    \A f \in Facts : \A i \in 1..Len(facts[f]) : \A s \in Slots[f] :
        LET rev == facts[f][i]
            base == mentions[rev.ends[s].mention][rev.ends[s].n]
        IN  /\ rev.status = "APPROVED" => base.status \in Endorsed
            /\ rev.status = "PUBLISHED" => base.status = "PUBLISHED"

\* Nothing that was not imported is published but what was approved, exactly
\* as it was approved.
PublishedAsApproved ==
    /\ \A m \in Mentions : \A i \in 1..Len(mentions[m]) :
          LET rev == mentions[m][i]
          IN  rev.status = "PUBLISHED" /\ rev.origin = "OTHER" =>
                  i > 1 /\ mentions[m][i - 1] = [rev EXCEPT !.status = "APPROVED"]
    /\ \A f \in Facts : \A i \in 1..Len(facts[f]) :
          LET rev == facts[f][i]
          IN  rev.status = "PUBLISHED" /\ rev.origin = "OTHER" =>
                  /\ i > 1
                  /\ facts[f][i - 1].status = "APPROVED"
                  /\ \A s \in Slots[f] :
                        /\ facts[f][i - 1].ends[s].mention = rev.ends[s].mention
                        /\ facts[f][i - 1].ends[s].entity = rev.ends[s].entity

\* Only an expert's import follows a rejection.
RejectedIsFinal ==
    /\ \A m \in Mentions : \A i \in 1..Len(mentions[m]) - 1 :
          mentions[m][i].status = "REJECTED" => mentions[m][i + 1].origin = "EXPERT_IMPORT"
    /\ \A f \in Facts : \A i \in 1..Len(facts[f]) - 1 :
          facts[f][i].status = "REJECTED" => facts[f][i + 1].origin = "EXPERT_IMPORT"

=============================================================================

---------------------- MODULE KnowledgePublication_proofs ----------------------
(***************************************************************************)
(* Every release stands alone, the activations are one chain, and nothing  *)
(* withdrawn is served.                                                    *)
(*                                                                         *)
(* A step of publication is, for the records, a step of review, so that    *)
(* the records stay sound (KnowledgeReview_proofs).  Chains only grow, so  *)
(* that a manifest means for ever what it meant when it was published      *)
(* (ReleaseKeeps); what is new is the manifest that Publish writes         *)
(* (NewReleaseStands).                                                     *)
(***************************************************************************)
EXTENDS KnowledgePublication, KnowledgeReview_proofs

Records == Mentions \cup Facts
Entries == Records \X (Nat \ {0})

\* What a publication is before and after it is activated.
Releases ==
    [base : Nat, sources : SUBSET Entries, removed : SUBSET Records,
     replaced : SUBSET Records, manifest : SUBSET Entries, tbox : 1..MaxTBox,
     status : {"BUILDING", "ACTIVE", "RETIRED"}]

\* An entry of a release: a published revision under its T-Box and, if it is a
\* fact, about revisions that are entries too.
EntrySound(x, E, t) ==
    /\ x \in Entries /\ x[2] \in 1..Len(ChainOf(x[1]))
    /\ Content(x).status = "PUBLISHED" /\ Content(x).tbox = t
    /\ x[1] \in Facts =>
          \A s \in Slots[x[1]] : <<Content(x).ends[s].mention, Content(x).ends[s].n>> \in E

OnePerRecord(E) == \A x, y \in E : x[1] = y[1] => x = y

StandsAlone(E, t) ==
    /\ \A x \in E : EntrySound(x, E, t)
    /\ OnePerRecord(E)
    /\ OneVersionEach(E)

ReleasesStand == \A p \in DOMAIN pubs : StandsAlone(pubs[p].manifest, pubs[p].tbox)

ReleasesTyped ==
    /\ pubs \in Seq(Releases) /\ current \in 0..Len(pubs)
    /\ log \in Seq([action : {"PUBLISH", "ROLLBACK"}, from : Nat, to : Nat])
    /\ \A i \in DOMAIN log : log[i].to \in DOMAIN pubs

KnowledgeInv ==
    /\ ReviewInv /\ ReleasesTyped /\ ReleasesStand
    /\ ActivationsChain /\ ServedIsNotWithdrawn

-----------------------------------------------------------------------------
(***************************************************************************)
(* Releases keep.                                                          *)
(***************************************************************************)

\* A release stands whatever is added to the records.
LEMMA ReleaseKeeps ==
  ASSUME ChainsGrow, NEW E, NEW t, StandsAlone(E, t)
  PROVE  StandsAlone(E, t)'
<1>1. ASSUME NEW x \in E
      PROVE  EntrySound(x, E, t)'
  <2>1. EntrySound(x, E, t)
    BY DEF StandsAlone
  <2>2. x[1] \in Records /\ x[2] \in 1..Len(ChainOf(x[1]))
    BY <2>1 DEF EntrySound, Entries
  <2>3. Longer(ChainOf(x[1]), ChainOf(x[1])')
    BY <2>2 DEF ChainsGrow, ChainOf, Records
  <2>4. x[2] \in 1..Len(ChainOf(x[1])') /\ ChainOf(x[1])'[x[2]] = ChainOf(x[1])[x[2]]
    BY <2>2, <2>3 DEF Longer
  <2>5. Content(x)' = Content(x)
    BY <2>4 DEF Content
  <2> QED
    BY <2>1, <2>4, <2>5 DEF EntrySound
<1>2. OnePerRecord(E)' /\ OneVersionEach(E)'
  BY DEF StandsAlone, OnePerRecord, OneVersionEach, InText
<1> QED
  BY <1>1, <1>2 DEF StandsAlone

-----------------------------------------------------------------------------
(***************************************************************************)
(* An activation.                                                          *)
(***************************************************************************)

\* They are the same but for the mark.
SameRelease(a, b) ==
    /\ a.base = b.base /\ a.sources = b.sources /\ a.removed = b.removed
    /\ a.replaced = b.replaced /\ a.manifest = b.manifest /\ a.tbox = b.tbox

Activations == [action : {"PUBLISH", "ROLLBACK"}, from : Nat, to : Nat]

\* What Activate makes of the releases all.
Turned(new, action, all) ==
    /\ pubs' \in Seq(Releases) /\ Len(pubs') = Len(all)
    /\ \A p \in DOMAIN all :
          /\ SameRelease(pubs'[p], all[p])
          /\ pubs'[p].status = IF p = new THEN "ACTIVE"
                               ELSE IF p = current THEN "RETIRED" ELSE all[p].status
    /\ log' \in Seq(Activations) /\ Len(log') = Len(log) + 1
    /\ \A i \in DOMAIN log : log'[i] = log[i]
    /\ log'[Len(log) + 1] = [action |-> action, from |-> current, to |-> new]
    /\ current' = new

LEMMA ActivationEffect ==
  ASSUME ReleasesTyped, NEW all \in Seq(Releases), NEW new \in DOMAIN all,
         NEW action \in {"PUBLISH", "ROLLBACK"}, NEW manifest,
         Activate(new, action, all, manifest)
  PROVE  Turned(new, action, all)
<1>1. /\ pubs' = [p \in DOMAIN all |->
                    [all[p] EXCEPT !.status = IF p = new THEN "ACTIVE"
                                              ELSE IF p = current THEN "RETIRED" ELSE @]]
      /\ log' = Append(log, [action |-> action, from |-> current, to |-> new])
      /\ current' = new
  BY DEF Activate
<1>2. Len(all) \in Nat /\ DOMAIN all = 1..Len(all)
  BY LenProperties
<1>3. ASSUME NEW p \in DOMAIN all
      PROVE  /\ pubs'[p] \in Releases
             /\ SameRelease(pubs'[p], all[p])
             /\ pubs'[p].status = IF p = new THEN "ACTIVE"
                                  ELSE IF p = current THEN "RETIRED" ELSE all[p].status
  <2>1. PICK a : a = all[p]
    OBVIOUS
  <2>2. a \in Releases
    BY <1>2, <2>1, ElementOfSeq
  <2>3. PICK mark : mark = IF p = new THEN "ACTIVE"
                           ELSE IF p = current THEN "RETIRED" ELSE a.status
    OBVIOUS
  <2>4. mark \in {"BUILDING", "ACTIVE", "RETIRED"}
    BY <2>2, <2>3 DEF Releases
  <2>5. pubs'[p] = [a EXCEPT !.status = mark]
    BY <1>1, <2>1, <2>3
  <2>6. PICK b : b = [a EXCEPT !.status = mark]
    OBVIOUS
  <2>7. b \in Releases /\ SameRelease(b, a) /\ b.status = mark
    BY <2>2, <2>4, <2>6 DEF Releases, SameRelease
  <2> QED
    BY <2>1, <2>3, <2>5, <2>6, <2>7
<1>4. pubs' \in Seq(Releases) /\ Len(pubs') = Len(all)
  <2>1. pubs' \in [1..Len(all) -> Releases]
    BY <1>1, <1>2, <1>3
  <2>2. pubs' \in Seq(Releases)
    BY <1>2, <2>1, SeqDef
  <2>3. Len(pubs') \in Nat /\ 1..Len(pubs') = 1..Len(all)
    BY <2>1, <2>2, LenProperties
  <2> QED
    BY <1>2, <2>2, <2>3
<1>5. PICK entry : entry = [action |-> action, from |-> current, to |-> new]
  OBVIOUS
<1>6. entry \in Activations
  <2>1. current \in Nat /\ new \in Nat
    BY <1>2, LenProperties DEF ReleasesTyped
  <2> QED
    BY <1>5, <2>1 DEF Activations
<1>7. log \in Seq(Activations) /\ DOMAIN log = 1..Len(log)
  BY LenProperties DEF ReleasesTyped, Activations
<1>8. /\ log' \in Seq(Activations) /\ Len(log') = Len(log) + 1
      /\ \A i \in DOMAIN log : log'[i] = log[i]
      /\ log'[Len(log) + 1] = entry
  BY <1>1, <1>5, <1>6, <1>7, AppendProperties
<1> QED
  BY <1>1, <1>3, <1>4, <1>5, <1>8 DEF Turned

\* The chain of activations goes on, whether with a new release or an old one.
LEMMA ChainGoesOn ==
  ASSUME ReleasesTyped, ActivationsChain,
         NEW all \in Seq(Releases), NEW new \in DOMAIN all,
         NEW action \in {"PUBLISH", "ROLLBACK"},
         Activate(new, action, all, all[new].manifest),
         \A p \in DOMAIN pubs : p \in DOMAIN all /\ all[p] = pubs[p],
         \A p \in DOMAIN all : p \in DOMAIN pubs \/ p = new,
         action = "PUBLISH" <=> new \notin DOMAIN pubs,
         action = "PUBLISH" => all[new].base = current /\ Unknown(
            <<all[new].base, all[new].sources, all[new].removed, all[new].replaced>>)
  PROVE  ReleasesTyped' /\ ActivationsChain'
<1>1. /\ pubs' \in Seq(Releases) /\ Len(pubs') = Len(all)
      /\ \A p \in DOMAIN all :
            /\ SameRelease(pubs'[p], all[p])
            /\ pubs'[p].status = IF p = new THEN "ACTIVE"
                                 ELSE IF p = current THEN "RETIRED" ELSE all[p].status
      /\ log' \in Seq(Activations) /\ Len(log') = Len(log) + 1
      /\ \A i \in DOMAIN log : log'[i] = log[i]
      /\ log'[Len(log) + 1] = [action |-> action, from |-> current, to |-> new]
      /\ current' = new
  <2>1. Turned(new, action, all)
    <3>1. PICK manifest : manifest = all[new].manifest
      OBVIOUS
    <3>2. Activate(new, action, all, manifest)
      BY <3>1
    <3> QED
      BY <3>2, ActivationEffect
  <2> QED
    BY <2>1 DEF Turned
<1>2. /\ DOMAIN pubs' = DOMAIN all /\ DOMAIN all = 1..Len(all) /\ Len(all) \in Nat
      /\ DOMAIN pubs = 1..Len(pubs) /\ Len(pubs) \in Nat
      /\ DOMAIN log = 1..Len(log) /\ Len(log) \in Nat
      /\ DOMAIN log' = 1..Len(log) + 1
  BY <1>1, LenProperties DEF ReleasesTyped
<1>3. ReleasesTyped'
  <2>1. \A i \in DOMAIN log' : log'[i].to \in DOMAIN pubs'
    <3>1. ASSUME NEW i \in DOMAIN log
          PROVE  log'[i].to \in DOMAIN pubs'
      BY <1>1, <1>2 DEF ReleasesTyped
    <3>2. log'[Len(log) + 1].to \in DOMAIN pubs'
      BY <1>1, <1>2
    <3> QED
      BY <1>2, <3>1, <3>2
  <2>2. current' \in 0..Len(pubs')
    BY <1>1, <1>2
  <2> QED
    BY <1>1, <2>1, <2>2 DEF ReleasesTyped, Activations
<1>4. \A p, q \in DOMAIN pubs' : Change(p)' = Change(q)' => p = q
  <2>1. ASSUME NEW p \in DOMAIN pubs
        PROVE  Change(p)' = Change(p)
    BY <1>1 DEF Change, SameRelease
  <2>2. Change(new)' = <<all[new].base, all[new].sources, all[new].removed, all[new].replaced>>
    BY <1>1 DEF Change, SameRelease
  <2>3. \A p, q \in DOMAIN pubs : Change(p) = Change(q) => p = q
    BY DEF ActivationsChain
  <2>4. CASE action = "PUBLISH"
    <3>1. \A p \in DOMAIN pubs : Change(p) # Change(new)'
      BY <2>2, <2>4 DEF Unknown
    <3> QED
      BY <1>2, <2>1, <2>3, <3>1
  <2>5. CASE action # "PUBLISH"
    BY <1>2, <2>1, <2>3, <2>5
  <2> QED
    BY <2>4, <2>5
<1>5. graph' = {[by |-> current, entry |-> x] : x \in ManifestOf(current)}'
  <2>1. graph = {[by |-> current, entry |-> x] : x \in ManifestOf(current)}
    BY DEF ActivationsChain
  <2>2. \A g \in graph : g.by = current
    BY <2>1
  <2>3. graph' = {[by |-> new, entry |-> x] : x \in all[new].manifest}
    BY <2>2 DEF Activate, Rematerialized
  <2>4. ManifestOf(current)' = all[new].manifest
    BY <1>1, <1>2 DEF ManifestOf, SameRelease
  <2> QED
    BY <1>1, <2>3, <2>4
<1>6. \A i \in DOMAIN log' : log'[i].from = IF i = 1 THEN 0 ELSE log'[i - 1].to
  <2>1. ASSUME NEW i \in DOMAIN log
        PROVE  log'[i].from = IF i = 1 THEN 0 ELSE log'[i - 1].to
    <3>1. log[i].from = IF i = 1 THEN 0 ELSE log[i - 1].to
      BY DEF ActivationsChain
    <3> QED
      BY <1>1, <1>2, <3>1
  <2>2. ASSUME NEW n, n = Len(log) + 1
        PROVE  log'[n].from = IF n = 1 THEN 0 ELSE log'[n - 1].to
    <3>1. log'[n].from = IF log = <<>> THEN 0 ELSE log[Len(log)].to
      BY <1>1, <2>2 DEF ActivationsChain
    <3>2. log = <<>> <=> n = 1
      <4>1. log \in Seq(Activations)
        BY DEF ReleasesTyped, Activations
      <4> QED
        BY <2>2, <4>1
    <3>3. n # 1 => n - 1 = Len(log) /\ n - 1 \in DOMAIN log
      BY <1>2, <2>2
    <3> QED
      BY <1>1, <3>1, <3>2, <3>3
  <2> QED
    BY <1>2, <2>1, <2>2, SMTT(20)
<1>7. current' = IF log' = <<>> THEN 0 ELSE log'[Len(log')].to
  <2>1. log' # <<>>
    BY <1>1, <1>2, EmptySeq
  <2> QED
    BY <1>1, <2>1
<1>8. ASSUME NEW p \in DOMAIN pubs'
      PROVE  /\ (pubs'[p].status = "ACTIVE") = (p = current')
             /\ \E i \in DOMAIN log' :
                   log'[i] = [action |-> "PUBLISH", from |-> pubs'[p].base, to |-> p]
  <2>1. pubs'[p].base = all[p].base
    BY <1>1, <1>2 DEF SameRelease
  <2>2. CASE p \in DOMAIN pubs
    <3>1. (pubs[p].status = "ACTIVE") = (p = current)
      BY <2>2 DEF ActivationsChain
    <3>2. (pubs'[p].status = "ACTIVE") = (p = current')
      BY <1>1, <1>2, <2>2, <3>1
    <3>3. PICK i \in DOMAIN log :
             log[i] = [action |-> "PUBLISH", from |-> pubs[p].base, to |-> p]
      BY <2>2 DEF ActivationsChain
    <3>4. i \in DOMAIN log' /\ log'[i] = [action |-> "PUBLISH", from |-> pubs'[p].base, to |-> p]
      BY <1>1, <1>2, <2>1, <2>2, <3>3
    <3> QED
      BY <3>2, <3>4
  <2>3. CASE p \notin DOMAIN pubs
    <3>1. p = new /\ action = "PUBLISH"
      BY <1>2, <2>3
    <3>2. (pubs'[p].status = "ACTIVE") = (p = current')
      BY <1>1, <3>1
    <3>3. Len(log) + 1 \in DOMAIN log'
      BY <1>2
    <3>4. log'[Len(log) + 1] = [action |-> "PUBLISH", from |-> pubs'[p].base, to |-> p]
      BY <1>1, <2>1, <3>1
    <3> QED
      BY <3>2, <3>3, <3>4
  <2> QED
    BY <2>2, <2>3
<1>9. ASSUME NEW i \in DOMAIN log', NEW j \in DOMAIN log', log'[i].action = "PUBLISH",
             log'[j].action = "PUBLISH", log'[i].to = log'[j].to
      PROVE  i = j
  <2>1. ASSUME NEW k \in DOMAIN log
        PROVE  log'[k] = log[k] /\ log[k].to \in DOMAIN pubs
    BY <1>1 DEF ReleasesTyped
  <2>2. log'[Len(log) + 1].action = "PUBLISH" => log'[Len(log) + 1].to \notin DOMAIN pubs
    BY <1>1
  <2>3. CASE i \in DOMAIN log /\ j \in DOMAIN log
    BY <1>9, <2>1, <2>3 DEF ActivationsChain
  <2> QED
    BY <1>2, <1>9, <2>1, <2>2, <2>3
<1> QED
  BY <1>3, <1>4, <1>5, <1>6, <1>7, <1>8, <1>9 DEF ActivationsChain

-----------------------------------------------------------------------------
(***************************************************************************)
(* A new release.                                                          *)
(***************************************************************************)

\* What Release makes of a mention, and of a fact, whose chain had n - 1 revisions.
MentionReleased(m, n) ==
    /\ Len(mentions'[m]) = n
    /\ mentions'[m][n].status = "PUBLISHED"
    /\ mentions'[m][n].tbox = Latest(mentions[m]).tbox

FactReleased(f, n) ==
    /\ Len(facts'[f]) = n
    /\ facts'[f][n].status = "PUBLISHED"
    /\ facts'[f][n].tbox = Latest(facts[f]).tbox
    /\ \A s \in Slots[f] :
          facts'[f][n].ends[s] = PublishedEnd(Latest(facts[f]).ends[s], mentions')

LEMMA Released ==
  ASSUME RecordsInv, NEW M \in SUBSET Mentions, NEW F \in SUBSET Facts, Release(M, F)
  PROVE  /\ \A m \in M, n \in Nat : n = Len(mentions[m]) + 1 => MentionReleased(m, n)
         /\ \A f \in F, n \in Nat : n = Len(facts[f]) + 1 => FactReleased(f, n)
<1>1. PICK newM : newM = [m \in M |-> [Latest(mentions[m]) EXCEPT !.status = "PUBLISHED"]]
  OBVIOUS
<1>2. PICK ns : ns = Extend(mentions, newM)
  OBVIOUS
<1>3. PICK newF : newF =
         [f \in F |-> [Latest(facts[f]) EXCEPT
                        !.status = "PUBLISHED",
                        !.ends = [s \in Slots[f] |->
                                    PublishedEnd(Latest(facts[f]).ends[s], ns)]]]
  OBVIOUS
<1>4. AsPublished(M) = ns
  BY <1>1, <1>2 DEF AsPublished
<1>5. /\ mentions' = ns /\ facts' = Extend(facts, newF)
      /\ \A m \in M : Approved(m, mentions[m])
      /\ \A f \in F : Approved(f, facts[f])
  BY <1>3, <1>4 DEF Release
<1>6. ChainsOf(Mentions, mentions) /\ ChainsOf(Facts, facts)
  BY DEF RecordsInv, RecordsSound
<1>7. ASSUME NEW m \in M
      PROVE  /\ Len(mentions'[m]) = Len(mentions[m]) + 1
             /\ mentions'[m][Len(mentions[m]) + 1].status = "PUBLISHED"
             /\ mentions'[m][Len(mentions[m]) + 1].tbox = Latest(mentions[m]).tbox
  <2>1. PICK old : old = Latest(mentions[m])
    OBVIOUS
  <2>2. old \in MentionRevisions /\ mentions[m] \in Seq(MentionRevisions)
    BY <1>5, <2>1, MentionsSound DEF Approved, RecordsInv, RecordsSound, SoundMention
  <2>3. PICK new : new = [old EXCEPT !.status = "PUBLISHED"]
    OBVIOUS
  <2>4. new \in MentionRevisions /\ new.status = "PUBLISHED" /\ new.tbox = old.tbox
    BY <2>2, <2>3 DEF MentionRevisions, Status
  <2>5. m \in DOMAIN newM /\ newM[m] = new
    BY <1>1, <2>1, <2>3
  <2>6. ns[m] = Append(mentions[m], new)
    BY <1>2, <1>6, <2>5, Extended
  <2> QED
    BY <1>5, <2>1, <2>2, <2>4, <2>6, AppendProperties
<1>8. ASSUME NEW f \in F
      PROVE  /\ Len(facts'[f]) = Len(facts[f]) + 1
             /\ facts'[f][Len(facts[f]) + 1].status = "PUBLISHED"
             /\ facts'[f][Len(facts[f]) + 1].tbox = Latest(facts[f]).tbox
             /\ \A s \in Slots[f] :
                   facts'[f][Len(facts[f]) + 1].ends[s] =
                       PublishedEnd(Latest(facts[f]).ends[s], mentions')
  <2>1. PICK old : old = Latest(facts[f])
    OBVIOUS
  <2>2. old \in FactRevisions(f) /\ facts[f] \in Seq(FactRevisions(f))
    BY <1>5, <2>1, FactsSound DEF Approved, RecordsInv, RecordsSound, SoundFact
  <2>3. PICK ends : ends = [s \in Slots[f] |-> PublishedEnd(old.ends[s], ns)]
    OBVIOUS
  <2>4. PICK new : new = [old EXCEPT !.status = "PUBLISHED", !.ends = ends]
    OBVIOUS
  <2>5. new.status = "PUBLISHED" /\ new.tbox = old.tbox /\ new.ends = ends
    BY <2>2, <2>4 DEF FactRevisions
  <2>6. f \in DOMAIN newF /\ newF[f] = new
    BY <1>3, <2>1, <2>3, <2>4
  <2>7. facts'[f] = Append(facts[f], new)
    BY <1>5, <1>6, <2>6, Extended
  <2>8. /\ Len(facts'[f]) = Len(facts[f]) + 1
        /\ facts'[f][Len(facts[f]) + 1] = new
    <3>1. facts[f] \in Seq(FactRevisions(f) \cup {new})
      BY <2>2, SeqMonotonic
    <3> QED
      BY <2>7, <3>1, AppendProperties
  <2> QED
    BY <1>5, <2>1, <2>3, <2>5, <2>8
<1> QED
  BY <1>7, <1>8 DEF MentionReleased, FactReleased

\* What is known of an entry of the new release before its endpoints.
EntryStands(x, t) ==
    /\ x \in Entries /\ x[2] \in 1..Len(ChainOf(x[1]))
    /\ Content(x).status = "PUBLISHED" /\ Content(x).tbox = t

\* The head of a record that is endorsed under T-Box t.
HeadStands(x, t) ==
    /\ x \in Entries /\ x = <<x[1], Len(ChainOf(x[1]))>> /\ Len(ChainOf(x[1])) \in Nat
    /\ Content(x) = Latest(ChainOf(x[1]))
    /\ Content(x).status \in Endorsed /\ Content(x).tbox = t

LEMMA SourcesStand ==
  ASSUME RecordsInv, NEW x \in Heads, Content(x).tbox = tbox
  PROVE  HeadStands(x, tbox)
<1>1. PICK r \in Records : x = <<r, Len(ChainOf(r))>>
  BY DEF Heads, Records
<1>2. Publishable(x) /\ x[1] = r /\ x[2] = Len(ChainOf(r))
  BY <1>1 DEF Heads
<1>3. Len(ChainOf(r)) \in Nat
  BY MentionsSound, FactsSound DEF ChainOf, Records
<1>4. x[2] > 0 /\ Content(x).status \in Endorsed
  BY <1>2 DEF Publishable, Readable
<1>5. x \in Entries
  BY <1>1, <1>2, <1>3, <1>4 DEF Entries
<1>6. Content(x) = Latest(ChainOf(r))
  BY <1>2 DEF Content, Latest
<1> QED
  BY <1>1, <1>2, <1>3, <1>4, <1>5, <1>6 DEF HeadStands

LEMMA CarriedStand ==
  ASSUME ReleasesTyped, ReleasesStand, NEW removed, NEW replaced,
         NEW x \in Carried(removed, replaced), Content(x).tbox = tbox
  PROVE  EntryStands(x, tbox)
<1>1. current # 0 /\ x \in pubs[current].manifest
  BY DEF Carried, ManifestOf
<1>2. current \in DOMAIN pubs
  BY <1>1, LenProperties DEF ReleasesTyped
<1>3. EntrySound(x, pubs[current].manifest, pubs[current].tbox)
  BY <1>1, <1>2 DEF ReleasesStand, StandsAlone
<1> QED
  BY <1>3 DEF EntrySound, EntryStands

\* The new revision of a record that was approved: published, under the same
\* T-Box and, of a fact, with its endpoints moved to published revisions.
LEMMA FreshEntry ==
  ASSUME RecordsInv, NEW M \in SUBSET Mentions, NEW F \in SUBSET Facts, Release(M, F),
         NEW t, NEW x, HeadStands(x, t), x[1] \in M \cup F,
         NEW y, y = <<x[1], x[2] + 1>>
  PROVE  /\ EntryStands(y, t)'
         /\ x[1] \in Facts => \A s \in Slots[x[1]] :
               Content(y)'.ends[s] = PublishedEnd(Content(x).ends[s], mentions')
<1>1. PICK r : r = x[1]
  OBVIOUS
<1>2. PICK n : n = Len(ChainOf(r)) + 1
  OBVIOUS
<1>3. /\ r \in Records /\ n \in Nat \ {0} /\ y = <<r, n>>
      /\ Content(x) = Latest(ChainOf(r)) /\ Content(x).tbox = t
  BY <1>1, <1>2 DEF HeadStands, Entries, Records
<1>4. Mentions \cap Facts = {}
  BY ReviewAssumption
<1>5. /\ Len(ChainOf(r)') = n
      /\ ChainOf(r)'[n].status = "PUBLISHED" /\ ChainOf(r)'[n].tbox = t
      /\ r \in Facts => \A s \in Slots[r] :
            ChainOf(r)'[n].ends[s] = PublishedEnd(Content(x).ends[s], mentions')
  <2>1. CASE r \in Mentions
    <3>1. r \in M /\ r \notin Facts /\ ChainOf(r) = mentions[r] /\ ChainOf(r)' = mentions'[r]
      BY <1>1, <1>4, <2>1 DEF ChainOf
    <3>2. MentionReleased(r, n)
      BY <1>2, <1>3, <3>1, Released
    <3> QED
      BY <1>3, <3>1, <3>2 DEF MentionReleased
  <2>2. CASE r \notin Mentions
    <3>1. r \in F /\ ChainOf(r) = facts[r] /\ ChainOf(r)' = facts'[r]
      BY <1>1, <2>2 DEF ChainOf
    <3>2. FactReleased(r, n)
      BY <1>2, <1>3, <3>1, Released
    <3> QED
      BY <1>3, <3>1, <3>2 DEF FactReleased
  <2> QED
    BY <2>1, <2>2
<1>6. Content(y)' = ChainOf(r)'[n]
  BY <1>3 DEF Content
<1>7. y \in Entries /\ y[1] = r /\ y[2] = n /\ n \in 1..n
  BY <1>3 DEF Entries
<1> QED
  BY <1>1, <1>5, <1>6, <1>7 DEF EntryStands

LEMMA EntryKept ==
  ASSUME ChainsGrow, NEW x, NEW t, EntryStands(x, t)
  PROVE  EntryStands(x, t)' /\ Content(x)' = Content(x)
<1>1. x[1] \in Records /\ x[2] \in 1..Len(ChainOf(x[1]))
  BY DEF EntryStands, Entries
<1>2. Longer(ChainOf(x[1]), ChainOf(x[1])')
  BY <1>1 DEF ChainsGrow, ChainOf, Records
<1>3. x[2] \in 1..Len(ChainOf(x[1])') /\ ChainOf(x[1])'[x[2]] = ChainOf(x[1])[x[2]]
  BY <1>1, <1>2 DEF Longer
<1>4. Content(x)' = Content(x)
  BY <1>3 DEF Content
<1> QED
  BY <1>3, <1>4 DEF EntryStands

\* Where an endpoint that Translated accepts ends up.
LEMMA TranslatedEnters ==
  ASSUME RecordsInv, ChainsGrow, NEW t, NEW sources, NEW carried, NEW made,
         \A x \in sources : HeadStands(x, t),
         \A x \in carried : EntryStands(x, t),
         made = Published(sources),
         NEW f \in Facts, NEW i \in 1..Len(facts[f]), NEW s \in Slots[f],
         NEW end, end = facts[f][i].ends[s], Translated(end, sources, carried),
         NEW new, new = PublishedEnd(end, mentions')
  PROVE  <<new.mention, new.n>> \in carried \cup made
<1>1. end \in Endpoints /\ Rests(f, facts[f][i].status, end, mentions)
  BY FactsSound
<1>2. PICK m : m = end.mention
  OBVIOUS
<1>3. PICK k : k = end.n
  OBVIOUS
<1>4. m \in Mentions /\ k \in 1..Len(mentions[m]) /\ k \in Nat
  BY <1>1, <1>2, <1>3 DEF Endpoints, Rests
<1>5. ChainOf(m) = mentions[m] /\ ChainOf(m)' = mentions'[m] /\ m \in Records
  BY <1>4 DEF ChainOf, Records
<1>6. mentions'[m][k] = mentions[m][k]
  <2>1. Longer(mentions[m], mentions'[m])
    BY <1>4 DEF ChainsGrow
  <2> QED
    BY <1>4, <2>1 DEF Longer
<1>7. /\ new.mention = m
      /\ new.n = IF mentions[m][k].status = "PUBLISHED" THEN k ELSE k + 1
  <2>1. PICK j : j = IF mentions[m][k].status = "PUBLISHED" THEN k ELSE k + 1
    OBVIOUS
  <2>2. new = [end EXCEPT !.n = j]
    BY <1>1, <1>2, <1>3, <1>6, <2>1 DEF PublishedEnd, Endpoints
  <2> QED
    BY <1>1, <1>2, <2>1, <2>2 DEF Endpoints
<1>8. PICK x : x = <<m, k>>
  OBVIOUS
<1>9. x[1] = m /\ x[2] = k /\ Content(x) = mentions[m][k]
  BY <1>5, <1>8 DEF Content
<1>10. CASE x \in carried
  <2>1. mentions[m][k].status = "PUBLISHED"
    BY <1>9, <1>10 DEF EntryStands
  <2> QED
    BY <1>7, <1>8, <1>10, <2>1
<1>11. CASE x \in sources
  <2>1. mentions[m][k].status \in {"APPROVED", "PUBLISHED"}
    BY <1>9, <1>11 DEF HeadStands, Endorsed
  <2>2. <<m, IF Content(x).status = "APPROVED" THEN k + 1 ELSE k>> \in made
    BY <1>9, <1>11 DEF Published
  <2>3. new.n = IF Content(x).status = "APPROVED" THEN k + 1 ELSE k
    BY <1>7, <1>9, <2>1
  <2> QED
    BY <1>7, <2>2, <2>3
<1>12. CASE <<m, k + 1>> \in carried /\ mentions[m][k].status = "APPROVED"
  BY <1>7, <1>12
<1> QED
  BY <1>2, <1>3, <1>8, <1>10, <1>11, <1>12 DEF Translated

\* The manifest of a publication stands alone as soon as it is written.
LEMMA NewReleaseStands ==
  ASSUME ReviewInv, ReleasesTyped, ReleasesStand, ChainsGrow,
         NEW sources \in SUBSET Heads, NEW removed, NEW replaced,
         Publish(sources, removed, replaced),
         NEW manifest, manifest = Carried(removed, replaced) \cup Published(sources),
         NEW t, t = tbox
  PROVE  StandsAlone(manifest, t)'
<1>1. PICK carried : carried = Carried(removed, replaced)
  OBVIOUS
<1>2. PICK made : made = Published(sources)
  OBVIOUS
<1>3. PICK fresh : fresh = {x \in sources : Content(x).status = "APPROVED"}
  OBVIOUS
<1>4. PICK M : M = Names(fresh) \cap Mentions
  OBVIOUS
<1>5. PICK F : F = Names(fresh) \cap Facts
  OBVIOUS
<1>6. /\ NewNames(sources, removed, carried)
      /\ \A x \in fresh : x[1] \in Facts =>
            \A s \in Slots[x[1]] : Translated(Content(x).ends[s], sources, carried)
      /\ ClosedIn(carried \cup (sources \ fresh), manifest)
      /\ \A x \in carried \cup sources : Content(x).tbox = t
      /\ OneVersionEach(manifest)
      /\ Release(M, F)
  BY <1>1, <1>2, <1>3, <1>4, <1>5 DEF Publish
<1>7. RecordsInv
  BY DEF ReviewInv
<1>8. \A x \in carried : EntryStands(x, t)
  BY <1>1, <1>6, CarriedStand
<1>9. \A x \in sources : HeadStands(x, t)
  BY <1>6, <1>7, SourcesStand
<1>10. \A y \in made : \E x \in sources :
          y = <<x[1], IF Content(x).status = "APPROVED" THEN x[2] + 1 ELSE x[2]>>
  BY <1>2 DEF Published
<1>11. manifest = carried \cup made
  BY <1>1, <1>2
<1>12. ASSUME NEW y \in carried
       PROVE  EntrySound(y, manifest, t)'
  <2>1. EntryStands(y, t)' /\ Content(y)' = Content(y)
    BY <1>8, <1>12, EntryKept
  <2>2. y[1] \in Facts => \A s \in Slots[y[1]] :
           <<Content(y).ends[s].mention, Content(y).ends[s].n>> \in manifest
    BY <1>6, <1>12 DEF ClosedIn
  <2> QED
    BY <2>1, <2>2 DEF EntryStands, EntrySound
<1>13. ASSUME NEW y \in made
       PROVE  EntrySound(y, manifest, t)'
  <2>1. PICK x \in sources :
           y = <<x[1], IF Content(x).status = "APPROVED" THEN x[2] + 1 ELSE x[2]>>
    BY <1>10, <1>13
  <2>2. HeadStands(x, t)
    BY <1>9, <2>1
  <2>3. CASE Content(x).status = "APPROVED"
    <3>1. x \in fresh /\ y = <<x[1], x[2] + 1>> /\ y[1] = x[1]
      BY <1>3, <2>1, <2>3
    <3>2. x[1] \in M \cup F
      BY <1>4, <1>5, <2>2, <3>1 DEF Names, HeadStands, Entries, Records
    <3>3. M \in SUBSET Mentions /\ F \in SUBSET Facts
      BY <1>4, <1>5
    <3>4. /\ EntryStands(y, t)'
          /\ x[1] \in Facts => \A s \in Slots[x[1]] :
                Content(y)'.ends[s] = PublishedEnd(Content(x).ends[s], mentions')
      BY <1>6, <1>7, <2>2, <3>1, <3>2, <3>3, FreshEntry, SMTT(20)
    <3>5. ASSUME x[1] \in Facts, NEW s \in Slots[x[1]]
          PROVE  <<Content(y)'.ends[s].mention, Content(y)'.ends[s].n>> \in manifest
      <4>1. PICK f \in Facts : f = x[1]
        BY <3>5
      <4>2. PICK i : i = x[2]
        OBVIOUS
      <4>3. ChainOf(f) = facts[f]
        BY <4>1, ReviewAssumption DEF ChainOf
      <4>4. i \in 1..Len(facts[f]) /\ Content(x) = facts[f][i]
        BY <2>2, <4>1, <4>2, <4>3 DEF HeadStands, Entries, Content
      <4>5. PICK end : end = facts[f][i].ends[s]
        OBVIOUS
      <4>6. PICK new : new = PublishedEnd(end, mentions')
        OBVIOUS
      <4>7. Translated(end, sources, carried)
        BY <1>6, <3>1, <3>5, <4>1, <4>4, <4>5
      <4>8. <<new.mention, new.n>> \in carried \cup made
        BY <1>2, <1>7, <1>8, <1>9, <3>5, <4>1, <4>4, <4>5, <4>6, <4>7, TranslatedEnters
      <4>9. Content(y)'.ends[s] = new
        BY <3>4, <3>5, <4>4, <4>5, <4>6
      <4> QED
        BY <1>11, <4>8, <4>9
    <3> QED
      BY <3>1, <3>4, <3>5 DEF EntryStands, EntrySound
  <2>4. CASE Content(x).status # "APPROVED"
    <3>1. y = x /\ x \in sources \ fresh
      <4>1. PICK n : n = Len(ChainOf(x[1]))
        OBVIOUS
      <4>2. x = <<x[1], n>>
        BY <2>2, <4>1 DEF HeadStands
      <4>3. y = <<x[1], x[2]>>
        BY <2>1, <2>4
      <4> QED
        BY <1>3, <2>1, <2>4, <4>2, <4>3
    <3>2. EntryStands(x, t)
      BY <2>2, <2>4 DEF HeadStands, EntryStands, Entries, Endorsed
    <3>3. EntryStands(x, t)' /\ Content(x)' = Content(x)
      BY <3>2, EntryKept
    <3>4. x[1] \in Facts => \A s \in Slots[x[1]] :
             <<Content(x).ends[s].mention, Content(x).ends[s].n>> \in manifest
      BY <1>6, <3>1 DEF ClosedIn
    <3> QED
      BY <3>1, <3>3, <3>4 DEF EntryStands, EntrySound
  <2> QED
    BY <2>3, <2>4
<1>14. OnePerRecord(manifest)
  <2>1. ASSUME NEW y \in made
        PROVE  /\ \E x \in sources : x[1] = y[1]
               /\ y[1] \notin Names(carried)
    BY <1>6, <1>10, <2>1 DEF NewNames, Names
  <2>2. ASSUME NEW y \in made, NEW z \in made, y[1] = z[1]
        PROVE  y = z
    <3>1. PICK x \in sources :
             y = <<x[1], IF Content(x).status = "APPROVED" THEN x[2] + 1 ELSE x[2]>>
      BY <1>10, <2>2
    <3>2. PICK w \in sources :
             z = <<w[1], IF Content(w).status = "APPROVED" THEN w[2] + 1 ELSE w[2]>>
      BY <1>10, <2>2
    <3>3. x[1] = w[1]
      BY <2>2, <3>1, <3>2
    <3>4. x = <<x[1], Len(ChainOf(x[1]))>> /\ w = <<w[1], Len(ChainOf(w[1]))>>
      BY <1>9, <3>1, <3>2 DEF HeadStands
    <3>5. x = w
      BY <3>3, <3>4
    <3> QED
      BY <3>1, <3>2, <3>5
  <2>3. ASSUME NEW y \in carried, NEW z \in carried, y[1] = z[1]
        PROVE  y = z
    <3>1. current # 0 /\ y \in pubs[current].manifest /\ z \in pubs[current].manifest
      BY <1>1, <2>3 DEF Carried, ManifestOf
    <3>2. current \in DOMAIN pubs
      BY <3>1, LenProperties DEF ReleasesTyped
    <3> QED
      BY <2>3, <3>1, <3>2 DEF ReleasesStand, StandsAlone, OnePerRecord
  <2> QED
    BY <1>11, <2>1, <2>2, <2>3 DEF OnePerRecord, Names
<1>15. OnePerRecord(manifest)' /\ OneVersionEach(manifest)'
  BY <1>6, <1>14 DEF OnePerRecord, OneVersionEach, InText
<1>16. \A y \in manifest : EntrySound(y, manifest, t)'
  BY <1>11, <1>12, <1>13
<1> QED
  BY <1>15, <1>16 DEF StandsAlone

-----------------------------------------------------------------------------
(***************************************************************************)
(* The steps.                                                              *)
(***************************************************************************)

\* For the records, publication is a part of review.
LEMMA StepReviews ==
  ASSUME [KnowledgeNext]_knowledgeVars
  PROVE  [ReviewNext]_reviewVars
<1>1. Review \/ ActivateTBox => ReviewNext
  BY DEF ReviewNext
<1>2. ASSUME NEW f \in Facts, NEW x \in Mentions, NEW t \in Mentions,
             NEW n \in 1..Len(facts[f]), NEW k \in 1..Len(mentions[t]),
             ReassignFromRelease(f, n, x, t, k)
      PROVE  ReviewNext
  <2>1. Reassignment
    BY <1>2, Zenon DEF ReassignFromRelease, Reassignment
  <2> QED
    BY <2>1 DEF ReviewNext
<1>3. ASSUME NEW sources, NEW removed, NEW replaced, Publish(sources, removed, replaced)
      PROVE  ReviewNext
  <2>1. PICK fresh : fresh = {x \in sources : Content(x).status = "APPROVED"}
    OBVIOUS
  <2>2. PICK M : M = Names(fresh) \cap Mentions
    OBVIOUS
  <2>3. PICK F : F = Names(fresh) \cap Facts
    OBVIOUS
  <2>4. M \in SUBSET Mentions /\ F \in SUBSET Facts /\ Release(M, F)
    BY <1>3, <2>1, <2>2, <2>3 DEF Publish
  <2> QED
    BY <2>4, Zenon DEF ReviewNext
<1>4. ASSUME NEW target, Rollback(target)
      PROVE  UNCHANGED reviewVars
  BY <1>4 DEF Rollback
<1>5. ASSUME NEW v \in Versions, NEW p \in 1..MaxPolicy, PublishVersion(v, p)
      PROVE  ReviewNext
  BY <1>5, Zenon DEF ReviewNext
<1>6. ASSUME NEW d \in Documents, RetireUncited(d)
      PROVE  ReviewNext
  BY <1>6, Zenon DEF RetireUncited, ReviewNext
<1>7. UNCHANGED knowledgeVars => UNCHANGED reviewVars
  BY DEF knowledgeVars
<1> QED
  BY <1>1, <1>2, <1>3, <1>4, <1>5, <1>6, <1>7, Zenon DEF KnowledgeNext

\* What is served after a step whose release consists of versions in all of
\* which readers find their chunks, and which left the documents alone.
LEMMA ServableIsServed ==
  ASSUME \A v \in InText(ManifestOf(current))' : Servable(v), UNCHANGED sourceVars
  PROVE  ServedIsNotWithdrawn'
<1>1. active' = active /\ retired' = retired
  BY DEF sourceVars
<1> QED
  BY <1>1 DEF ServedIsNotWithdrawn, Servable

\* A step that publishes nothing keeps every release.
LEMMA StillStand ==
  ASSUME ReleasesTyped, ReleasesStand, ActivationsChain, ChainsGrow,
         UNCHANGED publicationVars
  PROVE  ReleasesTyped' /\ ReleasesStand' /\ ActivationsChain'
<1>1. pubs' = pubs /\ current' = current /\ graph' = graph /\ log' = log
  BY DEF publicationVars
<1>2. ASSUME NEW p \in DOMAIN pubs'
      PROVE  StandsAlone(pubs[p].manifest, pubs[p].tbox)'
  <2>1. PICK E : E = pubs[p].manifest
    OBVIOUS
  <2>2. PICK t : t = pubs[p].tbox
    OBVIOUS
  <2>3. StandsAlone(E, t)
    BY <1>1, <1>2, <2>1, <2>2 DEF ReleasesStand
  <2>4. StandsAlone(E, t)'
    BY <2>3, ReleaseKeeps
  <2>5. pubs'[p].manifest = E /\ pubs'[p].tbox = t
    BY <1>1, <2>1, <2>2
  <2> QED
    BY <2>4, <2>5
<1>3. ReleasesStand'
  BY <1>2 DEF ReleasesStand
<1>4. ReleasesTyped'
  BY <1>1 DEF ReleasesTyped
<1>5. ActivationsChain'
  BY <1>1 DEF ActivationsChain, Change, ManifestOf
<1> QED
  BY <1>3, <1>4, <1>5

\* So does one that turns from the active release to another of them.
LEMMA TurnedStand ==
  ASSUME ReleasesTyped, ReleasesStand, ChainsGrow,
         NEW new, NEW action, NEW all \in Seq(Releases), Turned(new, action, all),
         \A p \in DOMAIN all : p \in DOMAIN pubs \/ p = new,
         \A p \in DOMAIN pubs : p \in DOMAIN all /\ all[p] = pubs[p],
         NEW E, NEW t, E = all[new].manifest, t = all[new].tbox,
         new \notin DOMAIN pubs => StandsAlone(E, t)'
  PROVE  ReleasesStand'
<1>1. /\ pubs' \in Seq(Releases) /\ Len(pubs') = Len(all)
      /\ \A p \in DOMAIN all : SameRelease(pubs'[p], all[p])
  BY DEF Turned
<1>2. DOMAIN pubs' = DOMAIN all
  BY <1>1, LenProperties
<1>3. ASSUME NEW p \in DOMAIN pubs'
      PROVE  StandsAlone(pubs[p].manifest, pubs[p].tbox)'
  <2>1. pubs'[p].manifest = all[p].manifest /\ pubs'[p].tbox = all[p].tbox
    BY <1>1, <1>2 DEF SameRelease
  <2>2. CASE p \in DOMAIN pubs
    <3>1. PICK D : D = pubs[p].manifest
      OBVIOUS
    <3>2. PICK u : u = pubs[p].tbox
      OBVIOUS
    <3>3. StandsAlone(D, u)
      BY <2>2, <3>1, <3>2 DEF ReleasesStand
    <3>4. StandsAlone(D, u)'
      BY <3>3, ReleaseKeeps
    <3>5. pubs'[p].manifest = D /\ pubs'[p].tbox = u
      BY <2>1, <2>2, <3>1, <3>2
    <3> QED
      BY <3>4, <3>5
  <2>3. CASE p \notin DOMAIN pubs
    <3>1. p = new /\ pubs'[p].manifest = E /\ pubs'[p].tbox = t
      BY <1>2, <2>1, <2>3
    <3> QED
      BY <2>3, <3>1
  <2> QED
    BY <2>2, <2>3
<1> QED
  BY <1>3 DEF ReleasesStand

LEMMA PublishPreserves ==
  ASSUME KnowledgeInv, ChainsGrow, ReviewInv',
         NEW sources \in SUBSET Heads, NEW removed, NEW replaced,
         Publish(sources, removed, replaced)
  PROVE  KnowledgeInv'
<1>1. PICK manifest : manifest = Carried(removed, replaced) \cup Published(sources)
  OBVIOUS
<1>2. PICK t : t = tbox
  OBVIOUS
<1>3. PICK rec : rec = [base |-> current, sources |-> sources, removed |-> removed,
                        replaced |-> replaced, manifest |-> manifest,
                        tbox |-> t, status |-> "BUILDING"]
  OBVIOUS
<1>4. PICK all : all = Append(pubs, rec)
  OBVIOUS
<1>5. PICK new : new = Len(pubs) + 1
  OBVIOUS
<1>6. /\ Unknown(<<current, sources, removed, replaced>>)
      /\ removed \cup replaced \subseteq Names(ManifestOf(current))
      /\ \A v \in InText(manifest) : Servable(v)
      /\ \A x \in sources : Content(x).tbox = t
      /\ Activate(new, "PUBLISH", all, manifest)
      /\ UNCHANGED sourceVars
  BY <1>1, <1>2, <1>3, <1>4, <1>5 DEF Publish, Release
<1>7. /\ ReviewInv /\ RecordsInv /\ SourcesInv /\ ReleasesTyped /\ ReleasesStand
      /\ ActivationsChain
  BY DEF KnowledgeInv, ReviewInv
<1>8. rec \in Releases
  <2>1. current \in Nat /\ t \in 1..MaxTBox
    BY <1>2, <1>7, LenProperties DEF ReleasesTyped, SourcesInv, SourcesTypeOK
  <2>2. sources \subseteq Entries
    BY <1>2, <1>6, <1>7, SourcesStand DEF HeadStands
  <2>3. ManifestOf(current) \subseteq Entries
    <3>1. current # 0 => current \in DOMAIN pubs
      BY <1>7, LenProperties DEF ReleasesTyped
    <3>2. current # 0 => pubs[current].manifest \subseteq Entries
      BY <1>7, <3>1 DEF ReleasesStand, StandsAlone, EntrySound
    <3> QED
      BY <3>2 DEF ManifestOf
  <2>4. removed \subseteq Records /\ replaced \subseteq Records
    <3>1. Names(ManifestOf(current)) \subseteq Records
      BY <2>3 DEF Names, Entries
    <3> QED
      BY <1>6, <3>1
  <2>5. Published(sources) \subseteq Entries
    BY <2>2 DEF Published, Entries
  <2>6. manifest \subseteq Entries
    BY <1>1, <2>3, <2>5 DEF Carried
  <2> QED
    BY <1>3, <2>1, <2>2, <2>4, <2>6 DEF Releases
<1>9. /\ all \in Seq(Releases) /\ Len(all) = Len(pubs) + 1
      /\ all[new] = rec
      /\ \A p \in DOMAIN pubs : p \in DOMAIN all /\ all[p] = pubs[p]
      /\ \A p \in DOMAIN all : p \in DOMAIN pubs \/ p = new
      /\ new \in DOMAIN all /\ new \notin DOMAIN pubs
  <2>1. pubs \in Seq(Releases) /\ DOMAIN pubs = 1..Len(pubs) /\ Len(pubs) \in Nat
    BY <1>7, LenProperties DEF ReleasesTyped
  <2>2. /\ all \in Seq(Releases) /\ Len(all) = Len(pubs) + 1
        /\ \A i \in 1..Len(pubs) : all[i] = pubs[i]
        /\ all[Len(pubs) + 1] = rec
    BY <1>4, <1>8, <2>1, AppendProperties
  <2>3. DOMAIN all = 1..Len(pubs) + 1
    BY <2>1, <2>2, LenProperties
  <2> QED
    BY <1>5, <2>1, <2>2, <2>3
<1>10. /\ all[new].manifest = manifest /\ all[new].tbox = t /\ all[new].base = current
       /\ all[new].sources = sources /\ all[new].removed = removed
       /\ all[new].replaced = replaced
  BY <1>3, <1>9
<1>11. Turned(new, "PUBLISH", all)
  BY <1>6, <1>7, <1>9, ActivationEffect
<1>12. StandsAlone(manifest, t)'
  BY <1>1, <1>2, <1>7, NewReleaseStands
<1>13. ReleasesStand'
  BY <1>7, <1>9, <1>10, <1>11, <1>12, TurnedStand
<1>14. ReleasesTyped' /\ ActivationsChain'
  <2>1. Activate(new, "PUBLISH", all, all[new].manifest)
    BY <1>6, <1>10
  <2>2. Unknown(<<all[new].base, all[new].sources, all[new].removed, all[new].replaced>>)
    BY <1>6, <1>10
  <2>3. PICK action : action = "PUBLISH"
    OBVIOUS
  <2>4. /\ action \in {"PUBLISH", "ROLLBACK"}
        /\ Activate(new, action, all, all[new].manifest)
        /\ action = "PUBLISH" <=> new \notin DOMAIN pubs
        /\ action = "PUBLISH" => all[new].base = current /\ Unknown(
              <<all[new].base, all[new].sources, all[new].removed, all[new].replaced>>)
    BY <1>9, <1>10, <2>1, <2>2, <2>3
  <2> QED
    BY <1>7, <1>9, <2>4, ChainGoesOn
<1>15. ServedIsNotWithdrawn'
  <2>1. ManifestOf(current)' = manifest
    <3>1. /\ current' = new /\ SameRelease(pubs'[new], all[new])
      BY <1>9, <1>11 DEF Turned
    <3>2. new # 0
      BY <1>5, <1>7, LenProperties DEF ReleasesTyped
    <3> QED
      BY <1>10, <3>1, <3>2 DEF ManifestOf, SameRelease
  <2> QED
    BY <1>6, <2>1, ServableIsServed DEF InText
<1> QED
  BY <1>13, <1>14, <1>15 DEF KnowledgeInv

LEMMA RollbackPreserves ==
  ASSUME KnowledgeInv, ChainsGrow, ReviewInv',
         NEW target \in DOMAIN pubs, Rollback(target)
  PROVE  KnowledgeInv'
<1>1. /\ ReleasesTyped /\ ReleasesStand /\ ActivationsChain
  BY DEF KnowledgeInv
<1>2. PICK all : all = pubs
  OBVIOUS
<1>3. PICK manifest : manifest = ManifestOf(target)
  OBVIOUS
<1>4. target # 0
  BY <1>1, LenProperties DEF ReleasesTyped
<1>5. /\ all \in Seq(Releases) /\ target \in DOMAIN all
      /\ all[target].manifest = manifest
  BY <1>1, <1>2, <1>3, <1>4 DEF ReleasesTyped, ManifestOf
<1>6. /\ Activate(target, "ROLLBACK", all, manifest)
      /\ \A v \in InText(manifest) : Servable(v)
      /\ UNCHANGED sourceVars
  BY <1>2, <1>3, <1>4 DEF Rollback, Loadable, reviewVars
<1>7. Turned(target, "ROLLBACK", all)
  BY <1>1, <1>5, <1>6, ActivationEffect
<1>8. ReleasesStand'
  <2>1. PICK t : t = all[target].tbox
    OBVIOUS
  <2>2. /\ \A p \in DOMAIN all : p \in DOMAIN pubs \/ p = target
        /\ \A p \in DOMAIN pubs : p \in DOMAIN all /\ all[p] = pubs[p]
    BY <1>2
  <2> QED
    BY <1>1, <1>5, <1>7, <2>1, <2>2, TurnedStand
<1>9. ReleasesTyped' /\ ActivationsChain'
  <2>1. PICK action : action = "ROLLBACK"
    OBVIOUS
  <2>2. /\ action \in {"PUBLISH", "ROLLBACK"} /\ action # "PUBLISH"
        /\ Activate(target, action, all, all[target].manifest)
        /\ \A p \in DOMAIN pubs : p \in DOMAIN all /\ all[p] = pubs[p]
        /\ \A p \in DOMAIN all : p \in DOMAIN pubs \/ p = target
    BY <1>2, <1>5, <1>6, <2>1
  <2> QED
    BY <1>1, <1>5, <2>2, ChainGoesOn
<1>10. ServedIsNotWithdrawn'
  <2>1. ManifestOf(current)' = manifest
    <3>1. current' = target /\ SameRelease(pubs'[target], all[target])
      BY <1>5, <1>7 DEF Turned
    <3> QED
      BY <1>4, <1>5, <3>1 DEF ManifestOf, SameRelease
  <2> QED
    BY <1>6, <2>1, ServableIsServed DEF InText
<1> QED
  BY <1>8, <1>9, <1>10 DEF KnowledgeInv

\* What is served, after a step that leaves the releases alone.
LEMMA ServedStays ==
  ASSUME ServedIsNotWithdrawn, UNCHANGED publicationVars,
         \A v \in InText(ManifestOf(current)) :
            active[DocumentOf[v]] # NoVersion /\ v \notin retired =>
               active'[DocumentOf[v]] # NoVersion /\ v \notin retired'
  PROVE  ServedIsNotWithdrawn'
<1>1. pubs' = pubs /\ current' = current
  BY DEF publicationVars
<1>2. InText(ManifestOf(current))' = InText(ManifestOf(current))
  BY <1>1 DEF InText, ManifestOf
<1> QED
  BY <1>2 DEF ServedIsNotWithdrawn

LEMMA KnowledgePreserved ==
  ASSUME KnowledgeInv, [KnowledgeNext]_knowledgeVars
  PROVE  KnowledgeInv'
<1>1. [ReviewNext]_reviewVars
  BY StepReviews
<1>2. ReviewInv /\ RecordsInv /\ SourcesInv
  BY DEF KnowledgeInv, ReviewInv
<1>3. ReviewInv'
  BY <1>1, <1>2, RecordsPreserved, SourcesPreserved DEF ReviewInv
<1>4. ChainsGrow
  BY <1>1, <1>2, StepGrows
<1>5. ASSUME UNCHANGED publicationVars, ServedIsNotWithdrawn'
      PROVE  KnowledgeInv'
  BY <1>3, <1>4, <1>5, StillStand DEF KnowledgeInv
<1>6. ASSUME UNCHANGED publicationVars, UNCHANGED sourceVars
      PROVE  KnowledgeInv'
  <2>1. ServedIsNotWithdrawn'
    BY <1>6, ServedStays DEF KnowledgeInv, sourceVars
  <2> QED
    BY <1>5, <1>6, <2>1
<1>7. CASE Review /\ UNCHANGED publicationVars
  <2>1. UNCHANGED sourceVars
    BY <1>7, ReviewLeavesSources
  <2> QED
    BY <1>6, <1>7, <2>1
<1>8. ASSUME NEW f, NEW n, NEW x, NEW t, NEW k, ReassignFromRelease(f, n, x, t, k)
      PROVE  KnowledgeInv'
  BY <1>6, <1>8 DEF ReassignFromRelease, ReassignProperty
<1>9. ASSUME NEW sources \in SUBSET Heads, NEW removed, NEW replaced,
             Publish(sources, removed, replaced)
      PROVE  KnowledgeInv'
  BY <1>3, <1>4, <1>9, PublishPreserves
<1>10. ASSUME NEW target \in DOMAIN pubs, Rollback(target)
       PROVE  KnowledgeInv'
  BY <1>3, <1>4, <1>10, RollbackPreserves
<1>11. ASSUME NEW v \in Versions, NEW p \in 1..MaxPolicy, PublishVersion(v, p),
              UNCHANGED publicationVars
       PROVE  KnowledgeInv'
  <2>1. /\ active' = [active EXCEPT ![DocumentOf[v]] = v] /\ retired' = retired \ {v}
    BY <1>11 DEF PublishVersion
  <2>2. v # NoVersion
    BY <1>11, ReviewAssumption
  <2>3. DOMAIN active = Documents
    BY <1>2 DEF SourcesInv, SourcesTypeOK
  <2>4. ASSUME NEW d, active[d] # NoVersion
        PROVE  active'[d] # NoVersion
    BY <2>1, <2>2, <2>3, <2>4
  <2>5. ServedIsNotWithdrawn'
    BY <1>11, <2>1, <2>4, ServedStays DEF KnowledgeInv
  <2> QED
    BY <1>5, <1>11, <2>5
<1>12. ASSUME NEW d \in Documents, RetireUncited(d)
       PROVE  KnowledgeInv'
  <2>1. /\ ~Cited(d) /\ active[d] # NoVersion
        /\ retired' = retired \cup {active[d]}
        /\ active' = [active EXCEPT ![d] = NoVersion]
        /\ UNCHANGED publicationVars
    BY <1>12 DEF RetireUncited, RetireDocument
  <2>2. DOMAIN active = Documents /\ DocumentOf[active[d]] = d
    BY <1>2, <2>1 DEF SourcesInv, SourcesTypeOK
  <2>3. ASSUME NEW v \in InText(ManifestOf(current))
        PROVE  /\ active'[DocumentOf[v]] = active[DocumentOf[v]]
               /\ v \in retired' => v \in retired
    <3>1. DocumentOf[v] # d
      BY <2>1 DEF Cited
    <3> QED
      BY <2>1, <2>2, <3>1
  <2>4. ServedIsNotWithdrawn'
    BY <2>1, <2>3, ServedStays DEF KnowledgeInv
  <2> QED
    BY <1>5, <2>1, <2>4
<1>13. CASE ActivateTBox /\ UNCHANGED publicationVars
  BY <1>6, <1>13 DEF ActivateTBox
<1>14. CASE UNCHANGED knowledgeVars
  BY <1>6, <1>14 DEF knowledgeVars, reviewVars
<1> QED
  BY <1>7, <1>8, <1>9, <1>10, <1>11, <1>12, <1>13, <1>14, Zenon DEF KnowledgeNext

LEMMA KnowledgeStarts ==
  ASSUME KnowledgeInit
  PROVE  KnowledgeInv
<1>1. ReviewInv
  BY InitiallySound DEF KnowledgeInit
<1>2. pubs = <<>> /\ current = 0 /\ graph = {} /\ log = <<>>
  BY DEF KnowledgeInit, PublicationInit
<1>3. DOMAIN pubs = {} /\ DOMAIN log = {}
  BY <1>2
<1>4. ReleasesTyped
  BY <1>2, <1>3 DEF ReleasesTyped
<1>5. ReleasesStand
  BY <1>3 DEF ReleasesStand
<1>6. ManifestOf(current) = {}
  BY <1>2 DEF ManifestOf
<1>7. ActivationsChain
  BY <1>2, <1>3, <1>6 DEF ActivationsChain
<1>8. ServedIsNotWithdrawn
  BY <1>6 DEF ServedIsNotWithdrawn, InText
<1> QED
  BY <1>1, <1>4, <1>5, <1>7, <1>8 DEF KnowledgeInv

-----------------------------------------------------------------------------
(***************************************************************************)
(* What holds of publication.                                              *)
(***************************************************************************)

\* Publishing and restoring do to the records only what review may do, so that
\* all that is proved of ReviewSpec holds of the composition as well.
THEOREM PublicationImplementsReview == KnowledgeSpec => ReviewSpec
<1>1. KnowledgeInit => ReviewInit
  BY DEF KnowledgeInit
<1>2. [KnowledgeNext]_knowledgeVars => [ReviewNext]_reviewVars
  BY StepReviews
<1> QED
  BY <1>1, <1>2, PTL DEF KnowledgeSpec, ReviewSpec

\* The inductive invariant: sound records, typed releases that stand alone, one
\* chain of activations, and nothing served that was withdrawn.
THEOREM KnowledgeStaysSound == KnowledgeSpec => []KnowledgeInv
<1>1. KnowledgeInit => KnowledgeInv
  BY KnowledgeStarts
<1>2. KnowledgeInv /\ [KnowledgeNext]_knowledgeVars => KnowledgeInv'
  BY KnowledgePreserved
<1> QED
  BY <1>1, <1>2, PTL DEF KnowledgeSpec

\* A publication's manifest, once written, is complete and consistent for ever:
\* one published revision of each record, one T-Box, one version of each
\* document, and every fact with the mentions it is about, whatever is edited,
\* split, published or rolled back later.
THEOREM EveryReleaseStandsAlone == KnowledgeSpec => []ManifestsStandAlone
<1>1. KnowledgeInv => ManifestsStandAlone
  <2> SUFFICES ASSUME KnowledgeInv, NEW p \in DOMAIN pubs
               PROVE  LET E == pubs[p].manifest
                      IN  /\ \A x, y \in E : x[1] = y[1] => x = y
                          /\ \A x \in E : Content(x).status = "PUBLISHED"
                                          /\ Content(x).tbox = pubs[p].tbox
                          /\ \A x \in E : x[1] \in Facts =>
                                \A s \in Slots[x[1]] : \E y \in E :
                                   y = <<Content(x).ends[s].mention, Content(x).ends[s].n>>
                          /\ \A x, y \in E :
                                LET v == VersionOf[x[1]] w == VersionOf[y[1]]
                                IN  DocumentOf[v] = DocumentOf[w] => v = w
    BY DEF ManifestsStandAlone
  <2>1. StandsAlone(pubs[p].manifest, pubs[p].tbox)
    BY DEF KnowledgeInv, ReleasesStand
  <2>2. \A x, y \in pubs[p].manifest :
           LET v == VersionOf[x[1]] w == VersionOf[y[1]]
           IN  DocumentOf[v] = DocumentOf[w] => v = w
    BY <2>1 DEF StandsAlone, OneVersionEach, InText
  <2> QED
    BY <2>1, <2>2 DEF StandsAlone, OnePerRecord, EntrySound
<1> QED
  BY <1>1, KnowledgeStaysSound, PTL

\* Each publication enters the one chain of activations once as new, from the
\* base it was computed from; the active one alone is marked so and is what the
\* navigation graph shows; no change set is published twice.
THEOREM ActivationsFormAChain == KnowledgeSpec => []ActivationsChain
<1>1. KnowledgeInv => ActivationsChain
  BY DEF KnowledgeInv
<1> QED
  BY <1>1, KnowledgeStaysSound, PTL

\* No source of the active publication is retired, in whatever order documents
\* are retired, re-ingested, published from and rolled back to.
THEOREM NothingServedIsWithdrawn == KnowledgeSpec => []ServedIsNotWithdrawn
<1>1. KnowledgeInv => ServedIsNotWithdrawn
  BY DEF KnowledgeInv
<1> QED
  BY <1>1, KnowledgeStaysSound, PTL
=============================================================================

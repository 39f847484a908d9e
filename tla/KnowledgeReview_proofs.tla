----------------------- MODULE KnowledgeReview_proofs -----------------------
(***************************************************************************)
(* The records stay sound.  Soundness is a property of each chain of       *)
(* revisions, given the chains of the mentions, and mentions only grow; so *)
(* one lemma (Grow) says what the revisions that a step appends must       *)
(* fulfil, and one lemma for each action that writes shows that they do.   *)
(***************************************************************************)
EXTENDS KnowledgeReview, SequenceTheorems, TLAPS

\* What may follow a chain of a mention.
MentionFollows(chain, rev) ==
    /\ rev \in MentionRevisions
    /\ Written(chain) /\ Latest(chain).status = "REJECTED" => rev.origin = "EXPERT_IMPORT"
    /\ rev.status = "PUBLISHED" /\ rev.origin = "OTHER" =>
          Written(chain) /\ Latest(chain) = [rev EXCEPT !.status = "APPROVED"]

SoundMention(m, chain) ==
    /\ chain \in Seq(MentionRevisions) /\ Len(chain) <= MaxRevisions[m]
    /\ \A i \in 1..Len(chain) - 1 :
          chain[i].status = "REJECTED" => chain[i + 1].origin = "EXPERT_IMPORT"
    /\ \A i \in 1..Len(chain) :
          chain[i].status = "PUBLISHED" /\ chain[i].origin = "OTHER" =>
             i > 1 /\ chain[i - 1] = [chain[i] EXCEPT !.status = "APPROVED"]

\* An endpoint of a fact of status s agrees with the mentions ms.
Rests(f, s, e, ms) ==
    /\ VersionOf[e.mention] = VersionOf[f]
    /\ e.n \in 1..Len(ms[e.mention])
    /\ ms[e.mention][e.n].entity = e.entity
    /\ s = "APPROVED" => ms[e.mention][e.n].status \in Endorsed
    /\ s = "PUBLISHED" => ms[e.mention][e.n].status = "PUBLISHED"

\* A published revision means what the approval before it meant.
SameEnds(f, old, rev) ==
    /\ old.status = "APPROVED"
    /\ \A s \in Slots[f] : /\ old.ends[s].mention = rev.ends[s].mention
                           /\ old.ends[s].entity = rev.ends[s].entity

FactFollows(f, chain, rev, ms) ==
    /\ rev \in FactRevisions(f)
    /\ Written(chain) /\ Latest(chain).status = "REJECTED" => rev.origin = "EXPERT_IMPORT"
    /\ rev.status = "PUBLISHED" /\ rev.origin = "OTHER" =>
          Written(chain) /\ SameEnds(f, Latest(chain), rev)
    /\ \A s \in Slots[f] : Rests(f, rev.status, rev.ends[s], ms)

SoundFact(f, chain, ms) ==
    /\ chain \in Seq(FactRevisions(f)) /\ Len(chain) <= MaxRevisions[f]
    /\ \A i \in 1..Len(chain) - 1 :
          chain[i].status = "REJECTED" => chain[i + 1].origin = "EXPERT_IMPORT"
    /\ \A i \in 1..Len(chain) :
          chain[i].status = "PUBLISHED" /\ chain[i].origin = "OTHER" =>
             i > 1 /\ SameEnds(f, chain[i - 1], chain[i])
    /\ \A i \in 1..Len(chain) : \A s \in Slots[f] :
          Rests(f, chain[i].status, chain[i].ends[s], ms)

\* A chain for each element of S.
ChainsOf(S, chains) == chains = [r \in S |-> chains[r]]

RecordsSound(ms, fs) ==
    /\ ChainsOf(Mentions, ms)
    /\ ChainsOf(Facts, fs)
    /\ \A m \in Mentions : SoundMention(m, ms[m])
    /\ \A f \in Facts : SoundFact(f, fs[f], ms)

RecordsInv == RecordsSound(mentions, facts)

\* The chunks of a version that is served were ingested under some policy.
ActiveHasPolicy == \A d \in Documents : active[d] # NoVersion => chunkPolicy[active[d]] > 0

SourcesInv == SourcesTypeOK /\ ActiveHasPolicy

ReviewInv == RecordsInv /\ SourcesInv

-----------------------------------------------------------------------------

LEMMA MentionGrows ==
  ASSUME NEW m \in Mentions, NEW chain, SoundMention(m, chain),
         NEW rev, MentionFollows(chain, rev), Len(chain) < MaxRevisions[m]
  PROVE  SoundMention(m, Append(chain, rev))
<1> DEFINE next == Append(chain, rev)
           n == Len(chain)
<1>1. /\ chain \in Seq(MentionRevisions) /\ n \in Nat /\ n < MaxRevisions[m]
      /\ MaxRevisions[m] \in Nat /\ rev \in MentionRevisions
  BY ReviewAssumption DEF SoundMention, MentionFollows
<1>2. /\ next \in Seq(MentionRevisions) /\ Len(next) = n + 1
      /\ next[n + 1] = rev /\ \A i \in 1..n : next[i] = chain[i]
  BY <1>1
<1> HIDE DEF next
<1>3. ASSUME NEW i \in 1..n, next[i].status = "REJECTED"
      PROVE  next[i + 1].origin = "EXPERT_IMPORT"
  <2>1. CASE i = n
    BY <1>1, <1>2, <1>3, <2>1 DEF MentionFollows, Written, Latest
  <2>2. CASE i < n
    BY <1>1, <1>2, <1>3, <2>2 DEF SoundMention
  <2> QED
    BY <1>1, <2>1, <2>2
<1>4. ASSUME NEW i \in 1..n + 1, next[i].status = "PUBLISHED", next[i].origin = "OTHER"
      PROVE  i > 1 /\ next[i - 1] = [next[i] EXCEPT !.status = "APPROVED"]
  <2>1. CASE i = n + 1
    <3>1. chain # <<>> /\ chain[n] = [rev EXCEPT !.status = "APPROVED"]
      BY <1>2, <1>4, <2>1 DEF MentionFollows, Written, Latest
    <3>2. n > 0
      BY <1>1, <3>1
    <3> QED
      BY <1>1, <1>2, <2>1, <3>1, <3>2
  <2>2. CASE i < n + 1
    BY <1>1, <1>2, <1>4, <2>2 DEF SoundMention
  <2> QED
    BY <1>1, <2>1, <2>2
<1>5. Len(next) - 1 = n /\ Len(next) <= MaxRevisions[m]
  BY <1>1, <1>2
<1>6. SoundMention(m, next)
  BY <1>2, <1>3, <1>4, <1>5 DEF SoundMention
<1> QED
  BY <1>6 DEF next

\* The mentions ns are the mentions ms and what was added to them.
Grown(ms, ns) ==
    \A m \in Mentions :
        /\ Len(ms[m]) \in Nat /\ Len(ns[m]) \in Nat /\ Len(ms[m]) <= Len(ns[m])
        /\ \A i \in 1..Len(ms[m]) : ns[m][i] = ms[m][i]

LEMMA RestsStill ==
  ASSUME NEW ms, NEW ns, Grown(ms, ns), NEW f, NEW s, NEW e \in Endpoints,
         Rests(f, s, e, ms)
  PROVE  Rests(f, s, e, ns)
<1>1. e.mention \in Mentions
  BY DEF Endpoints
<1>2. e.n \in 1..Len(ns[e.mention]) /\ ns[e.mention][e.n] = ms[e.mention][e.n]
  BY <1>1 DEF Rests, Grown
<1> QED
  BY <1>2 DEF Rests

LEMMA FactStays ==
  ASSUME NEW ms, NEW ns, Grown(ms, ns), NEW f \in Facts, NEW chain, SoundFact(f, chain, ms)
  PROVE  SoundFact(f, chain, ns)
<1>1. ASSUME NEW i \in 1..Len(chain), NEW s \in Slots[f]
      PROVE  Rests(f, chain[i].status, chain[i].ends[s], ns)
  <2>1. chain[i] \in FactRevisions(f) /\ Rests(f, chain[i].status, chain[i].ends[s], ms)
    BY DEF SoundFact
  <2>2. chain[i].ends[s] \in Endpoints
    BY <2>1 DEF FactRevisions
  <2> QED
    BY <2>1, <2>2, RestsStill
<1> QED
  BY <1>1 DEF SoundFact

LEMMA FactGrows ==
  ASSUME NEW ms, NEW f \in Facts, NEW chain, SoundFact(f, chain, ms),
         NEW rev, FactFollows(f, chain, rev, ms), Len(chain) < MaxRevisions[f]
  PROVE  SoundFact(f, Append(chain, rev), ms)
<1> DEFINE next == Append(chain, rev)
           n == Len(chain)
<1>1. /\ chain \in Seq(FactRevisions(f)) /\ n \in Nat /\ n < MaxRevisions[f]
      /\ MaxRevisions[f] \in Nat /\ rev \in FactRevisions(f)
  BY ReviewAssumption DEF SoundFact, FactFollows
<1>2. /\ next \in Seq(FactRevisions(f)) /\ Len(next) = n + 1
      /\ next[n + 1] = rev /\ \A i \in 1..n : next[i] = chain[i]
  BY <1>1
<1> HIDE DEF next
<1>3. ASSUME NEW i \in 1..n, next[i].status = "REJECTED"
      PROVE  next[i + 1].origin = "EXPERT_IMPORT"
  <2>1. CASE i = n
    BY <1>1, <1>2, <1>3, <2>1 DEF FactFollows, Written, Latest
  <2>2. CASE i < n
    BY <1>1, <1>2, <1>3, <2>2 DEF SoundFact
  <2> QED
    BY <1>1, <2>1, <2>2
<1>4. ASSUME NEW i \in 1..n + 1, next[i].status = "PUBLISHED", next[i].origin = "OTHER"
      PROVE  i > 1 /\ SameEnds(f, next[i - 1], next[i])
  <2>1. CASE i = n + 1
    <3>1. chain # <<>> /\ SameEnds(f, chain[n], rev)
      BY <1>2, <1>4, <2>1 DEF FactFollows, Written, Latest
    <3>2. n > 0
      BY <1>1, <3>1
    <3> QED
      BY <1>1, <1>2, <2>1, <3>1, <3>2
  <2>2. CASE i < n + 1
    BY <1>1, <1>2, <1>4, <2>2 DEF SoundFact
  <2> QED
    BY <1>1, <2>1, <2>2
<1>5. ASSUME NEW i \in 1..n + 1, NEW s \in Slots[f]
      PROVE  Rests(f, next[i].status, next[i].ends[s], ms)
  <2>1. CASE i = n + 1
    BY <1>2, <2>1 DEF FactFollows
  <2>2. CASE i < n + 1
    BY <1>1, <1>2, <2>2 DEF SoundFact
  <2> QED
    BY <1>1, <2>1, <2>2
<1>6. Len(next) - 1 = n /\ Len(next) <= MaxRevisions[f]
  BY <1>1, <1>2
<1>7. SoundFact(f, next, ms)
  BY <1>2, <1>3, <1>4, <1>5, <1>6 DEF SoundFact
<1> QED
  BY <1>7 DEF next

\* What a step may append.
MentionsFit(ms, new) ==
    /\ DOMAIN new \subseteq Mentions
    /\ \A m \in DOMAIN new :
          Len(ms[m]) < MaxRevisions[m] /\ MentionFollows(ms[m], new[m])

FactsFit(ms, fs, new) ==
    /\ DOMAIN new \subseteq Facts
    /\ \A f \in DOMAIN new :
          Len(fs[f]) < MaxRevisions[f] /\ FactFollows(f, fs[f], new[f], ms)

LEMMA Extended ==
  ASSUME NEW S, NEW chains, ChainsOf(S, chains), NEW new
  PROVE  /\ ChainsOf(S, Extend(chains, new))
         /\ \A r \in S : Extend(chains, new)[r] =
               IF r \in DOMAIN new THEN Append(chains[r], new[r]) ELSE chains[r]
<1>1. DOMAIN chains = S
  BY DEF ChainsOf
<1>2. Extend(chains, new) =
        [r \in S |-> IF r \in DOMAIN new THEN Append(chains[r], new[r]) ELSE chains[r]]
  BY <1>1 DEF Extend
<1> QED
  BY <1>2 DEF ChainsOf

LEMMA MentionsGrow ==
  ASSUME NEW ms, ChainsOf(Mentions, ms), \A m \in Mentions : SoundMention(m, ms[m]),
         NEW new, MentionsFit(ms, new)
  PROVE  /\ \A m \in Mentions : SoundMention(m, Extend(ms, new)[m])
         /\ Grown(ms, Extend(ms, new))
<1> DEFINE ns == Extend(ms, new)
<1>1. \A m \in Mentions : ns[m] = IF m \in DOMAIN new THEN Append(ms[m], new[m]) ELSE ms[m]
  BY Extended
<1> HIDE DEF ns
<1>2. ASSUME NEW m \in Mentions
      PROVE  /\ SoundMention(m, ns[m])
             /\ Len(ms[m]) \in Nat /\ Len(ns[m]) \in Nat /\ Len(ms[m]) <= Len(ns[m])
             /\ \A i \in 1..Len(ms[m]) : ns[m][i] = ms[m][i]
  <2>1. ms[m] \in Seq(MentionRevisions) /\ SoundMention(m, ms[m])
    BY DEF SoundMention
  <2>2. CASE m \in DOMAIN new
    <3>1. Len(ms[m]) < MaxRevisions[m] /\ MentionFollows(ms[m], new[m])
      BY <2>2 DEF MentionsFit
    <3>2. SoundMention(m, Append(ms[m], new[m])) /\ new[m] \in MentionRevisions
      BY <2>1, <3>1, MentionGrows DEF MentionFollows
    <3>3. ns[m] = Append(ms[m], new[m])
      BY <1>1, <2>2
    <3> QED
      BY <2>1, <3>2, <3>3
  <2>3. CASE m \notin DOMAIN new
    BY <1>1, <2>1, <2>3
  <2> QED
    BY <2>2, <2>3
<1>3. Grown(ms, ns)
  BY <1>2 DEF Grown
<1> QED
  BY <1>2, <1>3 DEF ns

\* Facts that are sound stay so when the mentions grow and what is appended
\* to the facts fits the mentions as they are then.
LEMMA FactsGrow ==
  ASSUME NEW ms, NEW fs, RecordsSound(ms, fs),
         NEW ns, ChainsOf(Mentions, ns), \A m \in Mentions : SoundMention(m, ns[m]),
         Grown(ms, ns), NEW newF, FactsFit(ns, fs, newF)
  PROVE  RecordsSound(ns, Extend(fs, newF))
<1>1. PICK gs : gs = Extend(fs, newF)
  OBVIOUS
<1>2. /\ ChainsOf(Facts, gs)
      /\ \A f \in Facts : gs[f] = IF f \in DOMAIN newF THEN Append(fs[f], newF[f]) ELSE fs[f]
  BY <1>1, Extended DEF RecordsSound
<1>3. ASSUME NEW f \in Facts
      PROVE  SoundFact(f, gs[f], ns)
  <2>1. SoundFact(f, fs[f], ns)
    BY FactStays DEF RecordsSound
  <2>2. CASE f \in DOMAIN newF
    <3>1. Len(fs[f]) < MaxRevisions[f] /\ FactFollows(f, fs[f], newF[f], ns)
      BY <2>2 DEF FactsFit
    <3>2. SoundFact(f, Append(fs[f], newF[f]), ns)
      BY <2>1, <3>1, FactGrows
    <3> QED
      BY <1>2, <2>2, <3>2
  <2>3. CASE f \notin DOMAIN newF
    BY <1>2, <2>1, <2>3
  <2> QED
    BY <2>2, <2>3
<1>4. RecordsSound(ns, gs)
  BY <1>2, <1>3 DEF RecordsSound
<1> QED
  BY <1>1, <1>4

\* Records that are sound stay so if what is appended fits.
LEMMA Grow ==
  ASSUME NEW ms, NEW fs, RecordsSound(ms, fs), NEW newM, NEW newF,
         MentionsFit(ms, newM), FactsFit(Extend(ms, newM), fs, newF)
  PROVE  RecordsSound(Extend(ms, newM), Extend(fs, newF))
<1>1. PICK ns : ns = Extend(ms, newM)
  OBVIOUS
<1>2. /\ ChainsOf(Mentions, ns)
      /\ \A m \in Mentions : SoundMention(m, ns[m])
      /\ Grown(ms, ns)
  BY <1>1, Extended, MentionsGrow DEF RecordsSound
<1>3. RecordsSound(ns, Extend(fs, newF))
  BY <1>1, <1>2, FactsGrow
<1> QED
  BY <1>1, <1>3

-----------------------------------------------------------------------------

LEMMA MentionsSound ==
  ASSUME RecordsInv, NEW m \in Mentions
  PROVE  /\ Len(mentions[m]) \in Nat
         /\ \A i \in 1..Len(mentions[m]) : mentions[m][i] \in MentionRevisions
         /\ Written(mentions[m]) => /\ Len(mentions[m]) \in 1..Len(mentions[m])
                                    /\ Latest(mentions[m]) = mentions[m][Len(mentions[m])]
                                    /\ Latest(mentions[m]) \in MentionRevisions
<1>1. mentions[m] \in Seq(MentionRevisions)
  BY DEF RecordsInv, RecordsSound, SoundMention
<1> QED
  BY <1>1 DEF Written, Latest

LEMMA FactsSound ==
  ASSUME RecordsInv, NEW f \in Facts
  PROVE  /\ Len(facts[f]) \in Nat
         /\ \A i \in 1..Len(facts[f]) :
               /\ facts[f][i] \in FactRevisions(f)
               /\ \A s \in Slots[f] :
                     /\ facts[f][i].ends[s] \in Endpoints
                     /\ Rests(f, facts[f][i].status, facts[f][i].ends[s], mentions)
         /\ Written(facts[f]) => /\ Len(facts[f]) \in 1..Len(facts[f])
                                 /\ Latest(facts[f]) = facts[f][Len(facts[f])]
<1>1. SoundFact(f, facts[f], mentions)
  BY DEF RecordsInv, RecordsSound
<1>2. facts[f] \in Seq(FactRevisions(f))
  BY <1>1 DEF SoundFact
<1>3. ASSUME NEW i \in 1..Len(facts[f])
      PROVE  /\ facts[f][i] \in FactRevisions(f)
             /\ \A s \in Slots[f] :
                   /\ facts[f][i].ends[s] \in Endpoints
                   /\ Rests(f, facts[f][i].status, facts[f][i].ends[s], mentions)
  <2>1. facts[f][i] \in FactRevisions(f)
    BY <1>2
  <2>2. ASSUME NEW s \in Slots[f]
        PROVE  facts[f][i].ends[s] \in Endpoints
    BY <2>1 DEF FactRevisions
  <2>3. ASSUME NEW s \in Slots[f]
        PROVE  Rests(f, facts[f][i].status, facts[f][i].ends[s], mentions)
    BY <1>1 DEF SoundFact
  <2> QED
    BY <2>1, <2>2, <2>3
<1>4. Written(facts[f]) => /\ Len(facts[f]) \in 1..Len(facts[f])
                          /\ Latest(facts[f]) = facts[f][Len(facts[f])]
  BY <1>2 DEF Written, Latest
<1> QED
  BY <1>2, <1>3, <1>4

LEMMA NoWayBack ==
  ASSUME NEW d, NEW edit, NEW s \in Status, MayBecome(s, d, edit)
  PROVE  s # "REJECTED"
  BY DEF MayBecome, LegalTransitions, Status

\* A step that appends to mentions and facts what fits.
LEMMA Step ==
  ASSUME RecordsInv, NEW newM, NEW newF,
         mentions' = Extend(mentions, newM), facts' = Extend(facts, newF),
         MentionsFit(mentions, newM), FactsFit(Extend(mentions, newM), facts, newF)
  PROVE  RecordsInv'
<1>1. RecordsSound(Extend(mentions, newM), Extend(facts, newF))
  BY Grow DEF RecordsInv
<1> QED
  BY <1>1 DEF RecordsInv

LEMMA FactStep ==
  ASSUME RecordsInv, NEW newF, UNCHANGED mentions,
         facts' = Extend(facts, newF), FactsFit(mentions, facts, newF)
  PROVE  RecordsInv'
<1>1. PICK newM : newM = [x \in {} |-> x]
  OBVIOUS
<1>2. ChainsOf(Mentions, mentions)
  BY DEF RecordsInv, RecordsSound
<1>3. Extend(mentions, newM) = mentions
  BY <1>1, <1>2 DEF Extend, ChainsOf
<1>4. MentionsFit(mentions, newM)
  BY <1>1 DEF MentionsFit
<1>5. mentions' = Extend(mentions, newM) /\ FactsFit(Extend(mentions, newM), facts, newF)
  BY <1>3
<1> QED
  BY <1>4, <1>5, Step

\* The last revision of a mention that grew.
LEMMA Appended ==
  ASSUME RecordsInv, NEW newM, MentionsFit(mentions, newM), NEW x \in DOMAIN newM,
         NEW ns, ns = Extend(mentions, newM)
  PROVE  /\ Len(mentions[x]) + 1 \in Nat \ {0}
         /\ Len(mentions[x]) + 1 \in 1..Len(ns[x])
         /\ ns[x][Len(mentions[x]) + 1] = newM[x]
<1>1. x \in Mentions /\ newM[x] \in MentionRevisions
  BY DEF MentionsFit, MentionFollows
<1>2. mentions[x] \in Seq(MentionRevisions) /\ ChainsOf(Mentions, mentions)
  BY <1>1 DEF RecordsInv, RecordsSound, SoundMention
<1>3. Extend(mentions, newM)[x] =
        IF x \in DOMAIN newM THEN Append(mentions[x], newM[x]) ELSE mentions[x]
  BY <1>1, <1>2, Extended
<1>4. ns[x] = Append(mentions[x], newM[x])
  BY <1>3
<1> QED
  BY <1>1, <1>2, <1>4

\* A fact that goes back to review with the revisions of m.
LEMMA ReboundFollows ==
  ASSUME RecordsInv, NEW f \in Facts, NEW m \in Mentions, NEW K,
         NEW end \in Endpoints, NEW d \in Pending, NEW ns, Grown(mentions, ns),
         Written(facts[f]), Latest(facts[f]).status # "REJECTED",
         end.mention = m, end.n \in 1..Len(ns[m]), ns[m][end.n].entity = end.entity
  PROVE  FactFollows(f, facts[f], Rebound(f, m, K, end, d), ns)
<1>1. PICK old : old = Latest(facts[f])
  OBVIOUS
<1>2. /\ old \in FactRevisions(f)
      /\ \A s \in Slots[f] : old.ends[s] \in Endpoints /\ Rests(f, old.status, old.ends[s], mentions)
  BY <1>1, FactsSound
<1>3. PICK ends : ends = [s \in Slots[f] |->
                            IF old.ends[s].mention = m /\ old.ends[s].n \in K
                            THEN end ELSE old.ends[s]]
  OBVIOUS
<1>4. ends \in [Slots[f] -> Endpoints] /\ d \in Status
  BY <1>2, <1>3 DEF Pending, Status
<1>5. PICK new : new = [old EXCEPT !.status = d, !.ends = ends]
  OBVIOUS
<1>6. /\ new \in FactRevisions(f)
      /\ new.status = d /\ new.ends = ends /\ new.origin = old.origin
  BY <1>2, <1>4, <1>5 DEF FactRevisions
<1>7. Rebound(f, m, K, end, d) = new
  BY <1>1, <1>3, <1>5 DEF Rebound
<1>8. ASSUME NEW s \in Slots[f]
      PROVE  Rests(f, d, ends[s], ns)
  <2>1. Rests(f, old.status, old.ends[s], mentions)
    BY <1>2
  <2>2. CASE old.ends[s].mention = m /\ old.ends[s].n \in K
    <3>1. ends[s] = end /\ VersionOf[m] = VersionOf[f]
      BY <1>3, <2>1, <2>2 DEF Rests
    <3> QED
      BY <3>1 DEF Rests, Pending
  <2>3. CASE ~(old.ends[s].mention = m /\ old.ends[s].n \in K)
    <3>1. ends[s] = old.ends[s]
      BY <1>3, <2>3
    <3>2. Rests(f, old.status, old.ends[s], ns)
      BY <1>2, RestsStill
    <3> QED
      BY <3>1, <3>2 DEF Rests, Pending
  <2> QED
    BY <2>2, <2>3
<1>9. FactFollows(f, facts[f], new, ns)
  BY <1>1, <1>6, <1>8 DEF FactFollows, Pending
<1> QED
  BY <1>7, <1>9

\* Mention m gets rev after its revision n, and each of the facts moved an
\* endpoint on it and the status D[f].
MovesTo(m, n, rev, newM, K, D, moved, end, newF) ==
    /\ n = Len(mentions[m]) /\ newM = [x \in {m} |-> rev]
    /\ moved \subseteq Facts /\ Room(facts, moved)
    /\ \A f \in moved : /\ D[f] \in Pending
                        /\ Written(facts[f]) /\ Latest(facts[f]).status # "REJECTED"
    /\ end = [mention |-> m, n |-> n + 1, entity |-> rev.entity]
    /\ newF = [f \in moved |-> Rebound(f, m, K, end, D[f])]

\* Facts that follow a revision n + 1 of mention m.
LEMMA MovedFit ==
  ASSUME RecordsInv, NEW m \in Mentions, NEW n \in Nat, NEW rev, NEW newM, NEW K, NEW D,
         NEW moved, NEW end, NEW newF, MovesTo(m, n, rev, newM, K, D, moved, end, newF),
         MentionsFit(mentions, newM)
  PROVE  FactsFit(Extend(mentions, newM), facts, newF)
<1> USE DEF MovesTo
<1>1. PICK ns : ns = Extend(mentions, newM)
  OBVIOUS
<1>2. /\ ChainsOf(Mentions, mentions)
      /\ \A x \in Mentions : SoundMention(x, mentions[x])
  BY DEF RecordsInv, RecordsSound
<1>3. Grown(mentions, ns)
  BY <1>1, <1>2, MentionsGrow
<1>4. rev \in MentionRevisions
  BY DEF MentionsFit, MentionFollows
<1>5. m \in DOMAIN newM /\ newM[m] = rev
  OBVIOUS
<1>6. n + 1 \in 1..Len(ns[m]) /\ ns[m][n + 1] = rev
  BY <1>1, <1>5, Appended
<1>7. /\ end \in Endpoints /\ end.mention = m
      /\ end.n \in 1..Len(ns[m]) /\ ns[m][end.n].entity = end.entity
  <2>1. n + 1 \in Nat \ {0} /\ rev.entity \in Identities
    BY <1>4 DEF MentionRevisions
  <2> QED
    BY <1>6, <2>1 DEF Endpoints
<1>8. ASSUME NEW f \in moved
      PROVE  FactFollows(f, facts[f], Rebound(f, m, K, end, D[f]), ns)
  BY <1>3, <1>7, ReboundFollows
<1>9. FactsFit(ns, facts, newF)
  BY <1>8 DEF FactsFit, Room
<1> QED
  BY <1>1, <1>9

-----------------------------------------------------------------------------
(***************************************************************************)
(* The actions that write.                                                 *)
(***************************************************************************)

LEMMA DecideMentionSound ==
  ASSUME RecordsInv, NEW m \in Mentions, NEW n \in Nat, NEW d \in Decisions,
         NEW edit \in Entities \cup {NoEdit}, DecideMention(m, n, d, edit)
  PROVE  RecordsInv'
<1>1. /\ n = Len(mentions[m]) /\ n > 0 /\ Written(mentions[m])
      /\ Latest(mentions[m]) = mentions[m][n]
      /\ mentions[m][n] \in MentionRevisions
  BY MentionsSound DEF DecideMention, Readable, Written, Latest
<1>2. PICK old : old = mentions[m][n]
  OBVIOUS
<1>3. PICK new : new = [old EXCEPT !.status = d,
                                   !.entity = IF edit = NoEdit THEN old.entity ELSE edit]
  OBVIOUS
<1>4. /\ new \in MentionRevisions
      /\ new.status = d /\ new.origin = old.origin
  BY <1>1, <1>2, <1>3 DEF MentionRevisions, Decisions, Status, Identities
<1>5. PICK end : end = [mention |-> m, n |-> n + 1, entity |-> new.entity]
  OBVIOUS
<1>6. PICK moved : moved = Unsettled(m, old, d, edit)
  OBVIOUS
<1>7. PICK newM : newM = [x \in {m} |-> new]
  OBVIOUS
<1>8. PICK newF : newF = [f \in moved |-> Rebound(f, m, 1..n, end, "QUARANTINED")]
  OBVIOUS
<1>9. /\ MayBecome(old.status, d, edit)
      /\ Room(mentions, {m}) /\ Room(facts, moved)
      /\ mentions' = Extend(mentions, newM) /\ facts' = Extend(facts, newF)
  BY <1>2, <1>3, <1>5, <1>6, <1>7, <1>8 DEF DecideMention
<1>10. MentionsFit(mentions, newM)
  <2>1. old.status # "REJECTED"
    BY <1>1, <1>2, <1>9, NoWayBack DEF MentionRevisions
  <2>2. MentionFollows(mentions[m], new)
    BY <1>1, <1>2, <1>4, <2>1 DEF MentionFollows, Decisions
  <2> QED
    BY <1>7, <1>9, <2>2 DEF MentionsFit, Room
<1>11. FactsFit(Extend(mentions, newM), facts, newF)
  <2>1. /\ moved \subseteq Facts
        /\ \A f \in moved : Written(facts[f]) /\ Latest(facts[f]).status # "REJECTED"
    BY <1>6 DEF Unsettled, Seen, Dependents, Pending
  <2>2. PICK D : D = [f \in moved |-> "QUARANTINED"]
    OBVIOUS
  <2>3. newF = [f \in moved |-> Rebound(f, m, 1..n, end, D[f])]
    BY <1>8, <2>2
  <2>4. \A f \in moved : D[f] \in Pending
    BY <2>2 DEF Pending
  <2>5. MovesTo(m, n, new, newM, 1..n, D, moved, end, newF)
    BY <1>1, <1>5, <1>7, <1>9, <2>1, <2>3, <2>4 DEF MovesTo
  <2> QED
    BY <1>10, <2>5, MovedFit
<1> QED
  BY <1>9, <1>10, <1>11, Step

LEMMA ResolveSound ==
  ASSUME RecordsInv, NEW m \in Mentions, NEW n \in Nat, NEW e \in Identities,
         Resolve(m, n, e)
  PROVE  RecordsInv'
<1>1. /\ n = Len(mentions[m]) /\ n > 0 /\ Written(mentions[m])
      /\ Latest(mentions[m]) = mentions[m][n]
      /\ mentions[m][n] \in MentionRevisions
  BY MentionsSound DEF Resolve, Readable, Written, Latest
<1>2. PICK new : new = [mentions[m][n] EXCEPT !.status = "APPROVED", !.entity = e]
  OBVIOUS
<1>3. /\ new \in MentionRevisions
      /\ new.status = "APPROVED" /\ new.entity = e
  BY <1>1, <1>2 DEF MentionRevisions, Status
<1>4. PICK end : end = [mention |-> m, n |-> n + 1, entity |-> new.entity]
  OBVIOUS
<1>5. PICK moved : moved = Seen(Dependents(m, {n}, Pending))
  OBVIOUS
<1>6. PICK newM : newM = [x \in {m} |-> new]
  OBVIOUS
<1>7. PICK D : D = [f \in moved |-> Latest(facts[f]).status]
  OBVIOUS
<1>8. PICK newF : newF = [f \in moved |-> Rebound(f, m, {n}, end, D[f])]
  OBVIOUS
<1>9. /\ mentions[m][n].status \in Pending
      /\ Room(mentions, {m}) /\ Room(facts, moved)
      /\ mentions' = Extend(mentions, newM) /\ facts' = Extend(facts, newF)
  BY <1>2, <1>3, <1>4, <1>5, <1>6, <1>7, <1>8 DEF Resolve
<1>10. MentionsFit(mentions, newM)
  <2>1. MentionFollows(mentions[m], new)
    BY <1>1, <1>3, <1>9 DEF MentionFollows, Pending
  <2> QED
    BY <1>6, <1>9, <2>1 DEF MentionsFit, Room
<1>11. FactsFit(Extend(mentions, newM), facts, newF)
  <2>1. /\ moved \subseteq Facts
        /\ \A f \in moved : Written(facts[f]) /\ Latest(facts[f]).status \in Pending
    BY <1>5 DEF Seen, Dependents
  <2>2. /\ \A f \in moved : D[f] \in Pending
        /\ \A f \in moved : Written(facts[f]) /\ Latest(facts[f]).status # "REJECTED"
    BY <1>7, <2>1 DEF Pending
  <2>3. MovesTo(m, n, new, newM, {n}, D, moved, end, newF)
    BY <1>1, <1>4, <1>6, <1>8, <1>9, <2>1, <2>2 DEF MovesTo
  <2> QED
    BY <1>10, <2>3, MovedFit
<1> QED
  BY <1>9, <1>10, <1>11, Step

\* An endpoint that names a revision in the fact's own text.
LEMMA NamedRests ==
  ASSUME RecordsInv, NEW f \in Facts, NEW m \in Mentions, NEW k \in 1..Len(mentions[m]),
         VersionOf[m] = VersionOf[f], NEW d,
         d = "APPROVED" => mentions[m][k].status \in Endorsed, d # "PUBLISHED"
  PROVE  Named(m, k) \in Endpoints /\ Rests(f, d, Named(m, k), mentions)
<1>1. mentions[m][k] \in MentionRevisions /\ k \in Nat \ {0}
  BY MentionsSound
<1>2. mentions[m][k].entity \in Identities
  BY <1>1 DEF MentionRevisions
<1> QED
  BY <1>1, <1>2 DEF Named, Endpoints, Rests

LEMMA DecideFactSound ==
  ASSUME RecordsInv, NEW f \in Facts, NEW n \in Nat, NEW d \in Decisions,
         NEW edit \in [Slots[f] -> Nameable(VersionOf[f])] \cup {NoEdit},
         DecideFact(f, n, d, edit)
  PROVE  RecordsInv'
<1>1. /\ n = Len(facts[f]) /\ n > 0 /\ Written(facts[f]) /\ Latest(facts[f]) = facts[f][n]
      /\ n \in 1..Len(facts[f])
  BY FactsSound DEF DecideFact, Readable, Written, Latest
<1>2. PICK old : old = facts[f][n]
  OBVIOUS
<1>3. /\ old \in FactRevisions(f)
      /\ \A s \in Slots[f] : /\ old.ends[s] \in Endpoints
                             /\ Rests(f, old.status, old.ends[s], mentions)
  BY <1>1, <1>2, FactsSound
<1>4. PICK ends : ends = IF edit = NoEdit THEN old.ends ELSE edit
  OBVIOUS
<1>5. PICK to : to = [s \in Slots[f] |->
                        IF d = "APPROVED"
                        THEN Named(ends[s].mention, Len(mentions[ends[s].mention]))
                        ELSE ends[s]]
  OBVIOUS
<1>6. PICK new : new = [old EXCEPT !.status = d, !.ends = to]
  OBVIOUS
<1>7. PICK newF : newF = [g \in {f} |-> new]
  OBVIOUS
<1>8. /\ MayBecome(old.status, d, edit)
      /\ d = "APPROVED" => \A s \in Slots[f] : EndorsedBy(f, ends[s])
      /\ Room(facts, {f}) /\ facts' = Extend(facts, newF) /\ UNCHANGED mentions
  BY <1>2, <1>4, <1>5, <1>6, <1>7 DEF DecideFact
<1>9. d \in {"APPROVED", "REJECTED", "QUARANTINED"} /\ d \in Status
  BY DEF Decisions, Status
<1>10. ASSUME NEW s \in Slots[f]
       PROVE  ends[s].mention \in Mentions /\ VersionOf[ends[s].mention] = VersionOf[f]
  <2>1. CASE edit = NoEdit
    BY <1>3, <1>4, <2>1 DEF Endpoints, Rests
  <2>2. CASE edit # NoEdit
    <3>1. ends[s] \in Nameable(VersionOf[f])
      BY <1>4, <2>2
    <3> QED
      BY <3>1 DEF Nameable, Named
  <2> QED
    BY <2>1, <2>2
<1>11. ASSUME NEW s \in Slots[f]
       PROVE  to[s] \in Endpoints /\ Rests(f, d, to[s], mentions)
  <2>1. CASE d = "APPROVED"
    <3>1. PICK m : m = ends[s].mention
      OBVIOUS
    <3>2. m \in Mentions /\ VersionOf[m] = VersionOf[f]
      BY <1>10, <3>1
    <3>3. Written(mentions[m]) /\ Latest(mentions[m]).status \in Endorsed
      BY <1>8, <2>1, <3>1 DEF EndorsedBy
    <3>4. PICK k \in 1..Len(mentions[m]) : /\ k = Len(mentions[m])
                                           /\ mentions[m][k].status \in Endorsed
      BY <3>2, <3>3, MentionsSound
    <3>5. to[s] = Named(m, k)
      BY <1>5, <2>1, <3>1, <3>4
    <3>6. d # "PUBLISHED" /\ (d = "APPROVED" => mentions[m][k].status \in Endorsed)
      BY <2>1, <3>4
    <3>7. Named(m, k) \in Endpoints /\ Rests(f, d, Named(m, k), mentions)
      BY <3>2, <3>6, NamedRests
    <3> QED
      BY <3>5, <3>7
  <2>2. CASE d # "APPROVED" /\ edit = NoEdit
    <3>1. to[s] = old.ends[s]
      BY <1>4, <1>5, <2>2
    <3> QED
      BY <1>3, <1>9, <2>2, <3>1 DEF Rests
  <2>3. CASE d # "APPROVED" /\ edit # NoEdit
    <3>1. to[s] \in Nameable(VersionOf[f])
      BY <1>4, <1>5, <2>3
    <3>2. PICK m \in Mentions : /\ VersionOf[m] = VersionOf[f]
                                /\ \E k \in 1..Len(mentions[m]) : to[s] = Named(m, k)
      BY <3>1 DEF Nameable
    <3>3. PICK k \in 1..Len(mentions[m]) : to[s] = Named(m, k)
      BY <3>2
    <3> QED
      BY <1>9, <2>3, <3>2, <3>3, NamedRests
  <2> QED
    BY <2>1, <2>2, <2>3
<1>12. to \in [Slots[f] -> Endpoints]
  BY <1>5, <1>11
<1>13. /\ new \in FactRevisions(f)
       /\ new.status = d /\ new.ends = to /\ new.origin = old.origin
  BY <1>3, <1>6, <1>9, <1>12 DEF FactRevisions
<1>14. old.status # "REJECTED"
  BY <1>3, <1>8, NoWayBack DEF FactRevisions
<1>15. FactFollows(f, facts[f], new, mentions)
  BY <1>1, <1>2, <1>9, <1>11, <1>13, <1>14 DEF FactFollows
<1>16. FactsFit(mentions, facts, newF)
  BY <1>7, <1>8, <1>15 DEF FactsFit, Room
<1> QED
  BY <1>8, <1>16, FactStep

LEMMA ContextSound ==
  ASSUME RecordsInv, NEW f \in Facts, NEW m \in Mentions, PersistContextCandidate(f, m)
  PROVE  RecordsInv'
<1>1. PICK k : k = Len(mentions[m])
  OBVIOUS
<1>2. PICK now : now = mentions[m][k]
  OBVIOUS
<1>3. k \in 1..Len(mentions[m]) /\ now \in MentionRevisions
  BY <1>1, <1>2, MentionsSound DEF PersistContextCandidate
<1>4. PICK new : new = [status |-> "CANDIDATE", origin |-> "OTHER",
                        ends |-> [s \in Slots[f] |-> Named(m, k)],
                        policy |-> now.policy, tbox |-> now.tbox]
  OBVIOUS
<1>5. PICK newF : newF = [g \in {f} |-> new]
  OBVIOUS
<1>6. /\ ~Written(facts[f]) /\ Room(facts, {f}) /\ VersionOf[m] = VersionOf[f]
      /\ facts' = Extend(facts, [g \in {f} |->
              [status |-> "CANDIDATE", origin |-> "OTHER",
               ends |-> [s \in Slots[g] |-> Named(m, k)],
               policy |-> now.policy, tbox |-> now.tbox]])
      /\ UNCHANGED mentions
  BY <1>1, <1>2 DEF PersistContextCandidate
<1>7. facts' = Extend(facts, newF)
  BY <1>4, <1>5, <1>6
<1>8. Named(m, k) \in Endpoints /\ Rests(f, "CANDIDATE", Named(m, k), mentions)
  BY <1>3, <1>6, NamedRests
<1>9. /\ new \in FactRevisions(f)
      /\ new.status = "CANDIDATE" /\ \A s \in Slots[f] : new.ends[s] = Named(m, k)
  BY <1>3, <1>4, <1>8 DEF FactRevisions, MentionRevisions, Status, Origins
<1>10. FactFollows(f, facts[f], new, mentions)
  BY <1>6, <1>8, <1>9 DEF FactFollows
<1>11. FactsFit(mentions, facts, newF)
  BY <1>5, <1>6, <1>10 DEF FactsFit, Room
<1> QED
  BY <1>6, <1>7, <1>11, FactStep

\* A version that is served has a policy for what is written about it.
LEMMA ServedPolicy ==
  ASSUME SourcesInv, NEW r \in Mentions \cup Facts,
         active[DocumentOf[VersionOf[r]]] = VersionOf[r]
  PROVE  chunkPolicy[VersionOf[r]] \in 1..MaxPolicy /\ tbox \in 1..MaxTBox
<1>1. VersionOf[r] \in Versions
  BY ReviewAssumption
<1>2. DocumentOf[VersionOf[r]] \in Documents /\ VersionOf[r] # NoVersion
  BY <1>1, ReviewAssumption
<1>3. chunkPolicy[VersionOf[r]] > 0
  BY <1>2 DEF SourcesInv, ActiveHasPolicy
<1>4. chunkPolicy[VersionOf[r]] \in 0..MaxPolicy /\ tbox \in 1..MaxTBox
  BY <1>1 DEF SourcesInv, SourcesTypeOK
<1> QED
  BY <1>3, <1>4, ReviewAssumption

LEMMA BatchSound ==
  ASSUME RecordsInv, SourcesInv, NEW M \in SUBSET Mentions, NEW F \in SUBSET Facts,
         NEW ent \in [M -> Entities], NEW to \in [F -> [{"subject", "object"} -> M]],
         NEW status \in Status, NEW origin \in Origins,
         Batch(M, F, ent, to, status, origin),
         status = "PUBLISHED" => origin = "EXPERT_IMPORT",
         origin = "OTHER" => /\ \A m \in M : ~Written(mentions[m])
                             /\ \A f \in F : ~Written(facts[f])
  PROVE  RecordsInv'
<1>1. PICK newM : newM =
        [m \in M |-> [status |-> status, origin |-> origin, entity |-> ent[m],
                      policy |-> chunkPolicy[VersionOf[m]], tbox |-> tbox]]
  OBVIOUS
<1>2. PICK newF : newF =
        [f \in F |-> [status |-> status, origin |-> origin,
                      ends |-> [s \in Slots[f] |->
                                  [mention |-> to[f][s],
                                   n |-> Len(mentions[to[f][s]]) + 1,
                                   entity |-> ent[to[f][s]]]],
                      policy |-> chunkPolicy[VersionOf[f]], tbox |-> tbox]]
  OBVIOUS
<1>3. /\ Room(mentions, M) /\ Room(facts, F)
      /\ \A r \in M \cup F : active[DocumentOf[VersionOf[r]]] = VersionOf[r]
      /\ \A f \in F, s \in {"subject", "object"} :
            s \in Slots[f] => VersionOf[to[f][s]] = VersionOf[f]
      /\ mentions' = Extend(mentions, newM) /\ facts' = Extend(facts, newF)
  BY <1>1, <1>2 DEF Batch
<1>4. PICK ns : ns = Extend(mentions, newM)
  OBVIOUS
<1>5. MentionsFit(mentions, newM)
  <2>1. ASSUME NEW m \in M
        PROVE  Len(mentions[m]) < MaxRevisions[m] /\ MentionFollows(mentions[m], newM[m])
    <3>1. chunkPolicy[VersionOf[m]] \in 1..MaxPolicy /\ tbox \in 1..MaxTBox
      BY <1>3, ServedPolicy
    <3>2. /\ newM[m] \in MentionRevisions
          /\ newM[m].status = status /\ newM[m].origin = origin
      BY <1>1, <3>1 DEF MentionRevisions, Identities
    <3>3. MentionFollows(mentions[m], newM[m])
      BY <3>2 DEF MentionFollows, Origins
    <3> QED
      BY <1>3, <3>3 DEF Room
  <2>2. DOMAIN newM = M
    BY <1>1
  <2> QED
    BY <2>1, <2>2 DEF MentionsFit
<1>6. ASSUME NEW f \in F
      PROVE  FactFollows(f, facts[f], newF[f], ns)
  <2>1. chunkPolicy[VersionOf[f]] \in 1..MaxPolicy /\ tbox \in 1..MaxTBox
    BY <1>3, ServedPolicy
  <2>2. PICK rev : rev = newF[f]
    OBVIOUS
  <2>3. PICK ends : ends = [s \in Slots[f] |->
                              [mention |-> to[f][s],
                               n |-> Len(mentions[to[f][s]]) + 1,
                               entity |-> ent[to[f][s]]]]
    OBVIOUS
  <2>4. rev = [status |-> status, origin |-> origin, ends |-> ends,
               policy |-> chunkPolicy[VersionOf[f]], tbox |-> tbox]
    BY <1>2, <2>2, <2>3
  <2>5. ASSUME NEW s \in Slots[f]
        PROVE  ends[s] \in Endpoints /\ Rests(f, status, ends[s], ns)
    <3>1. s \in {"subject", "object"}
      <4>1. f \in Facts /\ Slots[f] \in {{"subject"}, {"subject", "object"}}
        BY ReviewAssumption
      <4> QED
        BY <4>1
    <3>2. PICK x \in M : x = to[f][s]
      BY <3>1
    <3>3. x \in DOMAIN newM /\ x \in Mentions
      BY <1>1
    <3>4. PICK k : k = Len(mentions[x]) + 1
      OBVIOUS
    <3>5. k \in Nat \ {0} /\ k \in 1..Len(ns[x]) /\ ns[x][k] = newM[x]
      BY <1>4, <1>5, <3>3, <3>4, Appended
    <3>6. ends[s] = [mention |-> x, n |-> k, entity |-> ent[x]]
      BY <2>3, <3>2, <3>4
    <3>7. newM[x].status = status /\ newM[x].entity = ent[x]
      BY <1>1
    <3>8. VersionOf[x] = VersionOf[f]
      BY <1>3, <3>1, <3>2
    <3>9. ends[s] \in Endpoints
      BY <3>3, <3>5, <3>6 DEF Endpoints, Identities
    <3> QED
      BY <3>5, <3>6, <3>7, <3>8, <3>9 DEF Rests, Endorsed
  <2>6. ends \in [Slots[f] -> Endpoints]
    BY <2>3, <2>5
  <2>7. /\ rev \in FactRevisions(f)
        /\ rev.status = status /\ rev.origin = origin /\ rev.ends = ends
    BY <2>1, <2>4, <2>6 DEF FactRevisions
  <2>8. FactFollows(f, facts[f], rev, ns)
    BY <2>5, <2>7 DEF FactFollows, Origins
  <2> QED
    BY <2>2, <2>8
<1>7. FactsFit(ns, facts, newF)
  <2>1. DOMAIN newF = F
    BY <1>2
  <2> QED
    BY <1>3, <1>6, <2>1 DEF FactsFit, Room
<1> QED
  BY <1>3, <1>4, <1>5, <1>7, Step

LEMMA ReleaseSound ==
  ASSUME RecordsInv, NEW M \in SUBSET Mentions, NEW F \in SUBSET Facts, Release(M, F)
  PROVE  RecordsInv'
<1>1. PICK newM : newM = [m \in M |-> [Latest(mentions[m]) EXCEPT !.status = "PUBLISHED"]]
  OBVIOUS
<1>2. PICK ns : ns = Extend(mentions, newM)
  OBVIOUS
<1>3. ns = AsPublished(M)
  BY <1>1, <1>2 DEF AsPublished
<1>4. PICK newF : newF =
        [f \in F |-> [Latest(facts[f]) EXCEPT
                        !.status = "PUBLISHED",
                        !.ends = [s \in Slots[f] |->
                                    PublishedEnd(Latest(facts[f]).ends[s], ns)]]]
  OBVIOUS
<1>5. /\ \A m \in M : Approved(m, mentions[m])
      /\ \A f \in F : Approved(f, facts[f])
      /\ Room(mentions, M) /\ Room(facts, F)
      /\ \A f \in F : \A s \in Slots[f] :
            LET end == Latest(facts[f]).ends[s]
                j == PublishedEnd(end, ns).n
            IN  /\ j \in 1..Len(ns[end.mention])
                /\ ns[end.mention][j] =
                      [mentions[end.mention][end.n] EXCEPT !.status = "PUBLISHED"]
      /\ mentions' = Extend(mentions, newM) /\ facts' = Extend(facts, newF)
  BY <1>2, <1>3, <1>4 DEF Release
<1>6. MentionsFit(mentions, newM)
  <2>1. ASSUME NEW m \in M
        PROVE  MentionFollows(mentions[m], newM[m])
    <3>1. PICK old : old = Latest(mentions[m])
      OBVIOUS
    <3>2. old \in MentionRevisions /\ old.status = "APPROVED" /\ Written(mentions[m])
      BY <1>5, <3>1, MentionsSound DEF Approved
    <3>3. PICK new : new = [old EXCEPT !.status = "PUBLISHED"]
      OBVIOUS
    <3>4. /\ new \in MentionRevisions
          /\ new.status = "PUBLISHED"
          /\ old = [new EXCEPT !.status = "APPROVED"]
      BY <3>2, <3>3 DEF MentionRevisions, Status
    <3>5. MentionFollows(mentions[m], new)
      BY <3>1, <3>2, <3>4 DEF MentionFollows
    <3>6. newM[m] = new
      BY <1>1, <3>1, <3>3
    <3> QED
      BY <3>5, <3>6
  <2>2. DOMAIN newM = M
    BY <1>1
  <2> QED
    BY <1>5, <2>1, <2>2 DEF MentionsFit, Room
<1>7. ASSUME NEW f \in F
      PROVE  FactFollows(f, facts[f], newF[f], ns)
  <2>1. PICK old : old = Latest(facts[f])
    OBVIOUS
  <2>2. /\ Written(facts[f]) /\ old.status = "APPROVED"
        /\ old \in FactRevisions(f)
        /\ \A s \in Slots[f] : /\ old.ends[s] \in Endpoints
                               /\ Rests(f, old.status, old.ends[s], mentions)
    BY <1>5, <2>1, FactsSound DEF Approved
  <2>3. PICK ends : ends = [s \in Slots[f] |-> PublishedEnd(old.ends[s], ns)]
    OBVIOUS
  <2>4. ASSUME NEW s \in Slots[f]
        PROVE  /\ ends[s] \in Endpoints /\ Rests(f, "PUBLISHED", ends[s], ns)
               /\ ends[s].mention = old.ends[s].mention
               /\ ends[s].entity = old.ends[s].entity
    <3>1. PICK end : end = old.ends[s]
      OBVIOUS
    <3>2. end \in Endpoints /\ Rests(f, "APPROVED", end, mentions)
      BY <2>2, <3>1
    <3>3. PICK j : j = PublishedEnd(end, ns).n
      OBVIOUS
    <3>4. /\ j \in 1..Len(ns[end.mention])
          /\ ns[end.mention][j] =
                [mentions[end.mention][end.n] EXCEPT !.status = "PUBLISHED"]
      BY <1>5, <2>1, <3>1, <3>3
    <3>5. mentions[end.mention][end.n] \in MentionRevisions
      BY <3>2, MentionsSound DEF Endpoints, Rests
    <3>6. /\ ns[end.mention][j].status = "PUBLISHED"
          /\ ns[end.mention][j].entity = end.entity
      BY <3>2, <3>4, <3>5 DEF MentionRevisions, Rests
    <3>7. ends[s] = [end EXCEPT !.n = j]
      BY <2>3, <3>1, <3>2, <3>3 DEF PublishedEnd, Endpoints
    <3>8. j \in Nat \ {0}
      BY <3>4
    <3>9. PICK new : new = [end EXCEPT !.n = j]
      OBVIOUS
    <3>10. /\ new \in Endpoints /\ new.mention = end.mention /\ new.n = j
           /\ new.entity = end.entity
      BY <3>2, <3>8, <3>9 DEF Endpoints
    <3>11. Rests(f, "PUBLISHED", new, ns)
      BY <3>2, <3>4, <3>6, <3>10 DEF Rests
    <3> QED
      BY <3>1, <3>7, <3>9, <3>10, <3>11
  <2>5. ends \in [Slots[f] -> Endpoints]
    BY <2>3, <2>4
  <2>6. PICK new : new = [old EXCEPT !.status = "PUBLISHED", !.ends = ends]
    OBVIOUS
  <2>7. new \in FactRevisions(f) /\ new.status = "PUBLISHED" /\ new.ends = ends
    BY <2>2, <2>5, <2>6 DEF FactRevisions, Status
  <2>8. SameEnds(f, old, new)
    BY <2>2, <2>4, <2>7 DEF SameEnds
  <2>9. FactFollows(f, facts[f], new, ns)
    BY <2>1, <2>2, <2>4, <2>7, <2>8 DEF FactFollows
  <2>10. newF[f] = new
    BY <1>4, <2>1, <2>3, <2>6
  <2> QED
    BY <2>9, <2>10
<1>8. FactsFit(ns, facts, newF)
  <2>1. DOMAIN newF = F
    BY <1>4
  <2> QED
    BY <1>5, <1>7, <2>1 DEF FactsFit, Room
<1> QED
  BY <1>2, <1>5, <1>6, <1>8, Step

LEMMA ReassignSound ==
  ASSUME RecordsInv, NEW f \in Facts, NEW x \in Mentions, NEW t \in Mentions,
         NEW n \in Nat, NEW k \in Nat, ReassignProperty(f, n, x, t, k)
  PROVE  RecordsInv'
<1>1. /\ n = Len(facts[f]) /\ n > 0 /\ Written(facts[f]) /\ Latest(facts[f]) = facts[f][n]
      /\ n \in 1..Len(facts[f])
  BY FactsSound DEF ReassignProperty, Readable, Written, Latest
<1>2. PICK old : old = facts[f][n]
  OBVIOUS
<1>3. old \in FactRevisions(f)
  BY <1>1, <1>2, FactsSound
<1>4. PICK e : e = mentions[t][k].entity
  OBVIOUS
<1>5. e \in Identities
  <2>1. k \in 1..Len(mentions[t])
    BY MentionsSound DEF ReassignProperty, Confirmed
  <2>2. mentions[t][k] \in MentionRevisions
    BY <2>1, MentionsSound
  <2> QED
    BY <1>4, <2>2 DEF MentionRevisions
<1>6. PICK p : p = [status |-> "CANDIDATE", origin |-> old.origin, entity |-> e,
                    policy |-> old.policy, tbox |-> old.tbox]
  OBVIOUS
<1>7. PICK a : a = [p EXCEPT !.status = "APPROVED"]
  OBVIOUS
<1>8. /\ p \in MentionRevisions /\ p.status = "CANDIDATE"
      /\ a \in MentionRevisions /\ a.status = "APPROVED" /\ a.entity = e
  BY <1>3, <1>5, <1>6, <1>7 DEF MentionRevisions, FactRevisions, Status
<1>9. PICK end : end = [mention |-> x, n |-> 2, entity |-> e]
  OBVIOUS
<1>10. PICK ends : ends = [s \in Slots[f] |-> end]
  OBVIOUS
<1>11. PICK new : new = [old EXCEPT !.status = "QUARANTINED", !.ends = ends]
  OBVIOUS
<1>12. PICK newF : newF = [g \in {f} |-> new]
  OBVIOUS
<1>13. PICK ns : ns = [mentions EXCEPT ![x] = <<p, a>>]
  OBVIOUS
<1>14. /\ mentions' = ns
       /\ facts' = Extend(facts, [g \in {f} |->
              [old EXCEPT !.status = "QUARANTINED",
                          !.ends = [s \in Slots[f] |->
                                      [mention |-> x, n |-> 2, entity |-> e]]]])
       /\ old.status \in Pending /\ Room(facts, {f})
       /\ VersionOf[x] = VersionOf[f] /\ ~Written(mentions[x]) /\ MaxRevisions[x] >= 2
  BY <1>2, <1>4, <1>6, <1>7, <1>13 DEF ReassignProperty
<1>15. facts' = Extend(facts, newF)
  BY <1>9, <1>10, <1>11, <1>12, <1>14
<1>16. /\ ChainsOf(Mentions, mentions) /\ mentions[x] = <<>>
       /\ \A m \in Mentions : SoundMention(m, mentions[m])
  BY <1>14 DEF RecordsInv, RecordsSound, Written
<1>17. DOMAIN mentions = Mentions
  BY <1>16 DEF ChainsOf
<1>18. ChainsOf(Mentions, ns) /\ ns[x] = <<p, a>>
       /\ \A m \in Mentions \ {x} : ns[m] = mentions[m]
  BY <1>13, <1>17 DEF ChainsOf
<1>19. SoundMention(x, <<p, a>>)
  <2>1. PICK two : two = <<p, a>>
    OBVIOUS
  <2>2. /\ two \in Seq(MentionRevisions) /\ Len(two) = 2 /\ two[1] = p /\ two[2] = a
        /\ MaxRevisions[x] \in Nat
    BY <1>8, <2>1, ReviewAssumption
  <2>3. \A i \in 1..Len(two) : two[i].status \in {"CANDIDATE", "APPROVED"}
    BY <1>8, <2>2
  <2>4. SoundMention(x, two)
    BY <1>14, <2>2, <2>3 DEF SoundMention
  <2> QED
    BY <2>1, <2>4
<1>20. \A m \in Mentions : SoundMention(m, ns[m])
  BY <1>16, <1>18, <1>19
<1>21. Grown(mentions, ns)
  <2>1. ASSUME NEW m \in Mentions
        PROVE  /\ Len(mentions[m]) \in Nat /\ Len(ns[m]) \in Nat
               /\ Len(mentions[m]) <= Len(ns[m])
               /\ \A i \in 1..Len(mentions[m]) : ns[m][i] = mentions[m][i]
    <3>1. CASE m = x
      <4>1. Len(mentions[m]) = 0 /\ Len(ns[m]) = 2
        BY <1>16, <1>18, <3>1
      <4> QED
        BY <4>1
    <3>2. CASE m # x
      BY <1>18, <3>2, MentionsSound
    <3> QED
      BY <3>1, <3>2
  <2> QED
    BY <2>1 DEF Grown
<1>22. FactFollows(f, facts[f], new, ns)
  <2>1. end \in Endpoints /\ Rests(f, "QUARANTINED", end, ns)
    <3>1. Len(ns[x]) = 2 /\ ns[x][2] = a
      BY <1>18
    <3>2. end \in Endpoints /\ end.mention = x /\ end.n = 2 /\ end.entity = e
      BY <1>5, <1>9 DEF Endpoints
    <3> QED
      BY <1>8, <1>14, <3>1, <3>2 DEF Rests
  <2>2. ends \in [Slots[f] -> Endpoints]
    BY <1>10, <2>1
  <2>3. new \in FactRevisions(f) /\ new.status = "QUARANTINED" /\ new.ends = ends
    BY <1>3, <1>11, <2>2 DEF FactRevisions, Status
  <2> QED
    BY <1>1, <1>2, <1>10, <1>14, <2>1, <2>3 DEF FactFollows, Pending
<1>23. FactsFit(ns, facts, newF)
  BY <1>12, <1>14, <1>22 DEF FactsFit, Room
<1>24. RecordsSound(ns, Extend(facts, newF))
  BY <1>18, <1>20, <1>21, <1>23, FactsGrow DEF RecordsInv
<1> QED
  BY <1>14, <1>15, <1>24 DEF RecordsInv

LEMMA RecordsPreserved ==
  ASSUME ReviewInv, [ReviewNext]_reviewVars
  PROVE  RecordsInv'
<1> USE DEF ReviewInv
<1>1. ASSUME NEW M \in SUBSET Mentions, NEW F \in SUBSET Facts,
             NEW ent \in [M -> Entities], NEW to \in [F -> [{"subject", "object"} -> M]]
      PROVE  /\ \A status \in Pending :
                   PersistCandidates(M, F, ent, to, status) => RecordsInv'
             /\ ImportAuthoritative(M, F, ent, to) => RecordsInv'
  <2>1. ASSUME NEW status \in Pending, PersistCandidates(M, F, ent, to, status)
        PROVE  RecordsInv'
    <3>1. status \in Status /\ "OTHER" \in Origins /\ status # "PUBLISHED"
      BY DEF Pending, Status, Origins
    <3>2. /\ Batch(M, F, ent, to, status, "OTHER")
          /\ \A m \in M : ~Written(mentions[m])
          /\ \A f \in F : ~Written(facts[f])
      BY <2>1 DEF PersistCandidates
    <3> QED
      BY <3>1, <3>2, BatchSound
  <2>2. ASSUME ImportAuthoritative(M, F, ent, to)
        PROVE  RecordsInv'
    <3>1. "PUBLISHED" \in Status /\ "EXPERT_IMPORT" \in Origins
      BY DEF Status, Origins
    <3>2. Batch(M, F, ent, to, "PUBLISHED", "EXPERT_IMPORT")
      BY <2>2 DEF ImportAuthoritative
    <3> QED
      BY <3>1, <3>2, BatchSound
  <2> QED
    BY <2>1, <2>2
<1>2. NewRecords => RecordsInv'
  BY <1>1 DEF NewRecords
<1>3. ASSUME NEW m \in Mentions, NEW n \in 1..Len(mentions[m])
      PROVE  /\ \A d \in Decisions, edit \in Entities \cup {NoEdit} :
                   DecideMention(m, n, d, edit) => RecordsInv'
             /\ LinkMention(m, n) => RecordsInv'
             /\ SplitMention(m, n) => RecordsInv'
  <2>1. n \in Nat
    BY MentionsSound
  <2>2. ASSUME LinkMention(m, n)
        PROVE  RecordsInv'
    <3>1. PICK e \in Entities \cup {Latest(mentions[x]).entity :
                                      x \in {y \in Mentions : Written(mentions[y])}} :
             Resolve(m, n, e)
      BY <2>2 DEF LinkMention
    <3>2. ASSUME NEW y \in Mentions, Written(mentions[y])
          PROVE  Latest(mentions[y]).entity \in Identities
      BY <3>2, MentionsSound DEF MentionRevisions
    <3>3. e \in Identities
      BY <3>2 DEF Identities
    <3> QED
      BY <2>1, <3>1, <3>3, ResolveSound
  <2>3. OwnIdentity(m, n) \in Identities
    BY <2>1 DEF OwnIdentity, Identities
  <2>4. SplitMention(m, n) => RecordsInv'
    BY <2>1, <2>3, ResolveSound DEF SplitMention
  <2> QED
    BY <2>1, <2>2, <2>4, DecideMentionSound
<1>4. MentionReview => RecordsInv'
  BY <1>3 DEF MentionReview
<1>5. FactReview => RecordsInv'
  <2>1. ASSUME NEW f \in Facts, NEW n \in 1..Len(facts[f]), NEW d \in Decisions,
               NEW edit \in [Slots[f] -> Nameable(VersionOf[f])] \cup {NoEdit},
               DecideFact(f, n, d, edit)
        PROVE  RecordsInv'
    <3>1. n \in Nat
      BY FactsSound
    <3> QED
      BY <2>1, <3>1, DecideFactSound
  <2> QED
    BY <2>1 DEF FactReview
<1>6. Review => RecordsInv'
  BY <1>2, <1>4, <1>5, ContextSound DEF Review
<1>7. Reassignment => RecordsInv'
  <2>1. ASSUME NEW f \in Facts, NEW x \in Mentions, NEW t \in Mentions,
               NEW n \in 1..Len(facts[f]), NEW k \in 1..Len(mentions[t]),
               ReassignProperty(f, n, x, t, k)
        PROVE  RecordsInv'
    <3>1. n \in Nat /\ k \in Nat
      BY FactsSound, MentionsSound
    <3> QED
      BY <2>1, <3>1, ReassignSound
  <2> QED
    BY <2>1 DEF Reassignment
<1>8. ASSUME NEW M \in SUBSET Mentions, NEW F \in SUBSET Facts, Release(M, F)
      PROVE  RecordsInv'
  BY <1>8, ReleaseSound
<1>9. ASSUME UNCHANGED recordVars
      PROVE  RecordsInv'
  BY <1>9 DEF recordVars, RecordsInv
<1>10. ASSUME NEW v \in Versions, NEW p \in 1..MaxPolicy, PublishVersion(v, p)
       PROVE  RecordsInv'
  BY <1>9, <1>10 DEF PublishVersion
<1>11. ASSUME NEW d \in Documents, RetireDocument(d)
       PROVE  RecordsInv'
  BY <1>9, <1>11 DEF RetireDocument
<1>12. ActivateTBox => RecordsInv'
  BY <1>9 DEF ActivateTBox
<1>13. UNCHANGED reviewVars => RecordsInv'
  BY <1>9 DEF reviewVars
<1> QED
  BY <1>6, <1>7, <1>8, <1>10, <1>11, <1>12, <1>13 DEF ReviewNext

\* No review touches a document, nor the T-Box.
LEMMA ReviewLeavesSources ==
  Review => UNCHANGED <<sourceVars, tbox>>
<1>1. ASSUME NEW M, NEW F, NEW ent, NEW to, NEW status, NEW origin,
             Batch(M, F, ent, to, status, origin)
      PROVE  UNCHANGED <<sourceVars, tbox>>
  BY <1>1 DEF Batch
<1>2. NewRecords => UNCHANGED <<sourceVars, tbox>>
  BY <1>1, Zenon DEF NewRecords, PersistCandidates, ImportAuthoritative
<1>3. ASSUME NEW m, NEW n, NEW d, NEW edit, DecideMention(m, n, d, edit)
      PROVE  UNCHANGED <<sourceVars, tbox>>
  BY <1>3 DEF DecideMention
<1>4. ASSUME NEW m, NEW n, NEW e, Resolve(m, n, e)
      PROVE  UNCHANGED <<sourceVars, tbox>>
  BY <1>4 DEF Resolve
<1>5. MentionReview => UNCHANGED <<sourceVars, tbox>>
  BY <1>3, <1>4, Zenon DEF MentionReview, LinkMention, SplitMention
<1>6. ASSUME NEW f, NEW n, NEW d, NEW edit, DecideFact(f, n, d, edit)
      PROVE  UNCHANGED <<sourceVars, tbox>>
  BY <1>6 DEF DecideFact
<1>7. FactReview => UNCHANGED <<sourceVars, tbox>>
  BY <1>6, Zenon DEF FactReview
<1>8. ASSUME NEW f, NEW m, PersistContextCandidate(f, m)
      PROVE  UNCHANGED <<sourceVars, tbox>>
  BY <1>8 DEF PersistContextCandidate
<1> QED
  BY <1>2, <1>5, <1>7, <1>8 DEF Review

LEMMA SourcesPreserved ==
  ASSUME SourcesInv, [ReviewNext]_reviewVars
  PROVE  SourcesInv'
<1>1. ASSUME UNCHANGED <<sourceVars, tbox>>
      PROVE  SourcesInv'
  BY <1>1 DEF sourceVars, SourcesInv, SourcesTypeOK, ActiveHasPolicy
<1>2. Review => UNCHANGED <<sourceVars, tbox>>
  BY ReviewLeavesSources
<1>3. Reassignment => UNCHANGED <<sourceVars, tbox>>
  BY DEF Reassignment, ReassignProperty
<1>4. ASSUME NEW M \in SUBSET Mentions, NEW F \in SUBSET Facts, Release(M, F)
      PROVE  SourcesInv'
  BY <1>1, <1>4 DEF Release
<1>5. ASSUME NEW v \in Versions, NEW p \in 1..MaxPolicy, PublishVersion(v, p)
      PROVE  SourcesInv'
  <2>1. PICK d \in Documents : d = DocumentOf[v]
    BY ReviewAssumption
  <2>2. /\ active' = [active EXCEPT ![d] = v]
        /\ retired' = retired \ {v}
        /\ policy' = [policy EXCEPT ![d] = p]
        /\ chunkPolicy' = [chunkPolicy EXCEPT ![v] = p]
        /\ tbox' = tbox
    BY <1>5, <2>1 DEF PublishVersion
  <2>3. p \in 0..MaxPolicy /\ p > 0
    BY ReviewAssumption
  <2>4. active' \in [Documents -> Versions \cup {NoVersion}]
    BY <2>2 DEF SourcesInv, SourcesTypeOK
  <2>5. retired' \subseteq Versions /\ policy' \in [Documents -> 1..MaxPolicy]
        /\ chunkPolicy' \in [Versions -> 0..MaxPolicy] /\ tbox' \in 1..MaxTBox
    BY <2>2, <2>3 DEF SourcesInv, SourcesTypeOK
  <2>6. ASSUME NEW c \in Documents, active'[c] # NoVersion
        PROVE  DocumentOf[active'[c]] = c /\ chunkPolicy'[active'[c]] > 0
    <3>1. CASE c = d
      BY <2>1, <2>2, <2>3, <3>1 DEF SourcesInv, SourcesTypeOK
    <3>2. CASE c # d
      <4>1. active'[c] = active[c] /\ DocumentOf[active[c]] = c /\ active[c] \in Versions
        BY <2>2, <2>6, <3>2 DEF SourcesInv, SourcesTypeOK
      <4>2. chunkPolicy[active[c]] > 0 /\ active[c] # v
        BY <2>1, <2>6, <3>2, <4>1 DEF SourcesInv, ActiveHasPolicy
      <4> QED
        BY <2>2, <4>1, <4>2 DEF SourcesInv, SourcesTypeOK
    <3> QED
      BY <3>1, <3>2
  <2> QED
    BY <2>4, <2>5, <2>6 DEF SourcesInv, SourcesTypeOK, ActiveHasPolicy
<1>6. ASSUME NEW d \in Documents, RetireDocument(d)
      PROVE  SourcesInv'
  <2>1. /\ active[d] # NoVersion /\ retired' = retired \cup {active[d]}
        /\ active' = [active EXCEPT ![d] = NoVersion]
        /\ UNCHANGED <<policy, chunkPolicy, tbox>>
    BY <1>6 DEF RetireDocument
  <2>2. /\ active' \in [Documents -> Versions \cup {NoVersion}]
        /\ retired' \subseteq Versions
        /\ \A c \in Documents : active'[c] # NoVersion => active'[c] = active[c]
    BY <2>1 DEF SourcesInv, SourcesTypeOK
  <2> QED
    BY <2>1, <2>2 DEF SourcesInv, SourcesTypeOK, ActiveHasPolicy
<1>7. ASSUME ActivateTBox
      PROVE  SourcesInv'
  <2>1. tbox' \in 1..MaxTBox /\ UNCHANGED sourceVars
    BY <1>7, ReviewAssumption DEF ActivateTBox, SourcesInv, SourcesTypeOK
  <2> QED
    BY <2>1 DEF sourceVars, SourcesInv, SourcesTypeOK, ActiveHasPolicy
<1>8. UNCHANGED reviewVars => SourcesInv'
  BY <1>1 DEF reviewVars
<1> QED
  BY <1>1, <1>2, <1>3, <1>4, <1>5, <1>6, <1>7, <1>8 DEF ReviewNext

-----------------------------------------------------------------------------

LEMMA InitiallySound ==
  ReviewInit => ReviewInv
<1> SUFFICES ASSUME ReviewInit PROVE ReviewInv
  OBVIOUS
<1>1. RecordsInv
  <2>1. ChainsOf(Mentions, mentions) /\ ChainsOf(Facts, facts)
    BY DEF ReviewInit, ChainsOf
  <2>2. ASSUME NEW m \in Mentions
        PROVE  SoundMention(m, mentions[m])
    <3>1. mentions[m] = <<>> /\ MaxRevisions[m] \in Nat
      BY ReviewAssumption DEF ReviewInit
    <3> QED
      BY <3>1 DEF SoundMention
  <2>3. ASSUME NEW f \in Facts
        PROVE  SoundFact(f, facts[f], mentions)
    <3>1. facts[f] = <<>> /\ MaxRevisions[f] \in Nat
      BY ReviewAssumption DEF ReviewInit
    <3> QED
      BY <3>1 DEF SoundFact
  <2> QED
    BY <2>1, <2>2, <2>3 DEF RecordsInv, RecordsSound
<1>2. SourcesInv
  BY ReviewAssumption DEF ReviewInit, SourcesInv, SourcesTypeOK, ActiveHasPolicy
<1> QED
  BY <1>1, <1>2 DEF ReviewInv

\* The records and the ground they stand on stay sound, whatever anybody
\* writes, decides, resolves, reassigns or publishes, in whatever order.
THEOREM RecordsStaySound == ReviewSpec => []ReviewInv
<1>1. ReviewInit => ReviewInv
  BY InitiallySound
<1>2. ReviewInv /\ [ReviewNext]_reviewVars => ReviewInv'
  BY RecordsPreserved, SourcesPreserved DEF ReviewInv
<1> QED
  BY <1>1, <1>2, PTL DEF ReviewSpec

\* Every chain holds revisions of its record, and no more than it may.
THEOREM RecordsWellTyped == ReviewSpec => []ReviewTypeOK
<1>1. ReviewInv => ReviewTypeOK
  <2> SUFFICES ASSUME ReviewInv PROVE ReviewTypeOK
    OBVIOUS
  <2>1. ASSUME NEW m \in Mentions
        PROVE  mentions[m] \in Seq(MentionRevisions) /\ Len(mentions[m]) <= MaxRevisions[m]
    BY DEF ReviewInv, RecordsInv, RecordsSound, SoundMention
  <2>2. ASSUME NEW f \in Facts
        PROVE  facts[f] \in Seq(FactRevisions(f)) /\ Len(facts[f]) <= MaxRevisions[f]
    BY DEF ReviewInv, RecordsInv, RecordsSound, SoundFact
  <2>3. /\ mentions = [m \in Mentions |-> mentions[m]]
        /\ facts = [f \in Facts |-> facts[f]]
    BY DEF ReviewInv, RecordsInv, RecordsSound, ChainsOf
  <2>4. mentions \in [Mentions -> Seq(MentionRevisions)]
    BY <2>1, <2>3
  <2> QED
    BY <2>1, <2>2, <2>3, <2>4 DEF ReviewInv, SourcesInv, ReviewTypeOK, RecordsTypeOK
<1> QED
  BY <1>1, RecordsStaySound, PTL

\* A fact and its mentions never disagree about the entities they mean.
THEOREM FactsAndMentionsAgree == ReviewSpec => []EndpointsAgree
<1>1. ReviewInv => EndpointsAgree
  <2> SUFFICES ASSUME ReviewInv, NEW f \in Facts, NEW i \in 1..Len(facts[f]),
                      NEW s \in Slots[f]
               PROVE  LET e == facts[f][i].ends[s]
                      IN  /\ VersionOf[e.mention] = VersionOf[f]
                          /\ e.n \in 1..Len(mentions[e.mention])
                          /\ mentions[e.mention][e.n].entity = e.entity
    BY DEF EndpointsAgree
  <2>1. Rests(f, facts[f][i].status, facts[f][i].ends[s], mentions)
    BY FactsSound DEF ReviewInv
  <2> QED
    BY <2>1 DEF Rests
<1> QED
  BY <1>1, RecordsStaySound, PTL

\* No fact is approved on a mention that is not, nor published before it.
THEOREM ApprovalRestsOnApproval == ReviewSpec => []FactsRestOnEndorsed
<1>1. ReviewInv => FactsRestOnEndorsed
  <2> SUFFICES ASSUME ReviewInv, NEW f \in Facts, NEW i \in 1..Len(facts[f]),
                      NEW s \in Slots[f]
               PROVE  LET rev == facts[f][i]
                          base == mentions[rev.ends[s].mention][rev.ends[s].n]
                      IN  /\ rev.status = "APPROVED" => base.status \in Endorsed
                          /\ rev.status = "PUBLISHED" => base.status = "PUBLISHED"
    BY DEF FactsRestOnEndorsed
  <2>1. Rests(f, facts[f][i].status, facts[f][i].ends[s], mentions)
    BY FactsSound DEF ReviewInv
  <2> QED
    BY <2>1 DEF Rests
<1> QED
  BY <1>1, RecordsStaySound, PTL

\* What was rejected comes back only through an expert's import.
THEOREM RejectionIsFinal == ReviewSpec => []RejectedIsFinal
<1>1. ReviewInv => RejectedIsFinal
  BY DEF ReviewInv, RecordsInv, RecordsSound, SoundMention, SoundFact, RejectedIsFinal
<1> QED
  BY <1>1, RecordsStaySound, PTL

\* Nothing that a person did not import is published before its approval,
\* nor with another meaning than was approved.
THEOREM PublicationNeedsApproval == ReviewSpec => []PublishedAsApproved
<1>1. ReviewInv => PublishedAsApproved
  <2> SUFFICES ASSUME ReviewInv PROVE PublishedAsApproved
    OBVIOUS
  <2>1. ASSUME NEW m \in Mentions, NEW i \in 1..Len(mentions[m]),
               mentions[m][i].status = "PUBLISHED", mentions[m][i].origin = "OTHER"
        PROVE  i > 1 /\ mentions[m][i - 1] = [mentions[m][i] EXCEPT !.status = "APPROVED"]
    BY <2>1 DEF ReviewInv, RecordsInv, RecordsSound, SoundMention
  <2>2. ASSUME NEW f \in Facts, NEW i \in 1..Len(facts[f]),
               facts[f][i].status = "PUBLISHED", facts[f][i].origin = "OTHER"
        PROVE  i > 1 /\ SameEnds(f, facts[f][i - 1], facts[f][i])
    BY <2>2 DEF ReviewInv, RecordsInv, RecordsSound, SoundFact
  <2> QED
    BY <2>1, <2>2 DEF PublishedAsApproved, SameEnds
<1> QED
  BY <1>1, RecordsStaySound, PTL

-----------------------------------------------------------------------------
(***************************************************************************)
(* Chains only grow.                                                       *)
(***************************************************************************)

\* b is a and what was added to it.
Longer(a, b) ==
    /\ Len(a) \in Nat /\ Len(b) \in Nat /\ Len(a) <= Len(b)
    /\ \A i \in 1..Len(a) : b[i] = a[i]

ChainsGrow ==
    /\ \A m \in Mentions : Longer(mentions[m], mentions'[m])
    /\ \A f \in Facts : Longer(facts[f], facts'[f])

\* Some of the chains got one more revision.
Extends(old, new) == \E more : new = Extend(old, more)

LEMMA ExtendedIsLonger ==
  ASSUME NEW S, NEW T, NEW old, NEW new, ChainsOf(S, old), Extends(old, new),
         NEW r \in S, old[r] \in Seq(T)
  PROVE  Longer(old[r], new[r])
<1>1. PICK more : new = Extend(old, more)
  BY DEF Extends
<1>2. new[r] = IF r \in DOMAIN more THEN Append(old[r], more[r]) ELSE old[r]
  BY <1>1, Extended
<1>3. PICK a : a = old[r]
  OBVIOUS
<1>4. a \in Seq(T) /\ Len(a) \in Nat
  BY <1>3
<1>5. CASE r \in DOMAIN more
  <2>1. PICK e : e = more[r]
    OBVIOUS
  <2>2. /\ Len(Append(a, e)) = Len(a) + 1
        /\ \A i \in 1..Len(a) : Append(a, e)[i] = a[i]
    <3>1. a \in Seq(T \cup {e})
      BY <1>4, SeqMonotonic
    <3> QED
      BY <3>1, AppendProperties
  <2> QED
    BY <1>2, <1>3, <1>4, <1>5, <2>1, <2>2 DEF Longer
<1>6. CASE r \notin DOMAIN more
  BY <1>2, <1>3, <1>4, <1>6 DEF Longer
<1> QED
  BY <1>5, <1>6

LEMMA SameExtends ==
  ASSUME NEW S, NEW chains, ChainsOf(S, chains)
  PROVE  Extends(chains, chains)
<1>1. PICK more : more = [x \in {} |-> x]
  OBVIOUS
<1>2. Extend(chains, more) = chains
  BY <1>1 DEF Extend, ChainsOf
<1> QED
  BY <1>2 DEF Extends

LEMMA ExtensionGrows ==
  ASSUME RecordsInv, Extends(mentions, mentions'), Extends(facts, facts')
  PROVE  ChainsGrow
<1>1. ASSUME NEW m \in Mentions
      PROVE  Longer(mentions[m], mentions'[m])
  <2>1. ChainsOf(Mentions, mentions) /\ mentions[m] \in Seq(MentionRevisions)
    BY DEF RecordsInv, RecordsSound, SoundMention
  <2> QED
    BY <2>1, ExtendedIsLonger
<1>2. ASSUME NEW f \in Facts
      PROVE  Longer(facts[f], facts'[f])
  <2>1. ChainsOf(Facts, facts) /\ facts[f] \in Seq(FactRevisions(f))
    BY DEF RecordsInv, RecordsSound, SoundFact
  <2> QED
    BY <2>1, ExtendedIsLonger
<1> QED
  BY <1>1, <1>2 DEF ChainsGrow

LEMMA ReassignGrows ==
  ASSUME RecordsInv, NEW f, NEW n, NEW x \in Mentions, NEW t, NEW k,
         ReassignProperty(f, n, x, t, k)
  PROVE  ChainsGrow
<1>1. PICK two : mentions' = [mentions EXCEPT ![x] = two] /\ Len(two) = 2
  <2>1. PICK p : p = [status |-> "CANDIDATE", origin |-> facts[f][n].origin,
                      entity |-> mentions[t][k].entity, policy |-> facts[f][n].policy,
                      tbox |-> facts[f][n].tbox]
    OBVIOUS
  <2>2. PICK a : a = [p EXCEPT !.status = "APPROVED"]
    OBVIOUS
  <2>3. mentions' = [mentions EXCEPT ![x] = <<p, a>>]
    BY <2>1, <2>2 DEF ReassignProperty
  <2>4. PICK two : two = <<p, a>>
    OBVIOUS
  <2>5. Len(two) = 2
    BY <2>4
  <2> QED
    BY <2>3, <2>4, <2>5
<1>2. mentions[x] = <<>> /\ Extends(facts, facts')
  BY DEF ReassignProperty, Written, Extends
<1>3. ASSUME NEW m \in Mentions
      PROVE  Longer(mentions[m], mentions'[m])
  <2>1. DOMAIN mentions = Mentions /\ mentions[m] \in Seq(MentionRevisions)
    BY DEF RecordsInv, RecordsSound, SoundMention, ChainsOf
  <2>2. CASE m = x
    BY <1>1, <1>2, <2>1, <2>2 DEF Longer
  <2>3. CASE m # x
    BY <1>1, <2>1, <2>3 DEF Longer
  <2> QED
    BY <2>2, <2>3
<1>4. ASSUME NEW g \in Facts
      PROVE  Longer(facts[g], facts'[g])
  <2>1. ChainsOf(Facts, facts) /\ facts[g] \in Seq(FactRevisions(g))
    BY DEF RecordsInv, RecordsSound, SoundFact
  <2> QED
    BY <1>2, <2>1, ExtendedIsLonger
<1> QED
  BY <1>3, <1>4 DEF ChainsGrow

\* Whatever happens, a revision that was written stays as it is.
LEMMA StepGrows ==
  ASSUME RecordsInv, [ReviewNext]_reviewVars
  PROVE  ChainsGrow
<1>1. ChainsOf(Mentions, mentions) /\ ChainsOf(Facts, facts)
  BY DEF RecordsInv, RecordsSound
<1> DEFINE Extended2 == Extends(mentions, mentions') /\ Extends(facts, facts')
<1>2. UNCHANGED recordVars => Extended2
  BY <1>1, SameExtends DEF recordVars
<1>3. ASSUME NEW M, NEW F, NEW ent, NEW to, NEW status, NEW origin,
             Batch(M, F, ent, to, status, origin)
      PROVE  Extended2
  BY <1>3 DEF Batch, Extends
<1>4. NewRecords => Extended2
  BY <1>3, Zenon DEF NewRecords, PersistCandidates, ImportAuthoritative
<1>5. ASSUME NEW f, NEW m, PersistContextCandidate(f, m)
      PROVE  Extended2
  <2>1. Extends(facts, facts') /\ mentions' = mentions
    BY <1>5 DEF PersistContextCandidate, Extends
  <2> QED
    BY <1>1, <2>1, SameExtends
<1>6. ASSUME NEW m, NEW n, NEW d, NEW edit, DecideMention(m, n, d, edit)
      PROVE  Extended2
  BY <1>6 DEF DecideMention, Extends
<1>7. ASSUME NEW m, NEW n, NEW e, Resolve(m, n, e)
      PROVE  Extended2
  BY <1>7 DEF Resolve, Extends
<1>8. MentionReview => Extended2
  BY <1>6, <1>7, Zenon DEF MentionReview, LinkMention, SplitMention
<1>9. ASSUME NEW f, NEW n, NEW d, NEW edit, DecideFact(f, n, d, edit)
      PROVE  Extended2
  <2>1. Extends(facts, facts') /\ mentions' = mentions
    BY <1>9 DEF DecideFact, Extends
  <2> QED
    BY <1>1, <2>1, SameExtends
<1>10. FactReview => Extended2
  BY <1>9, Zenon DEF FactReview
<1>11. Review => Extended2
  BY <1>4, <1>5, <1>8, <1>10, Zenon DEF Review
<1>12. ASSUME NEW M, NEW F, Release(M, F)
       PROVE  Extended2
  BY <1>12 DEF Release, AsPublished, Extends
<1>13. ASSUME NEW v, NEW p, PublishVersion(v, p)
       PROVE  UNCHANGED recordVars
  BY <1>13 DEF PublishVersion
<1>14. ASSUME NEW d, RetireDocument(d)
       PROVE  UNCHANGED recordVars
  BY <1>14 DEF RetireDocument
<1>15. ActivateTBox \/ UNCHANGED reviewVars => UNCHANGED recordVars
  BY DEF ActivateTBox, reviewVars
<1>16. Extended2 => ChainsGrow
  BY ExtensionGrows
<1>17. Reassignment => ChainsGrow
  BY ReassignGrows, Zenon DEF Reassignment
<1> QED
  BY <1>2, <1>11, <1>12, <1>13, <1>14, <1>15, <1>16, <1>17, Zenon DEF ReviewNext

\* A revision that was written is never changed or removed: review, publication
\* and rollback only append.
THEOREM RevisionsAreImmutable == ReviewSpec => [][ChainsGrow]_reviewVars
<1>1. ReviewInv /\ [ReviewNext]_reviewVars => [ChainsGrow]_reviewVars
  <2>1. ReviewInv => RecordsInv
    BY DEF ReviewInv
  <2> QED
    BY <2>1, StepGrows
<1> QED
  BY <1>1, RecordsStaySound, PTL DEF ReviewSpec
=============================================================================

----------------------------- MODULE UploadIntake -----------------------------
(***************************************************************************)
(* The way of an upload into the construction (construct and               *)
(* upload_preflight of api/knowledge.py, construction/upload_guard.py and  *)
(* construction/preflight.py).                                             *)
(*                                                                         *)
(* A reservation for the content and the scope is leased before anything   *)
(* is looked at, and given back at the end.  Under it the sources that the *)
(* caller may see are compared with the upload, query by query in one      *)
(* read-committed transaction.  Where there are matches, the upload goes   *)
(* on only with the receipt of an equal comparison that its caller got     *)
(* before.  Meanwhile documents are stored, superseded, withdrawn, given   *)
(* other groups, and pinned by the active release.                         *)
(*                                                                         *)
(* An upload is one request, sent again after a failure.  Of the settings  *)
(* in a receipt only the report can differ between two of its attempts.    *)
(* Uploads in MANUAL mode take neither the reservation nor the comparison  *)
(* and are left out.                                                       *)
(***************************************************************************)
EXTENDS Naturals, FiniteSets, Sequences

CONSTANTS
    Uploads,
    Uris,       \* a document is known by its URI
    Texts,
    UriOf, TextOf,
    VisibleTo,  \* the groups of an upload's principal
    SharedWith, \* and those it gives its document
    Resembles,  \* the pairs of texts above the threshold
    StartsWith,     \* the active texts that the documents may start with
    GroupsBefore,
    NoText,
    Nobody,
    MatchLimit,   \* MAX_EXACT_MATCHES, MAX_SIMILARITY_CANDIDATES
    MaxAttempts,  \* bounds of the model: the claims of an upload,
    MaxGrants,    \* the policies of a document,
    MaxDeleted,   \* its withdrawals
    MaxReleases   \* and the activations

ASSUME IntakeAssumption ==
    /\ IsFiniteSet(Uris)
    /\ UriOf \in [Uploads -> Uris] /\ TextOf \in [Uploads -> Texts]
    \* an upload for no groups, or for groups its principal is not in, is refused
    /\ \A u \in Uploads : SharedWith[u] # {} /\ SharedWith[u] \subseteq VisibleTo[u]
    /\ StartsWith \subseteq [Uris -> Texts \cup {NoText}] /\ NoText \notin Texts
    /\ Nobody \notin Uploads \X Nat
    /\ MatchLimit \in Nat

VARIABLES
    reserved,   \* per content and scope: the owner, and whether its lease is in force
    step, kind, \* of each upload: where it is, and whether it asks or uploads
    tries,
    late,       \* its lease has lapsed while it had it
    found,      \* what it has read
    token,      \* the receipt its caller has
    document,   \* groups, policy, generation and active text of a document
    stored,     \* the policy of each version's chunks, 0 for none, and who stored it
    releases    \* the versions each release uses, the active one last

intakeSourceVars == <<document, stored, releases>>
requestVars == <<step, kind, tries, late, found, token>>
intakeVars == <<reserved, requestVars, intakeSourceVars>>

Keys == {<<TextOf[u], VisibleTo[u], SharedWith[u]>> : u \in Uploads}
KeyOf(u) == <<TextOf[u], VisibleTo[u], SharedWith[u]>>
Unreserved == [owner |-> Nobody, live |-> FALSE]
OwnerToken(u) == <<u, tries[u]>>
\* Where an attempt may be cut short; later in its reading it is no different.
Breaks == {"possible", "running"}

Empty == [exact |-> {}, similar |-> {}]
Pinned == IF releases = <<>> THEN {} ELSE releases[Len(releases)]

-----------------------------------------------------------------------------
(* What the queries return                                                 *)

\* The one boundary of all queries: the active version, or one that the active
\* release uses, complete and under its document's policy.
Offered(u, d, t) ==
    /\ document[d].active # NoText
    /\ document[d].groups \cap VisibleTo[u] # {}
    /\ document[d].active = t \/ <<d, t>> \in Pinned
    /\ stored[<<d, t>>].policy = document[d].policy

Row(d, t) ==
    [uri |-> d, text |-> t, policy |-> document[d].policy,
     groups |-> document[d].groups, generation |-> document[d].generation]
Rows(u, T) == {Row(x[1], x[2]) : x \in {x \in Uris \X T : Offered(u, x[1], x[2])}}

\* The caller's own URI comes first; any order of the others will do.
Limited(u, rows, n) ==
    LET own == {r \in rows : r.uri = UriOf[u]}
        Fits(S) == Cardinality(S) <= n /\ (own \subseteq S \/ S \subseteq own)
        fitting == {S \in SUBSET rows : Fits(S)}
    IN  CHOOSE S \in fitting : \A T \in fitting : Cardinality(T) <= Cardinality(S)

Exact(u)   == Limited(u, Rows(u, {TextOf[u]}), MatchLimit + 1)
Similar(u) == Limited(u, Rows(u, Texts \ {TextOf[u]}), MatchLimit + 1)

\* What the caller is told; the policies stay inside.
Told(rows) == {[uri |-> r.uri, text |-> r.text] : r \in rows}
Report(u) ==
    [exact   |-> Told(Limited(u, found[u].exact, MatchLimit)),
     similar |-> {m \in Told(Limited(u, found[u].similar, MatchLimit)) :
                     <<TextOf[u], m.text>> \in Resembles},
     truncated |-> MatchLimit < Cardinality(found[u].exact)
                   \/ MatchLimit < Cardinality(found[u].similar)]
NothingFound == [exact |-> {}, similar |-> {}, truncated |-> FALSE]

-----------------------------------------------------------------------------

IntakeInit ==
    /\ reserved = [k \in Keys |-> Unreserved]
    /\ step = [u \in Uploads |-> "idle"]
    /\ kind = [u \in Uploads |-> "asks"]
    /\ tries = [u \in Uploads |-> 0]
    /\ late = [u \in Uploads |-> FALSE]
    /\ found = [u \in Uploads |-> Empty]
    /\ token = [u \in Uploads |-> NothingFound]
    /\ \E text \in StartsWith :
          /\ document = [d \in Uris |->
                [active |-> text[d], policy |-> 1, generation |-> 0,
                 groups |-> IF text[d] = NoText THEN {} ELSE GroupsBefore]]
          /\ stored = [x \in Uris \X Texts |->
                [policy |-> IF text[x[1]] = x[2] THEN 1 ELSE 0, by |-> Nobody]]
    /\ releases = <<>>

At(u, s) == step[u] = s
GoTo(u, s) == step' = [step EXCEPT ![u] = s]
Leave(u) == GoTo(u, "leaving") /\ found' = [found EXCEPT ![u] = Empty]
On(u, s) == GoTo(u, s) /\ UNCHANGED found

\* Mutant: a reservation is given back by whoever had it.
GiveBackAnyhow(u) ==
    reserved' = [reserved EXCEPT ![KeyOf(u)] = Unreserved]
GiveBack(u) ==
    reserved' = [reserved EXCEPT ![KeyOf(u)] = IF @.owner = OwnerToken(u) THEN Unreserved ELSE @]

Claimable(u) ==
    reserved[KeyOf(u)].owner = Nobody \/ ~reserved[KeyOf(u)].live

Compare(u, k) ==
    /\ GoTo(u, "possible")
    /\ kind' = [kind EXCEPT ![u] = k]
    /\ found' = [found EXCEPT ![u] = Empty]

AskForReceipt(u) ==
    /\ At(u, "idle") /\ tries[u] < MaxAttempts
    /\ Compare(u, "asks")
    /\ UNCHANGED <<reserved, tries, late, token, intakeSourceVars>>

\* A reservation held by another upload refuses this one.
ClaimUpload(u) ==
    /\ At(u, "idle") /\ tries[u] < MaxAttempts
    /\ Claimable(u)
    /\ tries' = [tries EXCEPT ![u] = @ + 1]
    /\ reserved' = [reserved EXCEPT ![KeyOf(u)] = [owner |-> <<u, tries[u] + 1>>, live |-> TRUE]]
    /\ late' = [late EXCEPT ![u] = FALSE]
    /\ Compare(u, "uploads")
    /\ UNCHANGED <<token, intakeSourceVars>>

\* A coarse question: is there a document the caller may read.  Where there is
\* none the question is put again; only the second answer lets the upload on.
Possible(u) ==
    \E d \in Uris : document[d].groups \cap VisibleTo[u] # {}
                    /\ \E t \in Texts : stored[<<d, t>>].policy # 0

LookForPossible(u) ==
    /\ At(u, "possible")
    /\ GoTo(u, IF Possible(u) THEN "exact" ELSE "checked")
    /\ UNCHANGED <<reserved, kind, tries, late, found, token, intakeSourceVars>>

ReadExact(u) ==
    /\ At(u, "exact")
    /\ found' = [found EXCEPT ![u].exact = Exact(u)]
    /\ GoTo(u, "similar")
    /\ UNCHANGED <<reserved, kind, tries, late, token, intakeSourceVars>>

\* The texts of these versions are read next; they never change.
ReadSimilar(u) ==
    /\ At(u, "similar")
    /\ found' = [found EXCEPT ![u].similar = Similar(u)]
    /\ GoTo(u, "exact again")
    /\ UNCHANGED <<reserved, kind, tries, late, token, intakeSourceVars>>

RereadExact(u) ==
    /\ At(u, "exact again")
    /\ IF found[u].exact = Exact(u) THEN On(u, "similar again") ELSE Leave(u)
    /\ UNCHANGED <<reserved, kind, tries, late, token, intakeSourceVars>>

RereadSimilar(u) ==
    /\ At(u, "similar again")
    /\ IF found[u].similar = Similar(u) THEN On(u, "checked") ELSE Leave(u)
    /\ UNCHANGED <<reserved, kind, tries, late, token, intakeSourceVars>>

GiveReceipt(u) ==
    /\ At(u, "checked") /\ kind[u] = "asks"
    /\ token' = [token EXCEPT ![u] = Report(u)]
    /\ found' = [found EXCEPT ![u] = Empty]
    /\ GoTo(u, "idle")
    /\ UNCHANGED <<reserved, kind, tries, late, intakeSourceVars>>

\* Matches need the receipt that names the same ones.
Reviewed(u) == Report(u) # NothingFound => token[u] = Report(u)

DecideUpload(u) ==
    /\ At(u, "checked") /\ kind[u] = "uploads"
    /\ GoTo(u, IF Reviewed(u) THEN "running" ELSE "leaving")
    /\ found' = [found EXCEPT ![u] = Empty]
    /\ UNCHANGED <<reserved, kind, tries, late, token, intakeSourceVars>>

\* construction.run, of which the version is what others see.  It refuses a
\* document with other groups, and finds the active version again.  A lost race
\* for the document is one of its failures (IngestionLifecycle).
StoreVersion(u) ==
    LET d == UriOf[u]
        t == TextOf[u]
        maker == IF late[u] THEN Nobody ELSE OwnerToken(u)
    IN  /\ At(u, "running")
        /\ document[d].active # NoText => document[d].groups = SharedWith[u]
        /\ IF document[d].active = t THEN UNCHANGED <<document, stored>>
           ELSE /\ document' = [document EXCEPT ![d].active = t, ![d].groups = SharedWith[u]]
                /\ stored' = [stored EXCEPT
                      ![<<d, t>>] = [policy |-> document[d].policy, by |-> maker]]
        /\ GoTo(u, "leaving")
        /\ UNCHANGED <<reserved, kind, tries, late, found, token, releases>>

\* The construction or one of the reads raises.
FailUpload(u) ==
    /\ step[u] \in Breaks
    /\ Leave(u)
    /\ UNCHANGED <<reserved, kind, tries, late, token, intakeSourceVars>>

EndAttempt(u) ==
    /\ GoTo(u, "idle")
    /\ kind' = [kind EXCEPT ![u] = "asks"]
    /\ late' = [late EXCEPT ![u] = FALSE]
    /\ found' = [found EXCEPT ![u] = Empty]
    /\ UNCHANGED <<tries, token, intakeSourceVars>>

ReleaseUpload(u) ==
    /\ At(u, "leaving")
    /\ IF kind[u] = "uploads" THEN GiveBack(u) ELSE UNCHANGED reserved
    /\ EndAttempt(u)

\* The process dies, or the release cannot be written.
AbandonUpload(u) ==
    /\ step[u] \in Breaks \cup {"leaving"}
    /\ UNCHANGED reserved
    /\ EndAttempt(u)

LeaseEnds(k) ==
    /\ reserved[k].live
    /\ reserved' = [reserved EXCEPT ![k].live = FALSE]
    /\ late' = [u \in Uploads |->
          late[u] \/ (OwnerToken(u) = reserved[k].owner /\ kind[u] = "uploads")]
    /\ UNCHANGED <<step, kind, tries, found, token, intakeSourceVars>>

\* Another ingestion moves the policy of the document and of its active chunks.
ChangeGroups(d, groups) ==
    LET t == document[d].active IN
    /\ t # NoText /\ document[d].policy < MaxGrants
    /\ document' = [document EXCEPT ![d].groups = groups, ![d].policy = @ + 1]
    /\ stored' = [stored EXCEPT ![<<d, t>>].policy = document[d].policy + 1]
    /\ UNCHANGED <<reserved, requestVars, releases>>

DeleteDocument(d) ==
    /\ document[d].active # NoText /\ document[d].generation < MaxDeleted
    /\ \A t \in Texts : <<d, t>> \notin Pinned
    /\ document' = [document EXCEPT ![d].active = NoText, ![d].groups = {},
                                    ![d].policy = 1, ![d].generation = @ + 1]
    /\ stored' = [x \in DOMAIN stored |->
                    IF x[1] = d THEN [policy |-> 0, by |-> Nobody] ELSE stored[x]]
    /\ UNCHANGED <<reserved, requestVars, releases>>

\* A publication carries versions on or takes active ones, a rollback returns
\* to an earlier release.
ActivateRelease(versions) ==
    LET fresh == {<<d, document[d].active>> : d \in {d \in Uris : document[d].active # NoText}} IN
    /\ Len(releases) < MaxReleases
    /\ versions # Pinned
    /\ versions \subseteq Pinned \cup fresh
       \/ \E i \in DOMAIN releases : versions = releases[i]
    /\ \A x \in versions :
          document[x[1]].active # NoText /\ stored[x].policy = document[x[1]].policy
    /\ \A x, y \in versions : x[1] = y[1] => x = y
    /\ releases' = Append(releases, versions)
    /\ UNCHANGED <<reserved, requestVars, document, stored>>

IntakeNext ==
    \/ \E u \in Uploads :
          \/ AskForReceipt(u) \/ ClaimUpload(u) \/ LookForPossible(u)
          \/ ReadExact(u) \/ ReadSimilar(u)
          \/ RereadExact(u) \/ RereadSimilar(u)
          \/ GiveReceipt(u) \/ DecideUpload(u) \/ StoreVersion(u)
          \/ FailUpload(u) \/ ReleaseUpload(u) \/ AbandonUpload(u)
    \/ \E k \in Keys : LeaseEnds(k)
    \/ \E d \in Uris, groups \in {SharedWith[u] : u \in Uploads} : ChangeGroups(d, groups)
    \/ \E d \in Uris : DeleteDocument(d)
    \/ \E versions \in SUBSET (Uris \X Texts) : ActivateRelease(versions)

IntakeSpec == IntakeInit /\ [][IntakeNext]_intakeVars

-----------------------------------------------------------------------------

(* "Check visible current/published versions before expensive              *)
(* construction" (preflight.py), against uploads that are in progress as   *)
(* well: a version is stored only by a caller that was told of every       *)
(* document with the same text that an upload for the same readers stored  *)
(* before, however their attempts overlap, crash and are repeated - unless *)
(* one of the two outlived its lease, the document got another policy      *)
(* since, or the report says that it is cut off.                           *)
NoUnreviewedTwin ==
    [][\A u \in Uploads :
          stored'[<<UriOf[u], TextOf[u]>>].by # stored[<<UriOf[u], TextOf[u]>>].by
          /\ stored'[<<UriOf[u], TextOf[u]>>].by = OwnerToken(u) =>
            \A d \in Uris : \A v \in Uploads :
                /\ document[d].active = TextOf[u] /\ document[d].policy = 1
                /\ stored[<<d, TextOf[u]>>].by # Nobody /\ stored[<<d, TextOf[u]>>].by[1] = v
                /\ KeyOf(v) = KeyOf(u)
                => token[u].truncated \/ [uri |-> d, text |-> TextOf[u]] \in token[u].exact]_intakeVars
=============================================================================

--------------------------- MODULE AssessmentProofs ---------------------------
(***************************************************************************)
(* Theorems about Assessment, for every set of CVEs and releases, every    *)
(* result of screening and assessment, and any number of runs and external *)
(* commits.                                                                *)
(*                                                                         *)
(* A run is sequential, so the invariant says of each CVE where the run is *)
(* with it.  A CVE still to be processed has its committed record on disk  *)
(* and no trace in the histories.  Of a processed CVE, everything the run  *)
(* did is written as a function of the committed record, the baseline and  *)
(* the incoming record (Processed); the properties are then facts about    *)
(* merge and diff.  Two of them need more:                                 *)
(*   - a CVE outside ext has the same file in HEAD and in the baseline, so *)
(*     that the shortcut of reading the baseline from disk is sound;       *)
(*   - FirstSeenAt of whatever is committed lies before the present run    *)
(*     (TimeInv).  When a record has lost its id or its file, nothing else *)
(*     makes the record of this run differ from the baseline, and the run  *)
(*     would leave the spoilt file in place.                               *)
(***************************************************************************)
EXTENDS Assessment, TLAPS

\* Before is not at.
LEMMA EarlierIsDifferent ==
    ASSUME NEW x \in Nat, NEW y \in Nat, x < y
    PROVE  x # y
  OBVIOUS

LEMMA Bounds == MaxRuns \in Nat /\ MaxEdits \in Nat /\ TimeToWait \in Nat
  BY AssessmentAssumption

Committed(c) == Read(head[c])
Baseline(c)  == Read(BaselineFile(c))
Merged(c)    == MergeRecords(Committed(c), computed[c])

\* Between two runs the process knows nothing.
IdleInv ==
    pc = "idle" =>
        /\ computed = NothingComputed
        /\ reported = {} /\ flagged = {} /\ escalated = {}

\* What has not been processed is as it was committed.
UntouchedInv ==
    pc = "running" =>
        \A c \in todo :
            /\ disk[c] = head[c]
            /\ c \notin reported /\ c \notin flagged /\ c \notin escalated

\* Only a CVE in ext may differ from its baseline.
ExtInv ==
    pc = "running" =>
        \A c \in CVEs : c \notin ext => anchor # NoCommit /\ head[c] = anchor[c]

\* Everything committed was first seen before the present run.
TimeInv ==
    /\ pc = "running" => clock > 0
    /\ \A c \in CVEs :
          \A file \in {head[c], BaselineFile(c)} :
              file # Garbled =>
                  /\ Read(file).firstSeen <= clock
                  /\ pc = "running" => Read(file).firstSeen < clock

\* What the run did with a CVE, in terms of what it started from.
Processed(c) ==
    /\ head[c] # Garbled /\ BaselineFile(c) # Garbled
    /\ Committed(c).id \in {NoID, c}
    /\ computed[c].id = c /\ computed[c].manual = "" /\ computed[c].firstSeen = clock
    /\ DOMAIN computed[c].releases # {} =>
          GlobalStatus([computed[c] EXCEPT !.manual = Committed(c).manual]) = "relevant"
    /\ disk[c] = IF MustSave(Baseline(c), Committed(c), Merged(c)) THEN Merged(c) ELSE head[c]
    /\ c \in reported <=> HasChanges(Baseline(c), Merged(c))
    /\ c \in flagged <=> OverwriteFieldsDiffer(Baseline(c), Committed(c))
    /\ c \in escalated <=> IsOverdue(Merged(c))

ProcessedInv == pc = "running" => \A c \in CVEs \ todo : Processed(c)

\* A record created by a run bears the time of that run.
SinceInv ==
    \A c \in CVEs : since[c] # 0 =>
        IsRecordOf(c, head[c]) /\ head[c].firstSeen = since[c]

IInv ==
    /\ TypeOK
    /\ IdleInv
    /\ UntouchedInv
    /\ ExtInv
    /\ TimeInv
    /\ ProcessedInv
    /\ SinceInv

-----------------------------------------------------------------------------
(* What the operators of the model do.                                     *)

\* A map is a function whose domain lies in D.
LEMMA MapElement ==
    ASSUME NEW D, NEW R, NEW f
    PROVE  f \in Maps(D, R) <=> DOMAIN f \subseteq D /\ f \in [DOMAIN f -> R]
  BY DEF Maps

\* The record of a file that is missing.
LEMMA EmptyRecordIsRecord ==
    /\ EmptyRecord \in Record
    /\ EmptyRecord.id = NoID /\ EmptyRecord.firstSeen = 0 /\ EmptyRecord.manual = ""
    /\ DOMAIN EmptyRecord.releases = {}
<1>1. DOMAIN EmptyRecord.releases = {}
  BY DEF EmptyRecord
<1>2. EmptyRecord.releases \in [{} -> Decision]
  BY <1>1 DEF EmptyRecord
<1>3. EmptyRecord.releases \in Maps(Releases, Decision)
  BY <1>1, <1>2, MapElement
<1>4. QED
  BY <1>1, <1>3 DEF EmptyRecord, Record, Reasons, Statuses

\* The fields of a record.
LEMMA RecordFields ==
    ASSUME NEW r \in Record
    PROVE  /\ r.id \in CVEs \cup {NoID} /\ r.upstream \in Upstreams \cup {Nothing}
           /\ r.reason \in Reasons /\ r.manual \in Statuses /\ r.firstSeen \in Nat
           /\ r.releases \in Maps(Releases, Decision)
           /\ DOMAIN r.releases \subseteq Releases
           /\ r.releases \in [DOMAIN r.releases -> Decision]
           /\ r # NoFile /\ r # Garbled
<1> USE AssessmentAssumption
<1>1. r.releases \in Maps(Releases, Decision)
  BY DEF Record
<1>2. QED
  BY <1>1, MapElement DEF Record

\* Merging two release maps keeps every override, takes what was computed, and
\* leaves the rest alone.
LEMMA MergedReleases ==
    ASSUME NEW e \in Maps(Releases, Decision), NEW i \in Maps(Releases, Decision)
    PROVE  /\ MergeReleases(e, i) \in Maps(Releases, Decision)
           /\ DOMAIN MergeReleases(e, i) = DOMAIN e \cup DOMAIN i
           /\ \A k : At(MergeReleases(e, i), k).manual = At(e, k).manual
           /\ \A k \in DOMAIN i : At(MergeReleases(e, i), k).auto = i[k].auto
           /\ \A k : k \notin DOMAIN i => At(MergeReleases(e, i), k) = At(e, k)
<1> DEFINE m == MergeReleases(e, i)
<1>1. /\ DOMAIN e \subseteq Releases /\ e \in [DOMAIN e -> Decision]
      /\ DOMAIN i \subseteq Releases /\ i \in [DOMAIN i -> Decision]
  BY MapElement
<1>2. \A k : At(e, k) \in Decision
  BY <1>1 DEF At, NoDecision, Decision
<1>3. DOMAIN m = DOMAIN e \cup DOMAIN i
  BY DEF MergeReleases
<1>4. \A k \in DOMAIN i : m[k] = [auto |-> i[k].auto, manual |-> At(e, k).manual]
  BY DEF MergeReleases
<1>5. \A k \in DOMAIN e : k \notin DOMAIN i => m[k] = e[k]
  BY DEF MergeReleases
<1>6. \A k \in DOMAIN m : m[k] \in Decision
  <2> HIDE DEF m
  <2>1. ASSUME NEW k \in DOMAIN i
        PROVE  m[k] \in Decision
    <3>1. i[k].auto \in Autos \cup {Nothing}
      BY <1>1 DEF Decision
    <3>2. At(e, k).manual \in Overrides \cup {Nothing}
      BY <1>2 DEF Decision
    <3>3. [auto |-> i[k].auto, manual |-> At(e, k).manual] \in Decision
      BY <3>1, <3>2 DEF Decision
    <3>4. QED
      BY <3>3, <1>4
  <2>2. QED
    BY <2>1, <1>1, <1>3, <1>5
<1>7. m \in [DOMAIN m -> Decision]
  <2> DEFINE d(k) == IF k \in DOMAIN i
                     THEN [auto |-> i[k].auto, manual |-> At(e, k).manual]
                     ELSE e[k]
             D == DOMAIN e \cup DOMAIN i
  <2>1. m = [k \in D |-> d(k)]
    BY DEF MergeReleases
  <2>2. \A k \in D : d(k) \in Decision
    <3>1. \A k \in D : d(k) = m[k]
      BY <2>1
    <3>2. QED
      BY <3>1, <1>3, <1>6
  <2> HIDE DEF d, m
  <2>3. m \in [D -> Decision]
    BY <2>1, <2>2
  <2>4. QED
    BY <2>3, <1>3
<1>8. m \in Maps(Releases, Decision)
  BY <1>1, <1>3, <1>7, MapElement
<1>9. \A k \in DOMAIN i : At(m, k) = [auto |-> i[k].auto, manual |-> At(e, k).manual]
  BY <1>3, <1>4 DEF At
<1>10. \A k : k \notin DOMAIN i => At(m, k) = At(e, k)
  BY <1>3, <1>5 DEF At
<1> HIDE DEF m
<1>11. ASSUME NEW k \in DOMAIN i
       PROVE  At(m, k).auto = i[k].auto /\ At(m, k).manual = At(e, k).manual
  <2> DEFINE d == [auto |-> i[k].auto, manual |-> At(e, k).manual]
  <2>1. At(m, k) = d
    BY <1>9
  <2>2. d.auto = i[k].auto /\ d.manual = At(e, k).manual
    OBVIOUS
  <2>3. QED
    BY <2>1, <2>2
<1>12. \A k : At(m, k).manual = At(e, k).manual
  BY <1>10, <1>11
<1>13. QED
  BY <1>3, <1>8, <1>10, <1>11, <1>12 DEF m

\* The merge of a computed record into the one on disk, field by field.
LEMMA MergedRecord ==
    ASSUME NEW e \in Record, NEW i \in Record
    PROVE  /\ MergeRecords(e, i) \in Record
           /\ MergeRecords(e, i).id = i.id
           /\ MergeRecords(e, i).upstream = i.upstream
           /\ MergeRecords(e, i).reason = i.reason
           /\ e.id = NoID => MergeRecords(e, i) = i
           /\ e.id # NoID =>
                 /\ MergeRecords(e, i).manual = e.manual
                 /\ MergeRecords(e, i).firstSeen = e.firstSeen
                 /\ MergeRecords(e, i).releases = MergeReleases(e.releases, i.releases)
<1> USE AssessmentAssumption
<1>1. MergeReleases(e.releases, i.releases) \in Maps(Releases, Decision)
  BY RecordFields, MergedReleases
<1> DEFINE R == MergeReleases(e.releases, i.releases)
<1> HIDE DEF R
<1>2. QED
  BY <1>1 DEF MergeRecords, Record, R

\* A record as a run computes it for a CVE, when a human has set a status or none.
ComputedFor(r, c, manual) ==
    /\ r \in Record /\ r.id = c /\ r.manual = "" /\ r.firstSeen = clock
    /\ DOMAIN r.releases # {} => GlobalStatus([r EXCEPT !.manual = manual]) = "relevant"

\* The record computed for a CVE.
LEMMA IncomingRecord ==
    ASSUME NEW c \in CVEs, NEW existing \in Record, NEW result \in Results, clock \in Nat
    PROVE  ComputedFor(Incoming(c, existing, result), c, existing.manual)
<1> USE AssessmentAssumption
<1> DEFINE seed == [EmptyRecord EXCEPT !.id = c, !.upstream = result.upstream,
                                       !.reason = result.reason, !.firstSeen = clock]
           rels == [k \in DOMAIN result.autos |->
                      [auto |-> result.autos[k], manual |-> Nothing]]
           full == [seed EXCEPT !.releases = rels]
           asked == GlobalStatus([seed EXCEPT !.manual = existing.manual])
<1>1. /\ result.upstream \in Upstreams /\ result.reason \in Reasons
      /\ result.autos \in Maps(Releases, Autos \cup {Nothing})
  OBVIOUS
<1>2. rels \in Maps(Releases, Decision)
  <2>1. /\ DOMAIN result.autos \subseteq Releases
        /\ result.autos \in [DOMAIN result.autos -> Autos \cup {Nothing}]
    BY <1>1, MapElement
  <2>2. \A k \in DOMAIN result.autos :
           [auto |-> result.autos[k], manual |-> Nothing] \in Decision
    BY <2>1 DEF Decision
  <2>3. DOMAIN rels = DOMAIN result.autos /\ rels \in [DOMAIN result.autos -> Decision]
    BY <2>2
  <2> HIDE DEF rels
  <2>4. QED
    BY <2>1, <2>3, MapElement
<1>3. /\ seed \in Record
      /\ seed.id = c /\ seed.upstream = result.upstream /\ seed.reason = result.reason
      /\ seed.manual = "" /\ seed.firstSeen = clock
      /\ DOMAIN seed.releases = {}
  BY <1>1, EmptyRecordIsRecord DEF Record
<1> HIDE DEF seed, rels
<1>4. /\ full \in Record
      /\ full.id = c /\ full.upstream = result.upstream /\ full.reason = result.reason
      /\ full.manual = "" /\ full.firstSeen = clock
  BY <1>2, <1>3 DEF Record
<1>5. GlobalStatus([full EXCEPT !.manual = existing.manual]) = asked
  <2>1. \A r \in Record : GlobalStatus([r EXCEPT !.manual = existing.manual]) =
                             IF existing.manual # "" THEN existing.manual ELSE AutoStatus(r.reason)
    BY DEF GlobalStatus, Record
  <2>2. full.reason = seed.reason
    BY <1>3, <1>4
  <2> HIDE DEF full
  <2>3. QED
    BY <1>3, <1>4, <2>1, <2>2
<1>6. Incoming(c, existing, result) = IF asked = "relevant" THEN full ELSE seed
  BY DEF Incoming, seed, rels
<1> HIDE DEF full, asked
<1>7. CASE asked = "relevant"
  BY <1>4, <1>5, <1>6, <1>7 DEF ComputedFor
<1>8. CASE asked # "relevant"
  BY <1>3, <1>6, <1>8 DEF ComputedFor
<1>9. QED
  BY <1>7, <1>8

\* What is on disk after a CVE was processed, saved or not: the record of this CVE
\* with what the run computed; with the committed overrides, manual status and
\* FirstSeenAt if the committed file was the record of this CVE, and exactly the
\* computed record otherwise.  When nothing was saved, the record on disk differs
\* from the baseline no more than the merged record does.
LEMMA ProcessedRecord ==
    ASSUME TypeOK, TimeInv, pc = "running", NEW c \in CVEs, Processed(c)
    PROVE  /\ disk[c] \in Record /\ IsRecordOf(c, disk[c])
           /\ disk[c].upstream = computed[c].upstream /\ disk[c].reason = computed[c].reason
           /\ \A k \in DOMAIN computed[c].releases :
                 At(disk[c].releases, k).auto = computed[c].releases[k].auto
           /\ IsRecordOf(c, head[c]) =>
                 /\ disk[c].manual = head[c].manual
                 /\ disk[c].firstSeen = head[c].firstSeen
                 /\ \A k : At(disk[c].releases, k).manual = At(head[c].releases, k).manual
                 /\ \A k : k \notin DOMAIN computed[c].releases =>
                       At(disk[c].releases, k) = At(head[c].releases, k)
           /\ ~IsRecordOf(c, head[c]) => disk[c] = computed[c]
           /\ HasChanges(Baseline(c), disk[c]) <=> HasChanges(Baseline(c), Merged(c))
<1> USE AssessmentAssumption
<1> DEFINE b == Baseline(c)
           e == Committed(c)
           i == computed[c]
           m == MergeRecords(e, i)
<1>1. b \in Record /\ e \in Record /\ i \in Record
  BY EmptyRecordIsRecord
  DEF TypeOK, Processed, Baseline, Committed, BaselineFile, Read, File
<1>2. /\ m \in Record /\ m.id = c /\ m.upstream = i.upstream /\ m.reason = i.reason
      /\ e.id = NoID => m = i
      /\ e.id # NoID => /\ m.manual = e.manual
                        /\ m.firstSeen = e.firstSeen
                        /\ m.releases = MergeReleases(e.releases, i.releases)
  BY <1>1, MergedRecord DEF Processed
<1>3. /\ e.releases \in Maps(Releases, Decision) /\ i.releases \in Maps(Releases, Decision)
      /\ DOMAIN i.releases \subseteq Releases
  BY <1>1, RecordFields
<1> HIDE DEF m, e, b
<1>4. e.id # NoID =>
        /\ \A k : At(m.releases, k).manual = At(e.releases, k).manual
        /\ \A k \in DOMAIN i.releases : At(m.releases, k).auto = i.releases[k].auto
        /\ \A k : k \notin DOMAIN i.releases => At(m.releases, k) = At(e.releases, k)
  <2>1. SUFFICES ASSUME e.id # NoID
                 PROVE  LET r == MergeReleases(e.releases, i.releases)
                        IN /\ \A k : At(r, k).manual = At(e.releases, k).manual
                           /\ \A k \in DOMAIN i.releases : At(r, k).auto = i.releases[k].auto
                           /\ \A k : k \notin DOMAIN i.releases => At(r, k) = At(e.releases, k)
    BY <1>2
  <2>2. QED
    BY <1>3, MergedReleases
<1>5. \A k \in DOMAIN i.releases : At(m.releases, k).auto = i.releases[k].auto
  BY <1>2, <1>4 DEF At
<1>6. /\ IsRecordOf(c, head[c]) <=> e.id # NoID
      /\ e.id # NoID => e = head[c]
  <2>1. head[c] # Garbled /\ e.id \in {NoID, c} /\ c # NoID
    BY DEF Processed, e
  <2>2. QED
    BY <2>1, EmptyRecordIsRecord DEF IsRecordOf, Committed, Read, e
<1>7. disk[c] = IF MustSave(b, e, m) THEN m ELSE head[c]
  BY DEF Processed, Merged, b, e, m
<1>8. Merged(c) = m
  BY DEF Merged, e, m
<1>9. m # NoFile /\ m # Garbled
  BY <1>2, RecordFields
<1>10. CASE MustSave(b, e, m)
  <2>1. disk[c] = m
    BY <1>7, <1>10
  <2>2. QED
    BY <2>1, <1>2, <1>4, <1>5, <1>6, <1>8, <1>9 DEF IsRecordOf, b
<1>11. CASE ~MustSave(b, e, m)
  <2>1. ~HasChanges(b, m) /\ ~OverwriteFieldsDiffer(b, e)
    BY <1>11 DEF MustSave, DetectExternalOverwriteEdits
  <2>2. /\ b.id # NoID /\ b.manual = m.manual /\ b.firstSeen = m.firstSeen
        /\ b.upstream = m.upstream /\ b.reason = m.reason
        /\ \A k \in Releases : /\ At(b.releases, k).auto = At(m.releases, k).auto
                              /\ At(b.releases, k).manual = At(m.releases, k).manual
    BY <2>1 DEF HasChanges, OverwriteFieldsDiffer
  <2>3. /\ b.upstream = e.upstream /\ b.reason = e.reason
        /\ \A k \in Releases : At(b.releases, k).auto = At(e.releases, k).auto
    BY <2>1 DEF OverwriteFieldsDiffer
  \* A record made anew in this run differs from every baseline.
  <2>4. e.id # NoID
    <3>1. b.firstSeen < clock
      BY DEF b, Baseline, TimeInv, Processed
    <3>2. i.firstSeen = clock /\ clock \in Nat /\ b.firstSeen \in Nat
      BY <1>1, RecordFields DEF Processed, TypeOK
    <3>3. b.firstSeen # i.firstSeen
      BY <3>1, <3>2, EarlierIsDifferent
    <3>4. QED
      BY <3>1, <3>2, <3>3, <2>2, <1>2
  <2>5. disk[c] = e /\ e = head[c] /\ IsRecordOf(c, head[c])
    BY <2>4, <1>6, <1>7, <1>11
  <2>6. \A k \in DOMAIN i.releases : At(e.releases, k).auto = i.releases[k].auto
    BY <2>2, <2>3, <1>3, <1>5
  <2>7. ~HasChanges(b, e)
    <3>1. b.manual = e.manual /\ b.firstSeen = e.firstSeen
      BY <2>2, <2>4, <1>2
    <3>2. \A k \in Releases : At(b.releases, k).manual = At(e.releases, k).manual
      BY <2>2, <2>4, <1>4
    <3>3. QED
      BY <2>1, <2>2, <3>1, <3>2 DEF HasChanges
  <2>8. e.upstream = i.upstream /\ e.reason = i.reason
    BY <2>2, <2>3, <1>2
  <2>9. QED
    BY <2>1, <2>5, <2>6, <2>7, <2>8, <1>1, <1>8 DEF b
<1>12. QED
  BY <1>10, <1>11

-----------------------------------------------------------------------------
(* Commits by others.                                                      *)

\* What every external commit is: one file is written, and nobody but the program
\* dates a record.
ExternalEdit(c, file) ==
    /\ Edit(c, file)
    /\ file # Garbled =>
          \/ Read(file).firstSeen = 0
          \/ head[c] # Garbled /\ Read(file).firstSeen = Read(head[c]).firstSeen
    /\ IsRecordOf(c, head[c]) /\ IsRecordOf(c, file) => file.firstSeen = head[c].firstSeen

\* Changing one part of one release leaves a record with the same date.
LEMMA EditedRelease ==
    ASSUME NEW r \in Record, NEW k \in DOMAIN r.releases
    PROVE  /\ \A o \in Overrides :
                 /\ [r EXCEPT !.releases[k].manual = o] \in Record
                 /\ [r EXCEPT !.releases[k].manual = o].firstSeen = r.firstSeen
           /\ \A a \in Autos :
                 /\ [r EXCEPT !.releases[k].auto = a] \in Record
                 /\ [r EXCEPT !.releases[k].auto = a].firstSeen = r.firstSeen
<1>1. /\ r.releases[k] \in Decision
      /\ r.releases \in [DOMAIN r.releases -> Decision] /\ DOMAIN r.releases \subseteq Releases
  BY RecordFields
<1>2. /\ \A o \in Overrides : [r.releases[k] EXCEPT !.manual = o] \in Decision
      /\ \A a \in Autos : [r.releases[k] EXCEPT !.auto = a] \in Decision
  BY <1>1 DEF Decision
<1>3. ASSUME NEW d \in Decision
      PROVE  /\ [r EXCEPT !.releases = [@ EXCEPT ![k] = d]] \in Record
             /\ [r EXCEPT !.releases = [@ EXCEPT ![k] = d]].firstSeen = r.firstSeen
  <2> DEFINE f == [r.releases EXCEPT ![k] = d]
  <2>1. DOMAIN f = DOMAIN r.releases /\ f \in [DOMAIN r.releases -> Decision]
    BY <1>1
  <2> HIDE DEF f
  <2>2. f \in Maps(Releases, Decision)
    BY <1>1, <2>1, MapElement
  <2>3. [r EXCEPT !.releases = f] \in Record /\ [r EXCEPT !.releases = f].firstSeen = r.firstSeen
    BY <2>2 DEF Record
  <2>4. QED
    BY <2>3 DEF f
<1>4. /\ \A o : [r EXCEPT !.releases[k].manual = o] =
           [r EXCEPT !.releases = [@ EXCEPT ![k] = [r.releases[k] EXCEPT !.manual = o]]]
      /\ \A a : [r EXCEPT !.releases[k].auto = a] =
           [r EXCEPT !.releases = [@ EXCEPT ![k] = [r.releases[k] EXCEPT !.auto = a]]]
  OBVIOUS
<1>5. QED
  BY <1>2, <1>3, <1>4

LEMMA ExternalIsEdit ==
    ASSUME TypeOK, External
    PROVE  \E c \in CVEs, file \in File : ExternalEdit(c, file)
<1> USE AssessmentAssumption
<1> SUFFICES ASSUME NEW c \in CVEs,
                    \/ \E status \in Statuses : Triage(c, status) \/ CreateByHand(c, status)
                    \/ \E k \in Releases, o \in Overrides : OverrideRelease(c, k, o)
                    \/ \E u \in Upstreams : EditUpstream(c, u)
                    \/ \E k \in Releases, a \in Autos : EditRelease(c, k, a)
                    \/ Delete(c)
                    \/ \E id \in {NoID} \cup CVEs : Spoil(c, id)
             PROVE  \E file \in File : ExternalEdit(c, file)
  BY DEF External
<1>1. head[c] \in File
  BY DEF TypeOK
<1>2. IsRecordOf(c, head[c]) => head[c] \in Record /\ Read(head[c]) = head[c]
  BY <1>1 DEF IsRecordOf, File, Read
<1>3. ASSUME NEW r \in Record, Edit(c, r),
             \/ head[c] = NoFile /\ r.firstSeen = 0
             \/ IsRecordOf(c, head[c]) /\ r.firstSeen = head[c].firstSeen
      PROVE  ExternalEdit(c, r) /\ r \in File
  BY <1>2, <1>3, RecordFields DEF ExternalEdit, Read, IsRecordOf, File
<1>4. ASSUME NEW status \in Statuses, Triage(c, status)
      PROVE  \E file \in File : ExternalEdit(c, file)
  <2> DEFINE r == [head[c] EXCEPT !.manual = status]
  <2>1. r \in Record /\ r.firstSeen = head[c].firstSeen
    BY <1>2, <1>4 DEF Triage, Record
  <2> HIDE DEF r
  <2>2. QED
    BY <1>3, <1>4, <2>1 DEF Triage, r, IsRecordOf
<1>5. ASSUME NEW status \in Statuses, CreateByHand(c, status)
      PROVE  \E file \in File : ExternalEdit(c, file)
  <2> DEFINE r == [EmptyRecord EXCEPT !.id = c, !.manual = status]
  <2>1. r \in Record /\ r.firstSeen = 0
    BY EmptyRecordIsRecord DEF Record
  <2> HIDE DEF r
  <2>2. QED
    BY <1>3, <1>5, <2>1 DEF CreateByHand, r
<1>6. ASSUME NEW k \in Releases, NEW o \in Overrides, OverrideRelease(c, k, o)
      PROVE  \E file \in File : ExternalEdit(c, file)
  <2> DEFINE r == [head[c] EXCEPT !.releases[k].manual = o]
  <2>1. head[c] \in Record /\ k \in DOMAIN head[c].releases
    BY <1>2, <1>6 DEF OverrideRelease
  <2>2. r \in Record /\ r.firstSeen = head[c].firstSeen
    BY <2>1, EditedRelease
  <2> HIDE DEF r
  <2>3. QED
    BY <1>3, <1>6, <2>2 DEF OverrideRelease, r, IsRecordOf
<1>7. ASSUME NEW u \in Upstreams, EditUpstream(c, u)
      PROVE  \E file \in File : ExternalEdit(c, file)
  <2> DEFINE r == [head[c] EXCEPT !.upstream = u]
  <2>1. r \in Record /\ r.firstSeen = head[c].firstSeen
    BY <1>2, <1>7 DEF EditUpstream, Record
  <2> HIDE DEF r
  <2>2. QED
    BY <1>3, <1>7, <2>1 DEF EditUpstream, r, IsRecordOf
<1>8. ASSUME NEW k \in Releases, NEW a \in Autos, EditRelease(c, k, a)
      PROVE  \E file \in File : ExternalEdit(c, file)
  <2> DEFINE r == [head[c] EXCEPT !.releases[k].auto = a]
  <2>1. head[c] \in Record /\ k \in DOMAIN head[c].releases
    BY <1>2, <1>8 DEF EditRelease
  <2>2. r \in Record /\ r.firstSeen = head[c].firstSeen
    BY <2>1, EditedRelease
  <2> HIDE DEF r
  <2>3. QED
    BY <1>3, <1>8, <2>2 DEF EditRelease, r, IsRecordOf
<1>9. ASSUME Delete(c)
      PROVE  \E file \in File : ExternalEdit(c, file)
  <2>1. ExternalEdit(c, NoFile)
    BY <1>9, EmptyRecordIsRecord DEF Delete, ExternalEdit, Read, IsRecordOf
  <2>2. QED
    BY <2>1 DEF File
<1>10. ASSUME NEW id \in {NoID} \cup CVEs, Spoil(c, id)
       PROVE  \E file \in File : ExternalEdit(c, file)
  <2> DEFINE r == [head[c] EXCEPT !.id = id]
  <2>1. r \in Record /\ r.firstSeen = head[c].firstSeen
    BY <1>2, <1>10 DEF Spoil, Record
  <2> HIDE DEF r
  <2>2. CASE Edit(c, r)
    BY <1>3, <1>10, <2>1, <2>2 DEF Spoil, IsRecordOf
  <2>3. CASE Edit(c, Garbled)
    <3>1. ExternalEdit(c, Garbled)
      BY <2>3 DEF ExternalEdit, IsRecordOf
    <3>2. QED
      BY <3>1 DEF File
  <2>4. QED
    BY <1>10, <2>2, <2>3 DEF Spoil, r
<1>11. QED
  BY <1>4, <1>5, <1>6, <1>7, <1>8, <1>9, <1>10

-----------------------------------------------------------------------------
(* The parts of the invariant, one step per action.                        *)

\* Every step keeps the types.
LEMMA TypeInvariant ==
    ASSUME TypeOK, [Next]_vars
    PROVE  TypeOK'
<1> USE DEF TypeOK
<1>1. CASE StartRun
  <2>1. clock + 1 \in 0..MaxRuns
    BY <1>1, Bounds DEF StartRun
  <2>2. QED
    BY <1>1, <2>1 DEF StartRun, history
<1>2. ASSUME NEW c \in CVEs, NEW result \in Results, Process(c, result)
      PROVE  TypeOK'
  <2> DEFINE existing == Read(disk[c])
             incoming == Incoming(c, existing, result)
             merged   == MergeRecords(existing, incoming)
  <2>1. existing \in Record
    BY <1>2, EmptyRecordIsRecord DEF Process, Processable, Read, File
  <2>2. clock \in Nat
    BY Bounds
  <2>3. incoming \in Record
    BY <2>1, <2>2, IncomingRecord DEF ComputedFor
  <2>4. merged \in Record
    BY <2>1, <2>3, MergedRecord
  <2>5. /\ computed' = [computed EXCEPT ![c] = incoming]
        /\ disk' = [disk EXCEPT ![c] = merged] \/ disk' = disk
        /\ flagged' \subseteq flagged \cup {c} /\ escalated' \subseteq escalated \cup {c}
        /\ reported' \subseteq reported \cup {c}
        /\ todo' = todo \ {c}
        /\ UNCHANGED <<head, anchor, clock, edits, pc, ext, since>>
    BY <1>2 DEF Process
  <2> HIDE DEF existing, incoming, merged
  <2>6. QED
    BY <2>3, <2>4, <2>5 DEF File
<1>3. ASSUME NEW c \in CVEs, Reject(c)
      PROVE  TypeOK'
  <2>1. NothingComputed \in [CVEs -> Record]
    BY EmptyRecordIsRecord DEF NothingComputed
  <2>2. QED
    BY <1>3, <2>1 DEF Reject, Exit, trees
<1>4. ASSUME NEW c \in CVEs, BreakOffSave(c)
      PROVE  TypeOK'
  <2>1. NothingComputed \in [CVEs -> Record]
    BY EmptyRecordIsRecord DEF NothingComputed
  <2>2. QED
    BY <1>4, <2>1 DEF BreakOffSave, Exit, File
<1>5. CASE GiveUp
  <2>1. NothingComputed \in [CVEs -> Record]
    BY EmptyRecordIsRecord DEF NothingComputed
  <2>2. QED
    BY <1>5, <2>1 DEF GiveUp, Exit, trees
<1>6. CASE Publish
  <2>1. NothingComputed \in [CVEs -> Record]
    BY EmptyRecordIsRecord DEF NothingComputed
  <2>2. QED
    BY <1>6, <2>1 DEF Publish, Exit
<1>7. ASSUME NEW c \in CVEs, NEW file \in File, ExternalEdit(c, file)
      PROVE  TypeOK'
  <2>1. edits + 1 \in 0..MaxEdits
    BY <1>7, Bounds DEF ExternalEdit, Edit
  <2>2. head' \in [CVEs -> File]
    BY <1>7 DEF ExternalEdit, Edit
  <2>3. since' = [since EXCEPT ![c] = since[c]] \/ since' = [since EXCEPT ![c] = 0]
    BY <1>7 DEF ExternalEdit, Edit
  <2>4. since' \in [CVEs -> 0..MaxRuns]
    BY <2>3, Bounds
  <2>5. edits' = edits + 1 /\ UNCHANGED <<anchor, disk, clock, pc, todo, ext, history>>
    BY <1>7 DEF ExternalEdit, Edit
  <2>6. QED
    BY <2>1, <2>2, <2>4, <2>5 DEF history
<1>8. CASE UNCHANGED vars
  BY <1>8 DEF vars, trees, history
<1>9. QED
  BY <1>1, <1>2, <1>3, <1>4, <1>5, <1>6, <1>7, <1>8, ExternalIsEdit DEF Next, Run

\* Between two runs the process knows nothing.
LEMMA IdleInvariant ==
    ASSUME TypeOK, IdleInv, [Next]_vars
    PROVE  IdleInv'
<1> USE DEF TypeOK, IdleInv
<1>1. CASE StartRun
  BY <1>1 DEF StartRun
<1>2. ASSUME NEW c \in CVEs, NEW result \in Results, Process(c, result)
      PROVE  IdleInv'
  <2>1. pc' = "running"
    BY <1>2 DEF Process
  <2>2. QED
    BY <2>1
<1>3. ASSUME NEW c \in CVEs, Reject(c)
      PROVE  IdleInv'
  BY <1>3 DEF Reject, Exit
<1>4. ASSUME NEW c \in CVEs, BreakOffSave(c)
      PROVE  IdleInv'
  BY <1>4 DEF BreakOffSave, Exit
<1>5. CASE GiveUp
  BY <1>5 DEF GiveUp, Exit
<1>6. CASE Publish
  BY <1>6 DEF Publish, Exit
<1>7. ASSUME NEW c \in CVEs, NEW file \in File, ExternalEdit(c, file)
      PROVE  IdleInv'
  BY <1>7 DEF ExternalEdit, Edit, history
<1>8. CASE UNCHANGED vars
  BY <1>8 DEF vars, history
<1>9. QED
  BY <1>1, <1>2, <1>3, <1>4, <1>5, <1>6, <1>7, <1>8, ExternalIsEdit DEF Next, Run

\* A CVE is processed once: until then nothing of it changes.
LEMMA UntouchedInvariant ==
    ASSUME TypeOK, IdleInv, UntouchedInv, [Next]_vars
    PROVE  UntouchedInv'
<1> USE DEF TypeOK, UntouchedInv
<1>1. CASE StartRun
  BY <1>1 DEF StartRun, IdleInv, history
<1>2. ASSUME NEW c \in CVEs, NEW result \in Results, Process(c, result)
      PROVE  UntouchedInv'
  <2>1. /\ todo' = todo \ {c} /\ pc = "running"
        /\ \A d \in CVEs : d # c =>
              /\ disk'[d] = disk[d] /\ head'[d] = head[d]
              /\ d \in reported' <=> d \in reported
              /\ d \in flagged' <=> d \in flagged
              /\ d \in escalated' <=> d \in escalated
    <3> DEFINE merged == MergeRecords(Read(disk[c]), Incoming(c, Read(disk[c]), result))
    <3>1. /\ disk' = [disk EXCEPT ![c] = merged] \/ disk' = disk
          /\ flagged' = flagged \cup {c} \/ flagged' = flagged
          /\ escalated' = escalated \cup {c} \/ escalated' = escalated
          /\ reported' = reported \cup {c} \/ reported' = reported
          /\ todo' = todo \ {c} /\ pc = "running" /\ head' = head
      BY <1>2 DEF Process
    <3> HIDE DEF merged
    <3>2. QED
      BY <3>1
  <2>2. QED
    BY <2>1
<1>3. ASSUME NEW c \in CVEs, Reject(c)
      PROVE  UntouchedInv'
  BY <1>3 DEF Reject, Exit
<1>4. ASSUME NEW c \in CVEs, BreakOffSave(c)
      PROVE  UntouchedInv'
  BY <1>4 DEF BreakOffSave, Exit
<1>5. CASE GiveUp
  BY <1>5 DEF GiveUp, Exit
<1>6. CASE Publish
  BY <1>6 DEF Publish, Exit
<1>7. ASSUME NEW c \in CVEs, NEW file \in File, ExternalEdit(c, file)
      PROVE  UntouchedInv'
  BY <1>7 DEF ExternalEdit, Edit
<1>8. CASE UNCHANGED vars
  BY <1>8 DEF vars, trees, history
<1>9. QED
  BY <1>1, <1>2, <1>3, <1>4, <1>5, <1>6, <1>7, <1>8, ExternalIsEdit DEF Next, Run

\* A CVE outside ext has the same file in HEAD and in the baseline for the whole run.
LEMMA ExtInvariant ==
    ASSUME TypeOK, ExtInv, [Next]_vars
    PROVE  ExtInv'
<1> USE DEF TypeOK, ExtInv
<1>1. CASE StartRun
  <2>1. CASE ext' = IF anchor = NoCommit THEN CVEs ELSE {c \in CVEs : disk'[c] # anchor[c]}
    <3>1. disk' = head /\ head' = head /\ anchor' = anchor
      BY <1>1 DEF StartRun
    <3>2. QED
      BY <2>1, <3>1
  <2>2. CASE ext' = CVEs
    BY <2>2
  <2>3. QED
    BY <1>1, <2>1, <2>2 DEF StartRun
<1>2. ASSUME NEW c \in CVEs, NEW result \in Results, Process(c, result)
      PROVE  ExtInv'
  <2>1. UNCHANGED <<head, anchor, ext, pc>>
    BY <1>2 DEF Process
  <2>2. QED
    BY <2>1
<1>3. ASSUME NEW c \in CVEs, Reject(c)
      PROVE  ExtInv'
  BY <1>3 DEF Reject, Exit
<1>4. ASSUME NEW c \in CVEs, BreakOffSave(c)
      PROVE  ExtInv'
  BY <1>4 DEF BreakOffSave, Exit
<1>5. CASE GiveUp
  BY <1>5 DEF GiveUp, Exit
<1>6. CASE Publish
  BY <1>6 DEF Publish, Exit
<1>7. ASSUME NEW c \in CVEs, NEW file \in File, ExternalEdit(c, file)
      PROVE  ExtInv'
  BY <1>7 DEF ExternalEdit, Edit
<1>8. CASE UNCHANGED vars
  BY <1>8 DEF vars, trees
<1>9. QED
  BY <1>1, <1>2, <1>3, <1>4, <1>5, <1>6, <1>7, <1>8, ExternalIsEdit DEF Next, Run

\* What a run publishes: the files on disk, whether some file changed or not.
LEMMA PublishedFiles ==
    ASSUME TypeOK, Publish
    PROVE  head' = disk /\ \A c \in CVEs : BaselineFile(c)' \in {BaselineFile(c), disk[c]}
<1>1. head' = disk /\ anchor' \in {anchor, disk}
  BY DEF Publish
<1>2. disk # NoCommit
  BY AssessmentAssumption DEF TypeOK
<1>3. QED
  BY <1>1, <1>2 DEF BaselineFile

\* A processed record is dated no later than this run.
LEMMA ProcessedIsDated ==
    ASSUME TypeOK, TimeInv, pc = "running", NEW c \in CVEs, Processed(c)
    PROVE  disk[c] # Garbled /\ Read(disk[c]) = disk[c] /\ disk[c].firstSeen <= clock
<1>1. IsRecordOf(c, disk[c])
  BY ProcessedRecord
<1>2. disk[c] # Garbled /\ Read(disk[c]) = disk[c]
  BY <1>1 DEF IsRecordOf, Read
<1>3. CASE IsRecordOf(c, head[c])
  <2>1. disk[c].firstSeen = head[c].firstSeen
    BY <1>3, ProcessedRecord
  <2>2. head[c].firstSeen <= clock
    BY <1>3 DEF TimeInv, IsRecordOf, Read
  <2>3. QED
    BY <1>2, <2>1, <2>2
<1>4. CASE ~IsRecordOf(c, head[c])
  <2>1. disk[c].firstSeen = clock
    BY <1>4, ProcessedRecord DEF Processed
  <2>2. clock \in Nat
    BY Bounds DEF TypeOK
  <2>3. clock <= clock
    BY <2>2
  <2>4. QED
    BY <1>2, <2>1, <2>3
<1>5. QED
  BY <1>3, <1>4

\* Whatever is committed was dated by an earlier run, or is not dated.
LEMMA TimeInvariant ==
    ASSUME TypeOK, TimeInv, ProcessedInv, [Next]_vars
    PROVE  TimeInv'
<1>1. CASE StartRun
  <2>1. UNCHANGED <<head, anchor>> /\ clock' = clock + 1
    BY <1>1 DEF StartRun
  <2>2. clock \in Nat /\ \A n \in Nat : n <= clock => n <= clock + 1 /\ n < clock + 1
    BY Bounds DEF TypeOK
  <2>3. \A d \in CVEs : \A file \in {head[d], BaselineFile(d)} :
           file # Garbled => Read(file).firstSeen \in Nat
    <3>1. ASSUME NEW d \in CVEs, NEW file \in {head[d], BaselineFile(d)}, file # Garbled
          PROVE  Read(file).firstSeen \in Nat
      <4>1. file \in File \cup {NoFile}
        BY <3>1 DEF TypeOK, File, BaselineFile
      <4>2. Read(file) \in Record
        BY <3>1, <4>1, EmptyRecordIsRecord DEF File, Read
      <4>3. QED
        BY <4>2, RecordFields
    <3>2. QED
      BY <3>1
  <2>4. \A d \in CVEs : \A file \in {head[d], BaselineFile(d)} : file # Garbled =>
           Read(file).firstSeen <= clock' /\ Read(file).firstSeen < clock'
    BY <2>1, <2>2, <2>3 DEF TimeInv
  <2>5. clock' > 0
    BY <2>1, <2>2
  <2>6. \A d \in CVEs : BaselineFile(d)' = BaselineFile(d) /\ head'[d] = head[d]
    BY <2>1 DEF BaselineFile
  <2>7. QED
    BY <2>4, <2>5, <2>6 DEF TimeInv
<1>2. ASSUME NEW c \in CVEs, NEW result \in Results, Process(c, result)
      PROVE  TimeInv'
  <2>1. UNCHANGED <<head, anchor, clock, pc>>
    BY <1>2 DEF Process
  <2>2. QED
    BY <2>1 DEF TimeInv, BaselineFile
<1>3. ASSUME NEW c \in CVEs, Reject(c)
      PROVE  TimeInv'
  <2>1. UNCHANGED <<head, anchor, clock>> /\ pc' = "idle"
    BY <1>3 DEF Reject, Exit, trees
  <2>2. QED
    BY <2>1 DEF TimeInv, BaselineFile
<1>4. ASSUME NEW c \in CVEs, BreakOffSave(c)
      PROVE  TimeInv'
  <2>1. UNCHANGED <<head, anchor, clock>> /\ pc' = "idle"
    BY <1>4 DEF BreakOffSave, Exit, trees
  <2>2. QED
    BY <2>1 DEF TimeInv, BaselineFile
<1>5. CASE GiveUp
  <2>1. UNCHANGED <<head, anchor, clock>> /\ pc' = "idle"
    BY <1>5 DEF GiveUp, Exit, trees
  <2>2. QED
    BY <2>1 DEF TimeInv, BaselineFile
<1>6. CASE Publish
  <2>1. /\ pc' = "idle" /\ clock' = clock /\ head' = disk
        /\ \A c \in CVEs : BaselineFile(c)' \in {BaselineFile(c), disk[c]}
    BY <1>6, PublishedFiles DEF Publish, Exit
  <2>2. \A c \in CVEs : disk[c] # Garbled => Read(disk[c]).firstSeen <= clock
    <3>1. pc = "running" /\ todo = {}
      BY <1>6 DEF Publish, RunComplete
    <3>2. \A c \in CVEs : Processed(c)
      BY <3>1 DEF ProcessedInv
    <3>3. QED
      BY <3>1, <3>2, ProcessedIsDated
  <2>3. QED
    BY <2>1, <2>2 DEF TimeInv
<1>7. ASSUME NEW c \in CVEs, NEW file \in File, ExternalEdit(c, file)
      PROVE  TimeInv'
  <2>1. /\ head' = [head EXCEPT ![c] = file] /\ pc = "idle"
        /\ UNCHANGED <<anchor, clock, pc>>
    BY <1>7 DEF ExternalEdit, Edit
  <2>2. file # Garbled => Read(file).firstSeen <= clock
    <3>1. clock \in Nat /\ 0 <= clock
      BY Bounds DEF TypeOK
    <3>2. head[c] # Garbled => Read(head[c]).firstSeen <= clock
      BY DEF TimeInv
    <3>3. QED
      BY <1>7, <3>1, <3>2 DEF ExternalEdit
  <2>3. \A d \in CVEs : head'[d] # Garbled => Read(head'[d]).firstSeen <= clock
    <3>1. \A d \in CVEs : head'[d] = IF d = c THEN file ELSE head[d]
      BY <2>1 DEF TypeOK
    <3>2. QED
      BY <3>1, <2>2 DEF TimeInv
  <2>4. QED
    BY <2>1, <2>3 DEF TimeInv, BaselineFile
<1>8. CASE UNCHANGED vars
  <2>1. UNCHANGED <<head, anchor, clock, pc>>
    BY <1>8 DEF vars, trees
  <2>2. QED
    BY <2>1 DEF TimeInv, BaselineFile
<1>9. QED
  BY <1>1, <1>2, <1>3, <1>4, <1>5, <1>6, <1>7, <1>8, ExternalIsEdit DEF Next, Run

\* Processing a CVE does what Processed says of it, and does nothing to the others.
LEMMA ProcessedInvariant ==
    ASSUME TypeOK, UntouchedInv, ExtInv, ProcessedInv, [Next]_vars
    PROVE  ProcessedInv'
<1> USE DEF ProcessedInv
<1>1. CASE StartRun
  BY <1>1 DEF StartRun
<1>2. ASSUME NEW c \in CVEs, NEW result \in Results, Process(c, result)
      PROVE  ProcessedInv'
  <2> DEFINE e == Read(disk[c])
             i == Incoming(c, e, result)
             m == MergeRecords(e, i)
             b == ResolveBaseline(c)
  <2>1. /\ pc = "running" /\ c \in todo /\ Processable(c)
        /\ UNCHANGED <<head, anchor, clock, pc>> /\ todo' = todo \ {c}
        /\ computed' = [computed EXCEPT ![c] = i]
        /\ disk' = IF MustSave(b, e, m) THEN [disk EXCEPT ![c] = m] ELSE disk
        /\ flagged' = IF OverwriteFieldsDiffer(b, e) THEN flagged \cup {c} ELSE flagged
        /\ escalated' = IF IsOverdue(m) THEN escalated \cup {c} ELSE escalated
        /\ reported' = IF HasChanges(b, m) THEN reported \cup {c} ELSE reported
    BY <1>2 DEF Process, DetectExternalOverwriteEdits
  <2>2. /\ disk[c] = head[c] /\ c \notin reported /\ c \notin flagged /\ c \notin escalated
    BY <2>1 DEF UntouchedInv
  <2>3. e = Committed(c)
    BY <2>2 DEF Committed
  <2>4. b = Baseline(c) /\ BaselineFile(c) # Garbled
    <3>1. CASE c \in ext
      BY <2>1, <3>1 DEF ResolveBaseline, UsesDiskAsBaseline, Baseline, Processable
    <3>2. CASE c \notin ext
      <4>1. anchor # NoCommit /\ head[c] = anchor[c]
        BY <2>1, <3>2 DEF ExtInv
      <4>2. QED
        BY <2>1, <2>2, <3>2, <4>1
        DEF ResolveBaseline, UsesDiskAsBaseline, Baseline, BaselineFile, Processable
    <3>3. QED
      BY <3>1, <3>2
  <2>5. e \in Record /\ head[c] # Garbled /\ e.id \in {NoID, c}
    <3>1. disk[c] \in File
      BY DEF TypeOK
    <3>2. QED
      BY <2>1, <2>2, <3>1, EmptyRecordIsRecord DEF Processable, Read, File
  <2>6. clock \in Nat
    BY Bounds DEF TypeOK
  <2>i. i = Incoming(c, e, result)
    OBVIOUS
  <2> HIDE DEF e, i, m, b
  <2>7. /\ i \in Record /\ i.id = c /\ i.manual = "" /\ i.firstSeen = clock
        /\ DOMAIN i.releases # {} =>
              GlobalStatus([i EXCEPT !.manual = e.manual]) = "relevant"
    <3>1. ComputedFor(Incoming(c, e, result), c, e.manual)
      BY <2>5, <2>6, IncomingRecord
    <3>2. QED
      BY <2>i, <3>1 DEF ComputedFor
  <2>8. Processed(c)'
    <3>1. Committed(c)' = e /\ Baseline(c)' = b /\ BaselineFile(c)' = BaselineFile(c)
      BY <2>1, <2>3, <2>4 DEF Committed, Baseline, BaselineFile
    <3>2. computed'[c] = i
      BY <2>1 DEF TypeOK
    <3>3. Merged(c)' = m
      BY <3>1, <3>2 DEF Merged, m
    <3>4. disk'[c] = IF MustSave(b, e, m) THEN m ELSE head'[c]
      BY <2>1, <2>2 DEF TypeOK
    <3>5. /\ c \in reported' <=> HasChanges(b, m)
          /\ c \in flagged' <=> OverwriteFieldsDiffer(b, e)
          /\ c \in escalated' <=> IsOverdue(m)
      BY <2>1, <2>2
    <3>6. clock' = clock /\ head' = head
      BY <2>1
    <3>7. /\ head'[c] # Garbled /\ BaselineFile(c)' # Garbled
          /\ Committed(c)'.id \in {NoID, c}
      BY <2>4, <2>5, <3>1, <3>6
    <3>8. /\ computed'[c].id = c /\ computed'[c].manual = "" /\ computed'[c].firstSeen = clock'
          /\ DOMAIN computed'[c].releases # {} =>
                GlobalStatus([computed'[c] EXCEPT !.manual = Committed(c)'.manual]) = "relevant"
      BY <2>7, <3>1, <3>2, <3>6
    <3>9. /\ disk'[c] = IF MustSave(Baseline(c)', Committed(c)', Merged(c)')
                         THEN Merged(c)' ELSE head'[c]
          /\ c \in reported' <=> HasChanges(Baseline(c)', Merged(c)')
          /\ c \in flagged' <=> OverwriteFieldsDiffer(Baseline(c)', Committed(c)')
      BY <3>1, <3>3, <3>4, <3>5
    <3>10. c \in escalated' <=> IsOverdue(Merged(c))'
      BY <2>1, <3>3, <3>5 DEF IsOverdue
    <3>11. QED
      BY <3>7, <3>8, <3>9, <3>10 DEF Processed, MustSave
  <2>9. ASSUME NEW d \in CVEs \ todo
        PROVE  Processed(d)'
    <3>1. d # c /\ Processed(d)
      BY <2>1
    <3>2. /\ disk'[d] = disk[d] /\ computed'[d] = computed[d]
          /\ d \in reported' <=> d \in reported
          /\ d \in flagged' <=> d \in flagged
          /\ d \in escalated' <=> d \in escalated
      BY <2>1, <3>1 DEF TypeOK
    <3>3. UNCHANGED <<head, anchor, clock>>
      BY <2>1
    <3>4. /\ Committed(d)' = Committed(d) /\ BaselineFile(d)' = BaselineFile(d)
          /\ Baseline(d)' = Baseline(d) /\ Merged(d)' = Merged(d)
      BY <3>2, <3>3 DEF Committed, Baseline, BaselineFile, Merged
    <3>5. /\ MustSave(Baseline(d), Committed(d), Merged(d))'
               <=> MustSave(Baseline(d), Committed(d), Merged(d))
          /\ IsOverdue(Merged(d))' <=> IsOverdue(Merged(d))
      BY <3>3, <3>4 DEF MustSave, IsOverdue
    <3>6. QED
      BY <3>1, <3>2, <3>3, <3>4, <3>5 DEF Processed
  <2>10. QED
    BY <2>1, <2>8, <2>9
<1>3. ASSUME NEW c \in CVEs, Reject(c)
      PROVE  ProcessedInv'
  BY <1>3 DEF Reject, Exit
<1>4. ASSUME NEW c \in CVEs, BreakOffSave(c)
      PROVE  ProcessedInv'
  BY <1>4 DEF BreakOffSave, Exit
<1>5. CASE GiveUp
  BY <1>5 DEF GiveUp, Exit
<1>6. CASE Publish
  BY <1>6 DEF Publish, Exit
<1>7. ASSUME NEW c \in CVEs, NEW file \in File, ExternalEdit(c, file)
      PROVE  ProcessedInv'
  BY <1>7 DEF ExternalEdit, Edit
<1>8. CASE UNCHANGED vars
  <2>1. UNCHANGED <<head, anchor, disk, clock, pc, todo, computed, reported, flagged, escalated>>
    BY <1>8 DEF vars, trees, history
  <2>2. ASSUME NEW d \in CVEs, Processed(d)
        PROVE  Processed(d)'
    BY <2>1, <2>2 DEF Processed, Committed, Baseline, BaselineFile, Merged, MustSave, IsOverdue
  <2>3. QED
    BY <2>1, <2>2
<1>9. QED
  BY <1>1, <1>2, <1>3, <1>4, <1>5, <1>6, <1>7, <1>8, ExternalIsEdit DEF Next, Run

\* The date of the run that created a record stays in it, whoever edits it.
LEMMA SinceInvariant ==
    ASSUME TypeOK, TimeInv, ProcessedInv, SinceInv, [Next]_vars
    PROVE  SinceInv'
<1> USE DEF SinceInv
<1>1. CASE StartRun
  <2>1. UNCHANGED <<head, since>>
    BY <1>1 DEF StartRun, trees, Exit
  <2>2. QED
    BY <2>1
<1>2. ASSUME NEW c \in CVEs, NEW result \in Results, Process(c, result)
      PROVE  SinceInv'
  <2>1. UNCHANGED <<head, since>>
    BY <1>2 DEF Process, trees, Exit
  <2>2. QED
    BY <2>1
<1>3. ASSUME NEW c \in CVEs, Reject(c)
      PROVE  SinceInv'
  <2>1. UNCHANGED <<head, since>>
    BY <1>3 DEF Reject, trees, Exit
  <2>2. QED
    BY <2>1
<1>4. ASSUME NEW c \in CVEs, BreakOffSave(c)
      PROVE  SinceInv'
  <2>1. UNCHANGED <<head, since>>
    BY <1>4 DEF BreakOffSave, trees, Exit
  <2>2. QED
    BY <2>1
<1>5. CASE GiveUp
  <2>1. UNCHANGED <<head, since>>
    BY <1>5 DEF GiveUp, trees, Exit
  <2>2. QED
    BY <2>1
<1>6. CASE Publish
  <2>1. /\ head' = disk /\ pc = "running" /\ todo = {}
        /\ since' = [c \in CVEs |-> IF IsRecordOf(c, head[c]) THEN since[c] ELSE clock]
    BY <1>6, PublishedFiles DEF Publish, RunComplete
  <2>2. SUFFICES ASSUME NEW c \in CVEs, since'[c] # 0
                 PROVE  IsRecordOf(c, disk[c]) /\ disk[c].firstSeen = since'[c]
    BY <2>1 DEF IsRecordOf
  <2>3. Processed(c)
    BY <2>1 DEF ProcessedInv
  <2>4. IsRecordOf(c, disk[c])
    BY <2>1, <2>3, ProcessedRecord
  <2>5. CASE IsRecordOf(c, head[c])
    <3>1. disk[c].firstSeen = head[c].firstSeen
      BY <2>1, <2>3, <2>5, ProcessedRecord
    <3>2. since'[c] = since[c]
      BY <2>1, <2>5
    <3>3. QED
      BY <2>2, <2>4, <3>1, <3>2
  <2>6. CASE ~IsRecordOf(c, head[c])
    <3>1. disk[c].firstSeen = clock
      BY <2>1, <2>3, <2>6, ProcessedRecord DEF Processed
    <3>2. since'[c] = clock
      BY <2>1, <2>6
    <3>3. QED
      BY <2>4, <3>1, <3>2
  <2>7. QED
    BY <2>5, <2>6
<1>7. ASSUME NEW c \in CVEs, NEW file \in File, ExternalEdit(c, file)
      PROVE  SinceInv'
  <2>1. /\ head' = [head EXCEPT ![c] = file]
        /\ since' = [since EXCEPT ![c] =
                       IF IsRecordOf(c, head[c]) /\ IsRecordOf(c, file) THEN @ ELSE 0]
        /\ IsRecordOf(c, head[c]) /\ IsRecordOf(c, file) => file.firstSeen = head[c].firstSeen
    BY <1>7 DEF ExternalEdit, Edit
  <2>2. ASSUME NEW d \in CVEs, since'[d] # 0
        PROVE  IsRecordOf(d, head'[d]) /\ head'[d].firstSeen = since'[d]
    <3>1. CASE d # c
      <4>1. head'[d] = head[d] /\ since'[d] = since[d]
        BY <2>1, <3>1 DEF TypeOK
      <4>2. QED
        BY <2>2, <4>1
    <3>2. CASE d = c
      <4>1. head'[c] = file
        BY <2>1 DEF TypeOK
      <4>2. IsRecordOf(c, head[c]) /\ IsRecordOf(c, file) /\ since'[c] = since[c]
        BY <2>1, <2>2, <3>2 DEF TypeOK
      <4>3. QED
        BY <2>1, <2>2, <3>2, <4>1, <4>2
    <3>3. QED
      BY <3>1, <3>2
  <2>3. QED
    BY <2>2 DEF IsRecordOf
<1>8. CASE UNCHANGED vars
  <2>1. UNCHANGED <<head, since>>
    BY <1>8 DEF vars, trees
  <2>2. QED
    BY <2>1 DEF IsRecordOf
<1>9. QED
  BY <1>1, <1>2, <1>3, <1>4, <1>5, <1>6, <1>7, <1>8, ExternalIsEdit DEF Next, Run

-----------------------------------------------------------------------------
(* The theorems.                                                           *)

\* The inductive invariant holds in every reachable state.
THEOREM Invariance == Spec => []IInv
<1>1. Init => IInv
  <2> SUFFICES ASSUME Init PROVE IInv
    OBVIOUS
  <2>1. TypeOK
    <3>1. NothingComputed \in [CVEs -> Record]
      BY EmptyRecordIsRecord DEF NothingComputed
    <3>2. 0 \in 0..MaxRuns /\ 0 \in 0..MaxEdits
      BY Bounds
    <3>3. QED
      BY <3>1, <3>2 DEF Init, TypeOK, File
  <2>2. IdleInv /\ UntouchedInv /\ ExtInv /\ ProcessedInv
    BY DEF Init, IdleInv, UntouchedInv, ExtInv, ProcessedInv
  <2>3. TimeInv
    <3>1. \A c \in CVEs : head[c] = NoFile /\ BaselineFile(c) = NoFile
      BY DEF Init, BaselineFile
    <3>2. Read(NoFile).firstSeen = 0
      BY EmptyRecordIsRecord DEF Read
    <3>3. pc = "idle" /\ clock = 0 /\ 0 <= 0
      BY DEF Init
    <3>4. QED
      BY <3>1, <3>2, <3>3 DEF TimeInv
  <2>4. SinceInv
    BY DEF Init, SinceInv
  <2>5. QED
    BY <2>1, <2>2, <2>3, <2>4 DEF IInv
<1>2. IInv /\ [Next]_vars => IInv'
  <2> SUFFICES ASSUME IInv, [Next]_vars PROVE IInv'
    OBVIOUS
  <2> USE DEF IInv
  <2>1. TypeOK'
    BY TypeInvariant
  <2>2. IdleInv'
    BY IdleInvariant
  <2>3. UntouchedInv'
    BY UntouchedInvariant
  <2>4. ExtInv'
    BY ExtInvariant
  <2>5. TimeInv'
    BY TimeInvariant
  <2>6. ProcessedInv'
    BY ProcessedInvariant
  <2>7. SinceInv'
    BY SinceInvariant
  <2>8. QED
    BY <2>1, <2>2, <2>3, <2>4, <2>5, <2>6, <2>7
<1>3. QED
  BY <1>1, <1>2, PTL DEF Spec

\* Type correctness: whatever is committed by whomever, the files are records, missing
\* or garbled, and what a run computes and merges is a record (mergeStructs, mergeMap).
THEOREM TypeCorrect == Spec => []TypeOK
<1>1. IInv => TypeOK
  BY DEF IInv
<1>2. QED
  BY <1>1, Invariance, PTL

\* When every CVE is processed, the files the publisher will commit hold what the run
\* computed, also those that were not written because nothing differed
\* (service.go:157).
THEOREM SavedOrUpToDate == Spec => []DiskHoldsWhatWasComputed
<1>1. IInv => DiskHoldsWhatWasComputed
  <2> SUFFICES ASSUME IInv, RunComplete, NEW c \in CVEs
               PROVE  /\ IsRecordOf(c, disk[c])
                      /\ disk[c].upstream = computed[c].upstream
                      /\ disk[c].reason = computed[c].reason
                      /\ \A k \in DOMAIN computed[c].releases :
                            At(disk[c].releases, k).auto = computed[c].releases[k].auto
    BY DEF DiskHoldsWhatWasComputed
  <2>1. pc = "running" /\ Processed(c)
    BY DEF RunComplete, IInv, ProcessedInv
  <2>2. QED
    BY <2>1, ProcessedRecord DEF IInv
<1>2. QED
  BY <1>1, Invariance, PTL

\* The change reactors hear of a CVE exactly when its record differs from the last
\* published baseline: reading the baseline from disk for the CVEs outside ext, and
\* comparing before the decision to save, never hides nor invents a change.
THEOREM ReactorsHearOfChanges == Spec => []ReportsMatchChanges
<1>1. IInv => ReportsMatchChanges
  <2> SUFFICES ASSUME IInv, RunComplete, NEW c \in CVEs
               PROVE  c \in reported <=> HasChanges(Read(BaselineFile(c)), disk[c])
    BY DEF ReportsMatchChanges
  <2>1. pc = "running" /\ Processed(c)
    BY DEF RunComplete, IInv, ProcessedInv
  <2>2. HasChanges(Baseline(c), disk[c]) <=> HasChanges(Baseline(c), Merged(c))
    BY <2>1, ProcessedRecord DEF IInv
  <2>3. c \in reported <=> HasChanges(Baseline(c), Merged(c))
    BY <2>1 DEF Processed
  <2>4. QED
    BY <2>2, <2>3 DEF Baseline
<1>2. QED
  BY <1>1, Invariance, PTL

\* The program warns of an external edit exactly when a field of its own differs
\* between the baseline and the committed record, also for the CVEs whose baseline it
\* never loads.
THEOREM ExternalEditsAreNoticed == Spec => []EditsAreFlagged
<1>1. IInv => EditsAreFlagged
  <2> SUFFICES ASSUME IInv, RunComplete, NEW c \in CVEs
               PROVE  c \in flagged <=>
                        OverwriteFieldsDiffer(Read(BaselineFile(c)), Read(head[c]))
    BY DEF EditsAreFlagged
  <2>1. Processed(c)
    BY DEF RunComplete, IInv, ProcessedInv
  <2>2. QED
    BY <2>1 DEF Processed, Baseline, Committed
<1>2. QED
  BY <1>1, Invariance, PTL

\* What IsOverdue decides, said of the parts of a record.
LEMMA OverdueRecord ==
    ASSUME NEW r \in Record
    PROVE  IsOverdue(r) <=> /\ r.manual = "" /\ r.reason = "awaiting-debian"
                            /\ r.firstSeen # 0 /\ clock - r.firstSeen >= TimeToWait
  BY RecordFields DEF IsOverdue, GlobalStatus, AutoStatus

\* A CVE awaiting Debian's verdict is escalated in every run from TimeToWait after the
\* run that created its record and in none before, whatever was edited or failed in
\* between; a manual status stops it.
THEOREM DeadlineIsKept == Spec => []EscalatedInTime
<1>1. IInv => EscalatedInTime
  <2> SUFFICES ASSUME IInv, RunComplete, NEW c \in CVEs, since[c] # 0
               PROVE  c \in escalated <=>
                        /\ computed[c].reason = "awaiting-debian"
                        /\ disk[c].manual = ""
                        /\ clock - since[c] >= TimeToWait
    BY DEF EscalatedInTime
  <2>1. pc = "running" /\ Processed(c)
    BY DEF RunComplete, IInv, ProcessedInv
  <2>2. IsRecordOf(c, head[c]) /\ head[c].firstSeen = since[c]
    BY DEF IInv, SinceInv
  <2>3. Committed(c) = head[c] /\ head[c] \in Record
    BY <2>2 DEF IsRecordOf, Committed, Read, IInv, TypeOK, File
  <2>4. computed[c] \in Record
    BY DEF IInv, TypeOK
  <2>5. head[c].id # NoID
    BY <2>2, AssessmentAssumption DEF IsRecordOf
  <2>6. /\ Merged(c) \in Record /\ Merged(c).reason = computed[c].reason
        /\ Merged(c).manual = head[c].manual /\ Merged(c).firstSeen = head[c].firstSeen
    BY <2>3, <2>4, <2>5, MergedRecord DEF Merged
  <2>7. disk[c].manual = head[c].manual
    BY <2>1, <2>2, ProcessedRecord DEF IInv
  <2>8. c \in escalated <=> IsOverdue(Merged(c))
    BY <2>1 DEF Processed
  <2>9. IsOverdue(Merged(c)) <=>
          /\ Merged(c).manual = "" /\ Merged(c).reason = "awaiting-debian"
          /\ Merged(c).firstSeen # 0 /\ clock - Merged(c).firstSeen >= TimeToWait
    BY <2>6, OverdueRecord
  <2>10. QED
    BY <2>2, <2>6, <2>7, <2>8, <2>9
<1>2. QED
  BY <1>1, Invariance, PTL

\* Releases are assessed only for a CVE whose record comes out relevant: the status
\* asked before the merge is the one the merged record has.
THEOREM AssessedForRelevantOnly == Spec => []AssessedOnlyIfRelevant
<1>1. IInv => AssessedOnlyIfRelevant
  <2> SUFFICES ASSUME IInv, RunComplete, NEW c \in CVEs,
                      Read(head[c]) = EmptyRecord \/ IsRecordOf(c, head[c]),
                      DOMAIN computed[c].releases # {}
               PROVE  GlobalStatus(disk[c]) = "relevant"
    BY DEF AssessedOnlyIfRelevant
  <2>1. pc = "running" /\ Processed(c)
    BY DEF RunComplete, IInv, ProcessedInv
  <2>2. GlobalStatus([computed[c] EXCEPT !.manual = Committed(c).manual]) = "relevant"
    BY <2>1 DEF Processed
  <2>3. computed[c] \in Record /\ disk[c] \in Record /\ disk[c].reason = computed[c].reason
    BY <2>1, ProcessedRecord DEF IInv, TypeOK
  <2>4. disk[c].manual = Committed(c).manual
    <3>1. CASE IsRecordOf(c, head[c])
      <4>1. Committed(c) = head[c]
        BY <3>1 DEF IsRecordOf, Committed, Read
      <4>2. QED
        BY <2>1, <3>1, <4>1, ProcessedRecord DEF IInv
    <3>2. CASE ~IsRecordOf(c, head[c])
      <4>1. disk[c] = computed[c] /\ computed[c].manual = ""
        BY <2>1, <3>2, ProcessedRecord DEF IInv, Processed
      <4>2. Committed(c).manual = ""
        BY <3>2, EmptyRecordIsRecord DEF Committed
      <4>3. QED
        BY <4>1, <4>2
    <3>3. QED
      BY <3>1, <3>2
  <2>5. ASSUME NEW r \in Record, NEW m \in Statuses
        PROVE  GlobalStatus([r EXCEPT !.manual = m]) = IF m # "" THEN m ELSE AutoStatus(r.reason)
    BY DEF GlobalStatus, Record
  <2>6. disk[c].manual \in Statuses
    BY <2>3, RecordFields
  <2>7. GlobalStatus(disk[c]) = GlobalStatus([computed[c] EXCEPT !.manual = Committed(c).manual])
    BY <2>3, <2>4, <2>5, <2>6 DEF GlobalStatus
  <2>8. QED
    BY <2>2, <2>7
<1>2. QED
  BY <1>1, Invariance, PTL

\* What a step of a run does to the committed files: nothing, or it publishes.
LEMMA RunStep ==
    ASSUME IInv, pc = "running", [Next]_vars
    PROVE  head' = head \/ Publish
<1>1. CASE UNCHANGED vars
  BY <1>1 DEF vars, trees
<1>2. CASE StartRun
  BY <1>2 DEF StartRun
<1>3. ASSUME NEW c \in CVEs, NEW result \in Results, Process(c, result)
      PROVE  head' = head
  BY <1>3 DEF Process
<1>4. ASSUME NEW c \in CVEs, Reject(c) \/ BreakOffSave(c)
      PROVE  head' = head
  BY <1>4 DEF Reject, BreakOffSave, trees
<1>5. CASE GiveUp
  BY <1>5 DEF GiveUp, trees
<1>6. CASE External
  <2>1. pc = "idle"
    BY <1>6, ExternalIsEdit DEF IInv, ExternalEdit, Edit
  <2>2. QED
    BY <2>1
<1>7. QED
  BY <1>1, <1>2, <1>3, <1>4, <1>5, <1>6 DEF Next, Run

\* The manual status, the overrides of each release and FirstSeenAt survive every run,
\* as long as the file is the record of its CVE.
THEOREM HumanDataIsKept == Spec => HumanDataSurvives
<1> DEFINE Kept(c) ==
             IsRecordOf(c, head[c]) =>
                /\ IsRecordOf(c, head'[c])
                /\ head'[c].manual = head[c].manual
                /\ head'[c].firstSeen = head[c].firstSeen
                /\ \A k \in Releases :
                      At(head'[c].releases, k).manual = At(head[c].releases, k).manual
<1>1. IInv /\ [Next]_vars => [pc = "running" => \A c \in CVEs : Kept(c)]_vars
  <2> SUFFICES ASSUME IInv, [Next]_vars, pc = "running", NEW c \in CVEs
               PROVE  Kept(c)
    OBVIOUS
  <2>1. CASE head' = head
    BY <2>1
  <2>2. CASE Publish
    <3>1. head' = disk
      BY <2>2, PublishedFiles DEF IInv
    <3>2. Processed(c)
      BY <2>2 DEF Publish, RunComplete, IInv, ProcessedInv
    <3>3. IsRecordOf(c, disk[c])
      BY <3>2, ProcessedRecord DEF IInv
    <3>4. IsRecordOf(c, head[c]) =>
             /\ disk[c].manual = head[c].manual
             /\ disk[c].firstSeen = head[c].firstSeen
             /\ \A k : At(disk[c].releases, k).manual = At(head[c].releases, k).manual
      BY <3>2, ProcessedRecord DEF IInv
    <3>5. QED
      BY <3>1, <3>3, <3>4
  <2>3. QED
    BY <2>1, <2>2, RunStep
<1>2. QED
  BY <1>1, Invariance, PTL DEF Spec, HumanDataSurvives

\* A release that a run does not assess keeps its decision in the record the run
\* publishes: map,preserve, and not map,replace.
THEOREM UnassessedReleasesAreKept == Spec => UnassessedReleasesStay
<1> DEFINE Kept(c) ==
             IsRecordOf(c, head[c]) =>
                \A k \in DOMAIN head[c].releases :
                   k \in DOMAIN computed[c].releases
                      \/ At(head'[c].releases, k) = head[c].releases[k]
<1>1. IInv /\ [Next]_vars => [pc = "running" => \A c \in CVEs : Kept(c)]_vars
  <2> SUFFICES ASSUME IInv, [Next]_vars, pc = "running", NEW c \in CVEs
               PROVE  Kept(c)
    OBVIOUS
  <2>1. CASE head' = head
    BY <2>1 DEF At
  <2>2. CASE Publish
    <3>1. head' = disk
      BY <2>2, PublishedFiles DEF IInv
    <3>2. Processed(c)
      BY <2>2 DEF Publish, RunComplete, IInv, ProcessedInv
    <3>3. IsRecordOf(c, head[c]) =>
             \A k : k \notin DOMAIN computed[c].releases =>
                At(disk[c].releases, k) = At(head[c].releases, k)
      BY <3>2, ProcessedRecord DEF IInv
    <3>4. QED
      BY <3>1, <3>3 DEF At
  <2>3. QED
    BY <2>1, <2>2, RunStep
<1>2. QED
  BY <1>1, Invariance, PTL DEF Spec, UnassessedReleasesStay
===============================================================================

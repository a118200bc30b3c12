------------------------- MODULE CVEIdentifiersProofs -------------------------
(***************************************************************************)
(* What the operators of CPENames and CVEIdentifiers compute, for every    *)
(* record: the map of WFNs has one spelling of each name, the identifiers  *)
(* of a CVE are all it names, and a record touches no other CVE.           *)
(*                                                                         *)
(* Holds says of identifiers that they are those of a set of entries and a *)
(* set of WFNs; each function that collects identifiers adds to both.      *)
(* ProcessCVE is a recursive function of the containers: that it exists,   *)
(* and what holds of its values, follows from the least number for which   *)
(* it would not.                                                           *)
(***************************************************************************)
EXTENDS CVEIdentifiers, FiniteSetTheorems, WellFoundedInduction, TLAPS

-----------------------------------------------------------------------------
(* Numbers and places.                                                     *)

\* Every set of numbers that is not empty has a least one.
LEMMA LeastNumber ==
    ASSUME NEW T \in SUBSET Nat, T # {}
    PROVE  \E x \in T : \A y \in T : x <= y
<1> DEFINE R == OpToRel(<, Nat)
<1>1. R = {ss \in Nat \X Nat : ss[1] < ss[2]}
  BY Zenon DEF OpToRel
<1>2. IsWellFoundedOn(R, Nat)
  BY NatLessThanWellFounded
<1> HIDE DEF R
<1>3. \E x \in T : \A y \in T : ~(<<y, x>> \in R)
  BY <1>2, WFMin
<1>4. ASSUME NEW x \in Nat, NEW y \in Nat, ~(<<y, x>> \in R)
      PROVE  x <= y
  BY <1>1, <1>4
<1>5. QED
  BY <1>3, <1>4

\* Of places that are not none one comes first.
LEMMA FirstPlace ==
    ASSUME NEW T \in SUBSET (Nat \X Nat), T # {}
    PROVE  \E x \in T : \A y \in T : ~Earlier(y, x)
<1> DEFINE Lists == {n \in Nat : \E x \in T : x[1] = n}
<1>1. Lists \in SUBSET Nat /\ Lists # {}
  OBVIOUS
<1>2. PICK n \in Lists : \A m \in Lists : n <= m
  BY <1>1, LeastNumber
<1> DEFINE Numbers == {k \in Nat : \E x \in T : x[1] = n /\ x[2] = k}
<1>3. Numbers \in SUBSET Nat /\ Numbers # {}
  OBVIOUS
<1>4. PICK k \in Numbers : \A m \in Numbers : k <= m
  BY <1>3, LeastNumber
<1>5. PICK x \in T : x[1] = n /\ x[2] = k
  BY <1>4
<1>6. ASSUME NEW y \in T, Earlier(y, x)
      PROVE  FALSE
  <2>1. y[1] \in Nat /\ y[2] \in Nat /\ y[1] \in Lists /\ n \in Nat /\ k \in Nat
    OBVIOUS
  <2>2. n <= y[1]
    BY <1>2, <2>1
  <2>3. y[1] = n => y[2] \in Numbers /\ k <= y[2]
    BY <1>4, <2>1
  <2> HIDE DEF Lists, Numbers
  <2>4. QED
    BY <1>5, <1>6, <2>1, <2>2, <2>3 DEF Earlier
<1>7. QED
  BY <1>6

-----------------------------------------------------------------------------
(* The map of WFNs.                                                        *)

\* The map has each of a set of WFNs under its key, in one of its spellings.
IsMapOf(map, W) ==
    /\ DOMAIN map = {WFNKey(w) : w \in W}
    /\ map = [k \in DOMAIN map |-> map[k]]
    /\ \A k \in DOMAIN map : map[k] \in W /\ WFNKey(map[k]) = k

\* A map made of WFNs one after the other has all of them.
LEMMA NewMapIsMapOf ==
    ASSUME NEW wfns, DOMAIN wfns \subseteq Nat \X Nat
    PROVE  IsMapOf(NewUniqueWFNMapFrom(wfns), {wfns[x] : x \in DOMAIN wfns})
<1> DEFINE map == NewUniqueWFNMapFrom(wfns)
           W == {wfns[x] : x \in DOMAIN wfns}
           At(k) == {x \in DOMAIN wfns : WFNKey(wfns[x]) = k}
           first(k) == CHOOSE x \in At(k) : \A y \in At(k) : ~Earlier(y, x)
<1>1. map = [k \in {WFNKey(wfns[x]) : x \in DOMAIN wfns} |-> wfns[first(k)]]
  BY DEF NewUniqueWFNMapFrom
<1>2. DOMAIN map = {WFNKey(wfns[x]) : x \in DOMAIN wfns} /\ map = [k \in DOMAIN map |-> map[k]]
      /\ \A k \in DOMAIN map : map[k] = wfns[first(k)]
  BY <1>1
<1>3. DOMAIN map = {WFNKey(w) : w \in W}
  BY <1>2
<1>4. ASSUME NEW k \in DOMAIN map
      PROVE  first(k) \in At(k)
  <2>1. At(k) \in SUBSET (Nat \X Nat) /\ At(k) # {}
    BY <1>2
  <2>2. \E x \in At(k) : \A y \in At(k) : ~Earlier(y, x)
    BY <2>1, FirstPlace
  <2>3. QED
    BY <2>2
<1>5. ASSUME NEW k \in DOMAIN map
      PROVE  map[k] \in W /\ WFNKey(map[k]) = k
  <2>1. first(k) \in DOMAIN wfns /\ WFNKey(wfns[first(k)]) = k
    BY <1>4
  <2>2. QED
    BY <1>2, <2>1
<1> HIDE DEF map, W
<1>6. QED
  BY <1>2, <1>3, <1>5 DEF IsMapOf, map, W

\* The union of two maps has the WFNs of both.
LEMMA UnionIsMapOf ==
    ASSUME NEW m, NEW n, NEW V, NEW W, IsMapOf(m, V), IsMapOf(n, W)
    PROVE  IsMapOf(Union(m, n), V \cup W)
<1> DEFINE u == Union(m, n)
<1>1. /\ DOMAIN u = DOMAIN m \cup DOMAIN n /\ u = [k \in DOMAIN u |-> u[k]]
      /\ \A k \in DOMAIN u : u[k] = IF k \in DOMAIN n THEN n[k] ELSE m[k]
  BY DEF Union
<1> HIDE DEF u
<1>2. DOMAIN u = {WFNKey(w) : w \in V \cup W}
  BY <1>1 DEF IsMapOf
<1>3. \A k \in DOMAIN u : u[k] \in V \cup W /\ WFNKey(u[k]) = k
  BY <1>1 DEF IsMapOf
<1>4. QED
  BY <1>1, <1>2, <1>3 DEF IsMapOf, u

\* The names that parse, of lists of names.
NamesOf(S) == {Decoded(c) : c \in {n \in S : Parses(n)}}

\* The names of a list of lists are parsed at their places.
LEMMA ParsedNames ==
    ASSUME NEW lists \in Seq(Seq(CPE))
    PROVE  /\ DOMAIN ParsedWFNs(lists) \subseteq Nat \X Nat
           /\ {ParsedWFNs(lists)[x] : x \in DOMAIN ParsedWFNs(lists)}
                = NamesOf(UNION {ToSet(lists[i]) : i \in DOMAIN lists})
<1> DEFINE all == UNION {{n} \X DOMAIN lists[n] : n \in DOMAIN lists}
           S == UNION {ToSet(lists[i]) : i \in DOMAIN lists}
           D == {y \in all : Parses(lists[y[1]][y[2]])}
           wfns == ParsedWFNs(lists)
<1>1. DOMAIN wfns = D /\ \A x \in D : wfns[x] = Decoded(lists[x[1]][x[2]])
  BY DEF ParsedWFNs
<1>2. \A n \in DOMAIN lists : n \in Nat /\ lists[n] \in Seq(CPE) /\ DOMAIN lists[n] \subseteq Nat
  OBVIOUS
<1>3. all \subseteq Nat \X Nat
  BY <1>2
<1>4. \A n \in DOMAIN lists : ToSet(lists[n]) = {lists[n][i] : i \in DOMAIN lists[n]}
  BY <1>2 DEF ToSet
<1> HIDE DEF wfns
<1>5. ASSUME NEW x \in D
      PROVE  wfns[x] \in NamesOf(S)
  <2>1. PICK n \in DOMAIN lists : x \in {n} \X DOMAIN lists[n]
    OBVIOUS
  <2>2. x[1] = n /\ x[2] \in DOMAIN lists[n]
    BY <2>1
  <2>3. lists[x[1]][x[2]] \in S
    BY <1>4, <2>2
  <2>4. QED
    BY <1>1, <2>3 DEF NamesOf
<1>6. ASSUME NEW w \in NamesOf(S)
      PROVE  \E x \in D : wfns[x] = w
  <2>1. PICK c \in S : Parses(c) /\ w = Decoded(c)
    BY DEF NamesOf
  <2>2. PICK n \in DOMAIN lists : c \in ToSet(lists[n])
    BY <2>1
  <2>3. PICK i \in DOMAIN lists[n] : c = lists[n][i]
    BY <1>4, <2>2
  <2>4. <<n, i>> \in D /\ <<n, i>>[1] = n /\ <<n, i>>[2] = i
    BY <2>1, <2>3
  <2>5. QED
    BY <1>1, <2>1, <2>3, <2>4
<1> HIDE DEF D, S, all
<1>7. DOMAIN wfns \subseteq Nat \X Nat
  BY <1>1, <1>3 DEF D
<1>8. {wfns[x] : x \in DOMAIN wfns} = NamesOf(S)
  BY <1>1, <1>5, <1>6
<1>9. QED
  BY <1>7, <1>8 DEF wfns, S

-----------------------------------------------------------------------------
(* The identifiers of entries.                                             *)

PairsOf(E)    == UNION {VendorProducts(e) : e \in E}
PackagesOf(E) == {<<e.collection, e.package>> :
                     e \in {a \in E : Absent \notin {a.collection, a.package}}}
URLsOf(E)     == {e.url : e \in {a \in E : a.url # Absent}}
EntryNames(E) == NamesOf(UNION {ToSet(e.cpes) : e \in E})

\* Identifiers are those of a set of entries and a set of WFNs.
Holds(ids, E, W) ==
    /\ ids = [pairs |-> ids.pairs, wfns |-> ids.wfns, packages |-> ids.packages, urls |-> ids.urls]
    /\ ids.pairs = PairsOf(E)
    /\ IsMapOf(ids.wfns, W)
    /\ ids.packages = PackagesOf(E)
    /\ ids.urls = URLsOf(E)

Nothing(E, W) == W = {} /\ PairsOf(E) = {} /\ PackagesOf(E) = {} /\ URLsOf(E) = {}

\* More entries have more of everything.
LEMMA OfMoreEntries ==
    ASSUME NEW E, NEW F
    PROVE  /\ PairsOf(E \cup F) = PairsOf(E) \cup PairsOf(F)
           /\ PackagesOf(E \cup F) = PackagesOf(E) \cup PackagesOf(F)
           /\ URLsOf(E \cup F) = URLsOf(E) \cup URLsOf(F)
<1>1. PairsOf(E \cup F) = PairsOf(E) \cup PairsOf(F)
  BY DEF PairsOf
<1>2. PackagesOf(E \cup F) = PackagesOf(E) \cup PackagesOf(F)
  BY DEF PackagesOf
<1>3. URLsOf(E \cup F) = URLsOf(E) \cup URLsOf(F)
  BY DEF URLsOf
<1>4. QED
  BY <1>1, <1>2, <1>3

\* No identifiers are those of nothing.
LEMMA NoIdentifiersHold == Holds(NoIdentifiers, {}, {})
<1>1. PairsOf({}) = {} /\ PackagesOf({}) = {} /\ URLsOf({}) = {}
  BY DEF PairsOf, PackagesOf, URLsOf
<1>2. IsMapOf(NoWFNs, {})
  BY DEF IsMapOf, NoWFNs
<1>3. QED
  BY <1>1, <1>2 DEF Holds, NoIdentifiers

\* A map of WFNs is empty when there are none.
LEMMA EmptyMap ==
    ASSUME NEW map, NEW W, IsMapOf(map, W)
    PROVE  map = NoWFNs <=> W = {}
<1>1. CASE W = {}
  <2>1. DOMAIN map = {}
    BY <1>1 DEF IsMapOf
  <2>2. map = [k \in {} |-> map[k]]
    BY <2>1 DEF IsMapOf
  <2>3. QED
    BY <1>1, <2>2 DEF NoWFNs
<1>2. CASE map = NoWFNs
  <2>1. DOMAIN map = {}
    BY <1>2 DEF NoWFNs
  <2>2. QED
    BY <1>2, <2>1 DEF IsMapOf
<1>3. QED
  BY <1>1, <1>2

\* Identifiers are empty when they are those of nothing.
LEMMA EmptyIdentifiers ==
    ASSUME NEW ids, NEW E, NEW W, Holds(ids, E, W)
    PROVE  IsEmpty(ids) <=> Nothing(E, W)
<1>1. /\ ids = [pairs |-> ids.pairs, wfns |-> ids.wfns, packages |-> ids.packages, urls |-> ids.urls]
      /\ ids.pairs = PairsOf(E) /\ ids.packages = PackagesOf(E) /\ ids.urls = URLsOf(E)
      /\ ids.wfns = NoWFNs <=> W = {}
  BY EmptyMap DEF Holds
<1>2. IsEmpty(ids) <=> /\ ids.pairs = {} /\ ids.wfns = NoWFNs
                       /\ ids.packages = {} /\ ids.urls = {}
  BY <1>1 DEF IsEmpty, NoIdentifiers
<1>3. QED
  BY <1>1, <1>2 DEF Nothing

\* What the CNA or an ADP lists as affected.
LEMMA AffectedHold ==
    ASSUME NEW affected \in Seq(AffectedEntry)
    PROVE  Holds(AffectedIdentifiers(affected), ToSet(affected), EntryNames(ToSet(affected)))
<1> DEFINE E == ToSet(affected)
           lists == [i \in 1..Len(affected) |-> affected[i].cpes]
           new == AffectedIdentifiers(affected)
<1>1. /\ E = {affected[i] : i \in 1..Len(affected)}
      /\ \A i \in 1..Len(affected) : affected[i] \in AffectedEntry
  BY DEF ToSet
<1>2. lists \in Seq(Seq(CPE)) /\ DOMAIN lists = 1..Len(affected)
  BY <1>1 DEF AffectedEntry
<1>3. UNION {ToSet(lists[i]) : i \in DOMAIN lists} = UNION {ToSet(e.cpes) : e \in E}
  BY <1>1
<1>4. IsMapOf(NewUniqueWFNMapFrom(ParsedWFNs(lists)), EntryNames(E))
  <2> HIDE DEF lists, E
  <2>1. IsMapOf(NewUniqueWFNMapFrom(ParsedWFNs(lists)),
                {ParsedWFNs(lists)[x] : x \in DOMAIN ParsedWFNs(lists)})
    BY <1>2, ParsedNames, NewMapIsMapOf
  <2>2. QED
    BY <1>2, <1>3, <2>1, ParsedNames DEF EntryNames
<1>5. /\ new = [pairs |-> new.pairs, wfns |-> new.wfns, packages |-> new.packages, urls |-> new.urls]
      /\ new.pairs = PairsOf(E) /\ new.wfns = NewUniqueWFNMapFrom(ParsedWFNs(lists))
      /\ new.packages = {<<e.collection, e.package>> :
                            e \in {a \in E : a.collection # Absent /\ a.package # Absent}}
      /\ new.urls = {e.url : e \in E} \ {Absent}
  BY DEF AffectedIdentifiers, PairsOf
<1> HIDE DEF new, lists, E
<1>6. new.packages = PackagesOf(E) /\ new.urls = URLsOf(E)
  BY <1>5 DEF PackagesOf, URLsOf
<1>7. QED
  BY <1>4, <1>5, <1>6 DEF Holds, new, E

\* Merged identifiers are those of both.
LEMMA MergeHolds ==
    ASSUME NEW a, NEW b, NEW E, NEW F, NEW V, NEW W, Holds(a, E, V), Holds(b, F, W)
    PROVE  Holds(Merge(a, b), E \cup F, V \cup W)
<1> DEFINE m == Merge(a, b)
<1>1. /\ m = [pairs |-> m.pairs, wfns |-> m.wfns, packages |-> m.packages, urls |-> m.urls]
      /\ m.pairs = a.pairs \cup b.pairs /\ m.wfns = Union(a.wfns, b.wfns)
      /\ m.packages = a.packages \cup b.packages /\ m.urls = a.urls \cup b.urls
  BY DEF Merge
<1>2. IsMapOf(m.wfns, V \cup W)
  BY <1>1, UnionIsMapOf DEF Holds
<1> HIDE DEF m
<1>3. /\ PairsOf(E \cup F) = PairsOf(E) \cup PairsOf(F)
      /\ PackagesOf(E \cup F) = PackagesOf(E) \cup PackagesOf(F)
      /\ URLsOf(E \cup F) = URLsOf(E) \cup URLsOf(F)
  BY Zenon, OfMoreEntries
<1>4. /\ a.pairs = PairsOf(E) /\ a.packages = PackagesOf(E) /\ a.urls = URLsOf(E)
      /\ b.pairs = PairsOf(F) /\ b.packages = PackagesOf(F) /\ b.urls = URLsOf(F)
  BY DEF Holds
<1>5. /\ m.pairs = PairsOf(E \cup F) /\ m.packages = PackagesOf(E \cup F)
      /\ m.urls = URLsOf(E \cup F)
  BY <1>1, <1>3, <1>4
<1>6. QED
  BY <1>1, <1>2, <1>5 DEF Holds, m

-----------------------------------------------------------------------------
(* The map of identifiers.                                                 *)

\* An ID has an entry when there is something to put in it.
Entered(map, id, E, W) ==
    /\ Holds(Existing(map, id), E, W)
    /\ id \in DOMAIN map <=> ~Nothing(E, W)

\* Nothing is changed for another ID.
Others(map, new, id) ==
    \A j : j # id => /\ Existing(new, j) = Existing(map, j)
                     /\ j \in DOMAIN new <=> j \in DOMAIN map

\* An entry that is put.
LEMMA PutEnters ==
    ASSUME NEW map, NEW id, NEW ids
    PROVE  /\ Existing(Put(map, id, ids), id) = ids /\ id \in DOMAIN Put(map, id, ids)
           /\ Others(map, Put(map, id, ids), id)
<1> DEFINE new == Put(map, id, ids)
<1>1. /\ DOMAIN new = DOMAIN map \cup {id} /\ new[id] = ids
      /\ \A j \in DOMAIN map : j # id => new[j] = map[j]
  BY DEF Put
<1> HIDE DEF new
<1>2. QED
  BY <1>1 DEF Existing, Others, new

\* What has nothing adds nothing.
LEMMA NothingMore ==
    ASSUME NEW map, NEW id, NEW E, NEW W, NEW F, NEW V, Entered(map, id, E, W), Nothing(F, V)
    PROVE  Entered(map, id, E \cup F, W \cup V)
<1>1. /\ PairsOf(E \cup F) = PairsOf(E) \cup PairsOf(F)
      /\ PackagesOf(E \cup F) = PackagesOf(E) \cup PackagesOf(F)
      /\ URLsOf(E \cup F) = URLsOf(E) \cup URLsOf(F)
  BY Zenon, OfMoreEntries
<1>2. V = {} /\ PairsOf(F) = {} /\ PackagesOf(F) = {} /\ URLsOf(F) = {}
  BY DEF Nothing
<1>3. /\ PairsOf(E \cup F) = PairsOf(E) /\ PackagesOf(E \cup F) = PackagesOf(E)
      /\ URLsOf(E \cup F) = URLsOf(E) /\ W \cup V = W
  BY <1>1, <1>2
<1>4. QED
  BY <1>3 DEF Entered, Holds, Nothing

\* What has something adds something.
LEMMA SomethingMore ==
    ASSUME NEW E, NEW W, NEW F, NEW V, ~Nothing(F, V)
    PROVE  ~Nothing(E \cup F, W \cup V)
<1>1. /\ PairsOf(E \cup F) = PairsOf(E) \cup PairsOf(F)
      /\ PackagesOf(E \cup F) = PackagesOf(E) \cup PackagesOf(F)
      /\ URLsOf(E \cup F) = URLsOf(E) \cup URLsOf(F)
  BY Zenon, OfMoreEntries
<1>2. ~(V = {} /\ PairsOf(F) = {} /\ PackagesOf(F) = {} /\ URLsOf(F) = {})
  BY DEF Nothing
<1>3. ~(/\ W \cup V = {} /\ PairsOf(E \cup F) = {} /\ PackagesOf(E \cup F) = {}
        /\ URLsOf(E \cup F) = {})
  BY <1>1, <1>2
<1>4. QED
  BY <1>3 DEF Nothing

\* The affected entries of a container.
LEMMA AffectedEnters ==
    ASSUME NEW map, NEW id, NEW E, NEW W, Entered(map, id, E, W),
           NEW affected \in Seq(AffectedEntry)
    PROVE  LET new == ProcessAffectedEntries(map, id, affected)
           IN /\ Entered(new, id, E \cup ToSet(affected), W \cup EntryNames(ToSet(affected)))
              /\ Others(map, new, id)
<1> DEFINE more == AffectedIdentifiers(affected)
           F == ToSet(affected)
           V == EntryNames(F)
           new == ProcessAffectedEntries(map, id, affected)
<1>1. Holds(more, F, V)
  BY AffectedHold
<1>2. new = IF IsEmpty(more) THEN map ELSE Put(map, id, Merge(Existing(map, id), more))
  BY DEF ProcessAffectedEntries
<1> HIDE DEF more, F, V, new
<1>3. CASE Nothing(F, V)
  <2>1. new = map
    BY <1>1, <1>2, <1>3, EmptyIdentifiers
  <2>2. Entered(new, id, E \cup F, W \cup V)
    BY <1>3, <2>1, NothingMore
  <2>3. QED
    BY <2>1, <2>2 DEF Others, new, F, V
<1>4. CASE ~Nothing(F, V)
  <2>1. new = Put(map, id, Merge(Existing(map, id), more))
    BY <1>1, <1>2, <1>4, EmptyIdentifiers
  <2>2. Holds(Merge(Existing(map, id), more), E \cup F, W \cup V)
    BY <1>1, MergeHolds DEF Entered
  <2>3. ~Nothing(E \cup F, W \cup V)
    BY <1>4, SomethingMore
  <2>4. Entered(new, id, E \cup F, W \cup V) /\ Others(map, new, id)
    BY <2>1, <2>2, <2>3, PutEnters DEF Entered
  <2>5. QED
    BY <2>4 DEF new, F, V
<1>5. QED
  BY <1>3, <1>4

\* The criteria of a container.
LEMMA CriteriaEnter ==
    ASSUME NEW map, NEW id, NEW E, NEW W, Entered(map, id, E, W), NEW criteria \in Seq(CPE)
    PROVE  LET new == ProcessApplicabilityStatements(map, id, criteria)
           IN /\ Entered(new, id, E, W \cup NamesOf(ToSet(criteria)))
              /\ Others(map, new, id)
<1> DEFINE lists == <<criteria>>
           wfns == ParsedWFNs(lists)
           N == NamesOf(ToSet(criteria))
           new == ProcessApplicabilityStatements(map, id, criteria)
<1>1. lists \in Seq(Seq(CPE)) /\ DOMAIN lists = {1} /\ lists[1] = criteria
  OBVIOUS
<1> HIDE DEF lists
<1>2. UNION {ToSet(lists[i]) : i \in DOMAIN lists} = ToSet(criteria)
  BY <1>1
<1>3. DOMAIN wfns \subseteq Nat \X Nat /\ {wfns[x] : x \in DOMAIN wfns} = N
  BY <1>1, <1>2, ParsedNames
<1>4. new = IF DOMAIN wfns = {} THEN map
            ELSE Put(map, id, [Existing(map, id) EXCEPT !.wfns = AddAll(@, wfns)])
  BY DEF ProcessApplicabilityStatements, lists
<1> HIDE DEF wfns, N, new
<1>5. CASE N = {}
  <2>1. new = map
    BY <1>3, <1>4, <1>5
  <2>2. W \cup N = W
    BY <1>5
  <2>3. QED
    BY <2>1, <2>2 DEF Others, new, N
<1>6. CASE N # {}
  <2> DEFINE old == Existing(map, id)
             ids == [old EXCEPT !.wfns = AddAll(@, wfns)]
  <2>1. new = Put(map, id, ids)
    BY <1>3, <1>4, <1>6
  <2>2. Holds(old, E, W)
    BY DEF Entered
  <2> HIDE DEF old
  <2>3. IsMapOf(AddAll(old.wfns, wfns), N \cup W)
    <3>1. IsMapOf(NewUniqueWFNMapFrom(wfns), N)
      BY <1>3, NewMapIsMapOf
    <3>2. QED
      BY <2>2, <3>1, UnionIsMapOf DEF Holds, AddAll
  <2>4. N \cup W = W \cup N /\ W \cup N # {}
    BY <1>6
  <2>5. ids = [pairs |-> old.pairs, wfns |-> AddAll(old.wfns, wfns),
               packages |-> old.packages, urls |-> old.urls]
    BY <2>2 DEF Holds
  <2>6. Holds(ids, E, W \cup N)
    BY <2>2, <2>3, <2>4, <2>5 DEF Holds
  <2> HIDE DEF ids
  <2>7. ~Nothing(E, W \cup N)
    BY <2>4 DEF Nothing
  <2>8. Entered(new, id, E, W \cup N) /\ Others(map, new, id)
    BY <2>1, <2>6, <2>7, PutEnters DEF Entered
  <2>9. QED
    BY <2>8 DEF new, N
<1>7. QED
  BY <1>5, <1>6

-----------------------------------------------------------------------------
(* A record.                                                               *)

\* What the first n containers of a record name.
EntriesTo(cve, n) == UNION {ToSet(cve.containers[i].affected) : i \in 1..n}
NamesTo(cve, n) ==
    NamesOf((UNION {ToSet(e.cpes) : e \in EntriesTo(cve, n)})
            \cup (UNION {ToSet(cve.containers[i].criteria) : i \in 1..n}))

\* Names of more lists.
LEMMA NamesOfMore ==
    ASSUME NEW S, NEW T
    PROVE  NamesOf(S \cup T) = NamesOf(S) \cup NamesOf(T)
BY DEF NamesOf

\* The next container adds what it names.
LEMMA NextContainer ==
    ASSUME NEW cve \in CVE, NEW n \in 1..Len(cve.containers)
    PROVE  LET F == ToSet(cve.containers[n].affected)
           IN /\ EntriesTo(cve, n) = EntriesTo(cve, n - 1) \cup F
              /\ NamesTo(cve, n) = (NamesTo(cve, n - 1) \cup EntryNames(F))
                                       \cup NamesOf(ToSet(cve.containers[n].criteria))
<1> DEFINE F == ToSet(cve.containers[n].affected)
           C == ToSet(cve.containers[n].criteria)
           Criteria(k) == UNION {ToSet(cve.containers[i].criteria) : i \in 1..k}
           Names(E) == UNION {ToSet(e.cpes) : e \in E}
<1>1. n \in Nat /\ 1..n = (1..(n - 1)) \cup {n}
  BY DEF CVE
<1>2. EntriesTo(cve, n) = EntriesTo(cve, n - 1) \cup F
  BY <1>1 DEF EntriesTo
<1>3. Criteria(n) = Criteria(n - 1) \cup C
  BY <1>1
<1>4. Names(EntriesTo(cve, n - 1) \cup F) = Names(EntriesTo(cve, n - 1)) \cup Names(F)
  OBVIOUS
<1>5. /\ NamesTo(cve, n) = NamesOf(Names(EntriesTo(cve, n)) \cup Criteria(n))
      /\ NamesTo(cve, n - 1) = NamesOf(Names(EntriesTo(cve, n - 1)) \cup Criteria(n - 1))
      /\ EntryNames(F) = NamesOf(Names(F))
  BY Zenon DEF NamesTo, EntryNames
<1> HIDE DEF F, C, Criteria, Names
<1>6. Names(EntriesTo(cve, n)) \cup Criteria(n)
        = ((Names(EntriesTo(cve, n - 1)) \cup Criteria(n - 1)) \cup Names(F)) \cup C
  BY <1>2, <1>3, <1>4
<1> DEFINE before == Names(EntriesTo(cve, n - 1)) \cup Criteria(n - 1)
<1>7. NamesTo(cve, n) = (NamesTo(cve, n - 1) \cup EntryNames(F)) \cup NamesOf(C)
  <2>1. NamesOf((before \cup Names(F)) \cup C) = NamesOf(before \cup Names(F)) \cup NamesOf(C)
    BY NamesOfMore
  <2>2. NamesOf(before \cup Names(F)) = NamesOf(before) \cup NamesOf(Names(F))
    BY NamesOfMore
  <2>3. QED
    BY Zenon, <1>5, <1>6, <2>1, <2>2
<1>8. QED
  BY <1>2, <1>7 DEF F, C

\* A container of a record is processed.
LEMMA ContainerEnters ==
    ASSUME NEW cve \in CVE, NEW n \in 1..Len(cve.containers), NEW map,
           Entered(map, cve.id, EntriesTo(cve, n - 1), NamesTo(cve, n - 1))
    PROVE  LET new == ProcessContainer(map, cve.id, cve.containers[n])
           IN /\ Entered(new, cve.id, EntriesTo(cve, n), NamesTo(cve, n))
              /\ Others(map, new, cve.id)
<1> DEFINE container == cve.containers[n]
           mid == ProcessAffectedEntries(map, cve.id, container.affected)
           new == ProcessContainer(map, cve.id, container)
           F == ToSet(container.affected)
           E == EntriesTo(cve, n - 1)
           W == NamesTo(cve, n - 1)
<1>1. container.affected \in Seq(AffectedEntry) /\ container.criteria \in Seq(CPE)
  <2> DEFINE Container == [affected : Seq(AffectedEntry), criteria : Seq(CPE)]
             containers == cve.containers
  <2>1. containers \in Seq(Container) /\ n \in 1..Len(containers)
    BY DEF CVE
  <2> HIDE DEF Container, containers
  <2>2. containers[n] \in Container
    BY <2>1
  <2>3. QED
    BY <2>2 DEF Container, containers
<1>2. new = ProcessApplicabilityStatements(mid, cve.id, container.criteria)
  BY DEF ProcessContainer
<1>3. /\ EntriesTo(cve, n) = E \cup F
      /\ NamesTo(cve, n) = (W \cup EntryNames(F)) \cup NamesOf(ToSet(container.criteria))
  BY NextContainer
<1>4. Entered(map, cve.id, E, W)
  OBVIOUS
<1> HIDE DEF container, new, E, W
<1>5. Entered(mid, cve.id, E \cup F, W \cup EntryNames(F)) /\ Others(map, mid, cve.id)
  BY <1>1, <1>4, AffectedEnters
<1> HIDE DEF mid, F
<1>6. /\ Entered(new, cve.id, E \cup F,
                 (W \cup EntryNames(F)) \cup NamesOf(ToSet(container.criteria)))
      /\ Others(mid, new, cve.id)
  BY <1>1, <1>2, <1>5, CriteriaEnter
<1>7. Others(map, new, cve.id)
  BY <1>5, <1>6 DEF Others
<1>8. QED
  BY <1>3, <1>6, <1>7 DEF new, container

\* The map after each of the first n containers.
AreStates(f, map, cve, n) ==
    f = [k \in 0..n |-> IF k = 0 THEN map
                        ELSE ProcessContainer(f[k - 1], cve.id, cve.containers[k])]

\* There are such maps for every number of containers.
LEMMA StatesExist ==
    ASSUME NEW map, NEW cve \in CVE, NEW n \in Nat
    PROVE  \E f : AreStates(f, map, cve, n)
<1> DEFINE T == {k \in Nat : ~ \E f : AreStates(f, map, cve, k)}
<1>1. ASSUME T # {}
      PROVE  FALSE
  <2>1. PICK k \in T : \A j \in T : k <= j
    BY <1>1, LeastNumber
  <2>2. CASE k = 0
    <3> DEFINE f == [j \in 0..0 |-> map]
    <3>1. AreStates(f, map, cve, 0)
      BY DEF AreStates
    <3>2. QED
      BY <2>2, <3>1
  <2>3. CASE k # 0
    <3>1. k \in Nat /\ k - 1 \in Nat /\ k - 1 \notin T
      BY <2>1, <2>3
    <3>2. PICK g : AreStates(g, map, cve, k - 1)
      BY <3>1
    <3> DEFINE f == [j \in 0..k |-> IF j = k THEN ProcessContainer(g[k - 1], cve.id, cve.containers[k])
                                    ELSE g[j]]
    <3>3. \A j \in 0..(k - 1) : g[j] = IF j = 0 THEN map
                                       ELSE ProcessContainer(g[j - 1], cve.id, cve.containers[j])
      BY <3>2 DEF AreStates
    <3>4. /\ \A j \in 0..(k - 1) : j \in 0..k /\ j # k /\ f[j] = g[j]
          /\ k \in 0..k /\ f[k] = ProcessContainer(g[k - 1], cve.id, cve.containers[k])
          /\ f = [j \in 0..k |-> f[j]]
      BY <3>1
    <3> HIDE DEF f
    <3>5. \A j \in 0..k : f[j] = IF j = 0 THEN map
                                 ELSE ProcessContainer(f[j - 1], cve.id, cve.containers[j])
      <4>1. ASSUME NEW j \in 0..k
            PROVE  f[j] = IF j = 0 THEN map
                          ELSE ProcessContainer(f[j - 1], cve.id, cve.containers[j])
        <5>1. CASE j = k
          <6>1. k - 1 \in 0..(k - 1)
            BY <3>1
          <6>2. f[k - 1] = g[k - 1]
            BY <3>4, <6>1
          <6>3. QED
            BY <2>3, <3>4, <5>1, <6>2
        <5>2. CASE j # k
          <6>1. j \in 0..(k - 1) /\ (j # 0 => j - 1 \in 0..(k - 1))
            BY <3>1, <5>2
          <6>2. f[j] = g[j] /\ (j # 0 => f[j - 1] = g[j - 1])
            BY <3>4, <6>1
          <6>3. QED
            BY <3>3, <6>1, <6>2
        <5>3. QED
          BY <5>1, <5>2
      <4>2. QED
        BY <4>1
    <3>6. AreStates(f, map, cve, k)
      BY <3>4, <3>5 DEF AreStates
    <3>7. QED
      BY <2>1, <3>6
  <2>4. QED
    BY <2>2, <2>3
<1>2. QED
  BY <1>1

\* ProcessContainers has them.
LEMMA ProcessedStates ==
    ASSUME NEW map, NEW cve \in CVE
    PROVE  AreStates(ProcessContainers(map, cve), map, cve, Len(cve.containers))
<1> DEFINE L == Len(cve.containers)
<1>1. L \in Nat
  BY DEF CVE
<1>2. \E f : AreStates(f, map, cve, L)
  BY <1>1, StatesExist
<1>3. ProcessContainers(map, cve) = CHOOSE f : AreStates(f, map, cve, L)
  BY Zenon DEF ProcessContainers, AreStates
<1> HIDE DEF L
<1>4. QED
  BY <1>2, <1>3 DEF L

\* Processing a record collects all it names, and nothing for another one.
LEMMA ProcessedRecord ==
    ASSUME NEW map, NEW cve \in CVE, cve.id \notin DOMAIN map
    PROVE  LET new == ProcessCVE(map, cve)
               L   == Len(cve.containers)
           IN /\ Entered(new, cve.id, EntriesTo(cve, L), NamesTo(cve, L))
              /\ Others(map, new, cve.id)
<1> DEFINE L == Len(cve.containers)
           f == ProcessContainers(map, cve)
           Done(k) == /\ Entered(f[k], cve.id, EntriesTo(cve, k), NamesTo(cve, k))
                      /\ Others(map, f[k], cve.id)
           T == {k \in Nat : k <= L /\ ~Done(k)}
<1>1. L \in Nat
  BY DEF CVE
<1>2. AreStates(f, map, cve, L)
  BY ProcessedStates
<1> HIDE DEF f
<1>3. f[0] = map /\ \A k \in 1..L : f[k] = ProcessContainer(f[k - 1], cve.id, cve.containers[k])
  BY <1>1, <1>2 DEF AreStates
<1>4. Done(0)
  <2>1. EntriesTo(cve, 0) = {}
    BY DEF EntriesTo
  <2>2. NamesTo(cve, 0) = {}
    BY <2>1 DEF NamesTo, NamesOf
  <2>3. Existing(map, cve.id) = NoIdentifiers
    BY DEF Existing
  <2>4. Nothing({}, {})
    BY DEF Nothing, PairsOf, PackagesOf, URLsOf
  <2>5. Entered(map, cve.id, {}, {})
    BY <2>3, <2>4, NoIdentifiersHold DEF Entered
  <2>6. QED
    BY <1>3, <2>1, <2>2, <2>5 DEF Others
<1>5. ASSUME NEW k \in 1..L, Done(k - 1)
      PROVE  Done(k)
  <2>1. f[k] = ProcessContainer(f[k - 1], cve.id, cve.containers[k])
    BY <1>3
  <2>2. Entered(f[k], cve.id, EntriesTo(cve, k), NamesTo(cve, k)) /\ Others(f[k - 1], f[k], cve.id)
    BY <1>5, <2>1, ContainerEnters
  <2>3. QED
    BY <1>5, <2>2 DEF Others
<1> HIDE DEF Done, L
<1>6. T = {}
  <2>1. ASSUME T # {}
        PROVE  FALSE
    <3>1. PICK k \in T : \A j \in T : k <= j
      BY <2>1, LeastNumber
    <3>2. k # 0 /\ k \in 1..L /\ k - 1 \in Nat /\ k - 1 <= L /\ ~(k <= k - 1)
      BY <1>1, <1>4, <3>1
    <3>3. Done(k - 1)
      BY <3>1, <3>2
    <3>4. QED
      BY <1>5, <3>1, <3>2, <3>3
  <2>2. QED
    BY <2>1
<1>7. Done(L)
  BY <1>1, <1>6
<1>8. QED
  BY <1>7 DEF Done, L, f, ProcessCVE

-----------------------------------------------------------------------------
(* What that means for the statement of completeness.                      *)

\* A record's entries and names are those of all its containers.
LEMMA AllContainers ==
    ASSUME NEW cve \in CVE
    PROVE  /\ EntriesTo(cve, Len(cve.containers)) = AffectedEntries(cve)
           /\ NamesTo(cve, Len(cve.containers)) = NamedWFNs(cve)
<1>1. DOMAIN cve.containers = 1..Len(cve.containers)
  BY DEF CVE
<1>2. EntriesTo(cve, Len(cve.containers)) = AffectedEntries(cve)
  BY <1>1 DEF EntriesTo, AffectedEntries
<1>3. QED
  BY <1>1, <1>2 DEF NamesTo, NamedWFNs, NamesOf

\* Identifiers that are those of a record hold all it names.
LEMMA HeldIsAll ==
    ASSUME NEW cve \in CVE, NEW ids, Holds(ids, AffectedEntries(cve), NamedWFNs(cve))
    PROVE  HoldsAll(ids, cve)
<1> DEFINE E == AffectedEntries(cve)
           W == NamedWFNs(cve)
           map == ids.wfns
<1>1. ids.pairs = PairsOf(E) /\ IsMapOf(map, W) /\ ids.packages = PackagesOf(E) /\ ids.urls = URLsOf(E)
  BY DEF Holds
<1>2. Values(map) \subseteq W
  BY <1>1 DEF IsMapOf, Values
<1>3. ASSUME NEW w \in W
      PROVE  Cardinality({k \in DOMAIN map : WFNKey(map[k]) = WFNKey(w)}) = 1
  <2>1. {k \in DOMAIN map : WFNKey(map[k]) = WFNKey(w)} = {WFNKey(w)}
    BY <1>1, <1>3 DEF IsMapOf
  <2>2. QED
    BY <2>1, FS_Singleton
<1> HIDE DEF E, W, map
<1>4. QED
  BY <1>1, <1>2, <1>3 DEF HoldsAll, E, W, map, PairsOf, PackagesOf, URLsOf

\* Nothing to put in an entry is a record that names nothing.
LEMMA NothingIsNamed ==
    ASSUME NEW cve \in CVE
    PROVE  Nothing(AffectedEntries(cve), NamedWFNs(cve)) <=> NamesNothing(cve)
<1> DEFINE E == AffectedEntries(cve)
<1>1. PairsOf(E) = {} <=> \A e \in E : VendorProducts(e) = {}
  BY DEF PairsOf
<1>2. PackagesOf(E) = {} <=> \A e \in E : Absent \in {e.collection, e.package}
  BY DEF PackagesOf
<1>3. URLsOf(E) = {} <=> \A e \in E : e.url = Absent
  BY DEF URLsOf
<1> HIDE DEF E
<1>4. QED
  BY <1>1, <1>2, <1>3 DEF Nothing, NamesNothing, E

\* Processing a record that has no entry yet gives it one that holds all it names, unless that is
\* nothing, and leaves the others as they are.
THEOREM RecordIsComplete ==
    ASSUME NEW map, NEW cve \in CVE, cve.id \notin DOMAIN map
    PROVE  LET new == ProcessCVE(map, cve)
           IN /\ cve.id \in DOMAIN new <=> ~NamesNothing(cve)
              /\ HoldsAll(Existing(new, cve.id), cve)
              /\ \A id : id # cve.id => /\ Existing(new, id) = Existing(map, id)
                                        /\ id \in DOMAIN new <=> id \in DOMAIN map
<1> DEFINE new == ProcessCVE(map, cve)
<1>1. Entered(new, cve.id, AffectedEntries(cve), NamedWFNs(cve)) /\ Others(map, new, cve.id)
  BY ProcessedRecord, AllContainers
<1> HIDE DEF new
<1>2. HoldsAll(Existing(new, cve.id), cve)
  BY <1>1, HeldIsAll DEF Entered
<1>3. cve.id \in DOMAIN new <=> ~NamesNothing(cve)
  BY <1>1, NothingIsNamed DEF Entered
<1>4. QED
  BY <1>1, <1>2, <1>3 DEF Others, new
=============================================================================

---------------------------- MODULE ServingProofs ----------------------------
(***************************************************************************)
(* Proofs about what is served: first about the pages of the web UI, for   *)
(* any modules, versions, services, limits and number of transactions,     *)
(* then about the process that serves them, for every set of requests,     *)
(* every mix of what they need and every size of the pool.                 *)
(***************************************************************************)
EXTENDS Pages, Server, FiniteSetTheorems, WellFoundedInduction, TLAPS

-----------------------------------------------------------------------------
(* Sequences of any values. *)

IsSeq(s) == s \in Seq(ToSet(s))

LEMMA SeqFacts ==
  ASSUME NEW s, IsSeq(s)
  PROVE  /\ Len(s) \in Nat /\ DOMAIN s = 1 .. Len(s)
         /\ \A i \in 1 .. Len(s) : s[i] \in ToSet(s)
         /\ \A x \in ToSet(s) : \E i \in 1 .. Len(s) : s[i] = x
         /\ s = <<>> <=> ToSet(s) = {}
         /\ s = <<>> <=> Len(s) = 0
BY DEF IsSeq, ToSet

\* A function on the first n numbers.
IsList(f, n) == f = [i \in 1 .. n |-> f[i]]

LEMMA SeqFrom ==
  ASSUME NEW n \in Nat, NEW f, IsList(f, n)
  PROVE  IsSeq(f) /\ Len(f) = n /\ ToSet(f) = {f[i] : i \in 1 .. n}
<1>1. f \in [1 .. n -> ToSet(f)]
  BY DEF ToSet, IsList
<1>2. f \in Seq(ToSet(f)) /\ Len(f) = n
  BY <1>1
<1> QED BY <1>1, <1>2 DEF IsSeq, ToSet

LEMMA EmptySet ==
  ASSUME NEW s, s = <<>>
  PROVE  ToSet(s) = {}
BY DEF ToSet

LEMMA EmptyLen == \A s : s = <<>> => s \in Seq({}) /\ Len(s) = 0
OBVIOUS

LEMMA NoElements == \A s : s = <<>> => IsSeq(s) /\ ToSet(s) = {} /\ Len(s) = 0
<1> SUFFICES ASSUME NEW s, s = <<>> PROVE IsSeq(s) /\ ToSet(s) = {} /\ Len(s) = 0
  OBVIOUS
<1>1. ToSet(s) = {}
  BY EmptySet
<1>2. s \in Seq({}) /\ Len(s) = 0
  BY EmptyLen
<1> QED BY <1>1, <1>2 DEF IsSeq

\* A sequence and the set of its elements.
Reads(s, S) == IsSeq(s) /\ ToSet(s) = S

LEMMA Reads1 == ASSUME NEW a PROVE Reads(<<a>>, {a}) /\ Len(<<a>>) = 1
BY DEF Reads, IsSeq, ToSet

LEMMA Reads2 == ASSUME NEW a, NEW b PROVE Reads(<<a, b>>, {a, b}) /\ Len(<<a, b>>) = 2
BY DEF Reads, IsSeq, ToSet

LEMMA Reads3 ==
  ASSUME NEW a, NEW b, NEW c PROVE Reads(<<a, b, c>>, {a, b, c}) /\ Len(<<a, b, c>>) = 3
BY DEF Reads, IsSeq, ToSet

LEMMA Reads4 ==
  ASSUME NEW a, NEW b, NEW c, NEW d
  PROVE  Reads(<<a, b, c, d>>, {a, b, c, d}) /\ Len(<<a, b, c, d>>) = 4
BY DEF Reads, IsSeq, ToSet

LEMMA AppendSeq ==
  ASSUME NEW s, IsSeq(s), NEW x
  PROVE  /\ IsSeq(Append(s, x)) /\ ToSet(Append(s, x)) = ToSet(s) \cup {x}
         /\ Len(Append(s, x)) = Len(s) + 1
         /\ \A i \in 1 .. Len(s) : Append(s, x)[i] = s[i]
         /\ Append(s, x)[Len(s) + 1] = x
<1>1. PICK t : t = Append(s, x)
  OBVIOUS
<1>2. s \in Seq(ToSet(s) \cup {x}) /\ Len(s) \in Nat
  BY DEF IsSeq
<1>3. /\ t \in Seq(ToSet(s) \cup {x}) /\ Len(t) = Len(s) + 1
      /\ \A i \in 1 .. Len(s) : t[i] = s[i]
      /\ t[Len(s) + 1] = x
  BY <1>1, <1>2
<1>4. ToSet(t) = ToSet(s) \cup {x}
  <2>1. DOMAIN s = 1 .. Len(s) /\ DOMAIN t = 1 .. Len(s) + 1
    BY <1>2, <1>3
  <2>2. \A i \in 1 .. Len(s) + 1 : i \in 1 .. Len(s) \/ i = Len(s) + 1
    BY <1>2
  <2>3. ToSet(s) \subseteq ToSet(t) /\ x \in ToSet(t)
    BY <1>2, <1>3, <2>1 DEF ToSet
  <2>4. ToSet(t) \subseteq ToSet(s) \cup {x}
    BY <1>3, <2>1, <2>2 DEF ToSet
  <2> QED BY <2>3, <2>4
<1> QED BY <1>1, <1>3, <1>4 DEF IsSeq

LEMMA ConcatSeq ==
  ASSUME NEW a, NEW b, IsSeq(a), IsSeq(b)
  PROVE  /\ IsSeq(a \o b) /\ ToSet(a \o b) = ToSet(a) \cup ToSet(b)
         /\ Len(a \o b) = Len(a) + Len(b)
         /\ \A i \in 1 .. Len(a) : (a \o b)[i] = a[i]
         /\ \A i \in 1 .. Len(b) : (a \o b)[Len(a) + i] = b[i]
<1>1. PICK t, R : t = a \o b /\ R = ToSet(a) \cup ToSet(b)
  OBVIOUS
<1>2. a \in Seq(R) /\ b \in Seq(R) /\ Len(a) \in Nat /\ Len(b) \in Nat
  BY <1>1 DEF IsSeq
<1>3. /\ t \in Seq(R) /\ Len(t) = Len(a) + Len(b)
      /\ \A i \in 1 .. Len(t) : t[i] = IF i <= Len(a) THEN a[i] ELSE b[i - Len(a)]
  BY <1>1, <1>2
<1>4. \A i \in 1 .. Len(a) : i \in 1 .. Len(t) /\ t[i] = a[i]
  BY <1>2, <1>3
<1>5. \A i \in 1 .. Len(b) : Len(a) + i \in 1 .. Len(t) /\ t[Len(a) + i] = b[i]
  <2> TAKE i \in 1 .. Len(b)
  <2>1. Len(a) + i \in 1 .. Len(t) /\ ~ (Len(a) + i <= Len(a)) /\ Len(a) + i - Len(a) = i
    BY <1>2, <1>3
  <2> QED BY <1>3, <2>1
<1>6. ToSet(t) = R
  <2>1. DOMAIN a = 1 .. Len(a) /\ DOMAIN b = 1 .. Len(b) /\ DOMAIN t = 1 .. Len(t)
    BY <1>2, <1>3
  <2>2. ToSet(t) \subseteq R
    BY <1>3, <2>1 DEF ToSet
  <2>3. \A x \in ToSet(a) : x \in ToSet(t)
    BY <1>4, <2>1 DEF ToSet
  <2>4. \A x \in ToSet(b) : x \in ToSet(t)
    BY <1>5, <2>1 DEF ToSet
  <2> QED BY <1>1, <2>2, <2>3, <2>4
<1> QED BY <1>1, <1>3, <1>4, <1>5, <1>6 DEF IsSeq

LEMMA TailSeq ==
  ASSUME NEW s, IsSeq(s), s # <<>>
  PROVE  /\ IsSeq(Tail(s)) /\ ToSet(s) = {Head(s)} \cup ToSet(Tail(s))
         /\ Len(Tail(s)) = Len(s) - 1 /\ Len(s) \in Nat \ {0} /\ Head(s) = s[1]
         /\ \A i \in 1 .. Len(s) - 1 : Tail(s)[i] = s[i + 1]
<1>1. PICK t : t = Tail(s)
  OBVIOUS
<1>2. /\ s \in Seq(ToSet(s)) /\ Len(s) \in Nat \ {0} /\ Head(s) = s[1]
  BY DEF IsSeq
<1>3. /\ t \in Seq(ToSet(s)) /\ Len(t) = Len(s) - 1
      /\ \A i \in 1 .. Len(s) - 1 : t[i] = s[i + 1]
  BY <1>1, <1>2
<1>4. DOMAIN s = 1 .. Len(s) /\ DOMAIN t = 1 .. Len(s) - 1
  BY <1>2, <1>3
<1>5. t \in Seq(ToSet(t))
  BY <1>3 DEF ToSet
<1>6. ToSet(s) = {s[1]} \cup ToSet(t)
  <2>1. ToSet(t) \subseteq ToSet(s) /\ s[1] \in ToSet(s)
    BY <1>2, <1>3, <1>4 DEF ToSet
  <2>2. ASSUME NEW i \in 1 .. Len(s), i # 1 PROVE s[i] \in ToSet(t)
    <3>1. i - 1 \in 1 .. Len(s) - 1 /\ t[i - 1] = s[i]
      BY <1>2, <1>3, <2>2
    <3> QED BY <1>4, <3>1 DEF ToSet
  <2>3. ToSet(s) \subseteq {s[1]} \cup ToSet(t)
    BY <1>4, <2>2 DEF ToSet
  <2> QED BY <2>1, <2>3
<1> QED BY <1>1, <1>2, <1>3, <1>5, <1>6 DEF IsSeq

-----------------------------------------------------------------------------
(* Sorting. *)

\* The values of a function on a finite set are finitely many.
LEMMA FiniteImage ==
  ASSUME NEW D, IsFiniteSet(D), NEW f
  PROVE  IsFiniteSet({f[x] : x \in D})
<1>1. PICK T : T = {f[x] : x \in D}
  OBVIOUS
<1>2. PICK g : g = [x \in D |-> f[x]]
  OBVIOUS
<1>3. g \in Surjection(D, T)
  BY <1>1, <1>2 DEF Surjection
<1> QED BY <1>1, <1>3, FS_Surjection

LEMMA ModulesFinite == IsFiniteSet(Modules)
<1>1. Len(ModuleNames) \in Nat /\ DOMAIN ModuleNames = 1 .. Len(ModuleNames)
  BY TablesAssumption
<1>2. IsFiniteSet(1 .. Len(ModuleNames))
  BY <1>1, FS_Interval
<1> QED BY <1>1, <1>2, FiniteImage DEF Modules, ToSet

Before(rows, at, row) == {x \in rows : at[x] > at[row]}

\* The number of rows before it tells a row: as many as there are rows.
LEMMA Ranks ==
  ASSUME NEW rows, IsFiniteSet(rows), NEW at, \A x \in rows : at[x] \in Int,
         \A x, y \in rows : at[x] = at[y] => x = y,
         NEW rank, rank = [row \in rows |-> Cardinality(Before(rows, at, row))]
  PROVE  /\ Cardinality(rows) \in Nat
         /\ \A row \in rows : rank[row] \in 0 .. Cardinality(rows) - 1
         /\ \A x, y \in rows : at[x] > at[y] => rank[x] < rank[y]
         /\ \A i \in 0 .. Cardinality(rows) - 1 : \E row \in rows : rank[row] = i
<1>1. Cardinality(rows) \in Nat
  BY FS_CardinalityType
<1>2. \A row \in rows : IsFiniteSet(Before(rows, at, row)) /\ rank[row] \in Nat
  <2> TAKE row \in rows
  <2>1. Before(rows, at, row) \in SUBSET rows
    BY DEF Before
  <2>2. IsFiniteSet(Before(rows, at, row))
    BY <2>1, FS_Subset
  <2> QED BY <2>2, FS_CardinalityType
<1>3. ASSUME NEW x \in rows, NEW y \in rows, at[x] > at[y] PROVE rank[x] < rank[y]
  <2>1. PICK A, B : A = Before(rows, at, x) /\ B = Before(rows, at, y)
    OBVIOUS
  <2>2. A \in SUBSET B
    BY <1>3, <2>1 DEF Before
  <2>3. A # B
    BY <1>3, <2>1 DEF Before
  <2>4. Cardinality(A) <= Cardinality(B) /\ Cardinality(A) # Cardinality(B)
    BY <1>2, <2>1, <2>2, <2>3, FS_Subset
  <2>5. rank[x] = Cardinality(A) /\ rank[y] = Cardinality(B)
    BY <2>1
  <2> QED BY <1>2, <2>4, <2>5
<1>4. ASSUME NEW row \in rows PROVE rank[row] \in 0 .. Cardinality(rows) - 1
  <2>1. PICK A : A = Before(rows, at, row)
    OBVIOUS
  <2>2. A \in SUBSET rows /\ row \notin A
    BY <2>1 DEF Before
  <2>3. Cardinality(A) <= Cardinality(rows) /\ Cardinality(A) # Cardinality(rows)
    BY <2>2, FS_Subset
  <2>4. rank[row] = Cardinality(A)
    BY <2>1
  <2> QED BY <1>1, <1>2, <2>3, <2>4
<1>5. PICK T : T = 0 .. Cardinality(rows) - 1
  OBVIOUS
<1>6. IsFiniteSet(T) /\ Cardinality(T) = Cardinality(rows)
  BY <1>1, <1>5, FS_Interval
<1>7. rank \in Injection(rows, T)
  <2>1. rank \in [rows -> T]
    BY <1>4, <1>5
  <2>2. \A x, y \in rows : rank[x] = rank[y] => x = y
    <3> TAKE x, y \in rows
    <3>1. at[x] > at[y] \/ at[y] > at[x] \/ at[x] = at[y]
      OBVIOUS
    <3>2. rank[x] = rank[y] => ~ (rank[x] < rank[y]) /\ ~ (rank[y] < rank[x])
      BY <1>2
    <3> QED BY <1>3, <3>1, <3>2
  <2> QED BY <2>1, <2>2 DEF Injection, IsInjective
<1>8. rank \in Surjection(rows, T)
  BY <1>6, <1>7, FS_Injection
<1>9. \A i \in T : \E row \in rows : rank[row] = i
  BY <1>8 DEF Surjection
<1> QED BY <1>1, <1>3, <1>4, <1>5, <1>9

\* What a sorted list is: its length, its order, and which rows are on it.
LEMMA SortedFacts ==
  ASSUME NEW rows, IsFiniteSet(rows), NEW at, \A x \in rows : at[x] \in Int,
         \A x, y \in rows : at[x] = at[y] => x = y,
         NEW limit \in Nat, NEW s, s = Sorted(rows, at, limit)
  PROVE  /\ IsSeq(s) /\ ToSet(s) \subseteq rows
         /\ Len(s) = IF Cardinality(rows) < limit THEN Cardinality(rows) ELSE limit
         /\ \A i, j \in 1 .. Len(s) : i < j => at[s[i]] > at[s[j]]
         /\ \A row \in rows : row \in ToSet(s) \/ Cardinality(Before(rows, at, row)) >= limit
         /\ limit # 0 => \A row \in rows : s # <<>> /\ at[s[1]] >= at[row]
<1>1. PICK rank : rank = [row \in rows |-> Cardinality(Before(rows, at, row))]
  OBVIOUS
<1>2. PICK n : n = IF Cardinality(rows) < limit THEN Cardinality(rows) ELSE limit
  OBVIOUS
<1>3. /\ Cardinality(rows) \in Nat
      /\ \A row \in rows : rank[row] \in 0 .. Cardinality(rows) - 1
      /\ \A x, y \in rows : at[x] > at[y] => rank[x] < rank[y]
      /\ \A i \in 0 .. Cardinality(rows) - 1 : \E row \in rows : rank[row] = i
  BY <1>1, Ranks
<1>4. n \in Nat /\ n <= Cardinality(rows) /\ n <= limit
  BY <1>2, <1>3
<1>5. s = [i \in 1 .. n |-> CHOOSE row \in rows : Cardinality({x \in rows : at[x] > at[row]}) = i - 1]
  BY <1>2 DEF Sorted
<1>6. \A i \in 1 .. n : s[i] \in rows /\ rank[s[i]] = i - 1
  <2> TAKE i \in 1 .. n
  <2>1. i - 1 \in 0 .. Cardinality(rows) - 1
    BY <1>3, <1>4
  <2>2. \E row \in rows : rank[row] = i - 1
    BY <1>3, <2>1
  <2>3. \A row \in rows : rank[row] = Cardinality({x \in rows : at[x] > at[row]})
    BY <1>1 DEF Before
  <2>4. \E row \in rows : Cardinality({x \in rows : at[x] > at[row]}) = i - 1
    BY <2>2, <2>3
  <2>5. s[i] \in rows /\ Cardinality({x \in rows : at[x] > at[s[i]]}) = i - 1
    BY <1>5, <2>4
  <2> QED BY <2>3, <2>5
<1>7. IsSeq(s) /\ Len(s) = n /\ ToSet(s) = {s[i] : i \in 1 .. n}
  <2>1. IsList(s, n)
    BY <1>5 DEF IsList
  <2> QED BY <1>4, <2>1, SeqFrom
<1>8. ToSet(s) \subseteq rows
  BY <1>6, <1>7
<1>9. ASSUME NEW i \in 1 .. n, NEW j \in 1 .. n, i < j PROVE at[s[i]] > at[s[j]]
  <2>1. /\ s[i] \in rows /\ s[j] \in rows /\ rank[s[i]] = i - 1 /\ rank[s[j]] = j - 1
    BY <1>6
  <2>2. at[s[i]] # at[s[j]] /\ ~ (at[s[j]] > at[s[i]])
    BY <1>3, <1>4, <1>9, <2>1
  <2> QED BY <2>1, <2>2
<1>10. ASSUME NEW row \in rows, rank[row] < limit PROVE row \in ToSet(s)
  <2>1. rank[row] \in 0 .. Cardinality(rows) - 1
    BY <1>3
  <2>2. PICK i : i = rank[row] + 1 /\ i \in 1 .. n
    BY <1>2, <1>3, <1>10, <2>1
  <2>3. s[i] \in rows /\ rank[s[i]] = rank[row]
    BY <1>6, <2>1, <2>2
  <2>4. ~ (at[s[i]] > at[row]) /\ ~ (at[row] > at[s[i]])
    BY <1>3, <2>1, <2>3
  <2>5. s[i] = row
    BY <2>3, <2>4
  <2> QED BY <1>7, <2>2, <2>5
<1>11. \A row \in rows : row \in ToSet(s) \/ Cardinality(Before(rows, at, row)) >= limit
  <2> TAKE row \in rows
  <2>1. rank[row] = Cardinality(Before(rows, at, row)) /\ rank[row] \in Int
    BY <1>1, <1>3
  <2> QED BY <1>10, <2>1
<1>12. ASSUME limit # 0, NEW row \in rows PROVE s # <<>> /\ at[s[1]] >= at[row]
  <2>1. n # 0
    BY <1>2, <1>3, <1>12
  <2>2. 1 \in 1 .. n
    BY <1>4, <2>1
  <2>3. s[1] \in rows /\ rank[s[1]] = 0 /\ rank[row] \in Nat
    BY <1>3, <1>6, <2>2
  <2>4. ~ (at[row] > at[s[1]])
    BY <1>3, <2>3
  <2>5. s # <<>>
    BY <1>7, <2>1
  <2> QED BY <2>3, <2>4, <2>5
<1> QED BY <1>2, <1>7, <1>8, <1>9, <1>11, <1>12

-----------------------------------------------------------------------------
(* What holds of the tables after every transaction. *)

HasVersion(t, mv) == \E v \in t.versions : v.id = mv
HasRequest(t, id) == \E q \in t.requests : q.report = id

\* A version is stored with all its rows, and ids and the times of a module's
\* versions tell them apart.
VersionsOK(t) ==
  /\ t.modules \subseteq Modules
  /\ t.versions \subseteq VersionRecord /\ IsFiniteSet(t.versions)
  /\ \A v \in t.versions :
       /\ v.id[1] \in t.modules /\ v.id \in t.configs /\ v.id \in t.metadata
       /\ \A k \in Kinds : [version |-> v.id, kind |-> k] \in t.artifacts
  /\ \A v, w \in t.versions :
       v.id = w.id \/ (v.id[1] = w.id[1] /\ v.createdAt = w.createdAt) => v = w
  /\ \A a \in t.artifacts : a.kind \in Kinds

EdgesOK(t) ==
  \A e \in t.edges :
    /\ e.source \in Sources
    /\ \A k \in Sources : [consumer |-> e.consumer, provider |-> e.provider, source |-> k] \in t.edges

\* The changes of a report are numbered up to their count.
ReportsOK(t) ==
  /\ t.reports \subseteq ReportRecord /\ IsFiniteSet(t.reports)
  /\ \A r \in t.reports : r.id \in 1 .. Cardinality(t.reports) /\ r.base[1] \in t.modules
  /\ \A r, s \in t.reports : r.id = s.id \/ r.createdAt = s.createdAt => r = s
  /\ \A c \in t.changes : c.report \in 1 .. Cardinality(t.reports)
  /\ \A r \in t.reports : {c \in t.changes : c.report = r.id} =
                          {[report |-> r.id, number |-> i] : i \in 1 .. r.count}

RequirementsOf(t, id) == {q \in t.requirements : q.report = id}
ApprovedOf(requirements) == {q \in requirements : q.status = "approved"}

\* The requirements bear out what the row of the request says.
Backed(q, requirements) ==
  /\ q.status = "approved" => \A r \in requirements : r.status = "approved"
  /\ q.status = "rejected" => \E r \in requirements : r.status = "rejected"
  /\ q.received <= Cardinality(ApprovedOf(requirements))

DecisionMade(t, q) ==
  [report |-> q.report, target |-> q.target, decision |-> q.status] \in t.decisions
DecisionAudited(t, d) ==
  [report |-> d.report, event |-> d.decision, target |-> d.target] \in t.audit
StatusAudited(t, q) ==
  q.status \in {"approved", "rejected"} =>
    [report |-> q.report, event |-> "status_changed", target |-> q.status] \in t.audit

ApprovalsOK(t) ==
  /\ t.requests \subseteq RequestRecord
  /\ \A p, q \in t.requests : p.report = q.report => p = q
  /\ IsFiniteSet(t.requirements)
  /\ \A r \in t.requirements : {"report", "target", "status"} \subseteq DOMAIN r
  /\ \A r, s \in t.requirements : r.report = s.report /\ r.target = s.target => r = s
  /\ \A r \in t.requirements : HasRequest(t, r.report)
  /\ \A r \in t.requirements : r.status # "pending" => DecisionMade(t, r)
  /\ \A d \in t.decisions : DecisionAudited(t, d)
  /\ \A q \in t.requests : Backed(q, RequirementsOf(t, q.report)) /\ StatusAudited(t, q)

\* A service has a deployment, a deployment has usages, and a version that a usage
\* resolved to is stored.
RuntimeOK(t) ==
  /\ IsFiniteSet(t.services) /\ IsFiniteSet(t.deployments)
  /\ \A d \in t.deployments :
       /\ d.id \in 1 .. Cardinality(t.deployments) /\ d.createdAt \in Nat
       /\ d.service \in t.services
       /\ \E u \in t.usages : u.deployment = d.id
  /\ \A d, e \in t.deployments : d.id = e.id \/ d.createdAt = e.createdAt => d = e
  /\ \A s \in t.services : \E d \in t.deployments : d.service = s
  /\ \A u \in t.usages : u.known => HasVersion(t, u.ref)

TablesOK(t) ==
  /\ DOMAIN t = DOMAIN Empty
  /\ VersionsOK(t) /\ EdgesOK(t) /\ ReportsOK(t) /\ ApprovalsOK(t) /\ RuntimeOK(t)

\* The tables later: no row of these is lost.
Later(a, b) ==
  /\ a.modules \subseteq b.modules /\ a.versions \subseteq b.versions
  /\ a.edges \subseteq b.edges /\ a.unresolved \subseteq b.unresolved
  /\ a.reports \subseteq b.reports
  /\ a.services \subseteq b.services /\ a.deployments \subseteq b.deployments
  /\ a.usages \subseteq b.usages
  /\ \A q \in a.requests : HasRequest(b, q.report)

\* The approval rows one transaction later: what is decided stays, and as long as a
\* report has a request it is given no other requirements.
ApprovalsLater(a, b) ==
  /\ a.decisions \subseteq b.decisions /\ a.audit \subseteq b.audit
  /\ \A r \in a.requirements : r.status # "pending" => r \in b.requirements
  /\ \A q \in a.requests : \A r \in RequirementsOf(b, q.report) :
       \/ r \in a.requirements
       \/ \E s \in RequirementsOf(a, q.report) : s.status = "pending"

\* The tables are in order, and were when the page was asked for.
TablesInv == TablesOK(db) /\ TablesOK(before) /\ Later(before, db)

-----------------------------------------------------------------------------
(* What a transaction does not write stays in order. *)

LEMMA VersionsFrame ==
  ASSUME NEW a, NEW b, VersionsOK(a), a.modules \subseteq b.modules, b.modules \subseteq Modules,
         b.versions = a.versions, b.artifacts = a.artifacts,
         b.configs = a.configs, b.metadata = a.metadata
  PROVE  VersionsOK(b)
BY DEF VersionsOK

LEMMA EdgesFrame ==
  ASSUME NEW a, NEW b, EdgesOK(a), b.edges = a.edges
  PROVE  EdgesOK(b)
BY DEF EdgesOK

LEMMA ReportsFrame ==
  ASSUME NEW a, NEW b, ReportsOK(a), a.modules \subseteq b.modules,
         b.reports = a.reports, b.changes = a.changes
  PROVE  ReportsOK(b)
BY DEF ReportsOK

LEMMA ApprovalsFrame ==
  ASSUME NEW a, NEW b, ApprovalsOK(a), b.requests = a.requests,
         b.requirements = a.requirements, b.decisions = a.decisions, b.audit = a.audit
  PROVE  ApprovalsOK(b) /\ ApprovalsLater(a, b) /\ \A q \in a.requests : HasRequest(b, q.report)
<1>1. \A id : RequirementsOf(b, id) = RequirementsOf(a, id)
  BY DEF RequirementsOf
<1>2. \A q : /\ HasRequest(b, q.report) <=> HasRequest(a, q.report)
             /\ DecisionMade(b, q) <=> DecisionMade(a, q)
             /\ DecisionAudited(b, q) <=> DecisionAudited(a, q)
             /\ StatusAudited(b, q) <=> StatusAudited(a, q)
  BY DEF HasRequest, DecisionMade, DecisionAudited, StatusAudited
<1>3. ApprovalsOK(b)
  BY <1>1, <1>2 DEF ApprovalsOK
<1>4. ApprovalsLater(a, b)
  BY DEF ApprovalsLater, RequirementsOf
<1> QED BY <1>3, <1>4 DEF HasRequest

LEMMA RuntimeFrame ==
  ASSUME NEW a, NEW b, RuntimeOK(a), a.versions \subseteq b.versions,
         b.services = a.services, b.deployments = a.deployments, b.usages = a.usages
  PROVE  RuntimeOK(b)
BY DEF RuntimeOK, HasVersion

LEMMA Fields ==
  DOMAIN Empty = {"modules", "links", "owners", "versions", "artifacts", "configs", "metadata",
    "edges", "unresolved", "reports", "changes", "requests", "requirements", "decisions", "audit",
    "services", "deployments", "usages"}
BY DEF Empty

Wrote(a, b) == TablesOK(b) /\ Later(a, b) /\ ApprovalsLater(a, b)

\* A transaction that writes modules, links or owners only.
LEMMA ModulesWritten ==
  ASSUME NEW a, NEW b, TablesOK(a), DOMAIN b = DOMAIN a,
         a.modules \subseteq b.modules, b.modules \subseteq Modules,
         \A x \in DOMAIN Empty \ {"modules", "links", "owners"} : b[x] = a[x]
  PROVE  Wrote(a, b)
<1>1. /\ b.versions = a.versions /\ b.artifacts = a.artifacts /\ b.configs = a.configs
      /\ b.metadata = a.metadata /\ b.edges = a.edges /\ b.unresolved = a.unresolved
      /\ b.reports = a.reports /\ b.changes = a.changes /\ b.requests = a.requests
      /\ b.requirements = a.requirements /\ b.decisions = a.decisions /\ b.audit = a.audit
      /\ b.services = a.services /\ b.deployments = a.deployments /\ b.usages = a.usages
  BY Fields
<1>2. VersionsOK(b)
  BY <1>1, VersionsFrame DEF TablesOK
<1>3. EdgesOK(b)
  BY <1>1, EdgesFrame DEF TablesOK
<1>4. ReportsOK(b)
  BY <1>1, ReportsFrame DEF TablesOK
<1>5. ApprovalsOK(b) /\ ApprovalsLater(a, b) /\ \A q \in a.requests : HasRequest(b, q.report)
  BY <1>1, ApprovalsFrame DEF TablesOK
<1>6. RuntimeOK(b)
  BY <1>1, RuntimeFrame DEF TablesOK
<1>7. Later(a, b)
  BY <1>1, <1>5 DEF Later
<1> QED BY <1>2, <1>3, <1>4, <1>5, <1>6, <1>7 DEF Wrote, TablesOK

LEMMA CreateModuleOK ==
  ASSUME NEW m \in Modules, TablesOK(db), CreateModule(m)
  PROVE  Wrote(db, db')
<1>1. DOMAIN db = DOMAIN Empty /\ db.modules \subseteq Modules
  BY DEF TablesOK, VersionsOK
<1>2. /\ DOMAIN db' = DOMAIN db /\ db'.modules = db.modules \cup {m}
      /\ \A x \in DOMAIN Empty \ {"modules", "links", "owners"} : db'[x] = db[x]
  BY <1>1, Fields DEF CreateModule
<1> QED BY <1>1, <1>2, ModulesWritten

LEMMA OwnersOK ==
  ASSUME NEW m \in Modules, TablesOK(db),
         AddModuleOwner(m) \/ RemoveModuleOwner(m) \/ LinkModuleGitLabProject(m)
  PROVE  Wrote(db, db')
<1>1. DOMAIN db = DOMAIN Empty /\ db.modules \subseteq Modules
  BY DEF TablesOK, VersionsOK
<1>2. /\ DOMAIN db' = DOMAIN db /\ db'.modules = db.modules
      /\ \A x \in DOMAIN Empty \ {"modules", "links", "owners"} : db'[x] = db[x]
  <2>1. CASE AddModuleOwner(m)
    BY <1>1, <2>1, Fields DEF AddModuleOwner
  <2>2. CASE RemoveModuleOwner(m)
    BY <1>1, <2>2, Fields DEF RemoveModuleOwner
  <2>3. CASE LinkModuleGitLabProject(m)
    BY <1>1, <2>3, Fields DEF LinkModuleGitLabProject
  <2> QED BY <2>1, <2>2, <2>3
<1> QED BY <1>1, <1>2, ModulesWritten

-----------------------------------------------------------------------------
(* Publishing. *)

\* A statement for one row finds it, or answers ErrNotFound.
LEMMA OneOfFacts ==
  ASSUME NEW rows, Null \notin rows, NEW row, row = OneOf(rows)
  PROVE  /\ row = Null <=> rows = {}
         /\ row # Null => row \in rows
BY DEF OneOf

LEMMA GetVersion ==
  ASSUME TablesOK(db), NEW mv, NEW row, row = GetByModuleAndVersion(mv)
  PROVE  /\ row = Null <=> ~ HasVersion(db, mv)
         /\ row # Null => row \in db.versions /\ row.id = mv
<1>1. PICK rows : rows = {v \in db.versions : v.id = mv}
  OBVIOUS
<1>2. Null \notin rows
  BY <1>1, TablesAssumption DEF TablesOK, VersionsOK
<1>3. row = OneOf(rows)
  BY <1>1 DEF GetByModuleAndVersion
<1>4. row = Null <=> rows = {}
  BY <1>2, <1>3, OneOfFacts
<1>5. row # Null => row \in rows
  BY <1>2, <1>3, OneOfFacts
<1> QED BY <1>1, <1>4, <1>5 DEF HasVersion

LEMMA VersionRowsOK ==
  ASSUME NEW a, TablesOK(a), NEW mv \in VersionIDs, mv[1] \in a.modules, ~ HasVersion(a, mv),
         NEW t \in Nat, \A v \in a.versions : v.createdAt # t,
         NEW providers, NEW b, b = VersionRows(a, mv, t, providers)
  PROVE  Wrote(a, b)
<1>1. PICK new : new = [id |-> mv, createdAt |-> t]
  OBVIOUS
<1>2. DOMAIN a = DOMAIN Empty
  BY DEF TablesOK
<1>3. /\ DOMAIN b = DOMAIN a /\ b.modules = a.modules
      /\ b.reports = a.reports /\ b.changes = a.changes /\ b.requests = a.requests
      /\ b.requirements = a.requirements /\ b.decisions = a.decisions /\ b.audit = a.audit
      /\ b.services = a.services /\ b.deployments = a.deployments /\ b.usages = a.usages
  BY <1>2, Fields DEF VersionRows
<1>4. /\ b.versions = a.versions \cup {new}
      /\ b.artifacts = a.artifacts \cup {[version |-> mv, kind |-> k] : k \in Kinds}
      /\ b.configs = a.configs \cup {mv} /\ b.metadata = a.metadata \cup {mv}
  BY <1>1, <1>2, Fields DEF VersionRows
<1>5. /\ b.edges = a.edges \cup {[consumer |-> mv, provider |-> o, source |-> k] :
                                  o \in providers, k \in Sources}
      /\ a.unresolved \subseteq b.unresolved
  BY <1>2, Fields DEF VersionRows
<1>6. VersionsOK(b)
  <2>1. new \in VersionRecord /\ new.id = mv /\ new.createdAt = t
    BY <1>1 DEF VersionRecord
  <2>2. a.modules \subseteq Modules /\ a.versions \subseteq VersionRecord /\ IsFiniteSet(a.versions)
    BY DEF TablesOK, VersionsOK
  <2>3. IsFiniteSet(b.versions)
    BY <1>4, <2>2, FS_AddElement
  <2>4. ASSUME NEW v \in b.versions
        PROVE  /\ v.id[1] \in b.modules /\ v.id \in b.configs /\ v.id \in b.metadata
               /\ \A k \in Kinds : [version |-> v.id, kind |-> k] \in b.artifacts
    <3>1. CASE v \in a.versions
      BY <1>3, <1>4, <3>1 DEF TablesOK, VersionsOK
    <3>2. CASE v = new
      BY <1>3, <1>4, <2>1, <3>2
    <3> QED BY <1>4, <3>1, <3>2
  <2>5. ASSUME NEW v \in b.versions, NEW w \in b.versions,
               v.id = w.id \/ (v.id[1] = w.id[1] /\ v.createdAt = w.createdAt)
        PROVE  v = w
    <3>1. \A x \in a.versions : x.id # mv /\ x.createdAt # t
      BY DEF HasVersion
    <3>2. CASE v \in a.versions /\ w \in a.versions
      BY <2>5, <3>2 DEF TablesOK, VersionsOK
    <3> QED BY <1>4, <2>1, <2>5, <3>1, <3>2
  <2>6. \A x \in b.artifacts : x.kind \in Kinds
    BY <1>4 DEF TablesOK, VersionsOK
  <2> QED BY <1>3, <1>4, <2>1, <2>2, <2>3, <2>4, <2>5, <2>6 DEF VersionsOK
<1>7. EdgesOK(b)
  <2> SUFFICES ASSUME NEW e \in b.edges
               PROVE  /\ e.source \in Sources
                      /\ \A k \in Sources :
                           [consumer |-> e.consumer, provider |-> e.provider, source |-> k] \in b.edges
    BY DEF EdgesOK
  <2>1. CASE e \in a.edges
    BY <1>5, <2>1 DEF TablesOK, EdgesOK
  <2>2. CASE e \notin a.edges
    BY <1>5, <2>2
  <2> QED BY <2>1, <2>2
<1>8. ReportsOK(b)
  BY <1>3, ReportsFrame DEF TablesOK
<1>9. ApprovalsOK(b) /\ ApprovalsLater(a, b) /\ \A q \in a.requests : HasRequest(b, q.report)
  BY <1>3, ApprovalsFrame DEF TablesOK
<1>10. RuntimeOK(b)
  BY <1>3, <1>4, RuntimeFrame DEF TablesOK
<1>11. Later(a, b)
  BY <1>3, <1>4, <1>5, <1>9 DEF Later
<1> QED BY <1>2, <1>3, <1>6, <1>7, <1>8, <1>9, <1>10, <1>11 DEF Wrote, TablesOK

LEMMA PublishModuleVersionOK ==
  ASSUME NEW mv \in VersionIDs, NEW t \in 1 .. MaxTime, TablesOK(db), PublishModuleVersion(mv, t)
  PROVE  Wrote(db, db')
<1>1. PICK providers : db' = VersionRows(db, mv, t, providers)
  BY DEF PublishModuleVersion
<1>2. mv[1] \in db.modules /\ GetByModuleAndVersion(mv) = Null /\ Fresh(t)
  BY DEF PublishModuleVersion
<1>3. ~ HasVersion(db, mv)
  BY <1>2, GetVersion
<1>4. t \in Nat /\ \A v \in db.versions : v.createdAt # t
  BY <1>2, TablesAssumption DEF Fresh, Times
<1> QED BY <1>1, <1>2, <1>3, <1>4, VersionRowsOK

-----------------------------------------------------------------------------
(* Breaking reports. *)

LEMMA ReportRowsOK ==
  ASSUME NEW a, TablesOK(a), NEW base \in VersionIDs, base[1] \in a.modules,
         NEW t \in Nat, \A r \in a.reports : r.createdAt # t, NEW count \in Nat,
         NEW b, b = ReportRows(a, base, t, count)
  PROVE  Wrote(a, b)
<1>1. PICK id : id = Cardinality(a.reports) + 1
  OBVIOUS
<1>2. PICK new : new = [id |-> id, base |-> base, createdAt |-> t, count |-> count]
  OBVIOUS
<1>3. DOMAIN a = DOMAIN Empty
  BY DEF TablesOK
<1>4. /\ DOMAIN b = DOMAIN a /\ b.modules = a.modules /\ b.versions = a.versions
      /\ b.artifacts = a.artifacts /\ b.configs = a.configs
      /\ b.metadata = a.metadata /\ b.edges = a.edges /\ b.unresolved = a.unresolved
      /\ b.requests = a.requests
      /\ b.requirements = a.requirements /\ b.decisions = a.decisions /\ b.audit = a.audit
      /\ b.services = a.services /\ b.deployments = a.deployments /\ b.usages = a.usages
  BY <1>3, Fields DEF ReportRows
<1>5. /\ b.reports = a.reports \cup {new}
      /\ b.changes = a.changes \cup {[report |-> id, number |-> i] : i \in 1 .. count}
  BY <1>1, <1>2, <1>3, Fields DEF ReportRows
<1>6. ReportsOK(b)
  <2>1. /\ a.reports \subseteq ReportRecord /\ IsFiniteSet(a.reports)
        /\ \A r \in a.reports : r.id \in 1 .. Cardinality(a.reports) /\ r.base[1] \in a.modules
        /\ \A r, s \in a.reports : r.id = s.id \/ r.createdAt = s.createdAt => r = s
        /\ \A c \in a.changes : c.report \in 1 .. Cardinality(a.reports)
        /\ \A r \in a.reports : {c \in a.changes : c.report = r.id} =
                                {[report |-> r.id, number |-> i] : i \in 1 .. r.count}
    BY DEF TablesOK, ReportsOK
  <2>2. id \in Nat /\ Cardinality(a.reports) \in Nat /\ id \notin 1 .. Cardinality(a.reports)
    BY <1>1, <2>1, FS_CardinalityType
  <2>3. new \in ReportRecord /\ new.id = id /\ new.base = base /\ new.createdAt = t /\ new.count = count
    BY <1>2, <2>2 DEF ReportRecord
  <2>4. new \notin a.reports
    BY <2>1, <2>2, <2>3
  <2>5. IsFiniteSet(b.reports) /\ Cardinality(b.reports) = id
    <3>1. PICK A : A = a.reports
      OBVIOUS
    <3>2. IsFiniteSet(A) /\ new \notin A
      BY <2>1, <2>4, <3>1
    <3>3. IsFiniteSet(A \cup {new}) /\ Cardinality(A \cup {new}) = Cardinality(A) + 1
      BY <3>2, FS_AddElement
    <3> QED BY <1>1, <1>5, <3>1, <3>3
  <2>6. \A i \in 1 .. Cardinality(a.reports) : i \in 1 .. Cardinality(b.reports) /\ i # id
    BY <1>1, <2>2, <2>5
  <2>7. id \in 1 .. Cardinality(b.reports)
    BY <1>1, <2>2, <2>5
  <2>8. \A r \in b.reports : r.id \in 1 .. Cardinality(b.reports) /\ r.base[1] \in b.modules
    BY <1>4, <1>5, <2>1, <2>3, <2>6, <2>7
  <2>9. ASSUME NEW r \in b.reports, NEW s \in b.reports, r.id = s.id \/ r.createdAt = s.createdAt
        PROVE  r = s
    <3>1. \A x \in a.reports : x.id # id /\ x.createdAt # t
      BY <2>1, <2>6
    <3>2. CASE r \in a.reports /\ s \in a.reports
      BY <2>1, <2>9, <3>2
    <3> QED BY <1>5, <2>3, <2>9, <3>1, <3>2
  <2>10. \A c \in b.changes : c.report \in 1 .. Cardinality(b.reports)
    BY <1>5, <2>1, <2>6, <2>7
  <2>11. ASSUME NEW r \in b.reports
         PROVE  {c \in b.changes : c.report = r.id} =
                {[report |-> r.id, number |-> i] : i \in 1 .. r.count}
    <3>1. CASE r = new
      <4>1. \A c \in a.changes : c.report # id
        BY <2>1, <2>6
      <4> QED BY <1>5, <2>3, <3>1, <4>1
    <3>2. CASE r \in a.reports
      <4>1. r.id # id
        BY <2>1, <2>6, <3>2
      <4>2. {c \in b.changes : c.report = r.id} = {c \in a.changes : c.report = r.id}
        BY <1>5, <4>1
      <4> QED BY <2>1, <3>2, <4>2
    <3> QED BY <1>5, <3>1, <3>2
  <2> QED BY <1>5, <2>1, <2>3, <2>5, <2>8, <2>9, <2>10, <2>11 DEF ReportsOK
<1>7. VersionsOK(b)
  <2>1. b.modules \subseteq Modules
    BY <1>4 DEF TablesOK, VersionsOK
  <2> QED BY <1>4, <2>1, VersionsFrame DEF TablesOK
<1>8. EdgesOK(b)
  BY <1>4, EdgesFrame DEF TablesOK
<1>9. ApprovalsOK(b) /\ ApprovalsLater(a, b) /\ \A q \in a.requests : HasRequest(b, q.report)
  BY <1>4, ApprovalsFrame DEF TablesOK
<1>10. RuntimeOK(b)
  BY <1>4, RuntimeFrame DEF TablesOK
<1>11. Later(a, b)
  BY <1>4, <1>5, <1>9 DEF Later
<1> QED BY <1>3, <1>4, <1>6, <1>7, <1>8, <1>9, <1>10, <1>11 DEF Wrote, TablesOK

LEMMA StoreBreakingReportOK ==
  ASSUME NEW base \in VersionIDs, NEW t \in 1 .. MaxTime, NEW count \in {0, 2},
         TablesOK(db), StoreBreakingReport(base, t, count)
  PROVE  Wrote(db, db')
<1>1. db' = ReportRows(db, base, t, count) /\ GetByModuleAndVersion(base) # Null /\ Fresh(t)
  BY DEF StoreBreakingReport
<1>2. HasVersion(db, base)
  BY <1>1, GetVersion
<1>3. base[1] \in db.modules
  BY <1>2 DEF HasVersion, TablesOK, VersionsOK
<1>4. t \in Nat /\ \A r \in db.reports : r.createdAt # t
  BY <1>1, TablesAssumption DEF Fresh, Times
<1>5. count \in Nat
  OBVIOUS
<1> QED BY <1>1, <1>3, <1>4, <1>5, ReportRowsOK

-----------------------------------------------------------------------------
(* Approval requests. *)

LEMMA GetRequest ==
  ASSUME TablesOK(db), NEW id, NEW row, row = GetRequestByBreakingReportID(id)
  PROVE  /\ row = Null <=> ~ HasRequest(db, id)
         /\ row # Null => row \in db.requests /\ row.report = id
<1>1. PICK rows : rows = {q \in db.requests : q.report = id}
  OBVIOUS
<1>2. Null \notin rows
  BY <1>1, TablesAssumption DEF TablesOK, ApprovalsOK
<1>3. row = OneOf(rows)
  BY <1>1 DEF GetRequestByBreakingReportID
<1>4. row = Null <=> rows = {}
  BY <1>2, <1>3, OneOfFacts
<1>5. row # Null => row \in rows
  BY <1>2, <1>3, OneOfFacts
<1> QED BY <1>1, <1>4, <1>5 DEF HasRequest

\* A transaction that writes approval rows only.
LEMMA ApprovalsWritten ==
  ASSUME NEW a, NEW b, TablesOK(a), DOMAIN b = DOMAIN a,
         \A x \in DOMAIN Empty \ {"requests", "requirements", "decisions", "audit"} : b[x] = a[x],
         ApprovalsOK(b), ApprovalsLater(a, b), \A q \in a.requests : HasRequest(b, q.report)
  PROVE  Wrote(a, b)
<1>1. /\ b.modules = a.modules /\ b.versions = a.versions /\ b.artifacts = a.artifacts
      /\ b.configs = a.configs /\ b.metadata = a.metadata /\ b.edges = a.edges
      /\ b.unresolved = a.unresolved /\ b.reports = a.reports /\ b.changes = a.changes
      /\ b.services = a.services /\ b.deployments = a.deployments /\ b.usages = a.usages
  BY Fields
<1>2. VersionsOK(b)
  <2>1. b.modules \subseteq Modules
    BY <1>1 DEF TablesOK, VersionsOK
  <2> QED BY <1>1, <2>1, VersionsFrame DEF TablesOK
<1>3. EdgesOK(b)
  BY <1>1, EdgesFrame DEF TablesOK
<1>4. ReportsOK(b)
  BY <1>1, ReportsFrame DEF TablesOK
<1>5. RuntimeOK(b)
  BY <1>1, RuntimeFrame DEF TablesOK
<1>6. Later(a, b)
  BY <1>1 DEF Later
<1> QED BY <1>2, <1>3, <1>4, <1>5, <1>6 DEF Wrote, TablesOK

LEMMA CreateApprovalRequestOK ==
  ASSUME NEW id \in Nat, NEW targets \in SUBSET Modules, TablesOK(db),
         CreateApprovalRequest(id, targets)
  PROVE  Wrote(db, db')
<1>1. PICK a, b : a = db /\ b = db'
  OBVIOUS
<1>2. PICK row, rows, event :
        /\ row = [report |-> id, received |-> 0,
                  status |-> IF targets = {} THEN "not_required" ELSE "pending"]
        /\ rows = {[report |-> id, target |-> m, status |-> "pending",
                    warned |-> ListOwners(m) = {}] : m \in targets}
        /\ event = [report |-> id, event |-> "created", target |-> Null]
  OBVIOUS
<1>3. TablesOK(a) /\ DOMAIN a = DOMAIN Empty
  BY <1>1 DEF TablesOK
<1>4. /\ GetRequestByBreakingReportID(id) = Null
      /\ b = [a EXCEPT !.requests = @ \cup {row}, !.requirements = @ \cup rows,
                       !.audit = @ \cup {event}]
  BY <1>1, <1>2 DEF CreateApprovalRequest
<1>5. ~ HasRequest(a, id)
  BY <1>1, <1>4, GetRequest
<1>6. /\ DOMAIN b = DOMAIN a
      /\ \A x \in DOMAIN Empty \ {"requests", "requirements", "decisions", "audit"} : b[x] = a[x]
  BY <1>3, <1>4, Fields
<1>7. /\ b.requests = a.requests \cup {row} /\ b.requirements = a.requirements \cup rows
      /\ b.decisions = a.decisions /\ b.audit = a.audit \cup {event}
  BY <1>3, <1>4, Fields
<1>8. /\ row \in RequestRecord /\ row.report = id /\ row.received = 0
      /\ row.status \notin {"approved", "rejected"}
  BY <1>2 DEF RequestRecord
<1>9. /\ \A r \in rows : /\ r.report = id /\ r.status = "pending"
                         /\ {"report", "target", "status"} \subseteq DOMAIN r
      /\ \A r, s \in rows : r.target = s.target => r = s
  BY <1>2
<1>10. /\ a.requests \subseteq RequestRecord /\ IsFiniteSet(a.requirements)
       /\ \A p, q \in a.requests : p.report = q.report => p = q
       /\ \A r \in a.requirements : {"report", "target", "status"} \subseteq DOMAIN r
       /\ \A r, s \in a.requirements : r.report = s.report /\ r.target = s.target => r = s
       /\ \A r \in a.requirements : HasRequest(a, r.report)
       /\ \A r \in a.requirements : r.status # "pending" => DecisionMade(a, r)
       /\ \A d \in a.decisions : DecisionAudited(a, d)
       /\ \A q \in a.requests : Backed(q, RequirementsOf(a, q.report)) /\ StatusAudited(a, q)
  BY <1>3 DEF TablesOK, ApprovalsOK
<1>11. \A q \in a.requests : q.report # id
  BY <1>5 DEF HasRequest
<1>12. \A x : HasRequest(a, x) => HasRequest(b, x)
  BY <1>7 DEF HasRequest
<1>13. HasRequest(b, id)
  BY <1>7, <1>8 DEF HasRequest
<1>14. \A q \in a.requests : RequirementsOf(b, q.report) = RequirementsOf(a, q.report)
  BY <1>7, <1>9, <1>11 DEF RequirementsOf
<1>15. IsFiniteSet(b.requirements)
  <2>1. IsFiniteSet(targets)
    BY ModulesFinite, FS_Subset
  <2>2. PICK f : f = [m \in targets |-> [report |-> id, target |-> m, status |-> "pending",
                                         warned |-> ListOwners(m) = {}]]
    OBVIOUS
  <2>3. rows = {f[m] : m \in targets}
    BY <1>2, <2>2
  <2>4. IsFiniteSet(rows)
    BY <2>1, <2>3, FiniteImage
  <2>5. PICK A : A = a.requirements
    OBVIOUS
  <2>6. IsFiniteSet(A \cup rows)
    BY <1>10, <2>4, <2>5, FS_Union
  <2> QED BY <1>7, <2>5, <2>6
<1>16. Backed(row, RequirementsOf(b, id))
  <2>1. PICK S : S = ApprovedOf(RequirementsOf(b, id))
    OBVIOUS
  <2>2. S \in SUBSET b.requirements
    BY <2>1 DEF ApprovedOf, RequirementsOf
  <2>3. Cardinality(S) \in Nat
    BY <1>15, <2>2, FS_Subset, FS_CardinalityType
  <2> QED BY <1>8, <2>1, <2>3 DEF Backed
<1>17. ApprovalsOK(b)
  <2>1. b.requests \subseteq RequestRecord
    BY <1>7, <1>8, <1>10
  <2>2. \A p, q \in b.requests : p.report = q.report => p = q
    BY <1>7, <1>8, <1>10, <1>11
  <2>3. \A r \in b.requirements : HasRequest(b, r.report)
    BY <1>7, <1>9, <1>10, <1>12, <1>13
  <2>4. \A r \in b.requirements : r.status # "pending" => DecisionMade(b, r)
    BY <1>7, <1>9, <1>10 DEF DecisionMade
  <2>5. \A d \in b.decisions : DecisionAudited(b, d)
    BY <1>7, <1>10 DEF DecisionAudited
  <2>6. \A q \in b.requests : Backed(q, RequirementsOf(b, q.report))
    BY <1>7, <1>8, <1>10, <1>14, <1>16
  <2>7. \A q \in b.requests : StatusAudited(b, q)
    BY <1>7, <1>8, <1>10 DEF StatusAudited
  <2>8. \A r \in b.requirements : {"report", "target", "status"} \subseteq DOMAIN r
    BY <1>7, <1>9, <1>10
  <2>9. \A r, s \in b.requirements : r.report = s.report /\ r.target = s.target => r = s
    <3>1. \A r \in a.requirements : r.report # id
      BY <1>5, <1>10
    <3> QED BY <1>7, <1>9, <1>10, <3>1
  <2> QED BY <1>15, <2>1, <2>2, <2>3, <2>4, <2>5, <2>6, <2>7, <2>8, <2>9 DEF ApprovalsOK
<1>18. ApprovalsLater(a, b)
  <2>1. \A q \in a.requests : \A r \in RequirementsOf(b, q.report) : r \in a.requirements
    BY <1>14 DEF RequirementsOf
  <2> QED BY <1>7, <2>1 DEF ApprovalsLater
<1>19. \A q \in a.requests : HasRequest(b, q.report)
  BY <1>7 DEF HasRequest
<1>20. Wrote(a, b)
  BY <1>3, <1>6, <1>17, <1>18, <1>19, ApprovalsWritten
<1> QED BY <1>1, <1>20

\* A decision on one of the requirements of a report, by a call that saw some of the
\* others decided: the row it stores is borne out.
LEMMA DecisionBacked ==
  ASSUME NEW R, IsFiniteSet(R), NEW q \in R, q.status = "pending",
         NEW decision \in {"approved", "rejected"},
         NEW made, made.status = decision, made \notin R \ {q},
         NEW seen, seen \subseteq {r \in R : r.status # "pending"},
         NEW row, row.received = Cardinality(ApprovedOf(seen)) + (IF decision = "approved" THEN 1 ELSE 0),
         row.status = IF decision = "rejected" THEN "rejected"
                      ELSE IF Cardinality(ApprovedOf(seen)) + 1 = Cardinality(R) THEN "approved"
                           ELSE "pending"
  PROVE  Backed(row, (R \ {q}) \cup {made})
<1>1. PICK A, S : A = ApprovedOf(seen) /\ S = (R \ {q}) \cup {made}
  OBVIOUS
<1>2. A \in SUBSET R /\ q \notin A /\ (\A r \in A : r.status = "approved") /\ A \subseteq S /\ made \notin A
  BY <1>1 DEF ApprovedOf
<1>3. IsFiniteSet(S) /\ IsFiniteSet(A) /\ Cardinality(A) \in Nat
  <2>1. IsFiniteSet(R \ {q})
    BY FS_Difference
  <2>2. IsFiniteSet(S)
    BY <1>1, <2>1, FS_AddElement
  <2>3. IsFiniteSet(A)
    BY <1>2, FS_Subset
  <2> QED BY <2>2, <2>3, FS_CardinalityType
<1>4. PICK B : B = ApprovedOf(S)
  OBVIOUS
<1>5. A \in SUBSET B /\ IsFiniteSet(B) /\ Cardinality(B) \in Nat
  <2>1. A \in SUBSET B /\ B \in SUBSET S
    BY <1>2, <1>4 DEF ApprovedOf
  <2>2. IsFiniteSet(B)
    BY <1>3, <2>1, FS_Subset
  <2> QED BY <2>1, <2>2, FS_CardinalityType
<1>6. CASE decision = "rejected"
  <2>1. Cardinality(A) <= Cardinality(B)
    BY <1>5, FS_Subset
  <2>2. row.received = Cardinality(A)
    BY <1>1, <1>3, <1>6
  <2>3. row.status = "rejected" /\ made \in S /\ made.status = "rejected"
    BY <1>1, <1>6
  <2>4. \E r \in S : r.status = "rejected"
    BY <2>3
  <2>5. Backed(row, S)
    BY <1>4, <2>1, <2>2, <2>3, <2>4 DEF Backed
  <2> QED BY <1>1, <2>5
<1>7. CASE decision = "approved"
  <2>1. PICK C : C = A \cup {made}
    OBVIOUS
  <2>2. IsFiniteSet(C) /\ Cardinality(C) = Cardinality(A) + 1
    BY <1>2, <1>3, <2>1, FS_AddElement
  <2>3. C \in SUBSET B
    BY <1>1, <1>4, <1>5, <1>7, <2>1 DEF ApprovedOf
  <2>4. Cardinality(C) <= Cardinality(B)
    BY <1>5, <2>3, FS_Subset
  <2>5. row.received = Cardinality(C)
    BY <1>1, <1>7, <2>2
  <2>6. row.status # "rejected"
    BY <1>7
  <2>7. ASSUME row.status = "approved" PROVE \A r \in S : r.status = "approved"
    <3>1. Cardinality(A) + 1 = Cardinality(R)
      BY <1>1, <1>7, <2>7
    <3>2. PICK D : D = A \cup {q}
      OBVIOUS
    <3>3. IsFiniteSet(D) /\ Cardinality(D) = Cardinality(A) + 1
      BY <1>2, <1>3, <3>2, FS_AddElement
    <3>4. D \in SUBSET R /\ Cardinality(D) = Cardinality(R)
      BY <1>2, <3>1, <3>2, <3>3
    <3>5. D = R
      BY <3>4, FS_Subset
    <3> QED BY <1>1, <1>2, <1>7, <3>2, <3>5
  <2>8. Backed(row, S)
    BY <1>4, <2>4, <2>5, <2>6, <2>7 DEF Backed
  <2> QED BY <1>1, <2>8
<1> QED BY <1>6, <1>7

LEMMA RecordDecisionOK ==
  ASSUME NEW id, NEW target, NEW decision \in {"approved", "rejected"}, NEW seen,
         TablesOK(db), RecordDecision(id, target, decision, seen)
  PROVE  Wrote(db, db')
<1>1. PICK a, b, old, R, A, status :
        /\ a = db /\ b = db' /\ old = GetRequestByBreakingReportID(id)
        /\ R = ListRequirements(id) /\ A = ApprovedOf(seen)
        /\ status = IF decision = "rejected" THEN "rejected"
                    ELSE IF Cardinality(A) + 1 = Cardinality(R) THEN "approved" ELSE "pending"
  OBVIOUS
<1>2. old # Null /\ seen \subseteq {r \in R : r.status # "pending"}
  BY <1>1 DEF RecordDecision
<1>3. PICK q \in R :
        /\ q.target = target /\ q.status = "pending"
        /\ b = [a EXCEPT
             !.requirements = (@ \ {q}) \cup {[q EXCEPT !.status = decision]},
             !.decisions = @ \cup {[report |-> id, target |-> target, decision |-> decision]},
             !.audit = @ \cup {[report |-> id, event |-> decision, target |-> target]}
                         \cup {[report |-> id, event |-> "status_changed", target |-> to] :
                                to \in {status} \ {"pending"}},
             !.requests = (@ \ {old}) \cup {[old EXCEPT
                !.status = status,
                !.received = Cardinality(A) + (IF decision = "approved" THEN 1 ELSE 0)]}]
  BY <1>1 DEF RecordDecision, ApprovedOf
<1>4. TablesOK(a) /\ DOMAIN a = DOMAIN Empty
  BY <1>1 DEF TablesOK
<1>5. old \in a.requests /\ old.report = id
  BY <1>1, <1>2, GetRequest
<1>6. R = RequirementsOf(a, id)
  BY <1>1 DEF ListRequirements, RequirementsOf
<1>7. PICK made, row :
        /\ made = [q EXCEPT !.status = decision]
        /\ row = [old EXCEPT !.status = status,
                             !.received = Cardinality(A) + (IF decision = "approved" THEN 1 ELSE 0)]
  OBVIOUS
<1>8. /\ DOMAIN b = DOMAIN a
      /\ \A x \in DOMAIN Empty \ {"requests", "requirements", "decisions", "audit"} : b[x] = a[x]
  BY <1>3, <1>4, Fields
<1>9. /\ b.requests = (a.requests \ {old}) \cup {row}
      /\ b.requirements = (a.requirements \ {q}) \cup {made}
      /\ b.decisions = a.decisions \cup {[report |-> id, target |-> target, decision |-> decision]}
  BY <1>3, <1>4, <1>7, Fields
<1>10. b.audit = a.audit \cup {[report |-> id, event |-> decision, target |-> target]}
                         \cup {[report |-> id, event |-> "status_changed", target |-> to] :
                                to \in {status} \ {"pending"}}
  BY <1>3, <1>4, Fields
<1>11. /\ a.requests \subseteq RequestRecord /\ IsFiniteSet(a.requirements)
       /\ \A p, r \in a.requests : p.report = r.report => p = r
       /\ \A r \in a.requirements : {"report", "target", "status"} \subseteq DOMAIN r
       /\ \A r, s \in a.requirements : r.report = s.report /\ r.target = s.target => r = s
       /\ \A r \in a.requirements : HasRequest(a, r.report)
       /\ \A r \in a.requirements : r.status # "pending" => DecisionMade(a, r)
       /\ \A d \in a.decisions : DecisionAudited(a, d)
       /\ \A p \in a.requests : Backed(p, RequirementsOf(a, p.report)) /\ StatusAudited(a, p)
  BY <1>4 DEF TablesOK, ApprovalsOK
<1>12. q \in a.requirements /\ q.report = id
  BY <1>6 DEF RequirementsOf
<1>13. /\ made.report = id /\ made.target = target /\ made.status = decision
       /\ {"report", "target", "status"} \subseteq DOMAIN made
  BY <1>3, <1>7, <1>11, <1>12
<1>14. IsFiniteSet(R) /\ IsFiniteSet(A) /\ Cardinality(A) \in Nat
  <2>1. R \in SUBSET a.requirements
    BY <1>6 DEF RequirementsOf
  <2>2. IsFiniteSet(R)
    BY <1>11, <2>1, FS_Subset
  <2>3. A \in SUBSET R
    BY <1>1, <1>2 DEF ApprovedOf
  <2>4. IsFiniteSet(A)
    BY <2>2, <2>3, FS_Subset
  <2> QED BY <2>2, <2>4, FS_CardinalityType
<1>15. status \in {"approved", "rejected", "pending"}
  BY <1>1
<1>16. /\ row \in RequestRecord /\ row.report = id /\ row.status = status
       /\ row.received = Cardinality(A) + (IF decision = "approved" THEN 1 ELSE 0)
  <2>1. old \in RequestRecord
    BY <1>5, <1>11
  <2>2. Cardinality(A) + (IF decision = "approved" THEN 1 ELSE 0) \in Nat
    BY <1>14
  <2> QED BY <1>5, <1>7, <1>15, <2>1, <2>2 DEF RequestRecord
<1>17. made \notin R \ {q}
  <2>1. ASSUME NEW r \in R, r # q PROVE r # made
    <3>1. r \in a.requirements /\ r.report = id
      BY <1>6 DEF RequirementsOf
    <3>2. r.target # target
      BY <1>3, <1>11, <1>12, <2>1, <3>1
    <3> QED BY <1>13, <3>2
  <2> QED BY <2>1
<1>18. RequirementsOf(b, id) = (R \ {q}) \cup {made}
  BY <1>6, <1>9, <1>13 DEF RequirementsOf
<1>19. Backed(row, RequirementsOf(b, id))
  <2>1. row.status = IF decision = "rejected" THEN "rejected"
                     ELSE IF Cardinality(ApprovedOf(seen)) + 1 = Cardinality(R) THEN "approved"
                          ELSE "pending"
    BY <1>1, <1>16
  <2>2. row.received = Cardinality(ApprovedOf(seen)) + (IF decision = "approved" THEN 1 ELSE 0)
    BY <1>1, <1>16
  <2>3. Backed(row, (R \ {q}) \cup {made})
    BY <1>2, <1>3, <1>13, <1>14, <1>17, <2>1, <2>2, DecisionBacked
  <2> QED BY <1>18, <2>3
<1>20. \A p \in a.requests \ {old} : p.report # id /\ RequirementsOf(b, p.report) = RequirementsOf(a, p.report)
  <2>1. \A p \in a.requests \ {old} : p.report # id
    BY <1>5, <1>11
  <2> QED BY <1>9, <1>12, <1>13, <2>1 DEF RequirementsOf
<1>21. \A x : HasRequest(a, x) => HasRequest(b, x)
  BY <1>5, <1>9, <1>16 DEF HasRequest
<1>22. ApprovalsOK(b)
  <2>1. b.requests \subseteq RequestRecord
    BY <1>9, <1>11, <1>16
  <2>2. \A p, r \in b.requests : p.report = r.report => p = r
    BY <1>9, <1>11, <1>16, <1>20
  <2>3. IsFiniteSet(b.requirements)
    <3>1. PICK T : T = a.requirements \ {q}
      OBVIOUS
    <3>2. IsFiniteSet(T)
      BY <1>11, <3>1, FS_Difference
    <3>3. IsFiniteSet(T \cup {made})
      BY <3>2, FS_AddElement
    <3> QED BY <1>9, <3>1, <3>3
  <2>4. \A r \in b.requirements : {"report", "target", "status"} \subseteq DOMAIN r
    BY <1>9, <1>11, <1>13
  <2>5. \A r, s \in b.requirements : r.report = s.report /\ r.target = s.target => r = s
    <3>1. \A r \in a.requirements \ {q} : ~ (r.report = id /\ r.target = target)
      BY <1>3, <1>11, <1>12
    <3> QED BY <1>9, <1>11, <1>13, <3>1
  <2>6. \A r \in b.requirements : HasRequest(b, r.report)
    BY <1>9, <1>11, <1>12, <1>13, <1>21
  <2>7. \A r \in b.requirements : r.status # "pending" => DecisionMade(b, r)
    <3>1. DecisionMade(b, made)
      BY <1>9, <1>13 DEF DecisionMade
    <3>2. \A r \in a.requirements : DecisionMade(a, r) => DecisionMade(b, r)
      BY <1>9 DEF DecisionMade
    <3> QED BY <1>9, <1>11, <3>1, <3>2
  <2>8. \A d \in b.decisions : DecisionAudited(b, d)
    <3>1. \A d \in a.decisions : DecisionAudited(a, d) => DecisionAudited(b, d)
      BY <1>10 DEF DecisionAudited
    <3>2. \A d : d = [report |-> id, target |-> target, decision |-> decision] => DecisionAudited(b, d)
      BY <1>10 DEF DecisionAudited
    <3> QED BY <1>9, <1>11, <3>1, <3>2
  <2>9. \A p \in b.requests : Backed(p, RequirementsOf(b, p.report))
    BY <1>9, <1>11, <1>16, <1>19, <1>20
  <2>10. \A p \in b.requests : StatusAudited(b, p)
    <3>1. StatusAudited(b, row)
      BY <1>10, <1>16 DEF StatusAudited
    <3>2. \A p \in a.requests : StatusAudited(a, p) => StatusAudited(b, p)
      BY <1>10 DEF StatusAudited
    <3> QED BY <1>9, <1>11, <3>1, <3>2
  <2> QED BY <2>1, <2>2, <2>3, <2>4, <2>5, <2>6, <2>7, <2>8, <2>9, <2>10 DEF ApprovalsOK
<1>23. ApprovalsLater(a, b)
  <2>1. a.decisions \subseteq b.decisions /\ a.audit \subseteq b.audit
    BY <1>9, <1>10
  <2>2. \A r \in a.requirements : r.status # "pending" => r \in b.requirements
    BY <1>3, <1>9
  <2>3. ASSUME NEW p \in a.requests, NEW r \in RequirementsOf(b, p.report)
        PROVE  \/ r \in a.requirements
               \/ \E s \in RequirementsOf(a, p.report) : s.status = "pending"
    <3>1. CASE p = old
      BY <1>3, <1>5, <1>6, <3>1
    <3>2. CASE p # old
      BY <1>20, <3>2 DEF RequirementsOf
    <3> QED BY <3>1, <3>2
  <2> QED BY <2>1, <2>2, <2>3 DEF ApprovalsLater
<1>24. \A p \in a.requests : HasRequest(b, p.report)
  BY <1>21 DEF HasRequest
<1>25. Wrote(a, b)
  BY <1>4, <1>8, <1>22, <1>23, <1>24, ApprovalsWritten
<1> QED BY <1>1, <1>25

-----------------------------------------------------------------------------
(* Runtime reports. *)

LEMMA ReportRuntimeInventoryOK ==
  ASSUME NEW s, NEW e, NEW refs, NEW t \in 1 .. MaxTime, TablesOK(db),
         ReportRuntimeInventory(s, e, refs, t)
  PROVE  Wrote(db, db')
<1>1. PICK a, b, id : a = db /\ b = db' /\ id = Cardinality(a.deployments) + 1
  OBVIOUS
<1>2. PICK new, uses :
        /\ new = [id |-> id, service |-> s, environment |-> e, createdAt |-> t]
        /\ uses = {[deployment |-> id, ref |-> mv, moduleKnown |-> mv[1] \in db.modules,
                    known |-> GetByModuleAndVersion(mv) # Null] : mv \in refs}
  OBVIOUS
<1>3. /\ Fresh(t) /\ refs # {}
      /\ b = [a EXCEPT !.services = @ \cup {s}, !.deployments = @ \cup {new}, !.usages = @ \cup uses]
  BY <1>1, <1>2 DEF ReportRuntimeInventory
<1>4. TablesOK(a) /\ DOMAIN a = DOMAIN Empty
  BY <1>1 DEF TablesOK
<1>5. /\ DOMAIN b = DOMAIN a /\ b.modules = a.modules /\ b.versions = a.versions
      /\ b.artifacts = a.artifacts /\ b.configs = a.configs
      /\ b.metadata = a.metadata /\ b.edges = a.edges /\ b.unresolved = a.unresolved
      /\ b.reports = a.reports /\ b.changes = a.changes /\ b.requests = a.requests
      /\ b.requirements = a.requirements /\ b.decisions = a.decisions /\ b.audit = a.audit
  BY <1>3, <1>4, Fields
<1>6. /\ b.services = a.services \cup {s} /\ b.deployments = a.deployments \cup {new}
      /\ b.usages = a.usages \cup uses
  BY <1>3, <1>4, Fields
<1>7. RuntimeOK(b)
  <2>1. /\ IsFiniteSet(a.services) /\ IsFiniteSet(a.deployments)
        /\ \A d \in a.deployments :
             /\ d.id \in 1 .. Cardinality(a.deployments) /\ d.createdAt \in Nat
             /\ d.service \in a.services
             /\ \E u \in a.usages : u.deployment = d.id
        /\ \A d, f \in a.deployments : d.id = f.id \/ d.createdAt = f.createdAt => d = f
        /\ \A x \in a.services : \E d \in a.deployments : d.service = x
        /\ \A u \in a.usages : u.known => HasVersion(a, u.ref)
    BY <1>4 DEF TablesOK, RuntimeOK
  <2>2. Cardinality(a.deployments) \in Nat
    BY <2>1, FS_CardinalityType
  <2>3. id \in Nat /\ \A i \in 1 .. Cardinality(a.deployments) : i # id /\ i \in 1 .. id
    BY <1>1, <2>2
  <2>4. new.id = id /\ new.service = s /\ new.createdAt = t /\ t \in Nat
    BY <1>2, TablesAssumption
  <2>5. \A d \in a.deployments : d.id # id /\ d.createdAt # t
    BY <1>1, <1>3, <2>1, <2>3 DEF Fresh, Times
  <2>6. PICK D, S : D = a.deployments /\ S = a.services
    OBVIOUS
  <2>7. IsFiniteSet(D \cup {new}) /\ Cardinality(D \cup {new}) = Cardinality(D) + 1
    <3>1. IsFiniteSet(D) /\ new \notin D
      BY <2>1, <2>4, <2>5, <2>6
    <3> QED BY <3>1, FS_AddElement
  <2>8. IsFiniteSet(b.deployments) /\ Cardinality(b.deployments) = id
    BY <1>1, <1>6, <2>6, <2>7
  <2>9. IsFiniteSet(b.services)
    <3>1. IsFiniteSet(S \cup {s})
      BY <2>1, <2>6, FS_AddElement
    <3> QED BY <1>6, <2>6, <3>1
  <2>10. \E u \in uses : u.deployment = id
    <3>1. PICK mv \in refs : TRUE
      BY <1>3
    <3>2. PICK u : u = [deployment |-> id, ref |-> mv, moduleKnown |-> mv[1] \in db.modules,
                        known |-> GetByModuleAndVersion(mv) # Null]
      OBVIOUS
    <3>3. u \in uses
      BY <1>2, <3>2, Zenon
    <3> QED BY <3>2, <3>3
  <2>11. id \in 1 .. id
    BY <1>1, <2>2
  <2>12. ASSUME NEW d \in b.deployments
         PROVE  /\ d.id \in 1 .. Cardinality(b.deployments) /\ d.createdAt \in Nat
                /\ d.service \in b.services
                /\ \E u \in b.usages : u.deployment = d.id
    <3>1. CASE d \in a.deployments
      BY <1>6, <2>1, <2>3, <2>8, <3>1
    <3>2. CASE d = new
      BY <1>6, <2>4, <2>8, <2>10, <2>11, <3>2
    <3> QED BY <1>6, <3>1, <3>2
  <2>13. \A d, f \in b.deployments : d.id = f.id \/ d.createdAt = f.createdAt => d = f
    BY <1>6, <2>1, <2>4, <2>5
  <2>14. \A x \in b.services : \E d \in b.deployments : d.service = x
    BY <1>6, <2>1, <2>4
  <2>15. \A mv : GetByModuleAndVersion(mv) # Null => HasVersion(a, mv)
    BY <1>1, GetVersion
  <2>16. \A u \in uses : u.known => HasVersion(a, u.ref)
    <3> TAKE u \in uses
    <3>1. PICK mv \in refs :
            u = [deployment |-> id, ref |-> mv, moduleKnown |-> mv[1] \in db.modules,
                 known |-> GetByModuleAndVersion(mv) # Null]
      BY <1>2, Zenon
    <3>2. u.ref = mv /\ (u.known <=> GetByModuleAndVersion(mv) # Null)
      BY <3>1
    <3> QED BY <2>15, <3>2
  <2>17. \A mv : HasVersion(a, mv) => HasVersion(b, mv)
    BY <1>5 DEF HasVersion
  <2>18. \A u \in b.usages : u.known => HasVersion(b, u.ref)
    BY <1>6, <2>1, <2>16, <2>17
  <2> QED BY <2>8, <2>9, <2>12, <2>13, <2>14, <2>18 DEF RuntimeOK
<1>8. VersionsOK(b)
  <2>1. b.modules \subseteq Modules
    BY <1>4, <1>5 DEF TablesOK, VersionsOK
  <2> QED BY <1>4, <1>5, <2>1, VersionsFrame DEF TablesOK
<1>9. EdgesOK(b)
  BY <1>4, <1>5, EdgesFrame DEF TablesOK
<1>10. ReportsOK(b)
  BY <1>4, <1>5, ReportsFrame DEF TablesOK
<1>11. ApprovalsOK(b) /\ ApprovalsLater(a, b) /\ \A q \in a.requests : HasRequest(b, q.report)
  BY <1>4, <1>5, ApprovalsFrame DEF TablesOK
<1>12. Later(a, b)
  BY <1>5, <1>6, <1>11 DEF Later
<1>13. Wrote(a, b)
  BY <1>4, <1>5, <1>7, <1>8, <1>9, <1>10, <1>11, <1>12 DEF Wrote, TablesOK
<1> QED BY <1>1, <1>13

-----------------------------------------------------------------------------
(* The tables at the start, and through every step. *)

LEMMA SeededOK ==
  ASSUME NEW registered \in SUBSET Modules, NEW t, t = SeededTables(registered)
  PROVE  TablesOK(t) /\ t.modules = registered /\ t.reports = {}
<1>1. PICK ids, resolved :
        /\ ids = {<<m, Seeded>> : m \in registered}
        /\ resolved = {x \in ids \X ids : Position(x[2][1]) < Position(x[1][1])}
  OBVIOUS
<1>2. PICK empty : empty = Empty
  OBVIOUS
<1>3. DOMAIN empty = DOMAIN Empty /\ \A x \in DOMAIN Empty : empty[x] = {}
  BY <1>2 DEF Empty
<1>4. DOMAIN t = DOMAIN Empty
  BY <1>2, <1>3 DEF SeededTables
<1>5. /\ t.modules = registered
      /\ t.versions = {[id |-> mv, createdAt |-> 0] : mv \in ids}
      /\ t.artifacts = {[version |-> mv, kind |-> k] : mv \in ids, k \in Kinds}
      /\ t.configs = ids /\ t.metadata = ids
  BY <1>1, <1>2, <1>3, Fields DEF SeededTables
<1>6. t.edges = {[consumer |-> x[1], provider |-> x[2], source |-> k] : x \in resolved, k \in Sources}
  BY <1>1, <1>2, <1>3, Fields DEF SeededTables
<1>7. /\ t.reports = {} /\ t.changes = {} /\ t.requests = {} /\ t.requirements = {}
      /\ t.decisions = {} /\ t.audit = {} /\ t.services = {} /\ t.deployments = {} /\ t.usages = {}
  BY <1>2, <1>3, Fields DEF SeededTables
<1>8. VersionsOK(t)
  <2>1. ids \subseteq VersionIDs /\ \A mv \in ids : mv[1] \in registered /\ mv = <<mv[1], Seeded>>
    BY <1>1, TablesAssumption DEF VersionIDs
  <2>2. t.versions \subseteq VersionRecord
    BY <1>5, <2>1 DEF VersionRecord
  <2>3. IsFiniteSet(t.versions)
    <3>1. IsFiniteSet(registered)
      BY ModulesFinite, FS_Subset
    <3>2. PICK f : f = [m \in registered |-> [id |-> <<m, Seeded>>, createdAt |-> 0]]
      OBVIOUS
    <3>3. t.versions = {f[m] : m \in registered}
      BY <1>1, <1>5, <3>2
    <3> QED BY <3>1, <3>3, FiniteImage
  <2>4. \A v \in t.versions : v.id \in ids /\ v.createdAt = 0
    BY <1>5
  <2>5. \A v \in t.versions :
          /\ v.id[1] \in t.modules /\ v.id \in t.configs /\ v.id \in t.metadata
          /\ \A k \in Kinds : [version |-> v.id, kind |-> k] \in t.artifacts
    BY <1>5, <2>1, <2>4
  <2>6. \A v, w \in t.versions : v.id = w.id => v = w
    BY <1>5
  <2>7. \A v, w \in t.versions : v.id[1] = w.id[1] => v.id = w.id
    BY <2>1, <2>4
  <2>8. \A x \in t.artifacts : x.kind \in Kinds
    BY <1>5
  <2> QED BY <1>5, <2>2, <2>3, <2>5, <2>6, <2>7, <2>8 DEF VersionsOK
<1>9. EdgesOK(t)
  BY <1>6 DEF EdgesOK
<1>10. IsFiniteSet({}) /\ Cardinality({}) = 0
  BY FS_EmptySet
<1>11. ReportsOK(t)
  BY <1>7, <1>10 DEF ReportsOK
<1>12. ApprovalsOK(t)
  BY <1>7, <1>10 DEF ApprovalsOK
<1>13. RuntimeOK(t)
  BY <1>7, <1>10 DEF RuntimeOK
<1> QED BY <1>4, <1>5, <1>7, <1>8, <1>9, <1>11, <1>12, <1>13 DEF TablesOK

LEMMA LaterSelf ==
  ASSUME NEW a
  PROVE  Later(a, a)
BY DEF Later, HasRequest

LEMMA LaterStill ==
  ASSUME NEW a, NEW b, NEW c, Later(a, b), Later(b, c)
  PROVE  Later(a, c)
BY DEF Later, HasRequest

LEMMA TablesInit == Init => TablesInv
<1> SUFFICES ASSUME Init PROVE TablesInv
  OBVIOUS
<1>1. PICK registered \in SUBSET Modules, count \in 0 .. 1 :
        \/ db = SeededTables(registered)
        \/ /\ registered = Modules
           /\ db = ReportRows(SeededTables(registered), <<ModuleNames[1], Seeded>>, 0, 2 * count)
  BY DEF Init
<1>2. PICK seeded : seeded = SeededTables(registered)
  OBVIOUS
<1>3. TablesOK(seeded) /\ seeded.modules = registered /\ seeded.reports = {}
  BY <1>2, SeededOK
<1>4. CASE db = seeded
  BY <1>3, <1>4, LaterSelf DEF Init, TablesInv
<1>5. CASE db # seeded
  <2>1. PICK base, n : base = <<ModuleNames[1], Seeded>> /\ n = 2 * count
    OBVIOUS
  <2>2. registered = Modules /\ db = ReportRows(seeded, base, 0, n)
    BY <1>1, <1>2, <1>5, <2>1
  <2>3. ModuleNames[1] \in Modules
    BY TablesAssumption
  <2>4. base \in VersionIDs /\ base[1] \in seeded.modules
    BY <1>3, <2>1, <2>2, <2>3, TablesAssumption DEF VersionIDs
  <2>5. n \in Nat
    BY <2>1
  <2>6. Wrote(seeded, db)
    BY <1>3, <2>2, <2>4, <2>5, ReportRowsOK
  <2> QED BY <2>6, LaterSelf DEF Init, TablesInv, Wrote
<1> QED BY <1>4, <1>5

Transaction ==
  \/ \E m \in Modules : \/ CreateModule(m) \/ AddModuleOwner(m) \/ RemoveModuleOwner(m)
                        \/ LinkModuleGitLabProject(m)
  \/ \E mv \in VersionIDs, t \in 1 .. MaxTime :
       PublishModuleVersion(mv, t) \/ \E count \in {0, 2} : StoreBreakingReport(mv, t, count)
  \/ \E targets \in SUBSET Modules : CreateApprovalRequest(1, targets)
  \/ \E m \in Modules, decision \in {"approved", "rejected"}, seen \in SUBSET db.requirements :
       RecordDecision(1, m, decision, seen)
  \/ \E s \in Services, e \in Environments, refs \in Inventories, t \in 1 .. MaxTime :
       ReportRuntimeInventory(s, e, refs, t)

\* A step of the page, or a transaction.
LEMMA Steps ==
  ASSUME Next
  PROVE  \/ /\ Begin \/ ReadNext \/ MissNext \/ FailNext \/ Reload
            /\ db' = db
         \/ /\ Transaction /\ page.status \notin Shown /\ UNCHANGED <<page, before>>
<1>1. CASE Begin \/ ReadNext \/ MissNext \/ FailNext \/ Reload
  BY <1>1 DEF Begin, ReadNext, MissNext, FailNext, Reload
<1>2. CASE ~ (Begin \/ ReadNext \/ MissNext \/ FailNext \/ Reload)
  BY <1>2 DEF Next, Commit, Transaction
<1> QED BY <1>1, <1>2

LEMMA TransactionOK ==
  ASSUME TablesOK(db), Transaction
  PROVE  Wrote(db, db')
<1>1. CASE \E m \in Modules : \/ CreateModule(m) \/ AddModuleOwner(m) \/ RemoveModuleOwner(m)
                              \/ LinkModuleGitLabProject(m)
  BY <1>1, CreateModuleOK, OwnersOK
<1>2. CASE \E mv \in VersionIDs, t \in 1 .. MaxTime :
             PublishModuleVersion(mv, t) \/ \E count \in {0, 2} : StoreBreakingReport(mv, t, count)
  BY <1>2, PublishModuleVersionOK, StoreBreakingReportOK
<1>3. CASE \E targets \in SUBSET Modules : CreateApprovalRequest(1, targets)
  BY <1>3, CreateApprovalRequestOK
<1>4. CASE \E m \in Modules, decision \in {"approved", "rejected"}, seen \in SUBSET db.requirements :
             RecordDecision(1, m, decision, seen)
  BY <1>4, RecordDecisionOK
<1>5. CASE \E s \in Services, e \in Environments, refs \in Inventories, t \in 1 .. MaxTime :
             ReportRuntimeInventory(s, e, refs, t)
  BY <1>5, ReportRuntimeInventoryOK
<1> QED BY <1>1, <1>2, <1>3, <1>4, <1>5 DEF Transaction

LEMMA TablesNext == TablesInv /\ [Next]_vars => TablesInv'
<1> SUFFICES ASSUME TablesInv, [Next]_vars PROVE TablesInv'
  OBVIOUS
<1>1. CASE UNCHANGED vars
  BY <1>1 DEF vars, TablesInv
<1>2. CASE Next /\ db' = db /\ before' \in {before, db}
  BY <1>2, LaterSelf DEF TablesInv
<1>3. CASE Transaction /\ UNCHANGED <<page, before>>
  BY <1>3, TransactionOK, LaterStill DEF TablesInv, Wrote
<1>4. ASSUME Begin \/ ReadNext \/ MissNext \/ FailNext \/ Reload PROVE before' \in {before, db}
  BY <1>4 DEF Begin, ReadNext, MissNext, FailNext, Reload
<1> QED BY <1>1, <1>2, <1>3, <1>4, Steps

-----------------------------------------------------------------------------
(* What a statement finds, compared with the tables when the page was asked for *)
(* and with the tables as they are.                                            *)

\* A list of the newest rows.
LEMMA NewestFacts ==
  ASSUME NEW rows, IsFiniteSet(rows), \A x \in rows : x.createdAt \in Nat,
         \A x, y \in rows : x.createdAt = y.createdAt => x = y,
         NEW limit \in Nat \ {0}, NEW s, s = Newest(rows, limit)
  PROVE  /\ IsSeq(s) /\ ToSet(s) \subseteq rows
         /\ Len(s) = IF Cardinality(rows) < limit THEN Cardinality(rows) ELSE limit
         /\ \A row \in rows : row \in ToSet(s) \/ Cardinality({x \in rows : Newer(x, row)}) >= limit
         /\ \A row \in rows : s # <<>> /\ s[1] \in rows /\ s[1].createdAt >= row.createdAt
<1>1. PICK at : at = [row \in rows |-> row.createdAt]
  OBVIOUS
<1>2. s = Sorted(rows, at, limit)
  BY <1>1 DEF Newest
<1>3. /\ \A x \in rows : at[x] \in Int
      /\ \A x, y \in rows : at[x] = at[y] => x = y
  BY <1>1
<1>4. /\ IsSeq(s) /\ ToSet(s) \subseteq rows
      /\ Len(s) = IF Cardinality(rows) < limit THEN Cardinality(rows) ELSE limit
      /\ \A row \in rows : row \in ToSet(s) \/ Cardinality(Before(rows, at, row)) >= limit
      /\ \A row \in rows : s # <<>> /\ at[s[1]] >= at[row]
  BY <1>2, <1>3, SortedFacts
<1>5. \A row \in rows : Before(rows, at, row) = {x \in rows : Newer(x, row)}
  BY <1>1 DEF Before, Newer
<1>6. ASSUME s # <<>> PROVE s[1] \in rows
  <2>1. Len(s) \in Nat /\ Len(s) # 0 /\ \A i \in 1 .. Len(s) : s[i] \in ToSet(s)
    BY <1>4, <1>6, SeqFacts
  <2>2. 1 \in 1 .. Len(s)
    BY <2>1
  <2> QED BY <1>4, <2>1, <2>2
<1>7. \A row \in rows : s # <<>> /\ s[1] \in rows /\ s[1].createdAt >= row.createdAt
  BY <1>1, <1>4, <1>6
<1> QED BY <1>4, <1>5, <1>7

ModulesRead(r, b, t) ==
  /\ IsSeq(r) /\ ToSet(r) \subseteq t.modules
  /\ \A m \in b.modules : \/ m \in ToSet(r)
                          \/ Cardinality({o \in t.modules : Position(o) < Position(m)}) >= ListLimit

VersionsRead(key, r, b, t) ==
  /\ IsSeq(r) /\ ToSet(r) \subseteq {v \in t.versions : v.id[1] = key}
  /\ \A v \in {w \in b.versions : w.id[1] = key} \cup ToSet(r) :
       r # <<>> /\ r[1] \in ToSet(r) /\ r[1].createdAt >= v.createdAt

LatestRead(key, r, b, t) ==
  /\ r # Null => r \in t.versions
  /\ \A v \in b.versions : v.id[1] = key => r # Null /\ r.createdAt >= v.createdAt

ReportsRead(key, r, b, t) ==
  /\ IsSeq(r) /\ ToSet(r) \subseteq {x \in t.reports : x.base[1] = key}
  /\ \A x \in ToSet(r) : r # <<>> /\ r[1] \in ToSet(r) /\ r[1].createdAt >= x.createdAt
  /\ \A x \in b.reports : x.base[1] = key =>
       \/ x \in ToSet(r)
       \/ Cardinality({y \in t.reports : y.base[1] = key /\ Newer(y, x)}) >= ReportsLimit

ReportRead(key, r, t) == r \in t.reports /\ r.id = key

ChangesRead(key, r, t) ==
  \E x \in t.reports :
    x.id = key /\ Cardinality(r) = IF x.count < ChangesLimit THEN x.count ELSE ChangesLimit

ConsumedBy(t, m) == {e \in t.edges : e.consumer[1] = m}
ProvidedBy(t, m) == {e \in t.edges : e.provider[1] = m}
UnresolvedBy(t, m) == {u \in t.unresolved : u.consumer[1] = m}
UsedAs(t, mv) == {u \in t.usages : u.ref = mv /\ u.known}

EdgesRead(r, edges) ==
  /\ edges \subseteq r
  /\ \A e \in r :
       /\ e.source \in Sources
       /\ \A k \in Sources : [consumer |-> e.consumer, provider |-> e.provider, source |-> k] \in r

RequestRead(key, r, b, t) ==
  /\ HasRequest(b, key) => r # Null
  /\ r # Null => /\ r \in RequestRecord /\ r.report = key /\ HasRequest(t, key)
                 /\ Backed(r, RequirementsOf(t, key)) /\ StatusAudited(t, r)

RequirementsRead(key, r, t) ==
  \A q \in r : q.report = key /\ (q.status # "pending" => DecisionMade(t, q))

DecisionsRead(key, r, t) == \A d \in r : d.report = key /\ DecisionAudited(t, d)

ServicesRead(r, b) ==
  /\ IsFiniteSet(r) /\ \A x \in r : x.last \in Nat
  /\ \A x, y \in r : x.last = y.last => x = y
  /\ \A d \in b.deployments : \E x \in r :
       x.service = d.service /\ d.environment \in x.environments /\ x.last >= d.createdAt

\* The lists of the deployments of a service, or of an environment.
DeploymentsRead(r, mine, now) ==
  /\ IsSeq(r) /\ ToSet(r) \subseteq now
  /\ \A d \in mine : d \in ToSet(r) \/ Cardinality({x \in now : Newer(x, d)}) >= ListLimit
OfService(t, s) == {d \in t.deployments : d.service = s}
OfEnvironment(t, e) == {d \in t.deployments : d.environment = e}

UsagesRead(key, r, t) == \A u \in r : u.ref[1] = key /\ (u.known => HasVersion(t, u.ref))

-----------------------------------------------------------------------------
(* As the statements are run. *)

LEMMA Limits ==
  /\ VersionsLimit \in Nat \ {0} /\ ReportsLimit \in Nat \ {0}
  /\ ListLimit \in Nat \ {0} /\ ChangesLimit \in Nat \ {0}
BY TablesAssumption

LEMMA PositionFacts ==
  /\ \A m \in Modules : Position(m) \in Int
  /\ \A m, n \in Modules : Position(m) = Position(n) => m = n
<1>1. Len(ModuleNames) \in Nat /\ DOMAIN ModuleNames = 1 .. Len(ModuleNames)
  BY TablesAssumption
<1>2. \A m \in Modules : Position(m) \in DOMAIN ModuleNames /\ ModuleNames[Position(m)] = m
  BY DEF Position, Modules, ToSet
<1> QED BY <1>1, <1>2

LEMMA ListModulesOK ==
  ASSUME TablesInv, NEW r, r = ListModules
  PROVE  ModulesRead(r, before, db)
<1>1. db.modules \in SUBSET Modules /\ before.modules \subseteq db.modules
  BY DEF TablesInv, TablesOK, VersionsOK, Later
<1>2. PICK rows, at : rows = db.modules /\ at = [m \in rows |-> - Position(m)]
  OBVIOUS
<1>3. r = Sorted(rows, at, ListLimit)
  BY <1>2 DEF ListModules
<1>4. IsFiniteSet(rows)
  BY <1>1, <1>2, ModulesFinite, FS_Subset
<1>5. /\ \A x \in rows : at[x] \in Int
      /\ \A x, y \in rows : at[x] = at[y] => x = y
  BY <1>1, <1>2, PositionFacts
<1>6. /\ IsSeq(r) /\ ToSet(r) \subseteq rows
      /\ \A m \in rows : m \in ToSet(r) \/ Cardinality(Before(rows, at, m)) >= ListLimit
  BY <1>3, <1>4, <1>5, Limits, SortedFacts
<1>7. \A m \in rows : Before(rows, at, m) = {o \in rows : Position(o) < Position(m)}
  BY <1>1, <1>2, PositionFacts DEF Before
<1> QED BY <1>1, <1>2, <1>6, <1>7 DEF ModulesRead

\* The versions of a module as rows to sort.
LEMMA VersionsSorted ==
  ASSUME TablesOK(db), NEW m, NEW rows, rows = VersionsOf(m)
  PROVE  /\ IsFiniteSet(rows) /\ \A x \in rows : x.createdAt \in Nat
         /\ \A x, y \in rows : x.createdAt = y.createdAt => x = y
         /\ rows = {v \in db.versions : v.id[1] = m}
<1>1. rows = {v \in db.versions : v.id[1] = m}
  BY DEF VersionsOf
<1>2. rows \in SUBSET db.versions
  BY <1>1
<1>3. IsFiniteSet(rows)
  BY <1>2, FS_Subset DEF TablesOK, VersionsOK
<1>4. \A x \in rows : x.createdAt \in Nat
  BY <1>1 DEF TablesOK, VersionsOK, VersionRecord
<1>5. \A x, y \in rows : x.createdAt = y.createdAt => x = y
  BY <1>1 DEF TablesOK, VersionsOK
<1> QED BY <1>1, <1>3, <1>4, <1>5

LEMMA ListVersionsOK ==
  ASSUME TablesInv, NEW m, NEW r, r = ListVersionsByModule(m)
  PROVE  VersionsRead(m, r, before, db)
<1>1. PICK rows : rows = VersionsOf(m)
  OBVIOUS
<1>2. /\ IsFiniteSet(rows) /\ \A x \in rows : x.createdAt \in Nat
      /\ \A x, y \in rows : x.createdAt = y.createdAt => x = y
  BY <1>1, VersionsSorted DEF TablesInv
<1>20. rows = {v \in db.versions : v.id[1] = m}
  BY <1>1, VersionsSorted DEF TablesInv
<1>3. r = Newest(rows, VersionsLimit)
  BY <1>1 DEF ListVersionsByModule
<1>4. /\ IsSeq(r) /\ ToSet(r) \subseteq rows
      /\ \A row \in rows : r # <<>> /\ r[1] \in rows /\ r[1].createdAt >= row.createdAt
  BY <1>2, <1>3, Limits, NewestFacts
<1>5. before.versions \subseteq db.versions
  BY DEF TablesInv, Later
<1>6. ASSUME r # <<>> PROVE r[1] \in ToSet(r)
  BY <1>4, <1>6, SeqFacts
<1> QED BY <1>20, <1>4, <1>5, <1>6 DEF VersionsRead

LEMMA GetLatestOK ==
  ASSUME TablesInv, NEW m, NEW r, r = GetLatestByModule(m)
  PROVE  /\ LatestRead(m, r, before, db)
         /\ \A v \in db.versions : v.id[1] = m => r # Null /\ r.createdAt >= v.createdAt
<1>1. PICK rows, s, found : rows = VersionsOf(m) /\ s = Newest(rows, 1) /\ found = ToSet(s)
  OBVIOUS
<1>2. /\ IsFiniteSet(rows) /\ \A x \in rows : x.createdAt \in Nat
      /\ \A x, y \in rows : x.createdAt = y.createdAt => x = y
  BY <1>1, VersionsSorted DEF TablesInv
<1>20. rows = {v \in db.versions : v.id[1] = m}
  BY <1>1, VersionsSorted DEF TablesInv
<1>3. /\ IsSeq(s) /\ found \subseteq rows
      /\ Len(s) = IF Cardinality(rows) < 1 THEN Cardinality(rows) ELSE 1
      /\ \A row \in rows : s # <<>> /\ s[1] \in rows /\ s[1].createdAt >= row.createdAt
  <2>1. PICK limit : limit = 1 /\ limit \in Nat \ {0}
    OBVIOUS
  <2>2. s = Newest(rows, limit)
    BY <1>1, <2>1
  <2>3. /\ IsSeq(s) /\ ToSet(s) \subseteq rows
        /\ Len(s) = IF Cardinality(rows) < limit THEN Cardinality(rows) ELSE limit
        /\ \A row \in rows : s # <<>> /\ s[1] \in rows /\ s[1].createdAt >= row.createdAt
    BY <1>2, <2>1, <2>2, NewestFacts
  <2> QED BY <1>1, <2>1, <2>3
<1>4. r = OneOf(found)
  BY <1>1 DEF GetLatestByModule
<1>5. Null \notin found
  BY <1>20, <1>3, TablesAssumption DEF TablesInv, TablesOK, VersionsOK
<1>6. (r = Null <=> found = {}) /\ (r # Null => r \in found)
  BY <1>4, <1>5, OneOfFacts
<1>7. \A x \in found : x = s[1]
  <2>1. Len(s) <= 1 /\ Len(s) \in Nat
    BY <1>2, <1>3, FS_CardinalityType
  <2>2. \A x \in found : \E i \in 1 .. Len(s) : s[i] = x
    BY <1>1, <1>3, SeqFacts
  <2>3. \A i \in 1 .. Len(s) : i = 1
    BY <2>1
  <2> QED BY <2>2, <2>3
<1>8. \A v \in db.versions : v.id[1] = m => r # Null /\ r.createdAt >= v.createdAt
  <2>1. \A v \in rows : found # {}
    BY <1>1, <1>3, SeqFacts
  <2> QED BY <1>20, <1>3, <1>6, <1>7, <2>1
<1>9. r # Null => r \in db.versions
  BY <1>20, <1>3, <1>6
<1>10. before.versions \subseteq db.versions
  BY DEF TablesInv, Later
<1> QED BY <1>8, <1>9, <1>10 DEF LatestRead

LEMMA ListReportsOK ==
  ASSUME TablesInv, NEW m, NEW r, r = ListReportsByModule(m)
  PROVE  ReportsRead(m, r, before, db)
<1>1. PICK rows : rows = {x \in db.reports : x.base[1] = m}
  OBVIOUS
<1>2. IsFiniteSet(rows)
  <2>1. rows \in SUBSET db.reports /\ IsFiniteSet(db.reports)
    BY <1>1 DEF TablesInv, TablesOK, ReportsOK
  <2> QED BY <2>1, FS_Subset
<1>3. /\ \A x \in rows : x.createdAt \in Nat
      /\ \A x, y \in rows : x.createdAt = y.createdAt => x = y
  BY <1>1 DEF TablesInv, TablesOK, ReportsOK, ReportRecord
<1>4. r = Newest(rows, ReportsLimit)
  BY <1>1 DEF ListReportsByModule
<1>5. /\ IsSeq(r) /\ ToSet(r) \subseteq rows
      /\ \A row \in rows : row \in ToSet(r) \/ Cardinality({x \in rows : Newer(x, row)}) >= ReportsLimit
      /\ \A row \in rows : r # <<>> /\ r[1] \in rows /\ r[1].createdAt >= row.createdAt
  BY <1>2, <1>3, <1>4, Limits, NewestFacts
<1>6. before.reports \subseteq db.reports
  BY DEF TablesInv, Later
<1>7. ASSUME r # <<>> PROVE r[1] \in ToSet(r)
  BY <1>5, <1>7, SeqFacts
<1>8. \A x : {y \in rows : Newer(y, x)} = {y \in db.reports : y.base[1] = m /\ Newer(y, x)}
  BY <1>1
<1> QED BY <1>1, <1>5, <1>6, <1>7, <1>8 DEF ReportsRead

LEMMA GetReportOK ==
  ASSUME TablesOK(db), NEW id, NEW r, r = GetReport(id)
  PROVE  /\ r = Null <=> ~ \E x \in db.reports : x.id = id
         /\ r # Null => ReportRead(id, r, db)
<1>1. PICK rows : rows = {x \in db.reports : x.id = id}
  OBVIOUS
<1>2. Null \notin rows
  BY <1>1, TablesAssumption DEF TablesOK, ReportsOK
<1>3. r = OneOf(rows)
  BY <1>1 DEF GetReport
<1>4. (r = Null <=> rows = {}) /\ (r # Null => r \in rows)
  BY <1>2, <1>3, OneOfFacts
<1> QED BY <1>1, <1>4 DEF ReportRead

LEMMA ListChangesOK ==
  ASSUME TablesOK(db), NEW id, \E x \in db.reports : x.id = id, NEW r, r = ListChangesByReport(id)
  PROVE  ChangesRead(id, r, db)
<1>1. PICK x \in db.reports : x.id = id
  OBVIOUS
<1>2. x.count \in Nat
  BY DEF TablesOK, ReportsOK, ReportRecord
<1>3. PICK n : n = IF x.count < ChangesLimit THEN x.count ELSE ChangesLimit
  OBVIOUS
<1>4. n \in Nat /\ 1 .. n = {i \in 1 .. x.count : i <= ChangesLimit}
  BY <1>2, <1>3, Limits
<1>5. {c \in db.changes : c.report = id} = {[report |-> id, number |-> i] : i \in 1 .. x.count}
  BY <1>1 DEF TablesOK, ReportsOK
<1>6. r = {c \in {d \in db.changes : d.report = id} : c.number <= ChangesLimit}
  BY DEF ListChangesByReport
<1>7. r = {[report |-> id, number |-> i] : i \in 1 .. n}
  BY <1>4, <1>5, <1>6
<1>8. PICK f : f = [i \in 1 .. n |-> [report |-> id, number |-> i]]
  OBVIOUS
<1>9. f \in Injection(1 .. n, r) /\ f \in Surjection(1 .. n, r)
  BY <1>7, <1>8 DEF Injection, IsInjective, Surjection
<1>10. IsFiniteSet(1 .. n) /\ Cardinality(1 .. n) = n
  BY <1>4, FS_Interval
<1>11. Cardinality(r) = n
  BY <1>9, <1>10, FS_Surjection
<1> QED BY <1>1, <1>3, <1>11 DEF ChangesRead

LEMMA ListEdgesOK ==
  ASSUME TablesInv, NEW m
  PROVE  /\ EdgesRead(ListUpstreamByModule(m), ConsumedBy(before, m))
         /\ EdgesRead(ListDownstreamByModule(m), ProvidedBy(before, m))
         /\ UnresolvedBy(before, m) \subseteq ListUnresolvedByModule(m)
<1>1. /\ before.edges \subseteq db.edges /\ before.unresolved \subseteq db.unresolved
      /\ \A e \in db.edges :
           /\ e.source \in Sources
           /\ \A k \in Sources :
                [consumer |-> e.consumer, provider |-> e.provider, source |-> k] \in db.edges
  BY DEF TablesInv, TablesOK, EdgesOK, Later
<1> QED BY <1>1 DEF EdgesRead, ListUpstreamByModule, ListDownstreamByModule, ListUnresolvedByModule,
                    ConsumedBy, ProvidedBy, UnresolvedBy

LEMMA GetRequestOK ==
  ASSUME TablesInv, NEW id, NEW r, r = GetRequestByBreakingReportID(id)
  PROVE  RequestRead(id, r, before, db)
<1>1. /\ r = Null <=> ~ HasRequest(db, id)
      /\ r # Null => r \in db.requests /\ r.report = id
  BY GetRequest DEF TablesInv
<1>2. HasRequest(before, id) => HasRequest(db, id)
  BY DEF TablesInv, Later, HasRequest
<1>3. r # Null => r \in RequestRecord /\ Backed(r, RequirementsOf(db, id)) /\ StatusAudited(db, r)
  BY <1>1 DEF TablesInv, TablesOK, ApprovalsOK
<1> QED BY <1>1, <1>2, <1>3 DEF RequestRead

LEMMA ApprovalRowsOK ==
  ASSUME TablesInv, NEW id
  PROVE  /\ RequirementsRead(id, ListRequirements(id), db)
         /\ DecisionsRead(id, ListDecisions(id), db)
BY DEF TablesInv, TablesOK, ApprovalsOK, RequirementsRead, DecisionsRead, ListRequirements,
       ListDecisions

\* The deployments of a service or an environment as rows to sort.
LEMMA DeploymentsSorted ==
  ASSUME TablesOK(db), NEW rows \in SUBSET db.deployments, NEW r, r = Newest(rows, ListLimit)
  PROVE  /\ IsSeq(r) /\ ToSet(r) \subseteq rows
         /\ \A d \in rows : d \in ToSet(r) \/ Cardinality({x \in rows : Newer(x, d)}) >= ListLimit
         /\ \A d \in rows : r # <<>> /\ r[1] \in rows /\ r[1].createdAt >= d.createdAt
<1>1. IsFiniteSet(rows)
  BY FS_Subset DEF TablesOK, RuntimeOK
<1>2. /\ \A x \in rows : x.createdAt \in Nat
      /\ \A x, y \in rows : x.createdAt = y.createdAt => x = y
  BY DEF TablesOK, RuntimeOK
<1> QED BY <1>1, <1>2, Limits, NewestFacts

LEMMA ListDeploymentsOK ==
  ASSUME TablesInv, NEW key
  PROVE  /\ DeploymentsRead(ListDeploymentsByService(key), OfService(before, key), OfService(db, key))
         /\ DeploymentsRead(ListDeploymentsByEnvironment(key),
                            OfEnvironment(before, key), OfEnvironment(db, key))
<1>1. before.deployments \subseteq db.deployments /\ TablesOK(db)
  BY DEF TablesInv, Later
<1>2. PICK rows, r : rows = OfService(db, key) /\ r = ListDeploymentsByService(key)
  OBVIOUS
<1>3. rows \in SUBSET db.deployments /\ r = Newest(rows, ListLimit)
  BY <1>2 DEF OfService, ListDeploymentsByService
<1>4. /\ IsSeq(r) /\ ToSet(r) \subseteq rows
      /\ \A d \in rows : d \in ToSet(r) \/ Cardinality({x \in rows : Newer(x, d)}) >= ListLimit
  BY <1>1, <1>3, DeploymentsSorted
<1>5. OfService(before, key) \subseteq rows
  BY <1>1, <1>2 DEF OfService
<1>6. DeploymentsRead(r, OfService(before, key), rows)
  BY <1>4, <1>5 DEF DeploymentsRead
<1>7. PICK there, s : there = OfEnvironment(db, key) /\ s = ListDeploymentsByEnvironment(key)
  OBVIOUS
<1>8. there \in SUBSET db.deployments /\ s = Newest(there, ListLimit)
  BY <1>7 DEF OfEnvironment, ListDeploymentsByEnvironment
<1>9. /\ IsSeq(s) /\ ToSet(s) \subseteq there
      /\ \A d \in there : d \in ToSet(s) \/ Cardinality({x \in there : Newer(x, d)}) >= ListLimit
  BY <1>1, <1>8, DeploymentsSorted
<1>10. OfEnvironment(before, key) \subseteq there
  BY <1>1, <1>7 DEF OfEnvironment
<1>11. DeploymentsRead(s, OfEnvironment(before, key), there)
  BY <1>9, <1>10 DEF DeploymentsRead
<1> QED BY <1>2, <1>6, <1>7, <1>11

LEMMA ListServicesOK ==
  ASSUME TablesInv, NEW r, r = ListRuntimeServices
  PROVE  ServicesRead(r, before)
<1>1. PICK f, newest :
        /\ newest = [s \in db.services |-> ListDeploymentsByService(s)[1]]
        /\ f = [s \in db.services |->
                  [service |-> s, last |-> ListDeploymentsByService(s)[1].createdAt,
                   environments |-> {d.environment : d \in {x \in db.deployments : x.service = s}}]]
  OBVIOUS
<1>2. r = {f[s] : s \in db.services}
  BY <1>1 DEF ListRuntimeServices
<1>3. \A s \in db.services :
        /\ f[s].service = s /\ f[s].last = newest[s].createdAt
        /\ \A d \in OfService(db, s) : d.environment \in f[s].environments
  BY <1>1 DEF OfService
<1>4. /\ TablesOK(db) /\ IsFiniteSet(db.services)
      /\ \A d \in db.deployments : d.service \in db.services /\ d.createdAt \in Nat
      /\ \A d, e \in db.deployments : d.createdAt = e.createdAt => d = e
      /\ \A s \in db.services : \E d \in db.deployments : d.service = s
      /\ before.deployments \subseteq db.deployments
  BY DEF TablesInv, TablesOK, RuntimeOK, Later
<1>5. ASSUME NEW s \in db.services
      PROVE  /\ newest[s] \in OfService(db, s)
             /\ \A d \in OfService(db, s) : newest[s].createdAt >= d.createdAt
  <2>1. PICK rows, l : rows = OfService(db, s) /\ l = ListDeploymentsByService(s)
    OBVIOUS
  <2>2. rows \in SUBSET db.deployments /\ l = Newest(rows, ListLimit)
    BY <2>1 DEF OfService, ListDeploymentsByService
  <2>3. \A d \in rows : l # <<>> /\ l[1] \in rows /\ l[1].createdAt >= d.createdAt
    BY <1>4, <2>2, DeploymentsSorted
  <2>4. rows # {}
    BY <1>4, <2>1 DEF OfService
  <2>5. newest[s] = l[1]
    BY <1>1, <2>1
  <2> QED BY <2>1, <2>3, <2>4, <2>5
<1>6. IsFiniteSet(r)
  BY <1>2, <1>4, FiniteImage
<1>7. \A s \in db.services : newest[s] \in db.deployments /\ newest[s].service = s
  BY <1>5 DEF OfService
<1>8. \A x \in r : x.last \in Nat
  BY <1>2, <1>3, <1>4, <1>7
<1>9. \A x, y \in r : x.last = y.last => x = y
  <2> TAKE x, y \in r
  <2>1a. PICK s \in db.services : x = f[s]
    BY <1>2
  <2>1b. PICK u \in db.services : y = f[u]
    BY <1>2
  <2>1. x = f[s] /\ y = f[u]
    BY <2>1a, <2>1b
  <2>1c. PICK d \in db.deployments, e \in db.deployments : d = newest[s] /\ e = newest[u]
    BY <1>7
  <2>1d. x.last = d.createdAt /\ y.last = e.createdAt
    BY ONLY <1>3, <2>1, <2>1c
  <2>2. x.last = y.last => newest[s] = newest[u]
    BY ONLY <1>4, <2>1c, <2>1d
  <2>3. newest[s] = newest[u] => s = u
    BY <1>7
  <2> QED BY <2>1, <2>2, <2>3
<1>10. ASSUME NEW d \in before.deployments
       PROVE  \E x \in r :
                x.service = d.service /\ d.environment \in x.environments /\ x.last >= d.createdAt
  <2>1. d \in db.deployments /\ d.service \in db.services /\ d \in OfService(db, d.service)
    BY <1>4 DEF OfService
  <2>2. f[d.service] \in r
    BY <1>2, <2>1
  <2>3. f[d.service].last >= d.createdAt
    BY <1>3, <1>5, <2>1
  <2> QED BY <1>3, <2>1, <2>2, <2>3
<1> QED BY <1>6, <1>8, <1>9, <1>10 DEF ServicesRead

LEMMA ListUsagesOK ==
  ASSUME TablesInv, NEW key
  PROVE  /\ UsagesRead(key, ListModuleRuntimeUsages(key), db)
         /\ UsedAs(before, key) \subseteq ListRuntimeImpact(key)
         /\ (\E d \in db.deployments : d.id = key) => ListUsagesByDeployment(key) # {}
<1>1. before.usages \subseteq db.usages
  BY DEF TablesInv, Later
<1>2. /\ \A u \in db.usages : u.known => HasVersion(db, u.ref)
      /\ \A d \in db.deployments : \E u \in db.usages : u.deployment = d.id
  BY DEF TablesInv, TablesOK, RuntimeOK
<1>3. UsagesRead(key, ListModuleRuntimeUsages(key), db)
  BY <1>2 DEF UsagesRead, ListModuleRuntimeUsages
<1>4. UsedAs(before, key) \subseteq ListRuntimeImpact(key)
  BY <1>1 DEF ListRuntimeImpact, UsedAs
<1>5. (\E d \in db.deployments : d.id = key) => ListUsagesByDeployment(key) # {}
  BY <1>2 DEF ListUsagesByDeployment
<1> QED BY <1>3, <1>4, <1>5

LEMMA VersionPartsOK ==
  ASSUME TablesOK(db), NEW mv, HasVersion(db, mv)
  PROVE  ListArtifacts(mv) = Kinds /\ GetBufConfig(mv) /\ GetMetadataSummary(mv) /\ GetMetadata(mv)
<1>1. /\ mv \in db.configs /\ mv \in db.metadata
      /\ \A k \in Kinds : [version |-> mv, kind |-> k] \in db.artifacts
      /\ \A x \in db.artifacts : x.kind \in Kinds
  BY DEF HasVersion, TablesOK, VersionsOK
<1>2. ListArtifacts(mv) = Kinds
  <2>1. ListArtifacts(mv) \subseteq Kinds
    BY <1>1 DEF ListArtifacts
  <2>2. ASSUME NEW k \in Kinds PROVE k \in ListArtifacts(mv)
    <3>1. PICK x \in db.artifacts : x.version = mv /\ x.kind = k
      BY <1>1
    <3> QED BY <3>1 DEF ListArtifacts
  <2> QED BY <2>1, <2>2
<1> QED BY <1>1, <1>2 DEF GetBufConfig, GetMetadataSummary, GetMetadata

-----------------------------------------------------------------------------
(* What was found stays true of the tables as they grow. *)

LEMMA MoreRows ==
  ASSUME NEW A, NEW B, A \in SUBSET B, IsFiniteSet(B), NEW n \in Nat, Cardinality(A) >= n
  PROVE  Cardinality(B) >= n
<1>1. IsFiniteSet(A) /\ Cardinality(A) <= Cardinality(B)
  BY FS_Subset
<1>2. Cardinality(A) \in Nat /\ Cardinality(B) \in Nat
  BY <1>1, FS_CardinalityType
<1> QED BY <1>1, <1>2

LEMMA ModulesKept ==
  ASSUME NEW t, NEW u, Wrote(t, u), NEW b, NEW r, ModulesRead(r, b, t)
  PROVE  ModulesRead(r, b, u)
<1>1. t.modules \subseteq u.modules /\ u.modules \in SUBSET Modules
  BY DEF Wrote, Later, TablesOK, VersionsOK
<1>2. ASSUME NEW m, Cardinality({o \in t.modules : Position(o) < Position(m)}) >= ListLimit
      PROVE  Cardinality({o \in u.modules : Position(o) < Position(m)}) >= ListLimit
  <2>1. PICK A, B : /\ A = {o \in t.modules : Position(o) < Position(m)}
                    /\ B = {o \in u.modules : Position(o) < Position(m)}
    OBVIOUS
  <2>2. A \in SUBSET B /\ B \in SUBSET Modules
    BY <1>1, <2>1
  <2>3. IsFiniteSet(B)
    BY <2>2, ModulesFinite, FS_Subset
  <2>4. Cardinality(A) >= ListLimit
    BY <1>2, <2>1
  <2>5. Cardinality(B) >= ListLimit
    BY <2>2, <2>3, <2>4, Limits, MoreRows
  <2> QED BY <2>1, <2>5
<1> QED BY <1>1, <1>2 DEF ModulesRead

LEMMA VersionsKept ==
  ASSUME NEW t, NEW u, Wrote(t, u), NEW b, NEW key, NEW r
  PROVE  /\ VersionsRead(key, r, b, t) => VersionsRead(key, r, b, u)
         /\ LatestRead(key, r, b, t) => LatestRead(key, r, b, u)
         /\ HasVersion(t, key) => HasVersion(u, key)
         /\ UsagesRead(key, r, t) => UsagesRead(key, r, u)
<1>1. t.versions \subseteq u.versions
  BY DEF Wrote, Later
<1>2. VersionsRead(key, r, b, t) => VersionsRead(key, r, b, u)
  BY <1>1 DEF VersionsRead
<1>3. LatestRead(key, r, b, t) => LatestRead(key, r, b, u)
  BY <1>1 DEF LatestRead
<1>4. HasVersion(t, key) => HasVersion(u, key)
  BY <1>1 DEF HasVersion
<1>5. UsagesRead(key, r, t) => UsagesRead(key, r, u)
  BY <1>1 DEF UsagesRead, HasVersion
<1> QED BY <1>2, <1>3, <1>4, <1>5

LEMMA ReportsKept ==
  ASSUME NEW t, NEW u, Wrote(t, u), NEW b, NEW key, NEW r
  PROVE  /\ ReportsRead(key, r, b, t) => ReportsRead(key, r, b, u)
         /\ ReportRead(key, r, t) => ReportRead(key, r, u)
         /\ ChangesRead(key, r, t) => ChangesRead(key, r, u)
<1>1. t.reports \subseteq u.reports /\ IsFiniteSet(u.reports)
  BY DEF Wrote, Later, TablesOK, ReportsOK
<1>2. ASSUME NEW x, Cardinality({y \in t.reports : y.base[1] = key /\ Newer(y, x)}) >= ReportsLimit
      PROVE  Cardinality({y \in u.reports : y.base[1] = key /\ Newer(y, x)}) >= ReportsLimit
  <2>1. PICK A, B : /\ A = {y \in t.reports : y.base[1] = key /\ Newer(y, x)}
                    /\ B = {y \in u.reports : y.base[1] = key /\ Newer(y, x)}
    OBVIOUS
  <2>2. A \in SUBSET B /\ B \in SUBSET u.reports
    BY <1>1, <2>1
  <2>3. IsFiniteSet(B)
    BY <1>1, <2>2, FS_Subset
  <2>4. Cardinality(A) >= ReportsLimit
    BY <1>2, <2>1
  <2>5. Cardinality(B) >= ReportsLimit
    BY <2>2, <2>3, <2>4, Limits, MoreRows
  <2> QED BY <2>1, <2>5
<1>3. ReportsRead(key, r, b, t) => ReportsRead(key, r, b, u)
  BY <1>1, <1>2 DEF ReportsRead
<1>4. ReportRead(key, r, t) => ReportRead(key, r, u)
  BY <1>1 DEF ReportRead
<1>5. ChangesRead(key, r, t) => ChangesRead(key, r, u)
  BY <1>1 DEF ChangesRead
<1> QED BY <1>3, <1>4, <1>5

LEMMA ApprovalRowsKept ==
  ASSUME NEW t, NEW u, Wrote(t, u), NEW b, NEW key, NEW r
  PROVE  /\ RequestRead(key, r, b, t) => RequestRead(key, r, b, u)
         /\ RequirementsRead(key, r, t) => RequirementsRead(key, r, u)
         /\ DecisionsRead(key, r, t) => DecisionsRead(key, r, u)
<1>1. /\ t.decisions \subseteq u.decisions /\ t.audit \subseteq u.audit
      /\ \A x \in t.requirements : x.status # "pending" => x \in u.requirements
      /\ \A q \in t.requests : \A x \in RequirementsOf(u, q.report) :
           \/ x \in t.requirements
           \/ \E s \in RequirementsOf(t, q.report) : s.status = "pending"
  BY DEF Wrote, ApprovalsLater
<1>2. RequirementsRead(key, r, t) => RequirementsRead(key, r, u)
  BY <1>1 DEF RequirementsRead, DecisionMade
<1>3. DecisionsRead(key, r, t) => DecisionsRead(key, r, u)
  BY <1>1 DEF DecisionsRead, DecisionAudited
<1>4. ASSUME RequestRead(key, r, b, t), r # Null PROVE RequestRead(key, r, b, u)
  <2>1. /\ r \in RequestRecord /\ r.report = key /\ HasRequest(t, key) /\ StatusAudited(t, r)
        /\ Backed(r, RequirementsOf(t, key))
    BY <1>4 DEF RequestRead
  <2>2. HasRequest(u, key)
    BY <2>1 DEF HasRequest, Wrote, Later
  <2>3. StatusAudited(u, r)
    BY <1>1, <2>1 DEF StatusAudited
  <2>4. PICK R, S : R = RequirementsOf(t, key) /\ S = RequirementsOf(u, key)
    OBVIOUS
  <2>5. \A x \in S : x \in R \/ \E s \in R : s.status = "pending"
    <3>1. PICK q \in t.requests : q.report = key
      BY <2>1 DEF HasRequest
    <3>2. \A x \in S : x \in t.requirements \/ \E s \in R : s.status = "pending"
      BY <1>1, <2>4, <3>1
    <3>3. \A x \in S : x \in t.requirements => x \in R
      BY <2>4 DEF RequirementsOf
    <3> QED BY <3>2, <3>3
  <2>6. \A x \in R : x.status # "pending" => x \in S
    BY <1>1, <2>4 DEF RequirementsOf
  <2>7. r.status = "approved" => \A x \in S : x.status = "approved"
    BY <2>1, <2>4, <2>5 DEF Backed
  <2>8. r.status = "rejected" => \E x \in S : x.status = "rejected"
    BY <2>1, <2>4, <2>6 DEF Backed
  <2>9. r.received <= Cardinality(ApprovedOf(S))
    <3>1. PICK A, B : A = ApprovedOf(R) /\ B = ApprovedOf(S)
      OBVIOUS
    <3>2. A \in SUBSET B
      BY <2>6, <3>1 DEF ApprovedOf
    <3>3. B \in SUBSET u.requirements
      BY <2>4, <3>1 DEF ApprovedOf, RequirementsOf
    <3>4. IsFiniteSet(B)
      BY <3>3, FS_Subset DEF Wrote, TablesOK, ApprovalsOK
    <3>5. Cardinality(A) <= Cardinality(B)
      BY <3>2, <3>4, FS_Subset
    <3>6. r.received \in Nat /\ r.received <= Cardinality(A)
      BY <2>1, <2>4, <3>1 DEF Backed, RequestRecord
    <3>7. Cardinality(A) \in Nat /\ Cardinality(B) \in Nat
      BY <3>2, <3>4, FS_Subset, FS_CardinalityType
    <3> QED BY <3>1, <3>5, <3>6, <3>7
  <2>10. Backed(r, RequirementsOf(u, key))
    BY <2>4, <2>7, <2>8, <2>9 DEF Backed
  <2> QED BY <1>4, <2>1, <2>2, <2>3, <2>10 DEF RequestRead
<1>5. ASSUME RequestRead(key, r, b, t), r = Null PROVE RequestRead(key, r, b, u)
  BY <1>5 DEF RequestRead
<1> QED BY <1>2, <1>3, <1>4, <1>5

LEMMA DeploymentsKept ==
  ASSUME NEW t, NEW u, Wrote(t, u), NEW b, NEW key, NEW r
  PROVE  /\ DeploymentsRead(r, OfService(b, key), OfService(t, key)) =>
              DeploymentsRead(r, OfService(b, key), OfService(u, key))
         /\ DeploymentsRead(r, OfEnvironment(b, key), OfEnvironment(t, key)) =>
              DeploymentsRead(r, OfEnvironment(b, key), OfEnvironment(u, key))
<1>1. t.deployments \subseteq u.deployments /\ IsFiniteSet(u.deployments)
  BY DEF Wrote, Later, TablesOK, RuntimeOK
<1>2. ASSUME NEW mine, NEW now, NEW then, now \subseteq then, then \in SUBSET u.deployments,
             DeploymentsRead(r, mine, now)
      PROVE  DeploymentsRead(r, mine, then)
  <2>1. ASSUME NEW d, Cardinality({x \in now : Newer(x, d)}) >= ListLimit
        PROVE  Cardinality({x \in then : Newer(x, d)}) >= ListLimit
    <3>1. PICK A, B : A = {x \in now : Newer(x, d)} /\ B = {x \in then : Newer(x, d)}
      OBVIOUS
    <3>2. A \in SUBSET B /\ B \in SUBSET u.deployments
      BY <1>2, <3>1
    <3>3. IsFiniteSet(B)
      BY <1>1, <3>2, FS_Subset
    <3>4. Cardinality(A) >= ListLimit
      BY <2>1, <3>1
    <3>5. Cardinality(B) >= ListLimit
      BY <3>2, <3>3, <3>4, Limits, MoreRows
    <3> QED BY <3>1, <3>5
  <2> QED BY <1>2, <2>1 DEF DeploymentsRead
<1>3. /\ OfService(t, key) \subseteq OfService(u, key) /\ OfService(u, key) \in SUBSET u.deployments
      /\ OfEnvironment(t, key) \subseteq OfEnvironment(u, key)
      /\ OfEnvironment(u, key) \in SUBSET u.deployments
  BY <1>1 DEF OfService, OfEnvironment
<1> QED BY <1>2, <1>3

-----------------------------------------------------------------------------
(* The statements of a page. *)

\* The same of a function written out.
LEMMA SeqElements ==
  ASSUME NEW n \in Nat, NEW f, IsList(f, n)
  PROVE  /\ IsSeq(f) /\ Len(f) = n /\ \A i \in 1 .. n : f[i] \in ToSet(f)
         /\ \A x \in ToSet(f) : \E i \in 1 .. n : f[i] = x
<1>1. IsSeq(f) /\ Len(f) = n
  BY SeqFrom
<1> QED BY <1>1, SeqFacts

LEMMA ForFacts ==
  ASSUME NEW st, NEW keys, IsSeq(keys), NEW s, s = For(st, keys)
  PROVE  /\ IsSeq(s) /\ Len(s) = Len(keys) /\ ToSet(s) = {<<st, k>> : k \in ToSet(keys)}
<1>1. PICK n : n = Len(keys)
  OBVIOUS
<1>2. /\ n \in Nat /\ \A i \in 1 .. n : keys[i] \in ToSet(keys)
      /\ \A x \in ToSet(keys) : \E i \in 1 .. n : keys[i] = x
  BY <1>1, SeqFacts
<1>3. s = [i \in 1 .. n |-> <<st, keys[i]>>]
  BY <1>1 DEF For
<1>4. IsList(s, n)
  BY <1>3 DEF IsList
<1>5. /\ IsSeq(s) /\ Len(s) = n /\ \A i \in 1 .. n : s[i] \in ToSet(s)
      /\ \A x \in ToSet(s) : \E i \in 1 .. n : s[i] = x
  BY <1>2, <1>4, SeqElements
<1>6. \A i \in 1 .. n : s[i] = <<st, keys[i]>>
  BY <1>3
<1>7. ASSUME NEW p \in ToSet(s) PROVE p \in {<<st, k>> : k \in ToSet(keys)}
  <2>1. PICK i \in 1 .. n : s[i] = p
    BY <1>5
  <2>2. p = <<st, keys[i]>> /\ keys[i] \in ToSet(keys)
    BY <1>2, <1>6, <2>1
  <2> QED BY <2>2
<1>8. ASSUME NEW k \in ToSet(keys) PROVE <<st, k>> \in ToSet(s)
  <2>1. PICK i \in 1 .. n : keys[i] = k
    BY <1>2
  <2>2. s[i] \in ToSet(s) /\ s[i] = <<st, keys[i]>>
    BY <1>5, <1>6
  <2> QED BY <2>1, <2>2
<1>9. ToSet(s) = {<<st, k>> : k \in ToSet(keys)}
  BY <1>7, <1>8
<1> QED BY <1>1, <1>5, <1>9

LEMMA AllFacts ==
  ASSUME NEW sts, IsSeq(sts), NEW key, NEW s, s = All(sts, key)
  PROVE  /\ IsSeq(s) /\ Len(s) = Len(sts) /\ ToSet(s) = {<<x, key>> : x \in ToSet(sts)}
         /\ \A i \in 1 .. Len(sts) : s[i] = <<sts[i], key>>
<1>1. PICK n : n = Len(sts)
  OBVIOUS
<1>2. /\ n \in Nat /\ \A i \in 1 .. n : sts[i] \in ToSet(sts)
      /\ \A x \in ToSet(sts) : \E i \in 1 .. n : sts[i] = x
  BY <1>1, SeqFacts
<1>3. s = [i \in 1 .. n |-> <<sts[i], key>>]
  BY <1>1 DEF All
<1>4. IsList(s, n)
  BY <1>3 DEF IsList
<1>5. /\ IsSeq(s) /\ Len(s) = n /\ \A i \in 1 .. n : s[i] \in ToSet(s)
      /\ \A x \in ToSet(s) : \E i \in 1 .. n : s[i] = x
  BY <1>2, <1>4, SeqElements
<1>6. \A i \in 1 .. n : s[i] = <<sts[i], key>>
  BY <1>3
<1>7. ASSUME NEW p \in ToSet(s) PROVE p \in {<<x, key>> : x \in ToSet(sts)}
  <2>1. PICK i \in 1 .. n : s[i] = p
    BY <1>5
  <2>2. p = <<sts[i], key>> /\ sts[i] \in ToSet(sts)
    BY <1>2, <1>6, <2>1
  <2> QED BY <2>2
<1>8. ASSUME NEW x \in ToSet(sts) PROVE <<x, key>> \in ToSet(s)
  <2>1. PICK i \in 1 .. n : sts[i] = x
    BY <1>2
  <2>2. s[i] \in ToSet(s) /\ s[i] = <<sts[i], key>>
    BY <1>5, <1>6
  <2> QED BY <2>1, <2>2
<1>9. ToSet(s) = {<<x, key>> : x \in ToSet(sts)}
  BY <1>7, <1>8
<1> QED BY <1>1, <1>5, <1>6, <1>9

LEMMA MatchingFacts ==
  ASSUME NEW list, IsSeq(list), NEW filter, NEW s, s = Matching(list, filter)
  PROVE  Reads(s, IF filter = Null THEN ToSet(list) ELSE {filter} \cap ToSet(list))
<1>1. CASE filter = Null
  BY <1>1 DEF Matching, Reads
<1>2. CASE filter # Null /\ filter \in ToSet(list)
  <2>1. s = <<filter>>
    BY <1>2 DEF Matching
  <2>2. IsSeq(s) /\ ToSet(s) = {filter}
    BY <2>1, Reads1 DEF Reads
  <2> QED BY <1>2, <2>2 DEF Reads
<1>3. CASE filter # Null /\ filter \notin ToSet(list)
  <2>1. s = <<>>
    BY <1>3 DEF Matching
  <2>2. IsSeq(s) /\ ToSet(s) = {}
    BY <2>1, NoElements
  <2> QED BY <1>3, <2>2 DEF Reads
<1> QED BY <1>1, <1>2, <1>3

Parts == {"artifacts", "config", "summary"}

LEMMA Thirds ==
  ASSUME NEW j \in Nat, NEW k \in 1 .. 3, NEW i, i = 3 * (j - 1) + k
  PROVE  (i - 1) % 3 = k - 1 /\ (i + 2) \div 3 = j
<1>1. CASE k = 1
  BY <1>1
<1>2. CASE k = 2
  BY <1>2
<1>3. CASE k = 3
  BY <1>3
<1> QED BY <1>1, <1>2, <1>3

\* The details of the versions of a module.
LEMMA PartsReads ==
  ASSUME NEW versions, IsSeq(versions), NEW s, s = VersionReads(versions)
  PROVE  Reads(s, {<<x, v.id>> : x \in Parts, v \in ToSet(versions)})
<1>1. PICK n, names : n = 3 * Len(versions) /\ names = <<"artifacts", "config", "summary">>
  OBVIOUS
<1>2. /\ Len(versions) \in Nat /\ \A j \in 1 .. Len(versions) : versions[j] \in ToSet(versions)
      /\ \A x \in ToSet(versions) : \E j \in 1 .. Len(versions) : versions[j] = x
  BY SeqFacts
<1>3. IsList(s, n) /\ n \in Nat
  BY <1>1, <1>2 DEF VersionReads, IsList
<1>4. \A i \in 1 .. n : s[i] = <<names[((i - 1) % 3) + 1], versions[(i + 2) \div 3].id>>
  BY <1>1 DEF VersionReads
<1>5. /\ IsSeq(s) /\ \A i \in 1 .. n : s[i] \in ToSet(s)
      /\ \A x \in ToSet(s) : \E i \in 1 .. n : s[i] = x
  BY <1>3, SeqElements
<1>6. names[1] = "artifacts" /\ names[2] = "config" /\ names[3] = "summary"
  BY <1>1
<1>7. \A k \in 1 .. 3 : names[k] \in Parts
  <2>1. \A k \in 1 .. 3 : k = 1 \/ k = 2 \/ k = 3
    OBVIOUS
  <2> QED BY <1>6, <2>1 DEF Parts
<1>8. \A x \in Parts : \E k \in 1 .. 3 : names[k] = x
  BY <1>6 DEF Parts
<1>9. \A i \in 1 .. n : ((i - 1) % 3) + 1 \in 1 .. 3 /\ (i + 2) \div 3 \in 1 .. Len(versions)
  BY <1>1, <1>2
<1>10. \A k \in 1 .. 3, j \in 1 .. Len(versions) : \E i \in 1 .. n :
         ((i - 1) % 3) + 1 = k /\ (i + 2) \div 3 = j
  <2> TAKE k \in 1 .. 3, j \in 1 .. Len(versions)
  <2>1. PICK i : i = 3 * (j - 1) + k
    OBVIOUS
  <2>2. i \in 1 .. n
    BY <1>1, <1>2, <2>1
  <2>3. (i - 1) % 3 = k - 1 /\ (i + 2) \div 3 = j
    <3>1. j \in Nat
      BY <1>2
    <3> QED BY <2>1, <3>1, Thirds
  <2> QED BY <2>2, <2>3
<1>11. ASSUME NEW p \in ToSet(s) PROVE p \in {<<x, v.id>> : x \in Parts, v \in ToSet(versions)}
  <2>1. PICK i \in 1 .. n : s[i] = p
    BY <1>5
  <2>2. PICK k \in 1 .. 3, j \in 1 .. Len(versions) : p = <<names[k], versions[j].id>>
    BY <1>4, <1>9, <2>1
  <2> QED BY <1>2, <1>7, <2>2
<1>12. ASSUME NEW x \in Parts, NEW v \in ToSet(versions) PROVE <<x, v.id>> \in ToSet(s)
  <2>1. PICK k \in 1 .. 3, j \in 1 .. Len(versions) : names[k] = x /\ versions[j] = v
    BY <1>2, <1>8
  <2>2. PICK i \in 1 .. n : ((i - 1) % 3) + 1 = k /\ (i + 2) \div 3 = j
    BY <1>10
  <2> QED BY <1>4, <1>5, <2>1, <2>2
<1> QED BY <1>5, <1>11, <1>12 DEF Reads

LEMMA Joined ==
  ASSUME NEW a, NEW b, NEW A, NEW B, Reads(a, A), Reads(b, B)
  PROVE  Reads(a \o b, A \cup B)
BY ConcatSeq DEF Reads

LEMMA OverviewReads ==
  ASSUME NEW kind, NEW m, NEW versions, IsSeq(versions), NEW s, s = ModuleOverviewReads(kind, m, versions)
  PROVE  Reads(s, {<<"reports", m>>, <<"owners", m>>, <<"link", m>>}
                  \cup (IF kind = "modules" THEN {} ELSE {<<x, v.id>> : x \in Parts, v \in ToSet(versions)})
                  \cup (IF versions = <<>> THEN {<<"latest", m>>} ELSE {}))
<1>1. PICK none, first, details, link, latest :
        /\ none = <<>> /\ first = All(<<"reports", "owners">>, m) /\ link = <<<<"link", m>>>>
        /\ details = VersionReads(versions) /\ latest = <<<<"latest", m>>>>
  OBVIOUS
<1>2. Reads(none, {})
  BY <1>1, NoElements DEF Reads
<1>3. Reads(first, {<<"reports", m>>, <<"owners", m>>})
  <2>1. PICK sts : sts = <<"reports", "owners">>
    OBVIOUS
  <2>2. IsSeq(sts) /\ ToSet(sts) = {"reports", "owners"}
    BY <2>1, Reads2 DEF Reads
  <2>3. IsSeq(first) /\ ToSet(first) = {<<x, m>> : x \in {"reports", "owners"}}
    BY <1>1, <2>1, <2>2, AllFacts
  <2> QED BY <2>3 DEF Reads
<1>4. Reads(link, {<<"link", m>>}) /\ Reads(latest, {<<"latest", m>>})
  BY <1>1, Reads1 DEF Reads
<1>5. Reads(details, {<<x, v.id>> : x \in Parts, v \in ToSet(versions)})
  BY <1>1, PartsReads
<1>6. PICK mid, end :
        /\ mid = (IF kind = "modules" THEN none ELSE details)
        /\ end = (IF versions = <<>> THEN latest ELSE none)
  OBVIOUS
<1> DEFINE M == IF kind = "modules" THEN {} ELSE {<<x, v.id>> : x \in Parts, v \in ToSet(versions)}
           E == IF versions = <<>> THEN {<<"latest", m>>} ELSE {}
<1>7. s = ((first \o mid) \o link) \o end
  BY <1>1, <1>6 DEF ModuleOverviewReads
<1>8. Reads(mid, M) /\ Reads(end, E)
  BY <1>2, <1>4, <1>5, <1>6
<1> HIDE DEF M, E
<1>9. Reads(first \o mid, {<<"reports", m>>, <<"owners", m>>} \cup M)
  BY <1>3, <1>8, Joined
<1>10. Reads((first \o mid) \o link, ({<<"reports", m>>, <<"owners", m>>} \cup M) \cup {<<"link", m>>})
  BY <1>4, <1>9, Joined
<1>11. Reads(s, (({<<"reports", m>>, <<"owners", m>>} \cup M) \cup {<<"link", m>>}) \cup E)
  BY <1>7, <1>8, <1>10, Joined
<1>12. (({<<"reports", m>>, <<"owners", m>>} \cup M) \cup {<<"link", m>>}) \cup E
       = {<<"reports", m>>, <<"owners", m>>, <<"link", m>>} \cup M \cup E
  OBVIOUS
<1>15. Reads(s, {<<"reports", m>>, <<"owners", m>>, <<"link", m>>} \cup M \cup E)
  BY <1>11, <1>12
<1> QED BY <1>15 DEF M, E

LEMMA FirstReadsAre ==
  ASSUME NEW kind \in DOMAIN Routes, NEW arg, NEW s, s = FirstReads(kind, arg)
  PROVE  /\ kind = "about" => s = <<>>
         /\ kind # "about" => s # <<>>
         /\ kind = "modules" => Reads(s, {<<"modules", Null>>})
         /\ kind \in {"module", "dependencies", "usages"} => Reads(s, {<<"module", arg>>})
         /\ kind = "version" => Reads(s, {<<"module", arg[1]>>})
         /\ kind = "reports" => Reads(s, {IF arg[1] = Null THEN <<"modules", Null>> ELSE <<"module", arg[1]>>})
         /\ kind = "report" => Reads(s, {<<"report", arg>>})
         /\ kind = "approval" => Reads(s, {<<"request", arg>>})
         /\ kind = "services" => Reads(s, {<<"services", Null>>})
         /\ kind = "service" => Reads(s, {<<"service", arg>>})
         /\ kind = "environment" => Reads(s, {<<"deploymentsIn", arg>>})
<1>1. \A x : <<x>> # <<>> /\ Reads(<<x>>, {x})
  BY Reads1 DEF Reads
<1>2. CASE kind \in {"about", "modules", "module", "dependencies", "usages", "version"}
  BY <1>1, <1>2 DEF FirstReads
<1>3. CASE kind = "reports"
  BY <1>1, <1>3 DEF FirstReads
<1>4. CASE kind \in {"report", "approval", "services", "service", "environment"}
  BY <1>1, <1>4 DEF FirstReads
<1>5. DOMAIN Routes = {"about", "modules", "module", "dependencies", "usages", "version", "reports",
                       "report", "approval", "services", "service", "environment"}
  BY DEF Routes
<1> QED BY <1>2, <1>3, <1>4, <1>5

LEMMA AllReads ==
  ASSUME NEW key, NEW a, NEW b, NEW c, NEW d
  PROVE  /\ Reads(All(<<a, b>>, key), {<<a, key>>, <<b, key>>})
         /\ Reads(All(<<a, b, c>>, key), {<<a, key>>, <<b, key>>, <<c, key>>})
         /\ Reads(All(<<a, b, c, d>>, key), {<<a, key>>, <<b, key>>, <<c, key>>, <<d, key>>})
<1>1. ASSUME NEW sts, NEW S, Reads(sts, S) PROVE Reads(All(sts, key), {<<x, key>> : x \in S})
  BY <1>1, AllFacts DEF Reads
<1>2. Reads(<<a, b>>, {a, b}) /\ Reads(<<a, b, c>>, {a, b, c}) /\ Reads(<<a, b, c, d>>, {a, b, c, d})
  <2>1. Reads(<<a, b>>, {a, b})
    BY Reads2
  <2>2. Reads(<<a, b, c>>, {a, b, c})
    BY Reads3
  <2>3. Reads(<<a, b, c, d>>, {a, b, c, d})
    BY Reads4
  <2> QED BY <2>1, <2>2, <2>3
<1>3. /\ {<<x, key>> : x \in {a, b}} = {<<a, key>>, <<b, key>>}
      /\ {<<x, key>> : x \in {a, b, c}} = {<<a, key>>, <<b, key>>, <<c, key>>}
      /\ {<<x, key>> : x \in {a, b, c, d}} = {<<a, key>>, <<b, key>>, <<c, key>>, <<d, key>>}
  OBVIOUS
<1>4. Reads(All(<<a, b>>, key), {<<x, key>> : x \in {a, b}})
  BY <1>1, <1>2
<1>5. Reads(All(<<a, b, c>>, key), {<<x, key>> : x \in {a, b, c}})
  BY <1>1, <1>2
<1>6. Reads(All(<<a, b, c, d>>, key), {<<x, key>> : x \in {a, b, c, d}})
  BY <1>1, <1>2
<1> QED BY <1>3, <1>4, <1>5, <1>6

LEMMA AfterModules ==
  ASSUME NEW kind, NEW arg, NEW key, NEW r, IsSeq(r), NEW s, s = Then(kind, arg, "modules", key, r)
  PROVE  /\ kind = "modules" =>
              Reads(s, {<<"versions", m>> : m \in IF arg = Null THEN ToSet(r) ELSE {arg} \cap ToSet(r)})
         /\ kind # "modules" => Reads(s, {<<"reports", m>> : m \in ToSet(r)})
<1>1. CASE kind = "modules"
  <2>1. PICK list : list = Matching(r, arg)
    OBVIOUS
  <2>2. s = For("versions", list)
    BY <1>1, <2>1 DEF Then
  <2>3. IsSeq(list) /\ ToSet(list) = IF arg = Null THEN ToSet(r) ELSE {arg} \cap ToSet(r)
    BY <2>1, MatchingFacts DEF Reads
  <2>4. IsSeq(s) /\ ToSet(s) = {<<"versions", m>> : m \in ToSet(list)}
    BY <2>2, <2>3, ForFacts
  <2> QED BY <1>1, <2>3, <2>4 DEF Reads
<1>2. CASE kind # "modules"
  <2>1. s = For("reports", r)
    BY <1>2 DEF Then
  <2>2. IsSeq(s) /\ ToSet(s) = {<<"reports", m>> : m \in ToSet(r)}
    BY <2>1, ForFacts
  <2> QED BY <1>2, <2>2 DEF Reads
<1> QED BY <1>1, <1>2

LEMMA AfterModule ==
  ASSUME NEW kind, NEW arg, NEW key, NEW r, NEW s, s = Then(kind, arg, "module", key, r)
  PROVE  /\ kind = "module" => Reads(s, {<<"versions", key>>})
         /\ kind = "version" => Reads(s, {<<"version", arg>>})
         /\ kind = "reports" => Reads(s, {<<"reports", key>>})
         /\ kind = "dependencies" =>
              Reads(s, {<<"upstream", key>>, <<"downstream", key>>, <<"unresolved", key>>})
         /\ kind = "usages" => s = ModuleUsagesReads(key) /\ Reads(s, {<<"usages", key>>, <<"latest", key>>})
<1>1. \A x : Reads(<<x>>, {x})
  BY Reads1 DEF Reads
<1>2. CASE kind \in {"module", "version", "reports"}
  BY <1>1, <1>2 DEF Then
<1>3. CASE kind = "dependencies"
  <2>1. s = All(<<"upstream", "downstream", "unresolved">>, key)
    BY <1>3 DEF Then
  <2> QED BY <1>3, <2>1, AllReads
<1>4. CASE kind = "usages"
  <2>1. s = ModuleUsagesReads(key)
    BY <1>4 DEF Then
  <2>2. s = All(<<"usages", "latest">>, key)
    BY <2>1 DEF ModuleUsagesReads
  <2> QED BY <1>4, <2>1, <2>2, AllReads
<1> QED BY <1>2, <1>3, <1>4

LEMMA AfterVersion ==
  ASSUME NEW kind, NEW arg, NEW key, NEW r, NEW s, s = Then(kind, arg, "version", key, r)
  PROVE  Reads(s, {<<"artifacts", key>>, <<"config", key>>, <<"summary", key>>, <<"metadata", key>>,
                   <<"reports", key[1]>>})
<1>1. PICK a, b : /\ a = All(<<"artifacts", "config", "summary", "metadata">>, key)
                  /\ b = <<<<"reports", key[1]>>>>
  OBVIOUS
<1>2. s = a \o b
  BY <1>1 DEF Then
<1>3. Reads(a, {<<"artifacts", key>>, <<"config", key>>, <<"summary", key>>, <<"metadata", key>>})
  BY <1>1, AllReads
<1>4. Reads(b, {<<"reports", key[1]>>})
  BY <1>1, Reads1 DEF Reads
<1>5. Reads(s, {<<"artifacts", key>>, <<"config", key>>, <<"summary", key>>, <<"metadata", key>>}
               \cup {<<"reports", key[1]>>})
  <2>1. PICK A, B :
          /\ A = {<<"artifacts", key>>, <<"config", key>>, <<"summary", key>>, <<"metadata", key>>}
          /\ B = {<<"reports", key[1]>>}
    OBVIOUS
  <2>2. Reads(a, A) /\ Reads(b, B)
    BY <1>3, <1>4, <2>1
  <2>3. Reads(a \o b, A \cup B)
    BY <2>2, Joined
  <2> QED BY <1>2, <2>1, <2>3
<1>6. {<<"artifacts", key>>, <<"config", key>>, <<"summary", key>>, <<"metadata", key>>}
      \cup {<<"reports", key[1]>>}
      = {<<"artifacts", key>>, <<"config", key>>, <<"summary", key>>, <<"metadata", key>>,
         <<"reports", key[1]>>}
  OBVIOUS
<1> QED BY <1>5, <1>6

LEMMA AfterReport ==
  ASSUME NEW kind, NEW arg, NEW key, NEW r, NEW s, s = Then(kind, arg, "report", key, r)
  PROVE  /\ s = <<<<"changes", key>>, <<"affected", r.base[1]>>, <<"impact", r.base>>, <<"request", key>>>>
         /\ Reads(s, {<<"changes", key>>, <<"affected", r.base[1]>>, <<"impact", r.base>>, <<"request", key>>})
<1>1. s = <<<<"changes", key>>, <<"affected", r.base[1]>>, <<"impact", r.base>>, <<"request", key>>>>
  BY DEF Then
<1>2. PICK a, b, c, d : /\ a = <<"changes", key>> /\ b = <<"affected", r.base[1]>>
                        /\ c = <<"impact", r.base>> /\ d = <<"request", key>>
  OBVIOUS
<1>3. Reads(<<a, b, c, d>>, {a, b, c, d})
  BY Reads4
<1> QED BY <1>1, <1>2, <1>3

LEMMA AfterRequest ==
  ASSUME NEW kind, NEW arg, NEW key, NEW r, NEW s, s = Then(kind, arg, "request", key, r)
  PROVE  /\ r = Null => s = <<>>
         /\ r # Null /\ kind # "approval" => Reads(s, {<<"requirements", key>>, <<"decisions", key>>})
         /\ r # Null /\ kind = "approval" =>
              Reads(s, {<<"requirements", key>>, <<"decisions", key>>, <<"audit", key>>})
         /\ r # Null => s = All(<<"requirements", "decisions">>, key)
                            \o (IF kind = "approval" THEN <<<<"audit", key>>>> ELSE <<>>)
<1>1. r = Null => s = <<>>
  BY DEF Then
<1>2. PICK a, b, none : a = All(<<"requirements", "decisions">>, key) /\ b = <<<<"audit", key>>>> /\ none = <<>>
  OBVIOUS
<1>3. r # Null => s = a \o (IF kind = "approval" THEN b ELSE none)
  BY <1>2 DEF Then, PopulateRequest
<1>4. Reads(a, {<<"requirements", key>>, <<"decisions", key>>})
  BY <1>2, AllReads
<1>5. Reads(b, {<<"audit", key>>}) /\ Reads(none, {})
  BY <1>2, Reads1, NoElements DEF Reads
<1>6. Reads(a \o b, {<<"requirements", key>>, <<"decisions", key>>} \cup {<<"audit", key>>})
  BY <1>4, <1>5, Joined
<1>7. Reads(a \o none, {<<"requirements", key>>, <<"decisions", key>>} \cup {})
  BY <1>4, <1>5, Joined
<1>8. /\ {<<"requirements", key>>, <<"decisions", key>>} \cup {<<"audit", key>>}
           = {<<"requirements", key>>, <<"decisions", key>>, <<"audit", key>>}
      /\ {<<"requirements", key>>, <<"decisions", key>>} \cup {}
           = {<<"requirements", key>>, <<"decisions", key>>}
  OBVIOUS
<1> QED BY <1>1, <1>2, <1>3, <1>6, <1>7, <1>8

LEMMA AfterDeployments ==
  ASSUME NEW kind, NEW arg, NEW st \in {"deployments", "deploymentsIn"}, NEW key, NEW r, IsSeq(r),
         NEW s, s = Then(kind, arg, st, key, r)
  PROVE  Reads(s, {<<"usagesOf", d.id>> : d \in ToSet(r)})
<1>1. PICK n : n = Len(r)
  OBVIOUS
<1>2. s = [i \in 1 .. n |-> <<"usagesOf", r[i].id>>]
  BY <1>1 DEF Then
<1>3. /\ \A i \in 1 .. n : r[i] \in ToSet(r)
      /\ \A x \in ToSet(r) : \E i \in 1 .. n : r[i] = x
  BY <1>1, SeqFacts
<1>4. IsList(s, n)
  BY <1>2 DEF IsList
<1>5. /\ IsSeq(s) /\ \A i \in 1 .. n : s[i] \in ToSet(s)
      /\ \A x \in ToSet(s) : \E i \in 1 .. n : s[i] = x
  <2>1. n \in Nat
    BY <1>1, SeqFacts
  <2> QED BY <1>4, <2>1, SeqElements
<1>6. \A i \in 1 .. n : s[i] = <<"usagesOf", r[i].id>>
  BY <1>2
<1>7. ASSUME NEW p \in ToSet(s) PROVE p \in {<<"usagesOf", d.id>> : d \in ToSet(r)}
  <2>1. PICK i \in 1 .. n : s[i] = p
    BY <1>5
  <2>2. p = <<"usagesOf", r[i].id>> /\ r[i] \in ToSet(r)
    BY <1>3, <1>6, <2>1
  <2> QED BY <2>2
<1>8. ASSUME NEW d \in ToSet(r) PROVE <<"usagesOf", d.id>> \in ToSet(s)
  <2>1. PICK i \in 1 .. n : r[i] = d
    BY <1>3
  <2>2. s[i] \in ToSet(s) /\ s[i] = <<"usagesOf", d.id>>
    BY <1>5, <1>6, <2>1
  <2> QED BY <2>2
<1> QED BY <1>5, <1>7, <1>8 DEF Reads

LEMMA AfterVersions ==
  ASSUME NEW kind, NEW arg, NEW key, NEW r, IsSeq(r), NEW s, s = Then(kind, arg, "versions", key, r)
  PROVE  Reads(s, {<<"reports", key>>, <<"owners", key>>, <<"link", key>>}
                  \cup (IF kind = "modules" THEN {} ELSE {<<x, v.id>> : x \in Parts, v \in ToSet(r)})
                  \cup (IF r = <<>> THEN {<<"latest", key>>} ELSE {}))
<1>1. s = ModuleOverviewReads(kind, key, r)
  BY DEF Then
<1> QED BY <1>1, OverviewReads

LEMMA AfterService ==
  ASSUME NEW kind, NEW arg, NEW key, NEW r, NEW s, s = Then(kind, arg, "service", key, r)
  PROVE  Reads(s, {<<"deployments", key>>})
<1>1. s = <<<<"deployments", key>>>>
  BY DEF Then
<1> QED BY <1>1, Reads1

Followed == {"modules", "module", "versions", "version", "report", "request", "service",
             "deployments", "deploymentsIn"}

LEMMA AfterOthers ==
  ASSUME NEW kind, NEW arg, NEW st, st \notin Followed, NEW key, NEW r
  PROVE  Then(kind, arg, st, key, r) = <<>>
BY DEF Then, Followed

-----------------------------------------------------------------------------
(* The page as it is loaded. *)

\* What a statement looks for: the page's own argument, or rows that are stored.
StatementOK(kind, arg, st, key, t) ==
  /\ st = "module" => /\ kind \in {"module", "dependencies", "usages", "version", "reports"}
                      /\ key = IF kind \in {"version", "reports"} THEN arg[1] ELSE arg
  /\ st = "version" => kind = "version" /\ key = arg
  /\ st = "report" => kind = "report" /\ key = arg
  /\ st = "request" => kind \in {"report", "approval"} /\ key = arg
  /\ st = "service" => kind = "service" /\ key = arg
  /\ st \in Parts \cup {"metadata"} => HasVersion(t, key)
  /\ st = "usagesOf" => \E d \in t.deployments : d.id = key
  /\ st = "changes" => \E x \in t.reports : x.id = key

\* What a statement found.
EntryOK(st, key, r, b, t) ==
  /\ st = "modules" => ModulesRead(r, b, t)
  /\ st = "module" => key \in t.modules
  /\ st = "version" => HasVersion(t, key)
  /\ st = "versions" => VersionsRead(key, r, b, t)
  /\ st = "latest" => LatestRead(key, r, b, t)
  /\ st = "artifacts" => r = Kinds
  /\ st \in {"config", "summary", "metadata"} => r = TRUE
  /\ st = "reports" => ReportsRead(key, r, b, t)
  /\ st = "report" => ReportRead(key, r, t)
  /\ st = "changes" => ChangesRead(key, r, t)
  /\ st = "upstream" => EdgesRead(r, ConsumedBy(b, key))
  /\ st = "downstream" => EdgesRead(r, ProvidedBy(b, key))
  /\ st = "unresolved" => UnresolvedBy(b, key) \subseteq r
  /\ st = "impact" => UsedAs(b, key) \subseteq r
  /\ st = "request" => RequestRead(key, r, b, t)
  /\ st = "requirements" => RequirementsRead(key, r, t)
  /\ st = "decisions" => DecisionsRead(key, r, t)
  /\ st = "services" => ServicesRead(r, b)
  /\ st = "service" => key \in t.services
  /\ st = "deployments" => DeploymentsRead(r, OfService(b, key), OfService(t, key))
  /\ st = "deploymentsIn" => DeploymentsRead(r, OfEnvironment(b, key), OfEnvironment(t, key))
  /\ st = "usagesOf" => r # {}
  /\ st = "usages" => UsagesRead(key, r, t)

\* The statements that are to be run or have been.
Asked == ToSet(page.todo) \cup {<<g.st, g.key>> : g \in ToSet(page.got)}

\* The page is a page of one of the routes, and has a statement to run exactly while
\* it is loading, or after a failure.
PageShape ==
  /\ page = [kind |-> page.kind, arg |-> page.arg, status |-> page.status,
             todo |-> page.todo, got |-> page.got]
  /\ page.kind \in DOMAIN Routes /\ page.arg \in Routes[page.kind]
  /\ page.status \in {"waiting", "loading"} \cup Shown
  /\ IsSeq(page.todo) /\ IsSeq(page.got)
  /\ \A p \in ToSet(page.todo) : p = <<p[1], p[2]>>
  /\ page.status = "waiting" => page.todo = <<>> /\ page.got = <<>>
  /\ page.status = "ok" => page.todo = <<>>
  /\ page.status = "loading" => page.todo # <<>>

\* Whatever a page must read is to be read or has been.
AskedAll ==
  /\ page.status # "waiting" => ToSet(FirstReads(page.kind, page.arg)) \subseteq Asked
  /\ \A g \in ToSet(page.got) : ToSet(Then(page.kind, page.arg, g.st, g.key, g.result)) \subseteq Asked

\* What is looked for is stored, and what was found is related to the tables.
ReadsOK ==
  /\ \A p \in ToSet(page.todo) : StatementOK(page.kind, page.arg, p[1], p[2], db)
  /\ \A g \in ToSet(page.got) :
       /\ EntryOK(g.st, g.key, g.result, before, db)
       /\ g.st \in Required(page.kind) => g.result # Null

\* What every step preserves of the page.
PageInv == PageShape /\ AskedAll /\ ReadsOK

LEMMA QueryIs ==
  ASSUME NEW st, NEW key, NEW r, r = Query(st, key)
  PROVE  /\ st = "modules" => r = ListModules
         /\ st = "module" => r = GetModuleByName(key)
         /\ st = "version" => r = GetByModuleAndVersion(key)
         /\ st = "versions" => r = ListVersionsByModule(key)
         /\ st = "latest" => r = GetLatestByModule(key)
         /\ st = "artifacts" => r = ListArtifacts(key)
         /\ st = "config" => r = GetBufConfig(key)
         /\ st = "summary" => r = GetMetadataSummary(key)
         /\ st = "metadata" => r = GetMetadata(key)
         /\ st = "reports" => r = ListReportsByModule(key)
         /\ st = "report" => r = GetReport(key)
         /\ st = "changes" => r = ListChangesByReport(key)
         /\ st = "upstream" => r = ListUpstreamByModule(key)
         /\ st = "downstream" => r = ListDownstreamByModule(key)
         /\ st = "unresolved" => r = ListUnresolvedByModule(key)
         /\ st = "impact" => r = ListRuntimeImpact(key)
         /\ st = "request" => r = GetRequestByBreakingReportID(key)
         /\ st = "requirements" => r = ListRequirements(key)
         /\ st = "decisions" => r = ListDecisions(key)
         /\ st = "audit" => r = ListAudit(key)
         /\ st = "services" => r = ListRuntimeServices
         /\ st = "service" => r = GetRuntimeServiceByName(key)
         /\ st = "deployments" => r = ListDeploymentsByService(key)
         /\ st = "deploymentsIn" => r = ListDeploymentsByEnvironment(key)
         /\ st = "usagesOf" => r = ListUsagesByDeployment(key)
         /\ st = "usages" => r = ListModuleRuntimeUsages(key)
BY DEF Query

\* The result of a statement that finds what it must find.
LEMMA EntryRead ==
  ASSUME TablesInv, NEW kind, NEW arg, NEW st, NEW key, StatementOK(kind, arg, st, key, db),
         NEW r, r = Query(st, key), st \in Required(kind) => r # Null
  PROVE  EntryOK(st, key, r, before, db)
<1>1. TablesOK(db)
  BY DEF TablesInv
<1>2. st \in {"module", "version", "report", "service"} => r # Null
  BY DEF Required
<1>3. st = "modules" => ModulesRead(r, before, db)
  BY QueryIs, ListModulesOK
<1>4. st = "module" => key \in db.modules
  BY <1>2, QueryIs DEF GetModuleByName
<1>5. st = "version" => HasVersion(db, key)
  BY <1>1, <1>2, QueryIs, GetVersion
<1>6. st = "versions" => VersionsRead(key, r, before, db)
  BY QueryIs, ListVersionsOK
<1>7. st = "latest" => LatestRead(key, r, before, db)
  BY QueryIs, GetLatestOK
<1>8. st \in Parts \cup {"metadata"} => HasVersion(db, key)
  BY DEF StatementOK
<1>9. st = "artifacts" => r = Kinds
  BY <1>1, <1>8, QueryIs, VersionPartsOK DEF Parts
<1>10. st \in {"config", "summary", "metadata"} => r = TRUE
  <2>1. CASE st = "config"
    <3>1. r = GetBufConfig(key) /\ GetBufConfig(key)
      BY <1>1, <1>8, <2>1, QueryIs, VersionPartsOK DEF Parts
    <3> QED BY <3>1 DEF GetBufConfig
  <2>2. CASE st = "summary"
    <3>1. r = GetMetadataSummary(key) /\ GetMetadataSummary(key)
      BY <1>1, <1>8, <2>2, QueryIs, VersionPartsOK DEF Parts
    <3> QED BY <3>1 DEF GetMetadataSummary
  <2>3. CASE st = "metadata"
    <3>1. r = GetMetadata(key) /\ GetMetadata(key)
      BY <1>1, <1>8, <2>3, QueryIs, VersionPartsOK DEF Parts
    <3> QED BY <3>1 DEF GetMetadata
  <2> QED BY <2>1, <2>2, <2>3
<1>11. st = "reports" => ReportsRead(key, r, before, db)
  BY QueryIs, ListReportsOK
<1>12. st = "report" => ReportRead(key, r, db)
  BY <1>1, <1>2, QueryIs, GetReportOK
<1>13. st = "changes" => ChangesRead(key, r, db)
  <2>1. st = "changes" => \E x \in db.reports : x.id = key
    BY DEF StatementOK
  <2> QED BY <1>1, <2>1, QueryIs, ListChangesOK
<1>14. st = "upstream" => EdgesRead(r, ConsumedBy(before, key))
  BY QueryIs, ListEdgesOK
<1>15. st = "downstream" => EdgesRead(r, ProvidedBy(before, key))
  BY QueryIs, ListEdgesOK
<1>16. st = "unresolved" => UnresolvedBy(before, key) \subseteq r
  BY QueryIs, ListEdgesOK
<1>17. st = "impact" => UsedAs(before, key) \subseteq r
  BY QueryIs, ListUsagesOK
<1>18. st = "request" => RequestRead(key, r, before, db)
  BY QueryIs, GetRequestOK
<1>19. st = "requirements" => RequirementsRead(key, r, db)
  BY QueryIs, ApprovalRowsOK
<1>20. st = "decisions" => DecisionsRead(key, r, db)
  BY QueryIs, ApprovalRowsOK
<1>21. st = "services" => ServicesRead(r, before)
  BY QueryIs, ListServicesOK
<1>22. st = "service" => key \in db.services
  BY <1>2, QueryIs DEF GetRuntimeServiceByName
<1>23. st = "deployments" => DeploymentsRead(r, OfService(before, key), OfService(db, key))
  BY QueryIs, ListDeploymentsOK
<1>24. st = "deploymentsIn" => DeploymentsRead(r, OfEnvironment(before, key), OfEnvironment(db, key))
  BY QueryIs, ListDeploymentsOK
<1>25. st = "usagesOf" => r # {}
  <2>1. st = "usagesOf" => \E d \in db.deployments : d.id = key
    BY DEF StatementOK
  <2> QED BY <2>1, QueryIs, ListUsagesOK
<1>26. st = "usages" => UsagesRead(key, r, db)
  BY QueryIs, ListUsagesOK
<1> QED BY <1>3, <1>4, <1>5, <1>6, <1>7, <1>9, <1>10, <1>11, <1>12, <1>13, <1>14, <1>15, <1>16,
           <1>17, <1>18, <1>19, <1>20, <1>21, <1>22, <1>23, <1>24, <1>25, <1>26 DEF EntryOK

LEMMA EntryKept ==
  ASSUME NEW t, NEW u, Wrote(t, u), NEW st, NEW key, NEW r, NEW b, EntryOK(st, key, r, b, t)
  PROVE  EntryOK(st, key, r, b, u)
<1>1. t.modules \subseteq u.modules /\ t.services \subseteq u.services
  BY DEF Wrote, Later
<1>2. st = "modules" => ModulesRead(r, b, u)
  BY ModulesKept DEF EntryOK
<1>3. /\ st = "version" => HasVersion(u, key)
      /\ st = "versions" => VersionsRead(key, r, b, u)
      /\ st = "latest" => LatestRead(key, r, b, u)
      /\ st = "usages" => UsagesRead(key, r, u)
  BY VersionsKept DEF EntryOK
<1>4. /\ st = "reports" => ReportsRead(key, r, b, u)
      /\ st = "report" => ReportRead(key, r, u)
      /\ st = "changes" => ChangesRead(key, r, u)
  BY ReportsKept DEF EntryOK
<1>5. /\ st = "request" => RequestRead(key, r, b, u)
      /\ st = "requirements" => RequirementsRead(key, r, u)
      /\ st = "decisions" => DecisionsRead(key, r, u)
  BY ApprovalRowsKept DEF EntryOK
<1>6. /\ st = "deployments" => DeploymentsRead(r, OfService(b, key), OfService(u, key))
      /\ st = "deploymentsIn" => DeploymentsRead(r, OfEnvironment(b, key), OfEnvironment(u, key))
  BY DeploymentsKept DEF EntryOK
<1> QED BY <1>1, <1>2, <1>3, <1>4, <1>5, <1>6 DEF EntryOK

LEMMA StatementKept ==
  ASSUME NEW t, NEW u, Wrote(t, u), NEW kind, NEW arg, NEW st, NEW key,
         StatementOK(kind, arg, st, key, t)
  PROVE  StatementOK(kind, arg, st, key, u)
BY DEF Wrote, Later, StatementOK, HasVersion

\* The statements that follow from a result are in order.
LEMMA ThenOK ==
  ASSUME NEW kind, NEW arg, NEW st, NEW key, NEW r, NEW b, NEW t,
         StatementOK(kind, arg, st, key, t), EntryOK(st, key, r, b, t),
         NEW s, s = Then(kind, arg, st, key, r)
  PROVE  /\ IsSeq(s)
         /\ \A p \in ToSet(s) : p = <<p[1], p[2]>> /\ StatementOK(kind, arg, p[1], p[2], t)
<1> DEFINE Fine(p) == p = <<p[1], p[2]>> /\ StatementOK(kind, arg, p[1], p[2], t)
<1> SUFFICES IsSeq(s) /\ \A p \in ToSet(s) : Fine(p)
  OBVIOUS
<1>1. \A x, k : x \in {"versions", "reports", "owners", "link", "latest", "upstream", "downstream",
                       "unresolved", "usages", "affected", "impact", "requirements", "decisions",
                       "audit", "deployments"} => Fine(<<x, k>>)
  BY DEF StatementOK, Parts
<1>2. \A x, k : x \in Parts \cup {"metadata"} /\ HasVersion(t, k) => Fine(<<x, k>>)
  BY DEF StatementOK, Parts
<1>3. CASE st = "modules"
  <2>1. IsSeq(r)
    BY <1>3 DEF EntryOK, ModulesRead
  <2>2. \/ Reads(s, {<<"versions", m>> : m \in IF arg = Null THEN ToSet(r) ELSE {arg} \cap ToSet(r)})
        \/ Reads(s, {<<"reports", m>> : m \in ToSet(r)})
    BY <1>3, <2>1, AfterModules
  <2>3. IsSeq(s) /\ \A p \in ToSet(s) : \E x, k : x \in {"versions", "reports"} /\ p = <<x, k>>
    BY <2>2 DEF Reads
  <2> HIDE DEF Fine
  <2> QED BY <1>1, <2>3
<1>4. CASE st = "module"
  <2>1. kind \in {"module", "dependencies", "usages", "version", "reports"}
    BY <1>4 DEF StatementOK
  <2>2. CASE kind = "version"
    <3>1. Reads(s, {<<"version", arg>>})
      BY <1>4, <2>2, AfterModule
    <3>2. Fine(<<"version", arg>>)
      BY <2>2 DEF StatementOK, Parts
    <3> HIDE DEF Fine
    <3> QED BY <3>1, <3>2 DEF Reads
  <2>3. CASE kind # "version"
    <3>1. \/ Reads(s, {<<"versions", key>>}) \/ Reads(s, {<<"reports", key>>})
          \/ Reads(s, {<<"upstream", key>>, <<"downstream", key>>, <<"unresolved", key>>})
          \/ Reads(s, {<<"usages", key>>, <<"latest", key>>})
      BY <1>4, <2>1, <2>3, AfterModule
    <3> HIDE DEF Fine
    <3> QED BY <1>1, <3>1 DEF Reads
  <2> QED BY <2>2, <2>3
<1>5. CASE st = "versions"
  <2>1. IsSeq(r) /\ ToSet(r) \subseteq t.versions
    BY <1>5 DEF EntryOK, VersionsRead
  <2>3. Reads(s, {<<"reports", key>>, <<"owners", key>>, <<"link", key>>}
                  \cup (IF kind = "modules" THEN {} ELSE {<<x, v.id>> : x \in Parts, v \in ToSet(r)})
                  \cup (IF r = <<>> THEN {<<"latest", key>>} ELSE {}))
    BY <1>5, <2>1, AfterVersions
  <2>4. IsSeq(s) /\ \A p \in ToSet(s) :
          \/ p \in {<<"reports", key>>, <<"owners", key>>, <<"link", key>>, <<"latest", key>>}
          \/ \E x \in Parts, v \in ToSet(r) : p = <<x, v.id>>
    BY <2>3 DEF Reads
  <2>5. \A v \in ToSet(r) : HasVersion(t, v.id)
    BY <2>1 DEF HasVersion
  <2> HIDE DEF Fine
  <2> QED BY <1>1, <1>2, <2>4, <2>5
<1>6. CASE st = "version"
  <2>1. HasVersion(t, key)
    BY <1>6 DEF EntryOK
  <2>2. Reads(s, {<<"artifacts", key>>, <<"config", key>>, <<"summary", key>>, <<"metadata", key>>,
                  <<"reports", key[1]>>})
    BY <1>6, AfterVersion
  <2>3. \A x \in {"artifacts", "config", "summary", "metadata"} : Fine(<<x, key>>)
    BY <1>2, <2>1 DEF Parts
  <2> HIDE DEF Fine
  <2> QED BY <1>1, <2>2, <2>3 DEF Reads
<1>7. CASE st = "report"
  <2>1. Reads(s, {<<"changes", key>>, <<"affected", r.base[1]>>, <<"impact", r.base>>, <<"request", key>>})
    BY <1>7, AfterReport
  <2>2. kind = "report" /\ key = arg /\ \E x \in t.reports : x.id = key
    BY <1>7 DEF StatementOK, EntryOK, ReportRead
  <2>3. Fine(<<"changes", key>>) /\ Fine(<<"request", key>>)
    BY <2>2 DEF StatementOK, Parts
  <2> HIDE DEF Fine
  <2> QED BY <1>1, <2>1, <2>3 DEF Reads
<1>8. CASE st = "request"
  <2>1. \/ s = <<>> \/ Reads(s, {<<"requirements", key>>, <<"decisions", key>>})
        \/ Reads(s, {<<"requirements", key>>, <<"decisions", key>>, <<"audit", key>>})
    BY <1>8, AfterRequest
  <2> HIDE DEF Fine
  <2> QED BY <1>1, <2>1, NoElements DEF Reads
<1>9. CASE st = "service"
  <2>1. Reads(s, {<<"deployments", key>>})
    BY <1>9, AfterService
  <2> HIDE DEF Fine
  <2> QED BY <1>1, <2>1 DEF Reads
<1>10. CASE st \in {"deployments", "deploymentsIn"}
  <2>1. IsSeq(r) /\ ToSet(r) \subseteq t.deployments
    BY <1>10 DEF EntryOK, DeploymentsRead, OfService, OfEnvironment
  <2>2. Reads(s, {<<"usagesOf", d.id>> : d \in ToSet(r)})
    BY <1>10, <2>1, AfterDeployments
  <2>3. \A d \in ToSet(r) : Fine(<<"usagesOf", d.id>>)
    BY <2>1 DEF StatementOK, Parts
  <2> HIDE DEF Fine
  <2> QED BY <2>2, <2>3 DEF Reads
<1>11. CASE st \notin Followed
  <2>1. s = <<>>
    BY <1>11, AfterOthers
  <2> HIDE DEF Fine
  <2> QED BY <2>1, NoElements
<1> QED BY <1>3, <1>4, <1>5, <1>6, <1>7, <1>8, <1>9, <1>10, <1>11 DEF Followed

LEMMA FirstOK ==
  ASSUME NEW kind \in DOMAIN Routes, NEW arg, NEW t, NEW s, s = FirstReads(kind, arg)
  PROVE  /\ IsSeq(s)
         /\ \A p \in ToSet(s) : p = <<p[1], p[2]>> /\ StatementOK(kind, arg, p[1], p[2], t)
<1> DEFINE Fine(p) == p = <<p[1], p[2]>> /\ StatementOK(kind, arg, p[1], p[2], t)
<1> SUFFICES IsSeq(s) /\ \A p \in ToSet(s) : Fine(p)
  OBVIOUS
<1>1. \A x, k : x \in {"modules", "services", "deploymentsIn"} => Fine(<<x, k>>)
  BY DEF StatementOK, Parts
<1>2. kind \in {"module", "dependencies", "usages"} => Fine(<<"module", arg>>)
  BY DEF StatementOK, Parts
<1>3. kind \in {"version", "reports"} => Fine(<<"module", arg[1]>>)
  BY DEF StatementOK, Parts
<1>4. /\ kind = "report" => Fine(<<"report", arg>>)
      /\ kind = "approval" => Fine(<<"request", arg>>)
      /\ kind = "service" => Fine(<<"service", arg>>)
  BY DEF StatementOK, Parts
<1> HIDE DEF Fine
<1>6. CASE kind \in {"about", "modules", "services", "environment"}
  <2>1. \/ s = <<>> \/ Reads(s, {<<"modules", Null>>}) \/ Reads(s, {<<"services", Null>>})
        \/ Reads(s, {<<"deploymentsIn", arg>>})
    BY <1>6, FirstReadsAre
  <2> QED BY <1>1, <2>1, NoElements DEF Reads
<1>7. CASE kind \in {"module", "dependencies", "usages"}
  <2>1. Reads(s, {<<"module", arg>>})
    BY <1>7, FirstReadsAre
  <2> QED BY <1>2, <1>7, <2>1 DEF Reads
<1>8. CASE kind \in {"version", "reports"}
  <2>1. Reads(s, {<<"module", arg[1]>>}) \/ Reads(s, {<<"modules", Null>>})
    BY <1>8, FirstReadsAre
  <2> QED BY <1>1, <1>3, <1>8, <2>1 DEF Reads
<1>9. CASE kind \in {"report", "approval", "service"}
  <2>1. /\ kind = "report" => Reads(s, {<<"report", arg>>})
        /\ kind = "approval" => Reads(s, {<<"request", arg>>})
        /\ kind = "service" => Reads(s, {<<"service", arg>>})
    BY FirstReadsAre
  <2> QED BY <1>4, <1>9, <2>1 DEF Reads
<1>10. DOMAIN Routes = {"about", "modules", "module", "dependencies", "usages", "version", "reports",
                       "report", "approval", "services", "service", "environment"}
  BY DEF Routes
<1> QED BY <1>6, <1>7, <1>8, <1>9, <1>10

\* A page that was asked for and whose first statement is to be run.
LEMMA AskedForOK ==
  ASSUME NEW kind \in DOMAIN Routes, NEW arg \in Routes[kind], page' = AskedFor(kind, arg)
  PROVE  PageInv'
<1>1. page'.todo = <<>> /\ page'.got = <<>> /\ page'.kind = kind /\ page'.arg = arg /\ page'.status = "waiting"
  BY DEF AskedFor
<1>2. /\ IsSeq(page'.todo) /\ ToSet(page'.todo) = {}
      /\ IsSeq(page'.got) /\ ToSet(page'.got) = {}
  BY <1>1, NoElements
<1>3. PageShape'
  BY <1>1, <1>2 DEF PageShape, AskedFor
<1> QED BY <1>1, <1>2, <1>3 DEF PageInv, AskedAll, ReadsOK

LEMMA PageInit == Init => PageInv
<1> SUFFICES ASSUME Init PROVE PageInv
  OBVIOUS
<1>1. PICK kind \in DOMAIN Routes : \E arg \in Routes[kind] : page = AskedFor(kind, arg)
  BY DEF Init
<1>2. PICK arg \in Routes[kind] : page = AskedFor(kind, arg)
  BY <1>1
<1>3. page.todo = <<>> /\ page.got = <<>> /\ page.kind = kind /\ page.arg = arg /\ page.status = "waiting"
  BY <1>2 DEF AskedFor
<1>4. /\ IsSeq(page.todo) /\ ToSet(page.todo) = {}
      /\ IsSeq(page.got) /\ ToSet(page.got) = {}
  BY <1>3, NoElements
<1>5. PageShape
  BY <1>2, <1>3, <1>4 DEF PageShape, AskedFor
<1> QED BY <1>3, <1>4, <1>5 DEF PageInv, AskedAll, ReadsOK

LEMMA PageBegin ==
  ASSUME PageInv, Begin
  PROVE  PageInv'
<1>1. PICK todo : todo = FirstReads(page.kind, page.arg)
  OBVIOUS
<1>2. /\ page.status = "waiting"
      /\ page' = [page EXCEPT !.todo = todo, !.status = IF todo = <<>> THEN "ok" ELSE "loading"]
  BY <1>1 DEF Begin
<1>3. PageShape /\ page.got = <<>>
  BY <1>2 DEF PageInv, PageShape
<1>4. /\ page'.kind = page.kind /\ page'.arg = page.arg /\ page'.todo = todo /\ page'.got = page.got
      /\ page'.status = IF todo = <<>> THEN "ok" ELSE "loading"
      /\ page' = [kind |-> page'.kind, arg |-> page'.arg, status |-> page'.status,
                  todo |-> page'.todo, got |-> page'.got]
  BY <1>2, <1>3 DEF PageShape
<1>5. page.kind \in DOMAIN Routes
  BY <1>3 DEF PageShape
<1>6. /\ IsSeq(todo)
      /\ \A p \in ToSet(todo) : p = <<p[1], p[2]>> /\ StatementOK(page.kind, page.arg, p[1], p[2], db')
  BY <1>1, <1>5, FirstOK
<1>7. IsSeq(page'.got) /\ ToSet(page'.got) = {}
  BY <1>3, <1>4, NoElements
<1>8. PageShape'
  BY <1>3, <1>4, <1>6, <1>7 DEF PageShape, Shown
<1>9. AskedAll'
  BY <1>1, <1>4, <1>7 DEF AskedAll, Asked
<1>10. ReadsOK'
  BY <1>4, <1>6, <1>7 DEF ReadsOK
<1> QED BY <1>8, <1>9, <1>10 DEF PageInv

\* What a step of the page's query does.
StepOf(st, key, r, more, g) ==
  /\ page.todo # <<>> /\ Head(page.todo) = <<st, key>> /\ r = Query(st, key)
  /\ StatementOK(page.kind, page.arg, st, key, db)
  /\ EntryOK(st, key, r, before, db) /\ (st \in Required(page.kind) => r # Null)
  /\ more = Then(page.kind, page.arg, st, key, r)
  /\ g = [st |-> st, key |-> key, result |-> r]
  /\ page'.got = Append(page.got, g) /\ page'.todo = more \o Tail(page.todo)
  /\ page'.kind = page.kind /\ page'.arg = page.arg
  /\ page'.status = IF page'.todo = <<>> THEN "ok" ELSE "loading"
  /\ page' = [kind |-> page'.kind, arg |-> page'.arg, status |-> page'.status,
              todo |-> page'.todo, got |-> page'.got]

LEMMA ReadStep ==
  ASSUME TablesInv, PageInv, ReadNext
  PROVE  \E st, key, r, more, g : StepOf(st, key, r, more, g)
<1>1. PICK st, key, r, more, g :
        /\ st = Head(page.todo)[1] /\ key = Head(page.todo)[2] /\ r = Query(st, key)
        /\ more = Then(page.kind, page.arg, st, key, r) /\ g = [st |-> st, key |-> key, result |-> r]
  OBVIOUS
<1>2. /\ page.status = "loading"
      /\ ~ (r = Null /\ st \in Required(page.kind))
      /\ page' = [page EXCEPT !.got = Append(@, g), !.todo = more \o Tail(page.todo),
                              !.status = IF more \o Tail(page.todo) = <<>> THEN "ok" ELSE @]
  BY <1>1 DEF ReadNext
<1>3. PageShape /\ page.todo # <<>> /\ IsSeq(page.todo)
  BY <1>2 DEF PageInv, PageShape
<1>4. Head(page.todo) \in ToSet(page.todo)
  BY <1>3, TailSeq
<1>5. Head(page.todo) = <<st, key>>
  BY <1>1, <1>3, <1>4 DEF PageShape
<1>6. StatementOK(page.kind, page.arg, st, key, db)
  BY <1>1, <1>4 DEF PageInv, ReadsOK
<1>7. EntryOK(st, key, r, before, db)
  BY <1>1, <1>2, <1>6, EntryRead
<1>8. /\ page'.got = Append(page.got, g) /\ page'.todo = more \o Tail(page.todo)
      /\ page'.kind = page.kind /\ page'.arg = page.arg
      /\ page'.status = IF page'.todo = <<>> THEN "ok" ELSE "loading"
      /\ page' = [kind |-> page'.kind, arg |-> page'.arg, status |-> page'.status,
                  todo |-> page'.todo, got |-> page'.got]
  BY <1>2, <1>3 DEF PageShape
<1>9. StepOf(st, key, r, more, g)
  BY <1>1, <1>2, <1>3, <1>5, <1>6, <1>7, <1>8 DEF StepOf
<1> QED BY <1>9

LEMMA PageRead ==
  ASSUME TablesInv, PageInv, ReadNext
  PROVE  PageInv'
<1>0. PICK st, key, r, more, g : StepOf(st, key, r, more, g)
  BY ReadStep
<1>1. /\ page.todo # <<>> /\ Head(page.todo) = <<st, key>> /\ r = Query(st, key)
      /\ StatementOK(page.kind, page.arg, st, key, db)
      /\ EntryOK(st, key, r, before, db) /\ (st \in Required(page.kind) => r # Null)
      /\ more = Then(page.kind, page.arg, st, key, r)
      /\ g = [st |-> st, key |-> key, result |-> r]
      /\ page'.got = Append(page.got, g) /\ page'.todo = more \o Tail(page.todo)
      /\ page'.kind = page.kind /\ page'.arg = page.arg
      /\ page'.status = IF page'.todo = <<>> THEN "ok" ELSE "loading"
      /\ page' = [kind |-> page'.kind, arg |-> page'.arg, status |-> page'.status,
                  todo |-> page'.todo, got |-> page'.got]
  BY <1>0 DEF StepOf
<1>2. db' = db /\ before' = before /\ page.status = "loading"
  BY DEF ReadNext
<1>3. IsSeq(page.todo) /\ IsSeq(page.got) /\ page.kind \in DOMAIN Routes /\ page.arg \in Routes[page.kind]
  BY DEF PageInv, PageShape
<1>4. PICK rest : rest = Tail(page.todo)
  OBVIOUS
<1>5. IsSeq(rest) /\ ToSet(page.todo) = {<<st, key>>} \cup ToSet(rest)
  BY <1>1, <1>3, <1>4, TailSeq
<1>6. /\ IsSeq(more)
      /\ \A p \in ToSet(more) : p = <<p[1], p[2]>> /\ StatementOK(page.kind, page.arg, p[1], p[2], db)
  BY <1>1, ThenOK
<1>7. IsSeq(page'.todo) /\ ToSet(page'.todo) = ToSet(more) \cup ToSet(rest)
  BY <1>1, <1>4, <1>5, <1>6, ConcatSeq
<1>8. IsSeq(page'.got) /\ ToSet(page'.got) = ToSet(page.got) \cup {g}
  BY <1>1, <1>3, AppendSeq
<1>9. \A p \in ToSet(page'.todo) : p = <<p[1], p[2]>> /\ StatementOK(page.kind, page.arg, p[1], p[2], db)
  BY <1>5, <1>6, <1>7 DEF PageInv, PageShape, ReadsOK
<1>10. PageShape'
  BY <1>1, <1>3, <1>7, <1>8, <1>9 DEF PageShape, Shown
<1>11. Asked' = Asked \cup ToSet(more)
  <2>1. g.st = st /\ g.key = key /\ g.result = r
    BY <1>1
  <2>2. Asked' = ToSet(page'.todo) \cup {<<x.st, x.key>> : x \in ToSet(page'.got)}
    BY DEF Asked
  <2>3. {<<x.st, x.key>> : x \in ToSet(page'.got)} = {<<x.st, x.key>> : x \in ToSet(page.got)} \cup {<<st, key>>}
    BY <1>8, <2>1
  <2> QED BY <1>5, <1>7, <2>2, <2>3 DEF Asked
<1>12. AskedAll'
  <2>1. page'.status # "waiting" => ToSet(FirstReads(page'.kind, page'.arg)) \subseteq Asked'
    BY <1>1, <1>2, <1>11 DEF PageInv, AskedAll
  <2>2. \A x \in ToSet(page'.got) :
          ToSet(Then(page'.kind, page'.arg, x.st, x.key, x.result)) \subseteq Asked'
    <3>1. ToSet(Then(page'.kind, page'.arg, g.st, g.key, g.result)) \subseteq Asked'
      BY <1>1, <1>11
    <3> QED BY <1>1, <1>8, <1>11, <3>1 DEF PageInv, AskedAll
  <2> QED BY <2>1, <2>2 DEF AskedAll
<1>13. ReadsOK'
  <2>1. \A x \in ToSet(page'.got) :
          EntryOK(x.st, x.key, x.result, before, db) /\ (x.st \in Required(page.kind) => x.result # Null)
    <3>1. EntryOK(g.st, g.key, g.result, before, db) /\ (g.st \in Required(page.kind) => g.result # Null)
      BY <1>1
    <3> QED BY <1>8, <3>1 DEF PageInv, ReadsOK
  <2> QED BY <1>1, <1>2, <1>9, <2>1 DEF ReadsOK
<1> QED BY <1>10, <1>12, <1>13 DEF PageInv

\* A step that ends the loading.
LEMMA PageStopped ==
  ASSUME PageInv, page.status = "loading", db' = db, before' = before,
         NEW status \in {"not_found", "error"}, page' = [page EXCEPT !.status = status]
  PROVE  PageInv'
<1>1. /\ page'.kind = page.kind /\ page'.arg = page.arg /\ page'.todo = page.todo
      /\ page'.got = page.got /\ page'.status = status
      /\ page' = [kind |-> page'.kind, arg |-> page'.arg, status |-> page'.status,
                  todo |-> page'.todo, got |-> page'.got]
  BY DEF PageInv, PageShape
<1>2. PageShape'
  BY <1>1 DEF PageInv, PageShape, Shown
<1>3. AskedAll' /\ ReadsOK'
  BY <1>1 DEF PageInv, AskedAll, Asked, ReadsOK
<1> QED BY <1>2, <1>3 DEF PageInv

LEMMA PageNext == TablesInv /\ PageInv /\ [Next]_vars => PageInv'
<1> SUFFICES ASSUME TablesInv, PageInv, [Next]_vars PROVE PageInv'
  OBVIOUS
<1>1. CASE UNCHANGED vars
  BY <1>1 DEF vars, PageInv, PageShape, AskedAll, Asked, ReadsOK
<1>2. CASE Begin
  BY <1>2, PageBegin
<1>3. CASE ReadNext
  BY <1>3, PageRead
<1>4. CASE MissNext
  <2>1. PICK status \in {"not_found", "error"} : page' = [page EXCEPT !.status = status]
    BY <1>4 DEF MissNext
  <2> QED BY <1>4, <2>1, PageStopped DEF MissNext
<1>5. CASE FailNext
  <2>1. PICK status \in {"not_found", "error"} :
          status = "error" /\ page' = [page EXCEPT !.status = status]
    BY <1>5 DEF FailNext
  <2> QED BY <1>5, <2>1, PageStopped DEF FailNext
<1>6. CASE Reload
  <2>1. page.kind \in DOMAIN Routes /\ page.arg \in Routes[page.kind]
    BY DEF PageInv, PageShape
  <2>2. page' = AskedFor(page.kind, page.arg)
    BY <1>6 DEF Reload
  <2> QED BY <2>1, <2>2, AskedForOK
<1>7. CASE Transaction /\ UNCHANGED <<page, before>>
  <2>1. Wrote(db, db')
    BY <1>7, TransactionOK DEF TablesInv
  <2>2. PageShape' /\ AskedAll'
    BY <1>7 DEF PageInv, PageShape, AskedAll, Asked
  <2>3. ReadsOK'
    BY <1>7, <2>1, StatementKept, EntryKept DEF PageInv, ReadsOK
  <2> QED BY <2>2, <2>3 DEF PageInv
<1> QED BY <1>1, <1>2, <1>3, <1>4, <1>5, <1>6, <1>7, Steps

-----------------------------------------------------------------------------
(* What a page that is shown shows. *)

\* The answer to a statement that the page asked for.
LEMMA Answered ==
  ASSUME PageInv, page.status = "ok", NEW st, NEW key, <<st, key>> \in Asked,
         NEW r, r = Got(st, key)
  PROVE  /\ EntryOK(st, key, r, before, db) /\ (st \in Required(page.kind) => r # Null)
         /\ ToSet(Then(page.kind, page.arg, st, key, r)) \subseteq Asked
         /\ \E i \in 1 .. Len(page.got) : page.got[i].st = st /\ page.got[i].key = key /\ page.got[i].result = r
<1>1. IsSeq(page.got) /\ ToSet(page.todo) = {}
  BY NoElements DEF PageInv, PageShape
<1>2. /\ DOMAIN page.got = 1 .. Len(page.got)
      /\ \A j \in 1 .. Len(page.got) : page.got[j] \in ToSet(page.got)
      /\ \A x \in ToSet(page.got) : \E j \in 1 .. Len(page.got) : page.got[j] = x
  BY <1>1, SeqFacts
<1>3. PICK x \in ToSet(page.got) : x.st = st /\ x.key = key
  BY <1>1 DEF Asked
<1>4. \E j \in DOMAIN page.got : page.got[j].st = st /\ page.got[j].key = key
  BY <1>2, <1>3
<1>5. PICK i : i = CHOOSE j \in DOMAIN page.got : page.got[j].st = st /\ page.got[j].key = key
  OBVIOUS
<1>6. i \in DOMAIN page.got /\ page.got[i].st = st /\ page.got[i].key = key
  BY <1>4, <1>5
<1>7. r = page.got[i].result
  BY <1>5 DEF Got
<1>8. PICK g : g = page.got[i]
  OBVIOUS
<1>9. g \in ToSet(page.got) /\ g.st = st /\ g.key = key /\ g.result = r
  BY <1>2, <1>6, <1>7, <1>8
<1>10. EntryOK(st, key, r, before, db) /\ (st \in Required(page.kind) => r # Null)
  BY <1>9 DEF PageInv, ReadsOK
<1>11. ToSet(Then(page.kind, page.arg, st, key, r)) \subseteq Asked
  BY <1>9 DEF PageInv, AskedAll
<1> QED BY <1>2, <1>6, <1>7, <1>10, <1>11

LEMMA FirstAsked ==
  ASSUME PageInv, page.status = "ok"
  PROVE  ToSet(FirstReads(page.kind, page.arg)) \subseteq Asked /\ page.kind \in DOMAIN Routes
BY DEF PageInv, AskedAll, PageShape

\* Said to be missing is only what was not stored.
MissHonest == page.status = "not_found" => ~ Stored(before)

LEMMA MissInit == Init => MissHonest
<1> SUFFICES ASSUME Init PROVE MissHonest
  OBVIOUS
<1>1. page.status = "waiting"
  BY DEF Init, AskedFor
<1> QED BY <1>1 DEF MissHonest

LEMMA MissNextOK ==
  ASSUME TablesInv, PageInv, MissNext
  PROVE  MissHonest'
<1>1. PICK st, key, r : st = Head(page.todo)[1] /\ key = Head(page.todo)[2] /\ r = Query(st, key)
  OBVIOUS
<1>2. /\ page.status = "loading" /\ st \in Required(page.kind) /\ r = Null
      /\ page' = [page EXCEPT !.status = IF page.kind = "reports" THEN "error" ELSE "not_found"]
      /\ before' = before
  BY <1>1 DEF MissNext
<1>3. /\ page'.status = IF page.kind = "reports" THEN "error" ELSE "not_found"
      /\ page'.kind = page.kind /\ page'.arg = page.arg
  BY <1>2 DEF PageInv, PageShape
<1>4. StatementOK(page.kind, page.arg, st, key, db)
  <2>1. Head(page.todo) \in ToSet(page.todo)
    BY <1>2, TailSeq DEF PageInv, PageShape
  <2> QED BY <1>1, <2>1 DEF PageInv, ReadsOK
<1>5. ASSUME page.kind # "reports" PROVE ~ Stored(before)
  <2>1. st \in {"module", "version", "report", "service", "request"}
    BY <1>2 DEF Required
  <2>2. TablesOK(db) /\ TablesOK(before) /\ Later(before, db)
    BY DEF TablesInv
  <2>3. CASE st = "module"
    <3>1. key \notin before.modules
      BY <1>1, <1>2, <2>2, <2>3, QueryIs, TablesAssumption DEF GetModuleByName, Later, TablesOK, VersionsOK
    <3>2. CASE page.kind = "version"
      <4>1. key = page.arg[1]
        BY <1>4, <2>3, <3>2 DEF StatementOK
      <4>2. \A v \in before.versions : v.id[1] \in before.modules
        BY <2>2 DEF TablesOK, VersionsOK
      <4> QED BY <3>1, <3>2, <4>1, <4>2 DEF Stored
    <3>3. CASE page.kind # "version"
      <4>1. page.kind \in {"module", "dependencies", "usages"} /\ key = page.arg
        BY <1>4, <1>5, <2>3, <3>3 DEF StatementOK
      <4> QED BY <3>1, <4>1 DEF Stored
    <3> QED BY <3>2, <3>3
  <2>4. CASE st = "version"
    <3>1. page.kind = "version" /\ key = page.arg
      BY <1>4, <2>4 DEF StatementOK
    <3>2. ~ HasVersion(db, key)
      BY <1>1, <1>2, <2>2, <2>4, QueryIs, GetVersion
    <3> QED BY <2>2, <3>1, <3>2 DEF Stored, HasVersion, Later
  <2>5. CASE st = "report"
    <3>1. page.kind = "report" /\ key = page.arg
      BY <1>4, <2>5 DEF StatementOK
    <3>2. ~ \E x \in db.reports : x.id = key
      BY <1>1, <1>2, <2>2, <2>5, QueryIs, GetReportOK
    <3> QED BY <2>2, <3>1, <3>2 DEF Stored, Later
  <2>6. CASE st = "service"
    <3>1. page.kind = "service" /\ key = page.arg
      BY <1>4, <2>6 DEF StatementOK
    <3>2. r = GetRuntimeServiceByName(key)
      BY <1>1, <2>6, QueryIs
    <3>3. page.arg \in Services
      BY <3>1 DEF PageInv, PageShape, Routes
    <3>4. key \notin db.services
      BY <1>2, <3>1, <3>2, <3>3, TablesAssumption DEF GetRuntimeServiceByName
    <3> QED BY <2>2, <3>1, <3>4 DEF Stored, Later
  <2>7. CASE st = "request"
    <3>1. page.kind = "approval" /\ key = page.arg
      BY <1>2, <1>4, <2>7 DEF StatementOK, Required
    <3>2. ~ HasRequest(db, key)
      BY <1>1, <1>2, <2>2, <2>7, QueryIs, GetRequest
    <3> QED BY <2>2, <3>1, <3>2 DEF Stored, HasRequest, Later
  <2> QED BY <2>1, <2>3, <2>4, <2>5, <2>6, <2>7
<1>6. Stored(before') <=> Stored(before)
  BY <1>2
<1>7. page'.status = "not_found" => ~ Stored(before)
  BY <1>3, <1>5
<1> QED BY <1>2, <1>3, <1>7 DEF MissHonest, Stored

LEMMA MissKept == TablesInv /\ PageInv /\ MissHonest /\ [Next]_vars => MissHonest'
<1> SUFFICES ASSUME TablesInv, PageInv, MissHonest, [Next]_vars PROVE MissHonest'
  OBVIOUS
<1>1. CASE UNCHANGED <<page, before>>
  BY <1>1 DEF MissHonest, Stored
<1>2. CASE MissNext
  BY <1>2, MissNextOK
<1>3. CASE Begin \/ ReadNext \/ FailNext \/ Reload
  <2>1. CASE Begin
    BY <2>1 DEF Begin, MissHonest, PageInv, PageShape
  <2>2. CASE ReadNext
    <3>1. PICK st, key, r, more, g : StepOf(st, key, r, more, g)
      BY <2>2, ReadStep
    <3>2. page'.status # "not_found"
      BY <3>1 DEF StepOf
    <3> QED BY <3>2 DEF MissHonest
  <2>3. CASE FailNext
    BY <2>3 DEF FailNext, MissHonest, PageInv, PageShape
  <2>4. CASE Reload
    BY <2>4 DEF Reload, AskedFor, MissHonest
  <2> QED BY <1>3, <2>1, <2>2, <2>3, <2>4
<1> QED BY <1>1, <1>2, <1>3, Steps DEF vars

\* What a page shows is stored.
LEMMA ShownStored ==
  ASSUME PageInv, page.status = "ok"
  PROVE  Stored(db)
<1>1. PICK kind, arg, first : kind = page.kind /\ arg = page.arg /\ first = FirstReads(kind, arg)
  OBVIOUS
<1>2. ToSet(first) \subseteq Asked /\ kind \in DOMAIN Routes
  BY <1>1, FirstAsked
<1>3. CASE kind \in {"module", "dependencies", "usages"}
  <2>1. <<"module", arg>> \in Asked
    BY <1>1, <1>2, <1>3, FirstReadsAre DEF Reads
  <2>2. PICK r : r = Got("module", arg)
    OBVIOUS
  <2>3a. EntryOK("module", arg, r, before, db)
    BY <2>1, <2>2, Answered
  <2>3. arg \in db.modules
    BY <2>3a DEF EntryOK
  <2> QED BY <1>1, <1>3, <2>3 DEF Stored
<1>4. CASE kind = "version"
  <2>1. <<"module", arg[1]>> \in Asked
    BY <1>1, <1>2, <1>4, FirstReadsAre DEF Reads
  <2>2. PICK r, s : r = Got("module", arg[1]) /\ s = Then(kind, arg, "module", arg[1], r)
    OBVIOUS
  <2>3. ToSet(s) \subseteq Asked
    BY <1>1, <2>1, <2>2, Answered
  <2>4. <<"version", arg>> \in Asked
    BY <1>4, <2>2, <2>3, AfterModule DEF Reads
  <2>5. PICK v : v = Got("version", arg)
    OBVIOUS
  <2>6a. EntryOK("version", arg, v, before, db)
    BY <2>4, <2>5, Answered
  <2>6. HasVersion(db, arg)
    BY <2>6a DEF EntryOK
  <2> QED BY <1>1, <1>4, <2>6 DEF Stored, HasVersion
<1>5. CASE kind = "report"
  <2>1. <<"report", arg>> \in Asked
    BY <1>1, <1>2, <1>5, FirstReadsAre DEF Reads
  <2>2. PICK r : r = Got("report", arg)
    OBVIOUS
  <2>3a. EntryOK("report", arg, r, before, db)
    BY <2>1, <2>2, Answered
  <2>3. ReportRead(arg, r, db)
    BY <2>3a DEF EntryOK
  <2> QED BY <1>1, <1>5, <2>3 DEF Stored, ReportRead
<1>6. CASE kind = "approval"
  <2>1. <<"request", arg>> \in Asked
    BY <1>1, <1>2, <1>6, FirstReadsAre DEF Reads
  <2>2. PICK r : r = Got("request", arg)
    OBVIOUS
  <2>3a. EntryOK("request", arg, r, before, db) /\ r # Null
    BY <1>1, <1>6, <2>1, <2>2, Answered DEF Required
  <2>3. RequestRead(arg, r, before, db) /\ r # Null
    BY <2>3a DEF EntryOK
  <2> QED BY <1>1, <1>6, <2>3 DEF Stored, RequestRead, HasRequest
<1>7. CASE kind = "service"
  <2>1. <<"service", arg>> \in Asked
    BY <1>1, <1>2, <1>7, FirstReadsAre DEF Reads
  <2>2. PICK r : r = Got("service", arg)
    OBVIOUS
  <2>3a. EntryOK("service", arg, r, before, db)
    BY <2>1, <2>2, Answered
  <2>3. arg \in db.services
    BY <2>3a DEF EntryOK
  <2> QED BY <1>1, <1>7, <2>3 DEF Stored
<1>8. CASE kind \notin {"module", "dependencies", "usages", "version", "report", "approval", "service"}
  BY <1>1, <1>8 DEF Stored
<1> QED BY <1>3, <1>4, <1>5, <1>6, <1>7, <1>8

\* A page answers "not found" only for what was not stored when it was asked for,
\* although its query looks for it later, and shows only what is stored (the
\* handlers of internal/transport/web and the ErrNotFound of their queries).
THEOREM NotFoundIsHonest == Spec => []NotFoundHonest
<1>1. Init => TablesInv /\ PageInv /\ MissHonest
  BY TablesInit, PageInit, MissInit
<1>2. TablesInv /\ PageInv /\ MissHonest /\ [Next]_vars => (TablesInv /\ PageInv /\ MissHonest)'
  BY TablesNext, PageNext, MissKept
<1>3. TablesInv /\ PageInv /\ MissHonest => NotFoundHonest
  BY ShownStored DEF NotFoundHonest, MissHonest
<1> QED BY <1>1, <1>2, <1>3, PTL DEF Spec

-----------------------------------------------------------------------------
(* The overview of a module. *)

\* The statements of an overview have been run.
LEMMA OverviewAsked ==
  ASSUME PageInv, page.status = "ok", page.kind \in {"modules", "module"}, NEW m, <<"versions", m>> \in Asked,
         NEW versions, versions = Got("versions", m)
  PROVE  /\ VersionsRead(m, versions, before, db)
         /\ <<"reports", m>> \in Asked
         /\ versions = <<>> => <<"latest", m>> \in Asked
         /\ page.kind = "module" => \A x \in Parts, v \in ToSet(versions) : <<x, v.id>> \in Asked
<1>1. EntryOK("versions", m, versions, before, db)
  BY Answered
<1>2. VersionsRead(m, versions, before, db)
  BY <1>1 DEF EntryOK
<1>3. IsSeq(versions)
  BY <1>2 DEF VersionsRead
<1>4. PICK kind, s : kind = page.kind /\ s = Then(page.kind, page.arg, "versions", m, versions)
  OBVIOUS
<1>5. ToSet(s) \subseteq Asked
  BY <1>4, Answered
<1>6. Reads(s, {<<"reports", m>>, <<"owners", m>>, <<"link", m>>}
               \cup (IF kind = "modules" THEN {} ELSE {<<x, v.id>> : x \in Parts, v \in ToSet(versions)})
               \cup (IF versions = <<>> THEN {<<"latest", m>>} ELSE {}))
  BY <1>3, <1>4, AfterVersions
<1>7. PICK S : S = ToSet(s)
  OBVIOUS
<1>8. /\ <<"reports", m>> \in S
      /\ versions = <<>> => <<"latest", m>> \in S
      /\ kind = "module" => \A x \in Parts, v \in ToSet(versions) : <<x, v.id>> \in S
  BY <1>6, <1>7 DEF Reads
<1> QED BY <1>2, <1>4, <1>5, <1>7, <1>8

LEMMA OverviewFacts ==
  ASSUME TablesInv, PageInv, page.status = "ok", page.kind \in {"modules", "module"},
         NEW m, <<"versions", m>> \in Asked, NEW o, o = ModuleOverview(m)
  PROVE  /\ \A v \in before.versions :
              v.id[1] = m => o.latest # Null /\ o.latest.createdAt >= v.createdAt
         /\ \A row \in ToSet(o.versions) \cup ToSet(o.reports) : row.createdAt <= o.lastPublishedOrSeen
<1>1. PICK versions, reports, last : versions = Got("versions", m) /\ reports = Got("reports", m) /\ last = Got("latest", m)
  OBVIOUS
<1>2. PICK latest : latest = IF versions = <<>> THEN last ELSE versions[1]
  OBVIOUS
<1>3. /\ o.latest = latest /\ o.versions = versions /\ o.reports = reports
      /\ o.lastPublishedOrSeen = LatestOrModuleTime(latest, reports)
  BY <1>1, <1>2 DEF ModuleOverview
<1>4. /\ VersionsRead(m, versions, before, db) /\ <<"reports", m>> \in Asked
      /\ versions = <<>> => <<"latest", m>> \in Asked
  BY <1>1, OverviewAsked
<1>5. ReportsRead(m, reports, before, db)
  <2>1. EntryOK("reports", m, reports, before, db)
    BY <1>1, <1>4, Answered
  <2> QED BY <2>1 DEF EntryOK
<1>6. versions = <<>> => LatestRead(m, last, before, db)
  <2>1. versions = <<>> => EntryOK("latest", m, last, before, db)
    BY <1>1, <1>4, Answered
  <2> QED BY <2>1 DEF EntryOK
<1>7. /\ db.versions \subseteq VersionRecord /\ Null \notin VersionRecord
      /\ \A v \in db.versions : v.createdAt \in Nat
      /\ \A v \in before.versions : v.createdAt \in Nat
      /\ \A x \in db.reports : x.createdAt \in Nat
  BY TablesAssumption DEF TablesInv, TablesOK, VersionsOK, ReportsOK, VersionRecord, ReportRecord
<1>8. /\ latest # Null => latest \in db.versions
      /\ versions # <<>> => latest # Null
  <2>1. CASE versions = <<>>
    BY <1>2, <1>6, <2>1 DEF LatestRead
  <2>2. CASE versions # <<>>
    <3>1. IsSeq(versions)
      BY <1>4 DEF VersionsRead
    <3>2. PICK v : v \in ToSet(versions)
      BY <2>2, <3>1, SeqFacts
    <3>3. versions[1] \in ToSet(versions)
      BY <1>4, <3>2 DEF VersionsRead
    <3> QED BY <1>2, <1>4, <1>7, <2>2, <3>3 DEF VersionsRead
  <2> QED BY <2>1, <2>2
<1>9. \A v \in before.versions : v.id[1] = m => latest # Null /\ latest.createdAt >= v.createdAt
  BY <1>2, <1>4, <1>8 DEF VersionsRead
<1>10. PICK time, seen : /\ time = IF latest = Null THEN 0 ELSE latest.createdAt
                         /\ seen = LatestOrModuleTime(latest, reports)
  OBVIOUS
<1>11. /\ time \in Nat
       /\ seen = IF reports # <<>> /\ reports[1].createdAt > time THEN reports[1].createdAt ELSE time
  BY <1>7, <1>8, <1>10 DEF LatestOrModuleTime
<1>12. ASSUME NEW row \in ToSet(reports) PROVE row.createdAt <= seen
  <2>1. /\ reports # <<>> /\ reports[1] \in ToSet(reports) /\ reports[1].createdAt >= row.createdAt
        /\ row \in db.reports /\ ToSet(reports) \subseteq db.reports
    BY <1>5 DEF ReportsRead
  <2>2. row.createdAt \in Nat /\ reports[1].createdAt \in Nat
    BY <1>7, <2>1
  <2> QED BY <1>11, <2>1, <2>2
<1>13. ASSUME NEW row \in ToSet(versions) PROVE row.createdAt <= seen
  <2>1. /\ versions # <<>> /\ versions[1].createdAt >= row.createdAt
        /\ row \in db.versions
    BY <1>4 DEF VersionsRead
  <2>2. latest = versions[1] /\ latest \in db.versions /\ time = latest.createdAt
    BY <1>2, <1>8, <1>10, <2>1
  <2>3. row.createdAt \in Nat /\ time >= row.createdAt
    BY <1>7, <2>1, <2>2
  <2>4. \A x \in db.reports : x.createdAt \in Nat
    BY <1>7
  <2>5. reports # <<>> => reports[1] \in db.reports
    <3>1. IsSeq(reports) /\ ToSet(reports) \subseteq db.reports
      BY <1>5 DEF ReportsRead
    <3>2. reports # <<>> => \E x : x \in ToSet(reports)
      BY <3>1, SeqFacts
    <3> QED BY <1>5, <3>1, <3>2 DEF ReportsRead
  <2>6. reports # <<>> => reports[1].createdAt \in Nat
    BY <2>4, <2>5
  <2> QED BY <1>11, <2>3, <2>6
<1> QED BY <1>3, <1>9, <1>10, <1>12, <1>13

\* The modules whose overview a list shows.
LEMMA ListAsked ==
  ASSUME PageInv, page.status = "ok", page.kind = "modules",
         NEW m, m \in ToSet(Matching(Got("modules", Null), page.arg))
  PROVE  <<"versions", m>> \in Asked
<1>1. PICK kind, arg, r, first, s :
        /\ kind = page.kind /\ arg = page.arg /\ r = Got("modules", Null) /\ first = FirstReads(kind, arg)
        /\ s = Then(kind, arg, "modules", Null, r)
  OBVIOUS
<1>2. <<"modules", Null>> \in Asked
  BY <1>1, FirstAsked, FirstReadsAre DEF Reads
<1>3. EntryOK("modules", Null, r, before, db) /\ ToSet(s) \subseteq Asked
  BY <1>1, <1>2, Answered
<1>4. IsSeq(r)
  BY <1>3 DEF EntryOK, ModulesRead
<1>5. PICK list : list = Matching(r, arg)
  OBVIOUS
<1>6. ToSet(list) = IF arg = Null THEN ToSet(r) ELSE {arg} \cap ToSet(r)
  BY <1>4, <1>5, MatchingFacts DEF Reads
<1>7. Reads(s, {<<"versions", x>> : x \in IF arg = Null THEN ToSet(r) ELSE {arg} \cap ToSet(r)})
  BY <1>1, <1>4, AfterModules
<1>8. ToSet(s) = {<<"versions", x>> : x \in ToSet(list)}
  BY <1>6, <1>7 DEF Reads
<1>9. m \in ToSet(list)
  BY <1>1, <1>5
<1> QED BY <1>3, <1>8, <1>9

LEMMA ModuleAsked ==
  ASSUME PageInv, page.status = "ok", page.kind = "module"
  PROVE  <<"versions", page.arg>> \in Asked
<1>1. PICK kind, arg, r, first, s :
        /\ kind = page.kind /\ arg = page.arg /\ r = Got("module", arg) /\ first = FirstReads(kind, arg)
        /\ s = Then(kind, arg, "module", arg, r)
  OBVIOUS
<1>2. <<"module", arg>> \in Asked
  BY <1>1, FirstAsked, FirstReadsAre DEF Reads
<1>3. ToSet(s) \subseteq Asked
  BY <1>1, <1>2, Answered
<1>4. Reads(s, {<<"versions", arg>>})
  BY <1>1, AfterModule
<1> QED BY <1>1, <1>3, <1>4 DEF Reads

LEMMA OverviewIsConsistent ==
  ASSUME TablesInv, PageInv
  PROVE  OverviewConsistent
<1> SUFFICES ASSUME page.status = "ok", page.kind \in {"modules", "module"},
                    NEW m \in (IF page.kind = "module" THEN {page.arg} ELSE DOMAIN ModuleRows),
                    NEW o, o = IF page.kind = "module" THEN ModuleDetailView.overview ELSE ModuleRows[m]
             PROVE  /\ \A v \in before.versions :
                         v.id[1] = m => o.latest # Null /\ o.latest.createdAt >= v.createdAt
                    /\ \A row \in ToSet(o.versions) \cup ToSet(o.reports) :
                         row.createdAt <= o.lastPublishedOrSeen
  BY DEF OverviewConsistent, ShownPage
<1>1. CASE page.kind = "module"
  <2>1. m = page.arg /\ o = ModuleOverview(m)
    BY <1>1 DEF ModuleDetailView
  <2>2. <<"versions", m>> \in Asked
    BY <1>1, <2>1, ModuleAsked
  <2> QED BY <1>1, <2>1, <2>2, OverviewFacts
<1>2. CASE page.kind = "modules"
  <2>1. m \in ToSet(Matching(Got("modules", Null), page.arg)) /\ o = ModuleOverview(m)
    BY <1>2 DEF ModuleRows
  <2>2. <<"versions", m>> \in Asked
    BY <1>2, <2>1, ListAsked
  <2> QED BY <1>2, <2>1, <2>2, OverviewFacts
<1> QED BY <1>1, <1>2

-----------------------------------------------------------------------------
(* Versions with all their parts. *)

LEMMA VersionParts ==
  ASSUME PageInv, page.status = "ok", NEW mv,
         \A x \in Parts : <<x, mv>> \in Asked, NEW row, row = VersionRow(mv)
  PROVE  row.digests = Kinds /\ row.lint = TRUE /\ row.counts = TRUE
<1>1. PICK a, b, c : a = Got("artifacts", mv) /\ b = Got("config", mv) /\ c = Got("summary", mv)
  OBVIOUS
<1>2. row = [digests |-> a, lint |-> b, counts |-> c]
  BY <1>1 DEF VersionRow
<1>3. <<"artifacts", mv>> \in Asked /\ <<"config", mv>> \in Asked /\ <<"summary", mv>> \in Asked
  BY DEF Parts
<1>4. EntryOK("artifacts", mv, a, before, db)
  BY <1>1, <1>3, Answered
<1>5. EntryOK("config", mv, b, before, db)
  BY <1>1, <1>3, Answered
<1>6. EntryOK("summary", mv, c, before, db)
  BY <1>1, <1>3, Answered
<1>7. a = Kinds
  BY <1>4 DEF EntryOK
<1>8. b = TRUE
  BY <1>5 DEF EntryOK
<1>9. c = TRUE
  BY <1>6 DEF EntryOK
<1> QED BY <1>2, <1>7, <1>8, <1>9

\* The statements of the page of a version.
LEMMA VersionAsked ==
  ASSUME PageInv, page.status = "ok", page.kind = "version"
  PROVE  /\ \A x \in Parts \cup {"metadata"} : <<x, page.arg>> \in Asked
         /\ <<"reports", page.arg[1]>> \in Asked
<1>1. PICK kind, arg, m, first : kind = page.kind /\ arg = page.arg /\ m = arg[1] /\ first = FirstReads(kind, arg)
  OBVIOUS
<1>2. <<"module", m>> \in Asked
  BY <1>1, FirstAsked, FirstReadsAre DEF Reads
<1>3. PICK r, s : r = Got("module", m) /\ s = Then(kind, arg, "module", m, r)
  OBVIOUS
<1>4. ToSet(s) \subseteq Asked
  BY <1>1, <1>2, <1>3, Answered
<1>5. <<"version", arg>> \in Asked
  BY <1>1, <1>3, <1>4, AfterModule DEF Reads
<1>6. PICK v, w : v = Got("version", arg) /\ w = Then(kind, arg, "version", arg, v)
  OBVIOUS
<1>7. ToSet(w) \subseteq Asked
  BY <1>1, <1>5, <1>6, Answered
<1>8. Reads(w, {<<"artifacts", arg>>, <<"config", arg>>, <<"summary", arg>>, <<"metadata", arg>>, <<"reports", m>>})
  BY <1>1, <1>6, AfterVersion
<1> QED BY <1>1, <1>7, <1>8 DEF Reads, Parts

LEMMA VersionPageIsWhole ==
  ASSUME PageInv
  PROVE  VersionPageWhole
<1>1. ASSUME page.status = "ok", page.kind = "module", NEW row \in ToSet(ModuleDetailView.versions)
      PROVE  row.digests = Kinds /\ row.lint /\ row.counts
  <2>1. PICK m, versions, rows :
          /\ m = page.arg /\ versions = Got("versions", m)
          /\ rows = [i \in DOMAIN versions |-> VersionRow(versions[i].id)]
    OBVIOUS
  <2>2. ModuleDetailView.versions = rows
    BY <2>1 DEF ModuleDetailView
  <2>3. PICK i \in DOMAIN versions : row = VersionRow(versions[i].id)
    BY <1>1, <2>1, <2>2 DEF ToSet
  <2>4. <<"versions", m>> \in Asked
    BY <1>1, <2>1, ModuleAsked
  <2>5. \A x \in Parts, v \in ToSet(versions) : <<x, v.id>> \in Asked
    BY <1>1, <2>1, <2>4, OverviewAsked
  <2>6. PICK v : v = versions[i]
    OBVIOUS
  <2>7. v \in ToSet(versions) /\ row = VersionRow(v.id)
    BY <2>3, <2>6 DEF ToSet
  <2> QED BY <1>1, <2>5, <2>7, VersionParts
<1>2. ASSUME page.status = "ok", page.kind = "version", NEW view, view = VersionDetailView
      PROVE  view.version.digests = Kinds /\ view.version.lint /\ view.version.counts /\ view.files
  <2>1. PICK mv, row, files, related :
          /\ mv = page.arg /\ row = VersionRow(mv) /\ files = Got("metadata", mv)
          /\ related = {r \in ToSet(Got("reports", page.arg[1])) : r.base = page.arg}
    OBVIOUS
  <2>2. view = [version |-> row, files |-> files, related |-> related]
    BY <1>2, <2>1 DEF VersionDetailView
  <2>3. \A x \in Parts \cup {"metadata"} : <<x, mv>> \in Asked
    BY <1>2, <2>1, VersionAsked
  <2>4. row.digests = Kinds /\ row.lint = TRUE /\ row.counts = TRUE
    BY <1>2, <2>1, <2>3, VersionParts
  <2>5. EntryOK("metadata", mv, files, before, db)
    BY <1>2, <2>1, <2>3, Answered
  <2>6. files = TRUE
    BY <2>5 DEF EntryOK
  <2> QED BY <2>2, <2>4, <2>6
<1> QED BY <1>1, <1>2 DEF VersionPageWhole, ShownPage

-----------------------------------------------------------------------------
(* Reports in the order of time. *)

\* A list with room for every row has every row.
LEMMA SortedAll ==
  ASSUME NEW rows, IsFiniteSet(rows), NEW at, \A x \in rows : at[x] \in Int,
         \A x, y \in rows : at[x] = at[y] => x = y,
         NEW s, s = Sorted(rows, at, Cardinality(rows))
  PROVE  /\ IsSeq(s) /\ ToSet(s) = rows
         /\ \A i, j \in 1 .. Len(s) : i < j => at[s[i]] > at[s[j]]
<1>1. PICK n : n = Cardinality(rows)
  OBVIOUS
<1>2. n \in Nat
  BY <1>1, FS_CardinalityType
<1>3. /\ IsSeq(s) /\ ToSet(s) \subseteq rows
      /\ \A i, j \in 1 .. Len(s) : i < j => at[s[i]] > at[s[j]]
      /\ \A row \in rows : row \in ToSet(s) \/ Cardinality(Before(rows, at, row)) >= n
  BY <1>1, <1>2, SortedFacts
<1>4. ASSUME NEW row \in rows PROVE Cardinality(Before(rows, at, row)) < n
  <2>1. PICK B : B = Before(rows, at, row)
    OBVIOUS
  <2>2. B \in SUBSET rows /\ row \in rows \ B
    BY <1>4, <2>1 DEF Before
  <2>3. /\ IsFiniteSet(B) /\ Cardinality(B) <= Cardinality(rows)
        /\ Cardinality(B) = Cardinality(rows) => B = rows
    BY <2>2, FS_Subset
  <2>4. Cardinality(B) \in Nat /\ B # rows
    BY <2>2, <2>3, FS_CardinalityType
  <2> QED BY <1>1, <1>2, <2>1, <2>3, <2>4
<1>5. \A row \in rows : Cardinality(Before(rows, at, row)) \in Nat
  <2> TAKE row \in rows
  <2>1. PICK B : B = Before(rows, at, row)
    OBVIOUS
  <2>2. B \in SUBSET rows
    BY <2>1 DEF Before
  <2>3. IsFiniteSet(B)
    BY <2>2, FS_Subset
  <2> QED BY <2>1, <2>3, FS_CardinalityType
<1>6. \A row \in rows : row \in ToSet(s)
  BY <1>2, <1>3, <1>4, <1>5
<1> QED BY <1>3, <1>6

\* The modules of the list, and the statements for their reports.
LEMMA ReportsAsked ==
  ASSUME TablesInv, PageInv, page.status = "ok", page.kind = "reports",
         NEW modules, modules = IF page.arg[1] = Null THEN ToSet(Got("modules", Null)) ELSE {page.arg[1]}
  PROVE  /\ \A m \in modules : <<"reports", m>> \in Asked
         /\ page.arg[1] = Null => \A m \in before.modules :
              \/ m \in modules
              \/ Cardinality({o \in db.modules : Position(o) < Position(m)}) >= ListLimit
<1>1. PICK kind, arg, m, first : kind = page.kind /\ arg = page.arg /\ m = arg[1] /\ first = FirstReads(kind, arg)
  OBVIOUS
<1>2. Reads(first, {IF m = Null THEN <<"modules", Null>> ELSE <<"module", m>>}) /\ ToSet(first) \subseteq Asked
  BY <1>1, FirstAsked, FirstReadsAre
<1>3. CASE m = Null
  <2>1. <<"modules", Null>> \in Asked
    BY <1>2, <1>3 DEF Reads
  <2>2. PICK r, s : r = Got("modules", Null) /\ s = Then(kind, arg, "modules", Null, r)
    OBVIOUS
  <2>3. EntryOK("modules", Null, r, before, db) /\ ToSet(s) \subseteq Asked
    BY <1>1, <2>1, <2>2, Answered
  <2>4. ModulesRead(r, before, db)
    BY <2>3 DEF EntryOK
  <2>5. Reads(s, {<<"reports", x>> : x \in ToSet(r)})
    BY <1>1, <2>2, <2>4, AfterModules DEF ModulesRead
  <2>6. modules = ToSet(r)
    BY <1>1, <1>3, <2>2
  <2>7. \A x \in modules : <<"reports", x>> \in Asked
    BY <2>3, <2>5, <2>6 DEF Reads
  <2> QED BY <2>4, <2>6, <2>7 DEF ModulesRead
<1>4. CASE m # Null
  <2>1. <<"module", m>> \in Asked
    BY <1>2, <1>4 DEF Reads
  <2>2. PICK r, s : r = Got("module", m) /\ s = Then(kind, arg, "module", m, r)
    OBVIOUS
  <2>3. ToSet(s) \subseteq Asked
    BY <1>1, <2>1, <2>2, Answered
  <2>4. Reads(s, {<<"reports", m>>})
    BY <1>1, <2>2, AfterModule
  <2> QED BY <1>1, <1>4, <2>3, <2>4 DEF Reads
<1> QED BY <1>3, <1>4

\* The reports that a statement found.
LEMMA ReportsFound ==
  ASSUME PageInv, page.status = "ok", NEW m, <<"reports", m>> \in Asked
  PROVE  ReportsRead(m, Got("reports", m), before, db)
<1>1. PICK r : r = Got("reports", m)
  OBVIOUS
<1>2. EntryOK("reports", m, r, before, db)
  BY <1>1, Answered
<1> QED BY <1>1, <1>2 DEF EntryOK

LEMMA ReportsAreListed ==
  ASSUME TablesInv, PageInv
  PROVE  ReportsListed
<1> DEFINE Full(r) == Cardinality({x \in db.reports : x.base[1] = r.base[1] /\ Newer(x, r)}) >= ReportsLimit
           Beyond(m) == Cardinality({o \in db.modules : Position(o) < Position(m)}) >= ListLimit
<1>1. ASSUME page.status = "ok", page.kind = "reports", NEW list, list = BreakingReportsView
      PROVE  /\ \A i, j \in DOMAIN list : i < j => ~ Newer(list[j], list[i])
             /\ \A r \in before.reports :
                  \/ r \in ToSet(list) \/ Full(r)
                  \/ page.arg[1] = Null /\ Beyond(r.base[1])
                  \/ page.arg[1] \notin {Null, r.base[1]} \/ page.arg[2] \notin {Null, ReportStatus(r)}
  <2>1. PICK modules : modules = IF page.arg[1] = Null THEN ToSet(Got("modules", Null)) ELSE {page.arg[1]}
    OBVIOUS
  <2>2. /\ \A m \in modules : <<"reports", m>> \in Asked
        /\ page.arg[1] = Null => \A m \in before.modules : m \in modules \/ Beyond(m)
    BY <1>1, <2>1, ReportsAsked
  <2>3. PICK rows, at : /\ rows = {r \in ReportsOf(modules) : page.arg[2] \in {Null, ReportStatus(r)}}
                        /\ at = [row \in rows |-> row.createdAt]
    OBVIOUS
  <2>4. list = Sorted(rows, at, Cardinality(rows))
    BY <1>1, <2>1, <2>3 DEF BreakingReportsView, NewestFirst, Newest
  <2>5. \A m \in modules : ReportsRead(m, Got("reports", m), before, db)
    BY <1>1, <2>2, ReportsFound
  <2>6. rows \in SUBSET db.reports
    BY <2>3, <2>5 DEF ReportsOf, ReportsRead
  <2>7. IsFiniteSet(rows)
    <3>1. IsFiniteSet(db.reports)
      BY DEF TablesInv, TablesOK, ReportsOK
    <3> QED BY <2>6, <3>1, FS_Subset
  <2>8. /\ \A x \in rows : x.createdAt \in Nat /\ at[x] = x.createdAt
        /\ \A x, y \in rows : x.createdAt = y.createdAt => x = y
    BY <2>3, <2>6 DEF TablesInv, TablesOK, ReportsOK, ReportRecord
  <2>9. /\ IsSeq(list) /\ ToSet(list) = rows
        /\ \A i, j \in 1 .. Len(list) : i < j => at[list[i]] > at[list[j]]
    BY <2>4, <2>7, <2>8, SortedAll
  <2>10. DOMAIN list = 1 .. Len(list) /\ \A i \in 1 .. Len(list) : list[i] \in rows
    BY <2>9, SeqFacts
  <2>11. ASSUME NEW i \in DOMAIN list, NEW j \in DOMAIN list, i < j PROVE ~ Newer(list[j], list[i])
    <3>1. PICK a, b : a = list[i] /\ b = list[j]
      OBVIOUS
    <3>2. a \in rows /\ b \in rows /\ at[a] > at[b]
      BY <2>9, <2>10, <2>11, <3>1
    <3>3. a.createdAt \in Nat /\ b.createdAt \in Nat /\ a.createdAt > b.createdAt
      BY <2>8, <3>2
    <3> QED BY <3>1, <3>3 DEF Newer
  <2>12. ASSUME NEW r \in before.reports, page.arg[1] \in {Null, r.base[1]}, page.arg[2] \in {Null, ReportStatus(r)},
                ~ (page.arg[1] = Null /\ Beyond(r.base[1]))
         PROVE  r \in ToSet(list) \/ Full(r)
    <3>1. PICK m : m = r.base[1]
      OBVIOUS
    <3>2. m \in before.modules
      BY <3>1 DEF TablesInv, TablesOK, ReportsOK
    <3>3. m \in modules
      BY <2>1, <2>2, <2>12, <3>1, <3>2
    <3>4. PICK found : found = Got("reports", m)
      OBVIOUS
    <3>5. \/ r \in ToSet(found)
          \/ Cardinality({y \in db.reports : y.base[1] = m /\ Newer(y, r)}) >= ReportsLimit
      BY <2>5, <3>1, <3>3, <3>4 DEF ReportsRead
    <3>6. r \in ToSet(found) => r \in rows
      BY <2>3, <2>12, <3>3, <3>4 DEF ReportsOf
    <3> QED BY <2>9, <3>1, <3>5, <3>6
  <2> HIDE DEF Full, Beyond
  <2> QED BY <2>11, <2>12
<1>2. ASSUME page.status = "ok", page.kind = "version", NEW r \in before.reports, r.base = page.arg
      PROVE  r \in VersionDetailView.related \/ Full(r)
  <2>1. PICK m, found : m = page.arg[1] /\ found = Got("reports", m)
    OBVIOUS
  <2>2. ReportsRead(m, found, before, db)
    BY <1>2, <2>1, VersionAsked, ReportsFound
  <2>3. \/ r \in ToSet(found)
        \/ Cardinality({y \in db.reports : y.base[1] = m /\ Newer(y, r)}) >= ReportsLimit
    BY <1>2, <2>1, <2>2 DEF ReportsRead
  <2>4. VersionDetailView.related = {x \in ToSet(found) : x.base = page.arg}
    BY <2>1 DEF VersionDetailView
  <2> QED BY <1>2, <2>1, <2>3, <2>4
<1> QED BY <1>1, <1>2 DEF ReportsListed, ShownPage

-----------------------------------------------------------------------------
(* The page of a report, the dependencies and the runtime. *)

LEMMA ReportAsked ==
  ASSUME PageInv, page.status = "ok", page.kind = "report", NEW report, report = Got("report", page.arg)
  PROVE  /\ ReportRead(page.arg, report, db)
         /\ <<"changes", page.arg>> \in Asked /\ <<"request", page.arg>> \in Asked
         /\ <<"impact", report.base>> \in Asked
<1>1. PICK kind, arg, first, s :
        /\ kind = page.kind /\ arg = page.arg /\ first = FirstReads(kind, arg)
        /\ s = Then(kind, arg, "report", arg, report)
  OBVIOUS
<1>2. <<"report", arg>> \in Asked
  BY <1>1, FirstAsked, FirstReadsAre DEF Reads
<1>3. EntryOK("report", arg, report, before, db) /\ ToSet(s) \subseteq Asked
  BY <1>1, <1>2, Answered
<1>4. ReportRead(arg, report, db)
  BY <1>3 DEF EntryOK
<1>5. Reads(s, {<<"changes", arg>>, <<"affected", report.base[1]>>, <<"impact", report.base>>, <<"request", arg>>})
  BY <1>1, AfterReport
<1> QED BY <1>1, <1>3, <1>4, <1>5 DEF Reads

LEMMA ReportPageIsWhole ==
  ASSUME TablesInv, PageInv
  PROVE  ReportPageWhole
<1> SUFFICES ASSUME page.status = "ok", page.kind = "report", NEW view, view = BreakingReportDetailView
             PROVE  /\ Cardinality(view.changes) =
                         IF view.report.count < ChangesLimit THEN view.report.count ELSE ChangesLimit
                    /\ (\E q \in before.requests : q.report = page.arg) => view.approval # {}
                    /\ {u \in before.usages : u.ref = view.report.base /\ u.known} \subseteq view.impact
  BY DEF ReportPageWhole, ShownPage
<1>1. PICK report, changes, affected, impact, request, approval :
        /\ report = Got("report", page.arg) /\ request = Got("request", page.arg)
        /\ changes = Got("changes", page.arg) /\ affected = Got("affected", report.base[1])
        /\ impact = Got("impact", report.base)
        /\ approval = {ApprovalRequestView(q) : q \in {request} \ {Null}}
  OBVIOUS
<1>2. view = [report |-> report, changes |-> changes, affected |-> affected, impact |-> impact,
              approval |-> approval]
  BY <1>1 DEF BreakingReportDetailView
<1>3. /\ ReportRead(page.arg, report, db)
      /\ <<"changes", page.arg>> \in Asked /\ <<"request", page.arg>> \in Asked
      /\ <<"impact", report.base>> \in Asked
  BY <1>1, ReportAsked
<1>4. Cardinality(changes) = IF report.count < ChangesLimit THEN report.count ELSE ChangesLimit
  <2>1. EntryOK("changes", page.arg, changes, before, db)
    BY <1>1, <1>3, Answered
  <2>2. ChangesRead(page.arg, changes, db)
    BY <2>1 DEF EntryOK
  <2>3. PICK x \in db.reports :
          /\ x.id = page.arg
          /\ Cardinality(changes) = IF x.count < ChangesLimit THEN x.count ELSE ChangesLimit
    BY <2>2 DEF ChangesRead
  <2>4. x = report
    BY <1>3, <2>3 DEF ReportRead, TablesInv, TablesOK, ReportsOK
  <2> QED BY <2>3, <2>4
<1>5. HasRequest(before, page.arg) => approval # {}
  <2>1. EntryOK("request", page.arg, request, before, db)
    BY <1>1, <1>3, Answered
  <2>2. RequestRead(page.arg, request, before, db)
    BY <2>1 DEF EntryOK
  <2>3. request # Null => request \in {request} \ {Null}
    OBVIOUS
  <2> QED BY <1>1, <2>2, <2>3 DEF RequestRead
<1>6. UsedAs(before, report.base) \subseteq impact
  <2>1. EntryOK("impact", report.base, impact, before, db)
    BY <1>1, <1>3, Answered
  <2> QED BY <2>1 DEF EntryOK
<1> QED BY <1>2, <1>4, <1>5, <1>6 DEF HasRequest, UsedAs

\* A row for a version that the edges lead to, with all the sources.
LEMMA DependencyRows ==
  ASSUME NEW edges, NEW mine, EdgesRead(edges, mine), NEW e \in mine
  PROVE  /\ [version |-> e.provider, sources |-> Sources] \in DependencyModules(edges, "provider")
         /\ [version |-> e.consumer, sources |-> Sources] \in DependencyModules(edges, "consumer")
<1>1. e \in edges
  BY DEF EdgesRead
<1>2. \A d \in edges : d.source \in Sources
  BY DEF EdgesRead
<1>3. \A k \in Sources : [consumer |-> e.consumer, provider |-> e.provider, source |-> k] \in edges
  BY <1>1 DEF EdgesRead
<1>4. ASSUME NEW k \in Sources
      PROVE  \E d \in edges : d.source = k /\ d.consumer = e.consumer /\ d.provider = e.provider
  <2>1. PICK d : d = [consumer |-> e.consumer, provider |-> e.provider, source |-> k]
    OBVIOUS
  <2>2. d \in edges /\ d.source = k /\ d.consumer = e.consumer /\ d.provider = e.provider
    BY <1>3, <2>1
  <2> QED BY <2>2
<1>5. {x.source : x \in {d \in edges : d.provider = e.provider}} = Sources
  BY <1>2, <1>4
<1>6. {x.source : x \in {d \in edges : d.consumer = e.consumer}} = Sources
  BY <1>2, <1>4
<1>7. [version |-> e.provider, sources |-> Sources] \in DependencyModules(edges, "provider")
  <2>1. \E d \in edges : d.provider = e.provider
    BY <1>1
  <2> QED BY <1>5, <2>1 DEF DependencyModules
<1>8. [version |-> e.consumer, sources |-> Sources] \in DependencyModules(edges, "consumer")
  <2>1. \E d \in edges : d.consumer = e.consumer
    BY <1>1
  <2> QED BY <1>6, <2>1 DEF DependencyModules
<1> QED BY <1>7, <1>8

LEMMA DependenciesAreShown ==
  ASSUME PageInv
  PROVE  DependenciesShown
<1> SUFFICES ASSUME page.status = "ok", page.kind = "dependencies",
                    NEW view, view = ModuleDependencyView
             PROVE  /\ \A e \in before.edges :
                         /\ e.consumer[1] = page.arg =>
                              [version |-> e.provider, sources |-> Sources] \in view.upstream
                         /\ e.provider[1] = page.arg =>
                              [version |-> e.consumer, sources |-> Sources] \in view.downstream
                    /\ \A u \in before.unresolved : u.consumer[1] = page.arg => u.name \in view.unresolved
  BY DEF DependenciesShown, ShownPage
<1>1. PICK kind, arg, r, first, s :
        /\ kind = page.kind /\ arg = page.arg /\ r = Got("module", arg) /\ first = FirstReads(kind, arg)
        /\ s = Then(kind, arg, "module", arg, r)
  OBVIOUS
<1>2. <<"module", arg>> \in Asked
  BY <1>1, FirstAsked, FirstReadsAre DEF Reads
<1>3. ToSet(s) \subseteq Asked
  BY <1>1, <1>2, Answered
<1>4. Reads(s, {<<"upstream", arg>>, <<"downstream", arg>>, <<"unresolved", arg>>})
  BY <1>1, AfterModule
<1>5. <<"upstream", arg>> \in Asked /\ <<"downstream", arg>> \in Asked /\ <<"unresolved", arg>> \in Asked
  BY <1>3, <1>4 DEF Reads
<1>6. PICK up, down, un : up = Got("upstream", arg) /\ down = Got("downstream", arg) /\ un = Got("unresolved", arg)
  OBVIOUS
<1>7. EntryOK("upstream", arg, up, before, db)
  BY <1>5, <1>6, Answered
<1>8. EntryOK("downstream", arg, down, before, db)
  BY <1>5, <1>6, Answered
<1>9. EntryOK("unresolved", arg, un, before, db)
  BY <1>5, <1>6, Answered
<1>10. EdgesRead(up, ConsumedBy(before, arg))
  BY <1>7 DEF EntryOK
<1>11. EdgesRead(down, ProvidedBy(before, arg))
  BY <1>8 DEF EntryOK
<1>12. UnresolvedBy(before, arg) \subseteq un
  BY <1>9 DEF EntryOK
<1>13. PICK a, b, c : a = DependencyModules(up, "provider") /\ b = DependencyModules(down, "consumer")
                      /\ c = {u.name : u \in un}
  OBVIOUS
<1>14. view = [upstream |-> a, downstream |-> b, unresolved |-> c]
  BY <1>1, <1>6, <1>13 DEF ModuleDependencyView
<1>15. \A e \in ConsumedBy(before, arg) : [version |-> e.provider, sources |-> Sources] \in a
  BY <1>10, <1>13, DependencyRows
<1>16. \A e \in ProvidedBy(before, arg) : [version |-> e.consumer, sources |-> Sources] \in b
  BY <1>11, <1>13, DependencyRows
<1>17. \A u \in UnresolvedBy(before, arg) : u.name \in c
  BY <1>12, <1>13
<1> QED BY <1>1, <1>14, <1>15, <1>16, <1>17 DEF ConsumedBy, ProvidedBy, UnresolvedBy

LEMMA DeploymentsAreShown ==
  ASSUME PageInv, page.status = "ok", page.kind \in {"service", "environment"},
         NEW list, list = Got(IF page.kind = "service" THEN "deployments" ELSE "deploymentsIn", page.arg),
         NEW mine, mine = (IF page.kind = "service" THEN OfService(before, page.arg)
                           ELSE OfEnvironment(before, page.arg)),
         NEW now, now = (IF page.kind = "service" THEN OfService(db, page.arg)
                         ELSE OfEnvironment(db, page.arg))
  PROVE  /\ DeploymentsRead(list, mine, now)
         /\ \A d \in ToSet(list) : Got("usagesOf", d.id) # {}
<1>1. PICK kind, arg, first : kind = page.kind /\ arg = page.arg /\ first = FirstReads(kind, arg)
  OBVIOUS
<1>2. PICK st : st = IF kind = "service" THEN "deployments" ELSE "deploymentsIn"
  OBVIOUS
<1>3. <<st, arg>> \in Asked
  <2>1. CASE kind = "service"
    <3>1. <<"service", arg>> \in Asked
      BY <1>1, <2>1, FirstAsked, FirstReadsAre DEF Reads
    <3>2. PICK r, s : r = Got("service", arg) /\ s = Then(kind, arg, "service", arg, r)
      OBVIOUS
    <3>3. ToSet(s) \subseteq Asked
      BY <1>1, <3>1, <3>2, Answered
    <3>4. Reads(s, {<<"deployments", arg>>})
      BY <3>2, AfterService
    <3> QED BY <1>2, <2>1, <3>3, <3>4 DEF Reads
  <2>2. CASE kind = "environment"
    <3>1. <<"deploymentsIn", arg>> \in Asked
      BY <1>1, <2>2, FirstAsked, FirstReadsAre DEF Reads
    <3> QED BY <1>2, <2>2, <3>1
  <2> QED BY <1>1, <2>1, <2>2
<1>4. list = Got(st, arg)
  BY <1>1, <1>2
<1>5. PICK s : s = Then(kind, arg, st, arg, list)
  OBVIOUS
<1>6. EntryOK(st, arg, list, before, db) /\ ToSet(s) \subseteq Asked
  BY <1>1, <1>3, <1>4, <1>5, Answered
<1>7. DeploymentsRead(list, mine, now)
  <2>1. CASE kind = "service"
    <3>1. EntryOK("deployments", arg, list, before, db)
      BY <1>2, <1>6, <2>1
    <3>2. DeploymentsRead(list, OfService(before, arg), OfService(db, arg))
      BY <3>1 DEF EntryOK
    <3> QED BY <1>1, <2>1, <3>2
  <2>2. CASE kind = "environment"
    <3>1. EntryOK("deploymentsIn", arg, list, before, db)
      BY <1>2, <1>6, <2>2
    <3>2. DeploymentsRead(list, OfEnvironment(before, arg), OfEnvironment(db, arg))
      BY <3>1 DEF EntryOK
    <3> QED BY <1>1, <2>2, <3>2
  <2> QED BY <1>1, <2>1, <2>2
<1>8. Reads(s, {<<"usagesOf", d.id>> : d \in ToSet(list)})
  BY <1>2, <1>5, <1>7, AfterDeployments DEF DeploymentsRead
<1>9. ASSUME NEW d \in ToSet(list) PROVE Got("usagesOf", d.id) # {}
  <2>1. <<"usagesOf", d.id>> \in Asked
    BY <1>6, <1>8 DEF Reads
  <2>2. PICK r : r = Got("usagesOf", d.id)
    OBVIOUS
  <2>3. EntryOK("usagesOf", d.id, r, before, db)
    BY <2>1, <2>2, Answered
  <2> QED BY <2>2, <2>3 DEF EntryOK
<1> QED BY <1>7, <1>9

LEMMA ServicesAreShown ==
  ASSUME PageInv, page.status = "ok", page.kind = "services",
         NEW d \in before.deployments, page.arg \in {Null, d.environment}
  PROVE  \E row \in ToSet(RuntimeServicesView) : row.service = d.service /\ row.last >= d.createdAt
<1>1. PICK kind, arg, first, all :
        kind = page.kind /\ arg = page.arg /\ first = FirstReads(kind, arg) /\ all = Got("services", Null)
  OBVIOUS
<1>2. <<"services", Null>> \in Asked
  BY <1>1, FirstAsked, FirstReadsAre DEF Reads
<1>3. EntryOK("services", Null, all, before, db)
  BY <1>1, <1>2, Answered
<1>4. ServicesRead(all, before)
  BY <1>3 DEF EntryOK
<1>5. PICK rows, at : /\ rows = {s \in all : page.arg \in {Null} \cup s.environments}
                      /\ at = [s \in rows |-> s.last]
  OBVIOUS
<1>6. PICK list : list = Sorted(rows, at, Cardinality(rows))
  OBVIOUS
<1>7. RuntimeServicesView = list
  BY <1>1, <1>5, <1>6 DEF RuntimeServicesView
<1>8. IsFiniteSet(rows)
  <2>1. rows \in SUBSET all /\ IsFiniteSet(all)
    BY <1>4, <1>5 DEF ServicesRead
  <2> QED BY <2>1, FS_Subset
<1>9. /\ \A x \in rows : at[x] \in Int
      /\ \A x, y \in rows : at[x] = at[y] => x = y
  BY <1>4, <1>5 DEF ServicesRead
<1>10. ToSet(list) = rows
  BY <1>6, <1>8, <1>9, SortedAll
<1>11. PICK row \in all : row.service = d.service /\ d.environment \in row.environments /\ row.last >= d.createdAt
  BY <1>4 DEF ServicesRead
<1>12. row \in rows
  BY <1>5, <1>11
<1> QED BY <1>7, <1>10, <1>11, <1>12

LEMMA RuntimePageIsWhole ==
  ASSUME PageInv
  PROVE  RuntimePageWhole
<1> DEFINE Here(d) == page.arg = IF page.kind = "service" THEN d.service ELSE d.environment
           Full(S, d) == Cardinality({x \in S : Newer(x, d)}) >= ListLimit
<1>1. ASSUME page.status = "ok", page.kind \in {"service", "environment"}, NEW views,
             views = RuntimeDeploymentViews(
                       Got(IF page.kind = "service" THEN "deployments" ELSE "deploymentsIn", page.arg))
      PROVE  /\ \A view \in ToSet(views) : view.usages # {}
             /\ \A d \in {x \in before.deployments : Here(x)} :
                  \/ \E view \in ToSet(views) : view.deployment = d
                  \/ Full({x \in db.deployments : Here(x)}, d)
  <2>1. PICK list, mine, now :
          /\ list = Got(IF page.kind = "service" THEN "deployments" ELSE "deploymentsIn", page.arg)
          /\ mine = (IF page.kind = "service" THEN OfService(before, page.arg)
                     ELSE OfEnvironment(before, page.arg))
          /\ now = (IF page.kind = "service" THEN OfService(db, page.arg) ELSE OfEnvironment(db, page.arg))
    OBVIOUS
  <2>2. /\ DeploymentsRead(list, mine, now)
        /\ \A d \in ToSet(list) : Got("usagesOf", d.id) # {}
    BY <1>1, <2>1, DeploymentsAreShown
  <2>3. mine = {x \in before.deployments : Here(x)} /\ now = {x \in db.deployments : Here(x)}
    BY <1>1, <2>1 DEF OfService, OfEnvironment
  <2>4. views = [i \in DOMAIN list |-> [deployment |-> list[i], usages |-> Got("usagesOf", list[i].id)]]
    BY <1>1, <2>1 DEF RuntimeDeploymentViews
  <2>5. /\ DOMAIN views = DOMAIN list
        /\ \A i \in DOMAIN list : views[i].deployment = list[i] /\ views[i].usages = Got("usagesOf", list[i].id)
    BY <2>4
  <2>6. ASSUME NEW view \in ToSet(views) PROVE view.usages # {}
    <3>1. PICK i \in DOMAIN list : view = views[i]
      BY <2>5, <2>6 DEF ToSet
    <3>2. list[i] \in ToSet(list)
      BY DEF ToSet
    <3> QED BY <2>2, <2>5, <3>1, <3>2
  <2>7. ASSUME NEW d \in mine
        PROVE  (\E view \in ToSet(views) : view.deployment = d) \/ Full(now, d)
    <3>1. d \in ToSet(list) \/ Full(now, d)
      BY <2>2 DEF DeploymentsRead
    <3>2. ASSUME d \in ToSet(list) PROVE \E view \in ToSet(views) : view.deployment = d
      <4>1. PICK i \in DOMAIN list : d = list[i]
        BY <3>2 DEF ToSet
      <4>2. views[i] \in ToSet(views) /\ views[i].deployment = d
        BY <2>5, <4>1 DEF ToSet
      <4> QED BY <4>2
    <3> QED BY <3>1, <3>2
  <2> HIDE DEF Here, Full
  <2> QED BY <2>3, <2>6, <2>7
<1>2. ASSUME page.status = "ok", page.kind = "services", NEW d \in before.deployments,
             page.arg \in {Null, d.environment}
      PROVE  \E row \in ToSet(RuntimeServicesView) : row.service = d.service /\ row.last >= d.createdAt
  BY <1>2, ServicesAreShown
<1> QED BY <1>1, <1>2 DEF RuntimePageWhole, ShownPage

\* A page shows every part that belongs to what it shows, and every row that was
\* stored when it was asked for unless a limit is reached, although its statements
\* are run one after the other and no transaction holds them together (the queries
\* of internal/usecase/uiquery).
THEOREM PageIsWhole == Spec => []PageWhole
<1>1. Init => TablesInv /\ PageInv
  BY TablesInit, PageInit
<1>2. TablesInv /\ PageInv /\ [Next]_vars => (TablesInv /\ PageInv)'
  BY TablesNext, PageNext
<1>3. TablesInv /\ PageInv => PageWhole
  BY VersionPageIsWhole, ReportsAreListed, ReportPageIsWhole, DependenciesAreShown, RuntimePageIsWhole
     DEF PageWhole
<1> QED BY <1>1, <1>2, <1>3, PTL DEF Spec

-----------------------------------------------------------------------------
(* The order of the statements. *)

\* Where a statement comes on the pages of usages, reports and approvals.
OrderedKinds == {"usages", "report", "approval"}
Planned == {"module", "report", "changes", "usages", "affected", "impact", "request", "latest",
            "requirements", "decisions", "audit"}
Rank(st) ==
  CASE st \in {"module", "report"} -> 0
    [] st \in {"changes", "usages"} -> 1
    [] st = "affected" -> 2
    [] st = "impact" -> 3
    [] st \in {"request", "latest"} -> 4
    [] st = "requirements" -> 5
    [] st = "decisions" -> 6
    [] st = "audit" -> 7

\* The first statement, those that follow from it, and those that follow from them.
Phase(st) == IF Rank(st) = 0 THEN 0 ELSE IF Rank(st) <= 4 THEN 1 ELSE 2

InOrder(s) ==
  /\ IsSeq(s) /\ \A p \in ToSet(s) : p[1] \in Planned
  /\ \A i, j \in 1 .. Len(s) : i < j => Rank(s[i][1]) < Rank(s[j][1])
  /\ \A p, q \in ToSet(s) : Phase(p[1]) = Phase(q[1])

\* What is to be read comes after what has been read.
Order ==
  page.kind \in OrderedKinds =>
    /\ InOrder(page.todo)
    /\ \A g \in ToSet(page.got) :
         g.st \in Planned /\ \A p \in ToSet(page.todo) : Rank(g.st) < Rank(p[1])

\* The latest version is none older than those the usages resolved to.
NotBehind(used, latest, t) ==
  \A u \in used, v \in t.versions :
    u.known /\ v.id = u.ref => latest # Null /\ latest.createdAt >= v.createdAt

DecidedShown(requirements, decisions) ==
  \A q \in requirements : q.status # "pending" =>
    \E d \in decisions : d.target = q.target /\ d.decision = q.status
DecisionsExplained(decisions, audit) ==
  \A d \in decisions : \E a \in audit : a.event = d.decision /\ a.target = d.target
StatusExplained(request, audit) ==
  request.status \in {"approved", "rejected"} =>
    \E a \in audit : a.event = "status_changed" /\ a.target = request.status

\* What a result says of one that was read before it.
Explains(g, h, t) ==
  /\ g.st = "usages" /\ h.st = "latest" => NotBehind(g.result, h.result, t)
  /\ g.st = "request" /\ h.st = "requirements" /\ g.result # Null => Backed(g.result, h.result)
  /\ g.st = "requirements" /\ h.st = "decisions" => DecidedShown(g.result, h.result)
  /\ g.st = "decisions" /\ h.st = "audit" => DecisionsExplained(g.result, h.result)
  /\ g.st = "request" /\ h.st = "audit" /\ g.result # Null => StatusExplained(g.result, h.result)

Linked ==
  page.kind \in OrderedKinds =>
    \A g, h \in ToSet(page.got) : g.key = h.key => Explains(g, h, db)

LEMMA RankIs ==
  /\ Rank("module") = 0 /\ Rank("report") = 0 /\ Rank("changes") = 1 /\ Rank("usages") = 1
  /\ Rank("affected") = 2 /\ Rank("impact") = 3 /\ Rank("request") = 4 /\ Rank("latest") = 4
  /\ Rank("requirements") = 5 /\ Rank("decisions") = 6 /\ Rank("audit") = 7
BY DEF Rank

LEMMA RankType == \A st \in Planned : Rank(st) \in Nat
BY DEF Rank, Planned

LEMMA PhaseRanks ==
  ASSUME NEW a \in Planned, NEW b \in Planned, Phase(a) = Phase(b), Rank(a) < Rank(b)
  PROVE  Rank(a) # 0 /\ Rank(a) # 4
BY RankType DEF Phase

\* The rest of an ordered list.
LEMMA OrderedRest ==
  ASSUME NEW s, InOrder(s), s # <<>>
  PROVE  /\ InOrder(Tail(s))
         /\ \A p \in ToSet(Tail(s)) : Rank(Head(s)[1]) < Rank(p[1])
         /\ Rank(Head(s)[1]) \in {0, 4} => Tail(s) = <<>>
<1>1. PICK t, h : t = Tail(s) /\ h = Head(s)
  OBVIOUS
<1>2. /\ IsSeq(t) /\ ToSet(s) = {h} \cup ToSet(t) /\ h = s[1]
      /\ Len(t) = Len(s) - 1 /\ Len(s) \in Nat \ {0}
      /\ \A i \in 1 .. Len(s) - 1 : t[i] = s[i + 1]
  BY <1>1, TailSeq DEF InOrder
<1>3. /\ \A p \in ToSet(s) : p[1] \in Planned
      /\ \A i, j \in 1 .. Len(s) : i < j => Rank(s[i][1]) < Rank(s[j][1])
      /\ \A p, q \in ToSet(s) : Phase(p[1]) = Phase(q[1])
  BY DEF InOrder
<1>4. ASSUME NEW i \in 1 .. Len(t), NEW j \in 1 .. Len(t), i < j PROVE Rank(t[i][1]) < Rank(t[j][1])
  <2>1. i + 1 \in 1 .. Len(s) /\ j + 1 \in 1 .. Len(s) /\ i + 1 < j + 1
    BY <1>2, <1>4
  <2>2. t[i] = s[i + 1] /\ t[j] = s[j + 1]
    BY <1>2
  <2>3. Rank(s[i + 1][1]) < Rank(s[j + 1][1])
    BY <1>3, <2>1
  <2> QED BY <2>2, <2>3
<1>5. InOrder(t)
  BY <1>2, <1>3, <1>4 DEF InOrder
<1>6. ASSUME NEW p \in ToSet(t) PROVE Rank(h[1]) < Rank(p[1])
  <2>1. PICK i \in 1 .. Len(t) : t[i] = p
    BY <1>2, SeqFacts
  <2>2. 1 \in 1 .. Len(s) /\ i + 1 \in 1 .. Len(s) /\ 1 < i + 1 /\ t[i] = s[i + 1]
    BY <1>2
  <2>3. Rank(s[1][1]) < Rank(s[i + 1][1])
    BY <1>3, <2>2
  <2> QED BY <1>2, <2>1, <2>2, <2>3
<1>7. ASSUME Rank(h[1]) \in {0, 4} PROVE t = <<>>
  <2>1. \A p \in ToSet(t) : FALSE
    <3> TAKE p \in ToSet(t)
    <3>1. h[1] \in Planned /\ p[1] \in Planned /\ Phase(h[1]) = Phase(p[1])
      BY <1>2, <1>3
    <3>2. Rank(h[1]) < Rank(p[1])
      BY <1>6
    <3> QED BY <1>7, <3>1, <3>2, PhaseRanks
  <2> QED BY <1>2, <2>1, SeqFacts
<1> QED BY <1>1, <1>5, <1>6, <1>7

LEMMA OrderedJoin ==
  ASSUME NEW a, NEW b, InOrder(a), InOrder(b), a = <<>> \/ b = <<>>
  PROVE  InOrder(a \o b) /\ ToSet(a \o b) = ToSet(a) \cup ToSet(b)
<1>1. PICK s : s = a \o b
  OBVIOUS
<1>2. IsSeq(a) /\ IsSeq(b) /\ Len(a) \in Nat /\ Len(b) \in Nat
  BY SeqFacts DEF InOrder
<1>3. /\ IsSeq(s) /\ ToSet(s) = ToSet(a) \cup ToSet(b) /\ Len(s) = Len(a) + Len(b)
      /\ \A i \in 1 .. Len(a) : s[i] = a[i]
      /\ \A i \in 1 .. Len(b) : s[Len(a) + i] = b[i]
  BY <1>1, <1>2, ConcatSeq
<1>4. CASE b = <<>>
  <2>1. Len(b) = 0 /\ ToSet(b) = {}
    BY <1>4, NoElements
  <2>2. Len(s) = Len(a) /\ ToSet(s) = ToSet(a)
    BY <1>2, <1>3, <2>1
  <2>3. \A i, j \in 1 .. Len(s) : i < j => Rank(s[i][1]) < Rank(s[j][1])
    BY <1>3, <2>2 DEF InOrder
  <2> QED BY <1>1, <1>3, <2>2, <2>3 DEF InOrder
<1>5. CASE a = <<>>
  <2>1. Len(a) = 0 /\ ToSet(a) = {}
    BY <1>5, NoElements
  <2>2. Len(s) = Len(b) /\ ToSet(s) = ToSet(b)
    BY <1>2, <1>3, <2>1
  <2>3. \A i \in 1 .. Len(b) : s[i] = b[i]
    <3> TAKE i \in 1 .. Len(b)
    <3>1. s[Len(a) + i] = b[i] /\ Len(a) + i = i
      BY <1>2, <1>3, <2>1
    <3> QED BY <3>1
  <2>4. \A i, j \in 1 .. Len(s) : i < j => Rank(s[i][1]) < Rank(s[j][1])
    BY <2>2, <2>3 DEF InOrder
  <2> QED BY <1>1, <1>3, <2>2, <2>4 DEF InOrder
<1> QED BY <1>4, <1>5

LEMMA OrderedNone == \A s : s = <<>> => InOrder(s)
<1> SUFFICES ASSUME NEW s, s = <<>> PROVE InOrder(s)
  OBVIOUS
<1>1. IsSeq(s) /\ ToSet(s) = {} /\ Len(s) = 0
  BY NoElements
<1> QED BY <1>1 DEF InOrder

\* A short list, by the statements on it.
LEMMA OrderedList ==
  ASSUME NEW s, IsSeq(s), NEW n \in 1 .. 4, Len(s) = n,
         \A i \in 1 .. n : s[i][1] \in Planned,
         \A i, j \in 1 .. n : i < j => Rank(s[i][1]) < Rank(s[j][1]),
         \A i, j \in 1 .. n : Phase(s[i][1]) = Phase(s[j][1])
  PROVE  InOrder(s)
<1>1. \A p \in ToSet(s) : \E i \in 1 .. n : s[i] = p
  BY SeqFacts
<1>2. /\ \A p \in ToSet(s) : p[1] \in Planned
      /\ \A p, q \in ToSet(s) : Phase(p[1]) = Phase(q[1])
  BY <1>1
<1> QED BY <1>2 DEF InOrder

LEMMA FirstOrdered ==
  ASSUME NEW kind \in OrderedKinds, NEW arg, NEW s, s = FirstReads(kind, arg)
  PROVE  InOrder(s)
<1>1. PICK st \in Planned : s = <<<<st, arg>>>>
  BY DEF FirstReads, OrderedKinds, Planned
<1>2. PICK p : p = <<st, arg>>
  OBVIOUS
<1>3. Reads(<<p>>, {p})
  BY Reads1
<1>4. IsSeq(s) /\ ToSet(s) = {p} /\ Len(s) = 1
  BY <1>1, <1>2, <1>3, Reads1 DEF Reads
<1>5. \A i, j \in 1 .. 1 : ~ (i < j)
  OBVIOUS
<1>6. \A i, j \in 1 .. Len(s) : ~ (i < j)
  BY <1>4, <1>5
<1> QED BY <1>2, <1>4, <1>6 DEF InOrder

\* What follows from a result is in order, and comes after it.
LEMMA ThenOrdered ==
  ASSUME NEW kind \in OrderedKinds, NEW arg, NEW st \in Planned, NEW key, NEW r, NEW t,
         StatementOK(kind, arg, st, key, t), NEW s, s = Then(kind, arg, st, key, r)
  PROVE  /\ InOrder(s) /\ \A p \in ToSet(s) : Rank(st) < Rank(p[1])
         /\ Rank(st) \notin {0, 4} => s = <<>>
<1>1. CASE st = "module"
  <2>1. kind = "usages"
    BY <1>1 DEF StatementOK, OrderedKinds
  <2>2. s = All(<<"usages", "latest">>, key)
    BY <1>1, <2>1, AfterModule DEF ModuleUsagesReads
  <2>3. PICK sts : sts = <<"usages", "latest">>
    OBVIOUS
  <2>4. IsSeq(sts) /\ Len(sts) = 2 /\ sts[1] = "usages" /\ sts[2] = "latest"
    BY <2>3, Reads2 DEF Reads
  <2>5. IsSeq(s) /\ Len(s) = 2 /\ \A i \in 1 .. 2 : s[i] = <<sts[i], key>>
    BY <2>2, <2>3, <2>4, AllFacts
  <2>6. s[1][1] = "usages" /\ s[2][1] = "latest"
    BY <2>4, <2>5
  <2>7. /\ \A i \in 1 .. 2 : s[i][1] \in Planned
        /\ \A i, j \in 1 .. 2 : i < j => Rank(s[i][1]) < Rank(s[j][1])
        /\ \A i, j \in 1 .. 2 : Phase(s[i][1]) = Phase(s[j][1])
        /\ \A i \in 1 .. 2 : Rank(s[i][1]) > 0
    <3>1. \A i \in 1 .. 2 : i = 1 \/ i = 2
      OBVIOUS
    <3> QED BY <2>6, <3>1, RankIs DEF Planned, Phase
  <2>8. InOrder(s)
    BY <2>5, <2>7, OrderedList
  <2>9. \A p \in ToSet(s) : Rank(p[1]) > 0
    BY <2>5, <2>7, SeqFacts
  <2> QED BY <1>1, <2>8, <2>9, RankIs
<1>2. CASE st = "report"
  <2>1. s = <<<<"changes", key>>, <<"affected", r.base[1]>>, <<"impact", r.base>>, <<"request", key>>>>
    BY <1>2, AfterReport
  <2>2. PICK a, b, c, d : /\ a = <<"changes", key>> /\ b = <<"affected", r.base[1]>>
                          /\ c = <<"impact", r.base>> /\ d = <<"request", key>>
    OBVIOUS
  <2>3. s = <<a, b, c, d>>
    BY <2>1, <2>2
  <2>4. IsSeq(s) /\ Len(s) = 4 /\ s[1] = a /\ s[2] = b /\ s[3] = c /\ s[4] = d
    BY <2>3, Reads4 DEF Reads
  <2>5. a[1] = "changes" /\ b[1] = "affected" /\ c[1] = "impact" /\ d[1] = "request"
    BY <2>2
  <2>6. s[1][1] = "changes" /\ s[2][1] = "affected" /\ s[3][1] = "impact" /\ s[4][1] = "request"
    BY <2>4, <2>5
  <2>7. /\ \A i \in 1 .. 4 : s[i][1] \in Planned
        /\ \A i, j \in 1 .. 4 : i < j => Rank(s[i][1]) < Rank(s[j][1])
        /\ \A i, j \in 1 .. 4 : Phase(s[i][1]) = Phase(s[j][1])
        /\ \A i \in 1 .. 4 : Rank(s[i][1]) > 0
    <3>1. \A i \in 1 .. 4 : i = 1 \/ i = 2 \/ i = 3 \/ i = 4
      OBVIOUS
    <3> QED BY <2>6, <3>1, RankIs DEF Planned, Phase
  <2>8. InOrder(s)
    BY <2>4, <2>7, OrderedList
  <2>9. \A p \in ToSet(s) : Rank(p[1]) > 0
    BY <2>4, <2>7, SeqFacts
  <2> QED BY <1>2, <2>8, <2>9, RankIs
<1>3. CASE st = "request"
  <2>1. CASE r = Null
    <3>1. s = <<>>
      BY <1>3, <2>1, AfterRequest
    <3> QED BY <3>1, OrderedNone, NoElements
  <2>2. CASE r # Null
    <3>0. PICK a, one, none : /\ a = All(<<"requirements", "decisions">>, key)
                              /\ one = <<<<"audit", key>>>> /\ none = <<>>
      OBVIOUS
    <3>20. s = a \o (IF kind = "approval" THEN one ELSE none)
      BY <1>3, <2>2, <3>0 DEF Then, PopulateRequest
    <3>19. PICK sts : sts = <<"requirements", "decisions">>
      OBVIOUS
    <3>1. a = All(sts, key) /\ one = <<<<"audit", key>>>> /\ none = <<>>
      BY <3>0, <3>19
    <3>21. PICK b : b = IF kind = "approval" THEN one ELSE none
      OBVIOUS
    <3>2. s = a \o b
      BY <3>20, <3>21
    <3>3. IsSeq(sts) /\ Len(sts) = 2 /\ sts[1] = "requirements" /\ sts[2] = "decisions"
      BY <3>19, Reads2 DEF Reads
    <3>4. IsSeq(a) /\ Len(a) = 2 /\ \A i \in 1 .. 2 : a[i] = <<sts[i], key>>
      BY <3>1, <3>3, AllFacts
    <3>5. a[1][1] = "requirements" /\ a[2][1] = "decisions"
      BY <3>3, <3>4
    <3>6. PICK p : p = <<"audit", key>>
      OBVIOUS
    <3>7. IsSeq(<<p>>) /\ Len(<<p>>) = 1 /\ <<p>>[1] = p /\ p[1] = "audit"
      BY <3>6, Reads1 DEF Reads
    <3>22. one = <<p>>
      BY <3>1, <3>6
    <3>23. IsSeq(one) /\ Len(one) = 1 /\ one[1][1] = "audit"
      BY <3>7, <3>22
    <3>24. IsSeq(none) /\ Len(none) = 0
      BY <3>1, NoElements
    <3>8. IsSeq(b) /\ Len(b) \in {0, 1} /\ (Len(b) = 1 => b[1][1] = "audit")
      BY <3>21, <3>23, <3>24
    <3>9. PICK n : n = 2 + Len(b)
      OBVIOUS
    <3>27. IsSeq(a) /\ IsSeq(b)
      BY <3>4, <3>8
    <3>25. /\ IsSeq(s) /\ Len(s) = Len(a) + Len(b)
           /\ \A i \in 1 .. Len(a) : s[i] = a[i]
           /\ \A i \in 1 .. Len(b) : s[Len(a) + i] = b[i]
      BY <3>2, <3>27, ConcatSeq
    <3>28. Len(b) = 0 \/ Len(b) = 1
      BY <3>8
    <3>29. n = 2 \/ n = 3
      <4>1. 2 + 0 = 2 /\ 2 + 1 = 3
        OBVIOUS
      <4>2. CASE Len(b) = 0
        BY <3>9, <4>1, <4>2
      <4>3. CASE Len(b) = 1
        BY <3>9, <4>1, <4>3
      <4> QED BY <3>28, <4>2, <4>3
    <3>26. IsSeq(s) /\ Len(s) = n
      BY <3>4, <3>9, <3>25
    <3>10. /\ \A i \in 1 .. 2 : s[i] = a[i]
           /\ \A i \in 1 .. Len(b) : s[2 + i] = b[i]
      BY <3>4, <3>25
    <3>11. s[1][1] = "requirements" /\ s[2][1] = "decisions" /\ (n = 3 => s[3][1] = "audit") /\ n \in {2, 3}
      <4>1. 1 \in 1 .. 2 /\ 2 \in 1 .. 2
        OBVIOUS
      <4>2. s[1] = a[1] /\ s[2] = a[2]
        BY <3>10, <4>1
      <4>3. Len(b) = 1 => s[3] = b[1]
        <5>1. Len(b) = 1 => 1 \in 1 .. Len(b) /\ 2 + 1 = 3
          OBVIOUS
        <5> QED BY <3>10, <5>1
      <4>4. n \in {2, 3} /\ (n = 3 => Len(b) = 1)
        BY <3>9, <3>28, <3>29
      <4> QED BY <3>5, <3>8, <4>2, <4>3, <4>4
    <3>12. /\ \A i \in 1 .. n : s[i][1] \in Planned /\ Rank(s[i][1]) > 4
           /\ \A i, j \in 1 .. n : i < j => Rank(s[i][1]) < Rank(s[j][1])
           /\ \A i, j \in 1 .. n : Phase(s[i][1]) = Phase(s[j][1])
      <4>1. \A i \in 1 .. n : i = 1 \/ i = 2 \/ (i = 3 /\ n = 3)
        BY <3>11
      <4> QED BY <3>11, <4>1, RankIs DEF Planned, Phase
    <3>13. InOrder(s)
      <4>1. CASE n = 2
        BY <3>12, <3>26, <4>1, OrderedList
      <4>2. CASE n = 3
        BY <3>12, <3>26, <4>2, OrderedList
      <4> QED BY <3>29, <4>1, <4>2
    <3>14. \A x \in ToSet(s) : Rank(x[1]) > 4
      BY <3>12, <3>26, SeqFacts
    <3> QED BY <1>3, <3>13, <3>14, RankIs
  <2> QED BY <2>1, <2>2
<1>4. CASE st \notin {"module", "report", "request"}
  <2>1. st \notin Followed
    BY <1>4 DEF Planned, Followed
  <2>2. s = <<>>
    BY <2>1, AfterOthers
  <2> QED BY <2>2, OrderedNone, NoElements
<1> QED BY <1>1, <1>2, <1>3, <1>4

LEMMA OrderInit == Init => Order /\ Linked
<1> SUFFICES ASSUME Init PROVE Order /\ Linked
  OBVIOUS
<1>1. page.todo = <<>> /\ page.got = <<>>
  BY DEF Init, AskedFor
<1>2. InOrder(page.todo) /\ ToSet(page.got) = {}
  BY <1>1, OrderedNone, NoElements
<1> QED BY <1>2 DEF Order, Linked

\* A page before its first statement.
LEMMA OrderBegin ==
  ASSUME PageInv, Begin
  PROVE  Order' /\ Linked'
<1>1. PICK todo : todo = FirstReads(page.kind, page.arg)
  OBVIOUS
<1>2. /\ page.status = "waiting"
      /\ page' = [page EXCEPT !.todo = todo, !.status = IF todo = <<>> THEN "ok" ELSE "loading"]
  BY <1>1 DEF Begin
<1>3. page.got = <<>>
  BY <1>2 DEF PageInv, PageShape
<1>4. page'.todo = todo /\ page'.got = page.got /\ page'.kind = page.kind
  BY <1>2 DEF PageInv, PageShape
<1>5. ToSet(page'.got) = {}
  BY <1>3, <1>4, NoElements
<1>6. page.kind \in OrderedKinds => InOrder(page'.todo)
  BY <1>1, <1>4, FirstOrdered
<1> QED BY <1>4, <1>5, <1>6 DEF Order, Linked

LEMMA OrderReload ==
  ASSUME Reload
  PROVE  Order' /\ Linked'
<1>1. page'.todo = <<>> /\ page'.got = <<>>
  BY DEF Reload, AskedFor
<1>2. InOrder(page'.todo) /\ ToSet(page'.got) = {}
  BY <1>1, OrderedNone, NoElements
<1> QED BY <1>2 DEF Order, Linked

LEMMA OrderRead ==
  ASSUME PageInv, Order, page.kind \in OrderedKinds,
         NEW st, NEW key, NEW r, NEW more, NEW g, StepOf(st, key, r, more, g)
  PROVE  /\ Order' /\ st \in Planned
         /\ \A x \in ToSet(page.got) : x.st \in Planned /\ Rank(x.st) < Rank(st)
<1>1. /\ page.todo # <<>> /\ Head(page.todo) = <<st, key>>
      /\ StatementOK(page.kind, page.arg, st, key, db)
      /\ more = Then(page.kind, page.arg, st, key, r)
      /\ g = [st |-> st, key |-> key, result |-> r]
      /\ page'.got = Append(page.got, g) /\ page'.todo = more \o Tail(page.todo)
      /\ page'.kind = page.kind
  BY DEF StepOf
<1>2. /\ InOrder(page.todo)
      /\ \A x \in ToSet(page.got) : x.st \in Planned /\ \A p \in ToSet(page.todo) : Rank(x.st) < Rank(p[1])
  BY DEF Order
<1>3. IsSeq(page.todo) /\ IsSeq(page.got)
  BY DEF PageInv, PageShape
<1>4. PICK rest, head : rest = Tail(page.todo) /\ head = Head(page.todo)
  OBVIOUS
<1>5. head[1] = st /\ head \in ToSet(page.todo)
  BY <1>1, <1>3, <1>4, TailSeq
<1>6. st \in Planned
  BY <1>2, <1>5 DEF InOrder
<1>7. /\ InOrder(rest) /\ \A p \in ToSet(rest) : Rank(st) < Rank(p[1])
      /\ Rank(st) \in {0, 4} => rest = <<>>
  BY <1>1, <1>2, <1>4, <1>5, OrderedRest
<1>8. /\ InOrder(more) /\ \A p \in ToSet(more) : Rank(st) < Rank(p[1])
      /\ Rank(st) \notin {0, 4} => more = <<>>
  BY <1>1, <1>6, ThenOrdered
<1>9. PICK todo : todo = more \o rest
  OBVIOUS
<1>10. InOrder(todo) /\ ToSet(todo) = ToSet(more) \cup ToSet(rest)
  BY <1>7, <1>8, <1>9, OrderedJoin
<1>11. \A p \in ToSet(todo) : p[1] \in Planned /\ Rank(st) < Rank(p[1])
  BY <1>7, <1>8, <1>10 DEF InOrder
<1>12. \A x \in ToSet(page.got) : x.st \in Planned /\ Rank(x.st) < Rank(st)
  BY <1>2, <1>5
<1>13. ToSet(page'.got) = ToSet(page.got) \cup {g}
  BY <1>1, <1>3, AppendSeq
<1>14. g.st = st
  BY <1>1
<1>15. ASSUME NEW x \in ToSet(page'.got) PROVE x.st \in Planned /\ \A p \in ToSet(todo) : Rank(x.st) < Rank(p[1])
  <2>1. CASE x = g
    BY <1>6, <1>11, <1>14, <2>1
  <2>2. CASE x \in ToSet(page.got)
    <3>1. Rank(x.st) \in Nat /\ Rank(st) \in Nat /\ Rank(x.st) < Rank(st) /\ x.st \in Planned
      BY <1>6, <1>12, <2>2, RankType
    <3>2. \A p \in ToSet(todo) : Rank(p[1]) \in Nat /\ Rank(st) < Rank(p[1])
      BY <1>11, RankType
    <3> QED BY <3>1, <3>2
  <2> QED BY <1>13, <1>15, <2>1, <2>2
<1>16. page'.todo = todo
  BY <1>1, <1>4, <1>9
<1>17. Order'
  BY <1>10, <1>15, <1>16 DEF Order
<1> QED BY <1>6, <1>12, <1>17

\* What is read explains what was read before.
LEMMA ReadExplains ==
  ASSUME TablesInv, NEW g, EntryOK(g.st, g.key, g.result, before, db),
         NEW h, h.result = Query(h.st, h.key), g.key = h.key
  PROVE  Explains(g, h, db)
<1>1. PICK key, a, b : key = g.key /\ a = g.result /\ b = h.result
  OBVIOUS
<1>2. EntryOK(g.st, key, a, before, db) /\ b = Query(h.st, key)
  BY <1>1
<1>3. ASSUME g.st = "usages", h.st = "latest" PROVE NotBehind(a, b, db)
  <2>1. UsagesRead(key, a, db)
    BY <1>2, <1>3 DEF EntryOK
  <2>2. b = GetLatestByModule(key)
    BY <1>2, <1>3, QueryIs
  <2>3. \A v \in db.versions : v.id[1] = key => b # Null /\ b.createdAt >= v.createdAt
    BY <2>2, GetLatestOK
  <2> QED BY <2>1, <2>3 DEF UsagesRead, NotBehind
<1>4. ASSUME g.st = "request" PROVE RequestRead(key, a, before, db)
  BY <1>2, <1>4 DEF EntryOK
<1>5. ASSUME g.st = "request", h.st = "requirements", a # Null PROVE Backed(a, b)
  <2>1. b = ListRequirements(key)
    BY <1>2, <1>5, QueryIs
  <2>2. b = RequirementsOf(db, key)
    BY <2>1 DEF ListRequirements, RequirementsOf
  <2> QED BY <1>4, <1>5, <2>2 DEF RequestRead
<1>6. ASSUME g.st = "requirements", h.st = "decisions" PROVE DecidedShown(a, b)
  <2>1. RequirementsRead(key, a, db)
    BY <1>2, <1>6 DEF EntryOK
  <2>2. b = ListDecisions(key)
    BY <1>2, <1>6, QueryIs
  <2>3. ASSUME NEW q \in a, q.status # "pending"
        PROVE  \E d \in b : d.target = q.target /\ d.decision = q.status
    <3>1. PICK d : d = [report |-> q.report, target |-> q.target, decision |-> q.status]
      OBVIOUS
    <3>2. d.report = q.report /\ d.target = q.target /\ d.decision = q.status
      BY <3>1
    <3>3. q.report = key /\ d \in db.decisions
      BY <2>1, <2>3, <3>1 DEF RequirementsRead, DecisionMade
    <3>4. d \in b
      BY <2>2, <3>2, <3>3 DEF ListDecisions
    <3> QED BY <3>2, <3>4
  <2> QED BY <2>3 DEF DecidedShown
<1>7. ASSUME g.st = "decisions", h.st = "audit" PROVE DecisionsExplained(a, b)
  <2>1. DecisionsRead(key, a, db)
    BY <1>2, <1>7 DEF EntryOK
  <2>2. b = ListAudit(key)
    BY <1>2, <1>7, QueryIs
  <2>3. ASSUME NEW d \in a PROVE \E x \in b : x.event = d.decision /\ x.target = d.target
    <3>1. PICK x : x = [report |-> d.report, event |-> d.decision, target |-> d.target]
      OBVIOUS
    <3>2. x.report = d.report /\ x.event = d.decision /\ x.target = d.target
      BY <3>1
    <3>3. d.report = key /\ x \in db.audit
      BY <2>1, <2>3, <3>1 DEF DecisionsRead, DecisionAudited
    <3>4. x \in b
      BY <2>2, <3>2, <3>3 DEF ListAudit
    <3> QED BY <3>2, <3>4
  <2> QED BY <2>3 DEF DecisionsExplained
<1>8. ASSUME g.st = "request", h.st = "audit", a # Null PROVE StatusExplained(a, b)
  <2>1. a.report = key /\ StatusAudited(db, a)
    BY <1>4, <1>8 DEF RequestRead
  <2>2. b = ListAudit(key)
    BY <1>2, <1>8, QueryIs
  <2>3. ASSUME a.status \in {"approved", "rejected"}
        PROVE  \E x \in b : x.event = "status_changed" /\ x.target = a.status
    <3>1. PICK x : x = [report |-> a.report, event |-> "status_changed", target |-> a.status]
      OBVIOUS
    <3>2. x.report = a.report /\ x.event = "status_changed" /\ x.target = a.status
      BY <3>1
    <3>3. x \in db.audit
      BY <2>1, <2>3, <3>1 DEF StatusAudited
    <3>4. x \in b
      BY <2>1, <2>2, <3>2, <3>3 DEF ListAudit
    <3> QED BY <3>2, <3>4
  <2> QED BY <2>3 DEF StatusExplained
<1> QED BY <1>1, <1>3, <1>5, <1>6, <1>7, <1>8 DEF Explains

\* What is read says nothing of what will be read.
LEMMA ExplainsBefore ==
  ASSUME NEW g, NEW h, NEW t, g.st \in Planned, h.st \in Planned, ~ (Rank(g.st) < Rank(h.st))
  PROVE  Explains(g, h, t)
<1>1. /\ ~ (g.st = "usages" /\ h.st = "latest")
      /\ ~ (g.st = "request" /\ h.st \in {"requirements", "audit"})
      /\ ~ (g.st = "requirements" /\ h.st = "decisions")
      /\ ~ (g.st = "decisions" /\ h.st = "audit")
  BY RankIs
<1> QED BY <1>1 DEF Explains

LEMMA LinkedRead ==
  ASSUME TablesInv, PageInv, Order, Linked, page.kind \in OrderedKinds, db' = db, before' = before,
         NEW st, NEW key, NEW r, NEW more, NEW g, StepOf(st, key, r, more, g)
  PROVE  Linked'
<1>1. /\ r = Query(st, key) /\ g = [st |-> st, key |-> key, result |-> r]
      /\ page'.got = Append(page.got, g) /\ page'.kind = page.kind
  BY DEF StepOf
<1>2. g.st = st /\ g.key = key /\ g.result = r
  BY <1>1
<1>3. IsSeq(page.got)
  BY DEF PageInv, PageShape
<1>4. ToSet(page'.got) = ToSet(page.got) \cup {g}
  BY <1>1, <1>3, AppendSeq
<1>5. st \in Planned /\ \A x \in ToSet(page.got) : x.st \in Planned /\ Rank(x.st) < Rank(st)
  BY OrderRead
<1>6. ASSUME NEW a \in ToSet(page'.got), NEW b \in ToSet(page'.got), a.key = b.key
      PROVE  Explains(a, b, db)
  <2>1. CASE a \in ToSet(page.got) /\ b \in ToSet(page.got)
    BY <1>6, <2>1 DEF Linked
  <2>2. CASE a \in ToSet(page.got) /\ b = g
    <3>1. EntryOK(a.st, a.key, a.result, before, db)
      BY <2>2 DEF PageInv, ReadsOK
    <3>2. b.result = Query(b.st, b.key)
      BY <1>1, <1>2, <2>2
    <3> QED BY <1>6, <3>1, <3>2, ReadExplains
  <2>3. CASE a = g
    <3>1. a.st \in Planned /\ b.st \in Planned /\ ~ (Rank(a.st) < Rank(b.st))
      <4>1. a.st = st
        BY <1>2, <2>3
      <4>2. CASE b = g
        <5>1. b.st = st /\ Rank(st) \in Nat
          BY <1>2, <1>5, <4>2, RankType
        <5> QED BY <1>5, <4>1, <5>1
      <4>3. CASE b \in ToSet(page.got)
        <5>1. b.st \in Planned /\ Rank(b.st) < Rank(st) /\ Rank(b.st) \in Nat /\ Rank(st) \in Nat
          BY <1>5, <4>3, RankType
        <5> QED BY <1>5, <4>1, <5>1
      <4> QED BY <1>4, <1>6, <4>2, <4>3
    <3> QED BY <3>1, ExplainsBefore
  <2> QED BY <1>4, <1>6, <2>1, <2>2, <2>3
<1> QED BY <1>6 DEF Linked

\* A transaction changes nothing in what a page was given.
LEMMA ExplainsKept ==
  ASSUME NEW t, NEW u, TablesOK(u), Later(t, u), NEW g, NEW b, EntryOK(g.st, g.key, g.result, b, t),
         NEW h, Explains(g, h, t)
  PROVE  Explains(g, h, u)
<1>1. ASSUME g.st = "usages", h.st = "latest" PROVE NotBehind(g.result, h.result, u)
  <2>1. UsagesRead(g.key, g.result, t) /\ NotBehind(g.result, h.result, t)
    BY <1>1 DEF EntryOK, Explains
  <2>2. t.versions \subseteq u.versions /\ \A v, w \in u.versions : v.id = w.id => v = w
    BY DEF Later, TablesOK, VersionsOK
  <2> QED BY <2>1, <2>2 DEF UsagesRead, NotBehind, HasVersion
<1> QED BY <1>1 DEF Explains

LEMMA OrderNext ==
  TablesInv /\ PageInv /\ Order /\ Linked /\ [Next]_vars => Order' /\ Linked'
<1> SUFFICES ASSUME TablesInv, PageInv, Order, Linked, [Next]_vars PROVE Order' /\ Linked'
  OBVIOUS
<1>1. CASE UNCHANGED vars
  BY <1>1 DEF vars, Order, Linked
<1>2. CASE Begin
  BY <1>2, OrderBegin
<1>3. CASE ReadNext
  <2>1. PICK st, key, r, more, g : StepOf(st, key, r, more, g)
    BY <1>3, ReadStep
  <2>2. db' = db /\ before' = before
    BY <1>3 DEF ReadNext
  <2>3. page'.kind = page.kind
    BY <2>1 DEF StepOf
  <2>4. CASE page.kind \in OrderedKinds
    BY <2>1, <2>2, <2>4, OrderRead, LinkedRead
  <2>5. CASE page.kind \notin OrderedKinds
    BY <2>3, <2>5 DEF Order, Linked
  <2> QED BY <2>4, <2>5
<1>4. CASE MissNext \/ FailNext
  <2>1. page'.kind = page.kind /\ page'.todo = page.todo /\ page'.got = page.got /\ db' = db
    <3>1. CASE MissNext
      BY <3>1 DEF MissNext, PageInv, PageShape
    <3>2. CASE FailNext
      BY <3>2 DEF FailNext, PageInv, PageShape
    <3> QED BY <1>4, <3>1, <3>2
  <2> QED BY <2>1 DEF Order, Linked
<1>6. CASE Reload
  BY <1>6, OrderReload
<1>7. CASE Transaction /\ UNCHANGED <<page, before>>
  <2>1. TablesOK(db') /\ Later(db, db')
    BY <1>7, TransactionOK DEF TablesInv, Wrote
  <2>2. Order'
    BY <1>7 DEF Order
  <2>3. page'.kind = page.kind /\ page'.got = page.got
    BY <1>7
  <2>4. \A x \in ToSet(page.got) : EntryOK(x.st, x.key, x.result, before, db)
    BY DEF PageInv, ReadsOK
  <2>5. ASSUME page.kind \in OrderedKinds, NEW a \in ToSet(page.got), NEW b \in ToSet(page.got), a.key = b.key
        PROVE  Explains(a, b, db')
    <3>1. Explains(a, b, db)
      BY <2>5 DEF Linked
    <3> QED BY <2>1, <2>4, <3>1, ExplainsKept
  <2>6. Linked'
    BY <2>3, <2>5 DEF Linked
  <2> QED BY <2>2, <2>6
<1> QED BY <1>1, <1>2, <1>3, <1>4, <1>6, <1>7, Steps

\* Two answers of a page that is shown.
LEMMA AnswersLinked ==
  ASSUME PageInv, Linked, page.status = "ok", page.kind \in OrderedKinds, NEW key,
         NEW st1, <<st1, key>> \in Asked, NEW r1, r1 = Got(st1, key),
         NEW st2, <<st2, key>> \in Asked, NEW r2, r2 = Got(st2, key)
  PROVE  \E g, h : /\ g.st = st1 /\ g.result = r1 /\ h.st = st2 /\ h.result = r2
                   /\ Explains(g, h, db)
<1>1. PICK i \in 1 .. Len(page.got) : page.got[i].st = st1 /\ page.got[i].key = key /\ page.got[i].result = r1
  BY Answered
<1>2. PICK j \in 1 .. Len(page.got) : page.got[j].st = st2 /\ page.got[j].key = key /\ page.got[j].result = r2
  BY Answered
<1>3. \A n \in 1 .. Len(page.got) : page.got[n] \in ToSet(page.got)
  BY SeqFacts DEF PageInv, PageShape
<1>4. Explains(page.got[i], page.got[j], db)
  BY <1>1, <1>2, <1>3 DEF Linked
<1> QED BY <1>1, <1>2, <1>4

LEMMA UsagesAreNotAhead ==
  ASSUME PageInv, Linked
  PROVE  UsagesNotAhead
<1> SUFFICES ASSUME page.status = "ok", page.kind = "usages", NEW view, view = ModuleRuntimeUsagesView
             PROVE  \A u \in view.usages, v \in db.versions :
                      u.known /\ v.id = u.ref => view.latest # Null /\ view.latest.createdAt >= v.createdAt
  BY DEF UsagesNotAhead, ShownPage
<1>1. PICK kind, arg, r, first, s :
        /\ kind = page.kind /\ arg = page.arg /\ r = Got("module", arg) /\ first = FirstReads(kind, arg)
        /\ s = Then(kind, arg, "module", arg, r)
  OBVIOUS
<1>2. <<"module", arg>> \in Asked
  BY <1>1, FirstAsked, FirstReadsAre DEF Reads
<1>3. ToSet(s) \subseteq Asked
  BY <1>1, <1>2, Answered
<1>4. Reads(s, {<<"usages", arg>>, <<"latest", arg>>})
  BY <1>1, AfterModule
<1>5. <<"usages", arg>> \in Asked /\ <<"latest", arg>> \in Asked
  BY <1>3, <1>4 DEF Reads
<1>6. PICK used, latest : used = Got("usages", arg) /\ latest = Got("latest", arg)
  OBVIOUS
<1>7. view = [usages |-> used, latest |-> latest]
  BY <1>1, <1>6 DEF ModuleRuntimeUsagesView
<1>8. PICK g, h : /\ g.st = "usages" /\ g.result = used /\ h.st = "latest" /\ h.result = latest
                  /\ Explains(g, h, db)
  BY <1>5, <1>6, AnswersLinked DEF OrderedKinds
<1>9. NotBehind(used, latest, db)
  BY <1>8 DEF Explains
<1> QED BY <1>7, <1>9 DEF NotBehind

\* The statements for an approval request.
LEMMA RequestAsked ==
  ASSUME PageInv, page.status = "ok", page.kind \in {"report", "approval"},
         NEW request, request = Got("request", page.arg)
  PROVE  /\ <<"request", page.arg>> \in Asked /\ RequestRead(page.arg, request, before, db)
         /\ request # Null =>
              /\ <<"requirements", page.arg>> \in Asked /\ <<"decisions", page.arg>> \in Asked
              /\ page.kind = "approval" => <<"audit", page.arg>> \in Asked
<1>1. PICK kind, arg, first, s :
        /\ kind = page.kind /\ arg = page.arg /\ first = FirstReads(kind, arg)
        /\ s = Then(kind, arg, "request", arg, request)
  OBVIOUS
<1>2. <<"request", arg>> \in Asked
  <2>1. CASE kind = "report"
    <3>1. PICK report : report = Got("report", arg)
      OBVIOUS
    <3> QED BY <1>1, <2>1, <3>1, ReportAsked
  <2>2. CASE kind = "approval"
    BY <1>1, <2>2, FirstAsked, FirstReadsAre DEF Reads
  <2> QED BY <1>1, <2>1, <2>2
<1>3. EntryOK("request", arg, request, before, db) /\ ToSet(s) \subseteq Asked
  BY <1>1, <1>2, Answered
<1>4. RequestRead(arg, request, before, db)
  BY <1>3 DEF EntryOK
<1>5. /\ request # Null /\ kind # "approval" => Reads(s, {<<"requirements", arg>>, <<"decisions", arg>>})
      /\ request # Null /\ kind = "approval" =>
           Reads(s, {<<"requirements", arg>>, <<"decisions", arg>>, <<"audit", arg>>})
  BY <1>1, AfterRequest
<1> QED BY <1>1, <1>2, <1>3, <1>4, <1>5 DEF Reads

LEMMA ApprovalIsBackedBy ==
  ASSUME PageInv, Linked
  PROVE  ApprovalBacked
<1> DEFINE request == Got("request", page.arg)
           view == ApprovalRequestView(request)
           status == view.header.status
           decided(to) == {q \in view.requirements : q.status = to}
           audit == IF page.kind = "approval" THEN Got("audit", page.arg) ELSE {}
<1> SUFFICES ASSUME page.status = "ok", page.kind \in {"report", "approval"}, request # Null
             PROVE  /\ status = "approved" => view.requirements = decided("approved")
                    /\ status = "rejected" => decided("rejected") # {}
                    /\ view.header.received <= Cardinality(decided("approved"))
                    /\ \A q \in view.requirements : q.status # "pending" =>
                         \E d \in view.decisions : d.target = q.target /\ d.decision = q.status
                    /\ page.kind = "approval" =>
                         /\ \A d \in view.decisions : \E a \in audit : a.event = d.decision /\ a.target = d.target
                         /\ status \in {"approved", "rejected"} =>
                              \E a \in audit : a.event = "status_changed" /\ a.target = status
  BY DEF ApprovalBacked, ShownPage
<1>0. /\ request = Got("request", page.arg) /\ view = ApprovalRequestView(request)
      /\ status = view.header.status
      /\ audit = IF page.kind = "approval" THEN Got("audit", page.arg) ELSE {}
  OBVIOUS
<1>17. \A to : decided(to) = {q \in view.requirements : q.status = to}
  OBVIOUS
<1> HIDE DEF request, view, status, audit, decided
<1>1. PICK arg, requirements, decisions, trail :
        /\ arg = page.arg /\ requirements = Got("requirements", arg)
        /\ decisions = Got("decisions", arg) /\ trail = Got("audit", arg)
  OBVIOUS
<1>2. /\ <<"request", arg>> \in Asked /\ RequestRead(arg, request, before, db)
      /\ <<"requirements", arg>> \in Asked /\ <<"decisions", arg>> \in Asked
      /\ page.kind = "approval" => <<"audit", arg>> \in Asked
  BY <1>0, <1>1, RequestAsked
<1>3. request.report = arg
  BY <1>2 DEF RequestRead
<1>4. PICK warnings : warnings = {q.target : q \in {r \in requirements : r.warned}}
  OBVIOUS
<1>5. view = [header |-> request, requirements |-> requirements, decisions |-> decisions, warnings |-> warnings]
  BY <1>0, <1>1, <1>3, <1>4 DEF ApprovalRequestView
<1>6. /\ view.header = request /\ view.requirements = requirements /\ view.decisions = decisions
      /\ status = request.status
  BY <1>0, <1>5
<1>7. page.kind \in OrderedKinds /\ request = Got("request", arg)
  BY <1>0, <1>1 DEF OrderedKinds
<1>8. Backed(request, requirements)
  <2>1. PICK g, h : /\ g.st = "request" /\ g.result = request /\ h.st = "requirements" /\ h.result = requirements
                    /\ Explains(g, h, db)
    BY <1>1, <1>2, <1>7, AnswersLinked
  <2> QED BY <2>1 DEF Explains
<1>9. DecidedShown(requirements, decisions)
  <2>1. PICK g, h : /\ g.st = "requirements" /\ g.result = requirements /\ h.st = "decisions" /\ h.result = decisions
                    /\ Explains(g, h, db)
    BY <1>1, <1>2, <1>7, AnswersLinked
  <2> QED BY <2>1 DEF Explains
<1>10. ASSUME page.kind = "approval" PROVE DecisionsExplained(decisions, trail) /\ StatusExplained(request, trail)
  <2>1. PICK g, h : /\ g.st = "decisions" /\ g.result = decisions /\ h.st = "audit" /\ h.result = trail
                    /\ Explains(g, h, db)
    BY <1>1, <1>2, <1>7, <1>10, AnswersLinked
  <2>2. PICK x, y : /\ x.st = "request" /\ x.result = request /\ y.st = "audit" /\ y.result = trail
                    /\ Explains(x, y, db)
    BY <1>1, <1>2, <1>7, <1>10, AnswersLinked
  <2>3. DecisionsExplained(decisions, trail)
    BY <2>1 DEF Explains
  <2>4. StatusExplained(request, trail)
    BY <2>2 DEF Explains
  <2> QED BY <2>3, <2>4
<1>11. page.kind = "approval" => audit = trail
  BY <1>0, <1>1
<1>12. status = "approved" => requirements = {q \in requirements : q.status = "approved"}
  BY <1>6, <1>8 DEF Backed
<1>13. status = "rejected" => {q \in requirements : q.status = "rejected"} # {}
  BY <1>6, <1>8 DEF Backed
<1>14. request.received <= Cardinality({q \in requirements : q.status = "approved"})
  BY <1>8 DEF Backed, ApprovedOf
<1>15. \A q \in requirements : q.status # "pending" =>
         \E d \in decisions : d.target = q.target /\ d.decision = q.status
  BY <1>9 DEF DecidedShown
<1>16. page.kind = "approval" =>
         /\ \A d \in decisions : \E a \in audit : a.event = d.decision /\ a.target = d.target
         /\ status \in {"approved", "rejected"} => \E a \in audit : a.event = "status_changed" /\ a.target = status
  BY <1>6, <1>10, <1>11 DEF DecisionsExplained, StatusExplained
<1> QED BY <1>6, <1>17, <1>12, <1>13, <1>14, <1>15, <1>16

LEMMA OrderInvariant == Spec => [](TablesInv /\ PageInv /\ Order /\ Linked)
<1>1. Init => TablesInv /\ PageInv /\ Order /\ Linked
  BY TablesInit, PageInit, OrderInit
<1>2. TablesInv /\ PageInv /\ Order /\ Linked /\ [Next]_vars => (TablesInv /\ PageInv /\ Order /\ Linked)'
  BY TablesNext, PageNext, OrderNext
<1> QED BY <1>1, <1>2, PTL DEF Spec

\* What a page calls the latest version is none older than any it shows: the lists
\* of versions and of reports are read at different moments, and the latest version
\* after the usages (GetModuleOverview, GetModuleRuntimeUsages).
THEOREM LatestIsHonest == Spec => []LatestHonest
<1>1. TablesInv /\ PageInv /\ Linked => LatestHonest
  BY OverviewIsConsistent, UsagesAreNotAhead DEF LatestHonest
<1> QED BY <1>1, OrderInvariant, PTL

\* What the header of an approval request says is backed by the requirements, the
\* decisions and the audit trail below it, although each is read after decisions
\* may have been recorded (populateRequest, GetApprovalRequestDetails).
THEOREM ApprovalIsBacked == Spec => []ApprovalBacked
<1>1. PageInv /\ Linked => ApprovalBacked
  BY ApprovalIsBackedBy
<1> QED BY <1>1, OrderInvariant, PTL

-----------------------------------------------------------------------------
(* The types of the variables. *)

CommitsOK == commits \in 0 .. MaxCommits

\* Kinds, arguments and results keep the shapes of the queries, and a page has
\* statements to run exactly while it is loading, or after a failure (the handlers
\* of internal/transport/web).
THEOREM PageTypeCorrect == Spec => []TypeOK
<1>1. Init => TablesInv /\ PageInv /\ CommitsOK
  BY TablesInit, PageInit, PagesAssumption DEF Init, CommitsOK
<1>2. TablesInv /\ PageInv /\ CommitsOK /\ [Next]_vars => (TablesInv /\ PageInv /\ CommitsOK)'
  <2> SUFFICES ASSUME CommitsOK, [Next]_vars PROVE CommitsOK'
    BY TablesNext, PageNext
  <2>1. commits' \in {commits, commits + 1} /\ (commits' = commits \/ commits < MaxCommits)
    BY DEF Next, vars, Begin, ReadNext, MissNext, FailNext, Reload, Commit
  <2> QED BY <2>1, PagesAssumption DEF CommitsOK
<1>3. TablesInv /\ PageInv /\ CommitsOK => TypeOK
  BY DEF TypeOK, TablesInv, TablesOK, PageInv, PageShape, CommitsOK
<1> QED BY <1>1, <1>2, <1>3, PTL DEF Spec

-----------------------------------------------------------------------------
(* The server process. *)

-----------------------------------------------------------------------------
(* The strengthening of OrderlyStop that the steps preserve. *)

Starting == {"config", "database", "wiring"}
Phases == Starting \cup {"serving", "draining", "stopping", "pool", "exited"}

NobodyBegun == \A r \in Requests : ~ Begun(r)
PublisherOver == publisher \in {"none", "done"}

\* The pool follows main, and the publisher has ended before the pool closes.
PoolFollows ==
  /\ main \in Starting => publisher = "none"
  /\ main \in {"config", "database"} => pool = "none"
  /\ main \in {"wiring", "serving", "draining", "stopping"} => pool = "open"
  /\ main = "pool" => pool = "closing" /\ PublisherOver

\* The exit code is still 0 exactly as long as nothing went wrong.
CodeTruthful ==
  /\ code \in {0, 1}
  /\ main \in Starting \cup {"serving", "draining"} => timedOut = {}
  /\ main \in {"stopping", "pool"} /\ code = 0 => NobodyBegun /\ timedOut = {}

\* What every step preserves.
ServerInv == main \in Phases /\ PoolFollows /\ CodeTruthful /\ OrderlyStop

-----------------------------------------------------------------------------
(* The pool's accounts. *)

\* The connections in use are those that are held.
LEMMA InUseSame ==
  ASSUME UNCHANGED held PROVE InUse' = InUse
BY DEF InUse, MapThenSumSet, MapThenFoldSet

-----------------------------------------------------------------------------
(* The steps of the server. *)

LEMMA ServerInvInit == ServerInit => ServerInv
BY DEF ServerInit, ServerInv, Phases, Starting, PoolFollows, CodeTruthful, OrderlyStop, PublisherNotCutOff,
       PoolClosedAtExit, ExitZeroClean, Closed

\* A step of a request or of the publisher: main does not move, no request begins
\* once the server has stopped serving, and a publisher that has ended stays so.
LEMMA Worker ==
  ASSUME ServerInv, main # "exited", UNCHANGED <<main, code, pool, timedOut>>,
         main \in {"stopping", "pool"} /\ NobodyBegun => NobodyBegun',
         PublisherOver => UNCHANGED publisher
  PROVE  ServerInv'
<1>1. main \in Phases /\ PoolFollows /\ CodeTruthful /\ PublisherNotCutOff
  BY DEF ServerInv, OrderlyStop
<1>2. PoolFollows'
  BY <1>1 DEF PoolFollows, PublisherOver
<1>3. CodeTruthful'
  BY <1>1 DEF CodeTruthful
<1>4. PublisherNotCutOff'
  BY <1>1 DEF PublisherNotCutOff, Closed, PublisherOver
<1>5. PoolClosedAtExit' /\ ExitZeroClean'
  BY DEF PoolClosedAtExit, ExitZeroClean
<1> QED BY <1>1, <1>2, <1>3, <1>4, <1>5 DEF ServerInv, OrderlyStop

\* A step of main that ends the process.
LEMMA ExitStep ==
  ASSUME ServerInv, main' = "exited", code' \in {0, 1}, PublisherNotCutOff', PoolClosedAtExit', ExitZeroClean'
  PROVE  ServerInv'
BY DEF ServerInv, Phases, Starting, PoolFollows, CodeTruthful, OrderlyStop

LEMMA ServerRequest ==
  ASSUME ServerInv, Running, NEW r \in Requests,
         \/ Arrive(r) \/ Authenticate(r) \/ Acquire(r) \/ AcquireSecond(r) \/ Release(r)
         \/ LockMetrics(r) \/ MetricsWritten(r) \/ Record(r) \/ ClientLeaves(r)
  PROVE  ServerInv'
<1>1. main # "exited"
  BY DEF Running
<1>2. CASE Arrive(r)
  <2>1. main = "serving" /\ UNCHANGED <<main, code, pool, timedOut, publisher>>
    BY <1>2 DEF Arrive
  <2> QED BY <1>1, <2>1, Worker
<1>3. CASE ClientLeaves(r)
  <2>1. UNCHANGED <<main, code, pool, timedOut, publisher, req>>
    BY <1>3 DEF ClientLeaves
  <2>2. NobodyBegun => NobodyBegun'
    BY <2>1 DEF NobodyBegun, Begun
  <2> QED BY <1>1, <2>1, <2>2, Worker
<1>4. CASE \/ Authenticate(r) \/ Acquire(r) \/ AcquireSecond(r) \/ Release(r)
           \/ LockMetrics(r) \/ MetricsWritten(r) \/ Record(r)
  <2>1. UNCHANGED <<main, code, pool, timedOut, publisher>>
    BY <1>4 DEF Authenticate, Acquire, AcquireSecond, Release, LockMetrics, MetricsWritten, Record
  <2>2. Begun(r)
    BY <1>4 DEF Authenticate, Acquire, AcquireSecond, Release, LockMetrics, MetricsWritten, Record, Begun
  <2>3. ~NobodyBegun
    BY <2>2 DEF NobodyBegun
  <2> QED BY <1>1, <2>1, <2>3, Worker
<1> QED BY <1>2, <1>3, <1>4

LEMMA ServerPublisher ==
  ASSUME ServerInv, Running,
         \/ Tick \/ Stop \/ PublisherAcquire \/ PublisherRelease \/ PublisherObserve
         \/ PublisherFails \/ Dispatched
  PROVE  ServerInv'
<1>1. main # "exited"
  BY DEF Running
<1>2. UNCHANGED <<main, code, pool, timedOut, req>>
  BY DEF Tick, Stop, PublisherAcquire, PublisherRelease, PublisherObserve, PublisherFails, Dispatched,
         PublisherGoto, requests
<1>3. ~PublisherOver
  BY DEF Tick, Stop, PublisherAcquire, PublisherRelease, PublisherObserve, PublisherFails, Dispatched, PublisherOver
<1>4. NobodyBegun => NobodyBegun'
  BY <1>2 DEF NobodyBegun, Begun
<1> QED BY <1>1, <1>2, <1>3, <1>4, Worker

LEMMA ServerStart ==
  ASSUME ServerInv, Configure \/ OpenDatabase \/ WiringFails \/ Serve \/ Signal
  PROVE  ServerInv'
<1> USE DEF Starting, Phases
<1>1. main \in Phases /\ PoolFollows /\ CodeTruthful
  BY DEF ServerInv
<1>2. CASE Configure
  <2>1. /\ main = "config" /\ UNCHANGED <<pool, publisher, timedOut>>
        /\ \/ main' = "exited" /\ code' = 1
           \/ main' = "database" /\ code' = code
    <3>1. PICK yaml \in Files, env \in ProcessEnvironments : LoadConfig(yaml, env)
      BY <1>2 DEF Configure
    <3> QED BY <3>1 DEF LoadConfig, Exit
  <2> QED BY <1>1, <2>1 DEF ServerInv, PoolFollows, CodeTruthful, OrderlyStop, PublisherNotCutOff,
                            PoolClosedAtExit, ExitZeroClean, Closed
<1>3. CASE OpenDatabase
  <2>1. /\ main = "database" /\ UNCHANGED <<publisher, timedOut>>
        /\ \/ main' = "wiring" /\ pool' = "open" /\ code' = code
           \/ main' = "exited" /\ code' = 1 /\ pool' \in {"none", "closed"}
    BY <1>3 DEF OpenDatabase, Exit
  <2> QED BY <1>1, <2>1 DEF ServerInv, PoolFollows, CodeTruthful, OrderlyStop, PublisherNotCutOff,
                            PoolClosedAtExit, ExitZeroClean, Closed
<1>4. CASE WiringFails
  <2>1. main = "wiring" /\ UNCHANGED <<publisher, timedOut>> /\ main' = "exited" /\ code' = 1 /\ pool' = "closed"
    BY <1>4 DEF WiringFails, Exit
  <2> QED BY <1>1, <2>1 DEF ServerInv, PoolFollows, CodeTruthful, OrderlyStop, PublisherNotCutOff,
                            PoolClosedAtExit, ExitZeroClean, Closed
<1>5. CASE Serve
  <2>1. main = "wiring" /\ UNCHANGED <<code, pool, timedOut>> /\ main' = "serving"
    BY <1>5 DEF Serve
  <2> QED BY <1>1, <2>1 DEF ServerInv, PoolFollows, CodeTruthful, OrderlyStop, PublisherNotCutOff,
                            PoolClosedAtExit, ExitZeroClean, Closed
<1>6. CASE Signal
  <2>1. main # "exited" /\ UNCHANGED <<main, code, pool, timedOut, req, publisher>>
    BY <1>6 DEF Signal, requests
  <2>2. NobodyBegun => NobodyBegun'
    BY <2>1 DEF NobodyBegun, Begun
  <2> QED BY <2>1, <2>2, Worker
<1> QED BY <1>2, <1>3, <1>4, <1>5, <1>6

LEMMA ServerStop ==
  ASSUME ServerInv,
         \/ BeginShutdown \/ ListenFails \/ Drained \/ DrainTimeout
         \/ PublisherStopped \/ PublisherWaitTimeout \/ PoolClosed
  PROVE  ServerInv'
<1> USE DEF Starting, Phases
<1>1. main \in Phases /\ PoolFollows /\ CodeTruthful
  BY DEF ServerInv
<1>2. CASE BeginShutdown \/ ListenFails \/ DrainTimeout
  <2>1. /\ UNCHANGED <<pool, publisher>>
        /\ \/ main = "serving" /\ main' = "draining" /\ UNCHANGED <<code, timedOut>>
           \/ main = "serving" /\ main' = "stopping" /\ code' = 1 /\ UNCHANGED timedOut
           \/ main = "draining" /\ main' = "stopping" /\ code' = 1
    BY <1>2 DEF BeginShutdown, ListenFails, DrainTimeout
  <2> QED BY <1>1, <2>1 DEF ServerInv, PoolFollows, CodeTruthful, OrderlyStop, PublisherNotCutOff,
                            PoolClosedAtExit, ExitZeroClean, Closed
<1>3. CASE Drained
  <2>1. main = "draining" /\ NobodyBegun /\ main' = "stopping" /\ UNCHANGED <<pool, publisher, code, timedOut, req>>
    BY <1>3 DEF Drained, NobodyBegun, requests
  <2>2. NobodyBegun'
    BY <2>1 DEF NobodyBegun, Begun
  <2> QED BY <1>1, <2>1, <2>2 DEF ServerInv, PoolFollows, CodeTruthful, OrderlyStop, PublisherNotCutOff,
                            PoolClosedAtExit, ExitZeroClean, Closed
<1>4. CASE PublisherStopped
  <2>1. /\ main = "stopping" /\ PublisherOver /\ main' = "pool" /\ pool' = "closing"
        /\ UNCHANGED <<publisher, code, timedOut, req>>
    BY <1>4 DEF PublisherStopped, PublisherOver, requests
  <2>2. NobodyBegun => NobodyBegun'
    BY <2>1 DEF NobodyBegun, Begun
  <2> QED BY <1>1, <2>1, <2>2 DEF ServerInv, PoolFollows, CodeTruthful, OrderlyStop, PublisherNotCutOff,
                            PoolClosedAtExit, ExitZeroClean, Closed, PublisherOver
<1>5. CASE PublisherWaitTimeout
  <2>1. /\ main = "stopping" /\ main' = "exited" /\ code' = 1 /\ UNCHANGED <<publisher, pool>>
        /\ "publisher" \in timedOut'
    BY <1>5 DEF PublisherWaitTimeout, Exit
  <2> QED BY <1>1, <2>1 DEF ServerInv, PoolFollows, CodeTruthful, OrderlyStop, PublisherNotCutOff,
                            PoolClosedAtExit, ExitZeroClean, Closed
<1>6. CASE PoolClosed
  <2>1. /\ main = "pool" /\ main' = "exited" /\ InUse = 0 /\ pool' = "closed"
        /\ UNCHANGED <<publisher, code, timedOut, req, held>>
    BY <1>6 DEF PoolClosed, Exit, requests
  <2>2. code \in {0, 1} /\ PublisherOver' /\ InUse' = 0
    BY <1>1, <2>1, InUseSame DEF CodeTruthful, PoolFollows, PublisherOver
  <2>3. code = 0 => timedOut' = {} /\ \A r \in Requests : ~ Begun(r)'
    BY <1>1, <2>1 DEF CodeTruthful, NobodyBegun, Begun
  <2>4. PublisherNotCutOff' /\ PoolClosedAtExit' /\ ExitZeroClean'
    BY <2>1, <2>2, <2>3 DEF PublisherNotCutOff, PoolClosedAtExit, ExitZeroClean, PublisherOver
  <2> QED BY <2>1, <2>2, <2>4, ExitStep
<1> QED BY <1>2, <1>3, <1>4, <1>5, <1>6

LEMMA ServerStutter ==
  ASSUME ServerInv, UNCHANGED serverVars
  PROVE  ServerInv'
<1>1. UNCHANGED <<main, code, pool, timedOut, publisher, req, held>>
  BY DEF serverVars
<1>2. InUse' = InUse
  BY <1>1, InUseSame
<1>3. \A r \in Requests : Begun(r)' <=> Begun(r)
  BY <1>1 DEF Begun
<1> QED BY <1>1, <1>2, <1>3 DEF ServerInv, PoolFollows, CodeTruthful, OrderlyStop, PublisherNotCutOff,
              PoolClosedAtExit, ExitZeroClean, Closed, NobodyBegun, PublisherOver

\* Every step is one of the actions.
LEMMA ServerInvNext ==
  ASSUME ServerInv, [ServerNext]_serverVars
  PROVE  ServerInv'
<1>1. CASE Configure \/ OpenDatabase \/ WiringFails \/ Serve \/ Signal
  BY <1>1, ServerStart
<1>2. ASSUME Running, NEW r \in Requests,
             \/ Arrive(r) \/ Authenticate(r) \/ Acquire(r) \/ AcquireSecond(r) \/ Release(r)
             \/ LockMetrics(r) \/ MetricsWritten(r) \/ Record(r) \/ ClientLeaves(r)
      PROVE  ServerInv'
  BY <1>2, ServerRequest
<1>3. CASE /\ Running
           /\ \/ Tick \/ Stop \/ PublisherAcquire \/ PublisherRelease \/ PublisherObserve
              \/ PublisherFails \/ Dispatched
  BY <1>3, ServerPublisher
<1>4. CASE \/ BeginShutdown \/ ListenFails \/ Drained \/ DrainTimeout
           \/ PublisherStopped \/ PublisherWaitTimeout \/ PoolClosed
  BY <1>4, ServerStop
<1>5. CASE Done \/ UNCHANGED serverVars
  BY <1>5, ServerStutter DEF Done
<1> QED BY <1>1, <1>2, <1>3, <1>4, <1>5 DEF ServerNext

-----------------------------------------------------------------------------
(* Sums over finite sets. *)

\* A set of numbers has a least one.
LEMMA Least ==
  ASSUME NEW T \in SUBSET Nat, T # {}
  PROVE  \E x \in T : \A y \in T : x <= y
<1>1. PICK x \in T : \A y \in T : ~(<<y, x>> \in OpToRel(<, Nat))
  BY NatLessThanWellFounded, WFMin
<1>2. ASSUME NEW y \in T, ~(x <= y) PROVE FALSE
  <2>1. y \in Nat /\ x \in Nat /\ y < x
    BY <1>2
  <2>2. <<y, x>> \in OpToRel(<, Nat)
    BY <2>1 DEF OpToRel
  <2> QED BY <2>2, <1>1
<1> QED BY <1>2

\* g adds up f over the subsets of D, taking the elements out as c chooses them.
AddsUp(D, c, f, g) ==
  \A T \in SUBSET D : /\ T # {} => c[T] \in T
                      /\ g[T] = IF T = {} THEN 0 ELSE f[c[T]] + g[T \ {c[T]}]

\* Two functions on the subsets of a finite set that add the same summand for the
\* same chosen element are equal.
LEMMA SumUnique ==
  ASSUME NEW D, IsFiniteSet(D), NEW c, NEW f, NEW g, NEW h,
         AddsUp(D, c, f, g), AddsUp(D, c, f, h)
  PROVE  g[D] = h[D]
<1> DEFINE Bad == {T \in SUBSET D : g[T] # h[T]}
           Sizes == {n \in Nat : \E T \in Bad : Cardinality(T) = n}
<1>1. \A T \in SUBSET D : IsFiniteSet(T) /\ Cardinality(T) \in Nat
  BY FS_Subset, FS_CardinalityType
<1>2. ASSUME NEW n \in Sizes, \A k \in Sizes : n <= k PROVE FALSE
  <2>1. PICK T \in Bad : Cardinality(T) = n
    OBVIOUS
  <2>2. T \in SUBSET D /\ g[T] # h[T]
    OBVIOUS
  <2>3. T # {}
    BY <2>2 DEF AddsUp
  <2>4. PICK x : x = c[T]
    OBVIOUS
  <2>5. x \in T
    BY <2>2, <2>3, <2>4 DEF AddsUp
  <2>6. g[T] = f[x] + g[T \ {x}] /\ h[T] = f[x] + h[T \ {x}]
    BY <2>2, <2>3, <2>4 DEF AddsUp
  <2>7. T \ {x} \in SUBSET D /\ Cardinality(T \ {x}) = n - 1 /\ Cardinality(T \ {x}) \in Nat
    BY <1>1, <2>1, <2>2, <2>5, FS_RemoveElement
  <2>8. g[T \ {x}] # h[T \ {x}]
    BY <2>2, <2>6
  <2>9. n - 1 \in Sizes
    BY <2>7, <2>8
  <2> QED BY <1>2, <2>9
<1>3. Sizes = {}
  <2>1. Sizes \in SUBSET Nat
    OBVIOUS
  <2> HIDE DEF Sizes
  <2> QED BY <1>2, <2>1, Least
<1>4. Bad = {}
  BY <1>1, <1>3
<1> QED BY <1>4

-----------------------------------------------------------------------------
(* The connections in use. *)

\* The connections in use, one by one: those of the users in T.
UnitsOf(T) == {p \in T \X {1, 2} : p[2] <= held[p[1]]}

\* What each user holds is what its place says.
HeldOK == held = [u \in Users |-> held[u]] /\ \A u \in Users : held[u] \in 0 .. 2

\* One more element.
LEMMA OneInserted ==
  ASSUME NEW B, IsFiniteSet(B), NEW x, x \notin B, NEW C, C = B \cup {x}
  PROVE  IsFiniteSet(C) /\ Cardinality(C) = Cardinality(B) + 1
BY FS_AddElement

\* They are finitely many.
LEMMA UnitsFinite ==
  ASSUME NEW T, IsFiniteSet(T)
  PROVE  IsFiniteSet(UnitsOf(T)) /\ Cardinality(UnitsOf(T)) \in Nat
<1>1. IsFiniteSet({1, 2})
  <2>1. PICK P : P = {1}
    OBVIOUS
  <2>2. PICK Q : Q = {1, 2}
    OBVIOUS
  <2>3. IsFiniteSet(P)
    BY <2>1, FS_Singleton
  <2>4. 2 \notin P /\ Q = P \cup {2}
    BY <2>1, <2>2
  <2> QED BY <2>2, <2>3, <2>4, OneInserted
<1>2. IsFiniteSet(T \X {1, 2})
  BY <1>1, FS_Product
<1>3. UnitsOf(T) \subseteq T \X {1, 2}
  BY DEF UnitsOf
<1> QED BY <1>2, <1>3, FS_Subset, FS_CardinalityType

\* Taking a user away takes its connections away.
LEMMA UnitsWithout ==
  ASSUME HeldOK, NEW T \in SUBSET Users, IsFiniteSet(T), NEW x \in T
  PROVE  Cardinality(UnitsOf(T)) = held[x] + Cardinality(UnitsOf(T \ {x}))
<1> DEFINE A == UnitsOf(T \ {x})
<1>1. IsFiniteSet(A) /\ Cardinality(A) \in Nat
  <2>1. IsFiniteSet(T \ {x})
    BY FS_Subset
  <2> QED BY <2>1, UnitsFinite
<1>2. held[x] \in 0 .. 2
  BY DEF HeldOK
<1>3. <<x, 1>> \notin A /\ <<x, 2>> \notin A
  BY DEF UnitsOf
<1>4. \A p \in UnitsOf(T) : p \in A \/ \E n \in {1, 2} : p = <<x, n>> /\ n <= held[x]
  BY DEF UnitsOf
<1>5. A \subseteq UnitsOf(T) /\ \A n \in {1, 2} : n <= held[x] => <<x, n>> \in UnitsOf(T)
  BY DEF UnitsOf
<1> HIDE DEF A
<1>6. CASE held[x] = 0
  <2>1. UnitsOf(T) = A
    BY <1>4, <1>5, <1>6
  <2> QED BY <1>1, <1>6, <2>1 DEF A
<1>7. CASE held[x] = 1
  <2>1. UnitsOf(T) = A \cup {<<x, 1>>}
    BY <1>4, <1>5, <1>7
  <2>2. Cardinality(UnitsOf(T)) = Cardinality(A) + 1
    BY <1>1, <1>3, <2>1, OneInserted
  <2> QED BY <1>1, <1>7, <2>2 DEF A
<1>8. CASE held[x] = 2
  <2>1. UnitsOf(T) = (A \cup {<<x, 1>>}) \cup {<<x, 2>>}
    BY <1>4, <1>5, <1>8
  <2>2. PICK B : B = A \cup {<<x, 1>>}
    OBVIOUS
  <2>3. IsFiniteSet(B) /\ Cardinality(B) = Cardinality(A) + 1
    BY <1>1, <1>3, <2>2, OneInserted
  <2>4. <<x, 2>> \notin B /\ UnitsOf(T) = B \cup {<<x, 2>>}
    BY <1>3, <2>1, <2>2
  <2>5. Cardinality(UnitsOf(T)) = Cardinality(B) + 1
    BY <2>3, <2>4, OneInserted
  <2> QED BY <1>1, <1>8, <2>3, <2>5 DEF A
<1> QED BY <1>2, <1>6, <1>7, <1>8

\* The sum over the users is the number of connections in use.
LEMMA InUseIs ==
  ASSUME HeldOK, IsFiniteSet(Users)
  PROVE  InUse = Cardinality(UnitsOf(Users))
<1>1. PICK D : D = Users
  OBVIOUS
<1>2. PICK f : f = [u \in D |-> held[u]]
  OBVIOUS
<1> DEFINE F(h) == [T \in SUBSET D |->
                      IF T = {} THEN 0
                      ELSE LET x == CHOOSE y \in T : TRUE IN held[x] + h[T \ {x}]]
           g == [T \in SUBSET D |-> Cardinality(UnitsOf(T))]
           it == CHOOSE h : h = F(h)
<1>3. Cardinality(UnitsOf({})) = 0
  <2>1. UnitsOf({}) = {}
    BY DEF UnitsOf
  <2> QED BY <2>1, FS_EmptySet
<1>4. g = F(g)
  <2>1. ASSUME NEW T \in SUBSET D
        PROVE  g[T] = IF T = {} THEN 0
                      ELSE LET x == CHOOSE y \in T : TRUE IN held[x] + g[T \ {x}]
    <3>1. CASE T = {}
      BY <1>3, <3>1
    <3>2. CASE T # {}
      <4>1. PICK x : x = CHOOSE y \in T : TRUE
        OBVIOUS
      <4>2. x \in T /\ IsFiniteSet(T) /\ T \in SUBSET Users
        BY <1>1, <3>2, <4>1, FS_Subset
      <4>3. g[T] = held[x] + g[T \ {x}]
        BY <4>2, UnitsWithout
      <4> QED BY <3>2, <4>1, <4>3
    <3> QED BY <3>1, <3>2
  <2> QED BY <2>1
<1>5. it = F(it)
  <2> HIDE DEF F, g
  <2> QED BY <1>4
<1>6. InUse = it[D]
  BY <1>1 DEF InUse, MapThenSumSet, MapThenFoldSet
<1>7. it[D] = g[D]
  <2>1. PICK j : j = it
    OBVIOUS
  <2>2. j = F(j)
    BY <1>5, <2>1
  <2>3. PICK c : c = [T \in SUBSET D |-> CHOOSE x \in T : TRUE]
    OBVIOUS
  <2>4. \A T \in SUBSET D : T # {} => c[T] \in T
    BY <2>3
  <2>5. AddsUp(D, c, f, j)
    <3>1. \A T \in SUBSET D : j[T] = IF T = {} THEN 0 ELSE f[c[T]] + j[T \ {c[T]}]
      BY <1>2, <2>2, <2>3, <2>4
    <3>2. \A T \in SUBSET D : /\ T # {} => c[T] \in T
                              /\ j[T] = IF T = {} THEN 0 ELSE f[c[T]] + j[T \ {c[T]}]
      BY <2>4, <3>1
    <3> QED BY <3>2, Zenon DEF AddsUp
  <2>6. PICK k : k = g /\ k = F(k)
    BY <1>4
  <2>7. AddsUp(D, c, f, k)
    <3> HIDE DEF g
    <3>1. \A T \in SUBSET D : k[T] = IF T = {} THEN 0 ELSE f[c[T]] + k[T \ {c[T]}]
      BY <1>2, <2>3, <2>4, <2>6
    <3>2. \A T \in SUBSET D : /\ T # {} => c[T] \in T
                              /\ k[T] = IF T = {} THEN 0 ELSE f[c[T]] + k[T \ {c[T]}]
      BY <2>4, <3>1
    <3> QED BY <3>2, Zenon DEF AddsUp
  <2> HIDE DEF g, F, it
  <2>8. j[D] = k[D]
    BY <1>1, <2>5, <2>7, SumUnique
  <2> QED BY <2>1, <2>6, <2>8
<1> QED BY <1>1, <1>6, <1>7

\* The same after a step.
LEMMA InUseNext ==
  IsFiniteSet(Users) /\ HeldOK' => InUse' = Cardinality(UnitsOf(Users))'
<1>1. IsFiniteSet(Users) /\ HeldOK => InUse = Cardinality(UnitsOf(Users))
  BY InUseIs
<1>2. (IsFiniteSet(Users) /\ HeldOK => InUse = Cardinality(UnitsOf(Users)))'
  BY <1>1, PTL
<1>3. Users' = Users
  BY DEF Users
<1> QED BY <1>2, <1>3

\* The users are finitely many.
LEMMA UsersFinite == ServerConstants => IsFiniteSet(Users)
<1> SUFFICES ASSUME ServerConstants PROVE IsFiniteSet(Users)
  OBVIOUS
<1>1. IsFiniteSet(Requests)
  BY DEF ServerConstants
<1>3. "publisher" \notin Requests
  BY DEF ServerConstants
<1>2. Users = Requests \cup {"publisher"}
  BY DEF Users
<1> QED BY <1>1, <1>2, <1>3, OneInserted

\* A free connection is taken.
LEMMA TakeOK ==
  ASSUME ServerConstants, HeldOK, NEW u \in Users, held[u] \in {0, 1}, Free, Take(u)
  PROVE  HeldOK' /\ InUse' <= MaxConns
<1>1. IsFiniteSet(Users) /\ MaxConns \in Nat
  BY UsersFinite DEF ServerConstants
<1>2. /\ held' = [held EXCEPT ![u] = held[u] + 1]
      /\ held = [v \in Users |-> held[v]]
      /\ \A v \in Users : held[v] \in 0 .. 2
  BY DEF Take, HeldOK
<1>3. PICK n : n = held[u] + 1
  OBVIOUS
<1>4. n \in {1, 2} /\ held'[u] = n /\ \A v \in Users \ {u} : held'[v] = held[v]
  BY <1>2, <1>3
<1>5. HeldOK'
  <2>1. held' = [v \in Users |-> held'[v]]
    BY <1>2
  <2>2. \A v \in Users : held'[v] \in 0 .. 2
    BY <1>2, <1>4
  <2>3. Users' = Users
    BY DEF Users
  <2> QED BY <2>1, <2>2, <2>3 DEF HeldOK
<1>6. /\ Cardinality(UnitsOf(Users)) < MaxConns
      /\ IsFiniteSet(UnitsOf(Users)) /\ Cardinality(UnitsOf(Users)) \in Nat
  BY <1>1, InUseIs, UnitsFinite DEF Free
<1>7. UnitsOf(Users)' = UnitsOf(Users) \cup {<<u, n>>} /\ <<u, n>> \notin UnitsOf(Users)
  <2>1. \A p \in UnitsOf(Users)' : p \in UnitsOf(Users) \/ p = <<u, n>>
    <3> SUFFICES ASSUME NEW v \in Users, NEW k \in {1, 2}, k <= held'[v]
                 PROVE  k <= held[v] \/ (v = u /\ k = n)
      BY DEF UnitsOf, Users
    <3> QED BY <1>2, <1>3, <1>4
  <2>2. \A p \in UnitsOf(Users) : p \in UnitsOf(Users)'
    <3> SUFFICES ASSUME NEW v \in Users, NEW k \in {1, 2}, k <= held[v] PROVE k <= held'[v]
      BY DEF UnitsOf, Users
    <3> QED BY <1>2, <1>3, <1>4
  <2>3. <<u, n>> \in UnitsOf(Users)'
    BY <1>4 DEF UnitsOf, Users
  <2>4. <<u, n>> \notin UnitsOf(Users)
    BY <1>2, <1>3 DEF UnitsOf
  <2> QED BY <2>1, <2>2, <2>3, <2>4
<1>8. Cardinality(UnitsOf(Users))' = Cardinality(UnitsOf(Users)) + 1
  BY <1>6, <1>7, OneInserted
<1> QED BY <1>1, <1>5, <1>6, <1>8, InUseNext

\* Connections are given back.
LEMMA GiveOK ==
  ASSUME ServerConstants, HeldOK, NEW u \in Users, GiveAll(u), InUse <= MaxConns
  PROVE  HeldOK' /\ InUse' <= MaxConns
<1>1. IsFiniteSet(Users) /\ MaxConns \in Nat
  BY UsersFinite DEF ServerConstants
<1>2. /\ held' = [held EXCEPT ![u] = 0]
      /\ held = [v \in Users |-> held[v]]
      /\ \A v \in Users : held[v] \in 0 .. 2
  BY DEF GiveAll, HeldOK
<1>3. HeldOK'
  <2>1. held' = [v \in Users |-> held'[v]]
    BY <1>2
  <2>2. \A v \in Users : held'[v] \in 0 .. 2
    BY <1>2
  <2>3. Users' = Users
    BY DEF Users
  <2> QED BY <2>1, <2>2, <2>3 DEF HeldOK
<1>4. /\ Cardinality(UnitsOf(Users)) <= MaxConns
      /\ IsFiniteSet(UnitsOf(Users)) /\ Cardinality(UnitsOf(Users)) \in Nat
  BY <1>1, InUseIs, UnitsFinite
<1>5. UnitsOf(Users)' \subseteq UnitsOf(Users)
  <2> SUFFICES ASSUME NEW v \in Users, NEW k \in {1, 2}, k <= held'[v] PROVE k <= held[v]
    BY DEF UnitsOf, Users
  <2> QED BY <1>2
<1>6. Cardinality(UnitsOf(Users))' \in Nat /\ Cardinality(UnitsOf(Users))' <= Cardinality(UnitsOf(Users))
  BY <1>4, <1>5, FS_Subset, FS_CardinalityType
<1> QED BY <1>1, <1>3, <1>4, <1>6, InUseNext

\* Nothing is held: nothing is in use.
LEMMA NoneHeld ==
  ASSUME ServerConstants, HeldOK, \A u \in Users : held[u] = 0
  PROVE  InUse = 0
<1>1. UnitsOf(Users) = {}
  BY DEF UnitsOf
<1> QED BY <1>1, InUseIs, UsersFinite, FS_EmptySet

\* Everybody holds the connections of its place and nobody else's, one request
\* writes the metrics, and a closed pool has all its connections back.
UsersInv ==
  /\ HeldOK /\ InUse <= MaxConns
  /\ req = [r \in Requests |-> req[r]]
  /\ \A r \in Requests :
       held[r] = CASE req[r] = "using" -> 1 [] req[r] = "both" -> 2 [] OTHER -> 0
  /\ held["publisher"] = IF publisher = "using" THEN 1 ELSE 0
  /\ mutex \in {"free"} \cup Requests
  /\ \A r \in Requests : mutex = r <=> req[r] = "writing"
  /\ main \in Starting => publisher = "none" /\ \A r \in Requests : req[r] = "unsent"
  /\ pool = "closed" => main = "exited" /\ InUse = 0
  /\ pool \in {"none", "open", "closing", "closed"} /\ timedOut \subseteq {"shutdown", "publisher"}

\* At the start nobody holds anything.
LEMMA UsersInit == ServerConstants /\ ServerInit => UsersInv
<1> SUFFICES ASSUME ServerConstants, ServerInit PROVE UsersInv
  OBVIOUS
<1>1. /\ held = [u \in Users |-> 0] /\ req = [r \in Requests |-> "unsent"]
      /\ mutex = "free" /\ publisher = "none" /\ pool = "none" /\ timedOut = {}
  BY DEF ServerInit
<1>2. HeldOK /\ \A u \in Users : held[u] = 0
  BY <1>1 DEF HeldOK
<1>3. InUse = 0
  BY <1>2, NoneHeld
<1>4. MaxConns \in Nat /\ "free" \notin Requests
  BY DEF ServerConstants
<1>5. "publisher" \in Users /\ Requests \subseteq Users
  BY DEF Users
<1>6. \A r \in Requests : held[r] = 0 /\ req[r] = "unsent"
  BY <1>1, <1>5
<1> QED BY <1>1, <1>2, <1>3, <1>4, <1>5, <1>6 DEF UsersInv

\* A step of a request.
LEMMA UsersRequest ==
  ASSUME ServerConstants, UsersInv, Running, NEW r \in Requests,
         \/ Arrive(r) \/ Authenticate(r) \/ Acquire(r) \/ AcquireSecond(r) \/ Release(r)
         \/ LockMetrics(r) \/ MetricsWritten(r) \/ Record(r) \/ ClientLeaves(r)
  PROVE  UsersInv'
<1>1. /\ HeldOK /\ InUse <= MaxConns
      /\ req = [x \in Requests |-> req[x]]
      /\ \A x \in Requests :
           held[x] = CASE req[x] = "using" -> 1 [] req[x] = "both" -> 2 [] OTHER -> 0
      /\ held["publisher"] = IF publisher = "using" THEN 1 ELSE 0
      /\ mutex \in {"free"} \cup Requests
      /\ \A x \in Requests : mutex = x <=> req[x] = "writing"
      /\ main \in Starting => publisher = "none" /\ \A x \in Requests : req[x] = "unsent"
      /\ pool # "closed" /\ main # "exited"
      /\ pool \in {"none", "open", "closing", "closed"} /\ timedOut \subseteq {"shutdown", "publisher"}
  BY DEF UsersInv, Running
<1>2. /\ held = [u \in Users |-> held[u]] /\ r \in Users /\ "publisher" \in Users
      /\ Requests \subseteq Users /\ r # "publisher" /\ r # "free" /\ "free" \notin Requests
      /\ "publisher" \notin Requests
  BY <1>1 DEF HeldOK, Users, ServerConstants
<1>3. UNCHANGED <<main, pool, publisher, timedOut>>
  BY DEF Arrive, Authenticate, Acquire, AcquireSecond, Release, LockMetrics, MetricsWritten, Record,
         ClientLeaves
<1>4. main \notin Starting
  <2>1. main = "serving" \/ req[r] # "unsent"
    BY DEF Arrive, Authenticate, Acquire, AcquireSecond, Release, LockMetrics, MetricsWritten, Record,
           ClientLeaves
  <2> QED BY <1>1, <2>1 DEF Starting
<1>5. ASSUME UNCHANGED held PROVE HeldOK' /\ InUse' <= MaxConns
  BY <1>1, <1>5, InUseSame DEF HeldOK, Users
\* It takes or gives back, and goes where it holds that much.
<1>6. /\ \/ UNCHANGED held
         \/ held[r] \in {0, 1} /\ Free /\ Take(r)
         \/ GiveAll(r)
      /\ req' = [req EXCEPT ![r] = req'[r]]
      /\ held'[r] = CASE req'[r] = "using" -> 1 [] req'[r] = "both" -> 2 [] OTHER -> 0
      /\ \A u \in Users \ {r} : held'[u] = held[u]
      /\ \/ UNCHANGED mutex /\ (req[r] = "writing" <=> req'[r] = "writing")
         \/ mutex = "free" /\ mutex' = r /\ req'[r] = "writing"
         \/ req[r] = "writing" /\ mutex' = "free" /\ req'[r] # "writing"
  <2>1. CASE Arrive(r)
    BY <1>1, <1>2, <2>1 DEF Arrive, Goto
  <2>2. CASE Authenticate(r)
    BY <1>1, <1>2, <2>2 DEF Authenticate, Goto
  <2>3. CASE Acquire(r)
    BY <1>1, <1>2, <2>3 DEF Acquire, Goto, CanAcquire, Take
  <2>4. CASE AcquireSecond(r)
    BY <1>1, <1>2, <2>4 DEF AcquireSecond, Goto, CanAcquire, Take, GiveAll
  <2>5. CASE Release(r)
    BY <1>1, <1>2, <2>5 DEF Release, Goto, GiveAll
  <2>6. CASE LockMetrics(r)
    BY <1>1, <1>2, <2>6 DEF LockMetrics, Goto
  <2>7. CASE MetricsWritten(r)
    BY <1>1, <1>2, <2>7 DEF MetricsWritten, Goto
  <2>8. CASE Record(r)
    BY <1>1, <1>2, <2>8 DEF Record, Goto
  <2>9. CASE ClientLeaves(r)
    BY <1>1, <1>2, <2>9 DEF ClientLeaves
  <2> QED BY <2>1, <2>2, <2>3, <2>4, <2>5, <2>6, <2>7, <2>8, <2>9
<1>7. HeldOK' /\ InUse' <= MaxConns
  BY <1>1, <1>2, <1>5, <1>6, TakeOK, GiveOK
<1>8. req' = [x \in Requests |-> req'[x]] /\ \A x \in Requests \ {r} : req'[x] = req[x]
  BY <1>1, <1>6
<1>9. \A x \in Requests :
        held'[x] = CASE req'[x] = "using" -> 1 [] req'[x] = "both" -> 2 [] OTHER -> 0
  BY <1>1, <1>2, <1>6, <1>8
<1>10. mutex' \in {"free"} \cup Requests /\ \A x \in Requests : mutex' = x <=> req'[x] = "writing"
  BY <1>1, <1>2, <1>6, <1>8
<1>11. held'["publisher"] = IF publisher' = "using" THEN 1 ELSE 0
  BY <1>1, <1>2, <1>3, <1>6
<1> QED BY <1>1, <1>3, <1>4, <1>7, <1>8, <1>9, <1>10, <1>11 DEF UsersInv

\* A step of the publisher.
LEMMA UsersPublisher ==
  ASSUME ServerConstants, UsersInv, Running,
         \/ Tick \/ Stop \/ PublisherAcquire \/ PublisherRelease \/ PublisherObserve
         \/ PublisherFails \/ Dispatched
  PROVE  UsersInv'
<1>1. /\ HeldOK /\ InUse <= MaxConns
      /\ held["publisher"] = IF publisher = "using" THEN 1 ELSE 0
      /\ main \in Starting => publisher = "none"
      /\ pool # "closed" /\ main # "exited"
      /\ pool \in {"none", "open", "closing", "closed"} /\ timedOut \subseteq {"shutdown", "publisher"}
  BY DEF UsersInv, Running
<1>2. /\ held = [u \in Users |-> held[u]] /\ "publisher" \in Users
      /\ \A r \in Requests : r \in Users /\ r # "publisher"
  BY <1>1 DEF HeldOK, Users, ServerConstants
<1>3. UNCHANGED <<main, pool, mutex, req, timedOut>>
  BY DEF Tick, Stop, PublisherAcquire, PublisherRelease, PublisherObserve, PublisherFails, Dispatched,
         PublisherGoto, requests
<1>4. main \notin Starting
  <2>1. publisher # "none"
    BY DEF Tick, Stop, PublisherAcquire, PublisherRelease, PublisherObserve, PublisherFails, Dispatched
  <2> QED BY <1>1, <2>1
<1>5. ASSUME UNCHANGED held PROVE HeldOK' /\ InUse' <= MaxConns
  BY <1>1, <1>5, InUseSame DEF HeldOK, Users
<1>6. /\ \/ UNCHANGED held
         \/ held["publisher"] \in {0, 1} /\ Free /\ Take("publisher")
         \/ GiveAll("publisher")
      /\ held'["publisher"] = IF publisher' = "using" THEN 1 ELSE 0
      /\ \A u \in Users \ {"publisher"} : held'[u] = held[u]
  <2>1. CASE PublisherAcquire
    BY <1>1, <1>2, <2>1 DEF PublisherAcquire, PublisherGoto, CanAcquire, Take
  <2>2. CASE PublisherRelease
    BY <1>1, <1>2, <2>2 DEF PublisherRelease, PublisherGoto, GiveAll
  <2>3. CASE Tick \/ Stop \/ PublisherObserve \/ PublisherFails \/ Dispatched
    BY <1>1, <1>2, <2>3 DEF Tick, Stop, PublisherObserve, PublisherFails, Dispatched, PublisherGoto
  <2> QED BY <2>1, <2>2, <2>3
<1>7. HeldOK' /\ InUse' <= MaxConns
  BY <1>1, <1>2, <1>5, <1>6, TakeOK, GiveOK
<1>8. \A r \in Requests : held'[r] = held[r]
  BY <1>2, <1>6
<1> QED BY <1>1, <1>3, <1>4, <1>6, <1>7, <1>8 DEF UsersInv

\* A step of main.
LEMMA UsersMain ==
  ASSUME ServerConstants, ServerInv, UsersInv,
         \/ Configure \/ OpenDatabase \/ WiringFails \/ Serve \/ Signal
         \/ BeginShutdown \/ ListenFails \/ Drained \/ DrainTimeout
         \/ PublisherStopped \/ PublisherWaitTimeout \/ PoolClosed
  PROVE  UsersInv'
<1>1. UNCHANGED <<held, mutex, req>>
  <2>1. CASE Configure
    BY <2>1 DEF Configure, LoadConfig, requests
  <2>2. CASE ~ Configure
    BY <2>2 DEF OpenDatabase, WiringFails, Serve, Signal, BeginShutdown, ListenFails, Drained,
                DrainTimeout, PublisherStopped, PublisherWaitTimeout, PoolClosed, requests
  <2> QED BY <2>1, <2>2
<1>2. HeldOK' /\ InUse' = InUse
  BY <1>1, InUseSame DEF UsersInv, HeldOK, Users
<1>3. \/ UNCHANGED publisher
      \/ main = "wiring" /\ main' = "serving" /\ publisher = "none" /\ publisher' \in {"idle", "none"}
  <2>1. CASE Configure
    BY <2>1 DEF Configure, LoadConfig
  <2>2. CASE Serve
    BY <2>2 DEF Serve, UsersInv, Starting
  <2>3. CASE ~ Configure /\ ~ Serve
    BY <2>3 DEF OpenDatabase, WiringFails, Signal, BeginShutdown, ListenFails, Drained,
                DrainTimeout, PublisherStopped, PublisherWaitTimeout, PoolClosed, requests
  <2> QED BY <2>1, <2>2, <2>3
<1>4. main' \in Starting => main \in Starting
  <2>1. CASE Configure
    BY <2>1 DEF Configure, Starting
  <2>2. CASE ~ Configure
    BY <2>2 DEF Starting, OpenDatabase, WiringFails, Serve, Signal, BeginShutdown, ListenFails, Drained,
                DrainTimeout, PublisherStopped, PublisherWaitTimeout, PoolClosed, Exit
  <2> QED BY <2>1, <2>2
\* The pool is closed before it was used, or when everything is returned.
<1>5. pool' = "closed" => main' = "exited" /\ InUse = 0
  <2>1. ASSUME main \in Starting PROVE InUse = 0
    <3>1. \A u \in Users : held[u] = 0
      BY <2>1 DEF UsersInv, Users
    <3> QED BY <3>1, NoneHeld DEF UsersInv
  <2>2. CASE UNCHANGED pool
    <3>1. pool = "closed" => main = "exited" /\ InUse = 0
      BY DEF UsersInv
    <3>2. main = "exited" => main' = "exited"
      BY DEF Configure, OpenDatabase, WiringFails, Serve, Signal, BeginShutdown, ListenFails, Drained,
             DrainTimeout, PublisherStopped, PublisherWaitTimeout, PoolClosed
    <3> QED BY <2>2, <3>1, <3>2
  <2>3. CASE ~ UNCHANGED pool
    <3>1. OpenDatabase \/ WiringFails \/ PublisherStopped \/ PoolClosed
      <4>1. ~ Configure
        BY <2>3 DEF Configure, LoadConfig
      <4> QED BY <2>3, <4>1 DEF Serve, Signal, BeginShutdown, ListenFails, Drained, DrainTimeout,
                                PublisherWaitTimeout
    <3> QED BY <2>1, <3>1 DEF OpenDatabase, WiringFails, PublisherStopped, PoolClosed, Exit, Starting
  <2> QED BY <2>2, <2>3
<1>6. held'["publisher"] = IF publisher' = "using" THEN 1 ELSE 0
  BY <1>1, <1>3 DEF UsersInv
<1>7. main' \in Starting => publisher' = "none" /\ \A r \in Requests : req'[r] = "unsent"
  BY <1>1, <1>3, <1>4 DEF UsersInv, Starting
<1>8. pool' \in {"none", "open", "closing", "closed"} /\ timedOut' \subseteq {"shutdown", "publisher"}
  <2>1. pool \in {"none", "open", "closing", "closed"} /\ timedOut \subseteq {"shutdown", "publisher"}
    BY DEF UsersInv
  <2>2. CASE Configure
    BY <2>1, <2>2 DEF Configure, LoadConfig
  <2>3. CASE ~ Configure
    BY <2>1, <2>3 DEF OpenDatabase, WiringFails, Serve, Signal, BeginShutdown, ListenFails, Drained,
                      DrainTimeout, PublisherStopped, PublisherWaitTimeout, PoolClosed
  <2> QED BY <2>2, <2>3
<1> QED BY <1>1, <1>2, <1>5, <1>6, <1>7, <1>8 DEF UsersInv

\* Every step keeps the accounts.
LEMMA UsersNext ==
  ASSUME ServerConstants, ServerInv, UsersInv, [ServerNext]_serverVars
  PROVE  UsersInv'
<1>1. ASSUME Running, NEW r \in Requests,
             \/ Arrive(r) \/ Authenticate(r) \/ Acquire(r) \/ AcquireSecond(r) \/ Release(r)
             \/ LockMetrics(r) \/ MetricsWritten(r) \/ Record(r) \/ ClientLeaves(r)
      PROVE  UsersInv'
  BY <1>1, UsersRequest
<1>2. CASE /\ Running
           /\ \/ Tick \/ Stop \/ PublisherAcquire \/ PublisherRelease \/ PublisherObserve
              \/ PublisherFails \/ Dispatched
  BY <1>2, UsersPublisher
<1>3. CASE \/ Configure \/ OpenDatabase \/ WiringFails \/ Serve \/ Signal
           \/ BeginShutdown \/ ListenFails \/ Drained \/ DrainTimeout
           \/ PublisherStopped \/ PublisherWaitTimeout \/ PoolClosed
  BY <1>3, UsersMain
<1>4. CASE Done \/ UNCHANGED serverVars
  <2>1. UNCHANGED <<main, pool, held, mutex, req, publisher, timedOut>>
    BY <1>4 DEF Done, serverVars
  <2> QED BY <2>1, InUseSame DEF UsersInv, HeldOK, Users
<1> QED BY <1>1, <1>2, <1>3, <1>4 DEF ServerNext

-----------------------------------------------------------------------------
(* The configuration that is loaded is the one that runs. *)

\* Usable values are left alone.
LEMMA PositiveSame ==
  ASSUME NEW v \in Usable, NEW default PROVE Positive(v, default) = v
BY DEF Positive

\* Where the settings belong.
LEMMA SettingKinds ==
  /\ {"outbox_publisher.batch_size", "outbox_publisher.poll_interval", "outbox_publisher.lease_duration",
      "outbox_publisher.max_attempts", "outbox_publisher.initial_backoff", "outbox_publisher.max_backoff",
      "buf.build_timeout", "buf.lint_timeout", "buf.max_report_bytes"} \subseteq Durations \cup Numbers
  /\ "buf.binary_path" \in RequiredSettings /\ "buf.lint_mode" \in Enumerations
  /\ Paths \subseteq Settings
  /\ \A p \in Paths : p \notin Durations \cup Numbers \cup Flags \cup RequiredSettings \cup Enumerations
<1>1. /\ {"outbox_publisher.batch_size", "outbox_publisher.poll_interval", "outbox_publisher.lease_duration",
          "outbox_publisher.max_attempts", "outbox_publisher.initial_backoff", "outbox_publisher.max_backoff",
          "buf.build_timeout", "buf.lint_timeout", "buf.max_report_bytes"} \subseteq Durations \cup Numbers
  BY DEF Durations, Numbers
<1>2. "buf.binary_path" \in RequiredSettings /\ "buf.lint_mode" \in Enumerations
  BY DEF RequiredSettings, Enumerations
<1>3. Paths \subseteq Settings
  BY DEF Settings
<1>4. \A p \in Paths : p \notin Durations
  BY DEF Durations, Paths
<1>5. \A p \in Paths : p \notin Numbers
  BY DEF Numbers, Paths
<1>6. \A p \in Paths : p \notin Flags
  BY DEF Flags, Paths
<1>7. \A p \in Paths : p \notin RequiredSettings
  BY DEF RequiredSettings, Paths
<1>8. \A p \in Paths : p \notin Enumerations
  BY DEF Enumerations, Paths
<1> QED BY <1>1, <1>2, <1>3, <1>4, <1>5, <1>6, <1>7, <1>8

\* What Runtime makes of a configuration it accepts.
LEMMA RuntimeShape ==
  ASSUME NEW c0, c0 = [p \in Settings |-> c0[p]], ~ Runtime(c0).err, NEW c, c = Runtime(c0).config
  PROVE  /\ Validate(c0)
         /\ c = [p \in Settings |-> c[p]]
         /\ \A p \in Settings : p \notin Paths => c[p] = c0[p]
         /\ \A p \in Paths : c[p] = NormalizePath(c0[p])
<1>1. PICK envs : envs = c0["governance.production_environments"]
  OBVIOUS
<1>2. Validate(c0) /\ envs # "commas"
  BY <1>1 DEF Runtime
<1>3. c = [c0 EXCEPT !["ui.base_path"] = NormalizePath(@), !["ui.static_path"] = NormalizePath(@)]
  BY <1>1, <1>2 DEF Runtime
<1>4. "ui.base_path" \in Settings /\ "ui.static_path" \in Settings
  BY SettingKinds DEF Paths
<1>5. c = [p \in Settings |-> c[p]]
  BY <1>3
<1>6. \A p \in Settings : p \notin Paths => c[p] = c0[p]
  BY <1>3 DEF Paths
<1>7. \A p \in Paths : c[p] = NormalizePath(c0[p])
  BY <1>3, <1>4 DEF Paths
<1> QED BY <1>2, <1>5, <1>6, <1>7

\* The components find nothing to replace in a validated configuration.
LEMMA DefaultsIdle ==
  ASSUME NEW c0, c0 = [p \in Settings |-> c0[p]], ~ Runtime(c0).err, NEW c, c = Runtime(c0).config
  PROVE  /\ NormalizePublisherOptions(c) = c
         /\ NewWorkflow(c) = c
         /\ "/" \notin {c["ui.base_path"], c["ui.static_path"]} => NewWebServer(c) = c /\ ApiMounted(c)
<1>1. /\ Validate(c0) /\ c = [p \in Settings |-> c[p]]
      /\ \A p \in Settings : p \notin Paths => c[p] = c0[p]
  BY RuntimeShape
<1>2. \A p \in Durations \cup Numbers : p \in Settings /\ p \notin Paths /\ c[p] \in Usable
  BY <1>1, SettingKinds DEF Validate, ValidateNumbers, Settings
<1>3. NormalizePublisherOptions(c) = c
  <2>1. /\ \A p \in {"outbox_publisher.batch_size", "outbox_publisher.poll_interval", "outbox_publisher.lease_duration",
                     "outbox_publisher.max_attempts", "outbox_publisher.initial_backoff",
                     "outbox_publisher.max_backoff"} :
             p \in Settings /\ c[p] \in Usable /\ c[p] = c0[p]
    BY <1>1, <1>2, SettingKinds
  <2>2. Positive(c["outbox_publisher.initial_backoff"], "x") = c["outbox_publisher.initial_backoff"]
    BY <2>1, PositiveSame
  <2>3. Positive(c["outbox_publisher.max_backoff"], "y") = c["outbox_publisher.max_backoff"]
    BY <2>1, PositiveSame
  <2>4. ~ (c["outbox_publisher.initial_backoff"] = "y" /\ c["outbox_publisher.max_backoff"] = "x")
    BY <1>1, <2>1 DEF Validate, ValidateOutboxPublisher
  <2>5. /\ Positive(c["outbox_publisher.batch_size"], "x") = c["outbox_publisher.batch_size"]
        /\ Positive(c["outbox_publisher.poll_interval"], "x") = c["outbox_publisher.poll_interval"]
        /\ Positive(c["outbox_publisher.lease_duration"], "x") = c["outbox_publisher.lease_duration"]
        /\ Positive(c["outbox_publisher.max_attempts"], "x") = c["outbox_publisher.max_attempts"]
    BY <2>1, PositiveSame
  <2> QED BY <1>1, <2>2, <2>3, <2>4, <2>5 DEF NormalizePublisherOptions
<1>4. NewWorkflow(c) = c
  <2>1. c["buf.binary_path"] # "blank" /\ c["buf.lint_mode"] # "blank"
    BY <1>1, SettingKinds DEF Validate, ValidateRequired, ValidateEnumerations, Usable, Settings
  <2>2. /\ Positive(c["buf.build_timeout"], "x") = c["buf.build_timeout"]
        /\ Positive(c["buf.lint_timeout"], "x") = c["buf.lint_timeout"]
        /\ Positive(c["buf.max_report_bytes"], "x") = c["buf.max_report_bytes"]
    BY <1>2, SettingKinds, PositiveSame
  <2> QED BY <1>1, <2>1, <2>2 DEF NewWorkflow
<1>5. ASSUME "/" \notin {c["ui.base_path"], c["ui.static_path"]} PROVE NewWebServer(c) = c /\ ApiMounted(c)
  BY <1>1, <1>5 DEF NewWebServer, ApiMounted
<1> QED BY <1>3, <1>4, <1>5

\* A value of the environment that is a path with a last "/" is a path's.
LEMMA SlashedValues ==
  ASSUME NEW env \in ProcessEnvironments, NEW p \in DOMAIN env, env[p] = "/ui/"
  PROVE  p \in Paths
<1>1. "/ui/" \notin Values(p) \/ p \in Paths
  BY DEF Values
<1>2. \E q : \E v \in Values(q) : env = With(<<>>, q, v)
  BY DEF ProcessEnvironments, OneMore
<1>3. PICK q, v : v \in Values(q) /\ env = [x \in DOMAIN <<>> \cup {q} |-> IF x = q THEN v ELSE <<>>[x]]
  BY <1>2 DEF With
<1>4. DOMAIN env = {q}
  BY <1>3
<1>5. p = q /\ env[p] = v
  BY <1>3, <1>4
<1> QED BY <1>1, <1>3, <1>5

\* The environment has the last word.
LEMMA EnvironmentWins ==
  ASSUME NEW yaml, NEW env \in ProcessEnvironments, ~ LoadFile(yaml, env).err,
         NEW c0, c0 = LoadFile(yaml, env).config, ~ Runtime(c0).err, NEW c, c = Runtime(c0).config
  PROVE  /\ c0 = [p \in Settings |-> c0[p]]
         /\ \A p \in DOMAIN env \cap Settings : NormalizePath(env[p]) = c[p]
<1>1. PICK merged : merged = Merge(yaml, env)
  OBVIOUS
<1>2. /\ c0 = [p \in Settings |-> Decode(p, merged[p])]
      /\ \A p \in DOMAIN env \cap Settings : ValidateEnvValue(p, env[p])
  BY <1>1 DEF LoadFile
<1>3. \A p \in DOMAIN env \cap Settings : merged[p] = env[p]
  BY <1>1 DEF Merge
<1>4. c0 = [p \in Settings |-> c0[p]]
  BY <1>2
<1>5. ASSUME NEW p \in DOMAIN env \cap Settings PROVE c0[p] = env[p]
  <2>1. c0[p] = Decode(p, env[p])
    BY <1>2, <1>3
  <2>2. ValidateEnvValue(p, env[p])
    BY <1>2
  <2> QED BY <2>1, <2>2 DEF Decode, ValidateEnvValue
<1>6. /\ \A p \in Settings : p \notin Paths => c[p] = c0[p]
      /\ \A p \in Paths : c[p] = NormalizePath(c0[p])
  BY <1>4, RuntimeShape
<1>7. ASSUME NEW p \in DOMAIN env \cap Settings PROVE NormalizePath(env[p]) = c[p]
  <2>1. CASE p \in Paths
    BY <1>5, <1>6, <2>1
  <2>2. CASE p \notin Paths
    <3>1. env[p] # "/ui/"
      BY <2>2, SlashedValues
    <3> QED BY <1>5, <1>6, <2>2, <3>1 DEF NormalizePath
  <2> QED BY <2>1, <2>2
<1> QED BY <1>4, <1>7

-----------------------------------------------------------------------------
(* The theorems about the server. *)

\* The strengthening holds however requests, publisher, signal and timeouts
\* interleave (cmd/protoradar-server, bootstrap/server.go).
THEOREM ServerInvariant == ServerSpec => []ServerInv
<1>1. ServerInit => ServerInv
  BY ServerInvInit
<1>2. ServerInv /\ [ServerNext]_serverVars => ServerInv'
  BY ServerInvNext
<1> QED BY <1>1, <1>2, PTL DEF ServerSpec

\* With any number of requests, connections and needs, the pool never closes under
\* the publisher, it is closed at exit unless the publisher was given up, and exit
\* code 0 means that everything was finished (runServer, Server.Close).
THEOREM StopIsOrderly == ServerSpec => []OrderlyStop
<1>1. ServerInv => OrderlyStop
  BY DEF ServerInv
<1> QED BY <1>1, ServerInvariant, PTL

\* The configuration that is validated is the one every component runs with, and
\* the environment overrides the file (config.LoadFile, Runtime and the components'
\* own defaults).
THEOREM ConfigIsKept == ServerSpec => []ConfigKept
<1>1. ServerInit => ConfigKept
  BY DEF ServerInit, ConfigKept
<1>2. ASSUME ConfigKept, [ServerNext]_serverVars PROVE ConfigKept'
  <2>1. ASSUME NEW yaml \in Files, NEW env \in ProcessEnvironments, LoadConfig(yaml, env) PROVE ConfigKept'
    <3>1. PICK c0 : c0 = LoadFile(yaml, env).config
      OBVIOUS
    <3>2. PICK c : c = Runtime(c0).config
      OBVIOUS
    <3>3. CASE LoadFile(yaml, env).err \/ Runtime(c0).err
      <4>1. main' = "exited"
        BY <2>1, <3>1, <3>3 DEF LoadConfig, Exit
      <4> QED BY <4>1 DEF ConfigKept
    <3>4. CASE ~ LoadFile(yaml, env).err /\ ~ Runtime(c0).err
      <4>1. config' = [config |-> c, env |-> env]
        BY <2>1, <3>1, <3>2, <3>4 DEF LoadConfig
      <4>2. /\ c0 = [p \in Settings |-> c0[p]]
            /\ \A p \in DOMAIN env \cap Settings : NormalizePath(env[p]) = c[p]
        BY <3>1, <3>2, <3>4, EnvironmentWins
      <4>3. /\ NormalizePublisherOptions(c) = c
            /\ NewWorkflow(c) = c
            /\ "/" \notin {c["ui.base_path"], c["ui.static_path"]} => NewWebServer(c) = c /\ ApiMounted(c)
        BY <3>2, <3>4, <4>2, DefaultsIdle
      <4>4. config'.config = c /\ config'.env = env
        BY <4>1
      <4> QED BY <4>2, <4>3, <4>4 DEF ConfigKept
    <3> QED BY <3>3, <3>4
  <2>2. CASE UNCHANGED <<main, config>>
    BY <1>2, <2>2 DEF ConfigKept
  <2>3. CASE main' \in {"wiring", "exited"} /\ main = "database" /\ UNCHANGED config
    BY <1>2, <2>3 DEF ConfigKept
  <2>4. CASE main' \in {"serving", "draining", "stopping", "pool", "exited"}
    BY <2>4 DEF ConfigKept
  <2>5. CASE OpenDatabase
    BY <2>3, <2>5 DEF OpenDatabase, Exit
  <2>6. CASE WiringFails \/ Serve
    BY <2>4, <2>6 DEF WiringFails, Serve, Exit
  <2>7. CASE Signal
    BY <2>2, <2>7 DEF Signal
  <2>8. ASSUME NEW r \in Requests,
               \/ Arrive(r) \/ Authenticate(r) \/ Acquire(r) \/ AcquireSecond(r) \/ Release(r)
               \/ LockMetrics(r) \/ MetricsWritten(r) \/ Record(r) \/ ClientLeaves(r)
        PROVE  UNCHANGED <<main, config>>
    BY <2>8 DEF Arrive, Authenticate, Acquire, AcquireSecond, Release, LockMetrics, MetricsWritten, Record, ClientLeaves
  <2>9. CASE \/ Tick \/ Stop \/ PublisherAcquire \/ PublisherRelease \/ PublisherObserve
             \/ PublisherFails \/ Dispatched
    BY <2>2, <2>9 DEF Tick, Stop, PublisherAcquire, PublisherRelease, PublisherObserve, PublisherFails,
                      Dispatched, PublisherGoto
  <2>10. CASE \/ BeginShutdown \/ ListenFails \/ Drained \/ DrainTimeout
              \/ PublisherStopped \/ PublisherWaitTimeout \/ PoolClosed
    BY <2>4, <2>10 DEF BeginShutdown, ListenFails, Drained, DrainTimeout, PublisherStopped,
                       PublisherWaitTimeout, PoolClosed, Exit
  <2>11. CASE Done \/ UNCHANGED serverVars
    BY <2>2, <2>11 DEF Done, serverVars
  <2> QED BY <1>2, <2>1, <2>2, <2>5, <2>6, <2>7, <2>8, <2>9, <2>10, <2>11 DEF ServerNext, Configure
<1> QED BY <1>1, <1>2, PTL DEF ServerSpec

\* Every request and the publisher hold exactly the connections of their place and
\* together no more than the pool has, and the metrics are locked by the request
\* that writes them (pgxpool's accounts, loadProtoFields, WritePrometheus), for
\* any finite set of requests.
THEOREM ServerTypeCorrect == ServerSpec => []ServerTypeOK
<1>1. ServerInit => ServerInv /\ UsersInv
  BY ServerAssumption, ServerInvInit, UsersInit
<1>2. ServerInv /\ UsersInv /\ [ServerNext]_serverVars => (ServerInv /\ UsersInv)'
  BY ServerAssumption, ServerInvNext, UsersNext
<1>3. ServerInv /\ UsersInv => ServerTypeOK
  BY DEF ServerInv, UsersInv, ServerTypeOK, Phases, Starting, CodeTruthful
<1> QED BY <1>1, <1>2, <1>3, PTL DEF ServerSpec
=============================================================================

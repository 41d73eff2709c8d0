----------------------- MODULE RuntimeInventoryProofs -----------------------
(***************************************************************************)
(* Proofs about RuntimeInventory for every registry, every set of clients  *)
(* and every number of deployments.                                        *)
(***************************************************************************)
EXTENDS RuntimeInventory, FiniteSetTheorems, WellFoundedInduction, TLAPS

-----------------------------------------------------------------------------
(* The strengthening of the safety properties that the steps preserve. *)

Usage == [ref : MV, hasModule : BOOLEAN, hasVersion : BOOLEAN, status : Status]

Partial == [usage : Usage, step : {"version", "latest"}]

Report == [service : Services, environment : Environments, reportedAt : Nat,
           knew : SUBSET MV, after : Nat, todo : Seq(MV), usages : SUBSET Usage,
           reading : Partial \cup {Null}]

Counts == {DriftCounts(usages) : usages \in SUBSET Usage}

Typed ==
  /\ modules \in SUBSET Modules
  /\ version \in [MV -> VersionRow \cup {Null}]
  /\ deployments \in Seq(Report)
  /\ Len(deployments) <= MaxDeployments
  /\ outbox \in Seq(Counts)
  /\ Len(outbox) = Len(deployments)
  /\ now \in 1 .. MaxTime
  /\ report \in [Reporters -> Report \cup {Null}]

\* The versions belong to modules and no two have the same creation order.
VersionsOK ==
  /\ \A mv \in Stored : mv[1] \in modules
  /\ \A a, b \in Stored : version[a].createdAt = version[b].createdAt => a = b

\* What a usage says was true at a moment when the versions in knew were stored.
UsageOK(u, knew) ==
  /\ u.status = "unknown_version" \/ u.ref \in Stored
  /\ u.status = "unknown_version" => u.ref \notin knew
  /\ u.status = "deprecated_version" => version[u.ref].deprecated
  /\ u.status = "up_to_date" => \A mv \in knew : mv[1] = u.ref[1] => ~Newer(mv, u.ref)
  /\ u.status = "behind_latest" => \E mv \in Stored : mv[1] = u.ref[1] /\ Newer(mv, u.ref)
  /\ u.ref \in knew => u.hasModule /\ u.hasVersion
  /\ u.hasVersion => u.hasModule

\* What is known of a reference between two reads.
PartialOK(p) ==
  /\ p.usage.hasModule
  /\ p.step = "version" => p.usage.status = "unknown_version" /\ ~p.usage.hasVersion
  /\ p.step = "latest" =>
       /\ p.usage.hasVersion /\ p.usage.ref \in Stored
       /\ \/ p.usage.status = "behind_latest"
          \/ p.usage.status = "deprecated_version" /\ version[p.usage.ref].deprecated

ReportOK(x) ==
  /\ x.knew \subseteq Stored
  /\ x.after <= Len(deployments) /\ x.reportedAt <= now
  /\ \A o \in Deployments : o <= x.after => deployments[o].reportedAt <= x.reportedAt
  /\ \A u \in x.usages : UsageOK(u, x.knew)
  /\ x.reading # Null => PartialOK(x.reading) /\ x.todo # <<>>

\* What every step preserves.
IInv == /\ Typed /\ VersionsOK
        /\ \A d \in Deployments : ReportOK(deployments[d])
        /\ \A r \in Reporters : report[r] # Null => ReportOK(report[r])

\* Nothing stored is lost: a version keeps its creation order and, once deprecated,
\* stays so; a deployment never changes.
VersionsKept ==
  \A mv \in Stored : /\ mv \in Stored'
                     /\ version'[mv].createdAt = version[mv].createdAt
                     /\ version[mv].deprecated => version'[mv].deprecated

DeploymentsKept ==
  /\ Len(deployments) <= Len(deployments')
  /\ \A d \in Deployments' : \/ d \in Deployments /\ deployments'[d] = deployments[d]
                             \/ d > Len(deployments)

-----------------------------------------------------------------------------
(* What a step leaves alone. *)

LEMMA UsageStable ==
  ASSUME VersionsKept, NEW u \in Usage, NEW knew, knew \subseteq Stored, UsageOK(u, knew)
  PROVE  UsageOK(u, knew)'
<1>1. \A mv \in Stored : /\ mv \in Stored' /\ version'[mv].createdAt = version[mv].createdAt
                         /\ version[mv].deprecated => version'[mv].deprecated
  BY DEF VersionsKept
<1>2. \A a, b \in Stored : Newer(a, b)' <=> Newer(a, b)
  BY <1>1 DEF Newer
<1>3. u.status = "up_to_date" => \A mv \in knew : mv[1] = u.ref[1] => ~Newer(mv, u.ref)'
  BY <1>2 DEF UsageOK
<1>4. u.status = "behind_latest" => \E mv \in Stored' : mv[1] = u.ref[1] /\ Newer(mv, u.ref)'
  BY <1>1, <1>2 DEF UsageOK
<1>5. u.status = "deprecated_version" => version'[u.ref].deprecated
  BY <1>1 DEF UsageOK
<1>6. u.status = "unknown_version" \/ u.ref \in Stored'
  BY <1>1 DEF UsageOK
<1> QED BY <1>3, <1>4, <1>5, <1>6 DEF UsageOK

LEMMA PartialStable ==
  ASSUME VersionsKept, NEW p \in Partial, PartialOK(p)
  PROVE  PartialOK(p)'
BY DEF VersionsKept, PartialOK

LEMMA ReportStable ==
  ASSUME Typed, Typed', VersionsKept, DeploymentsKept, now <= now', NEW x \in Report, ReportOK(x)
  PROVE  ReportOK(x)'
<1>1. /\ x.after \in Int /\ x.reportedAt \in Int /\ x.usages \subseteq Usage
      /\ x.reading # Null => x.reading \in Partial
  BY DEF Report
<1>2. /\ now \in Int /\ now' \in Int /\ Len(deployments) \in Int /\ Len(deployments') \in Int
      /\ \A d \in Deployments' : d \in Int
  BY DEF Typed, Deployments
<1>3. x.knew \subseteq Stored'
  BY DEF ReportOK, VersionsKept
<1>4. x.after <= Len(deployments') /\ x.reportedAt <= now'
  BY <1>1, <1>2 DEF ReportOK, DeploymentsKept
<1>5. \A o \in Deployments' : o <= x.after => deployments'[o].reportedAt <= x.reportedAt
  BY <1>1, <1>2 DEF ReportOK, DeploymentsKept
<1>6. \A u \in x.usages : UsageOK(u, x.knew)'
  BY <1>1, UsageStable DEF ReportOK
<1>7. x.reading # Null => PartialOK(x.reading)' /\ x.todo # <<>>
  BY <1>1, PartialStable DEF ReportOK
<1> QED BY <1>3, <1>4, <1>5, <1>6, <1>7 DEF ReportOK

\* A step that loses nothing.
LEMMA Keeps ==
  ASSUME IInv, Typed', VersionsOK', VersionsKept, DeploymentsKept, now <= now',
         \A d \in Deployments' : d \in Deployments \/ ReportOK(deployments[d])',
         \A r \in Reporters : report'[r] = report[r] \/ report'[r] = Null \/ ReportOK(report[r])'
  PROVE  IInv'
<1>1. \A x \in Report : ReportOK(x) => ReportOK(x)'
  BY ReportStable DEF IInv
<1>2. ASSUME NEW d \in Deployments' PROVE ReportOK(deployments[d])'
  <2>1. CASE d \in Deployments
    <3>1. deployments[d] \in Report /\ ReportOK(deployments[d]) /\ d \in Int /\ d <= Len(deployments) /\ Len(deployments) \in Int
      BY <2>1 DEF IInv, Typed, Deployments
    <3>2. deployments'[d] = deployments[d]
      BY <3>1 DEF DeploymentsKept
    <3>3. PICK x \in Report : x = deployments[d]
      BY <3>1
    <3>4. ReportOK(x)'
      BY <1>1, <3>1, <3>3
    <3> QED BY <3>2, <3>3, <3>4
  <2> QED BY <2>1
<1>3. ASSUME NEW r \in Reporters, report'[r] # Null PROVE ReportOK(report[r])'
  <2>1. CASE report'[r] = report[r]
    <3>1. report[r] \in Report /\ ReportOK(report[r])
      BY <1>3, <2>1 DEF IInv, Typed
    <3>2. PICK x \in Report : x = report[r]
      BY <3>1
    <3>3. ReportOK(x)'
      BY <1>1, <3>1, <3>2
    <3> QED BY <2>1, <3>2, <3>3
  <2> QED BY <1>3, <2>1
<1> QED BY <1>2, <1>3 DEF IInv

-----------------------------------------------------------------------------
(* The initial state and the steps of the registry. *)

LEMMA InvInit == Init => IInv
<1> SUFFICES ASSUME Init PROVE IInv
  OBVIOUS
<1>1. Stored = {} /\ Deployments = {}
  BY DEF Init, Stored, Deployments
<1>2. Typed
  BY RuntimeAssumption DEF Init, Typed
<1>3. VersionsOK
  BY <1>1 DEF VersionsOK
<1>4. \A r \in Reporters : report[r] = Null
  BY DEF Init
<1> QED BY <1>1, <1>2, <1>3, <1>4 DEF IInv

\* What holds when the tables are the same.
LEMMA Same ==
  ASSUME Typed
  PROVE  /\ UNCHANGED version => Stored' = Stored /\ VersionsKept
         /\ UNCHANGED deployments => Deployments' = Deployments /\ DeploymentsKept
         /\ UNCHANGED now => now <= now'
<1>1. UNCHANGED version => Stored' = Stored /\ VersionsKept
  BY DEF Stored, VersionsKept
<1>2. UNCHANGED deployments => Deployments' = Deployments
  BY DEF Deployments
<1>3. Len(deployments) \in Int /\ now \in Int
  BY DEF Typed
<1> QED BY <1>1, <1>2, <1>3 DEF DeploymentsKept

LEMMA InvCreateModule ==
  ASSUME IInv, NEW m \in Modules, CreateModule(m)
  PROVE  IInv'
<1>1. /\ modules' = modules \cup {m} /\ UNCHANGED <<version, deployments, outbox, now, report>>
  BY DEF CreateModule, inventory
<1>2. Typed'
  BY <1>1 DEF IInv, Typed
<1>3. /\ Stored' = Stored /\ VersionsKept /\ Deployments' = Deployments /\ DeploymentsKept /\ now <= now'
  BY <1>1, Same DEF IInv
<1>4. VersionsOK'
  BY <1>1, <1>3 DEF IInv, VersionsOK
<1> QED BY <1>1, <1>2, <1>3, <1>4, Keeps

LEMMA InvPublish ==
  ASSUME IInv, NEW mv \in MV, NEW t \in 1 .. Cardinality(MV), Publish(mv, t)
  PROVE  IInv'
<1> DEFINE row == [createdAt |-> t, deprecated |-> FALSE]
<1>1. /\ mv[1] \in modules /\ mv \notin Stored /\ version' = [version EXCEPT ![mv] = row]
      /\ \A other \in Stored : version[other].createdAt # t
      /\ UNCHANGED <<modules, deployments, outbox, now, report>>
  BY DEF Publish, inventory
<1>2. row \in VersionRow /\ row.createdAt = t
  BY DEF VersionRow
<1> HIDE DEF row
<1>3. row # Null /\ version \in [MV -> VersionRow \cup {Null}]
  BY <1>2, RuntimeAssumption DEF IInv, Typed
<1>4. /\ version' \in [MV -> VersionRow \cup {Null}] /\ version'[mv] = row
      /\ \A o \in MV : o # mv => version'[o] = version[o]
  BY <1>1, <1>2, <1>3
<1>5. Stored' = Stored \cup {mv}
  BY <1>3, <1>4 DEF Stored
<1>6. Typed'
  BY <1>1, <1>4 DEF IInv, Typed
<1>7. \A o \in Stored : o # mv /\ o \in MV /\ version'[o] = version[o]
  BY <1>1, <1>4 DEF Stored
<1>8. VersionsKept
  BY <1>5, <1>7 DEF VersionsKept
<1>9. VersionsOK'
  <2>1. \A o \in Stored' : o[1] \in modules'
    BY <1>1, <1>5 DEF IInv, VersionsOK
  <2>2. \A a, b \in Stored' : version'[a].createdAt = version'[b].createdAt => a = b
    BY <1>1, <1>2, <1>4, <1>5, <1>7 DEF IInv, VersionsOK
  <2> QED BY <2>1, <2>2 DEF VersionsOK
<1>10. Deployments' = Deployments /\ DeploymentsKept /\ now <= now'
  BY <1>1, Same DEF IInv
<1> QED BY <1>1, <1>6, <1>8, <1>9, <1>10, Keeps

LEMMA InvDeprecate ==
  ASSUME IInv, NEW mv \in MV, Deprecate(mv)
  PROVE  IInv'
<1> DEFINE row == [version[mv] EXCEPT !.deprecated = TRUE]
<1>1. /\ mv \in Stored /\ version' = [version EXCEPT ![mv] = row]
      /\ UNCHANGED <<modules, deployments, outbox, now, report>>
  BY DEF Deprecate, inventory
<1>2. version[mv] \in VersionRow
  BY <1>1 DEF IInv, Typed, Stored
<1>3. row \in VersionRow /\ row.createdAt = version[mv].createdAt /\ row.deprecated
  BY <1>2 DEF VersionRow
<1> HIDE DEF row
<1>4. row # Null /\ version \in [MV -> VersionRow \cup {Null}]
  BY <1>3, RuntimeAssumption DEF IInv, Typed
<1>5. /\ version' \in [MV -> VersionRow \cup {Null}] /\ version'[mv] = row
      /\ \A o \in MV : o # mv => version'[o] = version[o]
  BY <1>1, <1>3, <1>4
<1>6. Stored' = Stored
  BY <1>1, <1>4, <1>5 DEF Stored
<1>7. Typed'
  BY <1>1, <1>5 DEF IInv, Typed
<1>8. \A o \in Stored : o \in MV /\ version'[o].createdAt = version[o].createdAt
  BY <1>3, <1>5 DEF Stored
<1>9. \A o \in Stored : version[o].deprecated => version'[o].deprecated
  BY <1>3, <1>5, <1>8
<1>10. VersionsKept
  BY <1>6, <1>8, <1>9 DEF VersionsKept
<1>11. VersionsOK'
  BY <1>1, <1>6, <1>8 DEF IInv, VersionsOK
<1>12. Deployments' = Deployments /\ DeploymentsKept /\ now <= now'
  BY <1>1, Same DEF IInv
<1> QED BY <1>1, <1>7, <1>10, <1>11, <1>12, Keeps

-----------------------------------------------------------------------------
(* The steps of a report. *)

\* A step of one report that stores nothing.
LEMMA ReportStep ==
  ASSUME IInv, NEW r \in Reporters, NEW x \in Report \cup {Null},
         report' = [report EXCEPT ![r] = x], now' \in now .. MaxTime,
         UNCHANGED <<modules, version, deployments, outbox>>,
         x = Null \/ ReportOK(x)'
  PROVE  IInv'
<1>1. now \in Int /\ now' \in 1 .. MaxTime /\ now <= now'
  BY RuntimeAssumption DEF IInv, Typed
<1>2. report' \in [Reporters -> Report \cup {Null}] /\ report'[r] = x
      /\ \A o \in Reporters : o # r => report'[o] = report[o]
  BY DEF IInv, Typed
<1>3. Typed'
  BY <1>1, <1>2 DEF IInv, Typed
<1>4. Stored' = Stored /\ VersionsKept /\ Deployments' = Deployments /\ DeploymentsKept
  BY Same DEF IInv
<1>5. VersionsOK'
  BY <1>4 DEF IInv, VersionsOK
<1>6. x = Null \/ ReportOK(report[r])'
  BY <1>2
<1> QED BY <1>1, <1>2, <1>3, <1>4, <1>5, <1>6, Keeps

LEMMA InvBeginReport ==
  ASSUME IInv, NEW r \in Reporters, NEW in \in Inputs, BeginReport(r, in)
  PROVE  IInv'
<1>1. PICK t, n, knew : t = now' /\ n = Len(deployments) /\ knew = Stored
  OBVIOUS
<1> DEFINE x == [service |-> in.service, environment |-> in.environment, reportedAt |-> t,
                 knew |-> knew, after |-> n, todo |-> in.refs, usages |-> {}, reading |-> Null]
<1>2. /\ now' \in now .. Min({now + 1, MaxTime})
      /\ report' = [report EXCEPT ![r] = x]
      /\ UNCHANGED <<modules, version, deployments, outbox>>
  BY <1>1 DEF BeginReport, registry, inventory
<1>3. /\ now \in Nat /\ MaxTime \in Nat /\ now <= MaxTime /\ n \in Nat /\ Typed
      /\ now \in Int /\ MaxTime \in Int /\ now + 1 \in Int
  BY <1>1, RuntimeAssumption DEF IInv, Typed
<1>4. Min({now + 1, MaxTime}) \in Int /\ Min({now + 1, MaxTime}) <= MaxTime
  BY <1>3 DEF Min
<1>5. now' \in now .. MaxTime /\ t \in Nat /\ now <= t
  BY <1>1, <1>2, <1>3, <1>4
<1>6. x \in Report
  BY <1>1, <1>3, <1>5, RuntimeAssumption DEF Report, Stored, MV
<1>7. Stored' = Stored /\ Deployments' = Deployments
  BY <1>2, <1>3, Same
<1>8. \A o \in Deployments : deployments[o].reportedAt <= t
  <2> TAKE o \in Deployments
  <2>1. deployments[o] \in Report /\ deployments[o].reportedAt <= now
    BY DEF IInv, Typed, ReportOK, Deployments
  <2>2. deployments[o].reportedAt \in Int
    BY <2>1 DEF Report
  <2> QED BY <1>3, <1>5, <2>1, <2>2
<1>9. /\ x.knew = knew /\ x.after = n /\ x.reportedAt = t /\ x.usages = {} /\ x.reading = Null
  OBVIOUS
<1> HIDE DEF x
<1>10. ReportOK(x)'
  BY <1>1, <1>2, <1>3, <1>5, <1>7, <1>8, <1>9 DEF ReportOK
<1> QED BY <1>2, <1>5, <1>6, <1>10, ReportStep

\* The report whose usage is found.
LEMMA ResolvedStep ==
  ASSUME IInv, NEW r \in Reporters, report[r] # Null, report[r].todo # <<>>,
         NEW u \in Usage, UsageOK(u, report[r].knew), Resolved(r, u),
         UNCHANGED <<modules, version, deployments, outbox, now>>
  PROVE  IInv'
<1>1. PICK old \in Report : old = report[r] /\ ReportOK(old)
  BY DEF IInv, Typed
<1>2. PICK us, todo : us = old.usages \cup {u} /\ todo = Tail(old.todo)
  OBVIOUS
<1> DEFINE x == [old EXCEPT !.usages = us, !.todo = todo, !.reading = Null]
<1>3. report' = [report EXCEPT ![r] = x]
  BY <1>1, <1>2 DEF Resolved
<1>4. us \in SUBSET Usage /\ todo \in Seq(MV)
  BY <1>1, <1>2 DEF Report
<1>5. /\ x.knew = old.knew /\ x.after = old.after /\ x.reportedAt = old.reportedAt
      /\ x.usages = us /\ x.reading = Null
  BY DEF Report
<1>6. x \in Report
  BY <1>4 DEF Report
<1> HIDE DEF x
<1>7. now' \in now .. MaxTime /\ Typed
  BY RuntimeAssumption DEF IInv, Typed
<1>8. Stored' = Stored /\ Deployments' = Deployments /\ VersionsKept
  BY <1>7, Same
<1>9. \A w \in us : UsageOK(w, old.knew)'
  <2>1. old.knew \subseteq Stored
    BY <1>1 DEF ReportOK
  <2>2. \A w \in us : w \in Usage /\ UsageOK(w, old.knew)
    BY <1>1, <1>2, <1>4 DEF ReportOK
  <2> QED BY <1>8, <2>1, <2>2, UsageStable
<1>10. ReportOK(x)'
  BY <1>1, <1>5, <1>8, <1>9 DEF ReportOK
<1> QED BY <1>3, <1>6, <1>7, <1>10, ReportStep

\* The report that goes on to its next statement.
LEMMA ContinueStep ==
  ASSUME IInv, NEW r \in Reporters, report[r] # Null, report[r].todo # <<>>,
         NEW u \in Usage, NEW step \in {"version", "latest"},
         PartialOK([usage |-> u, step |-> step]), Continue(r, u, step),
         UNCHANGED <<modules, version, deployments, outbox, now>>
  PROVE  IInv'
<1>1. PICK old \in Report : old = report[r] /\ ReportOK(old)
  BY DEF IInv, Typed
<1>2. PICK p : p = [usage |-> u, step |-> step]
  OBVIOUS
<1>3. p \in Partial
  BY <1>2 DEF Partial
<1> DEFINE x == [old EXCEPT !.reading = p]
<1>4. report' = [report EXCEPT ![r] = x]
  BY <1>1, <1>2 DEF Continue
<1>5. /\ x.knew = old.knew /\ x.after = old.after /\ x.reportedAt = old.reportedAt
      /\ x.usages = old.usages /\ x.reading = p /\ x.todo = old.todo
  BY DEF Report
<1>6. x \in Report
  BY <1>3 DEF Report
<1> HIDE DEF x
<1>7. now' \in now .. MaxTime /\ Typed
  BY RuntimeAssumption DEF IInv, Typed
<1>8. Stored' = Stored /\ Deployments' = Deployments /\ VersionsKept
  BY <1>7, Same
<1>9. PartialOK(p)'
  BY <1>2, <1>3, <1>8, PartialStable
<1>10. \A u2 \in old.usages : UsageOK(u2, old.knew)'
  BY <1>1, <1>8, UsageStable DEF ReportOK, Report
<1>11. ReportOK(x)'
  BY <1>1, <1>5, <1>8, <1>9, <1>10 DEF ReportOK
<1> QED BY <1>4, <1>6, <1>7, <1>11, ReportStep

LEMMA InvResolveModule ==
  ASSUME IInv, NEW r \in Reporters, ResolveModule(r)
  PROVE  IInv'
<1>1. /\ report[r] # Null /\ report[r].todo # <<>>
      /\ UNCHANGED <<modules, version, deployments, outbox, now>>
  BY DEF ResolveModule, registry, inventory
<1>2. report[r] \in Report /\ ReportOK(report[r])
  BY <1>1 DEF IInv, Typed
<1>3. report[r].todo \in Seq(MV) /\ report[r].knew \subseteq Stored
  BY <1>2 DEF Report, ReportOK
<1>4. PICK mv \in MV : mv = Head(report[r].todo)
  BY <1>1, <1>3
<1>5. NotFound(mv) = [ref |-> mv, hasModule |-> FALSE, hasVersion |-> FALSE, status |-> "unknown_version"]
  BY DEF NotFound
<1>6. CASE mv[1] \in modules
  <2>1. PICK nothing, u : /\ nothing = NotFound(mv) /\ nothing \in Usage
                         /\ u = [nothing EXCEPT !.hasModule = TRUE]
    <3>1. NotFound(mv) \in Usage
      BY <1>5 DEF Usage, Status
    <3> QED BY <3>1
  <2>2. u \in Usage
    BY <2>1 DEF Usage
  <2>3. u.hasModule /\ u.hasVersion = FALSE /\ u.status = "unknown_version"
    BY <1>5, <2>1 DEF Usage
  <2>4. Continue(r, u, "version")
    BY <1>4, <1>6, <2>1 DEF ResolveModule
  <2>5. PartialOK([usage |-> u, step |-> "version"])
    BY <2>3 DEF PartialOK
  <2> QED BY <1>1, <2>2, <2>4, <2>5, ContinueStep
<1>7. CASE mv[1] \notin modules
  <2>1. PICK u : u = NotFound(mv)
    OBVIOUS
  <2>2. u \in Usage
    BY <1>5, <2>1 DEF Usage, Status
  <2>3. mv \notin Stored
    BY <1>7 DEF IInv, VersionsOK
  <2>4. UsageOK(u, report[r].knew)
    <3>1. u.ref = mv /\ u.status = "unknown_version" /\ u.hasVersion = FALSE
      BY <1>5, <2>1
    <3> QED BY <1>3, <2>3, <3>1 DEF UsageOK
  <2>5. Resolved(r, u)
    BY <1>4, <1>7, <2>1 DEF ResolveModule
  <2> QED BY <1>1, <2>2, <2>4, <2>5, ResolvedStep
<1> QED BY <1>6, <1>7

\* The usage that a report is reading.
LEMMA ReadingShape ==
  ASSUME IInv, NEW r \in Reporters, NEW step, Reading(r, step)
  PROVE  /\ report[r] # Null /\ report[r].todo # <<>> /\ report[r].knew \subseteq Stored
         /\ report[r].reading.usage \in Usage /\ PartialOK(report[r].reading)
         /\ report[r].reading.step = step
<1>1. report[r] # Null /\ report[r].reading # Null /\ report[r].reading.step = step
  BY DEF Reading
<1>2. report[r] \in Report /\ ReportOK(report[r])
  BY <1>1 DEF IInv, Typed
<1>3. report[r].reading \in Partial
  BY <1>1, <1>2 DEF Report
<1> QED BY <1>1, <1>2, <1>3 DEF ReportOK, Partial

LEMMA InvResolveVersion ==
  ASSUME IInv, NEW r \in Reporters, ResolveVersion(r)
  PROVE  IInv'
<1>1. Reading(r, "version") /\ UNCHANGED <<modules, version, deployments, outbox, now>>
  BY DEF ResolveVersion, registry, inventory
<1>2. PICK usage \in Usage : usage = report[r].reading.usage
  BY <1>1, ReadingShape
<1>3. /\ report[r] # Null /\ report[r].todo # <<>> /\ report[r].knew \subseteq Stored
      /\ usage.hasModule /\ ~usage.hasVersion /\ usage.status = "unknown_version"
  BY <1>1, <1>2, ReadingShape DEF PartialOK
<1>4. CASE usage.ref \in Stored
  <2>1. PICK status : status = IF version[usage.ref].deprecated THEN "deprecated_version" ELSE "behind_latest"
    OBVIOUS
  <2>2. PICK u : u = [usage EXCEPT !.hasVersion = TRUE, !.status = status]
    OBVIOUS
  <2>3. Continue(r, u, "latest")
    BY <1>2, <1>4, <2>1, <2>2 DEF ResolveVersion
  <2>4. status \in Status
    BY <2>1 DEF Status
  <2>5. u \in Usage /\ u.ref = usage.ref /\ u.hasVersion /\ u.hasModule /\ u.status = status
    BY <1>3, <2>2, <2>4 DEF Usage
  <2>6. PartialOK([usage |-> u, step |-> "latest"])
    BY <1>4, <2>1, <2>5 DEF PartialOK
  <2> QED BY <1>1, <1>3, <2>3, <2>5, <2>6, ContinueStep
<1>5. CASE usage.ref \notin Stored
  <2>1. Resolved(r, usage)
    BY <1>2, <1>5 DEF ResolveVersion
  <2>2. UsageOK(usage, report[r].knew)
    BY <1>3, <1>5 DEF UsageOK
  <2> QED BY <1>1, <1>3, <2>1, <2>2, ResolvedStep
<1> QED BY <1>4, <1>5

\* A version that is not the latest has a newer one beside it.
LEMMA NotLatest ==
  ASSUME IInv, NEW mv \in Stored, GetLatestByModule(mv[1]) # {mv}
  PROVE  \E o \in Stored : o[1] = mv[1] /\ Newer(o, mv)
<1> SUFFICES ASSUME \A o \in Stored : o[1] = mv[1] => ~Newer(o, mv) PROVE FALSE
  OBVIOUS
<1>1. mv \in GetLatestByModule(mv[1])
  BY DEF GetLatestByModule, NewestOf, VersionsOf
<1>2. PICK o \in GetLatestByModule(mv[1]) : o # mv
  BY <1>1
<1>3. o \in Stored /\ ~Newer(mv, o) /\ ~Newer(o, mv)
  BY <1>2 DEF GetLatestByModule, NewestOf, VersionsOf
<1>4. version[o] \in VersionRow /\ version[mv] \in VersionRow
  BY <1>3 DEF IInv, Typed, Stored
<1>5. version[o].createdAt \in Int /\ version[mv].createdAt \in Int
  BY <1>4 DEF VersionRow
<1>6. version[o].createdAt = version[mv].createdAt
  BY <1>3, <1>5 DEF Newer
<1> QED BY <1>2, <1>3, <1>6 DEF IInv, VersionsOK

LEMMA InvResolveLatest ==
  ASSUME IInv, NEW r \in Reporters, ResolveLatest(r)
  PROVE  IInv'
<1>1. Reading(r, "latest") /\ UNCHANGED <<modules, version, deployments, outbox, now>>
  BY DEF ResolveLatest, registry, inventory
<1>2. PICK usage \in Usage : usage = report[r].reading.usage
  BY <1>1, ReadingShape
<1>3. /\ report[r] # Null /\ report[r].todo # <<>> /\ report[r].knew \subseteq Stored
      /\ usage.hasModule /\ usage.hasVersion /\ usage.ref \in Stored
      /\ \/ usage.status = "behind_latest"
         \/ usage.status = "deprecated_version" /\ version[usage.ref].deprecated
  BY <1>1, <1>2, ReadingShape DEF PartialOK
<1>4. PICK latest : latest = GetLatestByModule(usage.ref[1])
  OBVIOUS
<1>5. PICK status : status = IF usage.status = "behind_latest" /\ latest = {usage.ref}
                             THEN "up_to_date" ELSE usage.status
  OBVIOUS
<1>6. PICK u : u = [usage EXCEPT !.status = status]
  OBVIOUS
<1>7. Resolved(r, u)
  BY <1>2, <1>4, <1>5, <1>6 DEF ResolveLatest
<1>8. status \in Status
  BY <1>3, <1>5 DEF Status
<1>9. u \in Usage /\ u.ref = usage.ref /\ u.hasVersion /\ u.hasModule /\ u.status = status
  BY <1>3, <1>6, <1>8 DEF Usage
<1>10. UsageOK(u, report[r].knew)
  <2>1. status = "up_to_date" => \A mv \in report[r].knew : mv[1] = u.ref[1] => ~Newer(mv, u.ref)
    BY <1>3, <1>4, <1>5, <1>9 DEF GetLatestByModule, NewestOf, VersionsOf
  <2>2. status = "behind_latest" => \E mv \in Stored : mv[1] = u.ref[1] /\ Newer(mv, u.ref)
    BY <1>3, <1>4, <1>5, <1>9, NotLatest
  <2>3. status # "unknown_version" /\ (status = "deprecated_version" => version[u.ref].deprecated)
    BY <1>3, <1>5, <1>9
  <2> QED BY <1>3, <1>9, <2>1, <2>2, <2>3 DEF UsageOK
<1> QED BY <1>1, <1>3, <1>7, <1>9, <1>10, ResolvedStep

LEMMA InvAbortReport ==
  ASSUME IInv, NEW r \in Reporters, AbortReport(r)
  PROVE  IInv'
<1>1. report' = [report EXCEPT ![r] = Null] /\ UNCHANGED <<modules, version, deployments, outbox, now>>
  BY DEF AbortReport, registry, inventory
<1>2. now' \in now .. MaxTime
  BY <1>1, RuntimeAssumption DEF IInv, Typed
<1> QED BY <1>1, <1>2, ReportStep

LEMMA InvCommitReport ==
  ASSUME IInv, NEW r \in Reporters, CommitReport(r)
  PROVE  IInv'
<1>1. PICK x \in Report : x = report[r] /\ ReportOK(x)
  BY DEF CommitReport, IInv, Typed
<1>2. PICK counts \in Counts : counts = DriftCounts(report[r].usages)
  BY <1>1 DEF Report, Counts
<1>3. /\ Len(deployments) < MaxDeployments
      /\ deployments' = Append(deployments, x) /\ outbox' = Append(outbox, counts)
      /\ report' = [report EXCEPT ![r] = Null] /\ UNCHANGED <<modules, version, now>>
  BY <1>1, <1>2 DEF CommitReport, registry
<1>4. deployments \in Seq(Report) /\ outbox \in Seq(Counts) /\ Len(outbox) = Len(deployments) /\ Typed
  BY DEF IInv, Typed
<1>5. /\ deployments' \in Seq(Report) /\ Len(deployments') = Len(deployments) + 1
      /\ outbox' \in Seq(Counts) /\ Len(outbox') = Len(outbox) + 1
  BY <1>3, <1>4
<1>6. report' \in [Reporters -> Report \cup {Null}] /\ report'[r] = Null
      /\ \A o \in Reporters : o # r => report'[o] = report[o]
  BY <1>3 DEF IInv, Typed
<1>7. Typed'
  <2>1. Len(deployments') <= MaxDeployments
    BY <1>3, <1>4, <1>5, RuntimeAssumption
  <2> QED BY <1>3, <1>4, <1>5, <1>6, <2>1 DEF Typed
<1>8. \A d \in Deployments' : \/ d \in Deployments /\ deployments'[d] = deployments[d]
                              \/ d = Len(deployments) + 1 /\ deployments'[d] = x
  <2> TAKE d \in Deployments'
  <2>1. d \in 1 .. Len(deployments) + 1 /\ Len(deployments) \in Nat
    BY <1>4, <1>5 DEF Deployments
  <2>2. CASE d = Len(deployments) + 1
    BY <1>3, <1>4, <2>2
  <2>3. CASE d # Len(deployments) + 1
    <3>1. d \in 1 .. Len(deployments)
      BY <2>1, <2>3
    <3> QED BY <1>3, <1>4, <3>1 DEF Deployments
  <2> QED BY <2>2, <2>3
<1>9. DeploymentsKept
  BY <1>4, <1>5, <1>8 DEF DeploymentsKept
<1>10. Stored' = Stored /\ VersionsKept /\ now <= now'
  BY <1>3, <1>4, Same
<1>11. VersionsOK'
  BY <1>3, <1>10 DEF IInv, VersionsOK
<1>12. ReportOK(x)'
  BY <1>1, <1>4, <1>7, <1>9, <1>10, ReportStable
<1>13. \A d \in Deployments' : d \in Deployments \/ ReportOK(deployments[d])'
  BY <1>8, <1>12
<1> QED BY <1>6, <1>7, <1>9, <1>10, <1>11, <1>13, Keeps

LEMMA Stutter ==
  ASSUME IInv, UNCHANGED vars
  PROVE  IInv'
<1>1. UNCHANGED <<modules, version, deployments, outbox, now, report>>
  BY DEF vars, registry, inventory
<1>2. Typed' /\ Typed
  BY <1>1 DEF IInv, Typed
<1>3. Stored' = Stored /\ VersionsKept /\ Deployments' = Deployments /\ DeploymentsKept /\ now <= now'
  BY <1>1, <1>2, Same
<1>4. VersionsOK'
  BY <1>1, <1>3 DEF IInv, VersionsOK
<1> QED BY <1>1, <1>2, <1>3, <1>4, Keeps

\* Every step is one of the actions.
LEMMA InvNext ==
  ASSUME IInv, [Next]_vars
  PROVE  IInv'
<1>1. ASSUME NEW m \in Modules, CreateModule(m) PROVE IInv'
  BY <1>1, InvCreateModule
<1>2. ASSUME NEW mv \in MV, NEW t \in 1 .. Cardinality(MV), Publish(mv, t) PROVE IInv'
  BY <1>2, InvPublish
<1>3. ASSUME NEW mv \in MV, Deprecate(mv) PROVE IInv'
  BY <1>3, InvDeprecate
<1>4. ASSUME NEW r \in Reporters, NEW in \in Inputs, BeginReport(r, in) PROVE IInv'
  BY <1>4, InvBeginReport
<1>5. ASSUME NEW r \in Reporters, ResolveModule(r) PROVE IInv'
  BY <1>5, InvResolveModule
<1>6. ASSUME NEW r \in Reporters, ResolveVersion(r) PROVE IInv'
  BY <1>6, InvResolveVersion
<1>7. ASSUME NEW r \in Reporters, ResolveLatest(r) PROVE IInv'
  BY <1>7, InvResolveLatest
<1>8. ASSUME NEW r \in Reporters, CommitReport(r) PROVE IInv'
  BY <1>8, InvCommitReport
<1>9. ASSUME NEW r \in Reporters, AbortReport(r) PROVE IInv'
  BY <1>9, InvAbortReport
<1>10. CASE UNCHANGED vars
  BY <1>10, Stutter
<1> QED BY <1>1, <1>2, <1>3, <1>4, <1>5, <1>6, <1>7, <1>8, <1>9, <1>10 DEF Next

-----------------------------------------------------------------------------
(* What the invariant says. *)

LEMMA Truthful ==
  ASSUME IInv PROVE DriftTruthful
<1>1. ASSUME NEW d \in Deployments, NEW u \in deployments[d].usages
      PROVE  u \in Usage /\ UsageOK(u, deployments[d].knew)
  <2>1. deployments[d] \in Report /\ ReportOK(deployments[d])
    BY DEF IInv, Typed, Deployments
  <2> QED BY <2>1 DEF Report, ReportOK
<1>2. ASSUME NEW d \in Deployments, NEW u \in deployments[d].usages
      PROVE  CASE u.status = "unknown_version" -> u.ref \notin deployments[d].knew
               [] u.status = "deprecated_version" -> version[u.ref].deprecated
               [] u.status = "up_to_date" -> \A mv \in deployments[d].knew : mv[1] = u.ref[1] => ~Newer(mv, u.ref)
               [] u.status = "behind_latest" -> \E mv \in VersionsOf(u.ref[1]) : Newer(mv, u.ref)
  <2>1. u.status \in Status /\ UsageOK(u, deployments[d].knew)
    BY <1>1 DEF Usage
  <2>2. CASE u.status = "unknown_version"
    BY <2>1, <2>2 DEF UsageOK
  <2>3. CASE u.status = "deprecated_version"
    BY <2>1, <2>3 DEF UsageOK
  <2>4. CASE u.status = "up_to_date"
    BY <2>1, <2>4 DEF UsageOK
  <2>5. CASE u.status = "behind_latest"
    BY <2>1, <2>5 DEF UsageOK, VersionsOf
  <2> QED BY <2>1, <2>2, <2>3, <2>4, <2>5 DEF Status
<1>3. ASSUME NEW m \in modules, NEW x \in GetModuleRuntimeUsages(m), x.usage.status = "behind_latest"
      PROVE  x.usage.ref \notin GetLatestByModule(m)
  <2>1. PICK d \in Deployments : \E u \in deployments[d].usages : x = [deployment |-> d, usage |-> u]
    BY DEF GetModuleRuntimeUsages, AllUsages, Usages
  <2>2. x.usage \in deployments[d].usages /\ x.usage.ref[1] = m
    BY <2>1 DEF GetModuleRuntimeUsages
  <2>3. \E mv \in Stored : mv[1] = m /\ Newer(mv, x.usage.ref)
    BY <1>1, <1>3, <2>2 DEF UsageOK
  <2> QED BY <2>3 DEF GetLatestByModule, NewestOf, VersionsOf
<1> QED BY <1>2, <1>3 DEF DriftTruthful

LEMMA Listed ==
  ASSUME IInv PROVE ReportedStaysListed
<1> SUFFICES ASSUME NEW d \in Deployments, NEW x \in Usages(d), x.usage.ref \in deployments[d].knew
             PROVE  x \in RuntimeImpact(x.usage.ref) /\ x \in GetModuleRuntimeUsages(x.usage.ref[1])
  BY DEF ReportedStaysListed
<1>1. PICK u \in deployments[d].usages : x = [deployment |-> d, usage |-> u]
  BY DEF Usages
<1>2. x.usage = u /\ x \in AllUsages
  BY <1>1 DEF AllUsages
<1>3. u.hasModule /\ u.hasVersion
  BY <1>2 DEF IInv, ReportOK, UsageOK
<1> QED BY <1>2, <1>3 DEF RuntimeImpact, GetModuleRuntimeUsages

LEMMA LatestFollows ==
  ASSUME IInv PROVE LatestFollowsReports
<1>1. ASSUME NEW s \in Services, NEW e \in Environments, NEW reports,
             reports = DeploymentsOf(s) \cap DeploymentsIn(e),
             NEW d \in reports, NEW o \in Latest(reports), o <= deployments[d].after
      PROVE  deployments[o].reportedAt = deployments[d].reportedAt
  <2>1. d \in Deployments /\ o \in Deployments /\ o \in reports
    BY <1>1 DEF DeploymentsOf, DeploymentsIn, Latest
  <2>2. deployments[o].reportedAt <= deployments[d].reportedAt
    BY <1>1, <2>1 DEF IInv, ReportOK
  <2>3. deployments[d].reportedAt <= deployments[o].reportedAt
    BY <1>1, <2>1 DEF Latest
  <2>4. deployments[o] \in Report /\ deployments[d] \in Report
    BY <2>1 DEF IInv, Typed, Deployments
  <2>5. deployments[o].reportedAt \in Int /\ deployments[d].reportedAt \in Int
    BY <2>4 DEF Report
  <2> QED BY <2>2, <2>3, <2>5
<1> QED BY <1>1 DEF LatestFollowsReports

LEMMA Types ==
  ASSUME IInv PROVE TypeOK
<1>1. Len(deployments) \in 0 .. MaxDeployments /\ Len(outbox) = Len(deployments)
  BY RuntimeAssumption DEF IInv, Typed
<1>2. ASSUME NEW d \in Deployments, NEW u \in deployments[d].usages
      PROVE  u.ref \in MV /\ u.status \in Status /\ (u.hasVersion => u.hasModule)
  <2>1. deployments[d] \in Report /\ ReportOK(deployments[d])
    BY DEF IInv, Typed, Deployments
  <2>2. u \in Usage /\ UsageOK(u, deployments[d].knew)
    BY <2>1 DEF Report, ReportOK
  <2> QED BY <2>2 DEF Usage, UsageOK
<1> QED BY <1>1, <1>2 DEF TypeOK, IInv, Typed, VersionsOK

-----------------------------------------------------------------------------
(* The counts of the service list.  A sum over a set is the fold of the       *)
(* community modules: the function that satisfies its recursion is exhibited, *)
(* as the size of a union of disjoint sets, and shown to be the only one.     *)

\* A nonempty set of natural numbers has a smallest element.
LEMMA Least ==
  ASSUME NEW T \in SUBSET Nat, T # {}
  PROVE  \E x \in T : \A y \in T : x <= y
<1>1. PICK x \in T : \A y \in T : ~(<<y, x>> \in OpToRel(<, Nat))
  BY NatLessThanWellFounded, WFMin
<1>2. ASSUME NEW y \in T, ~(x <= y) PROVE FALSE
  <2>1. y \in Nat /\ x \in Nat /\ y < x
    BY <1>2
  <2>2. <<y, x>> \in OpToRel(<, Nat)
    BY <2>1 DEF OpToRel
  <2> QED BY <2>2, <1>1
<1> QED BY <1>2

\* g adds up f over the subsets of D, taking the elements out as c chooses them.
AddsUp(D, c, f, g) ==
  \A T \in SUBSET D : /\ T # {} => c[T] \in T
                      /\ g[T] = IF T = {} THEN 0 ELSE f[c[T]] + g[T \ {c[T]}]

\* Two functions on the subsets of a finite set that add the same summand for the
\* same chosen element are equal.
LEMMA SumUnique ==
  ASSUME NEW D, IsFiniteSet(D), NEW c, NEW f, NEW g, NEW h,
         AddsUp(D, c, f, g), AddsUp(D, c, f, h)
  PROVE  g[D] = h[D]
<1> DEFINE Bad == {T \in SUBSET D : g[T] # h[T]}
           Sizes == {n \in Nat : \E T \in Bad : Cardinality(T) = n}
<1>1. \A T \in SUBSET D : IsFiniteSet(T) /\ Cardinality(T) \in Nat
  BY FS_Subset, FS_CardinalityType
<1>2. ASSUME NEW n \in Sizes, \A k \in Sizes : n <= k PROVE FALSE
  <2>1. PICK T \in Bad : Cardinality(T) = n
    OBVIOUS
  <2>2. T \in SUBSET D /\ g[T] # h[T]
    OBVIOUS
  <2>3. T # {}
    BY <2>2 DEF AddsUp
  <2>4. PICK x : x = c[T]
    OBVIOUS
  <2>5. x \in T
    BY <2>2, <2>3, <2>4 DEF AddsUp
  <2>6. g[T] = f[x] + g[T \ {x}] /\ h[T] = f[x] + h[T \ {x}]
    BY <2>2, <2>3, <2>4 DEF AddsUp
  <2>7. T \ {x} \in SUBSET D /\ Cardinality(T \ {x}) = n - 1 /\ Cardinality(T \ {x}) \in Nat
    BY <1>1, <2>1, <2>2, <2>5, FS_RemoveElement
  <2>8. g[T \ {x}] # h[T \ {x}]
    BY <2>2, <2>6
  <2>9. n - 1 \in Sizes
    BY <2>7, <2>8
  <2> QED BY <1>2, <2>9
<1>3. Sizes = {}
  <2>1. Sizes \in SUBSET Nat
    OBVIOUS
  <2> HIDE DEF Sizes
  <2> QED BY <1>2, <2>1, Least
<1>4. Bad = {}
  BY <1>1, <1>3
<1> QED BY <1>4

\* The values of a function on a finite set are finitely many.
LEMMA FiniteImage ==
  ASSUME NEW S, IsFiniteSet(S), NEW f
  PROVE  IsFiniteSet({f[x] : x \in S})
<1>1. PICK T : T = {f[x] : x \in S}
  OBVIOUS
<1>2. PICK g : g = [x \in S |-> f[x]]
  OBVIOUS
<1>3. g \in Surjection(S, T)
  BY <1>1, <1>2 DEF Surjection
<1> QED BY <1>1, <1>3, FS_Surjection

\* Two disjoint finite sets.
LEMMA SizeOfUnion ==
  ASSUME NEW A, NEW B, IsFiniteSet(A), IsFiniteSet(B), A \cap B = {}
  PROVE  IsFiniteSet(A \cup B) /\ Cardinality(A \cup B) = Cardinality(A) + Cardinality(B)
<1>1. Cardinality(A) \in Nat /\ Cardinality(B) \in Nat
  BY FS_CardinalityType
<1>2. Cardinality(A \cap B) = 0
  BY FS_EmptySet
<1>3. IsFiniteSet(A \cup B) /\ Cardinality(A \cup B) = Cardinality(A) + Cardinality(B) - Cardinality(A \cap B)
  BY FS_Union
<1> QED BY <1>1, <1>2, <1>3

\* What the events of the deployments in pick announce for a drift status.
AnnouncedSum(pick, status) == MapThenSumSet(LAMBDA e : outbox[pick[e]][status], DOMAIN pick)

\* The sum of the sizes of disjoint finite sets is the size of their union.
LEMMA SumOfSizes ==
  ASSUME NEW pick, NEW status, NEW U, IsFiniteSet(DOMAIN pick),
         \A e \in DOMAIN pick : IsFiniteSet(U[e]) /\ outbox[pick[e]][status] = Cardinality(U[e]),
         \A e, o \in DOMAIN pick : e # o => U[e] \cap U[o] = {}
  PROVE  AnnouncedSum(pick, status) = Cardinality(UNION {U[e] : e \in DOMAIN pick})
<1>1. PICK D : D = DOMAIN pick
  OBVIOUS
<1>2. PICK f : f = [e \in D |-> outbox[pick[e]][status]]
  OBVIOUS
<1> DEFINE F(h) == [T \in SUBSET D |->
                      IF T = {} THEN 0
                      ELSE LET x == CHOOSE y \in T : TRUE
                           IN outbox[pick[x]][status] + h[T \ {x}]]
           All(T) == UNION {U[e] : e \in T}
           g == [T \in SUBSET D |-> Cardinality(All(T))]
           it == CHOOSE h : h = F(h)
<1>3. \A T \in SUBSET D : IsFiniteSet(All(T)) /\ Cardinality(All(T)) \in Nat
  <2> TAKE T \in SUBSET D
  <2>1. IsFiniteSet(T)
    BY <1>1, FS_Subset
  <2>2. IsFiniteSet({U[e] : e \in T})
    BY <2>1, FiniteImage
  <2>3. \A X \in {U[e] : e \in T} : IsFiniteSet(X)
    BY <1>1
  <2>4. IsFiniteSet(All(T))
    BY <2>2, <2>3, FS_UNION
  <2> QED BY <2>4, FS_CardinalityType
<1>4. ASSUME NEW T \in SUBSET D, NEW x \in T
      PROVE  Cardinality(All(T)) = outbox[pick[x]][status] + Cardinality(All(T \ {x}))
  <2>1. All(T) = U[x] \cup All(T \ {x}) /\ U[x] \cap All(T \ {x}) = {}
    BY <1>1
  <2>2. T \ {x} \in SUBSET D /\ x \in D
    OBVIOUS
  <2>3. /\ IsFiniteSet(All(T \ {x})) /\ Cardinality(All(T \ {x})) \in Nat
        /\ IsFiniteSet(U[x]) /\ outbox[pick[x]][status] = Cardinality(U[x])
    BY <1>1, <1>3, <2>2
  <2> HIDE DEF All
  <2>4. PICK A, B : A = U[x] /\ B = All(T \ {x})
    OBVIOUS
  <2>5. Cardinality(A \cup B) = Cardinality(A) + Cardinality(B)
    BY <2>1, <2>3, <2>4, SizeOfUnion
  <2> QED BY <2>1, <2>3, <2>4, <2>5
<1>5. Cardinality(All({})) = 0
  BY FS_EmptySet
<1>6. g = F(g)
  <2> HIDE DEF All
  <2>1. ASSUME NEW T \in SUBSET D
        PROVE  g[T] = IF T = {} THEN 0
                      ELSE LET x == CHOOSE y \in T : TRUE
                           IN outbox[pick[x]][status] + g[T \ {x}]
    <3>1. CASE T = {}
      BY <1>5, <3>1
    <3>2. CASE T # {}
      <4>1. PICK x : x = CHOOSE y \in T : TRUE
        OBVIOUS
      <4>2. x \in T
        BY <3>2, <4>1
      <4>3. g[T] = outbox[pick[x]][status] + g[T \ {x}]
        BY <1>4, <4>2
      <4> QED BY <3>2, <4>1, <4>3
    <3> QED BY <3>1, <3>2
  <2> QED BY <2>1
<1>7. it = F(it)
  <2> HIDE DEF F, g
  <2> QED BY <1>6
<1>8. AnnouncedSum(pick, status) = it[D]
  BY <1>1 DEF AnnouncedSum, MapThenSumSet, MapThenFoldSet
<1>9. it[D] = g[D]
  <2>1. PICK j : j = it
    OBVIOUS
  <2>2. j = F(j)
    BY <1>7, <2>1
  <2>3. PICK c : c = [T \in SUBSET D |-> CHOOSE x \in T : TRUE]
    OBVIOUS
  <2>4. \A T \in SUBSET D : T # {} => c[T] \in T
    BY <2>3
  <2>5. AddsUp(D, c, f, j)
    <3>1. \A T \in SUBSET D : j[T] = IF T = {} THEN 0 ELSE f[c[T]] + j[T \ {c[T]}]
      BY <1>2, <2>2, <2>3, <2>4
    <3>2. \A T \in SUBSET D : /\ T # {} => c[T] \in T
                              /\ j[T] = IF T = {} THEN 0 ELSE f[c[T]] + j[T \ {c[T]}]
      BY <2>4, <3>1
    <3> QED BY <3>2, Zenon DEF AddsUp
  <2>6. PICK k : k = g /\ k = F(k)
    BY <1>6
  <2>7. AddsUp(D, c, f, k)
    <3> HIDE DEF g
    <3>1. \A T \in SUBSET D : k[T] = IF T = {} THEN 0 ELSE f[c[T]] + k[T \ {c[T]}]
      BY <1>2, <2>3, <2>4, <2>6
    <3>2. \A T \in SUBSET D : /\ T # {} => c[T] \in T
                              /\ k[T] = IF T = {} THEN 0 ELSE f[c[T]] + k[T \ {c[T]}]
      BY <2>4, <3>1
    <3> QED BY <3>2, Zenon DEF AddsUp
  <2> HIDE DEF g, F, it
  <2>8. j[D] = k[D]
    BY <1>1, <2>5, <2>7, SumUnique
  <2> QED BY <2>1, <2>6, <2>8
<1> QED BY <1>1, <1>8, <1>9

\* Each event carries the counts of the usages stored with it, and the usages of a
\* report are finitely many.
Announced ==
  /\ \A d \in Deployments : /\ IsFiniteSet(deployments[d].usages)
                            /\ outbox[d] = DriftCounts(deployments[d].usages)
  /\ \A r \in Reporters : report[r] # Null => IsFiniteSet(report[r].usages)

LEMMA AnnouncedInit == Init => Announced
<1> SUFFICES ASSUME Init PROVE Announced
  OBVIOUS
<1>1. Deployments = {} /\ \A r \in Reporters : report[r] = Null
  BY DEF Init, Deployments
<1> QED BY <1>1 DEF Announced

\* A step that stores nothing and leaves the usages of every report finite.
LEMMA AnnouncedKept ==
  ASSUME Announced, UNCHANGED <<deployments, outbox>>,
         \A r \in Reporters : report'[r] = report[r] \/ report'[r] = Null \/ IsFiniteSet(report'[r].usages)
  PROVE  Announced'
<1>1. Deployments' = Deployments
  BY DEF Deployments
<1>2. \A d \in Deployments' : /\ IsFiniteSet(deployments'[d].usages)
                              /\ outbox'[d] = DriftCounts(deployments'[d].usages)
  BY <1>1 DEF Announced
<1>3. \A r \in Reporters : report'[r] # Null => IsFiniteSet(report'[r].usages)
  BY DEF Announced
<1>4. \A d \in Deployments' : DriftCounts(deployments'[d].usages) = DriftCounts(deployments[d].usages)'
  BY DEF DriftCounts
<1> QED BY <1>2, <1>3, <1>4 DEF Announced

LEMMA AnnouncedResolved ==
  ASSUME IInv, Announced, NEW r \in Reporters, NEW u, report[r] # Null,
         Resolved(r, u), UNCHANGED <<deployments, outbox>>
  PROVE  Announced'
<1>1. report[r] \in Report /\ report \in [Reporters -> Report \cup {Null}]
  BY DEF IInv, Typed
<1>2. PICK us : us = report[r].usages
  OBVIOUS
<1>3. IsFiniteSet(us \cup {u})
  BY <1>2, FS_AddElement DEF Announced
<1>4. /\ report'[r].usages = us \cup {u}
      /\ \A o \in Reporters : o # r => report'[o] = report[o]
  BY <1>1, <1>2 DEF Resolved, Report
<1> QED BY <1>3, <1>4, AnnouncedKept

LEMMA AnnouncedContinue ==
  ASSUME IInv, Announced, NEW r \in Reporters, NEW u, NEW step, report[r] # Null,
         Continue(r, u, step), UNCHANGED <<deployments, outbox>>
  PROVE  Announced'
<1>1. report[r] \in Report /\ report \in [Reporters -> Report \cup {Null}]
  BY DEF IInv, Typed
<1>2. /\ report'[r].usages = report[r].usages
      /\ \A o \in Reporters : o # r => report'[o] = report[o]
  BY <1>1 DEF Continue, Report
<1>3. IsFiniteSet(report[r].usages)
  BY DEF Announced
<1> QED BY <1>2, <1>3, AnnouncedKept

LEMMA AnnouncedCommit ==
  ASSUME IInv, Announced, NEW r \in Reporters, CommitReport(r)
  PROVE  Announced'
<1>1. PICK x \in Report : x = report[r] /\ IsFiniteSet(x.usages)
  BY DEF CommitReport, IInv, Typed, Announced
<1>2. PICK counts \in Counts : counts = DriftCounts(x.usages)
  BY <1>1 DEF Report, Counts
<1>3. /\ deployments' = Append(deployments, x) /\ outbox' = Append(outbox, counts)
      /\ report' = [report EXCEPT ![r] = Null]
  BY <1>1, <1>2 DEF CommitReport
<1>4. deployments \in Seq(Report) /\ outbox \in Seq(Counts) /\ Len(outbox) = Len(deployments)
      /\ report \in [Reporters -> Report \cup {Null}]
  BY DEF IInv, Typed
<1>5. ASSUME NEW d \in Deployments'
      PROVE  \/ d \in Deployments /\ deployments'[d] = deployments[d] /\ outbox'[d] = outbox[d]
             \/ deployments'[d] = x /\ outbox'[d] = counts
  <2>1. d \in 1 .. Len(deployments) + 1 /\ Len(deployments) \in Nat
    BY <1>3, <1>4 DEF Deployments
  <2>2. CASE d = Len(deployments) + 1
    BY <1>3, <1>4, <2>2
  <2>3. CASE d # Len(deployments) + 1
    <3>1. d \in 1 .. Len(deployments)
      BY <2>1, <2>3
    <3> QED BY <1>3, <1>4, <3>1 DEF Deployments
  <2> QED BY <2>2, <2>3
<1>6. \A d \in Deployments' : /\ IsFiniteSet(deployments'[d].usages)
                              /\ outbox'[d] = DriftCounts(deployments'[d].usages)
  BY <1>1, <1>2, <1>5 DEF Announced
<1>7. \A o \in Reporters : report'[o] # Null => IsFiniteSet(report'[o].usages)
  BY <1>3, <1>4 DEF Announced
<1>8. \A d \in Deployments' : DriftCounts(deployments'[d].usages) = DriftCounts(deployments[d].usages)'
  BY DEF DriftCounts
<1> QED BY <1>6, <1>7, <1>8 DEF Announced

LEMMA AnnouncedNext ==
  ASSUME IInv, Announced, [Next]_vars
  PROVE  Announced'
<1>1. CASE \/ \E m \in Modules : CreateModule(m)
           \/ \E mv \in MV : (\E t \in 1 .. Cardinality(MV) : Publish(mv, t)) \/ Deprecate(mv)
           \/ UNCHANGED vars
  <2>1. UNCHANGED <<deployments, outbox, report>>
    BY <1>1 DEF CreateModule, Publish, Deprecate, vars, inventory
  <2> QED BY <2>1, AnnouncedKept
<1>2. ASSUME NEW r \in Reporters, NEW in \in Inputs, BeginReport(r, in) PROVE Announced'
  <2>1. /\ UNCHANGED <<deployments, outbox>> /\ report'[r].usages = {}
        /\ \A o \in Reporters : o # r => report'[o] = report[o]
    BY <1>2 DEF BeginReport, inventory, IInv, Typed
  <2> QED BY <2>1, AnnouncedKept, FS_EmptySet
<1>3. ASSUME NEW r \in Reporters, ResolveModule(r) PROVE Announced'
  <2>1. report[r] # Null /\ UNCHANGED <<deployments, outbox>>
    BY <1>3 DEF ResolveModule, inventory
  <2>2. (\E u : Resolved(r, u)) \/ (\E u, step : Continue(r, u, step))
    BY <1>3 DEF ResolveModule
  <2> QED BY <2>1, <2>2, AnnouncedResolved, AnnouncedContinue
<1>4. ASSUME NEW r \in Reporters, ResolveVersion(r) PROVE Announced'
  <2>1. report[r] # Null /\ UNCHANGED <<deployments, outbox>>
    BY <1>4 DEF ResolveVersion, Reading, inventory
  <2>2. (\E u : Resolved(r, u)) \/ (\E u, step : Continue(r, u, step))
    BY <1>4 DEF ResolveVersion
  <2> QED BY <2>1, <2>2, AnnouncedResolved, AnnouncedContinue
<1>5. ASSUME NEW r \in Reporters, ResolveLatest(r) PROVE Announced'
  <2>1. report[r] # Null /\ UNCHANGED <<deployments, outbox>>
    BY <1>5 DEF ResolveLatest, Reading, inventory
  <2>2. \E u : Resolved(r, u)
    BY <1>5 DEF ResolveLatest
  <2> QED BY <2>1, <2>2, AnnouncedResolved
<1>6. ASSUME NEW r \in Reporters, CommitReport(r) PROVE Announced'
  BY <1>6, AnnouncedCommit
<1>7. ASSUME NEW r \in Reporters, AbortReport(r) PROVE Announced'
  <2>1. /\ UNCHANGED <<deployments, outbox>> /\ report'[r] = Null
        /\ \A o \in Reporters : o # r => report'[o] = report[o]
    BY <1>7 DEF AbortReport, inventory, IInv, Typed
  <2> QED BY <2>1, AnnouncedKept
<1> QED BY <1>1, <1>2, <1>3, <1>4, <1>5, <1>6, <1>7 DEF Next

\* The rows of a deployment with one drift status are as many as its event says.
LEMMA RowsCounted ==
  ASSUME Announced, NEW d \in Deployments, NEW status \in Status,
         NEW rows, rows = {x \in Usages(d) : x.usage.status = status}
  PROVE  IsFiniteSet(rows) /\ outbox[d][status] = Cardinality(rows)
<1>1. PICK us : us = {u \in deployments[d].usages : u.status = status}
  OBVIOUS
<1>2. IsFiniteSet(us)
  BY <1>1, FS_Subset DEF Announced
<1>3. outbox[d][status] = Cardinality(us)
  BY <1>1 DEF Announced, DriftCounts
<1>4. PICK f : f = [u \in us |-> [deployment |-> d, usage |-> u]]
  OBVIOUS
<1>5. f \in Bijection(us, rows)
  <2>1. f \in [us -> rows]
    BY <1>1, <1>4 DEF Usages
  <2>2. \A a, b \in us : f[a] = f[b] => a = b
    BY <1>4
  <2>3. \A x \in rows : \E u \in us : f[u] = x
    BY <1>1, <1>4 DEF Usages
  <2>4. f \in Injection(us, rows)
    BY <2>1, <2>2 DEF Injection, IsInjective
  <2>5. f \in Surjection(us, rows)
    BY <2>1, <2>3 DEF Surjection
  <2> QED BY <2>4, <2>5 DEF Bijection
<1>6. ExistsBijection(us, rows)
  BY <1>5 DEF ExistsBijection
<1> QED BY <1>2, <1>3, <1>6, FS_Bijection

LEMMA Counted ==
  ASSUME IInv, Announced PROVE CountsAnnounced
<1> SUFFICES ASSUME NEW s \in Services, NEW pick \in LatestDeployments(s), NEW status \in Status
             PROVE  /\ SummaryCounts(s, pick)[status] = AnnouncedSum(pick, status)
                    /\ AnnouncedSum(pick, status) > 0 =>
                         \A e \in DOMAIN pick : s \in ListRuntimeServices(e, status)
  BY DEF CountsAnnounced, AnnouncedSum
<1>1. /\ DOMAIN pick = EnvironmentsOf(s)
      /\ \A e \in DOMAIN pick : pick[e] \in DeploymentsOf(s) /\ pick[e] \in DeploymentsIn(e)
  BY DEF LatestDeployments, Latest
<1>2. \A e \in DOMAIN pick : pick[e] \in Deployments /\ deployments[pick[e]].environment = e
  BY <1>1 DEF DeploymentsOf, DeploymentsIn
<1>3. IsFiniteSet(DOMAIN pick)
  <2>1. PICK f : f = [d \in DeploymentsOf(s) |-> deployments[d].environment]
    OBVIOUS
  <2>2. IsFiniteSet(DeploymentsOf(s))
    <3>1. Len(deployments) \in Nat /\ Deployments = 1 .. Len(deployments)
      BY DEF IInv, Typed, Deployments
    <3>2. IsFiniteSet(1 .. Len(deployments))
      BY <3>1, FS_Interval
    <3>3. DeploymentsOf(s) \subseteq 1 .. Len(deployments)
      BY <3>1 DEF DeploymentsOf
    <3> QED BY <3>2, <3>3, FS_Subset
  <2>3. {f[d] : d \in DeploymentsOf(s)} = DOMAIN pick
    BY <1>1, <2>1 DEF EnvironmentsOf
  <2> QED BY <2>2, <2>3, FiniteImage
<1>4. PICK U : U = [e \in DOMAIN pick |-> {x \in Usages(pick[e]) : x.usage.status = status}]
  OBVIOUS
<1>5. \A e \in DOMAIN pick : IsFiniteSet(U[e]) /\ outbox[pick[e]][status] = Cardinality(U[e])
  BY <1>2, <1>4, RowsCounted
<1>6. \A e, o \in DOMAIN pick : e # o => U[e] \cap U[o] = {}
  <2>1. \A e \in DOMAIN pick : \A x \in U[e] : x.deployment = pick[e]
    BY <1>4 DEF Usages
  <2> QED BY <1>2, <2>1
<1>7. SummaryCounts(s, pick)[status] = Cardinality(UNION {U[e] : e \in DOMAIN pick})
  <2>1. {x \in UNION {Usages(pick[e]) : e \in DOMAIN pick} : x.usage.status = status}
          = UNION {U[e] : e \in DOMAIN pick}
    BY <1>4
  <2> QED BY <2>1 DEF SummaryCounts, CountByStatus
<1>8. SummaryCounts(s, pick)[status] = AnnouncedSum(pick, status)
  BY <1>3, <1>5, <1>6, <1>7, SumOfSizes
<1>9. ASSUME SummaryCounts(s, pick)[status] > 0, NEW e \in DOMAIN pick
      PROVE  s \in ListRuntimeServices(e, status)
  BY <1>1, <1>9 DEF ListRuntimeServices
<1> QED BY <1>8, <1>9

-----------------------------------------------------------------------------
(* The theorems. *)

\* The strengthening holds whatever reports, publishes and deprecations interleave
\* (runtimeinventory/service.go, postgres/runtime_inventory.go).
THEOREM Invariant == Spec => []IInv
<1>1. Init => IInv
  BY InvInit
<1>2. IInv /\ [Next]_vars => IInv'
  BY InvNext
<1> QED BY <1>1, <1>2, PTL DEF Spec

\* The inventory keeps its shape: one outbox record for each deployment, a status
\* for each usage, a version only with its module (CreateRuntimeModuleUsages).
THEOREM TypeCorrect == Spec => []TypeOK
<1>1. IInv => TypeOK
  BY Types
<1> QED BY <1>1, Invariant, PTL

\* For any number of modules, versions and reports, the drift that a report stores
\* was true at a moment of the report, and the module page never contradicts it
\* (resolveRuntimeUsage, runtimeinventory/service.go:248-306).
THEOREM DriftIsTruthful == Spec => []DriftTruthful
<1>1. IInv => DriftTruthful
  BY Truthful
<1> QED BY <1>1, Invariant, PTL

\* A reported version that was stored stays in the lists of its module and of the
\* version (runtime_inventory.go:200-263).
THEOREM ReportedIsListed == Spec => []ReportedStaysListed
<1>1. IInv => ReportedStaysListed
  BY Listed
<1> QED BY <1>1, Invariant, PTL

\* The latest report of a service in an environment is one that no other followed,
\* but for equal readings of the clock (ReportRuntimeInventory, service.go:72-124).
THEOREM LatestIsLast == Spec => []LatestFollowsReports
<1>1. IInv => LatestFollowsReports
  BY LatestFollows
<1> QED BY <1>1, Invariant, PTL

\* For any number of environments and reports, the drift counts of the service list
\* are those that the events of the latest deployments announced, and a service is
\* found by every drift status among them; what was reported stays listed
\* (ListRuntimeServices, runtime_inventory.go:102-158).
THEOREM SummaryIsAnnounced == Spec => []SummaryAnnounced
<1>1. Init => Announced
  BY AnnouncedInit
<1>2. IInv /\ Announced /\ [Next]_vars => Announced'
  BY AnnouncedNext
<1>3. Spec => []Announced
  BY <1>1, <1>2, Invariant, PTL DEF Spec
<1>4. IInv /\ Announced => SummaryAnnounced
  BY Counted, Listed DEF SummaryAnnounced
<1> QED BY <1>3, <1>4, Invariant, PTL

=============================================================================

--------------------------- MODULE RegistryProofs ---------------------------
(***************************************************************************)
(* Proofs about Registry for every number of calls, modules, versions,     *)
(* sources, projects and faults.                                           *)
(***************************************************************************)
EXTENDS Registry, TLAPS

-----------------------------------------------------------------------------
(* The strengthening of the safety properties that the steps preserve. *)

Input == PublishInput \cup VersionInput \cup LinkInput

Place == {"idle", "source", "image", "commit", "cleanup", "deprecate", "baseline", "check", "done"}

\* The keys the code can build.
Key == {SourceKey(m, v, s) : m \in Modules, v \in Versions, s \in Sources}
         \cup {ImageKey(m, v, s) : m \in Modules, v \in Versions, s \in Sources}

Typed ==
  /\ modules \subseteq Modules
  /\ version \in [Modules -> [Versions -> Row]]
  /\ link \in [Modules -> Projects \cup {Null}]
  /\ reports \subseteq Calls
  /\ faults \in 0 .. MaxFaults
  /\ pc \in [Calls -> Place]
  /\ asked \in [Calls -> Input \cup {Null}]
  /\ todo \in [Calls -> Seq(Key)]
  /\ reply \in [Calls -> Reply \cup {Null}]

\* A call knows what it was asked for, has an answer from its cleanup on and only then,
\* and cleans up after a failure only.
CallOK(c) ==
  /\ reply[c] = Null <=> pc[c] \notin {"cleanup", "done"}
  /\ pc[c] \in {"source", "image", "commit", "cleanup"} => asked[c] \in PublishInput
  /\ pc[c] = "deprecate" => /\ asked[c] \in VersionInput /\ asked[c].op = "deprecate"
                            /\ Published(asked[c].module, asked[c].version)
  /\ pc[c] \in {"baseline", "check"} => asked[c] \in VersionInput /\ asked[c].op = "breaking"
  /\ pc[c] = "cleanup" => /\ reply[c].result # "ok"
                          /\ todo[c] \in {<<SourceKeyOf(c), ImageKeyOf(c)>>,
                                          <<SourceKeyOf(c)>>, <<ImageKeyOf(c)>>}
  /\ pc[c] # "cleanup" => todo[c] = <<>>

\* The answer of a call agrees with the row it is about.
AnswerOK(c) ==
  /\ reply[c] # Null /\ asked[c] \in PublishInput =>
       LET row == version[asked[c].module][asked[c].version]
       IN /\ reply[c].result = "ok" => row.publisher = c /\ row.source = asked[c].source
          /\ reply[c].result = "already_exists" => row.publisher # Null /\ row.publisher # c
  /\ reply[c] # Null /\ asked[c] \in VersionInput /\ asked[c].op = "deprecate" /\ reply[c].result = "ok" =>
       /\ reply[c].by # Null
       /\ version[asked[c].module][asked[c].version].deprecatedBy = reply[c].by

\* A row is announced with its version and with its deprecation, and it was written by
\* an answered call with what that call was asked for.
RowOK(m, v) ==
  /\ Published(m, v) <=> <<m, v, "published">> \in outbox
  /\ version[m][v].deprecatedBy # Null <=> <<m, v, "deprecated">> \in outbox
  /\ version[m][v].deprecatedBy # Null => Published(m, v)
  /\ Published(m, v) => LET c == version[m][v].publisher
                        IN /\ Publishing(c, m, v) /\ asked[c].source = version[m][v].source
                           /\ reply[c] # Null

\* A call that did not succeed used the key.
GivenUp(key) ==
  \E c \in Calls : /\ asked[c] \in PublishInput /\ key \in {SourceKeyOf(c), ImageKeyOf(c)}
                   /\ reply[c] # Null /\ reply[c].result # "ok"

Held(key) == key \in objects \/ GivenUp(key)

\* What was uploaded is there unless a call gave it up.
RowHeld(m, v) ==
  Published(m, v) => /\ Held(SourceKey(m, v, version[m][v].source))
                     /\ Held(ImageKey(m, v, version[m][v].source))

CallHeld(c) ==
  /\ pc[c] \in {"image", "commit"} => Held(SourceKeyOf(c))
  /\ pc[c] = "commit" => Held(ImageKeyOf(c))

\* The call has yet to commit or to delete the key.
Owner(c, key) ==
  \/ pc[c] \in {"image", "commit"} /\ key = SourceKeyOf(c)
  \/ pc[c] = "commit" /\ key = ImageKeyOf(c)
  \/ pc[c] = "cleanup" /\ \E i \in DOMAIN todo[c] : key = todo[c][i]

Owned == faults = 0 => \A key \in objects : Referenced(key) \/ \E c \in Calls : Owner(c, key)

\* What every step preserves.
IInv == /\ Typed
        /\ \A c \in Calls : CallOK(c) /\ AnswerOK(c) /\ CallHeld(c)
        /\ \A m \in Modules, v \in Versions : RowOK(m, v) /\ RowHeld(m, v)
        /\ Owned /\ LinksAnnounced

\* Nothing of another call changes.
Only(c) ==
  \A d \in Calls \ {c} : pc'[d] = pc[d] /\ asked'[d] = asked[d] /\ todo'[d] = todo[d] /\ reply'[d] = reply[d]

\* An answered call keeps what it was asked for, and a failure stays a failure.
Settled(c) ==
  reply[c] # Null => /\ asked'[c] = asked[c] /\ reply'[c] # Null
                     /\ reply[c].result # "ok" => reply'[c].result # "ok"

-----------------------------------------------------------------------------
(* The operators of the model. *)

\* The two keys of a call are different, and a key tells what it was built from.
LEMMA KeyParts ==
  ASSUME NEW m, NEW v, NEW s, NEW n, NEW w, NEW t
  PROVE  /\ SourceKey(m, v, s) # ImageKey(n, w, t)
         /\ SourceKey(m, v, s) = SourceKey(n, w, t) => m = n /\ v = w /\ s = t
         /\ ImageKey(m, v, s) = ImageKey(n, w, t) => m = n /\ v = w /\ ImageOf[s] = ImageOf[t]
BY DEF SourceKey, ImageKey

\* The keys of a publishing call.
LEMMA CallKeys ==
  ASSUME NEW c, asked[c] \in PublishInput
  PROVE  /\ SourceKeyOf(c) \in Key /\ ImageKeyOf(c) \in Key
         /\ asked[c].module \in Modules /\ asked[c].version \in Versions /\ asked[c].source \in Sources
         /\ asked[c] # Null
<1>1. asked[c].module \in Modules /\ asked[c].version \in Versions /\ asked[c].source \in Sources
  BY DEF PublishInput
<1> QED BY <1>1, RegistryAssumption DEF Key, SourceKeyOf, ImageKeyOf

\* The inputs have the kinds the code dispatches on.
LEMMA InputKinds ==
  /\ \A in \in PublishInput : in.op = "publish"
  /\ \A in \in VersionInput : in.op \in {"deprecate", "breaking"} /\ in.module \in Modules /\ in.version \in Versions
  /\ \A in \in LinkInput : in.op = "link"
  /\ \A in \in Input : in # Null
BY RegistryAssumption DEF PublishInput, VersionInput, LinkInput, Input

\* A key that was given up stays so.
LEMMA GivenUpStays ==
  ASSUME NEW c \in Calls, Only(c), Settled(c), NEW key, GivenUp(key)
  PROVE  GivenUp(key)'
<1>1. PICK d \in Calls : /\ asked[d] \in PublishInput /\ key \in {SourceKeyOf(d), ImageKeyOf(d)}
                         /\ reply[d] # Null /\ reply[d].result # "ok"
  BY DEF GivenUp
<1>2. asked'[d] = asked[d] /\ reply'[d] # Null /\ reply'[d].result # "ok"
  BY <1>1 DEF Only, Settled
<1> QED BY <1>1, <1>2 DEF GivenUp, SourceKeyOf, ImageKeyOf

\* A step of one call that leaves the tables alone.
LEMMA Quiet ==
  ASSUME IInv, NEW c \in Calls, UNCHANGED <<modules, version, link, reports, outbox>>, Typed',
         Only(c), Settled(c), CallOK(c)', AnswerOK(c)',
         \A key \in objects : key \in objects' \/ GivenUp(key)',
         CallHeld(c)',
         faults' = 0 => /\ faults = 0
                        /\ \A key \in objects' : IF key \in objects THEN Owner(c, key) => Owner(c, key)'
                                                 ELSE Owner(c, key)'
  PROVE  IInv'
<1> USE DEF IInv
<1>1. ASSUME NEW d \in Calls PROVE CallOK(d)'
  <2>1. CASE d = c
    BY <2>1
  <2>2. CASE d # c
    BY <2>2 DEF Only, CallOK, Published, SourceKeyOf, ImageKeyOf
  <2> QED BY <2>1, <2>2
<1>2. ASSUME NEW d \in Calls PROVE AnswerOK(d)'
  BY DEF Only, AnswerOK
<1>3. ASSUME NEW m \in Modules, NEW v \in Versions PROVE RowOK(m, v)'
  <2>1. RowOK(m, v)
    OBVIOUS
  <2>2. ASSUME Published(m, v)'
        PROVE  /\ Publishing(version[m][v].publisher, m, v)'
               /\ asked'[version[m][v].publisher].source = version[m][v].source
               /\ reply'[version[m][v].publisher] # Null
    <3> DEFINE d == version[m][v].publisher
    <3>1. d \in Calls
      BY <2>2 DEF Published, Typed, Row
    <3>2. Publishing(d, m, v) /\ asked[d].source = version[m][v].source /\ reply[d] # Null
      BY <2>1, <2>2 DEF Published, RowOK
    <3>3. asked'[d] = asked[d] /\ reply'[d] # Null
      BY <3>1, <3>2 DEF Only, Settled
    <3> QED BY <3>2, <3>3 DEF Publishing
  <2> QED BY <2>1, <2>2 DEF RowOK, Published
<1>4. \A key : Held(key) => Held(key)'
  BY GivenUpStays DEF Held
<1>5. ASSUME NEW m \in Modules, NEW v \in Versions PROVE RowHeld(m, v)'
  BY <1>4 DEF RowHeld, Published, SourceKey, ImageKey
<1>6. ASSUME NEW d \in Calls PROVE CallHeld(d)'
  <2>1. CASE d = c
    BY <2>1
  <2>2. CASE d # c
    BY <2>2, <1>4 DEF Only, CallHeld, SourceKeyOf, ImageKeyOf
  <2> QED BY <2>1, <2>2
<1>7. Owned'
  <2>1. SUFFICES ASSUME faults' = 0, NEW key \in objects'
                 PROVE  Referenced(key)' \/ \E d \in Calls : Owner(d, key)'
    BY DEF Owned
  <2>2. CASE key \notin objects
    BY <2>1, <2>2
  <2>3. CASE key \in objects
    <3>1. CASE Referenced(key)
      BY <3>1 DEF Referenced, Published, SourceKey, ImageKey
    <3>2. ASSUME NEW d \in Calls, Owner(d, key) PROVE Owner(d, key)'
      <4>1. CASE d = c
        BY <2>1, <2>3, <3>2, <4>1
      <4>2. CASE d # c
        BY <3>2, <4>2 DEF Only, Owner, SourceKeyOf, ImageKeyOf
      <4> QED BY <4>1, <4>2
    <3> QED BY <2>1, <2>3, <3>1, <3>2 DEF Owned
  <2> QED BY <2>2, <2>3
<1>8. LinksAnnounced'
  BY DEF LinksAnnounced, LinkedElsewhere
<1> QED BY <1>1, <1>2, <1>3, <1>5, <1>6, <1>7, <1>8

\* What Goto, Return, StartCleanup and Ask do.
LEMMA GotoDoes ==
  ASSUME Typed, NEW c \in Calls, NEW to \in Place, Goto(c, to)
  PROVE  /\ pc' \in [Calls -> Place] /\ todo' = todo /\ reply' = reply
         /\ pc'[c] = to
         /\ \A d \in Calls \ {c} : pc'[d] = pc[d]
BY DEF Typed, Goto

LEMMA ReturnDoes ==
  ASSUME Typed, NEW c \in Calls, NEW result \in Result, NEW by \in Calls \cup {Null}, Return(c, result, by)
  PROVE  /\ pc' \in [Calls -> Place] /\ todo' = todo /\ reply' \in [Calls -> Reply \cup {Null}]
         /\ pc'[c] = "done" /\ reply'[c] # Null
         /\ reply'[c].result = result /\ reply'[c].by = by
         /\ \A d \in Calls \ {c} : pc'[d] = pc[d] /\ reply'[d] = reply[d]
<1>1. [result |-> result, by |-> by] \in Reply
  BY DEF Reply
<1>2. reply'[c] = [result |-> result, by |-> by]
  BY DEF Typed, Return
<1>3. reply'[c] # Null
  BY <1>1, <1>2, RegistryAssumption
<1>4. pc' \in [Calls -> Place] /\ pc'[c] = "done"
  BY DEF Typed, Return, Place
<1> QED BY <1>1, <1>2, <1>3, <1>4 DEF Typed, Return

LEMMA StartCleanupDoes ==
  ASSUME Typed, NEW c \in Calls, NEW keys \in Seq(Key), NEW result \in Result, StartCleanup(c, keys, result)
  PROVE  /\ pc' \in [Calls -> Place] /\ todo' \in [Calls -> Seq(Key)] /\ reply' \in [Calls -> Reply \cup {Null}]
         /\ pc'[c] = "cleanup" /\ todo'[c] = keys /\ reply'[c] # Null /\ reply'[c].result = result
         /\ \A d \in Calls \ {c} : pc'[d] = pc[d] /\ todo'[d] = todo[d] /\ reply'[d] = reply[d]
<1>1. [result |-> result, by |-> Null] \in Reply
  BY DEF Reply
<1>2. reply'[c] = [result |-> result, by |-> Null]
  BY DEF Typed, StartCleanup
<1>3. reply'[c] # Null
  BY <1>1, <1>2, RegistryAssumption
<1>4. pc' \in [Calls -> Place] /\ pc'[c] = "cleanup"
  BY DEF Typed, StartCleanup, Place
<1> QED BY <1>1, <1>2, <1>3, <1>4 DEF Typed, StartCleanup

LEMMA AskDoes ==
  ASSUME Typed, NEW c \in Calls, NEW input \in Input, Ask(c, input)
  PROVE  /\ asked' \in [Calls -> Input \cup {Null}] /\ asked'[c] = input
         /\ \A d \in Calls \ {c} : asked'[d] = asked[d]
BY DEF Typed, Ask

-----------------------------------------------------------------------------
(* The invariant is inductive. *)

LEMMA InvInit == Init => IInv
<1> SUFFICES ASSUME Init PROVE IInv
  OBVIOUS
<1> USE DEF Init
<1>1. Unpublished \in Row
  BY DEF Unpublished, Row
<1>2. Typed
  BY <1>1, RegistryAssumption DEF Typed, Place
<1>3. \A m \in Modules, v \in Versions :
        ~Published(m, v) /\ version[m][v].deprecatedBy = Null
  BY DEF Published, Unpublished
<1>4. \A m \in Modules, v \in Versions : RowOK(m, v) /\ RowHeld(m, v)
  BY <1>3 DEF RowOK, RowHeld
<1>5. \A c \in Calls : CallOK(c) /\ AnswerOK(c) /\ CallHeld(c)
  BY DEF CallOK, AnswerOK, CallHeld
<1> QED BY <1>2, <1>4, <1>5 DEF IInv, Owned, LinksAnnounced

\* A call of PublishModuleVersion up to its uploads.
LEMMA InvInspectSource ==
  ASSUME IInv, NEW c \in Calls, NEW m \in Modules, NEW v \in Versions, NEW source \in Sources,
         InspectSource(c, m, v, source)
  PROVE  IInv'
<1> DEFINE input == [op |-> "publish", module |-> m, version |-> v, source |-> source]
<1>1. input \in PublishInput /\ input \in Input /\ input.module = m /\ input.version = v
  BY DEF PublishInput, Input
<1>2. /\ Ask(c, input) /\ pc[c] = "idle"
      /\ UNCHANGED <<modules, version, link, reports, outbox, objects, faults>>
  BY DEF InspectSource, tables
<1> HIDE DEF input
<1>3. /\ Typed /\ CallOK(c) /\ RowOK(m, v)
  BY DEF IInv
<1>4. /\ asked' \in [Calls -> Input \cup {Null}] /\ asked'[c] = input
      /\ \A d \in Calls \ {c} : asked'[d] = asked[d]
  BY <1>1, <1>2, <1>3, AskDoes
<1>5. reply[c] = Null /\ todo[c] = <<>>
  BY <1>2, <1>3 DEF CallOK
<1>6. /\ pc' \in [Calls -> Place] /\ todo' = todo /\ reply' \in [Calls -> Reply \cup {Null}]
      /\ \A d \in Calls \ {c} : pc'[d] = pc[d] /\ reply'[d] = reply[d]
      /\ \/ pc'[c] = "done" /\ reply'[c] # Null /\ reply'[c].result = "already_exists" /\ Published(m, v)
         \/ pc'[c] = "done" /\ reply'[c] # Null /\ reply'[c].result = "invalid_source"
         \/ pc'[c] = "source" /\ reply'[c] = Null
  <2>1. CASE Published(m, v) /\ Return(c, "already_exists", Null)
    BY <2>1, <1>3, ReturnDoes DEF Result
  <2>2. CASE Return(c, "invalid_source", Null)
    BY <2>2, <1>3, ReturnDoes DEF Result
  <2>3. CASE Goto(c, "source")
    BY <2>3, <1>3, <1>5, GotoDoes DEF Place, Typed
  <2> QED BY <2>1, <2>2, <2>3 DEF InspectSource
<1>7. Typed'
  BY <1>2, <1>3, <1>4, <1>6 DEF Typed
<1>8. Only(c) /\ Settled(c)
  BY <1>4, <1>5, <1>6 DEF Only, Settled
<1>9. CallOK(c)'
  BY <1>1, <1>4, <1>5, <1>6 DEF CallOK
<1>10. Published(m, v) => version[m][v].publisher # c
  BY <1>3, <1>5 DEF RowOK
<1>11. AnswerOK(c)'
  <2>1. /\ asked'[c].module = m /\ asked'[c].version = v /\ asked'[c] \notin VersionInput
    BY <1>1, <1>4, InputKinds
  <2>2. version' = version
    BY <1>2
  <2> QED BY <2>1, <2>2, <1>6, <1>10 DEF AnswerOK, Published
<1>12. CallHeld(c)'
  BY <1>6 DEF CallHeld
<1>13. \A key \in objects' : Owner(c, key) => Owner(c, key)'
  BY <1>2 DEF Owner
<1> QED BY <1>2, <1>7, <1>8, <1>9, <1>11, <1>12, <1>13, Quiet

\* A fault is counted.
LEMMA FaultCounts ==
  ASSUME Typed, Fault PROVE faults' \in 0 .. MaxFaults /\ faults' # 0
BY RegistryAssumption DEF Typed, Fault

\* A call that answers without touching a table, before it uploaded anything or with a
\* fault.
LEMMA QuietReturn ==
  ASSUME IInv, NEW c \in Calls, UNCHANGED <<modules, version, link, reports, outbox, asked>>,
         NEW result \in Result \ {"ok", "already_exists"}, Return(c, result, Null),
         pc[c] \notin {"cleanup", "done"},
         \A key \in objects : key \in objects',
         \/ faults' = faults /\ objects' = objects /\ pc[c] \notin {"image", "commit"}
         \/ Fault
  PROVE  IInv'
<1>1. Typed /\ CallOK(c)
  BY DEF IInv
<1>2. /\ pc' \in [Calls -> Place] /\ todo' = todo /\ reply' \in [Calls -> Reply \cup {Null}]
      /\ pc'[c] = "done" /\ reply'[c] # Null /\ reply'[c].result = result
      /\ \A d \in Calls \ {c} : pc'[d] = pc[d] /\ reply'[d] = reply[d]
  BY <1>1, ReturnDoes
<1>3. faults' \in 0 .. MaxFaults
  BY <1>1, FaultCounts DEF Typed
<1>4. Typed'
  BY <1>1, <1>2, <1>3 DEF Typed
<1>5. reply[c] = Null /\ todo[c] = <<>>
  BY <1>1 DEF CallOK
<1>6. Only(c) /\ Settled(c)
  BY <1>2, <1>5 DEF Only, Settled
<1>7. CallOK(c)' /\ AnswerOK(c)' /\ CallHeld(c)'
  BY <1>2, <1>5 DEF CallOK, AnswerOK, CallHeld
<1>8. faults' = 0 => faults = 0 /\ objects' = objects /\ \A key : ~Owner(c, key)
  BY <1>1, FaultCounts DEF Owner
<1> QED BY <1>4, <1>6, <1>7, <1>8, Quiet

\* The upload of the source.
LEMMA InvPutSource == ASSUME IInv, NEW c \in Calls, PutSource(c) PROVE IInv'
<1>1. /\ Typed /\ CallOK(c) /\ pc[c] = "source"
      /\ UNCHANGED <<modules, version, link, reports, outbox, asked>>
  BY DEF IInv, PutSource, tables
<1>2. CASE objects' = objects \cup {SourceKeyOf(c)} /\ Goto(c, "image") /\ faults' = faults
  <2>1. /\ pc' \in [Calls -> Place] /\ todo' = todo /\ reply' = reply /\ pc'[c] = "image"
        /\ \A d \in Calls \ {c} : pc'[d] = pc[d]
    BY <1>1, <1>2, GotoDoes DEF Place
  <2>2. Typed' /\ Only(c) /\ Settled(c)
    BY <1>1, <1>2, <2>1 DEF Typed, Only, Settled
  <2>3. CallOK(c)'
    BY <1>1, <2>1 DEF CallOK
  <2>4. AnswerOK(c)'
    BY <1>1, <2>1 DEF AnswerOK, CallOK
  <2>5. SourceKeyOf(c)' = SourceKeyOf(c)
    BY <1>1 DEF SourceKeyOf
  <2>6. CallHeld(c)'
    BY <1>2, <2>1, <2>5 DEF CallHeld, Held
  <2>7. \A key \in objects' : Owner(c, key) => Owner(c, key)'
    BY <1>1 DEF Owner
  <2>8. \A key \in objects' \ objects : Owner(c, key)'
    BY <1>2, <2>1, <2>5 DEF Owner
  <2> QED BY <1>1, <1>2, <2>2, <2>3, <2>4, <2>6, <2>7, <2>8, Quiet
<1>3. CASE /\ Fault /\ objects' \in {objects, objects \cup {SourceKeyOf(c)}}
           /\ Return(c, "storage_failure", Null)
  BY <1>1, <1>3, QuietReturn DEF Result
<1> QED BY <1>2, <1>3 DEF PutSource

\* A publishing call that fails after its uploads starts its cleanup.
LEMMA QuietCleanup ==
  ASSUME IInv, NEW c \in Calls, UNCHANGED <<modules, version, link, reports, outbox, asked>>,
         pc[c] \in {"image", "commit"},
         NEW keys \in {<<SourceKeyOf(c), ImageKeyOf(c)>>, <<SourceKeyOf(c)>>},
         NEW result \in Result \ {"ok"}, StartCleanup(c, keys, result),
         result = "already_exists" => VersionTaken(asked[c].module, asked[c].version),
         \A key \in objects : key \in objects',
         \/ faults' = faults /\ objects' = objects /\ keys = <<SourceKeyOf(c), ImageKeyOf(c)>>
         \/ Fault
  PROVE  IInv'
<1>1. Typed /\ CallOK(c) /\ asked[c] \in PublishInput
  BY DEF IInv, CallOK
<1>2. /\ SourceKeyOf(c) \in Key /\ ImageKeyOf(c) \in Key
      /\ asked[c].module \in Modules /\ asked[c].version \in Versions
  BY <1>1, CallKeys
<1>3. keys \in Seq(Key)
  <2>1. ASSUME NEW a \in Key, NEW b \in Key PROVE <<a, b>> \in Seq(Key) /\ <<a>> \in Seq(Key)
    OBVIOUS
  <2> QED BY <1>2, <2>1
<1>4. /\ pc' \in [Calls -> Place] /\ todo' \in [Calls -> Seq(Key)] /\ reply' \in [Calls -> Reply \cup {Null}]
      /\ pc'[c] = "cleanup" /\ todo'[c] = keys /\ reply'[c] # Null /\ reply'[c].result = result
      /\ \A d \in Calls \ {c} : pc'[d] = pc[d] /\ todo'[d] = todo[d] /\ reply'[d] = reply[d]
  BY <1>1, <1>3, StartCleanupDoes
<1>5. faults' \in 0 .. MaxFaults
  BY <1>1, FaultCounts DEF Typed
<1>6. Typed'
  BY <1>1, <1>4, <1>5 DEF Typed
<1>7. reply[c] = Null
  BY <1>1 DEF CallOK
<1>8. Only(c) /\ Settled(c)
  BY <1>4, <1>7 DEF Only, Settled
<1>9. SourceKeyOf(c)' = SourceKeyOf(c) /\ ImageKeyOf(c)' = ImageKeyOf(c)
  BY DEF SourceKeyOf, ImageKeyOf
<1>10. CallOK(c)'
  BY <1>1, <1>4, <1>9 DEF CallOK
<1>11. AnswerOK(c)'
  <2>1. asked[c] \notin VersionInput
    BY <1>1, InputKinds
  <2>2. RowOK(asked[c].module, asked[c].version)
    BY <1>2 DEF IInv
  <2>3. result = "already_exists" =>
          /\ Published(asked[c].module, asked[c].version)
          /\ version[asked[c].module][asked[c].version].publisher # c
    BY <2>2, <1>7 DEF RowOK, VersionTaken
  <2> QED BY <2>1, <2>3, <1>4 DEF AnswerOK, Published
<1>12. CallHeld(c)'
  BY <1>4 DEF CallHeld
<1>13. faults' = 0 => /\ faults = 0 /\ objects' = objects
                      /\ \A key : Owner(c, key) => Owner(c, key)'
  <2>1. SUFFICES ASSUME faults' = 0
                 PROVE  /\ faults = 0 /\ objects' = objects
                        /\ \A key : Owner(c, key) => Owner(c, key)'
    OBVIOUS
  <2>2. faults = 0 /\ objects' = objects /\ todo'[c] = <<SourceKeyOf(c), ImageKeyOf(c)>>
    BY <2>1, <1>1, <1>4, FaultCounts
  <2>3. DOMAIN todo'[c] = {1, 2} /\ todo'[c][1] = SourceKeyOf(c) /\ todo'[c][2] = ImageKeyOf(c)
    BY <2>2
  <2> QED BY <2>2, <2>3, <1>4 DEF Owner
<1> QED BY <1>6, <1>8, <1>10, <1>11, <1>12, <1>13, Quiet

\* The upload of the image.
LEMMA InvPutImage == ASSUME IInv, NEW c \in Calls, PutImage(c) PROVE IInv'
<1>1. /\ Typed /\ CallOK(c) /\ CallHeld(c) /\ pc[c] = "image"
      /\ UNCHANGED <<modules, version, link, reports, outbox, asked>>
  BY DEF IInv, PutImage, tables
<1>2. CASE objects' = objects \cup {ImageKeyOf(c)} /\ Goto(c, "commit") /\ faults' = faults
  <2>1. /\ pc' \in [Calls -> Place] /\ todo' = todo /\ reply' = reply /\ pc'[c] = "commit"
        /\ \A d \in Calls \ {c} : pc'[d] = pc[d]
    BY <1>1, <1>2, GotoDoes DEF Place
  <2>2. Typed' /\ Only(c) /\ Settled(c)
    BY <1>1, <1>2, <2>1 DEF Typed, Only, Settled
  <2>3. CallOK(c)'
    BY <1>1, <2>1 DEF CallOK
  <2>4. AnswerOK(c)'
    BY <1>1, <2>1 DEF AnswerOK, CallOK
  <2>5. SourceKeyOf(c)' = SourceKeyOf(c) /\ ImageKeyOf(c)' = ImageKeyOf(c)
    BY <1>1 DEF SourceKeyOf, ImageKeyOf
  <2>6. CallHeld(c)'
    BY <1>1, <1>2, <2>1, <2>2, <2>5, GivenUpStays DEF CallHeld, Held
  <2>7. \A key \in objects' : Owner(c, key) => Owner(c, key)'
    BY <1>1, <2>1, <2>5 DEF Owner
  <2>8. \A key \in objects' \ objects : Owner(c, key)'
    BY <1>2, <2>1, <2>5 DEF Owner
  <2> QED BY <1>1, <1>2, <2>2, <2>3, <2>4, <2>6, <2>7, <2>8, Quiet
<1>3. CASE /\ Fault /\ objects' \in {objects, objects \cup {ImageKeyOf(c)}}
           /\ StartCleanup(c, <<SourceKeyOf(c)>>, "storage_failure")
  BY <1>1, <1>3, QuietCleanup DEF Result
<1> QED BY <1>2, <1>3 DEF PutImage

\* The transaction is rolled back.
LEMMA InvRollbackVersion == ASSUME IInv, NEW c \in Calls, RollbackVersion(c) PROVE IInv'
<1>1. pc[c] = "commit" /\ UNCHANGED <<modules, version, link, reports, outbox, asked, objects>>
  BY DEF RollbackVersion, tables
<1>2. CASE /\ VersionTaken(asked[c].module, asked[c].version)
           /\ StartCleanup(c, <<SourceKeyOf(c), ImageKeyOf(c)>>, "already_exists")
           /\ UNCHANGED faults
  BY <1>1, <1>2, QuietCleanup DEF Result
<1>3. CASE Fault /\ StartCleanup(c, <<SourceKeyOf(c), ImageKeyOf(c)>>, "error")
  BY <1>1, <1>3, QuietCleanup DEF Result
<1> QED BY <1>2, <1>3 DEF RollbackVersion

\* One key is deleted, or its deletion fails.
LEMMA InvCleanup == ASSUME IInv, NEW c \in Calls, Cleanup(c) PROVE IInv'
<1>1. /\ Typed /\ CallOK(c) /\ AnswerOK(c) /\ pc[c] = "cleanup"
      /\ UNCHANGED <<modules, version, link, reports, outbox, asked, reply>>
      /\ todo' = [todo EXCEPT ![c] = Tail(todo[c])]
      /\ pc' = [pc EXCEPT ![c] = IF Len(todo[c]) = 1 THEN "done" ELSE "cleanup"]
      /\ \/ objects' = objects \ {Head(todo[c])} /\ UNCHANGED faults
         \/ Fault /\ UNCHANGED objects
  BY DEF IInv, Cleanup, tables
<1>2. /\ asked[c] \in PublishInput /\ reply[c] # Null /\ reply[c].result # "ok"
      /\ SourceKeyOf(c) \in Key /\ ImageKeyOf(c) \in Key
  BY <1>1, CallKeys DEF CallOK
<1>3. SourceKeyOf(c)' = SourceKeyOf(c) /\ ImageKeyOf(c)' = ImageKeyOf(c)
  BY <1>1 DEF SourceKeyOf, ImageKeyOf
<1>4. \/ /\ Len(todo[c]) = 2 /\ Head(todo[c]) = SourceKeyOf(c) /\ Tail(todo[c]) = <<ImageKeyOf(c)>>
         /\ \A i \in DOMAIN todo[c] : todo[c][i] \in {SourceKeyOf(c), ImageKeyOf(c)}
      \/ /\ Len(todo[c]) = 1 /\ Tail(todo[c]) = <<>>
         /\ Head(todo[c]) \in {SourceKeyOf(c), ImageKeyOf(c)}
         /\ \A i \in DOMAIN todo[c] : todo[c][i] = Head(todo[c])
  <2>1. CASE todo[c] = <<SourceKeyOf(c), ImageKeyOf(c)>>
    BY <2>1
  <2>2. CASE todo[c] = <<SourceKeyOf(c)>>
    BY <2>2
  <2>3. CASE todo[c] = <<ImageKeyOf(c)>>
    BY <2>3
  <2> QED BY <1>1, <2>1, <2>2, <2>3 DEF CallOK
<1>5. Tail(todo[c]) \in Seq(Key)
  <2>1. ASSUME NEW a \in Key PROVE <<a>> \in Seq(Key) /\ <<>> \in Seq(Key)
    OBVIOUS
  <2> QED BY <1>2, <1>4, <2>1
<1>6. /\ pc' \in [Calls -> Place] /\ todo' \in [Calls -> Seq(Key)] /\ todo'[c] = Tail(todo[c])
      /\ pc'[c] = IF Len(todo[c]) = 1 THEN "done" ELSE "cleanup"
      /\ \A d \in Calls \ {c} : pc'[d] = pc[d] /\ todo'[d] = todo[d]
  BY <1>1, <1>5 DEF Typed, Place
<1>7. faults' \in 0 .. MaxFaults
  BY <1>1, FaultCounts DEF Typed
<1>8. Typed'
  BY <1>1, <1>6, <1>7 DEF Typed
<1>9. Only(c) /\ Settled(c)
  BY <1>1, <1>6 DEF Only, Settled
<1>10. CallOK(c)'
  <2>1. CASE Len(todo[c]) = 2
    BY <2>1, <1>1, <1>2, <1>3, <1>4, <1>6 DEF CallOK
  <2>2. CASE Len(todo[c]) = 1
    BY <2>2, <1>1, <1>2, <1>3, <1>4, <1>6 DEF CallOK
  <2> QED BY <1>4, <2>1, <2>2
<1>11. AnswerOK(c)'
  BY <1>1 DEF AnswerOK
<1>12. CallHeld(c)'
  BY <1>6 DEF CallHeld
<1>13. \A key : key = Head(todo[c]) => GivenUp(key)'
  BY <1>1, <1>2, <1>3, <1>4 DEF GivenUp
<1>14. \A key \in objects : key \in objects' \/ GivenUp(key)'
  BY <1>1, <1>13
<1>15. ASSUME faults' = 0, NEW key \in objects', Owner(c, key) PROVE Owner(c, key)'
  <2>1. objects' = objects \ {Head(todo[c])}
    BY <1>1, <1>15, FaultCounts
  <2>2. PICK i \in DOMAIN todo[c] : key = todo[c][i]
    BY <1>1, <1>15 DEF Owner
  <2>3. key = ImageKeyOf(c) /\ todo'[c] = <<ImageKeyOf(c)>> /\ pc'[c] = "cleanup"
    BY <2>1, <2>2, <1>15, <1>4, <1>6
  <2>4. 1 \in DOMAIN todo'[c] /\ todo'[c][1] = key
    BY <2>3
  <2> QED BY <2>3, <2>4 DEF Owner
<1>16. objects' \subseteq objects /\ (faults' = 0 => faults = 0)
  BY <1>1, FaultCounts
<1> QED BY <1>1, <1>8, <1>9, <1>10, <1>11, <1>12, <1>14, <1>15, <1>16, Quiet

\* The call reads the version it is to deprecate.
LEMMA InvReadVersion ==
  ASSUME IInv, NEW c \in Calls, NEW m \in Modules, NEW v \in Versions, ReadVersion(c, m, v)
  PROVE  IInv'
<1> DEFINE input == [op |-> "deprecate", module |-> m, version |-> v]
           by == version[m][v].deprecatedBy
<1>1. /\ input \in VersionInput /\ input \in Input
      /\ input.op = "deprecate" /\ input.module = m /\ input.version = v
  BY DEF VersionInput, Input
<1>2. /\ Ask(c, input) /\ pc[c] = "idle"
      /\ UNCHANGED <<modules, version, link, reports, outbox, objects, faults>>
  BY DEF ReadVersion, tables
<1> HIDE DEF input
<1>3. Typed /\ CallOK(c) /\ by \in Calls \cup {Null}
  BY DEF IInv, Typed, Row
<1>4. /\ asked' \in [Calls -> Input \cup {Null}] /\ asked'[c] = input
      /\ \A d \in Calls \ {c} : asked'[d] = asked[d]
  BY <1>1, <1>2, <1>3, AskDoes
<1>5. reply[c] = Null /\ todo[c] = <<>>
  BY <1>2, <1>3 DEF CallOK
<1>6. /\ pc' \in [Calls -> Place] /\ todo' = todo /\ reply' \in [Calls -> Reply \cup {Null}]
      /\ \A d \in Calls \ {c} : pc'[d] = pc[d] /\ reply'[d] = reply[d]
      /\ \/ pc'[c] = "done" /\ reply'[c] # Null /\ reply'[c].result = "not_found"
         \/ pc'[c] = "done" /\ reply'[c] # Null /\ reply'[c].result = "ok" /\ reply'[c].by = by /\ by # Null
         \/ pc'[c] = "deprecate" /\ reply'[c] = Null /\ Published(m, v)
  <2>1. CASE Return(c, "not_found", Null)
    BY <2>1, <1>3, ReturnDoes DEF Result
  <2>2. CASE by # Null /\ Return(c, "ok", by)
    BY <2>2, <1>3, ReturnDoes DEF Result
  <2>3. CASE Published(m, v) /\ Goto(c, "deprecate")
    BY <2>3, <1>3, <1>5, GotoDoes DEF Place, Typed
  <2> QED BY <2>1, <2>2, <2>3 DEF ReadVersion
<1>7. Typed'
  BY <1>2, <1>3, <1>4, <1>6 DEF Typed
<1>8. Only(c) /\ Settled(c)
  BY <1>4, <1>5, <1>6 DEF Only, Settled
<1>9. CallOK(c)'
  BY <1>1, <1>2, <1>4, <1>5, <1>6 DEF CallOK, Published
<1>10. AnswerOK(c)'
  <2>1. asked'[c].module = m /\ asked'[c].version = v /\ asked'[c] \notin PublishInput
    BY <1>1, <1>4, InputKinds
  <2> QED BY <2>1, <1>2, <1>6 DEF AnswerOK
<1>11. CallHeld(c)'
  BY <1>6 DEF CallHeld
<1>12. \A key \in objects' : Owner(c, key) => Owner(c, key)'
  BY <1>2 DEF Owner
<1> QED BY <1>2, <1>7, <1>8, <1>9, <1>10, <1>11, <1>12, Quiet

\* The second deprecation, and one whose statement failed, is undone.
LEMMA InvRollbackDeprecation == ASSUME IInv, NEW c \in Calls, RollbackDeprecation(c) PROVE IInv'
<1>1. /\ pc[c] = "deprecate" /\ Return(c, "error", Null)
      /\ UNCHANGED <<modules, version, link, reports, outbox, asked, objects>>
      /\ faults' = faults \/ Fault
  BY DEF RollbackDeprecation, tables
<1> QED BY <1>1, QuietReturn DEF Result

\* The call looks up the baseline of a breaking check.
LEMMA InvResolveBreakingBaseline ==
  ASSUME IInv, NEW c \in Calls, NEW m \in Modules, NEW v \in Versions, ResolveBreakingBaseline(c, m, v)
  PROVE  IInv'
<1> DEFINE input == [op |-> "breaking", module |-> m, version |-> v]
<1>1. input \in VersionInput /\ input \in Input /\ input.op = "breaking"
  BY DEF VersionInput, Input
<1>2. /\ Ask(c, input) /\ pc[c] = "idle"
      /\ UNCHANGED <<modules, version, link, reports, outbox, objects, faults>>
  BY DEF ResolveBreakingBaseline, tables
<1> HIDE DEF input
<1>3. Typed /\ CallOK(c)
  BY DEF IInv
<1>4. /\ asked' \in [Calls -> Input \cup {Null}] /\ asked'[c] = input
      /\ \A d \in Calls \ {c} : asked'[d] = asked[d]
  BY <1>1, <1>2, <1>3, AskDoes
<1>5. reply[c] = Null /\ todo[c] = <<>>
  BY <1>2, <1>3 DEF CallOK
<1>6. /\ pc' \in [Calls -> Place] /\ todo' = todo /\ reply' \in [Calls -> Reply \cup {Null}]
      /\ \A d \in Calls \ {c} : pc'[d] = pc[d] /\ reply'[d] = reply[d]
      /\ \/ pc'[c] = "done" /\ reply'[c] # Null /\ reply'[c].result = "baseline_not_found"
         \/ pc'[c] = "baseline" /\ reply'[c] = Null
  <2>1. CASE Return(c, "baseline_not_found", Null)
    BY <2>1, <1>3, ReturnDoes DEF Result
  <2>2. CASE Goto(c, "baseline")
    BY <2>2, <1>3, <1>5, GotoDoes DEF Place, Typed
  <2> QED BY <2>1, <2>2 DEF ResolveBreakingBaseline
<1>7. Typed'
  BY <1>2, <1>3, <1>4, <1>6 DEF Typed
<1>8. Only(c) /\ Settled(c)
  BY <1>4, <1>5, <1>6 DEF Only, Settled
<1>9. CallOK(c)'
  BY <1>1, <1>4, <1>5, <1>6 DEF CallOK
<1>10. AnswerOK(c)'
  BY <1>1, <1>4, InputKinds DEF AnswerOK
<1>11. CallHeld(c)'
  BY <1>6 DEF CallHeld
<1>12. \A key \in objects' : Owner(c, key) => Owner(c, key)'
  BY <1>2 DEF Owner
<1> QED BY <1>2, <1>7, <1>8, <1>9, <1>10, <1>11, <1>12, Quiet

\* The call gets the image of the baseline.
LEMMA InvReadStoredArtifact == ASSUME IInv, NEW c \in Calls, ReadStoredArtifact(c) PROVE IInv'
<1>1. /\ Typed /\ CallOK(c) /\ AnswerOK(c) /\ pc[c] = "baseline"
      /\ UNCHANGED <<modules, version, link, reports, outbox, asked, objects>>
      /\ \/ Goto(c, "check") /\ UNCHANGED faults
         \/ Return(c, "storage_failure", Null) /\ (UNCHANGED faults \/ Fault)
  BY DEF IInv, ReadStoredArtifact, tables
<1>2. CASE Goto(c, "check") /\ UNCHANGED faults
  <2>1. /\ pc' \in [Calls -> Place] /\ todo' = todo /\ reply' = reply /\ pc'[c] = "check"
        /\ \A d \in Calls \ {c} : pc'[d] = pc[d]
    BY <1>1, <1>2, GotoDoes DEF Place
  <2>2. Typed' /\ Only(c) /\ Settled(c)
    BY <1>1, <1>2, <2>1 DEF Typed, Only, Settled
  <2>3. CallOK(c)' /\ AnswerOK(c)' /\ CallHeld(c)'
    BY <1>1, <2>1 DEF CallOK, AnswerOK, CallHeld
  <2>4. \A key \in objects' : Owner(c, key) => Owner(c, key)'
    BY <1>1 DEF Owner
  <2> QED BY <1>1, <1>2, <2>2, <2>3, <2>4, Quiet
<1>3. CASE Return(c, "storage_failure", Null) /\ (UNCHANGED faults \/ Fault)
  BY <1>1, <1>3, QuietReturn DEF Result
<1> QED BY <1>1, <1>2, <1>3

\* The call ends where it is.
LEMMA InvAbandon == ASSUME IInv, NEW c \in Calls, Abandon(c) PROVE IInv'
<1>1. /\ Typed /\ CallOK(c) /\ pc[c] \notin {"idle", "done"} /\ Fault
      /\ UNCHANGED <<modules, version, link, reports, outbox, asked, objects>>
      /\ pc' = [pc EXCEPT ![c] = "done"]
      /\ reply' = [reply EXCEPT ![c] = [result |-> "lost", by |-> Null]]
      /\ todo' = [todo EXCEPT ![c] = <<>>]
  BY DEF IInv, Abandon, tables
<1>2. [result |-> "lost", by |-> Null] \in Reply
  BY DEF Reply, Result
<1>3. /\ pc'[c] = "done" /\ todo'[c] = <<>> /\ reply'[c] # Null /\ reply'[c].result = "lost"
      /\ pc' \in [Calls -> Place] /\ todo' \in [Calls -> Seq(Key)] /\ reply' \in [Calls -> Reply \cup {Null}]
      /\ Only(c) /\ Settled(c)
  <2>1. reply'[c] = [result |-> "lost", by |-> Null]
    BY <1>1 DEF Typed
  <2>2. reply'[c] # Null
    BY <1>2, <2>1, RegistryAssumption
  <2>3. <<>> \in Seq(Key) /\ "done" \in Place
    BY DEF Place
  <2> QED BY <1>1, <1>2, <2>1, <2>2, <2>3 DEF Typed, Only, Settled
<1>4. faults' \in 0 .. MaxFaults /\ faults' # 0
  BY <1>1, FaultCounts
<1>5. Typed'
  BY <1>1, <1>3, <1>4 DEF Typed
<1>6. CallOK(c)' /\ AnswerOK(c)' /\ CallHeld(c)'
  BY <1>1, <1>3 DEF CallOK, AnswerOK, CallHeld
<1> QED BY <1>1, <1>3, <1>4, <1>5, <1>6, Quiet

\* A step that leaves the calls, the store and the versions alone and whose event is
\* neither a publication nor a deprecation.
LEMMA VersionsKept ==
  ASSUME IInv, UNCHANGED version, NEW key,
         \A m \in Modules, v \in Versions : key \notin {<<m, v, "published">>, <<m, v, "deprecated">>},
         outbox' = outbox \cup {key},
         NEW c \in Calls, Only(c), Settled(c)
  PROVE  \A m \in Modules, v \in Versions : RowOK(m, v)'
<1> SUFFICES ASSUME NEW m \in Modules, NEW v \in Versions PROVE RowOK(m, v)'
  OBVIOUS
<1>1. RowOK(m, v) /\ Typed
  BY DEF IInv
<1>2. ASSUME Published(m, v)'
      PROVE  /\ Publishing(version[m][v].publisher, m, v)'
             /\ asked'[version[m][v].publisher].source = version[m][v].source
             /\ reply'[version[m][v].publisher] # Null
  <2> DEFINE d == version[m][v].publisher
  <2>1. d \in Calls
    BY <1>1, <1>2 DEF Published, Typed, Row
  <2>2. Publishing(d, m, v) /\ asked[d].source = version[m][v].source /\ reply[d] # Null
    BY <1>1, <1>2 DEF Published, RowOK
  <2>3. asked'[d] = asked[d] /\ reply'[d] # Null
    BY <2>1, <2>2 DEF Only, Settled
  <2> QED BY <2>2, <2>3 DEF Publishing
<1> QED BY <1>1, <1>2 DEF RowOK, Published

\* A new module.
LEMMA InvCreateModule == ASSUME IInv, NEW m \in Modules, CreateModule(m) PROVE IInv'
<1> USE DEF IInv, CreateModule
<1>1. Typed'
  BY DEF Typed
<1>2. \A c \in Calls : CallOK(c)' /\ AnswerOK(c)' /\ CallHeld(c)'
  <2>1. \A c \in Calls : CallOK(c)'
    BY SMTT(30) DEF CallOK, Published, SourceKeyOf, ImageKeyOf
  <2>2. \A c \in Calls : AnswerOK(c)'
    BY SMTT(30) DEF AnswerOK
  <2>3. \A c \in Calls : CallHeld(c)'
    BY SMTT(30) DEF CallHeld, Held, GivenUp, SourceKeyOf, ImageKeyOf
  <2> QED BY <2>1, <2>2, <2>3
<1>3. \A n \in Modules, v \in Versions : RowOK(n, v)'
  <2> SUFFICES ASSUME NEW n \in Modules, NEW v \in Versions PROVE RowOK(n, v)'
    OBVIOUS
  <2>1. /\ <<n, v, "published">> \in outbox' <=> <<n, v, "published">> \in outbox
        /\ <<n, v, "deprecated">> \in outbox' <=> <<n, v, "deprecated">> \in outbox
    <3>1. <<"created", m>> \notin {<<n, v, "published">>, <<n, v, "deprecated">>}
      OBVIOUS
    <3> QED BY <3>1
  <2>2. RowOK(n, v) /\ UNCHANGED <<version, asked, reply>>
    OBVIOUS
  <2> QED BY ONLY <2>1, <2>2 DEF RowOK, Published, Publishing
<1>4. \A n \in Modules, v \in Versions : RowHeld(n, v)'
  BY DEF RowHeld, Held, GivenUp, Published, SourceKeyOf, ImageKeyOf
<1>5. Owned'
  BY DEF Owned, Referenced, Owner, Published, SourceKeyOf, ImageKeyOf
<1>6. LinksAnnounced'
  BY DEF LinksAnnounced, LinkedElsewhere
<1> QED BY <1>1, <1>2, <1>3, <1>4, <1>5, <1>6

\* What a call that answers in the step of its transaction leaves alone: the other calls,
\* the store and, apart from the keys it was to commit, whose they are.
LEMMA Answered ==
  ASSUME IInv, NEW c \in Calls, UNCHANGED <<version, objects>>, Only(c), Settled(c),
         pc'[c] = "done", pc[c] \notin {"image", "commit", "cleanup"},
         faults' = faults \/ Fault
  PROVE  /\ \A d \in Calls \ {c} : CallOK(d)' /\ AnswerOK(d)' /\ CallHeld(d)'
         /\ CallHeld(c)'
         /\ \A m \in Modules, v \in Versions : RowHeld(m, v)'
         /\ Owned'
<1>1. \A key : Held(key) => Held(key)'
  BY GivenUpStays DEF Held
<1>2. \A d \in Calls \ {c} : CallOK(d)' /\ AnswerOK(d)'
  <2>1. \A d \in Calls \ {c} : CallOK(d)'
    BY SMTT(30) DEF IInv, Only, CallOK, Published, SourceKeyOf, ImageKeyOf
  <2>2. \A d \in Calls \ {c} : AnswerOK(d)'
    BY SMTT(30) DEF IInv, Only, AnswerOK
  <2> QED BY <2>1, <2>2
<1>3. \A d \in Calls \ {c} : CallHeld(d)'
  BY <1>1 DEF IInv, Only, CallHeld, SourceKeyOf, ImageKeyOf
<1>4. CallHeld(c)'
  BY DEF CallHeld
<1>5. \A m \in Modules, v \in Versions : RowHeld(m, v)'
  BY <1>1 DEF IInv, RowHeld, Published, SourceKey, ImageKey
<1>6. Owned'
  <2>1. SUFFICES ASSUME faults' = 0, NEW key \in objects'
                 PROVE  Referenced(key)' \/ \E d \in Calls : Owner(d, key)'
    BY DEF Owned
  <2>2. faults = 0
    BY <2>1, FaultCounts DEF IInv
  <2>3. CASE Referenced(key)
    BY <2>3 DEF Referenced, Published, SourceKey, ImageKey
  <2>4. ASSUME NEW d \in Calls, Owner(d, key) PROVE Owner(d, key)'
    <3>1. d # c
      BY <2>4 DEF Owner
    <3> QED BY <2>4, <3>1 DEF Only, Owner, SourceKeyOf, ImageKeyOf
  <2> QED BY <2>1, <2>2, <2>3, <2>4 DEF IInv, Owned
<1> QED BY <1>2, <1>3, <1>4, <1>5, <1>6

\* A module is linked, or the link refused.
LEMMA InvLinkModuleGitLabProject ==
  ASSUME IInv, NEW c \in Calls, NEW m \in Modules, NEW p \in Projects, LinkModuleGitLabProject(c, m, p)
  PROVE  IInv'
<1> DEFINE input == [op |-> "link", module |-> m, project |-> p]
<1>1. input \in LinkInput /\ input \in Input
  BY DEF LinkInput, Input
<1>2. Ask(c, input) /\ pc[c] = "idle" /\ objects' = objects
  BY DEF LinkModuleGitLabProject
<1> HIDE DEF input
<1>3. Typed /\ CallOK(c) /\ reply[c] = Null /\ todo[c] = <<>>
  BY <1>2 DEF IInv, CallOK
<1>4. /\ asked' \in [Calls -> Input \cup {Null}] /\ asked'[c] = input
      /\ \A d \in Calls \ {c} : asked'[d] = asked[d]
      /\ asked'[c] \notin PublishInput \cup VersionInput
  BY <1>1, <1>2, <1>3, AskDoes, InputKinds
<1>5. /\ pc' \in [Calls -> Place] /\ todo' = todo /\ reply' \in [Calls -> Reply \cup {Null}]
      /\ pc'[c] = "done" /\ reply'[c] # Null
      /\ \A d \in Calls \ {c} : pc'[d] = pc[d] /\ reply'[d] = reply[d]
  <2>1. \E result \in Result : Return(c, result, Null)
    BY DEF LinkModuleGitLabProject, Result
  <2> QED BY <2>1, <1>3, ReturnDoes
<1>6. /\ faults' = faults \/ Fault
      /\ faults' \in 0 .. MaxFaults
  <2>1. faults' = faults \/ Fault
    BY DEF LinkModuleGitLabProject
  <2> QED BY <2>1, <1>3, FaultCounts DEF Typed
<1>7. Only(c) /\ Settled(c)
  BY <1>3, <1>4, <1>5 DEF Only, Settled
<1>8. CallOK(c)' /\ AnswerOK(c)' /\ CallHeld(c)'
  BY <1>3, <1>4, <1>5 DEF CallOK, AnswerOK, CallHeld
<1>9. CASE UNCHANGED <<modules, version, link, reports, outbox>>
  <2>1. Typed'
    BY <1>3, <1>4, <1>5, <1>6, <1>9 DEF Typed
  <2>2. faults' = 0 => faults = 0
    BY <1>3, <1>6, FaultCounts
  <2>3. \A key : ~Owner(c, key)
    BY <1>2 DEF Owner
  <2> QED BY <2>1, <2>2, <2>3, <1>2, <1>7, <1>8, <1>9, Quiet
<1>10. CASE /\ ~LinkRefused(m, p) /\ link' = [link EXCEPT ![m] = p]
            /\ outbox' = outbox \cup {<<m, p, "linked">>}
            /\ UNCHANGED <<modules, version, reports>>
  <2>1. Typed'
    BY <1>3, <1>4, <1>5, <1>6, <1>10 DEF Typed
  <2>2. \A n \in Modules, v \in Versions :
          <<m, p, "linked">> \notin {<<n, v, "published">>, <<n, v, "deprecated">>}
    OBVIOUS
  <2>3. \A n \in Modules, v \in Versions : RowOK(n, v)'
    BY <2>2, <1>7, <1>10, VersionsKept
  <2>4. /\ \A d \in Calls \ {c} : CallOK(d)' /\ AnswerOK(d)' /\ CallHeld(d)'
        /\ \A n \in Modules, v \in Versions : RowHeld(n, v)'
        /\ Owned'
    BY <1>2, <1>5, <1>6, <1>7, <1>10, Answered
  <2>5. LinksAnnounced'
    BY <1>3, <1>10 DEF IInv, LinksAnnounced, LinkedElsewhere, LinkRefused, Typed
  <2> QED BY <2>1, <2>3, <2>4, <2>5, <1>8 DEF IInv
<1> QED BY <1>9, <1>10 DEF LinkModuleGitLabProject, tables

\* The report is committed, or the check fails.
LEMMA InvCommitReport == ASSUME IInv, NEW c \in Calls, CommitReport(c) PROVE IInv'
<1>1. /\ Typed /\ CallOK(c) /\ pc[c] = "check" /\ asked[c] \in VersionInput /\ asked[c].op = "breaking"
      /\ reply[c] = Null /\ todo[c] = <<>> /\ UNCHANGED <<objects, asked>>
  BY DEF IInv, CallOK, CommitReport
<1>2. CASE Return(c, "check_failed", Null) /\ UNCHANGED <<tables, faults>>
  BY <1>1, <1>2, QuietReturn DEF Result, tables
<1>3. CASE /\ reports' = reports \cup {c} /\ outbox' = outbox \cup {<<"breaking-report", c>>}
           /\ UNCHANGED <<modules, version, link>>
           /\ \/ Return(c, "ok", Null) /\ UNCHANGED faults
              \/ Fault /\ Return(c, "error", Null)
  <2>1. /\ pc' \in [Calls -> Place] /\ todo' = todo /\ reply' \in [Calls -> Reply \cup {Null}]
        /\ pc'[c] = "done" /\ reply'[c] # Null
        /\ \A d \in Calls \ {c} : pc'[d] = pc[d] /\ reply'[d] = reply[d]
    BY <1>1, <1>3, ReturnDoes DEF Result
  <2>2. (faults' = faults \/ Fault) /\ faults' \in 0 .. MaxFaults
    BY <1>1, <1>3, FaultCounts DEF Typed
  <2>3. Only(c) /\ Settled(c)
    BY <1>1, <2>1 DEF Only, Settled
  <2>4. Typed'
    BY <1>1, <1>3, <2>1, <2>2 DEF Typed
  <2>5. CallOK(c)' /\ AnswerOK(c)' /\ CallHeld(c)'
    BY <1>1, <2>1, InputKinds DEF CallOK, AnswerOK, CallHeld
  <2>6. \A m \in Modules, v \in Versions :
          <<"breaking-report", c>> \notin {<<m, v, "published">>, <<m, v, "deprecated">>}
    OBVIOUS
  <2>7. \A m \in Modules, v \in Versions : RowOK(m, v)'
    BY <2>3, <2>6, <1>3, VersionsKept
  <2>8. /\ \A d \in Calls \ {c} : CallOK(d)' /\ AnswerOK(d)' /\ CallHeld(d)'
        /\ \A m \in Modules, v \in Versions : RowHeld(m, v)'
        /\ Owned'
    BY <1>1, <1>3, <2>1, <2>2, <2>3, Answered
  <2>9. LinksAnnounced'
    BY <1>3 DEF IInv, LinksAnnounced, LinkedElsewhere
  <2> QED BY <2>4, <2>5, <2>7, <2>8, <2>9 DEF IInv
<1> QED BY <1>2, <1>3 DEF CommitReport

\* The version is stored and announced; the caller may get an error all the same.
LEMMA InvCommitVersion == ASSUME IInv, NEW c \in Calls, CommitVersion(c) PROVE IInv'
<1> DEFINE row == [publisher |-> c, source |-> asked[c].source, deprecatedBy |-> Null]
<1>0. asked[c] \in PublishInput
  BY DEF IInv, CallOK, CommitVersion
<1>20. PICK m \in Modules, v \in Versions : m = asked[c].module /\ v = asked[c].version
  BY <1>0, CallKeys
<1>1. /\ Typed /\ CallOK(c) /\ CallHeld(c) /\ pc[c] = "commit" /\ ~VersionTaken(m, v)
      /\ asked[c] \in PublishInput /\ reply[c] = Null /\ todo[c] = <<>>
      /\ version' = [version EXCEPT ![m][v] = row]
      /\ outbox' = outbox \cup {<<m, v, "published">>}
      /\ UNCHANGED <<modules, link, reports, objects, asked>>
      /\ \/ Return(c, "ok", c) /\ UNCHANGED faults
         \/ Fault /\ StartCleanup(c, <<SourceKeyOf(c), ImageKeyOf(c)>>, "error")
  BY <1>20 DEF IInv, CallOK, CommitVersion
<1>2. /\ SourceKeyOf(c) \in Key /\ ImageKeyOf(c) \in Key
      /\ asked[c].source \in Sources
      /\ SourceKeyOf(c) = SourceKey(m, v, asked[c].source)
      /\ ImageKeyOf(c) = ImageKey(m, v, asked[c].source)
  BY <1>1, <1>20, CallKeys DEF SourceKeyOf, ImageKeyOf
<1>3. /\ row \in Row /\ row.publisher = c /\ row.source = asked[c].source /\ row.deprecatedBy = Null
      /\ c # Null
  BY <1>2, RegistryAssumption DEF Row
<1> HIDE DEF row
<1>4. /\ version' \in [Modules -> [Versions -> Row]] /\ version'[m][v] = row
      /\ \A n \in Modules, w \in Versions : n # m \/ w # v => version'[n][w] = version[n][w]
  BY <1>1, <1>2, <1>3 DEF Typed
<1>5. /\ pc' \in [Calls -> Place] /\ todo' \in [Calls -> Seq(Key)] /\ reply' \in [Calls -> Reply \cup {Null}]
      /\ reply'[c] # Null
      /\ \/ pc'[c] = "done" /\ todo'[c] = <<>> /\ reply'[c].result = "ok"
         \/ /\ pc'[c] = "cleanup" /\ todo'[c] = <<SourceKeyOf(c), ImageKeyOf(c)>>
            /\ reply'[c].result = "error"
      /\ \A d \in Calls \ {c} : pc'[d] = pc[d] /\ todo'[d] = todo[d] /\ reply'[d] = reply[d]
  <2>1. CASE Return(c, "ok", c)
    BY <1>1, <2>1, ReturnDoes DEF Result, Typed
  <2>2. CASE StartCleanup(c, <<SourceKeyOf(c), ImageKeyOf(c)>>, "error")
    <3>1. <<SourceKeyOf(c), ImageKeyOf(c)>> \in Seq(Key)
      BY <1>2
    <3> QED BY <1>1, <2>2, <3>1, StartCleanupDoes DEF Result
  <2> QED BY <1>1, <2>1, <2>2
<1>6. (faults' = faults \/ Fault) /\ faults' \in 0 .. MaxFaults
  BY <1>1, FaultCounts DEF Typed
<1>7. Typed'
  BY <1>1, <1>4, <1>5, <1>6 DEF Typed
<1>8. Only(c) /\ Settled(c)
  BY <1>1, <1>5 DEF Only, Settled
<1>9. ~Published(m, v) /\ <<m, v, "published">> \notin outbox
  BY <1>1 DEF VersionTaken
<1>10. /\ Published(m, v)'
       /\ \A n \in Modules, w \in Versions :
            Published(n, w) => Published(n, w)' /\ version'[n][w] = version[n][w]
  BY <1>3, <1>4, <1>9 DEF Published
<1>11. ASSUME NEW d \in Calls PROVE CallOK(d)'
  <2>1. CASE d = c
    BY <2>1, <1>1, <1>5 DEF CallOK, SourceKeyOf, ImageKeyOf
  <2>2. CASE d # c
    <3>1. CallOK(d)
      BY DEF IInv
    <3>2. pc'[d] = pc[d] /\ asked'[d] = asked[d] /\ todo'[d] = todo[d] /\ reply'[d] = reply[d]
      BY <2>2, <1>8 DEF Only
    <3>3. pc[d] = "deprecate" => Published(asked[d].module, asked[d].version)'
      <4>1. pc[d] = "deprecate" => asked[d].module \in Modules /\ asked[d].version \in Versions
        BY <3>1, InputKinds DEF CallOK
      <4> QED BY <3>1, <3>2, <4>1, <1>1, <1>10 DEF CallOK, Published
    <3> QED BY <3>1, <3>2, <3>3, <1>1 DEF CallOK, SourceKeyOf, ImageKeyOf, Published
  <2> QED BY <2>1, <2>2
<1>12. ASSUME NEW d \in Calls PROVE AnswerOK(d)'
  <2>1. CASE d = c
    <3>1. asked[c] \notin VersionInput
      BY <1>1, InputKinds
    <3> QED BY <2>1, <3>1, <1>1, <1>20, <1>3, <1>4, <1>5 DEF AnswerOK
  <2>2. CASE d # c
    <3>1. AnswerOK(d) /\ asked'[d] = asked[d] /\ reply'[d] = reply[d]
      BY <2>2, <1>8 DEF Only, IInv
    <3>2. CASE reply[d] # Null /\ asked[d] \in PublishInput
      <4>1. asked[d].module \in Modules /\ asked[d].version \in Versions /\ asked[d] \notin VersionInput
        BY <3>2, CallKeys, InputKinds
      <4>2. reply[d].result \in {"ok", "already_exists"} => Published(asked[d].module, asked[d].version)
        BY <3>1, <3>2, RegistryAssumption DEF AnswerOK, Published
      <4>3. reply[d].result \in {"ok", "already_exists"} =>
              version'[asked[d].module][asked[d].version] = version[asked[d].module][asked[d].version]
        BY <4>1, <4>2, <1>10
      <4> QED BY <3>1, <3>2, <4>1, <4>3 DEF AnswerOK
    <3>3. CASE reply[d] # Null /\ asked[d] \in VersionInput /\ asked[d].op = "deprecate" /\ reply[d].result = "ok"
      <4>1. asked[d].module \in Modules /\ asked[d].version \in Versions /\ asked[d] \notin PublishInput
        BY <3>3, InputKinds
      <4>2. Published(asked[d].module, asked[d].version)
        <5>1. RowOK(asked[d].module, asked[d].version)
          BY <4>1 DEF IInv
        <5> QED BY <3>1, <3>3, <5>1 DEF AnswerOK, RowOK
      <4> QED BY <3>1, <3>3, <4>1, <4>2, <1>10 DEF AnswerOK
    <3> QED BY <3>1, <3>2, <3>3 DEF AnswerOK
  <2> QED BY <2>1, <2>2
<1>13. ASSUME NEW n \in Modules, NEW w \in Versions PROVE RowOK(n, w)'
  <2>1. RowOK(n, w)
    BY DEF IInv
  <2>2. CASE n = m /\ w = v
    <3>1. Publishing(c, m, v)'
      BY <1>1, <1>20 DEF Publishing
    <3>2. <<m, v, "deprecated">> \notin outbox'
      BY <2>1, <2>2, <1>1, <1>9 DEF RowOK
    <3>3. /\ version'[n][w].publisher = c /\ version'[n][w].source = asked'[c].source
          /\ version'[n][w].deprecatedBy = Null /\ <<n, w, "published">> \in outbox'
      BY <2>2, <1>1, <1>3, <1>4
    <3> QED BY <2>2, <3>1, <3>2, <3>3, <1>3, <1>5 DEF RowOK, Published
  <2>3. CASE n # m \/ w # v
    <3>1. /\ <<n, w, "published">> \in outbox' <=> <<n, w, "published">> \in outbox
          /\ <<n, w, "deprecated">> \in outbox' <=> <<n, w, "deprecated">> \in outbox
      BY <2>3, <1>1
    <3>2. version'[n][w] = version[n][w]
      BY <2>3, <1>4
    <3> DEFINE d == version[n][w].publisher
    <3>3. ASSUME Published(n, w)
          PROVE  Publishing(d, n, w)' /\ asked'[d].source = version[n][w].source /\ reply'[d] # Null
      <4>1. d \in Calls
        BY <3>3, <1>1 DEF Published, Typed, Row
      <4>2. Publishing(d, n, w) /\ asked[d].source = version[n][w].source /\ reply[d] # Null
        BY <2>1, <3>3 DEF RowOK
      <4>3. asked'[d] = asked[d] /\ reply'[d] # Null
        BY <4>1, <4>2, <1>8 DEF Only, Settled
      <4> QED BY <3>2, <4>2, <4>3 DEF Publishing
    <3> QED BY <2>1, <3>1, <3>2, <3>3 DEF RowOK, Published
  <2> QED BY <2>2, <2>3
<1>14. \A key : Held(key) => Held(key)'
  BY <1>1, <1>8, GivenUpStays DEF Held
<1>15. ASSUME NEW n \in Modules, NEW w \in Versions PROVE RowHeld(n, w)'
  <2>1. CASE n = m /\ w = v
    <3>1. Held(SourceKeyOf(c)) /\ Held(ImageKeyOf(c))
      BY <1>1 DEF CallHeld
    <3>2. SourceKey(n, w, version[n][w].source)' = SourceKeyOf(c) /\ ImageKey(n, w, version[n][w].source)' = ImageKeyOf(c)
      BY <2>1, <1>2, <1>3, <1>4 DEF SourceKey, ImageKey
    <3> QED BY <3>1, <3>2, <1>14 DEF RowHeld
  <2>2. CASE n # m \/ w # v
    <3>1. RowHeld(n, w) /\ version'[n][w] = version[n][w]
      BY <2>2, <1>4 DEF IInv
    <3> QED BY <3>1, <1>14 DEF RowHeld, Published, SourceKey, ImageKey
  <2> QED BY <2>1, <2>2
<1>16. ASSUME NEW d \in Calls PROVE CallHeld(d)'
  <2>1. CASE d = c
    BY <2>1, <1>5 DEF CallHeld
  <2>2. CASE d # c
    BY <2>2, <1>8, <1>14 DEF IInv, Only, CallHeld, SourceKeyOf, ImageKeyOf
  <2> QED BY <2>1, <2>2
<1>17. Owned'
  <2>1. SUFFICES ASSUME faults' = 0, NEW key \in objects'
                 PROVE  Referenced(key)' \/ \E d \in Calls : Owner(d, key)'
    BY DEF Owned
  <2>2. faults = 0 /\ key \in objects
    BY <2>1, <1>1, <1>6, FaultCounts
  <2>3. CASE Referenced(key)
    BY <2>3, <1>10 DEF Referenced, SourceKey, ImageKey
  <2>4. ASSUME NEW d \in Calls, Owner(d, key) PROVE Referenced(key)' \/ Owner(d, key)'
    <3>1. CASE d = c
      <4>1. key \in {SourceKeyOf(c), ImageKeyOf(c)}
        BY <2>4, <3>1, <1>1 DEF Owner
      <4>2. key \in {SourceKey(m, v, asked[c].source), ImageKey(m, v, asked[c].source)}
        BY <4>1, <1>2
      <4> QED BY <4>2, <1>2, <1>3, <1>4, <1>10 DEF Referenced, SourceKey, ImageKey
    <3>2. CASE d # c
      BY <2>4, <3>2, <1>8 DEF Only, Owner, SourceKeyOf, ImageKeyOf
    <3> QED BY <3>1, <3>2
  <2> QED BY <2>2, <2>3, <2>4 DEF IInv, Owned
<1>18. LinksAnnounced'
  BY <1>1 DEF IInv, LinksAnnounced, LinkedElsewhere
<1> QED BY <1>7, <1>11, <1>12, <1>13, <1>15, <1>16, <1>17, <1>18 DEF IInv

\* The first deprecation is stored and announced; the caller may get an error all the same.
LEMMA InvCommitDeprecation == ASSUME IInv, NEW c \in Calls, CommitDeprecation(c) PROVE IInv'
<1>0. asked[c] \in VersionInput /\ asked[c].op = "deprecate" /\ pc[c] = "deprecate"
  BY DEF IInv, CallOK, CommitDeprecation
<1>20. PICK m \in Modules, v \in Versions : m = asked[c].module /\ v = asked[c].version
  BY <1>0, InputKinds
<1>1. /\ Typed /\ CallOK(c) /\ RowOK(m, v) /\ Published(m, v)
      /\ <<m, v, "deprecated">> \notin outbox
      /\ reply[c] = Null /\ todo[c] = <<>>
      /\ version' = [version EXCEPT ![m][v].deprecatedBy = c]
      /\ outbox' = outbox \cup {<<m, v, "deprecated">>}
      /\ UNCHANGED <<modules, link, reports, objects, asked>>
      /\ \/ Return(c, "ok", c) /\ UNCHANGED faults
         \/ Fault /\ Return(c, "error", Null)
  BY <1>0, <1>20 DEF IInv, CallOK, CommitDeprecation, DeprecationTaken
<1>2. version[m][v].deprecatedBy = Null /\ version[m][v] \in Row /\ c # Null
  BY <1>1, RegistryAssumption DEF RowOK, Typed
<1>3. /\ version' \in [Modules -> [Versions -> Row]]
      /\ version'[m][v].deprecatedBy = c
      /\ \A n \in Modules, w \in Versions : /\ version'[n][w].publisher = version[n][w].publisher
                                            /\ version'[n][w].source = version[n][w].source
                                            /\ n # m \/ w # v => version'[n][w] = version[n][w]
  <2> DEFINE row == [version[m][v] EXCEPT !.deprecatedBy = c]
  <2>1. row \in Row /\ row.deprecatedBy = c /\ row.publisher = version[m][v].publisher
                    /\ row.source = version[m][v].source
    BY <1>2 DEF Row
  <2>2. version' = [version EXCEPT ![m] = [version[m] EXCEPT ![v] = row]]
    BY <1>1 DEF Typed
  <2> HIDE DEF row
  <2> QED BY <2>1, <2>2, <1>1 DEF Typed
<1>4. /\ pc' \in [Calls -> Place] /\ todo' = todo /\ reply' \in [Calls -> Reply \cup {Null}]
      /\ pc'[c] = "done" /\ reply'[c] # Null
      /\ reply'[c].result = "ok" => reply'[c].by = c
      /\ \A d \in Calls \ {c} : pc'[d] = pc[d] /\ reply'[d] = reply[d]
  BY <1>1, ReturnDoes DEF Result
<1>5. (faults' = faults \/ Fault) /\ faults' \in 0 .. MaxFaults
  BY <1>1, FaultCounts DEF Typed
<1>6. Typed'
  BY <1>1, <1>3, <1>4, <1>5 DEF Typed
<1>7. Only(c) /\ Settled(c)
  BY <1>1, <1>4 DEF Only, Settled
<1>8. \A n \in Modules, w \in Versions : Published(n, w)' <=> Published(n, w)
  BY <1>3 DEF Published
<1>9. ASSUME NEW d \in Calls PROVE CallOK(d)'
  <2>1. CASE d = c
    BY <2>1, <1>1, <1>4 DEF CallOK
  <2>2. CASE d # c
    <3>1. CallOK(d)
      BY DEF IInv
    <3>2. pc'[d] = pc[d] /\ asked'[d] = asked[d] /\ todo'[d] = todo[d] /\ reply'[d] = reply[d]
      BY <2>2, <1>7 DEF Only
    <3>3. pc[d] = "deprecate" => Published(asked[d].module, asked[d].version)'
      <4>1. pc[d] = "deprecate" => asked[d].module \in Modules /\ asked[d].version \in Versions
        BY <3>1, InputKinds DEF CallOK
      <4> QED BY <3>1, <3>2, <4>1, <1>3 DEF CallOK, Published
    <3> QED BY <3>1, <3>2, <3>3, <1>1 DEF CallOK, SourceKeyOf, ImageKeyOf, Published
  <2> QED BY <2>1, <2>2
<1>10. ASSUME NEW d \in Calls PROVE AnswerOK(d)'
  <2>1. CASE d = c
    <3>1. asked[c] \notin PublishInput
      BY <1>0, InputKinds
    <3> QED BY <2>1, <3>1, <1>1, <1>2, <1>20, <1>3, <1>4 DEF AnswerOK
  <2>2. CASE d # c
    <3>1. AnswerOK(d) /\ asked'[d] = asked[d] /\ reply'[d] = reply[d]
      BY <2>2, <1>7 DEF Only, IInv
    <3>2. CASE reply[d] # Null /\ asked[d] \in PublishInput
      <4>1. asked[d].module \in Modules /\ asked[d].version \in Versions /\ asked[d] \notin VersionInput
        BY <3>2, CallKeys, InputKinds
      <4> QED BY <3>1, <3>2, <4>1, <1>3 DEF AnswerOK
    <3>3. CASE reply[d] # Null /\ asked[d] \in VersionInput /\ asked[d].op = "deprecate" /\ reply[d].result = "ok"
      <4>1. asked[d].module \in Modules /\ asked[d].version \in Versions /\ asked[d] \notin PublishInput
        BY <3>3, InputKinds
      <4>2. asked[d].module # m \/ asked[d].version # v
        BY <3>1, <3>3, <1>2 DEF AnswerOK
      <4> QED BY <3>1, <3>3, <4>1, <4>2, <1>3 DEF AnswerOK
    <3> QED BY <3>1, <3>2, <3>3 DEF AnswerOK
  <2> QED BY <2>1, <2>2
<1>11. ASSUME NEW n \in Modules, NEW w \in Versions PROVE RowOK(n, w)'
  <2>1. RowOK(n, w)
    BY DEF IInv
  <2>2. <<n, w, "published">> \in outbox' <=> <<n, w, "published">> \in outbox
    BY <1>1
  <2>3. version'[n][w].deprecatedBy # Null <=> <<n, w, "deprecated">> \in outbox'
    <3>1. CASE n = m /\ w = v
      BY <3>1, <1>1, <1>2, <1>3
    <3>2. CASE n # m \/ w # v
      <4>1. <<n, w, "deprecated">> \in outbox' <=> <<n, w, "deprecated">> \in outbox
        BY <3>2, <1>1
      <4> QED BY <3>2, <4>1, <2>1, <1>3 DEF RowOK
    <3> QED BY <3>1, <3>2
  <2>4. version'[n][w].deprecatedBy # Null => Published(n, w)
    BY <2>1, <1>1, <1>3 DEF RowOK
  <2> DEFINE d == version[n][w].publisher
  <2>5. ASSUME Published(n, w)
        PROVE  Publishing(version[n][w].publisher, n, w)' /\ asked'[d].source = version[n][w].source /\ reply'[d] # Null
    <3>1. d \in Calls
      BY <2>5, <1>1 DEF Published, Typed, Row
    <3>2. Publishing(d, n, w) /\ asked[d].source = version[n][w].source /\ reply[d] # Null
      BY <2>1, <2>5 DEF RowOK
    <3>3. asked'[d] = asked[d] /\ reply'[d] # Null
      BY <3>1, <3>2, <1>7 DEF Only, Settled
    <3> QED BY <3>2, <3>3, <1>3 DEF Publishing
  <2> QED BY <2>1, <2>2, <2>3, <2>4, <2>5, <1>3, <1>8 DEF RowOK, Published
<1>12. \A key : Held(key) => Held(key)'
  BY <1>1, <1>7, GivenUpStays DEF Held
<1>13. ASSUME NEW n \in Modules, NEW w \in Versions PROVE RowHeld(n, w)'
  BY <1>3, <1>12 DEF IInv, RowHeld, Published, SourceKey, ImageKey
<1>14. ASSUME NEW d \in Calls PROVE CallHeld(d)'
  <2>1. CASE d = c
    BY <2>1, <1>4 DEF CallHeld
  <2>2. CASE d # c
    BY <2>2, <1>7, <1>12 DEF IInv, Only, CallHeld, SourceKeyOf, ImageKeyOf
  <2> QED BY <2>1, <2>2
<1>15. Owned'
  <2>1. SUFFICES ASSUME faults' = 0, NEW key \in objects'
                 PROVE  Referenced(key)' \/ \E d \in Calls : Owner(d, key)'
    BY DEF Owned
  <2>2. faults = 0 /\ key \in objects
    BY <2>1, <1>1, <1>5, FaultCounts
  <2>3. CASE Referenced(key)
    BY <2>3, <1>3 DEF Referenced, Published, SourceKey, ImageKey
  <2>4. ASSUME NEW d \in Calls, Owner(d, key) PROVE Owner(d, key)'
    <3>1. d # c
      BY <2>4, <1>0 DEF Owner
    <3> QED BY <2>4, <3>1, <1>7 DEF Only, Owner, SourceKeyOf, ImageKeyOf
  <2> QED BY <2>2, <2>3, <2>4 DEF IInv, Owned
<1>16. LinksAnnounced'
  BY <1>1 DEF IInv, LinksAnnounced, LinkedElsewhere
<1> QED BY <1>6, <1>9, <1>10, <1>11, <1>13, <1>14, <1>15, <1>16 DEF IInv

LEMMA InvStep == ASSUME IInv, Next PROVE IInv'
<1>1. ASSUME NEW m \in Modules, CreateModule(m) PROVE IInv'
  BY <1>1, InvCreateModule
<1>2. ASSUME NEW c \in Calls, NEW m \in Modules, NEW v \in Versions, NEW source \in Sources,
             InspectSource(c, m, v, source)
      PROVE  IInv'
  BY <1>2, InvInspectSource
<1>3. ASSUME NEW c \in Calls, NEW m \in Modules, NEW v \in Versions,
             ReadVersion(c, m, v) \/ ResolveBreakingBaseline(c, m, v)
      PROVE  IInv'
  BY <1>3, InvReadVersion, InvResolveBreakingBaseline
<1>4. ASSUME NEW c \in Calls, NEW m \in Modules, NEW p \in Projects, LinkModuleGitLabProject(c, m, p)
      PROVE  IInv'
  BY <1>4, InvLinkModuleGitLabProject
<1>5. ASSUME NEW c \in Calls,
             PutSource(c) \/ PutImage(c) \/ CommitVersion(c) \/ RollbackVersion(c) \/ Cleanup(c)
      PROVE  IInv'
  BY <1>5, InvPutSource, InvPutImage, InvCommitVersion, InvRollbackVersion, InvCleanup
<1>6. ASSUME NEW c \in Calls,
             \/ CommitDeprecation(c) \/ RollbackDeprecation(c)
             \/ ReadStoredArtifact(c) \/ CommitReport(c) \/ Abandon(c)
      PROVE  IInv'
  BY <1>6, InvCommitDeprecation, InvRollbackDeprecation, InvReadStoredArtifact, InvCommitReport, InvAbandon
<1> QED BY <1>1, <1>2, <1>3, <1>4, <1>5, <1>6 DEF Next

LEMMA InvStutter == ASSUME IInv, UNCHANGED vars PROVE IInv'
<1> USE DEF vars, Published, Publishing, SourceKeyOf, ImageKeyOf
<1>1. Typed'
  BY DEF IInv, Typed
<1>2. \A c \in Calls : CallOK(c)' /\ AnswerOK(c)'
  <2>1. \A c \in Calls : CallOK(c)'
    BY DEF IInv, CallOK
  <2>2. \A c \in Calls : AnswerOK(c)'
    BY DEF IInv, AnswerOK
  <2> QED BY <2>1, <2>2
<1>3. ASSUME NEW m \in Modules, NEW v \in Versions PROVE RowOK(m, v)'
  <2>1. RowOK(m, v) /\ UNCHANGED <<version, outbox, asked, reply>>
    BY DEF IInv
  <2> QED BY ONLY <2>1 DEF RowOK, Published, Publishing
<1>4. \A key : Held(key)' <=> Held(key)
  BY DEF Held, GivenUp
<1>5. \A c \in Calls : CallHeld(c)'
  BY <1>4 DEF IInv, CallHeld
<1>6. \A m \in Modules, v \in Versions : RowHeld(m, v)'
  BY <1>4 DEF IInv, RowHeld
<1>7. Owned' /\ LinksAnnounced'
  BY DEF IInv, Owned, Owner, Referenced, LinksAnnounced, LinkedElsewhere
<1> QED BY <1>1, <1>2, <1>3, <1>5, <1>6, <1>7 DEF IInv

\* The invariant holds in every reachable state.
THEOREM Invariant == Spec => []IInv
<1>1. IInv /\ [Next]_vars => IInv'
  BY InvStep, InvStutter
<1> QED BY InvInit, <1>1, PTL DEF Spec

-----------------------------------------------------------------------------
(* What the registry promises. *)

\* The rows, the replies and the cleanup lists have the shapes of the code.
THEOREM TypeCorrect == Spec => []TypeOK
<1>1. IInv => TypeOK
  <2> SUFFICES ASSUME IInv PROVE TypeOK
    OBVIOUS
  <2>1. ASSUME NEW c \in Calls PROVE Len(todo[c]) \in (IF pc[c] = "cleanup" THEN 1 .. 2 ELSE {0})
    <3>1. CallOK(c)
      BY DEF IInv
    <3>2. CASE pc[c] # "cleanup"
      BY <3>1, <3>2 DEF CallOK
    <3>3. CASE pc[c] = "cleanup"
      <4>1. CASE todo[c] = <<SourceKeyOf(c), ImageKeyOf(c)>>
        BY <4>1, <3>3
      <4>2. CASE todo[c] = <<SourceKeyOf(c)>> \/ todo[c] = <<ImageKeyOf(c)>>
        BY <4>2, <3>3
      <4> QED BY <3>1, <3>3, <4>1, <4>2 DEF CallOK
    <3> QED BY <3>2, <3>3
  <2> QED BY <2>1 DEF IInv, Typed, TypeOK, Place, Input
<1> QED BY Invariant, <1>1, PTL

\* However calls race to publish and deprecate, each is told of its version what is
\* stored and announced (service.go:293-297, 399-457, 524-548).
THEOREM RepliesAreTruthful == Spec => []RepliesTruthful
<1>1. IInv => RepliesTruthful
  <2> SUFFICES ASSUME IInv PROVE RepliesTruthful
    OBVIOUS
  <2>1. PublishOutcome
    <3> SUFFICES ASSUME NEW m \in Modules, NEW v \in Versions
                 PROVE  /\ Published(m, v) <=> <<m, v, "published">> \in outbox
                        /\ \A c \in Calls : Publishing(c, m, v) /\ reply[c] # Null =>
                             /\ reply[c].result = "ok" =>
                                  version[m][v].publisher = c /\ version[m][v].source = asked[c].source
                             /\ reply[c].result = "already_exists" =>
                                  Published(m, v) /\ version[m][v].publisher # c
      BY DEF PublishOutcome
    <3>1. RowOK(m, v) /\ \A c \in Calls : AnswerOK(c)
      BY DEF IInv
    <3> QED BY <3>1 DEF RowOK, AnswerOK, Publishing, Published
  <2>2. DeprecationAnswers
    <3>1. ASSUME NEW c \in Calls, asked[c] # Null, asked[c].op = "deprecate", reply[c] # Null,
                 reply[c].result = "ok"
          PROVE  version[asked[c].module][asked[c].version].deprecatedBy = reply[c].by
      <4>1. asked[c] \in VersionInput
        BY <3>1, InputKinds DEF IInv, Typed, Input
      <4> QED BY <3>1, <4>1 DEF IInv, AnswerOK
    <3>2. \A m \in Modules, v \in Versions :
            version[m][v].deprecatedBy # Null <=> <<m, v, "deprecated">> \in outbox
      BY DEF IInv, RowOK
    <3> QED BY <3>1, <3>2 DEF DeprecationAnswers
  <2> QED BY <2>1, <2>2 DEF RepliesTruthful
<1> QED BY Invariant, <1>1, PTL

\* An artifact of a published version is missing only after a failed call used its key,
\* and without faults no upload is left behind (cleanupUploadedArtifacts,
\* service.go:944-953).
THEOREM StoreAgreesWithTables == Spec => []StoreAgrees
<1>1. IInv => StoreAgrees
  <2> SUFFICES ASSUME IInv PROVE StoreAgrees
    OBVIOUS
  <2>1. ASSUME NEW m \in Modules, NEW v \in Versions, NEW s, GivenUp(SourceKey(m, v, s))
        PROVE  \E c \in Calls : /\ Publishing(c, m, v)
                                /\ SourceKey(m, v, asked[c].source) = SourceKey(m, v, s)
                                /\ reply[c] # Null /\ reply[c].result # "ok"
    BY <2>1, KeyParts DEF GivenUp, Publishing, SourceKeyOf, ImageKeyOf
  <2>2. ASSUME NEW m \in Modules, NEW v \in Versions, NEW s, GivenUp(ImageKey(m, v, s))
        PROVE  \E c \in Calls : /\ Publishing(c, m, v)
                                /\ ImageKey(m, v, asked[c].source) = ImageKey(m, v, s)
                                /\ reply[c] # Null /\ reply[c].result # "ok"
    BY <2>2, KeyParts DEF GivenUp, Publishing, SourceKeyOf, ImageKeyOf
  <2>3. ASSUME NEW m \in Modules, NEW v \in Versions, Published(m, v)
        PROVE  /\ Held(SourceKey(m, v, version[m][v].source))
               /\ Held(ImageKey(m, v, version[m][v].source))
    BY <2>3 DEF IInv, RowHeld
  <2>4. StoredUnlessContended
    BY <2>1, <2>2, <2>3 DEF StoredUnlessContended, Held
  <2>5. NoOrphans
    <3>1. ASSUME \A c \in Calls : pc[c] \in {"idle", "done"}, NEW key PROVE \A c \in Calls : ~Owner(c, key)
      BY <3>1 DEF Owner
    <3> QED BY <3>1 DEF IInv, Owned, NoOrphans
  <2> QED BY <2>4, <2>5 DEF StoreAgrees
<1> QED BY Invariant, <1>1, PTL

\* A project belongs to one module, and every link in force was announced
\* (service.go:204-227).
THEOREM LinksAreAnnounced == Spec => []LinksAnnounced
<1>1. IInv => LinksAnnounced
  BY DEF IInv
<1> QED BY Invariant, <1>1, PTL

\* Nothing of a published version changes but its first deprecation, although
\* UpdateDeprecation overwrites (service.go:524-548).
THEOREM FirstDeprecationIsKept == Spec => FirstDeprecationStands
<1> DEFINE Stands ==
      \A m \in Modules, v \in Versions : Published(m, v) =>
        LET old == version[m][v]
            new == version'[m][v]
        IN new = old \/ (old.deprecatedBy = Null /\ new.deprecatedBy # Null
                         /\ new.publisher = old.publisher /\ new.source = old.source)
<1>1. ASSUME IInv, NEW c \in Calls, CommitVersion(c) PROVE Stands
  <2>1. PICK m \in Modules, v \in Versions : m = asked[c].module /\ v = asked[c].version
    BY <1>1, CallKeys DEF IInv, CallOK, CommitVersion
  <2>2. ~Published(m, v)
    BY <1>1, <2>1 DEF CommitVersion, VersionTaken
  <2>3. \A n \in Modules, w \in Versions : n # m \/ w # v => version'[n][w] = version[n][w]
    BY <1>1, <2>1 DEF IInv, Typed, CommitVersion
  <2> QED BY <2>2, <2>3
<1>2. ASSUME IInv, NEW c \in Calls, CommitDeprecation(c) PROVE Stands
  <2>1. PICK m \in Modules, v \in Versions : m = asked[c].module /\ v = asked[c].version
    BY <1>2, InputKinds DEF IInv, CallOK, CommitDeprecation
  <2>2. version[m][v].deprecatedBy = Null /\ version[m][v] \in Row
    <3>1. RowOK(m, v) /\ version[m][v] \in Row
      BY <1>2 DEF IInv, Typed
    <3>2. <<m, v, "deprecated">> \notin outbox
      BY <1>2, <2>1 DEF CommitDeprecation, DeprecationTaken
    <3> QED BY <3>1, <3>2 DEF RowOK
  <2>3. version' = [version EXCEPT ![m][v].deprecatedBy = c]
    BY <1>2, <2>1 DEF CommitDeprecation
  <2>4. \A n \in Modules, w \in Versions : n # m \/ w # v => version'[n][w] = version[n][w]
    BY <1>2, <2>3 DEF IInv, Typed
  <2>5. version'[m][v] = [version[m][v] EXCEPT !.deprecatedBy = c]
    BY <1>2, <2>3 DEF IInv, Typed
  <2>6. /\ version'[m][v].deprecatedBy # Null
        /\ version'[m][v].publisher = version[m][v].publisher
        /\ version'[m][v].source = version[m][v].source
    BY <2>2, <2>5, RegistryAssumption DEF Row
  <2> QED BY <2>2, <2>4, <2>6
<1>3. ASSUME NEW c \in Calls, NEW m \in Modules, NEW v \in Versions,
             \/ \E source \in Sources : InspectSource(c, m, v, source)
             \/ ReadVersion(c, m, v)
             \/ ResolveBreakingBaseline(c, m, v)
      PROVE  version' = version
  BY <1>3 DEF InspectSource, ReadVersion, ResolveBreakingBaseline, tables
<1>5. ASSUME NEW c \in Calls, PutSource(c) \/ PutImage(c) \/ RollbackVersion(c) \/ Cleanup(c)
      PROVE  version' = version
  BY <1>5 DEF PutSource, PutImage, RollbackVersion, Cleanup, tables
<1>6. ASSUME NEW c \in Calls,
             RollbackDeprecation(c) \/ ReadStoredArtifact(c) \/ CommitReport(c) \/ Abandon(c)
      PROVE  version' = version
  BY <1>6 DEF RollbackDeprecation, ReadStoredArtifact, CommitReport, Abandon, tables
<1>7. ASSUME NEW c \in Calls, NEW m \in Modules, NEW p \in Projects, LinkModuleGitLabProject(c, m, p)
      PROVE  version' = version
  BY <1>7 DEF LinkModuleGitLabProject, tables
<1>8. ASSUME NEW m \in Modules, CreateModule(m) PROVE version' = version
  BY <1>8 DEF CreateModule
<1>9. version' = version => Stands
  OBVIOUS
<1> HIDE DEF Stands
<1>10. IInv /\ Next => Stands
  BY <1>1, <1>2, <1>3, <1>5, <1>6, <1>7, <1>8, <1>9 DEF Next
<1>11. IInv /\ [Next]_vars => [Stands]_vars
  BY <1>10
<1> QED BY Invariant, <1>11, PTL DEF Spec, FirstDeprecationStands, Stands

-----------------------------------------------------------------------------
(* The catalog that others see. *)

\* An event of a module or a report is one of its row, a call that made a report has
\* returned, and a call publishes a version of a module that exists.
Catalogued ==
  /\ \A m \in Modules : <<"created", m>> \in outbox => m \in modules
  /\ \A c \in Calls :
       /\ <<"breaking-report", c>> \in outbox => c \in reports
       /\ c \in reports => pc[c] = "done"
       /\ pc[c] \in {"source", "image", "commit"} => asked[c].module \in modules

LEMMA CataloguedInit == Init => Catalogued
BY DEF Init, Catalogued

\* A step of one call keeps it.
LEMMA CataloguedKept ==
  ASSUME Catalogued, NEW c \in Calls, pc[c] # "done",
         \A d \in Calls \ {c} : pc'[d] = pc[d] /\ asked'[d] = asked[d],
         pc'[c] \in {"source", "image", "commit"} => asked'[c].module \in modules,
         modules' = modules, reports' \in {reports, reports \cup {c}},
         reports' # reports => pc'[c] = "done",
         \A m \in Modules : <<"created", m>> \in outbox' => <<"created", m>> \in outbox,
         \A d \in Calls : <<"breaking-report", d>> \in outbox' =>
                            <<"breaking-report", d>> \in outbox \/ d \in reports'
  PROVE  Catalogued'
<1>1. c \notin reports
  BY DEF Catalogued
<1>2. ASSUME NEW d \in Calls
      PROVE  /\ <<"breaking-report", d>> \in outbox' => d \in reports'
             /\ d \in reports' => pc'[d] = "done"
             /\ pc'[d] \in {"source", "image", "commit"} => asked'[d].module \in modules'
  <2>1. CASE d = c
    BY <1>1, <2>1 DEF Catalogued
  <2>2. CASE d # c
    BY <2>2 DEF Catalogued
  <2> QED BY <2>1, <2>2
<1> QED BY <1>2 DEF Catalogued

\* What Goto, Return and Ask leave of the other calls.
LEMMA OthersKept ==
  ASSUME Typed, NEW c \in Calls,
         \/ \E to : Goto(c, to)
         \/ \E result, by : Return(c, result, by)
         \/ \E keys, result : StartCleanup(c, keys, result)
  PROVE  \A d \in Calls \ {c} : pc'[d] = pc[d]
BY DEF Typed, Goto, Return, StartCleanup

\* A call that begins.
LEMMA CataloguedBegin ==
  ASSUME IInv, Catalogued, NEW c \in Calls, NEW m \in Modules, NEW v \in Versions,
         \/ \E source \in Sources : InspectSource(c, m, v, source)
         \/ ReadVersion(c, m, v)
         \/ ResolveBreakingBaseline(c, m, v)
  PROVE  Catalogued'
<1>1. Typed /\ pc[c] = "idle" /\ m \in modules /\ UNCHANGED <<modules, reports, outbox>>
  BY DEF IInv, InspectSource, ReadVersion, ResolveBreakingBaseline, tables
<1>2. \A d \in Calls \ {c} : pc'[d] = pc[d]
  BY <1>1, OthersKept DEF InspectSource, ReadVersion, ResolveBreakingBaseline
<1>3. \A d \in Calls \ {c} : asked'[d] = asked[d]
  BY <1>1 DEF Typed, Ask, InspectSource, ReadVersion, ResolveBreakingBaseline
<1>4. asked'[c].module = m
  BY <1>1 DEF Typed, Ask, InspectSource, ReadVersion, ResolveBreakingBaseline
<1> QED BY <1>1, <1>2, <1>3, <1>4, CataloguedKept

\* A call that goes on.
LEMMA CataloguedGoOn ==
  ASSUME IInv, Catalogued, NEW c \in Calls,
         \/ PutSource(c) \/ PutImage(c) \/ CommitVersion(c) \/ RollbackVersion(c)
         \/ CommitDeprecation(c) \/ RollbackDeprecation(c) \/ ReadStoredArtifact(c)
  PROVE  Catalogued'
<1>1. /\ Typed /\ pc[c] # "done" /\ UNCHANGED <<modules, reports, asked>>
      /\ \E m, v : outbox' \in {outbox, outbox \cup {<<m, v, "published">>},
                                outbox \cup {<<m, v, "deprecated">>}}
  BY DEF IInv, PutSource, PutImage, CommitVersion, RollbackVersion, CommitDeprecation,
     RollbackDeprecation, ReadStoredArtifact, tables
<1>2. \A d \in Calls \ {c} : pc'[d] = pc[d]
  BY <1>1, OthersKept DEF PutSource, PutImage, CommitVersion, RollbackVersion, CommitDeprecation,
     RollbackDeprecation, ReadStoredArtifact
<1>3. pc'[c] \in {"source", "image", "commit"} => pc[c] \in {"source", "image", "commit"}
  BY <1>1 DEF Typed, PutSource, PutImage, CommitVersion, RollbackVersion, CommitDeprecation,
     RollbackDeprecation, ReadStoredArtifact, Goto, Return, StartCleanup
<1>4. pc'[c] \in {"source", "image", "commit"} => asked[c].module \in modules
  BY <1>3 DEF Catalogued
<1>5. \A x : <<"created", x>> \in outbox' => <<"created", x>> \in outbox
  BY <1>1
<1>6. \A x : <<"breaking-report", x>> \in outbox' => <<"breaking-report", x>> \in outbox
  BY <1>1
<1> QED BY <1>1, <1>2, <1>4, <1>5, <1>6, CataloguedKept

\* A call that ends or cleans up.
LEMMA CataloguedEnd ==
  ASSUME IInv, Catalogued, NEW c \in Calls, Cleanup(c) \/ Abandon(c) \/ CommitReport(c)
  PROVE  Catalogued'
<1>1. /\ Typed /\ pc[c] # "done" /\ UNCHANGED <<modules, asked>>
      /\ \/ UNCHANGED <<reports, outbox>>
         \/ reports' = reports \cup {c} /\ outbox' = outbox \cup {<<"breaking-report", c>>} /\ pc'[c] = "done"
  BY DEF IInv, Typed, Cleanup, Abandon, CommitReport, Return, tables
<1>2. \A d \in Calls \ {c} : pc'[d] = pc[d]
  BY <1>1, OthersKept DEF Typed, Cleanup, Abandon, CommitReport
<1>3. pc'[c] \notin {"source", "image", "commit"}
  BY <1>1 DEF Typed, Cleanup, Abandon, CommitReport, Return
<1>4. \A x : <<"created", x>> \in outbox' => <<"created", x>> \in outbox
  BY <1>1
<1>5. \A x : <<"breaking-report", x>> \in outbox' => <<"breaking-report", x>> \in outbox \/ x \in reports'
  BY <1>1
<1> QED BY <1>1, <1>2, <1>3, <1>4, <1>5, CataloguedKept

\* A call that links.
LEMMA CataloguedLink ==
  ASSUME IInv, Catalogued, NEW c \in Calls, NEW m \in Modules, NEW p \in Projects,
         LinkModuleGitLabProject(c, m, p)
  PROVE  Catalogued'
<1>1. /\ Typed /\ pc[c] = "idle" /\ UNCHANGED <<modules, reports>>
      /\ outbox' \in {outbox, outbox \cup {<<m, p, "linked">>}}
  BY DEF IInv, LinkModuleGitLabProject, tables
<1>2. \A d \in Calls \ {c} : pc'[d] = pc[d] /\ asked'[d] = asked[d]
  BY <1>1 DEF Typed, Ask, Return, LinkModuleGitLabProject
<1>3. pc'[c] = "done"
  BY <1>1 DEF Typed, Return, LinkModuleGitLabProject
<1>4. \A x : <<"created", x>> \in outbox' => <<"created", x>> \in outbox
  BY <1>1
<1>5. \A x : <<"breaking-report", x>> \in outbox' => <<"breaking-report", x>> \in outbox
  BY <1>1
<1> QED BY <1>1, <1>2, <1>3, <1>4, <1>5, CataloguedKept

LEMMA CataloguedNext == IInv /\ Catalogued /\ [Next]_vars => Catalogued'
<1> SUFFICES ASSUME IInv, Catalogued, [Next]_vars PROVE Catalogued'
  OBVIOUS
<1>1. ASSUME NEW m \in Modules, CreateModule(m) PROVE Catalogued'
  <2>1. /\ modules' = modules \cup {m} /\ outbox' = outbox \cup {<<"created", m>>}
        /\ UNCHANGED <<reports, pc, asked>>
    BY <1>1 DEF CreateModule
  <2>2. \A x : <<"breaking-report", x>> \in outbox' => <<"breaking-report", x>> \in outbox
    BY <2>1
  <2>3. \A x : <<"created", x>> \in outbox' => <<"created", x>> \in outbox \/ x = m
    BY <2>1
  <2> QED BY <2>1, <2>2, <2>3 DEF Catalogued
<1>2. CASE UNCHANGED vars
  BY <1>2 DEF vars, Catalogued
<1> QED BY <1>1, <1>2, CataloguedBegin, CataloguedGoOn, CataloguedEnd, CataloguedLink DEF Next

\* The catalog of the tables.
LEMMA CatalogRows ==
  /\ \A m, v, s, c : <<m, v, s, c>> \in PublishedVersions <=>
       /\ m \in Modules /\ v \in Versions /\ s \in Sources /\ c \in Calls
       /\ version[m][v].source = s /\ version[m][v].publisher = c
  /\ \A m, v, c : <<m, v, c>> \in Deprecations <=>
       m \in Modules /\ v \in Versions /\ c \in Calls /\ version[m][v].deprecatedBy = c
  /\ \A m, p : <<m, p>> \in Links <=> m \in Modules /\ p \in Projects /\ link[m] = p
BY DEF PublishedVersions, Deprecations, Links

\* A version is in the catalog when it is stored.
LEMMA HasVersionIs ==
  ASSUME IInv, NEW m \in Modules, NEW v \in Versions
  PROVE  C!HasVersion(m, v) <=> Published(m, v)
<1>1. RowOK(m, v) /\ version[m][v] \in Row
  BY DEF IInv, Typed
<1>2. ASSUME Published(m, v) PROVE C!HasVersion(m, v)
  <2>1. PICK c \in Calls : c = version[m][v].publisher
    BY <1>1, <1>2 DEF Published, Row
  <2>2. asked[c] \in PublishInput /\ asked[c].source = version[m][v].source
    BY <1>1, <1>2, <2>1 DEF RowOK, Publishing
  <2>3. version[m][v].source \in Sources
    BY <2>2 DEF PublishInput
  <2>4. <<m, v, version[m][v].source, c>> \in PublishedVersions
    BY <2>1, <2>3, CatalogRows
  <2> QED BY <2>3, <2>4 DEF C!HasVersion
<1>3. ASSUME C!HasVersion(m, v) PROVE Published(m, v)
  <2>1. PICK s \in Sources, c \in Calls : <<m, v, s, c>> \in PublishedVersions
    BY <1>3 DEF C!HasVersion
  <2> QED BY <2>1, CatalogRows, RegistryAssumption DEF Published
<1> QED BY <1>2, <1>3

\* A tuple is made of its parts.
LEMMA Parts3 == ASSUME NEW A, NEW B, NEW D, NEW x \in A \X B \X D
                PROVE  x = <<x[1], x[2], x[3]>> /\ x[1] \in A /\ x[2] \in B /\ x[3] \in D
OBVIOUS

LEMMA Parts4 == ASSUME NEW A, NEW B, NEW D, NEW E, NEW x \in A \X B \X D \X E
                PROVE  x = <<x[1], x[2], x[3], x[4]>> /\ x[1] \in A /\ x[2] \in B /\ x[3] \in D /\ x[4] \in E
OBVIOUS

\* A published version is new to the catalog.
LEMMA PublishSeen ==
  ASSUME IInv, Catalogued, NEW c \in Calls, CommitVersion(c)
  PROVE  \E m \in Modules, v \in Versions, s \in Sources : C!Publish(m, v, s, c)
<1>1. PICK m \in Modules, v \in Versions, s \in Sources :
        m = asked[c].module /\ v = asked[c].version /\ s = asked[c].source
  BY CallKeys DEF IInv, CallOK, CommitVersion
<1>2. /\ ~Published(m, v) /\ <<m, v, "published">> \notin outbox /\ m \in modules
      /\ outbox' = outbox \cup {<<m, v, "published">>}
      /\ UNCHANGED <<modules, link, reports>>
  BY <1>1 DEF CommitVersion, VersionTaken, Catalogued
<1>3. /\ version' = [version EXCEPT ![m][v] = [publisher |-> c, source |-> s, deprecatedBy |-> Null]]
      /\ version \in [Modules -> [Versions -> Row]]
  BY <1>1 DEF CommitVersion, IInv, Typed
<1>4. /\ \A n \in Modules, w \in Versions : n # m \/ w # v => version'[n][w] = version[n][w]
      /\ version'[m][v] = [publisher |-> c, source |-> s, deprecatedBy |-> Null]
  BY <1>3
<1>5. version[m][v].publisher = Null /\ version[m][v].deprecatedBy = Null
  BY <1>2 DEF IInv, RowOK, Published
<1>6. PublishedVersions' = PublishedVersions \cup {<<m, v, s, c>>}
  <2> DEFINE All == Modules \X Versions \X Sources \X Calls
  <2>1. ASSUME NEW x \in All
        PROVE  x \in PublishedVersions' <=> x \in PublishedVersions \/ x = <<m, v, s, c>>
    <3>1. PICK n \in Modules, w \in Versions, t \in Sources, d \in Calls : x = <<n, w, t, d>>
      BY Parts4
    <3>2. /\ x \in PublishedVersions <=> version[n][w].source = t /\ version[n][w].publisher = d
          /\ x \in PublishedVersions' <=> version'[n][w].source = t /\ version'[n][w].publisher = d
      BY <3>1 DEF PublishedVersions
    <3>3. CASE n = m /\ w = v
      BY <3>1, <3>2, <3>3, <1>4, <1>5, RegistryAssumption
    <3>4. CASE n # m \/ w # v
      BY <3>1, <3>2, <3>4, <1>4
    <3> QED BY <3>3, <3>4
  <2>2. PublishedVersions \subseteq All /\ PublishedVersions' \subseteq All /\ <<m, v, s, c>> \in All
    BY DEF PublishedVersions
  <2> HIDE DEF All
  <2> QED BY <2>1, <2>2
<1>7. Deprecations' = Deprecations
  <2>1. ASSUME NEW x \in Modules \X Versions \X Calls
        PROVE  version'[x[1]][x[2]].deprecatedBy = x[3] <=> version[x[1]][x[2]].deprecatedBy = x[3]
    <3>1. x[1] \in Modules /\ x[2] \in Versions
      BY Parts3
    <3>2. version'[x[1]][x[2]].deprecatedBy = version[x[1]][x[2]].deprecatedBy
      BY <3>1, <1>4, <1>5
    <3> QED BY <3>2
  <2> QED BY <2>1 DEF Deprecations
<1>8. Links' = Links
  BY <1>2 DEF Links
<1>9. ~ C!HasVersion(m, v)
  BY <1>2, HasVersionIs
<1> QED BY <1>2, <1>6, <1>7, <1>8, <1>9 DEF C!Publish, C!Announce

\* A deprecation is the first of its version.
LEMMA DeprecateSeen ==
  ASSUME IInv, NEW c \in Calls, CommitDeprecation(c)
  PROVE  \E m \in Modules, v \in Versions : C!Deprecate(m, v, c)
<1>1. PICK m \in Modules, v \in Versions : m = asked[c].module /\ v = asked[c].version
  BY InputKinds DEF IInv, CallOK, CommitDeprecation
<1>2. /\ Published(m, v) /\ <<m, v, "deprecated">> \notin outbox
      /\ outbox' = outbox \cup {<<m, v, "deprecated">>}
      /\ UNCHANGED <<modules, link, reports>>
  BY <1>1 DEF CommitDeprecation, DeprecationTaken, IInv, CallOK
<1>3. /\ version' = [version EXCEPT ![m][v].deprecatedBy = c]
      /\ version \in [Modules -> [Versions -> Row]]
  BY <1>1 DEF CommitDeprecation, IInv, Typed
<1>4. /\ \A n \in Modules, w \in Versions : n # m \/ w # v => version'[n][w] = version[n][w]
      /\ version'[m][v] = [version[m][v] EXCEPT !.deprecatedBy = c] /\ version[m][v] \in Row
  BY <1>3
<1>5. version'[m][v].deprecatedBy = c /\ \A n \in Modules, w \in Versions :
        version'[n][w].publisher = version[n][w].publisher /\ version'[n][w].source = version[n][w].source
  BY <1>4 DEF Row
<1>6. version[m][v].deprecatedBy = Null
  BY <1>2 DEF IInv, RowOK
<1>7. Deprecations' = Deprecations \cup {<<m, v, c>>}
  <2> DEFINE All == Modules \X Versions \X Calls
  <2>1. ASSUME NEW x \in All
        PROVE  x \in Deprecations' <=> x \in Deprecations \/ x = <<m, v, c>>
    <3>1. PICK n \in Modules, w \in Versions, d \in Calls : x = <<n, w, d>>
      BY Parts3
    <3>2. /\ x \in Deprecations <=> version[n][w].deprecatedBy = d
          /\ x \in Deprecations' <=> version'[n][w].deprecatedBy = d
      BY <3>1 DEF Deprecations
    <3>3. CASE n = m /\ w = v
      BY <3>1, <3>2, <3>3, <1>5, <1>6, RegistryAssumption
    <3>4. CASE n # m \/ w # v
      BY <3>1, <3>2, <3>4, <1>4
    <3> QED BY <3>3, <3>4
  <2>2. Deprecations \subseteq All /\ Deprecations' \subseteq All /\ <<m, v, c>> \in All
    BY DEF Deprecations
  <2> HIDE DEF All
  <2> QED BY <2>1, <2>2
<1>8. PublishedVersions' = PublishedVersions
  <2>1. ASSUME NEW x \in Modules \X Versions \X Sources \X Calls
        PROVE  /\ version'[x[1]][x[2]].source = version[x[1]][x[2]].source
               /\ version'[x[1]][x[2]].publisher = version[x[1]][x[2]].publisher
    BY Parts4, <1>5
  <2> QED BY <2>1 DEF PublishedVersions
<1>9. Links' = Links
  BY <1>2 DEF Links
<1>10. C!HasVersion(m, v) /\ \A d \in Calls : <<m, v, d>> \notin Deprecations
  BY <1>2, <1>6, HasVersionIs, CatalogRows, RegistryAssumption
<1> QED BY <1>2, <1>7, <1>8, <1>9, <1>10 DEF C!Deprecate, C!Announce

\* A link in force is of a project that no module had.
LEMMA LinkSeen ==
  ASSUME IInv, NEW c \in Calls, NEW m \in Modules, NEW p \in Projects, LinkModuleGitLabProject(c, m, p)
  PROVE  C!Link(m, p) \/ UNCHANGED C!cvars
<1>1. CASE UNCHANGED tables
  BY <1>1 DEF tables, C!cvars, PublishedVersions, Deprecations, Links
<1>2. CASE ~ UNCHANGED tables
  <2>1. /\ m \in modules /\ ~LinkRefused(m, p) /\ link' = [link EXCEPT ![m] = p]
        /\ outbox' = outbox \cup {<<m, p, "linked">>} /\ UNCHANGED <<modules, version, reports>>
    BY <1>2 DEF LinkModuleGitLabProject
  <2>2. <<m, p, "linked">> \notin outbox /\ \A n \in Modules \ {m} : link[n] # p
    BY <2>1 DEF LinkRefused, LinkedElsewhere
  <2>3. link[m] # p
    BY <2>2, RegistryAssumption DEF IInv, LinksAnnounced
  <2>4. link'[m] = p /\ \A n \in Modules \ {m} : link'[n] = link[n]
    BY <2>1 DEF IInv, Typed
  <2>5. Links' = {l \in Links : l[1] # m} \cup {<<m, p>>}
    <3>1. ASSUME NEW x \in Modules \X Projects
          PROVE  x \in Links' <=> x \in {l \in Links : l[1] # m} \/ x = <<m, p>>
      <4>1. PICK n \in Modules, q \in Projects : x = <<n, q>>
        OBVIOUS
      <4>2. /\ x \in Links <=> link[n] = q
            /\ x \in Links' <=> link'[n] = q
            /\ x[1] = n
        BY <4>1 DEF Links
      <4>3. CASE n = m
        BY <4>1, <4>2, <4>3, <2>4
      <4>4. CASE n # m
        BY <4>1, <4>2, <4>4, <2>4
      <4> QED BY <4>3, <4>4
    <3>2. Links \subseteq Modules \X Projects /\ Links' \subseteq Modules \X Projects /\ <<m, p>> \in Modules \X Projects
      BY DEF Links
    <3> QED BY <3>1, <3>2
  <2>6. PublishedVersions' = PublishedVersions /\ Deprecations' = Deprecations
    BY <2>1 DEF PublishedVersions, Deprecations
  <2>7. \A n \in Modules : <<n, p>> \notin Links
    BY <2>2, <2>3, CatalogRows
  <2> QED BY <2>1, <2>2, <2>5, <2>6, <2>7 DEF C!Link, C!Announce
<1> QED BY <1>1, <1>2

\* A report is the only one of its call.
LEMMA ReportSeen ==
  ASSUME IInv, Catalogued, NEW c \in Calls, CommitReport(c)
  PROVE  C!Report(c) \/ UNCHANGED C!cvars
<1>1. CASE UNCHANGED tables
  BY <1>1 DEF tables, C!cvars, PublishedVersions, Deprecations, Links
<1>2. CASE ~ UNCHANGED tables
  <2>1. /\ reports' = reports \cup {c} /\ outbox' = outbox \cup {<<"breaking-report", c>>}
        /\ UNCHANGED <<modules, version, link>> /\ pc[c] = "check"
    BY <1>2 DEF CommitReport
  <2>2. c \notin reports /\ <<"breaking-report", c>> \notin outbox
    BY <2>1 DEF Catalogued
  <2>3. UNCHANGED <<PublishedVersions, Deprecations, Links>>
    BY <2>1 DEF PublishedVersions, Deprecations, Links
  <2> QED BY <2>1, <2>2, <2>3 DEF C!Report, C!Announce
<1> QED BY <1>1, <1>2

\* Whatever calls overlap, fail or lose their answer, others see the catalog: every
\* step changes at most one thing in it, for the first time, and announces that with a
\* new event (unique indexes, WithinTransaction, service.go:112-134, 204-227, 399-457,
\* 529-548, 743-757).
THEOREM RegistryIsCatalog == Spec => ImplementsCatalog
<1>1. Init => C!CInit
  <2> SUFFICES ASSUME Init PROVE C!CInit
    OBVIOUS
  <2>1. \A m \in Modules, v \in Versions : version[m][v] = Unpublished
    BY DEF Init
  <2>2. ASSUME NEW x, x \in PublishedVersions PROVE FALSE
    <3>1. x[1] \in Modules /\ x[2] \in Versions /\ x[4] \in Calls /\ version[x[1]][x[2]].publisher = x[4]
      BY <2>2, Parts4 DEF PublishedVersions
    <3> QED BY <2>1, <3>1, RegistryAssumption DEF Unpublished
  <2>3. ASSUME NEW x, x \in Deprecations PROVE FALSE
    <3>1. x[1] \in Modules /\ x[2] \in Versions /\ x[3] \in Calls /\ version[x[1]][x[2]].deprecatedBy = x[3]
      BY <2>3, Parts3 DEF Deprecations
    <3> QED BY <2>1, <3>1, RegistryAssumption DEF Unpublished
  <2>4. ASSUME NEW x, x \in Links PROVE FALSE
    <3>1. x[1] \in Modules /\ x[2] \in Projects /\ link[x[1]] = x[2]
      BY <2>4 DEF Links
    <3> QED BY <3>1, RegistryAssumption DEF Init
  <2> QED BY <2>2, <2>3, <2>4 DEF C!CInit, Init
<1>2. IInv /\ Catalogued /\ [Next]_vars => [C!CNext]_(C!cvars)
  <2> SUFFICES ASSUME IInv, Catalogued, [Next]_vars PROVE C!CNext \/ UNCHANGED C!cvars
    OBVIOUS
  <2>1. UNCHANGED tables => UNCHANGED C!cvars
    BY DEF tables, C!cvars, PublishedVersions, Deprecations, Links
  <2>2. ASSUME NEW m \in Modules, CreateModule(m) PROVE C!Create(m)
    <3>1. m \notin modules /\ <<"created", m>> \notin outbox
      BY <2>2 DEF CreateModule, Catalogued
    <3>2. UNCHANGED <<PublishedVersions, Deprecations, Links>>
      BY <2>2 DEF CreateModule, PublishedVersions, Deprecations, Links
    <3> QED BY <2>2, <3>1, <3>2 DEF CreateModule, C!Create, C!Announce
  <2>3. ASSUME NEW c \in Calls, NEW m \in Modules, NEW v \in Versions,
               \/ \E source \in Sources : InspectSource(c, m, v, source)
               \/ ReadVersion(c, m, v)
               \/ ResolveBreakingBaseline(c, m, v)
        PROVE  UNCHANGED tables
    BY <2>3 DEF InspectSource, ReadVersion, ResolveBreakingBaseline
  <2>4. ASSUME NEW c \in Calls,
               \/ PutSource(c) \/ PutImage(c) \/ RollbackVersion(c) \/ Cleanup(c)
               \/ RollbackDeprecation(c) \/ ReadStoredArtifact(c) \/ Abandon(c)
        PROVE  UNCHANGED tables
    BY <2>4 DEF PutSource, PutImage, RollbackVersion, Cleanup, RollbackDeprecation, ReadStoredArtifact, Abandon
  <2>5. CASE UNCHANGED vars
    BY <2>1, <2>5 DEF vars, tables
  <2>6. ASSUME NEW c \in Calls,
               \/ CommitVersion(c) \/ CommitDeprecation(c) \/ CommitReport(c)
               \/ \E m \in Modules, p \in Projects : LinkModuleGitLabProject(c, m, p)
        PROVE  C!CNext \/ UNCHANGED C!cvars
    BY <2>6, PublishSeen, DeprecateSeen, ReportSeen, LinkSeen DEF C!CNext
  <2>7. CASE \E m \in Modules : CreateModule(m)
    BY <2>2, <2>7 DEF C!CNext
  <2> QED BY <2>1, <2>3, <2>4, <2>5, <2>6, <2>7 DEF Next
<1>3. Spec => []Catalogued
  BY Invariant, CataloguedInit, CataloguedNext, PTL DEF Spec
<1> QED BY <1>1, <1>2, <1>3, Invariant, PTL DEF Spec, ImplementsCatalog, C!CSpec

=============================================================================

------------------------------- MODULE Catalog -------------------------------
(***************************************************************************)
(* What the registry promises to those who read it and to those who listen *)
(* to its events: a version is published once, of a module that exists,    *)
(* and never changes afterwards but by one deprecation; a GitLab project   *)
(* belongs to at most one module; and every change is announced in the     *)
(* same step by an event of its own.  Module Registry is shown to          *)
(* implement this specification.                                           *)
(***************************************************************************)

CONSTANTS Calls, Modules, Versions, Sources, Projects

VARIABLES created,     \* modules
          published,   \* versions: module, version, source and the call that published it
          deprecated,  \* deprecations: module, version and the call that made it
          linked,      \* links in force: module and project
          reported,    \* calls that made a report of breaking changes
          announced    \* events

cvars == <<created, published, deprecated, linked, reported, announced>>

CInit ==
  /\ created = {} /\ published = {} /\ deprecated = {}
  /\ linked = {} /\ reported = {} /\ announced = {}

\* An event is announced once.
Announce(event) == event \notin announced /\ announced' = announced \cup {event}

HasVersion(m, v) == \E s \in Sources, c \in Calls : <<m, v, s, c>> \in published

Create(m) ==
  /\ Announce(<<"created", m>>)
  /\ m \notin created
  /\ created' = created \cup {m}
  /\ UNCHANGED <<published, deprecated, linked, reported>>

Publish(m, v, s, c) ==
  /\ Announce(<<m, v, "published">>)
  /\ m \in created
  /\ ~HasVersion(m, v)
  /\ published' = published \cup {<<m, v, s, c>>}
  /\ UNCHANGED <<created, deprecated, linked, reported>>

Deprecate(m, v, c) ==
  /\ Announce(<<m, v, "deprecated">>)
  /\ HasVersion(m, v)
  /\ \A d \in Calls : <<m, v, d>> \notin deprecated
  /\ deprecated' = deprecated \cup {<<m, v, c>>}
  /\ UNCHANGED <<created, published, linked, reported>>

\* The module gives up its project for the new one, and does not get it back: the
\* event of a link is sent once.
Link(m, p) ==
  /\ Announce(<<m, p, "linked">>)
  /\ m \in created
  /\ \A n \in Modules : <<n, p>> \notin linked
  /\ linked' = {l \in linked : l[1] # m} \cup {<<m, p>>}
  /\ UNCHANGED <<created, published, deprecated, reported>>

Report(c) ==
  /\ Announce(<<"breaking-report", c>>)
  /\ c \notin reported
  /\ reported' = reported \cup {c}
  /\ UNCHANGED <<created, published, deprecated, linked>>

CNext ==
  \/ \E m \in Modules :
       \/ Create(m)
       \/ \E v \in Versions, c \in Calls :
            Deprecate(m, v, c) \/ \E s \in Sources : Publish(m, v, s, c)
       \/ \E p \in Projects : Link(m, p)
  \/ \E c \in Calls : Report(c)

CSpec == CInit /\ [][CNext]_cvars
=============================================================================

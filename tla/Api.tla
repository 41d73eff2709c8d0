---------------------------------- MODULE Api ----------------------------------
(***************************************************************************)
(* One call of the API from end to end: a user runs a command of the CLI,  *)
(* or another HTTP client sends a request; the server authenticates,       *)
(* decodes, runs the use case and answers; the client reads the answer or  *)
(* gives up after its timeout while the server goes on, and the user may   *)
(* run the command again.  The attempts then race on the server.           *)
(*                                                                         *)
(* A use case is two steps: what it reads (and every refusal before its    *)
(* transaction) and its commit, which may also fail, or succeed with its   *)
(* acknowledgement lost.                                                   *)
(***************************************************************************)
EXTENDS CliApi

CONSTANTS
  Tokens,        \* API tokens; a token's name is the subject of its principal
  MaxAttempts,   \* bound on how often a user runs a command
  Services       \* use cases wired into the HTTP server

ASSUME ApiAssumption ==
  /\ MaxAttempts \in Nat \ {0}
  /\ Services \subseteq {"registry", "runtime", "governance"}

VARIABLES
  override,    \* governance actor override, an option of the server
  tokens,      \* api_tokens: "valid", "expired" or "absent"
  config,      \* the token in the user's CLI configuration, "" before login
  call,        \* what is called, with what
  attempt,     \* the server's view of each time it was sent
  present,     \* whether the change asked for is in the tables
  effects,     \* changes made: by which attempt, as whom
  counted,     \* publish, breaking check and runtime report counters
  client       \* what the user sees

vars == <<override, tokens, config, call, attempt, present, effects, counted, client>>

Attempts == 1..MaxAttempts
Credentials == Tokens \cup {"none", "bootstrap"}

NoCall == [command |-> "none", route |-> "none", credential |-> "none", actor |-> "",
           body |-> [kind |-> "empty", fields |-> {}, size |-> "small"]]
NoAttempt == [phase |-> "unsent", principal |-> "", actor |-> "", found |-> FALSE,
              result |-> "none", verdict |-> "none", status |-> 0]
NoOutcome == [phase |-> "idle", attempt |-> 0, succeeded |-> FALSE, status |-> 0, exit |-> 0]

Init ==
  /\ override \in BOOLEAN
  /\ tokens \in [Tokens -> {"valid", "absent"}]
  /\ config \in {""} \cup {t \in Tokens : tokens[t] = "valid"}
  /\ call = NoCall
  /\ attempt = [i \in Attempts |-> NoAttempt]
  /\ present = FALSE
  /\ effects = {}
  /\ counted = [success |-> 0, error |-> 0]
  /\ client = NoOutcome

H == Handlers[call.route]
Server == <<override, tokens, call, present, effects, counted>>

-----------------------------------------------------------------------------
(* The client. *)

Sent(i) == attempt' = [attempt EXCEPT ![i].phase = "arrived"]
Waiting(i) == client' = [NoOutcome EXCEPT !.phase = "waiting", !.attempt = i]

\* The override is read for the handlers that take an actor only.
OverrideMatters(route) == override => Handlers[route].actor = "requested"

\* A command sends the optional fields the user gave (omitempty).
RunCommand(c, token, actor, size, there) ==
  LET q == Commands[c].request IN
  /\ OverrideMatters(q.route)
  /\ IF c = "login" THEN token # "" ELSE token = config /\ config # ""  \* App.client
  /\ Handlers[q.route].actor = "requested" \/ actor = ""                \* --actor
  /\ q.kind = "multipart" \/ size = "small"
  /\ Handlers[q.route].effect = "once" \/ ~ there
  /\ call' = [command |-> c, route |-> q.route, credential |-> token, actor |-> actor,
              body |-> [kind |-> q.kind, size |-> size,
                        fields |-> IF actor = "" THEN q.fields \ {"actor"} ELSE q.fields]]
  /\ present' = there
  /\ Sent(1)
  /\ Waiting(1)
  /\ UNCHANGED <<override, tokens, config, effects, counted>>

\* The bodies another client may send: right, too large, with a field missing
\* or unknown, of another kind.
RequestBodies(h) ==
  LET kind == IF h.body = "optional" THEN "json" ELSE h.body
      right == [kind |-> kind, fields |-> h.fields, size |-> "small"]
      empty == [kind |-> "empty", fields |-> {}, size |-> "small"] IN
  IF h.body = "none" THEN {empty}
  ELSE {right, empty, [right EXCEPT !.size = "large"], [right EXCEPT !.fields = {}],
        [right EXCEPT !.fields = {"unknown"}]}

\* Any other HTTP client, with any credential.
SendRequest(route, credential, actor, body, there) ==
  /\ config = ""
  /\ OverrideMatters(route)
  /\ Handlers[route].actor = "requested" \/ actor = ""
  /\ Handlers[route].effect = "once" \/ ~ there
  /\ call' = [command |-> "none", route |-> route, credential |-> credential,
              actor |-> actor, body |-> body]
  /\ present' = there
  /\ Sent(1)
  /\ Waiting(1)
  /\ UNCHANGED <<override, tokens, config, effects, counted>>

Ended(succeeded, status, exit) ==
  client' = [client EXCEPT !.phase = "ended", !.succeeded = succeeded,
                           !.status = status, !.exit = exit]

\* login stores the token once the server has accepted it.
Receive ==
  LET a == attempt[client.attempt]
      succeeded == ClientSucceeds(a.status) IN
  /\ client.phase = "waiting"
  /\ a.phase = "answered"
  /\ Ended(succeeded, a.status, ExitCode(call.command, succeeded, a.verdict))
  /\ config' = IF call.command = "login" /\ succeeded THEN call.credential ELSE config
  /\ UNCHANGED <<Server, attempt>>

\* The HTTP client's timeout, or a broken connection, before or while the
\* answer is read.
ClientTimeout ==
  /\ client.phase = "waiting"
  /\ Ended(FALSE, 0, 2)
  /\ UNCHANGED <<Server, config, attempt>>

\* The user repeats a command that got no answer.
Retry ==
  /\ client.phase = "ended"
  /\ client.status = 0
  /\ call.command # "none"
  /\ client.attempt < MaxAttempts
  /\ Sent(client.attempt + 1)
  /\ Waiting(client.attempt + 1)
  /\ UNCHANGED <<Server, config>>

-----------------------------------------------------------------------------
(* The server. *)

\* The publish, breaking check and runtime report counters.
RecordMetric(result) ==
  IF result = "ok" THEN [counted EXCEPT !.success = @ + 1] ELSE [counted EXCEPT !.error = @ + 1]

\* writeError or writeJSON, after the handler's metric, once it is behind
\* authentication.
Answer(i, h, result, count) ==
  LET status == Status(h, result) IN
  /\ attempt' = [attempt EXCEPT ![i].phase = "answered", ![i].result = result,
                                ![i].status = status]
  /\ counted' = IF h.metric /\ count THEN RecordMetric(result) ELSE counted

Authenticated(i, principal) ==
  attempt' = [attempt EXCEPT ![i].phase = "handler", ![i].principal = principal,
                                ![i].found = present]

\* requireBearer, requireAuthorization and requireBootstrapToken.  A failing
\* token lookup is answered like a wrong token; a failing MarkUsed is ignored.
Authenticate(i) ==
  LET c == call.credential
      known == c \in Tokens /\ tokens[c] = "valid" IN
  /\ attempt[i].phase = "arrived"
  /\ \/ /\ H.auth = "none" \/ (H.auth = "bootstrap" /\ c = "bootstrap")
        /\ Authenticated(i, "")
        /\ UNCHANGED counted
     \/ /\ H.auth = "bearer"
        /\ known
        /\ IF CommunityActionAllowed(H.action)
           THEN Authenticated(i, c) /\ UNCHANGED counted
           ELSE Answer(i, H, "forbidden", FALSE)
     \/ /\ H.auth = "bearer" \/ (H.auth = "bootstrap" /\ c # "bootstrap")
        /\ Answer(i, H, "unauthorized", FALSE)
  /\ UNCHANGED <<override, tokens, config, call, present, effects, client>>

\* The handler up to its use case's transaction.
Handle(i) ==
  LET decoded == DecodeBody(H, call.body)
      actor == IF H.actor = "requested"
               THEN ResolveGovernanceActor(attempt[i].principal, call.actor, override)
               ELSE [err |-> "none", subject |-> attempt[i].principal] IN
  /\ attempt[i].phase = "handler"
  /\ IF H.service # "none" /\ H.service \notin Services THEN Answer(i, H, "other", TRUE)
     ELSE IF decoded # "none" THEN Answer(i, H, decoded, TRUE)
     ELSE IF actor.err # "none" THEN Answer(i, H, actor.err, TRUE)
     ELSE \/ \E err \in H.errors : Answer(i, H, err, TRUE)
          \/ /\ H.effect = "none"
             /\ Answer(i, H, "ok", TRUE)
          \/ /\ H.effect # "none"
             /\ present /\ H.found # "commit"
             /\ Answer(i, H, H.found, TRUE)
          \/ /\ H.effect # "none"
             /\ ~ (present /\ H.found # "commit")
             /\ attempt' = [attempt EXCEPT ![i].phase = "committing", ![i].actor = actor.subject]
             /\ UNCHANGED counted
  /\ UNCHANGED <<override, tokens, config, call, present, effects, client>>

\* A stored breaking report has a verdict.
Verdicts == IF call.route = "createBreakingCheck" THEN {"passed", "breaking"} ELSE {"none"}

Applied(i, verdict) ==
  /\ present' = TRUE
  /\ effects' = effects \cup {[attempt |-> i, actor |-> attempt[i].actor, verdict |-> verdict]}

\* The transaction; its commit may succeed although an error is returned.
Commit(i) ==
  /\ attempt[i].phase = "committing"
  /\ \/ /\ H.effect = "once" /\ present
        /\ Answer(i, H, H.raced, TRUE)
        /\ UNCHANGED <<present, effects>>
     \/ /\ ~ (H.effect = "once" /\ present)
        /\ \E verdict \in Verdicts :
             \/ /\ Applied(i, verdict)
                /\ counted' = IF H.metric THEN [counted EXCEPT !.success = @ + 1] ELSE counted
                /\ attempt' = [attempt EXCEPT ![i].phase = "answered", ![i].result = "ok",
                                              ![i].status = Status(H, "ok"), ![i].verdict = verdict]
             \/ Applied(i, verdict) /\ Answer(i, H, "other", TRUE)
     \/ /\ Answer(i, H, "other", TRUE)
        /\ UNCHANGED <<present, effects>>
  /\ UNCHANGED <<override, tokens, config, call, client>>

\* Tokens run out while calls are under way: it matters to a call that is not
\* yet authenticated.
TokenExpires(t) ==
  /\ tokens[t] = "valid"
  /\ call.credential = t
  /\ \E i \in Attempts : attempt[i].phase = "arrived"
  /\ tokens' = [tokens EXCEPT ![t] = "expired"]
  /\ UNCHANGED <<override, config, call, attempt, present, effects, counted, client>>

\* Every call ends; the user may be done.
Done ==
  /\ client.phase = "ended"
  /\ \A i \in Attempts : attempt[i].phase \in {"unsent", "answered"}
  /\ UNCHANGED vars

Next ==
  \/ /\ client.phase = "idle"
     /\ \/ \E c \in DOMAIN Commands, t \in Tokens, actor \in Tokens \cup {""},
             size \in {"small", "large"}, there \in BOOLEAN :
             RunCommand(c, t, actor, size, there)
        \/ \E r \in DOMAIN Handlers, c \in Credentials, actor \in Tokens \cup {""},
             there \in BOOLEAN :
             \E body \in RequestBodies(Handlers[r]) : SendRequest(r, c, actor, body, there)
  \/ Receive
  \/ ClientTimeout
  \/ Retry
  \/ \E i \in Attempts : Authenticate(i) \/ Handle(i) \/ Commit(i)
  \/ \E t \in Tokens : TokenExpires(t)
  \/ Done

Spec == Init /\ [][Next]_vars

-----------------------------------------------------------------------------
(* Properties. *)

TypeOK ==
  /\ tokens \in [Tokens -> {"valid", "expired", "absent"}]
  /\ config \in {""} \cup Tokens
  /\ \A i \in Attempts :
       /\ attempt[i].phase \in {"unsent", "arrived", "handler", "committing", "answered"}
       /\ attempt[i].phase = "answered" <=> attempt[i].status \in 200..599
  /\ effects \subseteq [attempt : Attempts, actor : Tokens \cup {""},
                        verdict : {"none", "passed", "breaking"}]
  /\ client.exit \in 0..2

\* Every change is made by an authenticated caller, under its own name unless
\* the server allows overrides; a token is made by the bootstrap token only.
ActsAsPrincipal ==
  \A e \in effects :
    IF H.auth = "bootstrap" THEN call.credential = "bootstrap"
    ELSE /\ call.credential \in Tokens
         /\ e.actor = call.credential \/ (override /\ H.actor = "requested" /\ e.actor = call.actor)

\* An attempt answered with success finds its change in the tables; one
\* answered with a refusal (4xx) has changed nothing.  Only a 5xx leaves open
\* what happened.  The counters agree with the answers: a counted request that was
\* let in is counted once, as a success exactly if it was answered so.
AnswersTruthful ==
  LET letIn == {i \in Attempts : attempt[i].phase = "answered" /\ attempt[i].status \notin {401, 403}}
      succeeded == {i \in letIn : attempt[i].status < 300} IN
  /\ \A i \in Attempts :
       LET a == attempt[i] IN
       a.phase = "answered" =>
         /\ a.status < 300 /\ H.effect # "none" => present
         /\ a.status \in 400..499 => \A e \in effects : e.attempt # i
  /\ call # NoCall /\ H.metric => /\ counted.success = Cardinality(succeeded)
                                  /\ counted.error = Cardinality(letIn \ succeeded)

\* The server lets the caller act under the name asked for.
ActorAccepted == override \/ call.actor \in {"", call.credential}

\* The two messages that may be wrong, and what is then the case.  "Already linked to
\* another module" (module_commands.go:144) is also printed when the module repeats
\* a link of its own (registry/service.go:219-221); "server rejected the provided
\* --actor" (governance.go:323) also when the actor was accepted but may not decide the
\* requirement (approval_service.go:226-228).
Misleading(message, result) ==
  \/ message = AlreadyLinked /\ result = "ErrGitLabProjectLinkRepeated" /\ present
  \/ message = ActorRefused /\ result = "ErrApprovalActorForbidden" /\ ActorAccepted

\* The messages the commands print for a class of answers ("version already
\* exists", "module was not found", "baseline is not Buf-compatible") are true but in
\* the two cases of Misleading: the use case answered with an error the message is
\* about, and an actor said to be rejected is one the server does not accept.
MessagesTruthful ==
  LET result == attempt[client.attempt].result IN
  /\ client.phase = "ended"
  /\ client.status # 0
  /\ call.command \in DOMAIN Commands
  => \A m \in Commands[call.command].says : Printed(m, client.status, call.actor, result) =>
       \/ result \in m[2] /\ (m = ActorRefused => ~ ActorAccepted)
       \/ Misleading(m, result)

\* The documented exit codes: 0 only if the change is in force (a login's token
\* was valid), 1 only with a breaking report stored, and always then.
ExitTruthful ==
  client.phase = "ended" /\ call.command # "none" =>
    LET verdicts == {e.verdict : e \in {x \in effects : x.attempt = client.attempt}} IN
    /\ client.exit = 0 => /\ H.effect # "none" => present
                          /\ client.succeeded
                          /\ "breaking" \notin verdicts
                          /\ call.command = "login" => tokens[config] # "absent"
    /\ client.exit = 1 => verdicts = {"breaking"}

\* What a command sends and says: no command is refused for the form of its body, its
\* messages name the error there was but in the two cases of Misleading, and its exit
\* code is the documented one.
CommandTruthful ==
  /\ call.command # "none" => \A i \in Attempts : attempt[i].result # "bad_request"
  /\ MessagesTruthful
  /\ ExitTruthful

\* Deprecating a version or requesting an approval is idempotent: a call that
\* begins when the change is in force does not fail over it.  Only a call that
\* overlaps the first one can lose to it (and is then answered with a 500 by
\* the deprecation, whose duplicate event no case of writeUsecaseError names).
RepeatsIdempotent ==
  call.route \in {"deprecateModuleVersion", "createApprovalRequest"} =>
    \A i \in Attempts : attempt[i].found =>
      attempt[i].result \notin {"ErrDuplicate", "ErrApprovalRequestConflict"}
=============================================================================

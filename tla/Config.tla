-------------------------------- MODULE Config --------------------------------
(***************************************************************************)
(* The server's configuration (internal/config) and what becomes of it:    *)
(* defaults, then the YAML file, then the environment; validation; and the *)
(* components that replace a setting they find unusable by a default of    *)
(* their own.                                                              *)
(*                                                                         *)
(* A setting's value is the class of values its checks tell apart: "x" and *)
(* "y" are two usable ones ("x" < "y" for numbers and durations), "zero",  *)
(* "negative", "blank", "malformed" (does not parse), "unlisted" (no value *)
(* of an enumeration), "commas" (a list without elements); paths are kept. *)
(***************************************************************************)

Durations ==
  {"server.http_read_header_timeout", "server.http_read_timeout", "server.http_write_timeout",
   "server.http_idle_timeout", "buf.build_timeout", "buf.lint_timeout",
   "outbox_publisher.poll_interval", "outbox_publisher.lease_duration",
   "outbox_publisher.initial_backoff", "outbox_publisher.max_backoff"}
Numbers ==
  {"server.http_max_header_bytes", "server.max_request_body_bytes",
   "registry.max_artifact_size_bytes", "buf.max_report_bytes", "breaking.max_report_bytes",
   "breaking.max_changes", "outbox_publisher.batch_size", "outbox_publisher.max_attempts"}
Flags ==
  {"storage.s3.use_path_style", "buf.require_config", "governance.enabled",
   "governance.allow_maintainer_approval", "governance.actor_override_enabled",
   "outbox_publisher.enabled", "ui.enabled"}
RequiredSettings ==
  {"server.http_addr", "database.url", "storage.s3.endpoint", "storage.s3.bucket",
   "storage.s3.access_key", "storage.s3.secret_key", "auth.token_hash_secret",
   "buf.binary_path", "breaking.default_against"}
Enumerations == {"buf.lint_mode", "log.level", "log.format"}
Paths == {"ui.base_path", "ui.static_path"}

\* The paths of envBindings, which are the leaves of supportedYAMLKey.
Settings ==
  Durations \cup Numbers \cup Flags \cup RequiredSettings \cup Enumerations \cup Paths \cup
  {"storage.s3.region", "auth.bootstrap_token", "governance.production_environments"}

WithoutDefault ==
  {"database.url", "storage.s3.endpoint", "storage.s3.bucket", "storage.s3.access_key",
   "storage.s3.secret_key", "auth.token_hash_secret", "auth.bootstrap_token"}

Defaults ==
  [p \in Settings |->
    CASE p \in WithoutDefault -> "blank"
      [] p = "ui.base_path" -> "/ui"
      [] p = "ui.static_path" -> "/ui/static"
      [] p \in {"outbox_publisher.enabled", "governance.actor_override_enabled"} -> "false"
      [] p \in Flags -> "true"
      [] p = "outbox_publisher.max_backoff" -> "y"
      [] OTHER -> "x"]

-----------------------------------------------------------------------------
(* LoadFile. *)

\* validateConfigEnv: a value of the environment must parse even if it is blank.
ValidateEnvValue(p, v) ==
  p \in Durations \cup Numbers \cup Flags => v \notin {"malformed", "blank"}

\* The file wins over the environment.
Merge_FileLast(yaml, env) ==
  [p \in Settings |-> IF p \in DOMAIN yaml THEN yaml[p]
                      ELSE IF p \in DOMAIN env THEN env[p] ELSE Defaults[p]]
Merge(yaml, env) ==
  [p \in Settings |-> IF p \in DOMAIN env THEN env[p]
                      ELSE IF p \in DOMAIN yaml THEN yaml[p] ELSE Defaults[p]]

\* The decoder is weakly typed: a blank number of the file is 0, a blank flag false.
Decode(p, v) ==
  IF v # "blank" THEN v
  ELSE IF p \in Numbers THEN "zero" ELSE IF p \in Flags THEN "false" ELSE v
Decodes(p, v) ==
  p \in Durations \cup Numbers \cup Flags => Decode(p, v) \notin {"malformed", "blank"}

\* Unknown keys of the file are refused, unknown variables are not.
LoadFile(yaml, env) ==
  LET merged == Merge(yaml, env) IN
  IF \/ ~ (DOMAIN yaml \subseteq Settings)
     \/ \E p \in DOMAIN env \cap Settings : ~ ValidateEnvValue(p, env[p])
     \/ \E p \in Settings : ~ Decodes(p, merged[p])
  THEN [err |-> TRUE, config |-> Defaults]
  ELSE [err |-> FALSE, config |-> [p \in Settings |-> Decode(p, merged[p])]]

-----------------------------------------------------------------------------
(* Validate. *)

Usable == {"x", "y"}

ValidateNumbers(c) == \A p \in Durations \cup Numbers : c[p] \in Usable
ValidateRequired(c) == \A p \in RequiredSettings : c[p] # "blank"
ValidateEnumerations(c) == \A p \in Enumerations : c[p] \in Usable
ValidateGovernance(c) ==
  c["governance.enabled"] = "true" => c["governance.production_environments"] \in Usable
ValidateOutboxPublisher(c) ==
  ~ (c["outbox_publisher.initial_backoff"] = "y" /\ c["outbox_publisher.max_backoff"] = "x")

Absolute == {"/", "/ui", "/ui/", "/ui/static", "/other"}
\* The prefix test is made on the paths as given, without the base's last "/".
Under(base, static) == base = "/" \/ (base \in {"/ui", "/ui/"} /\ static \in {"/ui/", "/ui/static"})
ValidateUI(c) ==
  LET base == c["ui.base_path"]
      static == c["ui.static_path"] IN
  /\ {base, static} \subseteq Absolute
  /\ static # base
  /\ Under(base, static)

Validate(c) ==
  /\ ValidateNumbers(c)
  /\ ValidateRequired(c)
  /\ ValidateEnumerations(c)
  /\ ValidateGovernance(c)
  /\ ValidateOutboxPublisher(c)
  /\ ValidateUI(c)

NormalizePath(path) == IF path = "/ui/" THEN "/ui" ELSE path

\* Runtime: a list of environments is parsed if governance needs it or it is
\* not blank, so "," is refused even with governance disabled.
Runtime(c) ==
  LET envs == c["governance.production_environments"] IN
  IF ~ Validate(c) \/ (envs = "commas") THEN [err |-> TRUE, config |-> c]
  ELSE [err |-> FALSE,
        config |-> [c EXCEPT !["ui.base_path"] = NormalizePath(@),
                             !["ui.static_path"] = NormalizePath(@)]]

-----------------------------------------------------------------------------
(* The components' own defaults. *)

Positive(v, default) == IF v \in Usable THEN v ELSE default

NormalizePublisherOptions(c) ==
  LET initial == Positive(c["outbox_publisher.initial_backoff"], "x")
      max == Positive(c["outbox_publisher.max_backoff"], "y") IN
  [c EXCEPT !["outbox_publisher.batch_size"] = Positive(@, "x"),
            !["outbox_publisher.poll_interval"] = Positive(@, "x"),
            !["outbox_publisher.lease_duration"] = Positive(@, "x"),
            !["outbox_publisher.max_attempts"] = Positive(@, "x"),
            !["outbox_publisher.initial_backoff"] = initial,
            !["outbox_publisher.max_backoff"] =
               IF initial = "y" /\ max = "x" THEN initial ELSE max]

NewWorkflow(c) ==
  [c EXCEPT !["buf.binary_path"] = IF @ = "blank" THEN "x" ELSE @,
            !["buf.build_timeout"] = Positive(@, "x"),
            !["buf.lint_timeout"] = Positive(@, "x"),
            !["buf.lint_mode"] = IF @ = "blank" THEN "x" ELSE @,
            !["buf.max_report_bytes"] = Positive(@, "x")]

\* web.NewServer takes "/" for no path.
NewWebServer(c) ==
  LET base == IF c["ui.base_path"] = "/" THEN "/ui" ELSE c["ui.base_path"] IN
  [c EXCEPT !["ui.base_path"] = base,
            !["ui.static_path"] = IF @ = "/" THEN "/ui/static" ELSE @]

\* NewHTTPHandlerWithObservability: at base path "/" the pages take the whole
\* mux and the API is not mounted.
ApiMounted(c) == c["ui.enabled"] = "true" => c["ui.base_path"] # "/"

-----------------------------------------------------------------------------
(* What an operator may give the server: the file and the environment each *)
(* set at most one thing beyond what has no default.                       *)

Values(p) ==
  CASE p \in Durations \cup Numbers -> {"x", "y", "zero", "negative", "blank", "malformed"}
    [] p \in Flags -> {"true", "false", "blank", "malformed"}
    [] p \in Enumerations -> {"x", "y", "blank", "unlisted"}
    [] p \in Paths -> Absolute \cup {"blank", "relative"}
    [] p = "governance.production_environments" -> {"x", "blank", "commas"}
    [] p \in Settings -> {"x", "y", "blank"}
    [] OTHER -> {"x"}

Secrets == [p \in WithoutDefault |-> "x"]
With(file, p, v) == [q \in DOMAIN file \cup {p} |-> IF q = p THEN v ELSE file[q]]
OneMore(file, keys) == {file} \cup UNION {{With(file, p, v) : v \in Values(p)} : p \in keys}

Files == {<<>>} \cup OneMore(Secrets, Settings \cup {"unknown.key"})
ProcessEnvironments ==
  OneMore(<<>>, {"outbox_publisher.enabled", "log.level", "ui.base_path", "unknown.key"})
=============================================================================

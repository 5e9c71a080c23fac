---------------------------- MODULE ServerSetup ----------------------------
(***************************************************************************)
(* How a server comes up, and how an embedding program creates an engine.  *)
(*                                                                         *)
(* A launch is what the process finds: command line, environment, config   *)
(* file, PORT and the files it can read.  Startup resolves the arguments,  *)
(* confines the process when a manifest asks for it, joins the cluster,    *)
(* opens the stores, attaches policies, tool servers and features, fetches *)
(* the keys and serves; each stage may end the process.  An embedded       *)
(* engine opens the stores of its data directory one by one, against any   *)
(* other engine of the same directory.                                     *)
(*                                                                         *)
(* The wording and the parsing of values is left out: a value is what the  *)
(* parser makes of it, or is marked as one that does not parse.            *)
(***************************************************************************)
EXTENDS Naturals, Sequences, FiniteSets, SequencesExt

CONSTANTS
  None,           \* an argument that is not set, a result that is not there
  Engines         \* the engines an embedding program creates

VARIABLES
  launch,         \* what the process is started with
  args,           \* the resolved arguments (Cli)
  stage,          \* how far startup is, or how it ended
  up,             \* what is running or attached
  touched,        \* the paths the process has opened since it was confined
  embeds          \* the engines an embedding program creates

setupVars == <<launch, args, stage, up, touched, embeds>>

-----------------------------------------------------------------------------
(* The arguments: their built-in values, by the group that declares them. *)
CoreArgs ==
  [config |-> None, print_openapi |-> FALSE, jwks_url |-> None, session_id |-> None,
   session_fork_from |-> None, http_port |-> None, sse_port |-> None, bind_host |-> "0.0.0.0",
   allowed_hosts |-> <<>>, session_db_path |-> "/db", dynamodb_table |-> None]
StoreArgs ==
  [heap_store |-> "none", heap_dir |-> None, fs_store |-> "none", fs_dir |-> None, fs_labels_db |-> None,
   sandbox_manifest |-> None, s3_bucket |-> None, cache_dir |-> None]
ClusterArgs ==
  [instructions |-> None, run_js_description |-> None, cluster_port |-> None, metadata_only |-> FALSE,
   join |-> None]
ModuleArgs ==
  [wasm_modules |-> <<>>, wasm_config |-> None, wasm_stub_descriptions |-> <<>>, fetch_headers |-> <<>>,
   fetch_header_config |-> None, allow_external_modules |-> FALSE, allow_run_js_file |-> FALSE]
PolicyArgs ==
  [policies_json |-> None, mcp_servers |-> <<>>, mcp_config |-> None, mcp_stub_prefix |-> "mcp"]
Defaults == CoreArgs @@ StoreArgs @@ ClusterArgs @@ ModuleArgs @@ PolicyArgs
Appends == {"allowed_hosts", "wasm_modules", "wasm_stub_descriptions", "fetch_headers", "mcp_servers"}

(* conflicts_with, and what the metadata-only mode excludes. *)
MetadataExcludes ==
  {"http_port", "sse_port", "jwks_url", "wasm_modules", "wasm_config", "policies_json", "mcp_servers", "mcp_config",
   "allow_run_js_file", "allow_external_modules", "instructions", "run_js_description"}
Conflicts ==
  {{"http_port", "sse_port"}, {"dynamodb_table", "cluster_port"}} \cup {{"metadata_only", k} : k \in MetadataExcludes}
Requires == {<<"metadata_only", "cluster_port">>, <<"cache_dir", "s3_bucket">>}
Clash(keys) == \E pair \in Conflicts : pair \subseteq keys

(* SECTIONS and REJECTED_KEYS of the config file. *)
SectionOf ==
  [wasm |-> "wasm_config", mcp_servers |-> "mcp_config", fetch_headers |-> "fetch_header_config",
   policies |-> "policies_json", sandbox |-> "sandbox_manifest"]
SectionShape == [wasm |-> "object", mcp_servers |-> "array", fetch_headers |-> "array", policies |-> "object",
                 sandbox |-> "object"]
Rejected == {"config", "print_openapi", "wasm_modules", "wasm_stub_descriptions"}
Target(key) == IF key \in DOMAIN SectionOf THEN SectionOf[key] ELSE key

(* The file gives keys, dashes read as underscores, a shape and a value; some *)
(* twice, spelt both ways.  load_document refuses any other document.         *)
FileKeys == DOMAIN launch.file.entries

(* compute_overrides: what makes the file unusable. *)
FileRefused ==
  \/ launch.file.document # "object"
  \/ Clash(FileKeys \cap DOMAIN Defaults)
  \/ launch.file.twice # {}
  \/ \E key \in FileKeys :
       LET shape == launch.file.entries[key].shape
       IN \/ key \in Rejected
          \/ key \in DOMAIN SectionOf /\ (SectionOf[key] \in FileKeys \/ shape # SectionShape[key])
          \/ key \notin DOMAIN SectionOf \cup DOMAIN Defaults
          \/ key \notin DOMAIN SectionOf /\ (shape = "object" \/ (shape = "array" /\ key \notin Appends))

(* config_path_from: the flag, or else the variable. *)
HasFile == "config" \in DOMAIN launch.argv \cup DOMAIN launch.env

(* The value of an argument: command line, environment, file, built-in. *)
Resolved(key) ==
  CASE key \in DOMAIN launch.argv -> launch.argv[key]
    [] key \in DOMAIN launch.env \ DOMAIN launch.argv -> launch.env[key]
    [] OTHER -> LET given == {k \in FileKeys : HasFile /\ Target(k) = key}
                IN IF given = {} THEN Defaults[key] ELSE launch.file.entries[CHOOSE k \in given : TRUE].value

(* What clap counts as present is on the command line or in the environment: *)
(* the file's values are defaults to it.                                     *)
Present == DOMAIN launch.argv \cup DOMAIN launch.env
ClapRefuses == Clash(Present) \/ \E r \in Requires : r[1] \in Present /\ r[2] \notin Present

(* apply_port_env: PORT stands in for a port nobody chose. *)
WithPort(cli) ==
  IF cli.http_port # None \/ cli.sse_port # None \/ cli.metadata_only \/ launch.port = None
    THEN cli
    ELSE [cli EXCEPT !.http_port = launch.port]

-----------------------------------------------------------------------------
SetupStart(start, engines) ==
  /\ launch = start
  /\ args = None
  /\ stage = "parse"
  /\ up = [parts |-> {}, chains |-> {}, tools |-> {}, routes |-> {}]
  /\ touched = {}
  /\ embeds = [e \in Engines |-> [config |-> engines[e], at |-> IF engines[e] = None THEN "never" ELSE "new",
                               todo |-> <<>>, got |-> {}]]

Has(part) == part \in up.parts
With(parts) == [up EXCEPT !.parts = @ \cup parts]

(* A stage: what it opens counts once the process is confined, whether the *)
(* stage succeeds or ends the process.                                     *)
Step(next, more, paths) ==
  /\ stage' = next
  /\ up' = more
  /\ touched' = IF Has("confined") THEN touched \cup paths ELSE touched
  /\ UNCHANGED <<launch, args, embeds>>
Continue(next, paths) == Step(next, up, paths)
Refused(paths) == Step("refused", up, paths)

Parse ==
  /\ stage = "parse"
  /\ LET cli == [key \in DOMAIN Defaults |-> Resolved(key)]
         Unset == cli.http_port = None /\ cli.sse_port = None /\ ~cli.metadata_only
     IN IF (HasFile /\ FileRefused) \/ ClapRefuses \/ (Unset /\ launch.port = "malformed")
          THEN Refused({})
          ELSE /\ args' = WithPort(cli)
               /\ stage' = "main"
               /\ UNCHANGED <<launch, up, touched, embeds>>

(* main: a scheduled-only worker has no heap and one transport. *)
Main ==
  /\ stage = "main"
  /\ IF launch.scheduled /\ (args.heap_store # "none" \/ args.http_port = None \/ args.sse_port # None)
       THEN Refused({})
     ELSE IF args.print_openapi THEN Continue("printed", {})
     ELSE Continue("sandbox", {})

-----------------------------------------------------------------------------
(* The OS sandbox. *)
Or(value, fallback) == IF value = None THEN fallback ELSE value

(* SandboxPlan::from_cli *)
WriteDirs ==
  {args.session_db_path}
  \cup (IF args.heap_store = "dir" THEN {Or(args.heap_dir, "/tmp/heaps")} ELSE {})
  \cup (IF args.fs_store = "dir" THEN {Or(args.fs_dir, args.session_db_path)} ELSE {})
  \cup (IF args.fs_store # "none" THEN {Or(args.fs_labels_db, args.session_db_path)} ELSE {})
  \cup ({args.cache_dir} \ {None})

Texts == {args.instructions, args.run_js_description} \ {None}
Documents == {args.wasm_config, args.fetch_header_config, args.mcp_config, args.policies_json} \ {None}
ReadPaths ==
  ({args.config} \ {None})
  \cup {t.path : t \in {t \in Texts : t.path # None}}
  \cup {m.path : m \in ToSet(args.wasm_modules)}
  \cup {d.path : d \in {d \in Documents : d.path \in launch.files}}
  \cup (IF args.policies_json = None THEN {} ELSE args.policies_json.rego)

Granted == WriteDirs \cup ReadPaths \cup args.sandbox_manifest.grants

(* sandbox::apply, before any thread is started: the manifest must be one   *)
(* this process can enforce, every configured path must exist, and a        *)
(* blocked network needs a kernel that lets the listeners through.          *)
ApplySandbox ==
  /\ stage = "sandbox"
  /\ LET m == args.sandbox_manifest
         Ports == {args.http_port, args.sse_port, args.cluster_port} \ {None}
     IN IF m = None
          THEN Continue("runtime", {})
        ELSE IF \/ ~m.enforceable \/ ~launch.landlock
                \/ ~(ReadPaths \subseteq launch.files)
                \/ m.blocked /\ Ports # {} /\ ~launch.netrules
          THEN Refused({})
        ELSE Step("runtime", With({"confined"}), {})

Readable(path) == path \in launch.files /\ (Has("confined") => path \in Granted)

StartRuntime ==
  /\ stage = "runtime"
  /\ Step("metadata", With({"runtime"}), {})

-----------------------------------------------------------------------------
(* async_main: the metadata-only conflicts once more, wherever the values    *)
(* came from.                                                                *)
IsSet(key) == args[key] # Defaults[key]
MetadataConflicts ==
  /\ stage = "metadata"
  /\ IF args.metadata_only /\ \E key \in MetadataExcludes : IsSet(key)
       THEN Refused({})
       ELSE Continue("cluster", {})

(* The cluster node, and the join request: a failed join is a warning. *)
StartCluster ==
  /\ stage = "cluster"
  /\ IF args.cluster_port = None
       THEN Continue("mode", {})
       ELSE \E joined \in IF args.join = None THEN {{}} ELSE {{}, {"joined"}} :
              Step("mode", With({"node"} \cup joined), {args.session_db_path})

(* A metadata-only node serves replication until it is told to stop; it      *)
(* expects a cluster port, which the parser asked for when the flag was      *)
(* given on the command line or in the environment.                          *)
MetadataOnly ==
  /\ stage = "mode"
  /\ Continue(CASE ~args.metadata_only -> "wasm"
                [] args.metadata_only /\ Has("node") -> "replica"
                [] args.metadata_only /\ ~Has("node") -> "panicked", {})

StopReplica ==
  /\ stage = "replica"
  /\ Step("stopped", [up EXCEPT !.parts = @ \ {"node"}], {})

(* load_wasm_modules *)
ConfigModules == IF args.wasm_config = None THEN <<>> ELSE args.wasm_config.modules
WasmModules == args.wasm_modules \o ConfigModules
NamesDiffer(items) == \A i, j \in DOMAIN items : items[i].name = items[j].name => i = j
NamesValid(items) == \A i \in DOMAIN items : items[i].valid
DocumentRead(doc) == doc = None \/ (doc.valid /\ (doc.path = None \/ Readable(doc.path)))
DocumentPaths(doc) == IF doc = None THEN {} ELSE {doc.path} \ {None}

LoadWasm ==
  /\ stage = "wasm"
  /\ LET paths == DocumentPaths(args.wasm_config) \cup {WasmModules[i].path : i \in DOMAIN WasmModules}
     IN IF /\ DocumentRead(args.wasm_config)
           /\ NamesValid(WasmModules) /\ NamesDiffer(WasmModules)
           /\ \A i \in DOMAIN WasmModules : Readable(WasmModules[i].path)
           /\ \A i \in DOMAIN args.wasm_stub_descriptions :
                \E j \in DOMAIN WasmModules : WasmModules[j].name = args.wasm_stub_descriptions[i]
          THEN Continue("rules", paths)
          ELSE Refused(paths)

(* The combinations that are refused at startup. *)
heap_enabled == args.heap_store # "none"
fs_enabled == args.fs_store # "none"
StartupRules ==
  /\ stage = "rules"
  /\ IF \/ args.session_fork_from # None /\ ~heap_enabled /\ ~fs_enabled
        \/ heap_enabled /\ WasmModules # <<>>
        \/ fs_enabled /\ Has("node") /\ args.fs_store # "s3"
        \/ args.fs_store = "s3" /\ args.s3_bucket = None
       THEN Refused({})
       ELSE Continue("storage", {})

(* The directories that building the storage opens. *)
StorageDirs ==
  {args.session_db_path}
  \cup (IF args.heap_store = "dir" THEN {Or(args.heap_dir, "/tmp/heaps")} ELSE {})
  \cup (IF fs_enabled THEN {Or(args.fs_labels_db, args.session_db_path)} ELSE {})
  \cup (IF args.fs_store = "dir" THEN {Or(args.fs_dir, args.session_db_path)} ELSE {})
  \cup (IF "s3" \in {args.heap_store, args.fs_store} THEN {args.cache_dir} \ {None} ELSE {})

(* build_storage_engine (module McpFrontEnd has its steps): explicit backends *)
(* fail, a local store that does not open is done without; a fork needs its   *)
(* own session.                                                               *)
BuildStorage ==
  /\ stage = "storage"
  /\ LET Stores == {"registry"} \cup (IF heap_enabled THEN {"log", "tags"} ELSE {})
                                \cup (IF fs_enabled THEN {"log", "labels"} ELSE {})
         Forks == args.session_fork_from # None
     IN \E opened \in SUBSET Stores :
          /\ args.dynamodb_table # None => Stores \ {"registry"} \subseteq opened
          /\ IF \/ args.dynamodb_table # None /\ (Has("node") \/ launch.probe_fails)
                \/ args.heap_store = "s3" /\ args.s3_bucket = None
                \/ Forks /\ "log" \in opened /\ (args.session_id = None \/ args.session_id = args.session_fork_from)
               THEN Refused(StorageDirs)
               ELSE Step("policies",
                         With(opened \cup (IF heap_enabled THEN {"heap"} ELSE {})
                                     \cup (IF "labels" \in opened THEN {"fs"} ELSE {})),
                         StorageDirs)

-----------------------------------------------------------------------------
(* parse_fetch_header_cli and FetchHeaderConfigRule: a rule is the set of    *)
(* keys it gives, and whether their values parse.                            *)
OAuthKeys == {"token_url", "client_id", "client_secret"}
DynamicKeys == OAuthKeys \cup {"scope", "refresh_buffer_secs"}
FetchHeaderKeys == {"host", "methods", "header", "value", "override"} \cup DynamicKeys
RuleParses(rule) ==
  LET Dynamic == rule.keys \cap DynamicKeys # {}
  IN /\ rule.keys \subseteq FetchHeaderKeys
     /\ rule.parse
     /\ {"host", "header"} \subseteq rule.keys
     /\ "override" \in rule.keys => ~Dynamic
     /\ "value" \in rule.keys <=> ~Dynamic
     /\ Dynamic => OAuthKeys \subseteq rule.keys
(* fetch_header_rule: no required value is blank. *)
fetch_header_rule(rule) == rule.blank = {}

FetchRules ==
  args.fetch_headers \o IF args.fetch_header_config = None THEN <<>> ELSE args.fetch_header_config.rules

(* with_policy_config: one chain per operation the document configures; the  *)
(* filesystem is there when it has a chain or snapshots, permissive without  *)
(* a chain; a chain that does not build ends startup.                        *)
Chains == IF args.policies_json = None THEN {} ELSE args.policies_json.chains
RunJsFile ==
  CASE args.allow_run_js_file -> "file_any"
    [] ~args.allow_run_js_file /\ "run_js_file" \in Chains -> "file_policy"
    [] OTHER -> "file_off"

(* Allowing every file overrides the policy of run_js_file. *)
Attached == Chains \ IF RunJsFile = "file_any" THEN {"run_js_file"} ELSE {}

AttachPolicies ==
  /\ stage = "policies"
  /\ LET Rego == IF args.policies_json = None THEN {} ELSE args.policies_json.rego
         paths == DocumentPaths(args.policies_json) \cup DocumentPaths(args.fetch_header_config) \cup Rego
         Surface == (IF "filesystem" \in Chains \/ Has("fs") THEN {"fs_surface"} ELSE {})
                    \cup (IF args.allow_external_modules THEN {"external"} ELSE {})
     IN IF /\ DocumentRead(args.policies_json) /\ (args.policies_json # None => args.policies_json.builds)
           /\ \A p \in Rego : Readable(p)
           /\ DocumentRead(args.fetch_header_config)
           /\ \A i \in DOMAIN FetchRules : RuleParses(FetchRules[i]) /\ fetch_header_rule(FetchRules[i])
          THEN Step("tools", [With(Surface \cup {RunJsFile}) EXCEPT !.chains = Attached], paths)
          ELSE Refused(paths)

(* load_mcp_server_configs and with_upstream_mcp_config: all the servers     *)
(* connect, or startup ends.                                                 *)
ToolConfigs == args.mcp_servers \o IF args.mcp_config = None THEN <<>> ELSE args.mcp_config.servers
ConnectTools ==
  /\ stage = "tools"
  /\ IF /\ DocumentRead(args.mcp_config)
        /\ NamesValid(ToolConfigs) /\ NamesDiffer(ToolConfigs)
        /\ ToolConfigs # <<>> => args.mcp_stub_prefix # ""
        /\ \A i \in DOMAIN ToolConfigs : ToolConfigs[i].reachable
       THEN Step("features", [up EXCEPT !.tools = {ToolConfigs[i].name : i \in DOMAIN ToolConfigs}],
                 DocumentPaths(args.mcp_config))
       ELSE Refused(DocumentPaths(args.mcp_config))

(* resolve_text_or_file and with_feature_config. *)
AttachFeatures ==
  /\ stage = "features"
  /\ IF /\ \A t \in Texts : t.path = None \/ Readable(t.path)
        /\ ~(Has("heap") /\ WasmModules # <<>>)
       THEN Step("keys", With(IF WasmModules = <<>> THEN {} ELSE {"wasm"}), {t.path : t \in Texts} \ {None})
       ELSE Refused({t.path : t \in Texts} \ {None})

(* The keys are fetched once before anything is served. *)
FetchKeys ==
  /\ stage = "keys"
  /\ IF args.jwks_url # None /\ launch.jwks_fails
       THEN Refused({})
       ELSE Step("transport", With({"engine"} \cup IF args.jwks_url = None THEN {} ELSE {"verifier"}), {})

-----------------------------------------------------------------------------
(* resolve_allowed_hosts: blank entries count for nothing, a star is "any". *)
AllowedHosts ==
  LET given == {h \in ToSet(args.allowed_hosts) : h # "blank"}
  IN CASE "*" \in given -> {}
       [] given # {} /\ "*" \notin given -> given
       [] OTHER -> {"localhost", "127.0.0.1", "::1"}

(* start_streamable_http and start_sse_server: the routes, those behind the  *)
(* bearer check first.                                                       *)
Routes ==
  IF args.http_port # None /\ launch.scheduled
    THEN [protected |-> {"scheduled"}, open |-> {}]
    ELSE [protected |-> {"mcp", "api", "functions"}, open |-> {"openapi", "uploads"}]

StartTransport ==
  /\ stage = "transport"
  /\ IF args.http_port = None /\ args.sse_port = None
       THEN Step("serving", With({"stdio"}), {})
     ELSE IF launch.bind_fails \/ args.bind_host = "malformed"
       THEN Continue("stopping", {})
     ELSE LET Guard == IF Has("verifier") THEN "bearer" ELSE "anyone"
          IN Step("serving",
                  [With({IF args.http_port # None THEN "http" ELSE "sse"}) EXCEPT
                     !.routes = Routes.protected \X {Guard} \cup Routes.open \X {"anyone"}],
                  {})

(* Ctrl-C, or the end of standard input. *)
StopServing ==
  /\ stage = "serving"
  /\ Step("stopping", [up EXCEPT !.parts = @ \ {"http", "sse", "stdio"}, !.routes = {}], {})

(* runtime.shutdown, whether the transport served or failed to start. *)
ShutDownRuntime ==
  /\ stage = "stopping"
  /\ Step("stopped", [up EXCEPT !.parts = @ \ {"engine", "node"}, !.tools = {}], {})

-----------------------------------------------------------------------------
(* An embedded engine.  Its configuration: data directory (None: a private   *)
(* temporary one), whether it wants heaps and snapshots, and where its       *)
(* labels live; whether limits, policies, modules and buckets are valid.     *)
EngineConfig(dir, heap, fs, labels, valid) ==
  [dir |-> dir, heap |-> heap, fs |-> fs, labels |-> labels, valid |-> valid]

(* The stores create opens, in order, each at its path. *)
StorePath(e, store) ==
  LET c == embeds[e].config
  IN CASE store = "labels" /\ c.labels # None -> <<"at", c.labels, store>>
       [] (store # "labels" \/ c.labels = None) /\ c.dir # None -> <<"at", c.dir, store>>
       [] (store # "labels" \/ c.labels = None) /\ c.dir = None -> <<"private", e, store>>
StoreOrder(c) ==
  (IF c.heap \/ c.fs THEN <<"log">> ELSE <<>>) \o (IF c.heap THEN <<"tags">> ELSE <<>>)
  \o (IF c.fs THEN <<"labels">> ELSE <<>>) \o <<"registry">>
Live(e) == embeds[e].at \in {"opening", "up"}
Taken(e, store) ==
  \E d \in Engines \ {e} : Live(d) /\ \E other \in embeds[d].got : StorePath(d, other) = StorePath(e, store)

OnlyEngine(e, record) ==
  /\ embeds' = [embeds EXCEPT ![e] = record]
  /\ UNCHANGED <<launch, args, stage, up, touched>>

CreateEngine(e) ==
  /\ embeds[e].at = "new"
  /\ OnlyEngine(e, [embeds[e] EXCEPT !.at = IF embeds[e].config.valid THEN "opening" ELSE "failed",
                                     !.todo = StoreOrder(embeds[e].config)])

(* The bootstrap goes on without a store another process or engine holds. *)
OpenStore(e) ==
  /\ embeds[e].at = "opening"
  /\ embeds[e].todo # <<>>
  /\ LET store == Head(embeds[e].todo)
     IN OnlyEngine(e, [embeds[e] EXCEPT !.todo = Tail(@),
                                        !.got = IF Taken(e, store) THEN @ ELSE @ \cup {store}])

(* create then fails when a store it needs is not there, and drops the rest. *)
FinishCreate(e) ==
  /\ embeds[e].at = "opening"
  /\ embeds[e].todo = <<>>
  /\ LET c == embeds[e].config
         got == embeds[e].got
         Stateful == c.heap \/ "labels" \in got
         Unavailable == "registry" \notin got \/ (Stateful /\ "log" \notin got) \/ (c.heap /\ "tags" \notin got)
     IN OnlyEngine(e, IF Unavailable THEN [embeds[e] EXCEPT !.at = "failed", !.got = {}]
                                     ELSE [embeds[e] EXCEPT !.at = "up"])

(* The last reference goes: stores and a private directory with it. *)
DropEngine(e) ==
  /\ embeds[e].at = "up"
  /\ OnlyEngine(e, [embeds[e] EXCEPT !.at = "dropped", !.got = {}])

SetupNext ==
  \/ Parse \/ Main \/ ApplySandbox \/ StartRuntime \/ MetadataConflicts \/ StartCluster \/ MetadataOnly
  \/ StopReplica \/ LoadWasm \/ StartupRules \/ BuildStorage \/ AttachPolicies \/ ConnectTools
  \/ AttachFeatures \/ FetchKeys \/ StartTransport \/ StopServing \/ ShutDownRuntime
  \/ \E e \in Engines : CreateEngine(e) \/ OpenStore(e) \/ FinishCreate(e) \/ DropEngine(e)

-----------------------------------------------------------------------------
(* Nothing is served on weaker terms than the launch asked for.  A process   *)
(* whose manifest was accepted is confined before it starts a thread.  With  *)
(* a key server every route but the published specification and the upload   *)
(* links asks for a token; a scheduled-only worker serves its own route      *)
(* alone, without heaps; a metadata-only node never has an engine; every     *)
(* chain the policies configure is attached, that of run_js_file unless the  *)
(* launch allows every file, and every tool server connected.  Host checks   *)
(* are off only where a star says so.                                        *)
SetupGates ==
  /\ Has("runtime") /\ args.sandbox_manifest # None => Has("confined")
  /\ stage = "serving" =>
       /\ args.jwks_url # None => \A r \in up.routes : r[2] = "bearer" \/ r[1] \in {"openapi", "uploads"}
       /\ launch.scheduled => {r[1] : r \in up.routes} = {"scheduled"} /\ args.heap_store = "none" /\ Has("http")
       /\ ~Has("heap") \/ ~Has("wasm")
       /\ ~(Has("node") /\ args.dynamodb_table # None)
       /\ Chains \ up.chains \subseteq IF args.allow_run_js_file THEN {"run_js_file"} ELSE {}
       /\ Cardinality(up.tools) = Len(ToolConfigs)
       /\ AllowedHosts = {} => "*" \in ToSet(args.allowed_hosts)
  /\ stage # "parse" /\ args # None /\ args.metadata_only => ~Has("engine") /\ up.routes = {}

(* A confined start opens only what its plan granted, modules named inside a *)
(* WASM document excepted: the plan does not look into that document.        *)
SandboxCovers ==
  Has("confined") => touched \subseteq Granted \cup {ConfigModules[i].path : i \in DOMAIN ConfigModules}

(* A process that ended has no engine, listener or tool server left, however  *)
(* its transport ended.  Of two engines only one has a store; an engine that  *)
(* was created has its registry, its log when it keeps anything, and its tags *)
(* when it keeps heaps.                                                       *)
SetupHeld ==
  /\ stage = "stopped" => up.tools = {} /\ up.routes = {} /\ up.parts \cap {"engine", "node", "http", "sse", "stdio"} = {}
  /\ \A d, e \in Engines : d # e =>
       {StorePath(d, st) : st \in embeds[d].got} \cap {StorePath(e, st) : st \in embeds[e].got} = {}
  /\ \A e \in Engines : embeds[e].at = "up" =>
       /\ "registry" \in embeds[e].got
       /\ embeds[e].config.heap => {"log", "tags"} \subseteq embeds[e].got
       /\ "labels" \in embeds[e].got => "log" \in embeds[e].got
=============================================================================

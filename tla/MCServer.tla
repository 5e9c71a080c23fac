------------------------------ MODULE MCServer ------------------------------
(***************************************************************************)
(* The parts of the system that are checked next to the engine.  Of the    *)
(* server: stored snapshots, their labels and the cache in front of object *)
(* storage; HTTP functions, hook stacks, tokens and upstream tool servers; *)
(* console output, artifact uploads and the MCP front end; isolates, the   *)
(* REST and native interfaces, and startup.  Of the runtime a script sees: *)
(* files, sockets, HTTP/2, child processes, modules and timers.  A         *)
(* behaviour is a behaviour of one part, the one that part names; the      *)
(* parts share no state in the program (each locks its own), so they take  *)
(* turns at the variables s1 to s11 here.                                  *)
(***************************************************************************)
EXTENDS Naturals, Sequences, FiniteSets, TLC

CONSTANTS None, Whiteout, Unsafe

VARIABLES part, s1, s2, s3, s4, s5, s6, s7, s8, s9, s10, s11

vars == <<part, s1, s2, s3, s4, s5, s6, s7, s8, s9, s10, s11>>

(* The variables a part has no use for. *)
Spare11 == s11 = None
Spare10 == s10 = None /\ Spare11
Spare9 == s9 = None /\ Spare10
Spare8 == s8 = None /\ Spare9
Spare7 == s7 = None /\ Spare8
Spare6 == s6 = None /\ Spare7
Spare5 == s5 = None /\ Spare6
Spare4 == s4 = None /\ Spare5
Spare3 == s3 = None /\ Spare4

Kept12 == part' = part
Kept11 == s11' = s11 /\ Kept12
Kept10 == s10' = s10 /\ Kept11
Kept9 == s9' = s9 /\ Kept10
Kept8 == s8' = s8 /\ Kept9
Kept7 == s7' = s7 /\ Kept8
Kept6 == s6' = s6 /\ Kept7
Kept5 == s5' = s5 /\ Kept6
Kept4 == s4' = s4 /\ Kept5
Kept3 == s3' = s3 /\ Kept4

-----------------------------------------------------------------------------
(* A mounted snapshot: two directories; files and directories share names. *)
FilePaths == {<<"a">>, <<"b">>, <<"a", "b">>}
PlainFile(x) == [bytes |-> <<x>>, link |-> FALSE]
FileEntries == {PlainFile(1)}
Manifests ==
  {<<>>, <<"a">> :> PlainFile(1),
   <<"a">> :> PlainFile(1) @@ <<"a", "b">> :> PlainFile(2),
   <<"a">> :> PlainFile(2) @@ <<"b", "b">> :> PlainFile(0),
   <<"a", "b">> :> PlainFile(2) @@ <<"b", "b">> :> PlainFile(1)}

Tree == INSTANCE SnapshotFs WITH
    base <- s1, upper <- s2, reply <- s3, fsSteps <- s4, FirstRoots <- {}, MaxFsSteps <- 3,
    MaxPage <- 9
FirstTrees == {Tree!PutManifest(m) : m \in Manifests}
Fs == INSTANCE SnapshotFs WITH
    base <- s1, upper <- s2, reply <- s3, fsSteps <- s4, FirstRoots <- FirstTrees, MaxFsSteps <- 3, MaxPage <- 9

(* What the session of the fs part sees is the flat map's files. *)
Flat == INSTANCE FlatFilesystem WITH
    Paths <- FilePaths, Entries <- FileEntries, Snapshots <- Manifests, Absent <- None,
    files <- IF part = "fs" THEN Fs!View ELSE <<>>, answer <- IF part = "fs" THEN s3 ELSE <<"ok">>

FsRoots == {None, Tree!PutManifest(<<"a", "b">> :> PlainFile(2) @@ <<"b", "b">> :> PlainFile(1))}

-----------------------------------------------------------------------------
(* Labels and tags: two callers on one label, or on the tags of one heap. *)
Labels == INSTANCE SnapshotLabels WITH
    labelSite <- s1, heads <- s2, rows <- s3, nextKey <- s4, blobs <- s5, tags <- s6,
    caller <- s7, labelled <- s8, merged <- s9, LabelNames <- {"m"},
    LabelCallers <- {"x", "y"}, LabelRoots <- {"r", "s", "t"},
    BlobsOf <- ("r" :> {1, 2} @@ "s" :> {2, 3} @@ "t" :> {4}), MaxForce <- 2

Verb(v) == [verb |-> v, label |-> "m", target |-> "t", expected |-> None,
            force |-> FALSE, unlogged |-> FALSE, keys |-> {}]
LabelVerbs ==
  {[Verb("label") EXCEPT !.target = "s"], [Verb("push") EXCEPT !.target = "s"],
   [Verb("push") EXCEPT !.expected = "r"], [Verb("push") EXCEPT !.force = TRUE],
   [Verb("reset") EXCEPT !.target = "r"], [Verb("reset") EXCEPT !.unlogged = TRUE]}
TagVerbs ==
  {[Verb("merge") EXCEPT !.keys = {"k"}], [Verb("merge") EXCEPT !.keys = {"j"}],
   [Verb("delete") EXCEPT !.keys = {"k"}], [Verb("set") EXCEPT !.keys = {"j"}]}
LabelSite(cluster, keep, head, calls) ==
  [cluster |-> cluster, keep |-> keep, heads |-> "m" :> head,
   calls |-> "x" :> calls[1] @@ "y" :> calls[2]]
LabelSites ==
  {LabelSite(FALSE, keep, "r", cs) : keep \in {None, 1}, cs \in LabelVerbs \X LabelVerbs}
    \cup {LabelSite(FALSE, None, None, cs) : cs \in LabelVerbs \X LabelVerbs}
    \cup {LabelSite(TRUE, None, "r", cs) : cs \in {v \in LabelVerbs : v.verb = "push"} \X LabelVerbs}
    \cup {LabelSite(cl, None, None, cs) : cl \in BOOLEAN, cs \in TagVerbs \X TagVerbs}

-----------------------------------------------------------------------------
(* The blob cache: three blobs, of which one fills it alone. *)
Cache == INSTANCE BlobCache WITH
    files <- s1, primary <- s2, sizes <- s3, order <- s4, total <- s5, calls <- s6,
    worker <- s7, strays <- s8, restarts <- s9, BlobNames <- {"p", "q", "r"},
    SizeOf <- ("p" :> 1 @@ "q" :> 2 @@ "r" :> 3), CacheCap <- 3, CacheWorkers <- {1, 2},
    MaxRestarts <- 1

On(op, name) == [op |-> op, name |-> name]
CachePlans ==
  {<< <<On("put", "p"), On("put", "r"), On("delete", "p")>>, <<On("put", "q"), On("get", "p")>> >>,
   << <<On("put", "p"), On("put", "q")>>, <<On("put", "r"), On("get", "p"), On("put", "p")>> >>}

-----------------------------------------------------------------------------
(* HTTP functions: three callers, on one node or on two of a cluster; one  *)
(* slot for executions, at most two records.                               *)
Fn == INSTANCE HttpFunctions WITH
    fnSite <- s1, commits <- s2, lock <- s3, permits <- s4, request <- s5, execution <- s6,
    FnCallers <- 1..3, FnNames <- {"f", "g", "h"}, FnNodes <- {1, 2}, MaxDefinitions <- 2,
    FnSlots <- 1

Invoke == [verb |-> "invoke", node |-> 1, name |-> "f", method |-> "GET", invalid |-> FALSE,
           ifMatch |-> None, ifNoneMatch |-> FALSE, def |-> None]
PutFn(match, fresh) ==
  [Invoke EXCEPT !.verb = "put", !.ifMatch = match, !.ifNoneMatch = fresh, !.def = [methods |-> {"POST"}]]
DeleteFn(match) == [PutFn(match, FALSE) EXCEPT !.verb = "delete"]
OneFunction == "f" :> [rev |-> <<0, 1>>, def |-> [methods |-> {"GET"}]]
FnSite(cluster, registry, calls) ==
  [cluster |-> cluster, registry |-> registry,
   calls |-> [calls EXCEPT ![2].node = IF cluster THEN 2 ELSE 1]]
FnSites ==
  {FnSite(FALSE, OneFunction, <<Invoke, Invoke, PutFn(<<0, 1>>, FALSE)>>),
   FnSite(TRUE, OneFunction, <<Invoke, DeleteFn(<<0, 1>>), [Invoke EXCEPT !.invalid = TRUE]>>),
   FnSite(TRUE, OneFunction, <<PutFn(<<0, 1>>, FALSE), DeleteFn(<<0, 1>>), [Invoke EXCEPT !.verb = "read"]>>),
   FnSite(FALSE, None, <<PutFn(None, TRUE), [PutFn(None, TRUE) EXCEPT !.name = "g"], [PutFn(None, TRUE) EXCEPT !.name = "h"]>>),
   FnSite(FALSE, OneFunction, <<[Invoke EXCEPT !.method = "POST"], PutFn(None, FALSE), [Invoke EXCEPT !.invalid = TRUE]>>)}

-----------------------------------------------------------------------------
(* Hook stacks: two operations at once through every kind of chain that    *)
(* start-up can build.                                                     *)
Gates == INSTANCE HookStack WITH
    chain <- s1, run <- s2, queue <- s3, doomed <- s4, effects <- s5, HookOps <- {1, 2},
    Targets <- {"a", "b", "bad"}, BadTarget <- "bad", CredHost <- "b",
    Approves <- <<{"a", "b"}, {"a"}>>, MaxNexts <- 1

Entry(kind) == [kind |-> kind, file |-> None]
Js(file) == [kind |-> "js", file |-> file]
Plain == [op |-> "fetch", tag |-> "fetch", policies |-> TRUE, all |-> TRUE, rules |-> TRUE,
          pre |-> <<>>, post |-> <<>>, stack |-> <<>>]
HookConfigs ==
  LET Gate == Entry("gate")
  IN {[Plain EXCEPT !.pre = <<Gate, Gate>>, !.post = <<Gate>>],
      [Plain EXCEPT !.op = "websocket", !.tag = "connect", !.rules = FALSE, !.pre = <<Gate>>, !.all = FALSE],
      [Plain EXCEPT !.op = "filesystem", !.tag = "write", !.rules = FALSE, !.stack = <<Js("f"), Entry("@execute")>>],
      [Plain EXCEPT !.op = "modules", !.tag = None, !.rules = FALSE, !.policies = FALSE, !.stack = <<Js("f"), Entry("@execute")>>],
      [Plain EXCEPT !.stack = <<Entry("@inject"), Gate, Entry("@policy"), Entry("@execute")>>],
      [Plain EXCEPT !.stack = <<Js("f"), [kind |-> "virtual", file |-> "g"]>>],
      [Plain EXCEPT !.stack = <<Entry("@inject"), Entry("@execute")>>, !.rules = FALSE],
      [Plain EXCEPT !.stack = <<Js("f"), Js("f"), Entry("@execute")>>],
      [Plain EXCEPT !.op = "filesystem", !.post = <<Gate>>]}

-----------------------------------------------------------------------------
(* Tokens: two fetches that need one; two connections that share a cache   *)
(* file.                                                                   *)
Auth == INSTANCE OAuthTokens WITH
    clock <- s1, cached <- s2, inFlight <- s3, generation <- s4, failures <- s5,
    results <- s6, asker <- s7, cacheFile <- s8, flow <- s9, Askers <- {1, 2},
    Lifetimes <- {1, 3}, RefreshBuffer <- 1, MaxClock <- 2, MaxFailures <- 1,
    MaxRequests <- 3, Connects <- {1, 2}, BindingOf <- <<"x", "y">>

Saved(b, expired) ==
  [binding |-> b, token |-> [for |-> b, by |-> 0, refresh |-> TRUE], expired |-> expired]
TokenFiles == {None, Unsafe, Saved("x", FALSE), Saved("y", TRUE)}

-----------------------------------------------------------------------------
(* Tool servers: one upstream, configured once or twice; two calls, or one  *)
(* call and a third connection.                                             *)
Tools == INSTANCE ToolServers WITH
    configs <- s1, manager <- s2, live <- s3, conns <- s4, downstream <- s5, prober <- s6,
    call <- s7, crashes <- s8, ServerNames <- {"a"}, ToolCalls <- {1, 2},
    Target <- <<"a", "a">>, MaxConns <- 2, MaxCrashes <- 1
Probed == INSTANCE ToolServers WITH
    configs <- s1, manager <- s2, live <- s3, conns <- s4, downstream <- s5, prober <- s6,
    call <- s7, crashes <- s8, ServerNames <- {"a"}, ToolCalls <- {1},
    Target <- <<"a">>, MaxConns <- 3, MaxCrashes <- 1

-----------------------------------------------------------------------------
(* Console output: three lines, one of them empty, over pages of three     *)
(* bytes; a window of two bytes, or a page, may cut a character.           *)
Console == INSTANCE ConsoleOutput WITH
    exec <- s1, console <- s2, call <- s3, reader <- s4,
    Lines <- << <<1, 8, 9>>, <<>>, <<8, 9>> >>, PageSize <- 3, LineLimit <- 2, ByteLimit <- 2,
    MaxGot <- 10

ConsoleCallers == {<<"wait", "none">>, <<"blocking", "none">>, <<"task", "none">>, <<"async", "bytes">>,
                   <<"async", "lines">>, <<"async", "collect">>}

-----------------------------------------------------------------------------
(* Uploads: two requests race for one URL while another one is open. *)
Artifacts == INSTANCE ArtifactUploads WITH
    now <- s1, uploads <- s2, disk <- s3, sweep <- s4, upload <- s5, crash <- s6,
    Tokens <- {"t", "u"}, Uploads <- {1, 2}, Ttl <- 1, SweepInterval <- 1, MaxNow <- 1

-----------------------------------------------------------------------------
(* The front end: one request of every tool over every store at start-up,  *)
(* or two that race each other over one service or two.                    *)
Front == INSTANCE McpFrontEnd WITH
    boot <- s1, services <- s2, requests <- s3, keys <- s4, guard <- s5,
    Requests <- {"r1", "r2"}, Publications <- <<{"k1"}, {"k1", "k2"}>>

FrontConfig(heap, fs, transport, verifier) ==
  [heap |-> heap, fs |-> fs, functions |-> transport = "http" /\ ~verifier, stubs |-> heap,
   transport |-> transport, verifier |-> verifier, preset |-> None]
Pair(a, b) == "r1" :> a @@ "r2" :> b
OneCall(tool, wait, tasks) ==
  Pair([Front!Request("s", "call", tool, "x", FALSE, None) EXCEPT !.wait = wait, !.tasks = tasks],
       [Front!Request("t", "initialize", "run_js", None, FALSE, None) EXCEPT !.at = "done"])
TwoCalls ==
  {Pair(Front!Request("s", "initialize", "run_js", sid, TRUE, "k1"),
        Front!Request("s", "call", "run_js", "y", FALSE, "k2")) : sid \in {None, "x"}}
    \cup {Pair([Front!Request("s", "call", "run_js", "x", FALSE, "k1") EXCEPT !.wait = TRUE],
               Front!Request(u, "call", "fs_tools", "y", TRUE, "k2")) : u \in {"s", "t"}}
FrontInit ==
  \/ \E heap, fs \in BOOLEAN, transport \in {"http", "sse"}, tool \in Front!Tools :
       Front!FrontStart(FrontConfig(heap, fs, transport, FALSE), OneCall(tool, fs, heap), FALSE)
  \/ \E s \in TwoCalls : Front!FrontStart(FrontConfig(FALSE, TRUE, "http", TRUE), s, TRUE)

-----------------------------------------------------------------------------
(* Isolates: two at once, one in three heap sizes to a buffer; with modules *)
(* that fit and that do not.                                                *)
Isolates == INSTANCE IsolateRuns WITH
    site <- s1, heap <- s2, iso <- s3, allocated <- s4, buffers <- s5, ran <- s6,
    MinHeap <- 2, BufferSizes <- {0, 1, 2}, MaxBuffers <- 3, MaxIsolates <- 2

WasmBytes(memory, imports, traps) ==
  [valid |-> TRUE, memories |-> {memory}, tables |-> {}, imports |-> imports, budget |-> None, traps |-> traps]
IsolateConfigs ==
  {Isolates!ExecutionConfig(FALSE, Isolates!Capabilities, 3, <<WasmBytes(2, {}, FALSE)>>, 3, TRUE, TRUE),
   Isolates!ExecutionConfig(TRUE, {"fs", "websocket", "net"}, 1, <<>>, 2, TRUE, FALSE),
   Isolates!ExecutionConfig(TRUE, {}, 3, <<WasmBytes(1, {1}, FALSE), WasmBytes(4, {}, FALSE)>>, 2, FALSE, FALSE),
   Isolates!ExecutionConfig(FALSE, {"fetch"}, 3, <<WasmBytes(1, {}, TRUE)>>, 1, FALSE, FALSE)}

-----------------------------------------------------------------------------
(* REST and native calls: two at once on one session or one label, next to  *)
(* a run of the session.                                                    *)
Rest == INSTANCE RestApi WITH
    restSite <- s1, life <- s2, holder <- s3, log <- s4, store <- s5, call <- s6, script <- s7,
    Clients <- {"c", "d"}, MaxScripts <- 1

RestCall(verb, name, value, flag) == Rest!Request(verb, name, value, flag)
OnFile(verb, name, value) == RestCall(verb, name, value, "session")
FileChanges ==
  {OnFile("write", "a", 1), OnFile("append", "a", 2), OnFile("delete", "a", None), OnFile("rename", "a", "b")}
FileQueries ==
  {OnFile(v, "a", None) : v \in {"read", "dir", "readlink", "exists", "stat", "unknown_op", "rename", "mkdir"}}
    \cup {OnFile("canonical", "b", None), RestCall("read", "a", None, "host"), RestCall("write", "a", 5, "host")}
Moves ==
  {RestCall("set_label", None, "h1", None), RestCall("push", None, "h2", "plain"), RestCall("push", "h1", "h2", "plain"),
   RestCall("push", None, "h3", "force"), RestCall("reset", None, "h1", FALSE)}
StoreQueries == {RestCall(v, None, None, None) : v \in {"snapshots", "labels", "resolve", "label_log", "merge"}}
Singles ==
  StoreQueries
    \cup {RestCall("exec", None, v, None) : v \in {"multipart", "malformed", "empty", "code"}}
    \cup {RestCall("execution", n, None, None) : n \in {"e1", "e9"}}
    \cup {RestCall(v, None, None, None) : v \in {"executions", "artifacts", "version", "cli_index", "capabilities"}}
    \cup {RestCall("put_artifact", "k", 2, FALSE), RestCall("artifact", "k", None, None), RestCall("merge", None, "mine", None),
          RestCall("cli", "linux-x86_64", None, None), RestCall("cli", "amiga", None, None),
          RestCall("push", None, "h1", "detach"), RestCall("push", None, "h1", "nolabel")}
RestPair(x, y) == "c" :> x @@ "d" :> y
RestInit ==
  LET Whole == Rest!RestSite(TRUE, TRUE, TRUE, None, None)
      Denied == Rest!RestSite(TRUE, TRUE, TRUE, "write", None)
      NoPush == Rest!RestSite(TRUE, TRUE, TRUE, None, "push")
      NoPull == Rest!RestSite(TRUE, TRUE, TRUE, None, "pull")
      Bare == Rest!RestSite(FALSE, FALSE, FALSE, None, None)
      One == "a" :> <<7>>
  IN \/ \E x \in FileChanges, y \in FileChanges \cup {RestCall("exec", None, "code", None)} : Rest!RestStart(Whole, One, RestPair(x, y))
     \/ \E y \in FileQueries, f \in {<<>>, One} : Rest!RestStart(Whole, f, RestPair(OnFile("write", "a", 1), y))
     \/ \E s \in {Denied, NoPush, NoPull, Bare} : Rest!RestStart(s, One, RestPair(OnFile("write", "a", 1), OnFile("read", "a", None)))
     \/ \E x \in Singles : Rest!RestStart(Whole, <<>>, RestPair(x, RestCall("cancel", "e1", None, None)))
     \/ Rest!RestStart(Whole, <<>>, RestPair(RestCall("put_artifact", "k", 1, TRUE), RestCall("artifact", "k", None, None)))
     \/ \E x, y \in Moves : Rest!RestStart(Whole, <<>>, RestPair(x, y))
     \/ \E x \in StoreQueries : Rest!RestStart(Whole, <<>>, RestPair(RestCall("set_label", None, "h1", None), x))
     \/ \E s \in {NoPush, Bare}, x \in Moves \cup StoreQueries : Rest!RestStart(s, <<>>, RestPair(x, RestCall("version", None, None, None)))

-----------------------------------------------------------------------------
(* Startup: command lines of every feature, alone and confined, config      *)
(* files, and two embedded engines that may share a directory.              *)
Setup == INSTANCE ServerSetup WITH
    launch <- s1, args <- s2, stage <- s3, up <- s4, touched <- s5, embeds <- s6, Engines <- {"e", "f"}

NoArgs == <<>>
Launch(argv) ==
  [argv |-> argv, env |-> NoArgs, file |-> [document |-> "object", entries |-> NoArgs, twice |-> {}], port |-> None, scheduled |-> FALSE,
   files |-> {"/m", "/doc", "/p", "/conf"}, landlock |-> TRUE, netrules |-> TRUE, jwks_fails |-> FALSE,
   bind_fails |-> FALSE, probe_fails |-> FALSE]
FileEntry(key, shape, value) == key :> [shape |-> shape, value |-> value]
FromFile(entries, argv) == [Launch(argv) EXCEPT !.env = "config" :> "/conf", !.file.entries = entries]
WasmModule(name, path) == [name |-> name, path |-> path, valid |-> TRUE]
Document(path) == [path |-> path, valid |-> TRUE]
WasmDocument(path, modules) == [path |-> path, valid |-> TRUE, modules |-> modules]
Policies(chains, rego, builds) == [path |-> None, valid |-> TRUE, chains |-> chains, rego |-> rego, builds |-> builds]
Upstream(name, reachable) == [name |-> name, reachable |-> reachable, valid |-> TRUE]
HeaderRule(keys, blank) == [keys |-> keys, parse |-> TRUE, blank |-> blank]
OnPort == [http_port |-> "8080"]
Keys == OnPort @@ [jwks_url |-> "k"]
Confined == [sandbox_manifest |-> [grants |-> {}, blocked |-> TRUE, enforceable |-> TRUE]]
StaticKeys == {"host", "header", "value"}
OAuthRule == {"host", "header", "token_url", "client_id", "client_secret"}
ModuleA == [wasm_modules |-> <<WasmModule("a", "/m")>>]
OneTool == [mcp_servers |-> <<Upstream("t", TRUE)>>]

(* Command lines that are tried as they are and under a sandbox manifest. *)
CommandLines ==
  {NoArgs, OnPort, [sse_port |-> "8081"], Keys, OnPort @@ [allowed_hosts |-> <<"blank">>], ModuleA,
   [heap_store |-> "dir", heap_dir |-> "/h", fs_store |-> "dir", fs_dir |-> "/f", fs_labels_db |-> "/l"],
   [heap_store |-> "s3", s3_bucket |-> "b", cache_dir |-> "/c"], [fs_store |-> "dir", session_fork_from |-> "s", session_id |-> "t"],
   [cluster_port |-> "9", join |-> "n"], [metadata_only |-> TRUE, cluster_port |-> "9"],
   [wasm_modules |-> <<WasmModule("a", "/gone")>>], [wasm_config |-> WasmDocument("/doc", <<WasmModule("a", "/m")>>)],
   [policies_json |-> Policies({"filesystem", "run_js_file"}, {"/p"}, TRUE)], OnPort @@ OneTool,
   [instructions |-> Document("/doc")], [run_js_description |-> Document("/gone")],
   [fetch_headers |-> <<HeaderRule(StaticKeys, {}), HeaderRule(OAuthRule, {})>>], [allow_external_modules |-> TRUE]}
(* Command lines that startup refuses, or serves differently. *)
OtherLines ==
  {OnPort @@ [allowed_hosts |-> <<"a", "*">>], OnPort @@ [bind_host |-> "malformed"], OnPort @@ [sse_port |-> "2"],
   [print_openapi |-> TRUE], [heap_store |-> "s3"], [fs_store |-> "s3"], [cache_dir |-> "/c"],
   [fs_store |-> "dir", session_fork_from |-> "s"], [session_fork_from |-> "s", session_id |-> "t"],
   [cluster_port |-> "9", fs_store |-> "dir"], [metadata_only |-> TRUE], [metadata_only |-> TRUE, cluster_port |-> "9", jwks_url |-> "k"],
   [dynamodb_table |-> "t", fs_store |-> "dir"], [dynamodb_table |-> "t", cluster_port |-> "9"], ModuleA @@ [heap_store |-> "dir"],
   [wasm_modules |-> <<[WasmModule("a", "/m") EXCEPT !.valid = FALSE]>>], ModuleA @@ [wasm_stub_descriptions |-> <<"b">>],
   [wasm_modules |-> <<WasmModule("a", "/m"), WasmModule("a", "/m")>>], [policies_json |-> Policies({"fetch"}, {}, FALSE)],
   [policies_json |-> Policies({"run_js_file"}, {}, TRUE), allow_run_js_file |-> TRUE], [mcp_servers |-> <<Upstream("t", FALSE)>>],
   OneTool @@ [mcp_config |-> [path |-> "/doc", valid |-> TRUE, servers |-> <<Upstream("t", TRUE)>>]],
   [fetch_headers |-> <<HeaderRule(StaticKeys \cup {"scope"}, {})>>], [fetch_headers |-> <<HeaderRule(OAuthRule \cup {"override"}, {})>>],
   [fetch_headers |-> <<HeaderRule(StaticKeys, {"header"})>>]}
FileCases ==
  {FileEntry("http_port", "scalar", "1"), FileEntry("sse_port", "scalar", "2"), FileEntry("metadata_only", "scalar", TRUE),
   FileEntry("http_port", "scalar", "1") @@ FileEntry("sse_port", "scalar", "2"),
   FileEntry("metadata_only", "scalar", TRUE) @@ FileEntry("cluster_port", "scalar", "9"),
   FileEntry("wasm", "object", WasmDocument(None, <<WasmModule("a", "/m")>>)), FileEntry("wasm", "array", None),
   FileEntry("wasm", "object", WasmDocument(None, <<>>)) @@ FileEntry("wasm_config", "scalar", WasmDocument("/doc", <<>>)),
   FileEntry("print_openapi", "scalar", TRUE), FileEntry("colour", "scalar", "red"), FileEntry("jwks_url", "array", "k"),
   FileEntry("allowed_hosts", "array", <<"a">>), FileEntry("cluster_port", "scalar", "9") @@ FileEntry("dynamodb_table", "scalar", "t"),
   FileEntry("heap_dir", "scalar", "/h")}
Launches ==
  {Launch(l) : l \in CommandLines \cup OtherLines} \cup {Launch(l @@ Confined) : l \in CommandLines}
    \cup {[Launch(l) EXCEPT !.port = p] : l \in {NoArgs, [sse_port |-> "8081"]}, p \in {"7000", "malformed"}}
    \cup {[Launch(l) EXCEPT !.scheduled = TRUE] : l \in {NoArgs, OnPort, Keys, OnPort @@ [heap_store |-> "dir"]}}
    \cup {FromFile(entries, argv) : entries \in FileCases, argv \in {NoArgs, OnPort}}
    \cup {[FromFile(NoArgs, NoArgs) EXCEPT !.file.document = "array"],
          [FromFile(FileEntry("heap_dir", "scalar", "/h"), NoArgs) EXCEPT !.file.twice = {"heap_dir"}],
          [Launch(Keys) EXCEPT !.jwks_fails = TRUE],
          [Launch(OnPort @@ OneTool) EXCEPT !.bind_fails = TRUE],
          [Launch([dynamodb_table |-> "t", fs_store |-> "dir"]) EXCEPT !.probe_fails = TRUE],
          [Launch(OnPort @@ Confined) EXCEPT !.netrules = FALSE], [Launch(Confined) EXCEPT !.landlock = FALSE],
          Launch([sandbox_manifest |-> [grants |-> {}, blocked |-> FALSE, enforceable |-> FALSE]])}
(* Engines that are created while no server of this process starts. *)
EngineConfigs ==
  {Setup!EngineConfig("d", TRUE, FALSE, None, TRUE), Setup!EngineConfig("d", TRUE, TRUE, None, TRUE),
   Setup!EngineConfig("d", FALSE, TRUE, "l", TRUE), Setup!EngineConfig(None, TRUE, TRUE, "l", TRUE),
   Setup!EngineConfig("d", FALSE, FALSE, None, FALSE)}
SetupInit ==
  \/ \E l \in Launches : Setup!SetupStart(l, "e" :> None @@ "f" :> None)
  \/ \E c, d \in EngineConfigs : Setup!SetupStart([FromFile(NoArgs, NoArgs) EXCEPT !.file.document = "none"], "e" :> c @@ "f" :> d)

-----------------------------------------------------------------------------
ServerInit ==
  \/ part = "fs" /\ (\E r \in FsRoots : Fs!FsStart(r)) /\ Spare5
  \/ part = "labels" /\ (\E s \in LabelSites : Labels!LabelStart(s)) /\ Spare10
  \/ part = "cache" /\ (\E p \in CachePlans : Cache!CacheStart(p)) /\ Spare10
  \/ part = "fn" /\ (\E s \in FnSites : Fn!FnStart(s)) /\ Spare7
  \/ part = "hooks" /\ (\E c \in HookConfigs : Gates!HookStart(c, [o \in {1, 2} |-> "a"])) /\ Spare6
  \/ part = "source" /\ Auth!SourceStart /\ Auth!FlowStart(None) /\ Spare10
  \/ part = "flow" /\ Auth!SourceStart /\ (\E f \in TokenFiles : Auth!FlowStart(f)) /\ Spare10
  \/ part = "tools" /\ (\E cs \in {<<"a">>, <<"a", "a">>} : Tools!ToolStart(cs)) /\ Spare9
  \/ part = "probed" /\ Probed!ToolStart(<<"a">>) /\ Spare9
  \/ part = "console" /\ (\E c \in ConsoleCallers : Console!ConsoleStart(c[1], c[2])) /\ Spare5
  \/ part = "uploads" /\ Artifacts!UploadStart(<<"t", "t">>) /\ Spare7
  \/ part = "front" /\ FrontInit /\ Spare6
  \/ part = "iso" /\ (\E c \in IsolateConfigs : Isolates!IsolateStart(c)) /\ Spare7
  \/ part = "rest" /\ RestInit /\ Spare8
  \/ part = "setup" /\ SetupInit /\ Spare7

ServerNext ==
  \/ part = "fs" /\ Fs!FsNext /\ Kept5
  \/ part = "labels" /\ Labels!LabelNext /\ Kept10
  \/ part = "cache" /\ Cache!CacheNext /\ Kept10
  \/ part = "fn" /\ Fn!FnNext /\ Kept7
  \/ part = "hooks" /\ Gates!HookNext /\ Kept6
  \/ part = "source" /\ Auth!SourceNext /\ Kept10
  \/ part = "flow" /\ Auth!FlowNext /\ Kept10
  \/ part = "tools" /\ Tools!ToolNext /\ Kept9
  \/ part = "probed" /\ Probed!ToolNext /\ Kept9
  \/ part = "console" /\ Console!ConsoleNext /\ Kept5
  \/ part = "uploads" /\ Artifacts!UploadNext /\ Kept7
  \/ part = "front" /\ Front!FrontNext /\ Kept6
  \/ part = "iso" /\ Isolates!IsolateNext /\ Kept7
  \/ part = "rest" /\ Rest!RestNext /\ Kept8
  \/ part = "setup" /\ Setup!SetupNext /\ Kept7

(* The steps of the nth of a part's schedulers that never stop for good. *)
ServerStep(n) ==
  \/ part = "fn" /\ n \in 1..3 /\ Fn!FnStep(n) /\ Kept7
  \/ part = "hooks" /\ n \in 1..2 /\ Gates!HookStep(n) /\ Kept6
  \/ part = "hooks" /\ n = 3 /\ (\E l \in DOMAIN s3 : Gates!ServeOrphan(l)) /\ Kept6
  \/ part = "source" /\ n \in 1..2 /\ Auth!AskerStep(n) /\ Kept10
  \/ part = "source" /\ n = 3 /\ Auth!RequestStep /\ Kept10
  \/ part = "tools" /\ n \in 1..2 /\ Tools!CallStep(n) /\ Kept9
  \/ part = "probed" /\ n = 1 /\ Probed!CallStep(1) /\ Kept9
  \/ part = "console" /\ n = 1 /\ Console!Submit /\ Kept5
  \/ part = "console" /\ n = 2 /\ Console!Runs /\ Kept5
  \/ part = "console" /\ n = 3 /\ Console!Answers /\ Kept5
  \/ part = "front" /\ n \in 1..2 /\ Front!Handle(IF n = 1 THEN "r1" ELSE "r2") /\ Kept6
  \/ part = "front" /\ n = 3 /\ Front!Boot /\ Kept6
  \/ part = "front" /\ n = 4 /\ Front!ShutdownDone /\ Kept6

(* Some actor of a part is owed an answer. *)
ServerOwes ==
  \/ part = "fn" /\ \E c \in 1..3 : Fn!Unsettled(c)
  \/ part = "hooks" /\ \E o \in 1..2 : Gates!Unsettled(o)
  \/ part = "source" /\ \E a \in 1..2 : Auth!Unsettled(a)
  \/ part = "tools" /\ \E c \in 1..2 : Tools!Unsettled(c)
  \/ part = "probed" /\ Probed!Unsettled(1)
  \/ part = "console" /\ Console!Unsettled
  \/ part = "front" /\ \E r \in {"r1", "r2"} : Front!Unsettled(r)

-----------------------------------------------------------------------------
(* Files: a write stream that is closed while chunks are under way, appends *)
(* that overlap, and a run of the other operations.                         *)
Files == INSTANCE FileService WITH
    program <- s1, mounted <- s2, host <- s3, mutex <- s4, writers <- s5, opened <- s6,
    fileOp <- s7, isolate <- s8, FileOps <- 1..6, HostFiles <- ("a" :> <<9>>),
    Rewritten <- ("a" :> {"a", "b"} @@ "b" :> {"b"})

FileCall(kind, path, data, after) ==
  [kind |-> kind, path |-> path, dest |-> IF path = "a" THEN "b" ELSE "a", data |-> data,
   sync |-> FALSE, handle |-> IF kind \in {"chunk", "close"} THEN 1 ELSE 0, after |-> after]
SyncCall(kind, path, after) == [FileCall(kind, path, <<>>, after) EXCEPT !.sync = TRUE]
StreamPlan(awaited, reader) ==
  <<FileCall("open", "a", <<>>, {}), FileCall("chunk", "a", <<1>>, {1}), FileCall("chunk", "a", <<2>>, {1}),
    FileCall("close", "a", <<>>, awaited), reader>>
AppendPlan ==
  <<FileCall("append", "a", <<1>>, {}), FileCall("append", "a", <<2>>, {}), FileCall("read", "a", <<>>, {1})>>
MovePlan ==
  <<FileCall("write", "a", <<1>>, {}), FileCall("rename", "a", <<>>, {1}), FileCall("copy", "b", <<>>, {1})>>
ClearPlan ==
  <<FileCall("write", "b", <<1>>, {}), SyncCall("rm", "b", {}), SyncCall("mkdir", "b", {2}), FileCall("exists", "a", <<>>, {1})>>
FilePrograms ==
  {[mount |-> TRUE, pass |-> FALSE, ops |-> StreamPlan({2}, FileCall("read", "a", <<>>, {}))],
   [mount |-> FALSE, pass |-> FALSE, ops |-> StreamPlan({2, 3}, SyncCall("stat", "a", {1}))],
   [mount |-> TRUE, pass |-> TRUE, ops |-> AppendPlan],
   [mount |-> TRUE, pass |-> FALSE, ops |-> MovePlan], [mount |-> FALSE, pass |-> FALSE, ops |-> MovePlan],
   [mount |-> TRUE, pass |-> FALSE, ops |-> ClearPlan], [mount |-> FALSE, pass |-> FALSE, ops |-> ClearPlan]}

-----------------------------------------------------------------------------
(* Sockets: one connection with a call of the program at any point of it,  *)
(* and a client that reconnects.                                           *)
Net == INSTANCE NodeSockets WITH
    kernel <- s1, streams <- s2, sock <- s3, server <- s4, refed <- s5, calls <- s6,
    MaxTcp <- 1, MaxChunks <- 1, MaxSocketCalls <- 1, MaxConnections <- 1, HalfOpen <- FALSE
Redial == INSTANCE NodeSockets WITH
    kernel <- s1, streams <- s2, sock <- s3, server <- s4, refed <- s5, calls <- s6,
    MaxTcp <- 2, MaxChunks <- 1, MaxSocketCalls <- 1, MaxConnections <- 1, HalfOpen <- FALSE

-----------------------------------------------------------------------------
(* Child processes: pairs of calls, under hooks or not, with pipes that     *)
(* hold one unit.                                                           *)
Sub == INSTANCE Subprocesses WITH
    subSite <- s1, task <- s2, process <- s3, target <- s4, object <- s5, control <- s6,
    blocked <- s7, guest <- s8, Children <- {1, 2}, PipeCap <- 1, MaxRuns <- 2

Child(kind, input, late) == [kind |-> kind, input |-> input, late |-> late]
SubSite(timeout, stack, post, plan) == [timeout |-> timeout, stack |-> stack, post |-> post, plan |-> plan]
SubSites ==
  {SubSite(TRUE, FALSE, TRUE, <<Child("output", 4, FALSE), Child("sync", 1, FALSE)>>),
   SubSite(TRUE, TRUE, FALSE, <<Child("output", 1, FALSE), Child("sync", 1, FALSE)>>),
   SubSite(TRUE, FALSE, FALSE, <<Child("spawn", 1, FALSE), Child("fork", 0, TRUE)>>),
   SubSite(FALSE, FALSE, FALSE, <<Child("exec", 0, FALSE), Child("spawn", 1, TRUE)>>),
   SubSite(FALSE, FALSE, FALSE, <<Child("output", 4, FALSE), Child("sync", 4, FALSE)>>)}

-----------------------------------------------------------------------------
(* A WebSocket, and an HTTP/2 session with one stream. *)
Ws == INSTANCE WebSockets WITH
    ws <- s1, conns <- s2, nextId <- s3, wire <- s4, dial <- s5, sends <- s6, reads <- s7,
    recv <- s8, frames <- s9, Sockets <- {1}, MaxFrames <- 2
H2 == INSTANCE Http2Client WITH
    session <- s1, conn <- s2, jobs <- s3, pings <- s4, st <- s5, handles <- s6,
    cancelled <- s7, chain <- s8, sending <- s9, result <- s10, net <- s11, Streams <- {1},
    MaxWrites <- 2, MaxChunks <- 2

H2Programs == {{"pause", "close"}, {"write", "teardown"}, {"write", "close"}, {"ping", "teardown", "close"}}

-----------------------------------------------------------------------------
(* Packages: every kind of target under every kind of key of "exports",     *)
(* and trees with "main", "imports", a package map, or no manifest.         *)
Packages == INSTANCE PackageResolution WITH
    tree <- s1, asked <- s2, resolved <- s3

App == <<"app", "/">>
Package == App \o <<"node_modules", "/", "x", "/">>
PackageFiles ==
  {Package \o f : f \in {<<"lib", "/", "a", ".js">>, <<"lib", "/", "b", ".js">>, <<"index", ".js">>,
                         <<"a", ".js">>, <<"node_modules", "/", "a">>}}
To(path) == <<"string", path>>
LibA == To(<<"./", "lib", "/", "a", ".js">>)
PackageTargets ==
  {LibA, To(<<"./", "lib", "/", "*", ".js">>), To(<<"lib">>), To(<<"./", "lib", "/", "/", "*">>),
   To(<<"./", "node_modules", "/", "*">>), To(<<"./", "lib">>), <<"null">>, <<"number">>}
PackageChoices ==
  {<<"array", <<v, w>>>> : v \in {LibA, <<"null">>, To(<<"lib">>)}, w \in {LibA, <<"null">>, To(<<"lib">>)}}
    \cup {<<"object", <<<<c, v>>, <<d, w>>>>>> :
            c \in {<<"import">>, <<"require">>}, d \in {<<"default">>, <<"browser">>},
            v \in {LibA, <<"null">>, To(<<"lib">>)}, w \in {LibA, <<"null">>}}
PackageKeys == {<<".">>, <<"./", "a">>, <<"./", "*">>, <<"./", "lib", "/", "*", ".js">>, <<"./", "lib", "/", "*">>}
PackageExports ==
  PackageTargets \cup PackageChoices
    \cup {<<"object", <<<<k, v>>>>>> : k \in PackageKeys, v \in PackageTargets \cup PackageChoices}
    \cup {<<"object", <<<<k, v>>, <<l, w>>>>>> :
            k \in PackageKeys, l \in PackageKeys \cup {<<"0">>, <<"import">>},
            v \in {To(<<"./", "lib", "/", "*", ".js">>)}, w \in {LibA, <<"null">>}}
Manifest(exports, main) == [parses |-> TRUE, name |-> <<"x">>, exports |-> exports, imports |-> None, main |-> main]
PackageTree(manifests, map) == [files |-> PackageFiles, manifests |-> manifests, map |-> map]
Specifiers ==
  {<<"x">>, <<"x", "/", "a">>, <<"x", "/", "lib", "/", "a", ".js">>, <<"x", "/", "lib", "/", "a">>,
   <<"x", "/", "..", "/", "a">>, <<"y">>}
Mains == {None, <<>>, <<"lib">>, <<"lib", "/", "a">>, <<"./", "lib", "/", "b", ".js">>}
Internals == {<<"object", <<<<<<"#", "/", "*">>, v>>, <<<<"#", "a">>, LibA>>>>>> : v \in PackageTargets \cup PackageChoices}
    \cup {None}
PackageMaps ==
  {("app" :> [url |-> App, dependencies |-> <<"x">> :> key]) @@ ("x" :> [url |-> Package, dependencies |-> <<>>]) :
     key \in {"x", "z"}}
PackageInit ==
  \/ \E e \in PackageExports, s \in Specifiers : Packages!PackageStart(PackageTree(Package :> Manifest(e, None), None), s, App)
  \/ \E m \in Mains, s \in Specifiers : Packages!PackageStart(PackageTree(Package :> Manifest(None, m), None), s, App)
  \/ \E i \in Internals, s \in {<<"#", "a">>, <<"#", "/", "a">>, <<"#">>, <<"x", "/", "a">>} :
       Packages!PackageStart(PackageTree(Package :> [Manifest(LibA, None) EXCEPT !.imports = i], None), s, Package)
  \/ \E map \in PackageMaps, m \in {<<>>, Package :> Manifest(LibA, None), Package :> [Manifest(None, None) EXCEPT !.parses = FALSE]},
        s \in Specifiers, d \in {App, <<>>} : Packages!PackageStart(PackageTree(m, map), s, d)
  \/ \E s \in Specifiers \cup {<<"./", "lib", "/", "a">>} : Packages!PackageStart(PackageTree(<<>>, None), s, App)

-----------------------------------------------------------------------------
(* Modules: one import of every kind of target; two CommonJS files that     *)
(* require each other; two resolver hooks.                                  *)
Modules == INSTANCE ModuleLoading WITH
    loading <- s1, scripts <- s2, resolvers <- s3, Imports <- {1}, Scripts <- {"f", "g"},
    Hooks <- {1, 2}

ScriptSteps == {<<"throw">>} \cup {<<k, f>> : k \in {"require", "import", "try"}, f \in {"f", "g"}}
OneStep == {<<>>} \cup {<<s>> : s \in ScriptSteps}
ImportTargets ==
  {Modules!Target(scheme, "module", type) : scheme \in {"npm", "https", "shim"}, type \in {None, "json", "text"}}
    \cup {Modules!Target(scheme, format, type) :
            scheme \in {"virtual", "node", "data", "file", "ftp"}, format \in {"module", "json"}, type \in {None, "json", "text"}}
Builtin == <<Modules!Target("node", "module", None)>>
NoBodies == [f \in {"f", "g"} |-> <<>>]
ImportInit ==
  \E e, h \in BOOLEAN, t \in ImportTargets : Modules!ModuleStart([external |-> e, hooks |-> h], <<t>>, NoBodies, "f")
ScriptInit ==
  \E b \in OneStep \cup {<<s, t>> : s \in ScriptSteps, t \in ScriptSteps}, c \in OneStep :
    Modules!ModuleStart([external |-> FALSE, hooks |-> FALSE], Builtin, "f" :> b @@ "g" :> c, "f")
ResolverInit == Modules!ModuleStart([external |-> FALSE, hooks |-> FALSE], Builtin, NoBodies, "f")

-----------------------------------------------------------------------------
(* Timers, ticks and contexts. *)
Scheduling == INSTANCE GuestScheduling WITH
    timers <- s1, ticks <- s2, micro <- s3, stack <- s4, context <- s5, program <- s6,
    Timers <- {1}, Values <- {1}, NestingLimit <- 1, MaxOps <- 3

-----------------------------------------------------------------------------
GuestInit ==
  \/ part = "files" /\ (\E p \in FilePrograms : Files!FileStart(p)) /\ Spare9
  \/ part = "net" /\ (\E l \in BOOLEAN : Net!NetStart(l, 0, 0)) /\ Spare7
  \/ part = "redial" /\ (Redial!NetStart(TRUE, 1, 0) \/ Redial!NetStart(FALSE, 0, 1)) /\ Spare7
  \/ part = "sub" /\ (\E s \in SubSites : Sub!SubStart(s)) /\ Spare9
  \/ part = "ws" /\ Ws!WsStart /\ Spare10
  \/ part = "h2" /\ (\E p \in H2Programs : H2!H2Start(p))
  \/ part = "packages" /\ PackageInit /\ Spare4
  \/ part = "imports" /\ ImportInit /\ Spare4
  \/ part = "scripts" /\ ScriptInit /\ Spare4
  \/ part = "resolvers" /\ ResolverInit /\ Spare4
  \/ part = "timers" /\ Scheduling!SchedulingStart /\ Spare7

GuestNext ==
  \/ part = "files" /\ Files!FileNext /\ Kept9
  \/ part = "net" /\ Net!NetNext /\ Kept7
  \/ part = "redial" /\ Redial!NetNext /\ Kept7
  \/ part = "sub" /\ Sub!SubNext /\ Kept9
  \/ part = "ws" /\ Ws!WsNext /\ Kept10
  \/ part = "h2" /\ H2!H2Next /\ Kept12
  \/ part = "packages" /\ Packages!PackageNext /\ Kept4
  \/ part = "imports" /\ Modules!ImportNext /\ Kept4
  \/ part = "scripts" /\ Modules!ScriptNext /\ Kept4
  \/ part = "resolvers" /\ Modules!ResolverNext /\ Kept4
  \/ part = "timers" /\ Scheduling!SchedulingNext /\ Kept7

(* The steps of the nth of a part's schedulers that never stop for good. *)
GuestStep(n) ==
  \/ part = "sub" /\ n \in 1..2 /\ Sub!TaskStep(n) /\ Kept9
  \/ part = "sub" /\ n \in 3..4 /\ Sub!ProcessStep(n - 2) /\ Kept9
  \/ part = "ws" /\ n = 1 /\ Ws!WsStep /\ Kept10
  \/ part = "ws" /\ n = 2 /\ Ws!RecvEvent(1) /\ Kept10
  \/ part = "ws" /\ n = 3 /\ Ws!RecvLoop(1) /\ Kept10
  \/ part = "h2" /\ n = 1 /\ H2!SessionStep /\ Kept12
  \/ part = "h2" /\ n = 2 /\ H2!StreamStep(1) /\ Kept12
  \/ part = "timers" /\ n = 1 /\ Scheduling!Turn /\ Kept7
  \/ part = "timers" /\ n = 2 /\ Scheduling!op_timer_sleep(1) /\ Kept7

(* Some actor of a part is owed an answer. *)
GuestOwes ==
  \/ part = "sub" /\ \E c \in 1..2 : Sub!Unsettled(c)
  \/ part = "ws" /\ Ws!Unsettled(1)
  \/ part = "h2" /\ H2!Unsettled
  \/ part = "timers" /\ Scheduling!Unsettled(1)

-----------------------------------------------------------------------------
(* One run over all the parts, with the properties that say the same of each of them. *)

Init == ServerInit \/ GuestInit

Next == ServerNext \/ GuestNext

Step(n) == ServerStep(n) \/ GuestStep(n)

(* Tasks and event loops that can take a step are scheduled in the end:     *)
(* tokio polls every woken task, and the isolate's loop runs until nothing  *)
(* is left.  A child process, which is external, goes on while its pipes    *)
(* let it.                                                                  *)
Spec == Init /\ [][Next]_vars /\ \A n \in 1..5 : WF_vars(Step(n))

-----------------------------------------------------------------------------
(* The overlay over its tree implements the flat map of files: every        *)
(* operation, query, push and merge of a mounted session answers and        *)
(* changes what the map would (fs_tree.rs, fs_mount.rs, fs_merge.rs).       *)
ImplementsFlat == Flat!FlatSpec

(* History is never lost or forked.  A pushed snapshot holds what the       *)
(* session saw; a label's log records every move of its head, and a merge   *)
(* of tags keeps what others merged; changes of HTTP functions are          *)
(* linear, each made on the registry it was checked against; a session's    *)
(* log gets one snapshot per native call that was answered (engine/ffi.rs). *)
HistoryKept ==
  /\ part = "fs" => Fs!PushKeepsView
  /\ part = "labels" => Labels!HistoryExact /\ Labels!MergesKept /\ Labels!RollForwardKept
  /\ part = "fn" => Fn!ChangesLinear
  /\ part = "rest" => Rest!NativeChain

(* What is taken is accounted for and given back: bytes of the blob cache,  *)
(* execution slots, token requests, connections to tool servers, upload     *)
(* URLs, the server's lifecycle lock, an isolate's heap and the stores of   *)
(* an engine; and in a script sockets, child processes, scripts and timers. *)
ResourcesHeld ==
  /\ part = "cache" => Cache!CacheAccounted
  /\ part = "fn" => Fn!SlotsCoverRuns
  /\ part = "source" => Auth!SingleFlight
  /\ part = "tools" => Tools!ConnectionsOwned
  /\ part = "probed" => Probed!ConnectionsOwned
  /\ part = "uploads" => Artifacts!UploadsSingle /\ Artifacts!TokensReturned
  /\ part = "front" => Front!ShutdownExcludes
  /\ part = "iso" => Isolates!IsolateHeld
  /\ part = "setup" => Setup!SetupHeld
  /\ part = "net" => Net!HandlesCounted
  /\ part = "redial" => Redial!HandlesCounted
  /\ part = "sub" => Sub!ProcessesOwned
  /\ part = "ws" => Ws!SocketsReleased
  /\ part = "h2" => H2!StreamsReleased
  /\ part = "scripts" => Modules!ScriptsOnce
  /\ part = "timers" => Scheduling!TimersExact

(* What a caller is told is true: an admitted request ran the function its  *)
(* registry holds, a header or token is the one asked for, a tool call's    *)
(* report says what happened, a client that stops polling missed nothing,   *)
(* a listed tool is served to the session that asked, a run's outcome is    *)
(* what its isolate did, a REST or native call answers what it changed; and *)
(* in a script exit events are reported where they belong, the two package  *)
(* resolvers agree, and a callback sees its own context.                    *)
AnswersTrue ==
  /\ part = "fn" => Fn!AdmittedCurrent
  /\ part = "source" => Auth!HeadersTrue
  /\ part = "flow" => Auth!TokensBound
  /\ part = "tools" => Tools!CallsTold
  /\ part = "probed" => Probed!CallsTold
  /\ part = "console" => Console!CallersTold
  /\ part = "front" => Front!SurfaceServed /\ Front!ValidTokensPass /\ Front!IdentityKept
  /\ part = "iso" => Isolates!IsolateTold
  /\ part = "rest" => Rest!FilesTold /\ Rest!RestTold
  /\ part = "sub" => Sub!ChildrenTold
  /\ part = "packages" => Packages!ResolversAgree /\ Packages!ExportsEncapsulate
  /\ part = "imports" => Modules!FormatsAsked
  /\ part = "timers" => Scheduling!ContextKept

(* Bytes, messages and events arrive once each and in order: chunks of      *)
(* files, bytes of sockets, frames of WebSockets and HTTP/2, pages of       *)
(* console output, resolver hooks and ticks.                                *)
DeliveredOnce ==
  /\ part = "console" => Console!BytesResume /\ Console!LinesResume
  /\ part = "files" => Files!WritesExact /\ Files!StreamsHidden
  /\ part = "net" => Net!BytesInOrder
  /\ part = "redial" => Redial!BytesInOrder
  /\ part = "ws" => Ws!SocketsOrderly
  /\ part = "h2" => H2!StreamsInOrder
  /\ part = "resolvers" => Modules!HooksNewestFirst
  /\ part = "timers" => Scheduling!TicksInOrder

(* No operation takes effect that its hook stack did not let through, with  *)
(* the input the stack settled on, and no module is fetched that the        *)
(* stack of modules did not allow (hooks.rs, module_loader.rs).  No script  *)
(* runs in an isolate that is not completely set up, and no server serves   *)
(* on weaker terms than it was started with (engine/mod.rs, main.rs).       *)
GatesHold ==
  /\ part = "hooks" => Gates!GatesHold /\ Gates!DeniedIsQuiet
  /\ part = "imports" => Modules!FetchesGated
  /\ part = "iso" => Isolates!SandboxWhole
  /\ part = "setup" => Setup!SetupGates /\ Setup!SandboxCovers

(* Whoever is owed an answer gets it: callers of functions, hooked          *)
(* operations, token and tool calls, clients of a run and of the front end; *)
(* and in a script children whose pipes are not both full, closing sockets  *)
(* and sessions, and timers.                                                *)
AnswersCome == (ServerOwes \/ GuestOwes) ~> ~(ServerOwes \/ GuestOwes)
=============================================================================

---------------------------- MODULE OAuthTokens ----------------------------
(***************************************************************************)
(* Bearer tokens of outgoing connections.  The first half is the client-   *)
(* credentials token source behind fetch header rules (fetch_auth.rs): one *)
(* cached token, one request in flight shared by every waiter.  The second *)
(* is the browser flow of HTTP MCP servers (mcp_oauth.rs and connect_one   *)
(* in mcp_client.rs): a token cache file shared by connections and         *)
(* processes, refresh, the callback listener, and one retry after a 401.   *)
(***************************************************************************)
EXTENDS Naturals, Sequences, SequencesExt, FiniteSets, TLC

CONSTANTS Askers,         \* fetches that need the header
          Lifetimes,      \* expires_in values the endpoint may return
          RefreshBuffer,  \* refresh_buffer_secs
          MaxClock,       \* bound: ticks
          MaxFailures,    \* recorded failures, 8 in the code
          MaxRequests,    \* bound: generations
          Connects,       \* connections that authorize in the browser
          BindingOf,      \* connection -> cache binding (resource, client, scopes, endpoints)
          Unsafe,         \* a cache file that is malformed or open to other users
          None

VARIABLES clock, cached, inFlight, generation, failures, results, asker,
          cacheFile, flow

sourceVars == <<clock, cached, inFlight, generation, failures, results, asker>>
flowVars == <<cacheFile, flow>>
tokenVars == <<sourceVars, flowVars>>

-----------------------------------------------------------------------------
(* CachedToken::is_valid: no token is used within the buffer of its expiry. *)
IsValid(token) == token # None /\ token.expires >= RefreshBuffer /\ clock < token.expires - RefreshBuffer

Told(a, outcome) == asker' = [asker EXCEPT ![a] = [at |-> "done", gen |-> @.gen, got |-> outcome]]

(* The locked first half of the loop of authorization_header_value. *)
AskToken(a) ==
  /\ asker[a].at = "ask"
  /\ IF IsValid(cached) THEN Told(a, <<"token", cached, clock>>) /\ UNCHANGED <<inFlight, generation, results>>
     ELSE IF inFlight # None
     THEN asker' = [asker EXCEPT ![a].at = "wait", ![a].gen = inFlight] /\ UNCHANGED <<inFlight, generation, results>>
     ELSE /\ generation < MaxRequests
          /\ inFlight' = generation /\ generation' = generation + 1
          /\ results' = Append(results, IF cached # None /\ cached.refresh THEN <<"refresh">> ELSE <<"acquire">>)
          /\ asker' = [asker EXCEPT ![a].at = "wait", ![a].gen = generation]
  /\ UNCHANGED <<clock, cached, failures, flowVars>>

Polled(g) == \E a \in Askers : asker[a].at = "wait" /\ asker[a].gen = g
Pending(g) == results[g + 1][1] \in {"refresh", "acquire"}

(* derive_expiry: from expires_in or the token's own claim. *)
Expiry(life) == clock + life

(* fetch_token: what a grant leaves in the cache. *)
Granted(grant, expires, again) == [expires |-> expires, refresh |-> again \/ grant = <<"refresh">>]

(* refresh_or_reacquire, driven by any of its waiters: a refresh that fails *)
(* falls back to the client credentials; a refreshed token without a        *)
(* refresh token keeps the old one.                                         *)
TokenRequest(g) ==
  /\ Polled(g) /\ Pending(g)
  /\ \/ results' = [results EXCEPT ![g + 1] = IF @ = <<"refresh">> THEN <<"acquire">> ELSE <<"failed">>]
     \/ \E life \in Lifetimes, again \in BOOLEAN :
          results' = [results EXCEPT ![g + 1] = <<"ok", Granted(@, Expiry(life), again)>>]
  /\ UNCHANGED <<clock, cached, inFlight, generation, failures, asker, flowVars>>

(* apply_in_flight_result: the first waiter back applies the result, one    *)
(* of a failed generation is told so, any other starts over.                *)
ApplyResult(a) ==
  LET g == asker[a].gen
      result == results[g + 1]
  IN /\ asker[a].at = "wait" /\ ~Pending(g)
     /\ IF g \in ToSet(failures) THEN Told(a, <<"failed">>) /\ UNCHANGED <<cached, inFlight, failures>>
        ELSE IF inFlight # g THEN asker' = [asker EXCEPT ![a].at = "ask"] /\ UNCHANGED <<cached, inFlight, failures>>
        ELSE /\ inFlight' = None
             /\ IF result[1] = "ok"
                THEN /\ cached' = result[2] /\ Told(a, <<"token", result[2], clock>>) /\ UNCHANGED failures
                ELSE /\ cached' = None /\ Told(a, result)
                     /\ failures' = (IF Len(failures) >= MaxFailures THEN Tail(failures) ELSE failures) \o <<g>>
     /\ UNCHANGED <<clock, generation, results, flowVars>>

(* The fetch is given up: its future is dropped where it stands. *)
AskerDropped(a) ==
  /\ asker[a].at = "wait"
  /\ Told(a, <<"dropped">>)
  /\ UNCHANGED <<clock, cached, inFlight, generation, failures, results, flowVars>>

TokenTick ==
  /\ clock < MaxClock /\ clock' = clock + 1
  /\ UNCHANGED <<cached, inFlight, generation, failures, results, asker, flowVars>>

-----------------------------------------------------------------------------
(* The browser flow.  A token is [for, by, live]: the binding it was issued *)
(* under, the connection that obtained it, and whether it still works.      *)

Step(c, st) == flow' = [flow EXCEPT ![c] = st @@ @]

(* Endpoint validation, discovery along redirects, choice of the client     *)
(* authentication method: any of it may end the attempt.                    *)
Discover(c) ==
  /\ flow[c].at = "start"
  /\ \/ Step(c, [at |-> "load"])
     \/ Step(c, [at |-> "failed"])
  /\ UNCHANGED <<sourceVars, cacheFile>>

(* validate_cache_file: a link, or readable by others, fails. *)
Private(file) == file # Unsafe

(* FileCredentialStore::load: a file of another binding is no cache at all. *)
Loads(c) == IF cacheFile = None THEN FALSE ELSE cacheFile.binding = BindingOf[c]

(* resolve_cached_token: an unreadable file or one others may read fails    *)
(* the connection.                                                          *)
LoadCache(c) ==
  /\ flow[c].at = "load"
  /\ IF ~Private(cacheFile) THEN Step(c, [at |-> "failed"])
     ELSE IF ~Loads(c) THEN Step(c, [at |-> "listen"])
     ELSE IF ~cacheFile.expired THEN Step(c, [at |-> "handshake", token |-> cacheFile.token])
     ELSE Step(c, [at |-> IF cacheFile.token.refresh THEN "refresh" ELSE "listen", token |-> cacheFile.token])
  /\ UNCHANGED <<sourceVars, cacheFile>>

Issued(c, r) == [for |-> BindingOf[c], by |-> c, refresh |-> r]
Saved(c, token) == [binding |-> BindingOf[c], token |-> token, expired |-> FALSE]

(* write_private_file: under another name, then renamed over the old file. *)
Replace(c, token) == cacheFile' = Saved(c, token)

(* The endpoint refuses, cannot be reached, or issues; the file is replaced *)
(* whole by a rename.                                                       *)
RefreshFile(c) ==
  /\ flow[c].at = "refresh"
  /\ \/ Step(c, [at |-> "listen"]) /\ UNCHANGED cacheFile
     \/ Step(c, [at |-> "failed"]) /\ UNCHANGED cacheFile
     \/ LET token == Issued(c, TRUE)
        IN Replace(c, token) /\ Step(c, [at |-> "handshake", token |-> token])
  /\ UNCHANGED sourceVars

(* Listener, client registration, authorization URL with a fresh state. *)
Listen(c) ==
  /\ flow[c].at = "listen"
  /\ \/ Step(c, [at |-> "callback"])
     \/ Step(c, [at |-> "failed"])
  /\ UNCHANGED <<sourceVars, cacheFile>>

(* A request to the listener: only one that carries this flow's state       *)
(* counts, whichever connection's browser sent it; a timeout ends the wait. *)
Callback(c) ==
  /\ flow[c].at = "callback"
  /\ \/ \E s \in Connects, kind \in {"code", "error", "neither"} :
          /\ s = c /\ kind # "neither"
          /\ Step(c, IF kind = "code" THEN [at |-> "exchange", code |-> s] ELSE [at |-> "failed"])
     \/ Step(c, [at |-> "failed"])
  /\ UNCHANGED <<sourceVars, cacheFile>>

ExchangeCode(c) ==
  /\ flow[c].at = "exchange"
  /\ \/ Step(c, [at |-> "failed"]) /\ UNCHANGED cacheFile
     \/ \E r \in BOOLEAN :
          LET token == Issued(flow[c].code, r)
          IN Replace(c, token) /\ Step(c, [at |-> "handshake", token |-> token])
  /\ UNCHANGED sourceVars

(* The MCP handshake; the first 401 invalidates the cached token. *)
Handshake(c) ==
  /\ flow[c].at = "handshake"
  /\ \/ Step(c, [at |-> "connected"])
     \/ Step(c, [at |-> "failed"])
     \/ ~flow[c].retried /\ Step(c, [at |-> "invalidate", retried |-> TRUE])
  /\ UNCHANGED <<sourceVars, cacheFile>>

(* invalidate_cached_access_token reads the file, whoever wrote it ... *)
ReadToInvalidate(c) ==
  /\ flow[c].at = "invalidate"
  /\ Step(c, IF ~Private(cacheFile) THEN [at |-> "failed"]
             ELSE IF cacheFile = None THEN [at |-> "start"]
             ELSE [at |-> "rewrite", seen |-> cacheFile])
  /\ UNCHANGED <<sourceVars, cacheFile>>

(* ... and writes it back expired, over what was saved in between. *)
WriteInvalidated(c) ==
  /\ flow[c].at = "rewrite"
  /\ cacheFile' = [flow[c].seen EXCEPT !.expired = TRUE]
  /\ Step(c, [at |-> "start"])
  /\ UNCHANGED sourceVars

SourceStart ==
  /\ clock = 0 /\ cached = None /\ inFlight = None /\ generation = 0
  /\ failures = <<>> /\ results = <<>>
  /\ asker = [a \in Askers |-> [at |-> "ask", gen |-> 0, got |-> <<>>]]

FlowStart(file) ==
  /\ cacheFile = file
  /\ flow = [c \in Connects |-> [at |-> "start", token |-> None, code |-> None, seen |-> None, retried |-> FALSE]]

AskerStep(a) == AskToken(a) \/ ApplyResult(a)
RequestStep == \E g \in 0..Len(results) - 1 : TokenRequest(g)
FlowStep(c) ==
  \/ Discover(c) \/ LoadCache(c) \/ RefreshFile(c) \/ Listen(c) \/ Callback(c)
  \/ ExchangeCode(c) \/ Handshake(c) \/ ReadToInvalidate(c) \/ WriteInvalidated(c)

SourceNext == (\E a \in Askers : AskerStep(a) \/ AskerDropped(a)) \/ RequestStep \/ TokenTick
FlowNext == \E c \in Connects : FlowStep(c)

-----------------------------------------------------------------------------
(* At most one token request is out at a time, however many fetches need    *)
(* the header and whichever of them are dropped, and a request nobody       *)
(* applied yet is the one in flight (apply_in_flight_result's generation).  *)
SingleFlight ==
  \A g \in 0..Len(results) - 1 : Pending(g) => inFlight = g

(* A header is built from a token outside the refresh buffer, or from one   *)
(* this caller's own request has just produced; no failure is reported to a *)
(* fetch whose request succeeded (authorization_header_value).              *)
HeadersTrue ==
  \A a \in Askers :
    LET got == asker[a].got
    IN got # <<>> =>
       CASE got[1] = "token" ->
              \/ got[2].expires >= RefreshBuffer /\ got[3] < got[2].expires - RefreshBuffer
              \/ results[asker[a].gen + 1] = <<"ok", got[2]>>
         [] got[1] = "failed" -> results[asker[a].gen + 1] = <<"failed">>
         [] OTHER -> TRUE

(* A connection never presents a token issued for another resource, client  *)
(* or scope, though the cache file is shared, rewritten by invalidations of *)
(* others and replaced while it is being read (CacheBinding).               *)
TokensBound ==
  /\ \A c \in Connects : flow[c].at \in {"handshake", "connected"} => flow[c].token.for = BindingOf[c]
  /\ cacheFile \notin {None, Unsafe} => cacheFile.token.for = cacheFile.binding

(* A fetch that needs the header is owed it, or an error. *)
Unsettled(a) == asker[a].at = "wait"
=============================================================================

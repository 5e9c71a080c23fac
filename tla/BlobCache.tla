----------------------------- MODULE BlobCache -----------------------------
(***************************************************************************)
(* The local cache in front of object storage (heap_storage.rs): files in  *)
(* a directory, a size-bounded record of them under a mutex, and callers    *)
(* whose puts, gets and deletes interleave at every await.  A blob's name   *)
(* is the hash of its content, so its size never changes.  A file is        *)
(* written in place: a reader may find it half written.                     *)
(***************************************************************************)
EXTENDS Naturals, Sequences, SequencesExt, FiniteSets, FiniteSetsExt

CONSTANTS BlobNames, SizeOf, CacheCap,
          CacheWorkers,
          MaxRestarts    \* bound: restarts of the process

VARIABLES files,     \* cache directory: name -> "none" | "torn" | "full"
          primary,   \* names in object storage
          sizes,     \* CacheBound.sizes
          order,     \* CacheBound.order
          total,     \* CacheBound.total
          calls,     \* worker -> the calls it still has to make: [op, name]
          worker,    \* worker -> its call and where it stands
          strays,    \* history: files left by a failed put or an earlier process
          restarts

cacheVars == <<files, primary, sizes, order, total, calls, worker, strays, restarts>>

Idle == [op |-> "none", name |-> "none", at |-> "idle", victims |-> <<>>, result |-> "none"]

Moves(w, at) == worker' = [worker EXCEPT ![w].at = at]
Ends(w, result) == worker' = [worker EXCEPT ![w] = [Idle EXCEPT !.result = result]]
Name(w) == worker[w].name

(* CacheBound::record: the entries to evict, oldest first; the last entry   *)
(* left is never evicted, however large.                                    *)
RECURSIVE Evict(_, _)
Evict(bound, out) ==
  IF bound.total <= CacheCap \/ Len(bound.order) <= 1 THEN [bound |-> bound, out |-> out]
  ELSE LET v == Head(bound.order)
       IN Evict([sizes |-> [n \in DOMAIN bound.sizes \ {v} |-> bound.sizes[n]],
                 order |-> Tail(bound.order),
                 total |-> bound.total - bound.sizes[v]], Append(out, v))

Record(n) ==
  LET known == n \in DOMAIN sizes
      old == IF known THEN sizes[n] ELSE 0
  IN Evict([sizes |-> [m \in DOMAIN sizes \cup {n} |-> SizeOf[m]],
            order |-> IF known THEN order ELSE Append(order, n),
            total |-> total - old + SizeOf[n]], <<>>)

(* warm of this cache is a get whose data is dropped. *)
BeginCall(w) ==
  LET call == Head(calls[w])
  IN /\ worker[w].at = "idle" /\ calls[w] # <<>>
     /\ calls' = [calls EXCEPT ![w] = Tail(@)]
     /\ worker' = [worker EXCEPT ![w] = [Idle EXCEPT !.op = call.op, !.name = call.name,
                     !.at = CASE call.op = "put" -> "truncate" [] call.op = "get" -> "lookup"
                              [] call.op = "delete" -> "forget"]]
     /\ UNCHANGED <<files, primary, sizes, order, total, strays, restarts>>

(* A hit returns what the file holds, recorded or not. *)
Lookup(w) ==
  /\ worker[w].at = "lookup"
  /\ IF files[Name(w)] # "none" THEN Ends(w, files[Name(w)]) ELSE Moves(w, "fetch")
  /\ UNCHANGED <<calls, files, primary, sizes, order, total, strays, restarts>>

Fetch(w) ==
  /\ worker[w].at = "fetch"
  /\ \/ Name(w) \in primary /\ Moves(w, "truncate")
     \/ Ends(w, "missing")           \* absent, or the request failed
  /\ UNCHANGED <<calls, files, primary, sizes, order, total, strays, restarts>>

(* std::fs::write truncates, then fills; filling the cache may fail. *)
Truncate(w) ==
  /\ worker[w].at = "truncate"
  /\ files' = [files EXCEPT ![Name(w)] = "torn"]
  /\ Moves(w, "fill")
  /\ UNCHANGED <<calls, primary, sizes, order, total, strays, restarts>>

Fill(w) ==
  /\ worker[w].at = "fill"
  /\ \/ /\ files' = [files EXCEPT ![Name(w)] = "full"]
        /\ Moves(w, IF worker[w].op = "put" THEN "store" ELSE "record")
        /\ UNCHANGED strays
     \/ /\ Ends(w, IF worker[w].op = "put" THEN "error" ELSE "full")
        /\ strays' = strays \cup {Name(w)}
        /\ UNCHANGED files
  /\ UNCHANGED <<calls, primary, sizes, order, total, restarts>>

Store(w) ==
  /\ worker[w].at = "store"
  /\ \/ primary' = primary \cup {Name(w)} /\ Moves(w, "record") /\ UNCHANGED strays
     \/ Ends(w, "error") /\ strays' = strays \cup {Name(w)} /\ UNCHANGED primary
  /\ UNCHANGED <<calls, files, sizes, order, total, restarts>>

NoteCached(w) ==
  /\ worker[w].at = "record"
  /\ LET r == Record(Name(w))
     IN /\ sizes' = r.bound.sizes /\ order' = r.bound.order /\ total' = r.bound.total
        /\ worker' = [worker EXCEPT ![w].at = "evict", ![w].victims = r.out]
  /\ UNCHANGED <<calls, files, primary, strays, restarts>>

EvictNext(w) ==
  /\ worker[w].at = "evict"
  /\ IF worker[w].victims = <<>> THEN Ends(w, "full") /\ UNCHANGED files
     ELSE /\ files' = [files EXCEPT ![Head(worker[w].victims)] = "none"]
          /\ worker' = [worker EXCEPT ![w].victims = Tail(@)]
  /\ UNCHANGED <<calls, primary, sizes, order, total, strays, restarts>>

Forget(w) ==
  /\ worker[w].at = "forget"
  /\ IF Name(w) \in DOMAIN sizes
     THEN /\ total' = total - sizes[Name(w)]
          /\ sizes' = [n \in DOMAIN sizes \ {Name(w)} |-> sizes[n]]
          /\ order' = SelectSeq(order, LAMBDA n : n # Name(w))
     ELSE UNCHANGED <<sizes, order, total>>
  /\ Moves(w, "unlink")
  /\ UNCHANGED <<calls, files, primary, strays, restarts>>

DeleteFile(w) ==
  /\ worker[w].at = "unlink"
  /\ files' = [files EXCEPT ![Name(w)] = "none"]
  /\ Moves(w, "unstore")
  /\ UNCHANGED <<calls, primary, sizes, order, total, strays, restarts>>

DeletePrimary(w) ==
  /\ worker[w].at = "unstore"
  /\ \/ primary' = primary \ {Name(w)} /\ Ends(w, "full")
     \/ Ends(w, "error") /\ UNCHANGED primary
  /\ UNCHANGED <<calls, files, sizes, order, total, strays, restarts>>

(* A new process starts with an empty record over the old directory. *)
CacheRestart ==
  /\ restarts < MaxRestarts /\ restarts' = restarts + 1
  /\ sizes' = [n \in {} |-> 0] /\ order' = <<>> /\ total' = 0
  /\ worker' = [w \in CacheWorkers |-> Idle]
  /\ strays' = {n \in BlobNames : files[n] # "none"}
  /\ UNCHANGED <<calls, files, primary>>

CacheStart(plan) ==
  /\ calls = plan
  /\ files = [n \in BlobNames |-> "none"] /\ primary = {}
  /\ sizes = [n \in {} |-> 0] /\ order = <<>> /\ total = 0
  /\ worker = [w \in CacheWorkers |-> Idle] /\ strays = {} /\ restarts = 0

CacheNext ==
  \/ \E w \in CacheWorkers :
       \/ BeginCall(w) \/ Lookup(w) \/ Fetch(w) \/ Truncate(w) \/ Fill(w) \/ Store(w) \/ NoteCached(w)
       \/ EvictNext(w) \/ Forget(w) \/ DeleteFile(w) \/ DeletePrimary(w)
  \/ CacheRestart

-----------------------------------------------------------------------------
InFlight(n) ==
  \E w \in CacheWorkers : worker[w].at # "idle" /\ (Name(w) = n \/ n \in Range(worker[w].victims))

(* The record is exact and within its bound, and every file in the          *)
(* directory is recorded, on its way in or out, or left by a failed put or  *)
(* an earlier process: a file the record misses would never be evicted      *)
(* (CacheBound::record and forget, and the deletions after the lock).       *)
CacheAccounted ==
  /\ total = MapThenSumSet(LAMBDA n : sizes[n], DOMAIN sizes)
  /\ Len(order) = Cardinality(DOMAIN sizes) /\ Range(order) = DOMAIN sizes
  /\ total <= CacheCap \/ Len(order) = 1
  /\ \A n \in BlobNames : files[n] # "none" => n \in DOMAIN sizes \cup strays \/ InFlight(n)
=============================================================================

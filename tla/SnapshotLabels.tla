--------------------------- MODULE SnapshotLabels ---------------------------
(***************************************************************************)
(* The pointers to snapshots: labels and their reflogs (fs_labels.rs), the *)
(* verbs that move them (ffi.rs), the collector that sweeps what they do   *)
(* not reach (fs_gc.rs) and the tags of heaps (heap_tags.rs), over a       *)
(* metadata store with single writes and conditional transactions          *)
(* (metadata-store: sled, DynamoDB) or over the replicated log of a        *)
(* cluster.  Several callers run at once; every await is a step boundary.  *)
(***************************************************************************)
EXTENDS Naturals, Sequences, SequencesExt, FiniteSets

CONSTANTS LabelNames, LabelCallers,
          LabelRoots,     \* snapshots, by root
          BlobsOf,        \* root -> the tree nodes and chunks it reaches
          MaxForce,       \* the retries of force and merge_tags (64 in the code)
          None

VARIABLES labelSite,   \* [cluster, keep, calls]: backend, retention, the calls to make
          heads,       \* label -> root
          rows,        \* label -> reflog rows in commit order, each with its key
          nextKey,     \* the store's id generator
          blobs,       \* stored nodes and chunks
          tags,        \* the tags of the one heap considered
          caller,      \* caller -> where its call stands
          labelled,    \* history: roots complete when a label last moved to them
          merged       \* history: keys merged since the last plain write of the tags

labelVars == <<labelSite, heads, rows, nextKey, blobs, tags, caller, labelled, merged>>

Call(c) == labelSite.calls[c]
At(c, where) == caller[c].at = where
Goes(c, st) == caller' = [caller EXCEPT ![c] = st @@ @]
Answers(c, result) == Goes(c, [at |-> "done", result |-> result])

Stored(r) == BlobsOf[r] \subseteq blobs

(* log: rows by key; keys are taken before the transaction that writes them. *)
LogOf(l) == SortSeq(rows[l], LAMBDA a, b : a.key < b.key)

(* A read through a cluster is of the local replica, which may lag. *)
LogsSeen(l) ==
  IF labelSite.cluster THEN {SubSeq(rows[l], 1, n) : n \in 0..Len(rows[l])} ELSE {rows[l]}

HeadIn(log) == IF log = <<>> THEN None ELSE Last(log).to

LogRecent(l, n) == LET all == LogOf(l) IN SubSeq(all, IF Len(all) > n THEN Len(all) - n + 1 ELSE 1, Len(all))

-----------------------------------------------------------------------------
(* fs_set_label, fs_push and fs_reset up to their first move of the label. *)

SetLabel(c) ==
  /\ Call(c).verb = "label" /\ At(c, "start")
  /\ \E log \in LogsSeen(Call(c).label) :
       Goes(c, IF HeadIn(log) # None THEN [at |-> "force", op |-> "reset"]
               ELSE [at |-> "key", op |-> "create", expect |-> None])
  /\ UNCHANGED <<labelSite, heads, rows, nextKey, blobs, tags, labelled, merged>>

PushLabel(c) ==
  LET call == Call(c)
  IN /\ call.verb = "push" /\ At(c, "start")
     /\ \E log \in LogsSeen(call.label) :
          Goes(c, IF call.force THEN [at |-> "force", op |-> "reset"]
                  ELSE IF HeadIn(log) = None /\ call.expected = None
                  THEN [at |-> "key", op |-> "create", expect |-> None]
                  ELSE [at |-> "key", op |-> "push", expect |-> call.expected])
     /\ UNCHANGED <<labelSite, heads, rows, nextKey, blobs, tags, labelled, merged>>

Logged(log, r) == \E e \in Range(log) : e.to = r \/ e.from = r

ResetLabel(c) ==
  LET call == Call(c)
  IN /\ call.verb = "reset" /\ At(c, "start")
     /\ \E log \in LogsSeen(call.label) :
          IF call.unlogged \/ Logged(log, call.target)
          THEN Goes(c, [at |-> "force", op |-> "reset"])
          ELSE Answers(c, "unlogged")
     /\ UNCHANGED <<labelSite, heads, rows, nextKey, blobs, tags, labelled, merged>>

(* force reads the head it will replace. *)
ForceRead(c) ==
  /\ At(c, "force")
  /\ \E log \in LogsSeen(Call(c).label) : Goes(c, [at |-> "key", expect |-> HeadIn(log)])
  /\ UNCHANGED <<labelSite, heads, rows, nextKey, blobs, tags, labelled, merged>>

(* generate_id; a cluster keys a row by time and a random suffix. *)
TakeKey(c) ==
  /\ At(c, "key")
  /\ nextKey' = nextKey + 1
  /\ Goes(c, [at |-> "swap", key |-> nextKey])
  /\ UNCHANGED <<labelSite, heads, rows, blobs, tags, labelled, merged>>

(* Head and reflog row are one transaction, or one replicated command. *)
Committed(c) ==
  LET call == Call(c)
      row == [key |-> caller[c].key, from |-> caller[c].expect, to |-> call.target,
              op |-> caller[c].op, by |-> c]
  IN /\ heads' = [heads EXCEPT ![call.label] = call.target]
     /\ rows' = [rows EXCEPT ![call.label] = Append(@, row)]
     /\ labelled' = IF Stored(call.target) THEN labelled \cup {call.target}
                    ELSE labelled \ {call.target}

(* A fault: the head is swapped without being compared. *)
FaultyMatches(c) == TRUE

(* A cluster's force is a blind put: nothing is compared. *)
Matches(c) ==
  \/ heads[Call(c).label] = caller[c].expect
  \/ labelSite.cluster /\ caller[c].op = "reset"

MoveHead(c) ==
  /\ At(c, "swap")
  /\ \/ Matches(c) /\ Committed(c) /\ Answers(c, "advanced")
     \/ /\ ~Matches(c)
        /\ IF caller[c].op # "reset" THEN Answers(c, "rejected")
           ELSE IF caller[c].tries + 1 < MaxForce
           THEN Goes(c, [at |-> "force", tries |-> caller[c].tries + 1])
           ELSE Answers(c, "contention")
        /\ UNCHANGED <<heads, rows, labelled>>
  /\ UNCHANGED <<labelSite, nextKey, blobs, tags, merged>>

(* The store's answer is lost: the caller gets an error, the transaction    *)
(* happened or did not, and it is never tried again.                        *)
MoveHeadUnknown(c) ==
  /\ At(c, "swap")
  /\ \/ Matches(c) /\ Committed(c)
     \/ UNCHANGED <<heads, rows, labelled>>
  /\ Answers(c, "error")
  /\ UNCHANGED <<labelSite, nextKey, blobs, tags, merged>>

-----------------------------------------------------------------------------
(* Tags of a heap. *)

TagVerbs == {"merge", "delete", "set"}

TagRead(c) ==
  /\ At(c, "start") /\ Call(c).verb \in TagVerbs
  /\ Goes(c, [at |-> "tag", seen |-> IF Call(c).verb = "set" THEN {} ELSE tags])
  /\ UNCHANGED <<labelSite, heads, rows, nextKey, blobs, tags, labelled, merged>>

(* merge_tags swaps against what it read and reads again when that changed; *)
(* through a cluster it writes what it read, merged.                        *)
MergeTags(c) ==
  /\ At(c, "tag") /\ Call(c).verb = "merge"
  /\ IF tags = caller[c].seen \/ labelSite.cluster
     THEN /\ tags' = caller[c].seen \cup Call(c).keys
          /\ merged' = merged \cup Call(c).keys
          /\ Answers(c, "ok")
     ELSE /\ UNCHANGED <<tags, merged>>
          /\ IF caller[c].tries + 1 < MaxForce
             THEN Goes(c, [at |-> "start", tries |-> caller[c].tries + 1])
             ELSE Answers(c, "contention")
  /\ UNCHANGED <<labelSite, heads, rows, nextKey, blobs, labelled>>

(* set_tags and delete_tags end in a plain write. *)
WriteTags(c, written) ==
  /\ At(c, "tag")
  /\ tags' = written /\ merged' = {}
  /\ Answers(c, "ok")
  /\ UNCHANGED <<labelSite, heads, rows, nextKey, blobs, labelled>>

SetTags(c) == Call(c).verb = "set" /\ WriteTags(c, Call(c).keys)
DeleteTags(c) == Call(c).verb = "delete" /\ WriteTags(c, caller[c].seen \ Call(c).keys)

-----------------------------------------------------------------------------
(* The collector.  It keeps no lock against writers and is meant to run     *)
(* while none is at work.                                                   *)

Retained(l) == IF labelSite.keep = None THEN LogOf(l) ELSE LogRecent(l, labelSite.keep)

GcRoots ==
  UNION {{heads[l]} \cup {e.to : e \in Range(Retained(l))}
         : l \in {m \in LabelNames : heads[m] # None}}

(* mark_tree skips what is missing and marks the rest of the tree. *)
MarkTree(r) == BlobsOf[r] \cap blobs

Collect ==
  /\ \A c \in LabelCallers : At(c, "start") \/ At(c, "done")
  /\ blobs' = blobs \cap UNION {MarkTree(r) : r \in GcRoots}
  /\ blobs' # blobs
  /\ UNCHANGED <<labelSite, heads, rows, nextKey, tags, caller, labelled, merged>>

-----------------------------------------------------------------------------
LabelStart(site) ==
  /\ labelSite = site
  /\ heads = site.heads
  /\ rows = [l \in LabelNames |->
               IF site.heads[l] = None THEN <<>>
               ELSE <<[key |-> 0, from |-> None, to |-> site.heads[l], op |-> "create", by |-> None]>>]
  /\ nextKey = 1
  /\ blobs = UNION {BlobsOf[r] : r \in LabelRoots}
  /\ tags = {}
  /\ caller = [c \in LabelCallers |-> [at |-> "start", op |-> "none", expect |-> None, key |-> 0,
                                       tries |-> 0, seen |-> {}, result |-> "none"]]
  /\ labelled = {site.heads[l] : l \in LabelNames} \ {None}
  /\ merged = {}

LabelNext ==
  \/ \E c \in LabelCallers :
       \/ SetLabel(c) \/ PushLabel(c) \/ ResetLabel(c) \/ ForceRead(c) \/ TakeKey(c)
       \/ MoveHead(c) \/ MoveHeadUnknown(c) \/ TagRead(c) \/ MergeTags(c) \/ SetTags(c) \/ DeleteTags(c)
  \/ Collect

-----------------------------------------------------------------------------
(* The reflog is the label's history: a head is where its last committed    *)
(* row points, every row starts where the row before it ended (a blind      *)
(* reset through a cluster may record an older start), a caller is told a   *)
(* move was made exactly if its one row is there, and a reset stays within  *)
(* what the log held (move_head's transaction; create, cas, force).         *)
HistoryExact ==
  /\ \A l \in LabelNames :
       LET log == rows[l] IN
       /\ heads[l] = (IF log = <<>> THEN None ELSE Last(log).to)
       /\ \A i \in 1..Len(log) :
            (labelSite.cluster /\ log[i].op = "reset")
              \/ log[i].from = (IF i = 1 THEN None ELSE log[i - 1].to)
       /\ \A i \in 1..Len(log) :
            log[i].by # None /\ Call(log[i].by).verb = "reset" /\ ~Call(log[i].by).unlogged
              => Logged(SubSeq(log, 1, i - 1), log[i].to)
  /\ \A c \in LabelCallers :
       LET mine == {<<l, i>> \in LabelNames \X (1..(1 + Cardinality(LabelCallers))) :
                      i \in DOMAIN rows[l] /\ rows[l][i].by = c}
       IN /\ caller[c].result = "advanced" => Cardinality(mine) = 1
          /\ caller[c].result \notin {"advanced", "error"} => mine = {}

(* No merge of tags undoes another one; only set_tags and delete_tags, whose *)
(* write is not conditional, and the cluster's merge, by its own comment a   *)
(* read and a write, may (merge_tags of heap_tags.rs).                       *)
MergesKept == labelSite.cluster \/ merged \subseteq tags

(* A snapshot that was whole when a label moved to it stays whole for as    *)
(* long as a head, or a row the collector's retention keeps, names it, so   *)
(* rolling forward after a reset finds it (fs_gc.rs:9).                     *)
RollForwardKept ==
  \A l \in LabelNames :
    heads[l] # None =>
      \A r \in {heads[l]} \cup {e.to : e \in Range(Retained(l))} : r \in labelled => Stored(r)
=============================================================================

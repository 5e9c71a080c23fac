--------------------------- MODULE FlatFilesystem ---------------------------
(***************************************************************************)
(* What the snapshot filesystem promises: a finite map from paths to files *)
(* in which directories are implied by the files below them, and a         *)
(* three-way merge decided path by path (merge_manifests of fs_merge.rs).  *)
(* Snapshots, layers, whiteouts and tree nodes do not exist here.          *)
(***************************************************************************)
EXTENDS Naturals, Sequences, FiniteSets, Functions, TLC

CONSTANTS Paths, Entries, Snapshots, Absent

VARIABLES files,   \* path -> entry
          answer   \* what the last operation answered

flatVars == <<files, answer>>

Inside(d, p) == Len(p) > Len(d) /\ SubSeq(p, 1, Len(d)) = d

Under(d) == {p \in DOMAIN files : Inside(d, p)}

FileAt(m, p) == IF p \in DOMAIN m THEN m[p] ELSE Absent

Becomes(m, a) == files' = m /\ answer' = a

Refuse(code) == Becomes(files, code)

Without(ps) == Restrict(files, DOMAIN files \ ps)

FlatWrite(p, e) ==
  \/ Becomes(p :> e @@ files, <<"ok">>)
  \/ Becomes(p :> [bytes |-> (IF p \in DOMAIN files THEN files[p].bytes ELSE <<>>) \o e.bytes,
                   link  |-> FALSE] @@ files, <<"ok">>)
  \/ IF p \in DOMAIN files \/ Under(p) # {} THEN Refuse(<<"EEXIST">>)
     ELSE Becomes(p :> [e EXCEPT !.link = TRUE] @@ files, <<"ok">>)

FlatCopy(p, q) ==
  IF p \in DOMAIN files THEN Becomes(q :> files[p] @@ files, <<"ok">>) ELSE Refuse(<<"ENOENT">>)

FlatRemove(p, recursive) ==
  IF p \in DOMAIN files THEN Becomes(Without({p}), <<"ok">>)
  ELSE IF Under(p) = {} THEN Refuse(<<"ENOENT">>)
  ELSE IF recursive THEN Becomes(Without(Under(p)), <<"ok">>)
  ELSE Refuse(<<"ENOTEMPTY">>)

FlatUnlink(p) ==
  IF p \in DOMAIN files THEN Becomes(Without({p}), <<"ok">>) ELSE Refuse(<<"ENOENT">>)

(* A file moves alone; a directory moves with everything below it. *)
FlatRename(p, q) ==
  LET moving == IF p \in DOMAIN files THEN {p} ELSE Under(p)
      Target(r) == q \o SubSeq(r, Len(p) + 1, Len(r))
      Source(r) == p \o SubSeq(r, Len(q) + 1, Len(r))
  IN IF p = q THEN Refuse(<<"ok">>)
     ELSE IF p \notin DOMAIN files /\ Inside(p, q) THEN Refuse(<<"EINVAL">>)
     ELSE IF p \notin DOMAIN files /\ Inside(q, p) THEN Refuse(<<"ENOTEMPTY">>)
     ELSE IF moving = {} THEN Refuse(<<"ENOENT">>)
     ELSE Becomes([r \in {Target(s) : s \in moving} |-> files[Source(r)]] @@ Without(moving), <<"ok">>)

FlatQuery(p) ==
  LET e == FileAt(files, p)
      bytes == IF e = Absent THEN <<>> ELSE e.bytes
  IN Becomes(files, <<"read",
       [exists  |-> e # Absent \/ Under(p) # {},
        stat    |-> IF e # Absent THEN [dir |-> FALSE, size |-> Len(bytes), link |-> e.link]
                    ELSE IF Under(p) # {} THEN [dir |-> TRUE, size |-> 0, link |-> FALSE]
                    ELSE Absent,
        names   |-> IF Under(p) = {} /\ p # <<>> THEN Absent ELSE {r[Len(p) + 1] : r \in Under(p)},
        target  |-> IF e = Absent THEN "ENOENT" ELSE IF e.link THEN "target" ELSE "EINVAL",
        pages   |-> IF bytes = <<>> THEN <<<<>>, <<>>>> ELSE <<<<Head(bytes)>>, Tail(bytes)>>]>>)

(* merge_manifests: each path on its own; a text conflict may be reconciled *)
(* by the content merger, and one that is not leaves everything as it was.  *)
FlatMerge(b, o, t, prefer) ==
  LET paths == DOMAIN b \cup DOMAIN o \cup DOMAIN t
      B(p) == FileAt(b, p)
      O(p) == FileAt(o, p)
      T(p) == FileAt(t, p)
      Diverged == {p \in paths : O(p) # T(p) /\ O(p) # B(p) /\ T(p) # B(p)}
      Clean(p) == IF O(p) = B(p) THEN T(p) ELSE O(p)
      Chosen(p) == CASE p \notin Diverged   -> Clean(p)
                     [] prefer = "ours"     -> O(p)
                     [] prefer = "theirs"   -> T(p)
      Open == IF prefer = "none" THEN Diverged ELSE {}
      Merged(done) == [p \in {q \in paths \ Open : Chosen(q) # Absent} |-> Chosen(p)] @@ done
      Both(p) == [bytes |-> O(p).bytes \o T(p).bytes, link |-> FALSE]
      Mergeable == {p \in Open : O(p) # Absent /\ T(p) # Absent
                                   /\ 0 \notin Range(O(p).bytes) \cup Range(T(p).bytes)}
  IN \E done \in SUBSET Mergeable :
       IF done = Open THEN Becomes(Merged([p \in done |-> Both(p)]), <<"merged">>)
       ELSE Refuse(<<"conflict", Open \ done>>)

FlatInit == files \in Snapshots /\ answer = <<"ok">>

FlatNext ==
  \/ \E p \in Paths, e \in Entries : FlatWrite(p, e)
  \/ \E p, q \in Paths : FlatCopy(p, q) \/ FlatRename(p, q)
  \/ \E p \in Paths : FlatUnlink(p)
  \/ \E p \in Paths \cup {<<>>} : FlatQuery(p) \/ FlatRemove(p, TRUE) \/ FlatRemove(p, FALSE)
  \/ Refuse(<<"ok">>)   \* a push: nothing a session sees changes
  \/ \E b, o, t \in Snapshots, f \in {"none", "ours", "theirs"} : FlatMerge(b, o, t, f)

FlatSpec == FlatInit /\ [][FlatNext]_flatVars
=============================================================================

------------------------------- MODULE Manifest -------------------------------
(***************************************************************************)
(* The manifests of the file-integrity engine: how a file becomes an entry *)
(* (Manifest::record), how two manifests are compared (Manifest::diff) and *)
(* what the root hash covers.  Everything here is a pure operator.         *)
(*                                                                         *)
(* A disk maps the paths in scope that exist to files; which paths are in  *)
(* scope (roots, include and exclude globs) is left out.  A file's hash is *)
(* its body, so two files have one hash exactly if they have one body, and *)
(* body stands for the target of a link.  Symbolic links are not followed. *)
(***************************************************************************)
EXTENDS Integers, FiniteSets

CONSTANTS
    Bodies,     \* file contents and link targets
    Sizes,      \* file sizes
    Mtimes,     \* modification times
    MaxSize,    \* max_file_size
    Scripts,    \* the paths with a script extension
    NoHash      \* null: neither a hash nor a target

ASSUME ManifestAssumption ==
    /\ NoHash \notin Bodies
    /\ Sizes \cup Mtimes \cup {MaxSize} \subseteq Nat

Kinds == {"hashed", "size_only", "symlink", "unreadable"}

File == [link : BOOLEAN, body : Bodies, size : Sizes, mtime : Mtimes, readable : BOOLEAN]

Entry == [kind : Kinds, hash : Bodies \cup {NoHash}, target : Bodies \cup {NoHash},
          size : Sizes \cup {0}, mtime : Mtimes]

\* Functions from some of the paths of S to T: disks, and manifests.
Partial(S, T) == UNION {[D -> T] : D \in SUBSET S}

-----------------------------------------------------------------------------
(* Building.                                                               *)

Bare(kind, f) ==
    [kind |-> kind, hash |-> NoHash, target |-> NoHash, size |-> f.size, mtime |-> f.mtime]

Hashed(hash, f) == [Bare("hashed", f) EXCEPT !.hash = hash]

Symlink(f) == [Bare("symlink", f) EXCEPT !.target = f.body, !.size = 0]

\* Mutant: the modification time is not compared.
CarriedBySize(p, f, previous) ==
    /\ p \in DOMAIN previous
    /\ previous[p].kind = "hashed"
    /\ previous[p].size = f.size

\* Size and mtime are those of a hash known already, which is then carried forward.
Carried(p, f, previous) ==
    /\ p \in DOMAIN previous
    /\ previous[p].kind = "hashed"
    /\ previous[p].size = f.size
    /\ previous[p].mtime = f.mtime

\* Manifest::record, and scanDir's treatment of a link.
RecordOf(p, f, previous) ==
    CASE f.link -> Symlink(f)
      [] ~f.link /\ Carried(p, f, previous) -> Hashed(previous[p].hash, f)
      [] ~f.link /\ ~Carried(p, f, previous) ->
            IF f.size > MaxSize /\ p \notin Scripts THEN Bare("size_only", f)
            ELSE IF ~f.readable THEN Bare("unreadable", f)
            ELSE Hashed(f.body, f)

Build(disk, previous) == [p \in DOMAIN disk |-> RecordOf(p, disk[p], previous)]

-----------------------------------------------------------------------------
(* Comparing.                                                              *)

Changed(a, b) ==
    \/ a.kind # b.kind
    \/ /\ a.kind = "hashed" /\ a.hash # b.hash
    \/ /\ a.kind = "symlink" /\ a.target # b.target
    \/ /\ a.kind \in {"size_only", "unreadable"}
       /\ <<a.size, a.mtime>> # <<b.size, b.mtime>>

Diff(base, current) ==
    [new      |-> DOMAIN current \ DOMAIN base,
     modified |-> {p \in DOMAIN base \cap DOMAIN current : Changed(base[p], current[p])},
     deleted  |-> DOMAIN base \ DOMAIN current]

NoDiff == [new |-> {}, modified |-> {}, deleted |-> {}]

\* What the hash over the sorted entries tells apart.
RootHash(manifest) ==
    [p \in DOMAIN manifest |-> <<manifest[p].hash, manifest[p].size, manifest[p].kind>>]

-----------------------------------------------------------------------------
(* What a comparison without a difference says of the disk.                *)

\* The file has the body that entry e stands for, or neither its size nor its time has
\* changed; of a file that is not hashed these two are all there is to see.
Unchanged(e, f) ==
    \/ f.link /\ e.target = f.body
    \/ ~f.link /\ e.hash = f.body
    \/ ~f.link /\ e.kind # "symlink" /\ e.size = f.size /\ e.mtime = f.mtime

Vouched(known, seen) ==
    /\ DOMAIN seen = DOMAIN known
    /\ \A p \in DOMAIN seen : Unchanged(known[p], seen[p])
=============================================================================

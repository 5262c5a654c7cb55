------------------------------- MODULE FatDir -------------------------------
(***************************************************************************)
(* Names of a FAT volume: fat_read and fat_readdir of kernel/fs/fat.c walk *)
(* a path through the directories (get_path, get_root_file, get_file) and  *)
(* read or list what it names (read_file, read_root_dir, read_dir).        *)
(* Several processes do so at once; root_dir_count is shared, and a FAT32  *)
(* volume sets it anew in every call.                                      *)
(*                                                                         *)
(* A directory is the sequence of its 32-byte entries.  A name is the      *)
(* sequence of its pieces of up to 13 characters; the entries of a long    *)
(* name carry them from the last to the first, before the entry they name. *)
(***************************************************************************)
EXTENDS FileRead

CONSTANTS Callers,      \* processes that call file_read and file_readdir
          Offsets,      \* places in a listing asked for
          MaxErrors     \* bound: entries and tables the drive fails to read

DirEntry == [kind : {"lfn", "std", "deleted"}, last : BOOLEAN, order : Nat, piece : STRING,
             sum : Nat, attr : SUBSET STRING, id : STRING]
Directory(v) == {s \in Seq(DirEntry) :
    \A k \in DOMAIN s : "dir" \in s[k].attr => s[k].id \in DOMAIN v.dirs}

ASSUME FatDirAssumption ==
    /\ Offsets \subseteq Nat /\ MaxErrors \in Nat
    /\ \A v \in Volumes :
        /\ v.root \in Directory(v) /\ \A d \in DOMAIN v.dirs : v.dirs[d] \in Directory(v)
        /\ v.paths \subseteq Seq(Seq(STRING)) /\ v.perCluster \in Nat \ {0}

Entry(kind, last, order, piece, sum, attr, id) ==
    [kind |-> kind, last |-> last, order |-> order, piece |-> piece, sum |-> sum,
     attr |-> attr, id |-> id]
Lfn(last, order, piece, sum) == Entry("lfn", last, order, piece, sum, {}, "none")
Std(attr, id, sum) == Entry("std", FALSE, 0, "none", sum, attr, id)
Deleted == Entry("deleted", FALSE, 0, "none", 0, {}, "none")
RootEntry == Entry("root", FALSE, 0, "none", 0, {"dir"}, "none")      \* reserved = '/'

NoName == [name |-> <<>>, type |-> "none"]      \* name_len = 0
Answered(name, type) == [name |-> name, type |-> type]

VARIABLES rootCount,    \* fat -> root_dir_count
          call,         \* call[p]: p's call and its locals
          errors        \* how many more reads fail

tree == <<rootCount, call, errors>>
fatVars == <<vars, tree>>

Outside == [at |-> "out", op |-> "read", asked |-> <<>>, place |-> 0, rest |-> <<>>,
            cur |-> RootEntry, entries |-> 0, pos |-> 0, i |-> 0, len |-> 0, skip |-> 0,
            name |-> <<>>, answer |-> NoName, failed |-> FALSE]

FatInit ==
    /\ Init
    /\ rootCount = IF volume.fat32 THEN 0 ELSE Len(volume.root)
    /\ call = [p \in Callers |-> Outside]
    /\ errors = MaxErrors

-----------------------------------------------------------------------------
At(p, here) == call[p].at = here
InRoot(c) == c.cur.kind = "root"
EntriesOf(c) == IF InRoot(c) THEN volume.root ELSE volume.dirs[c.cur.id]
DirCount(p) == IF InRoot(call[p]) THEN rootCount ELSE call[p].entries
Want(p) == Head(call[p].rest)

Keep == UNCHANGED <<vars, rootCount, errors>>
End(p, answer) == call' = [call EXCEPT ![p].at = "done", ![p].answer = answer]

(* fat_read, fat_readdir: get_path starts at the root.                       *)
Call(p) ==
    /\ At(p, "out") /\ pc = "idle" /\ chain = <<>>
    /\ \E path \in volume.paths, op \in {"read", "list"}, k \in Offsets :
        /\ op = "read" => k = 0
        /\ call' = [call EXCEPT ![p] = [Outside EXCEPT
                        !.at = "path", !.op = op, !.asked = path, !.place = k, !.rest = path]]
    /\ Keep

(* get_path: an empty name is passed over; a name is looked for if what      *)
(* stands before it is a directory ...                                       *)
SkipEmpty(p) ==
    /\ At(p, "path") /\ call[p].rest # <<>> /\ Want(p) = <<>>
    /\ call' = [call EXCEPT ![p].rest = Tail(@)]
    /\ Keep

EnterDir(p) ==
    /\ At(p, "path") /\ call[p].rest # <<>> /\ Want(p) # <<>>
    /\ "dir" \in call[p].cur.attr
    /\ call' = [call EXCEPT ![p].at = "count", ![p].pos = 0]
    /\ Keep

(* ... and else the answer is an entry marked deleted and not set otherwise: *)
(* fat_readdir may take it for the root.                                     *)
NotDir(p) ==
    /\ At(p, "path") /\ call[p].rest # <<>> /\ Want(p) # <<>>
    /\ "dir" \notin call[p].cur.attr
    /\ \/ End(p, NoName)
       \/ call[p].op = "list" /\ call' = [call EXCEPT ![p].rest = <<>>, ![p].cur = RootEntry]
    /\ Keep

(* The path is walked: read_file answers -1 for what is no file ...          *)
ReadNamed(p) ==
    /\ At(p, "path") /\ call[p].rest = <<>> /\ call[p].op = "read"
    /\ End(p, IF "archive" \in call[p].cur.attr
              THEN Answered(<<call[p].cur.id>>, "data") ELSE NoName)
    /\ Keep

(* ... and read_root_dir and read_dir list.                                  *)
ListNamed(p) ==
    /\ At(p, "path") /\ call[p].rest = <<>> /\ call[p].op = "list"
    /\ IF "dir" \in call[p].cur.attr
       THEN call' = [call EXCEPT ![p].at = "count", ![p].pos = 0, ![p].skip = call[p].place]
       ELSE End(p, NoName)
    /\ Keep

(* dir_cluster: how many entries the clusters of the directory hold; fewer   *)
(* if the table cannot be read.  The root's count is everybody's.            *)
Counted(p, k, fails) ==
    /\ rootCount' = IF InRoot(call[p]) THEN k ELSE rootCount
    /\ call' = [q \in Callers |->
        IF q = p
        THEN [call[p] EXCEPT !.at = IF call[p].rest = <<>> THEN "list" ELSE "scan",
                             !.entries = k, !.failed = @ \/ fails]
        ELSE [call[q] EXCEPT !.failed = @ \/ (fails /\ InRoot(call[p]) /\ InRoot(call[q]))]]

CountClusters(p) ==
    /\ At(p, "count")
    /\ LET all == Len(EntriesOf(call[p])) IN
       \/ /\ Counted(p, all, FALSE)
          /\ UNCHANGED errors
       \/ /\ errors > 0 /\ (volume.fat32 \/ ~InRoot(call[p]))
          /\ \E k \in {j \in 1 .. all : j % volume.perCluster = 0} : Counted(p, k, TRUE)
          /\ errors' = errors - 1
    /\ UNCHANGED vars

-----------------------------------------------------------------------------
(* read_dir_entry, read_root_dir_entry: entry k of the directory ...         *)
Fetched(p, k) == EntriesOf(call[p])[k + 1]
Readable(p, k) == k < Len(EntriesOf(call[p]))

(* ... or, on an error and behind the end, what the stack holds: the call    *)
(* may then answer anything.                                                 *)
NextRead(p) ==
    LET c == call[p] IN
    CASE c.at \in {"rest", "listrest"} -> c.pos + c.len - c.i
      [] c.at \in {"std", "liststd"} -> c.pos + c.len
      [] OTHER -> c.pos

BadRead(p) ==
    /\ \/ At(p, "scan") \/ At(p, "list")
       \/ At(p, "rest") \/ At(p, "std") \/ At(p, "listrest") \/ At(p, "liststd")
    /\ call[p].at \in {"scan", "list"} => call[p].pos < DirCount(p)
    /\ IF Readable(p, NextRead(p))
       THEN errors > 0 /\ errors' = errors - 1
       ELSE UNCHANGED errors
    /\ call' = [call EXCEPT ![p].at = "done", ![p].failed = TRUE]
    /\ UNCHANGED <<vars, rootCount>>

(* lfn_cmp: entry e holds piece k of the name.                               *)
Matches(e, name, k) ==
    e.kind = "lfn" /\ e.last = (k = Len(name)) /\ e.order = k /\ e.piece = name[k]

NotFound(p) ==
    /\ At(p, "scan") /\ call[p].pos >= DirCount(p)
    /\ End(p, NoName)
    /\ Keep

(* get_root_file, get_file: the entry with the last piece of the name ...    *)
ScanEntry(p) ==
    /\ At(p, "scan") /\ call[p].pos < DirCount(p) /\ Readable(p, call[p].pos)
    /\ LET c == call[p]
           name == Want(p) IN
       call' = [call EXCEPT ![p] =
            IF Matches(Fetched(p, c.pos), name, Len(name))
            THEN [c EXCEPT !.len = Len(name), !.i = Len(name) - 1,
                           !.at = IF Len(name) = 1 THEN "std" ELSE "rest"]
            ELSE [c EXCEPT !.pos = @ + 1]]
    /\ Keep

(* ... those with the pieces before it ...                                   *)
RestMatches(p) == At(p, "rest") /\ Readable(p, NextRead(p))
                  /\ Matches(Fetched(p, NextRead(p)), Want(p), call[p].i)
RestDiffers(p) == At(p, "rest") /\ Readable(p, NextRead(p)) /\ ~RestMatches(p)

RestEntry(p) ==
    /\ RestMatches(p)
    /\ call' = [call EXCEPT ![p].i = @ - 1, ![p].at = IF call[p].i = 1 THEN "std" ELSE "rest"]
    /\ Keep

RestBrokenPast(p) ==                        \* mutation: the entry that differs is passed over
    /\ RestDiffers(p)
    /\ call' = [call EXCEPT ![p].pos = NextRead(p) + 1, ![p].at = "scan"]
    /\ Keep

RestBroken(p) ==
    /\ RestDiffers(p)
    /\ call' = [call EXCEPT ![p].pos = NextRead(p), ![p].at = "scan"]
    /\ Keep

(* ... and the entry they name; its checksum is not compared.                *)
StdEntry(p) ==
    /\ At(p, "std") /\ Readable(p, NextRead(p))
    /\ LET c == call[p]
           e == Fetched(p, NextRead(p)) IN
       call' = [call EXCEPT ![p] =
            IF e.kind = "std"
            THEN [c EXCEPT !.cur = e, !.rest = Tail(@), !.at = "path"]
            ELSE [c EXCEPT !.pos = @ + 1, !.at = "scan"]]
    /\ Keep

-----------------------------------------------------------------------------
NoMore(p) ==
    /\ At(p, "list") /\ call[p].pos >= DirCount(p)
    /\ End(p, NoName)
    /\ Keep

ListEntryAny(p) ==                          \* mutation: every entry of a long name counts
    /\ At(p, "list") /\ call[p].pos < DirCount(p) /\ Readable(p, call[p].pos)
    /\ LET c == call[p]
           e == Fetched(p, c.pos) IN
       call' = [call EXCEPT ![p] =
            IF e.kind # "lfn" THEN [c EXCEPT !.pos = @ + 1]
            ELSE IF c.skip > 0
            THEN [c EXCEPT !.pos = @ + 1, !.skip = @ - 1]
            ELSE [c EXCEPT !.len = e.order, !.i = e.order - 1,
                           !.name = [k \in {e.order} |-> e.piece],
                           !.at = IF e.order = 1 THEN "liststd" ELSE "listrest"]]
    /\ Keep

(* read_root_dir, read_dir: a long name that begins here is passed over or   *)
(* copied (lfn_cpy) ...                                                      *)
ListEntry(p) ==
    /\ At(p, "list") /\ call[p].pos < DirCount(p) /\ Readable(p, call[p].pos)
    /\ LET c == call[p]
           e == Fetched(p, c.pos) IN
       call' = [call EXCEPT ![p] =
            IF e.kind # "lfn" \/ ~e.last THEN [c EXCEPT !.pos = @ + 1]
            ELSE IF c.skip > 0
            THEN [c EXCEPT !.pos = @ + e.order + 1, !.skip = @ - 1]
            ELSE [c EXCEPT !.len = e.order, !.i = e.order - 1,
                           !.name = [k \in {e.order} |-> e.piece],
                           !.at = IF e.order = 1 THEN "liststd" ELSE "listrest"]]
    /\ Keep

(* ... with the pieces before, whichever place they claim ...                *)
ListRest(p) ==
    /\ At(p, "listrest") /\ Readable(p, NextRead(p))
    /\ LET c == call[p]
           e == Fetched(p, NextRead(p)) IN
       call' = [call EXCEPT ![p] =
            IF e.kind = "lfn" /\ ~e.last
            THEN [c EXCEPT !.name = [k \in {e.order} \cup DOMAIN c.name |->
                                        IF k = e.order THEN e.piece ELSE c.name[k]],
                           !.i = @ - 1, !.at = IF c.i = 1 THEN "liststd" ELSE "listrest"]
            ELSE [c EXCEPT !.pos = @ + 1, !.at = "list"]]
    /\ Keep

(* ... and answered if the entry is a directory, a file, or, in the root, an *)
(* old file.  Else the next name is answered in its place.                   *)
TypeOf(e, root) ==
    CASE e.kind = "std" /\ e.attr = {"dir"} -> "dir"
      [] e.kind = "std" /\ e.attr = {"archive"} -> "file"
      [] e.kind = "std" /\ e.attr = {} /\ root -> "file"
      [] OTHER -> "none"

ListStd(p) ==
    /\ At(p, "liststd") /\ Readable(p, NextRead(p))
    /\ LET c == call[p]
           type == TypeOf(Fetched(p, NextRead(p)), InRoot(c)) IN
       call' = [call EXCEPT ![p] =
            IF type # "none"
            THEN [c EXCEPT !.answer = Answered([k \in 1 .. c.len |->
                                IF k \in DOMAIN c.name THEN c.name[k] ELSE "stale"], type),
                           !.at = "done"]
            ELSE [c EXCEPT !.pos = @ + 1, !.at = "list"]]
    /\ Keep

-----------------------------------------------------------------------------
(* read_cluster takes over for a file that was found, whatever clusters it   *)
(* has.  It shares nothing with the walks: it goes on when they are done.    *)
ReadFound(p) ==
    /\ At(p, "done") /\ call[p].answer.type = "data"
    /\ \A q \in Callers : call[q].at \in {"out", "done"}
    /\ Open
    /\ call' = [q \in Callers |-> Outside]
    /\ errors' = 0
    /\ UNCHANGED rootCount

Walk(p) ==
    \/ Call(p) \/ SkipEmpty(p) \/ EnterDir(p) \/ NotDir(p) \/ ReadNamed(p) \/ ListNamed(p)
    \/ CountClusters(p) \/ BadRead(p)
    \/ ScanEntry(p) \/ RestEntry(p) \/ RestBroken(p) \/ StdEntry(p) \/ NotFound(p)
    \/ ListEntry(p) \/ ListRest(p) \/ ListStd(p) \/ NoMore(p)
    \/ ReadFound(p)

FatNext == (\E p \in Callers : Walk(p)) \/ (Next /\ UNCHANGED tree)

FatSpec == FatInit /\ [][FatNext]_fatVars

-----------------------------------------------------------------------------
(* A long name and its entry, from entry k of a directory on.                *)
RunAt(dir, k) ==
    /\ dir[k].kind = "lfn" /\ dir[k].last
    /\ LET std == k + dir[k].order IN
       /\ std <= Len(dir) /\ dir[std].kind = "std"
       /\ \A j \in k + 1 .. std - 1 :
            dir[j].kind = "lfn" /\ ~dir[j].last /\ dir[j].order = std - j
Sums(dir, k) == \A j \in k .. k + dir[k].order : dir[j].sum = dir[k].sum
NameAt(dir, k) == [j \in 1 .. dir[k].order |-> dir[k + dir[k].order - j].piece]
StdAt(dir, k) == dir[k + dir[k].order]
Runs(dir) == {k \in DOMAIN dir : RunAt(dir, k)}

DirOf(e) == IF e.kind = "root" THEN volume.root ELSE volume.dirs[e.id]
Find(e, name) ==
    LET ks == {k \in Runs(DirOf(e)) : Sums(DirOf(e), k) /\ NameAt(DirOf(e), k) = name}
    IN  IF "dir" \notin e.attr \/ ks = {} THEN Deleted
        ELSE StdAt(DirOf(e), CHOOSE k \in ks : \A j \in ks : k <= j)

(* What a path names, by the format's rules.                                 *)
Named(path) ==
    LET to[k \in 0 .. Len(path)] ==
            IF k = 0 THEN RootEntry
            ELSE LET e == to[k - 1] IN IF path[k] = <<>> THEN e ELSE Find(e, path[k])
    IN  to[Len(path)]

(* A long name of the path stands before an entry it does not belong to: a   *)
(* system without long names has put it there.                               *)
Dirs == {volume.root} \cup {volume.dirs[d] : d \in DOMAIN volume.dirs}
Orphan(path) == \E dir \in Dirs : \E k \in Runs(dir) :
    ~Sums(dir, k) /\ \E i \in DOMAIN path : NameAt(dir, k) = path[i]

(* fat_read reads the file its path names by the rules of the format, and    *)
(* answers -1 for what is none, past deleted entries, broken long names and  *)
(* other processes' walks; unless a read fails, a stale long name stands     *)
(* before another entry, or another process could not count the root.        *)
PathFound == \A p \in Callers :
    call[p].at = "done" /\ call[p].op = "read" /\ ~call[p].failed /\ ~Orphan(call[p].asked) =>
        LET e == Named(call[p].asked) IN
        call[p].answer = IF "archive" \in e.attr THEN Answered(<<e.id>>, "data") ELSE NoName

(* Every long name stands whole before its entry, and every such entry is of *)
(* a type that is listed.                                                    *)
Tidy(dir, root) ==
    /\ \A k \in DOMAIN dir : dir[k].kind = "lfn" =>
          \E r \in Runs(dir) : Sums(dir, r) /\ k \in r .. r + dir[r].order - 1
    /\ \A k \in Runs(dir) : TypeOf(StdAt(dir, k), root) # "none"

(* Asked for place after place, fat_readdir answers the long names of a tidy *)
(* directory in their order, each once with its type, and then none; unless  *)
(* a read fails, the path leads through a file, or one of its names stands   *)
(* before an entry it does not belong to, which may be another directory.    *)
ListingExact == \A p \in Callers :
    LET e == Named(call[p].asked)
        root == e.kind = "root"
        dir == DirOf(e)
        place == call[p].place
    IN
    /\ call[p].at = "done" /\ call[p].op = "list" /\ ~call[p].failed
    /\ ~Orphan(call[p].asked) /\ "dir" \in e.attr /\ Tidy(dir, root)
    =>
            IF place >= Cardinality(Runs(dir)) THEN call[p].answer = NoName
            ELSE \E k \in Runs(dir) :
                    /\ Cardinality({j \in Runs(dir) : j < k}) = place
                    /\ call[p].answer = Answered(NameAt(dir, k), TypeOf(StdAt(dir, k), root))
=============================================================================
